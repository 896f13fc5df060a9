----------------------------- MODULE FileHistory -----------------------------
(***************************************************************************)
(* What the versioned files of a project promise their editors: the         *)
(* history of a file is a sequence of contents that only grows at its end.  *)
(* Every editing operation appends one content, reverting and deleting      *)
(* included; only deleting the whole project discards histories.            *)
(***************************************************************************)
EXTENDS Sequences

CONSTANTS Files, Contents

VARIABLES history   \* history[f]: the contents of f, oldest first

Init == history = [f \in Files |-> <<>>]

\* One request creates the files F, each with a first content.
Create(F) ==
    /\ \A f \in F : history[f] = <<>>
    /\ \E first \in [F -> Contents] :
         history' = [f \in Files |-> IF f \in F THEN <<first[f]>> ELSE history[f]]

Commit(f) ==
    /\ history[f] # <<>>
    /\ \E c \in Contents : history' = [history EXCEPT ![f] = Append(@, c)]

DiscardAll == history' = [f \in Files |-> <<>>]

Next ==
    \/ \E F \in SUBSET Files : Create(F)
    \/ \E f \in Files : Commit(f)
    \/ DiscardAll

Spec == Init /\ [][Next]_history
=============================================================================
