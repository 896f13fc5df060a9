--------------------------- MODULE MCAuthSessions ---------------------------
(* AuthSessions for TLC: rows, requests and passwords are interchangeable.  *)
EXTENDS AuthSessions, TLC

Symmetry == Permutations(Sessions) \cup Permutations(Resets)
               \cup Permutations(Requests) \cup Permutations(Passwords)

\* Bound: rows created, of sessions and of resets together: three.
Stores ==
    Cardinality({s \in Sessions : Stored(s)})
        + Cardinality({e \in Resets : passwordReset[e] # None})

MCSpec == Init /\ [][Next /\ Stores' <= 3]_vars
=============================================================================
