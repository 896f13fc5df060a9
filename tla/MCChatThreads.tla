--------------------------- MODULE MCChatThreads ---------------------------
(* ChatThreads for TLC: threads and rows are interchangeable.               *)
EXTENDS ChatThreads, TLC

Symmetry == Permutations(Threads) \cup Permutations(Messages)
=============================================================================
