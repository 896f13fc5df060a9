--------------------------- MODULE MCProjectFiles ---------------------------
(* ProjectFiles for TLC: requests, files and paths are interchangeable.     *)
EXTENDS ProjectFiles, TLC

Symmetry == Permutations(Requests) \cup Permutations(Files) \cup Permutations(Paths)
=============================================================================
