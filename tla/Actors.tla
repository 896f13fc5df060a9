------------------------------- MODULE Actors -------------------------------
(* What the components below the core have in common: who calls them.       *)

CONSTANTS
    Users,     \* accounts
    Readers,   \* bound: those among them who ask for their cached lists
    Requests,  \* concurrent HTTP requests of one component
    None       \* absence of a value

ASSUME ActorsAssumption == Readers \subseteq Users
=============================================================================
