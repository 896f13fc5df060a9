CONSTANTS
    Users = {u1, u2}
    Requests = {r1, r2}
    None = None
    Messages = {m1, m2}
    Readers = {u1}
    Groups = {g1}
    Sockets = {s1}
    MaxPosts = 1
    Endpoints = {e1, e2}
    Nodes = {n1, n2, n3}
    Events = {v1}
    MaxPublish = 2
SPECIFICATION MCSpec
SYMMETRY Symmetry
INVARIANTS TypesOK SenderSeesOwnMessages RemovedLeavesTheList RoomsFollowMembership EndpointHasOneUser NoEcho
CHECK_DEADLOCK FALSE
