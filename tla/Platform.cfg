CONSTANTS
    Users = {u1, u2}
    Requests = {r1, r2}
    None = None
    Readers = {}
    Clients = {c1}
    Codes = {k1}
    RedirectUris = {d1}
    Scopes = {x1}
    Usernames = {f1, f2}
    Fields = {f1, f2}
    MaxRows = 2
    MaxValue = 1
    Secrets = {s1, s2}
    Batches = {b1, b2}
    CodeNumbers = {p1, p2}
    Allowance = 3
    MaxQueries = 2
    Keys = {y1, y2}
    Jobs = {j1, j2, j3, j4}
    MaxInstructions = 2
    Applications = {a1}
    Models = {g1, g2}
    Selector = g2
    AgentModel = g2
    Prices = {1, 2}
    MaxUsages = 3
    EnumModels = {g1, g2}
    OtherModels = {g3}
    PriceRows = {p1, p2, p3}
    MaxByHand = 1
    Addresses = {w1, w2}
    MaxSources = 2
    MaxLength = 1
    MaxTotal = 2
    ConcurrencyLimit = 1
    Retries = 1
    Node = {1, 2}
    MaxMessages = 1
    MaxWrites = 1
    Feeds = {f1, f2}
    Articles = {l1}
    Rows = {o1, o2}
    PartNames = {n1, n2}
    Values = {f1, f2}
    Items = {i1}
    Titles = {n1, n2}
    PipePaths = {q1, q2}
    MaxContents = 3
    MaxCalls = 3
SPECIFICATION MCSpec
SYMMETRY Symmetry
INVARIANTS PlatformTypesOK GrantsAreSingle UserDataHolds ConversationHolds BillingHolds SearchHolds ClusterHolds
CHECK_DEADLOCK FALSE
