CONSTANTS
    c1 = c1
    c2 = c2
    c3 = c3
    alice = alice
    bob = bob
    longname = longname
    MaxClients = 2
    Conns = {c1, c2}
    Names = {alice, bob}
    UserOf <- MCUserTwins
    NameLength <- MCNameLength
    ServerPrefixed = {}
    Handles = {h1, h2}
    InfoLogged = TRUE
    CallsMayFail = TRUE
    TypedKinds = {}
    Killable = {}
    Misreading = {}
    MaxInFlight = 1
    NoName = NoName
    NoSock = NoSock
    NoConn = NoConn
    NoMsg = NoMsg
SYMMETRY TwinSymmetry
SPECIFICATION Spec
INVARIANTS UniqueNames
PROPERTY ImplementsRoom
