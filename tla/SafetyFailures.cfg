CONSTANTS
    c1 = c1
    c2 = c2
    c3 = c3
    alice = alice
    bob = bob
    longname = longname
    MaxClients = 1
    Conns = {c1, c2, c3}
    Names = {alice, bob, longname}
    UserOf <- MCUserLong
    NameLength <- MCNameLength
    ServerPrefixed = {bob}
    Handles = {h1, h2}
    InfoLogged = FALSE
    CallsMayFail = TRUE
    TypedKinds = {"text", "invalid"}
    Killable = {c1, c2}
    Misreading = {c1, c2}
    MaxInFlight = 1
    NoName = NoName
    NoSock = NoSock
    NoConn = NoConn
    NoMsg = NoMsg
SYMMETRY HandleSymmetry
SPECIFICATION Spec
INVARIANTS TypeOK NoLostWakeup
