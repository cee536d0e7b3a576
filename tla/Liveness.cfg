CONSTANTS
    c1 = c1
    c2 = c2
    c3 = c3
    alice = alice
    bob = bob
    longname = longname
    MaxClients = 1
    Conns = {c1, c2}
    Names = {alice, bob}
    UserOf <- MCUserPair
    NameLength <- MCNameLength
    ServerPrefixed = {}
    Handles = {h1, h2}
    InfoLogged = TRUE
    CallsMayFail = FALSE
    TypedKinds = {}
    Killable = {c1, c2}
    Misreading = {}
    MaxInFlight = 1
    NoName = NoName
    NoSock = NoSock
    NoConn = NoConn
    NoMsg = NoMsg
SPECIFICATION FairSpec
PROPERTIES ServerStops QueueDrains LookupEnds HandlersReaped
