SPECIFICATION UdSpec
CONSTANTS
    a = a
    b = b
    c1 = c1
    key = key
    ticket = ticket
    login = login
    example = example
    evil = evil
    Null = Null
    MaxRandom = 6
    Clients = {c1}
    Devices = {key}
    Attached <- MCAttached
    ValidFor <- MCValidFor
    LaunchOptions <- MCLaunchOptions
    Orphans = TRUE
    MaxLaunches = 2
    Names = {a, b}
    Tickets = {ticket}
    Hosts = {login, example, evil}
    UserVerification = "PREFERRED"
    ResidentKey = "PREFERRED"
    Ids = {1}
    ServerKeys <- MCServerKeys
    SentCreds = {1, 2}
INVARIANTS
    UdIInv
    OneOperationPerLaunch
PROPERTIES
    ScopedToHost
CHECK_DEADLOCK FALSE
