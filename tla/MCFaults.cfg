SPECIFICATION FairSealingSpec
CONSTANTS
    a = a
    b = b
    c1 = c1
    c2 = c2
    key1 = key1
    key2 = key2
    good = good
    bad = bad
    login = login
    example = example
    Null = Null
    MaxRandom = 14
    Clients = {c1, c2}
    Devices = {key1, key2}
    Attached <- MCAttached
    ValidFor <- MCValidFor
    LaunchOptions <- MCOneNameAndPlain
    Orphans = TRUE
    MaxLaunches = 3
    Names = {a, b}
    Tickets = {good, bad}
    Hosts = {login, example}
    ServerTicket = good
    ServerIds = {login}
    UserVerification = "PREFERRED"
    ResidentKey = "DISCOURAGED"
    Attestation = "DIRECT"
    MaxExclude = 1
    MaxAllow = 2
    MaxEpisodes = 3
    WriteFaults = TRUE
    ReadFaults = FALSE
    Lossy = {c1, c2}
INVARIANTS
    OneCredentialPerAuthenticator
    IvUniquePerKey
PROPERTIES
    HandshakesEnd
CHECK_DEADLOCK FALSE
