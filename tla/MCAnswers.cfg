SPECIFICATION FairSpec
CONSTANTS
    a = a
    b = b
    c1 = c1
    c2 = c2
    key1 = key1
    key2 = key2
    good = good
    bad = bad
    login = login
    example = example
    Null = Null
    MaxRandom = 20
    Clients = {c1, c2}
    Devices = {key1, key2}
    Attached <- MCAttached
    ValidFor <- MCValidFor
    LaunchOptions <- MCOneName
    Orphans = TRUE
    MaxLaunches = 3
    Names = {a, b}
    Tickets = {good, bad}
    Hosts = {login, example}
    ServerTicket = good
    ServerIds = {login}
    UserVerification = "PREFERRED"
    ResidentKey = "PREFERRED"
    Attestation = "DIRECT"
    MaxExclude = 2
    MaxAllow = 2
    MaxEpisodes = 3
    WriteFaults = FALSE
    ReadFaults = FALSE
    Lossy = {c1}
PROPERTIES
    RefusedForCause
    PreparedCeremonySucceeds
CHECK_DEADLOCK FALSE
