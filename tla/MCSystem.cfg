SPECIFICATION Spec
CONSTANTS
    a = a
    b = b
    c1 = c1
    c2 = c2
    key1 = key1
    key2 = key2
    good = good
    bad = bad
    login = login
    example = example
    Null = Null
    MaxRandom = 12
    Clients = {c1, c2}
    Devices = {key1, key2}
    Attached <- MCAttached
    ValidFor <- MCValidFor
    LaunchOptions <- MCEverything
    Orphans = TRUE
    MaxLaunches = 4
    Names = {a, b}
    Tickets = {good, bad}
    Hosts = {login, example}
    ServerTicket = good
    ServerIds = {login}
    UserVerification = "PREFERRED"
    ResidentKey = "PREFERRED"
    Attestation = "DIRECT"
    MaxExclude = 2
    MaxAllow = 2
    MaxEpisodes = 3
    WriteFaults = TRUE
    ReadFaults = FALSE
    Lossy = {c1, c2}
INVARIANTS
    HandshakeMeansCeremony
    RequestIsOutstanding
    ClientAssertsHold
    EnrolledCredentialsUsable
PROPERTIES
    TicketGuardsEnrolment
CHECK_DEADLOCK FALSE
