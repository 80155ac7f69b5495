SPECIFICATION RpSpec
CONSTANTS
    c1 = c1
    c2 = c2
    a = a
    b = b
    good = good
    bad = bad
    site = site
    other = other
    Null = Null
    Clients = {c1, c2}
    Names = {a, b}
    Tickets = {good, bad}
    Hosts = {site, other}
    ServerTicket = good
    ServerIds = {site}
    UserVerification = "REQUIRED"
    ResidentKey = "PREFERRED"
    Attestation = "DIRECT"
    MaxExclude = 0
    MaxAllow = 1
    MaxEpisodes = 3
    WriteFaults = TRUE
    ReadFaults = FALSE
    AuthenticatorIds = {101}
    Counts = {0, 1}
    MaxRandom = 6
INVARIANTS
    IInv
    DatabaseConsistent
    ClosedHandleUnused
    AcceptedOnce
    LoginsAreEnrolled
    AssertsHold
    SnapshotsCurrent
PROPERTIES
    SignCountNeverDecreases
    ImplementsAccountService
SYMMETRY Symmetry
CHECK_DEADLOCK FALSE
