SPECIFICATION RpSpec
CONSTANTS
    c1 = c1
    c2 = c2
    a = a
    b = b
    good = good
    bad = bad
    site = site
    other = other
    Null = Null
    Clients = {c1}
    Names = {a}
    Tickets = {good}
    Hosts = {site, other}
    ServerTicket = good
    ServerIds = {site}
    UserVerification = "PREFERRED"
    ResidentKey = "PREFERRED"
    Attestation = "DIRECT"
    MaxExclude = 1
    MaxAllow = 1
    MaxEpisodes = 2
    WriteFaults = TRUE
    ReadFaults = TRUE
    AuthenticatorIds = {101, 102}
    Counts = {0, 1}
    MaxRandom = 7
INVARIANTS
    OwnersExist
CHECK_DEADLOCK FALSE
