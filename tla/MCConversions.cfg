SPECIFICATION ConversionsSpec
CONSTANTS
    Subjects = {"names", "packets", "enrolments", "counter", "encodings", "rp ids"}
    Empty = empty
    Width = 3
    Typed <- MCTyped
    Outgoing <- MCOutgoing
    NewKeys <- MCNewKeys
    NewValues <- MCNewValues
    Null = null
    IdLengths <- MCIdLengths
    CertLengths <- MCCertLengths
    HostLength = 253
    ClientDataLength = 400
    original = original
    copy = copy
    Base = 2
    Devices = {original, copy}
    Owner = original
    MaxLogins = 2
    ByteValues = {0, 62, 251, 255}
    Lengths = {1, 2, 3, 4, 5}
    Domains <- MCDomains
    PublicSuffixes <- MCPublicSuffixes
INVARIANTS
    NameArrives
    LoginPossible
    StoredIffItFits
    BytesArrive
    PaddingFits
    ValidIffRegistrable
PROPERTIES
    RoundTrip
    RegRequestExtensible
    ExcludeComplete
    NoCounterTwice
    OwnerIsServed
CHECK_DEADLOCK FALSE
