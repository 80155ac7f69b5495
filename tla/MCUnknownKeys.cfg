SPECIFICATION ConversionsSpec
CONSTANTS
    Subjects = {"packets"}
    Empty = empty
    Width = 3
    Typed <- MCTyped
    Outgoing <- MCOutgoing
    NewKeys <- MCNewKeys
    NewValues <- MCNewValues
    Null = null
    IdLengths <- MCIdLengths
    CertLengths <- MCCertLengths
    HostLength = 253
    ClientDataLength = 400
    original = original
    copy = copy
    Base = 2
    Devices = {original, copy}
    Owner = original
    MaxLogins = 2
    ByteValues = {0, 62, 251, 255}
    Lengths = {1, 2, 3, 4, 5}
    Domains <- MCDomains
    PublicSuffixes <- MCPublicSuffixes
PROPERTIES
    GracefulWithUnknownKeys
CHECK_DEADLOCK FALSE
