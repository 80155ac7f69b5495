----------------------------- MODULE Enrolments -----------------------------
(***************************************************************************)
(* What fits.  An account grows by one credential with every registration; *)
(* the registration request carries all its credential ids as the exclude  *)
(* list, the authentication request all of them as the allow list, and     *)
(* every packet has to fit into the buffers of serialize.c.  One action is *)
(* a whole ceremony: what the two sides build, seal and parse, with the    *)
(* sizes the code gives each field.                                        *)
(***************************************************************************)
EXTENDS Packets

CONSTANTS
    IdLengths,      \* lengths of the credential ids authenticators choose
    CertLengths,    \* lengths of their attestation certificates
    HostLength,     \* length of RP id and RP name
    ClientDataLength,
    Null

ASSUME EnrolmentsAssumption ==
    /\ IdLengths \subseteq Nat \ {0} /\ CertLengths \subseteq Nat \ {0}
    /\ HostLength \in NameLengths /\ ClientDataLength \in ClientDataLengths

VARIABLES
    ids,            \* credential ids in the table, in the order of enrolment
    made,           \* the last credential an authenticator has made, or Null
    excluded,       \* exclude list of the last request a client has parsed, or Null
    offered         \* allow list of the last request a client has parsed, or Null

enrolmentsVars == <<ids, made, excluded, offered>>

TagLength == 16
SignatureLength == 72               \* an ES256 signature in DER, at its longest
CredentialPublicKeyLength == 77     \* a COSE key on P-256

Field(len) == [v |-> 1, len |-> len]
Sealed(x) == Field(x.size + TagLength)

(* a packet that is built, sent and parsed *)
Delivered(p) == UNION {Parse(p.type, x) : x \in Build(p)}

(* the indication, with user display name and ticket *)
Indications ==
    UNION {Delivered([type |-> REG_INDICATION, ephUserId |-> Field(256),
                      encrypted |-> Sealed(x)])
           : x \in {y \in BuildEncryptedData([displayName |-> Field(256), ticket |-> Field(256)])
                    : ParseEncryptedData(y) # {}}}

RegRequestOver(inner) ==
    [type |-> REG_REQUEST, rpId |-> Field(HostLength), rpName |-> Field(HostLength),
     challenge |-> Field(32), params |-> <<ES256>>, encrypted |-> Sealed(inner),
     timeout |-> 60000, attachment |-> 2, residentKey |-> 1, userVerification |-> 1,
     attestation |-> 3, extensions |-> <<>>]

(* the exclude list a client gets for an account: none when it does not fit *)
ExcludeLists(known) ==
    UNION {{d.exclude : d \in ParseRegRequestEncryptedData(inner)}
           : inner \in {x \in BuildRegRequestEncryptedData(
                               [userName |-> Field(256), displayName |-> Field(256),
                                userId |-> Field(64), exclude |-> known])
                        : Delivered(RegRequestOver(x)) # {}}}

AuthRequestOver(inner) ==
    [type |-> AUTH_REQUEST, challenge |-> Field(32), timeout |-> 60000,
     rpId |-> Field(HostLength), allow |-> Sealed(inner), userVerification |-> 1,
     extensions |-> <<>>]

AllowLists(known) ==
    UNION {ParseAllowedCredentials(inner)
           : inner \in {x \in BuildAllowedCredentials(known)
                        : Delivered(AuthRequestOver(x)) # {}}}

(* what the server finds in the response for a credential with this id *)
ResponsesFor(id, cert) ==
    LET authdata == [v |-> id.v, len |-> 37 + 18 + id.len + CredentialPublicKeyLength]
    IN  UNION {AuthdataOf(x) : x \in
               {y \in BuildAttestationObject([fmt |-> AttKeys.packed, type |-> ES256,
                        sig |-> Field(SignatureLength), x5c |-> Field(cert),
                        authdata |-> authdata])
                : Delivered([type |-> REG_RESPONSE, attobj |-> Field(y.size),
                             clientdata |-> Field(ClientDataLength)]) # {}}}

(* Mutant of StorableId: any id that is not empty.                         *)
StorableIdAny(id) == id.len > 0

(* the ids process_reg_response puts into the table *)
StorableId(id) == id.len \in 1..1023

EnrolmentsStart ==
    /\ ids = <<>>
    /\ made = Null
    /\ excluded = Null
    /\ offered = Null

(* a registration: the credential is made, and stored when the response    *)
(* arrives and the server takes its id                                     *)
Register(len, cert) ==
    LET id == [v |-> Len(ids) + 1, len |-> len]
    IN  /\ Indications # {}
        /\ \E list \in ExcludeLists(ids) : excluded' = list
        /\ made' = [id |-> id, cert |-> cert]
        /\ ids' = IF ResponsesFor(id, cert) # {} /\ StorableId(id) THEN Append(ids, id) ELSE ids
        /\ UNCHANGED offered

Authenticate ==
    /\ ids # <<>>
    /\ \E list \in AllowLists(ids) : offered' = list
    /\ UNCHANGED <<ids, made, excluded>>

EnrolmentsNext ==
    \/ \E len \in IdLengths, cert \in CertLengths : Register(len, cert)
    \/ Authenticate

EnrolmentsSpec == EnrolmentsStart /\ [][EnrolmentsNext]_enrolmentsVars

-----------------------------------------------------------------------------
(* A registration never takes the account beyond what a login can carry:   *)
(* the exclude list, which shares its buffer with user name and user id,   *)
(* is full first, so the allow list always fits into its buffer            *)
(* (cbor_build_allowed_credentials), and so does the packet around it.     *)
LoginPossible == ids # <<>> => AllowLists(ids) = {ids}

(* Bytes of an attestation object with a credential id and a certificate   *)
(* of these lengths, and what is left of the response that carries it.     *)
ObjectSize(len, cert) == 250 + (Head8(cert) + cert) + (Head8(132 + len) + len)
ResponseFits(len, cert) ==
    LET n == ObjectSize(len, cert)
    IN  2 + (Head8(n) + n) + (Head8(ClientDataLength) + ClientDataLength) =< 2000

(* A credential that has been made is in the table, unless the response    *)
(* with its attestation object exceeds the 2000 bytes in which the client  *)
(* encodes a packet, or the server refuses its id, of more than 1023       *)
(* bytes: then the authenticator keeps a credential that no row knows.     *)
(* Nothing else on the way (the 4048 bytes of the object, the limits of    *)
(* the parsers) costs a registration that comes to making a credential.    *)
StoredIffItFits ==
    made # Null =>
        ((\E i \in 1..Len(ids) : ids[i] = made.id)
            <=> made.id.len =< 1023 /\ ResponseFits(made.id.len, made.cert))

(* A credential is only made under an exclude list with all credentials of *)
(* the account: a list that does not fit stops the request, it is never    *)
(* shortened.                                                              *)
ExcludeComplete == [][made' # made => excluded' = ids]_enrolmentsVars
=============================================================================
