-------------------------------- MODULE Wire --------------------------------
(***************************************************************************)
(* One packet on its way: a side builds it (cbor_build), the extension     *)
(* carries it, the other side looks at the type (get_packet_type) and      *)
(* parses it (cbor_parse).  The peer may also be a later version of the    *)
(* protocol, which adds a pair with a key this one does not know to the    *)
(* map of optional values.                                                 *)
(***************************************************************************)
EXTENDS Packets

CONSTANTS
    Outgoing,       \* packets the two sides may want to send
    NewKeys,        \* keys of a later version, none of RegKeys
    NewValues       \* items these keys may have as values

(* A field of a packet, and an extension of a request.                     *)
BlobsOf(lengths) == [v : Nat, len : lengths]
Blobs == BlobsOf(Nat)
Extension == [id : BlobsOf(NameLengths), data : BlobsOf(ExtensionDataLengths)]

(* The packets of rp.c and ud.c: required fields have the lengths the      *)
(* parsers ask for, optional numbers are those of the enumerations in      *)
(* types.h, with 0 for "not set".                                          *)
RegRequests ==
    [type : {REG_REQUEST}, rpId : BlobsOf(NameLengths), rpName : BlobsOf(NameLengths),
     challenge : BlobsOf(ChallengeLengths), params : Seq(Int) \ {<<>>}, encrypted : Blobs,
     timeout : Nat, attachment : 0 .. 2, residentKey : 0 .. 3, userVerification : 0 .. 3,
     attestation : 0 .. 4, extensions : Seq(Extension)]
AuthRequests ==
    [type : {AUTH_REQUEST}, challenge : Blobs, timeout : Nat, rpId : Blobs, allow : Blobs,
     userVerification : 0 .. 3, extensions : Seq(Extension)]
AuthResponses ==
    [type : {AUTH_RESPONSE}, clientdata : Blobs, authdata : Blobs, signature : Blobs,
     userHandle : Blobs, credId : Blobs]
RegResponses ==
    [type : {REG_RESPONSE}, attobj : BlobsOf(AttObjLengths), clientdata : BlobsOf(ClientDataLengths)]
PreResponses == [type : {PRE_RESPONSE}, ephUserId : Blobs, gcmKey : Blobs]
SealedIndications ==
    [type : {REG_INDICATION, AUTH_INDICATION_SERVER_SIDE}, ephUserId : BlobsOf({256}),
     encrypted : Blobs]
BareIndications == [type : {PRE_INDICATION, AUTH_INDICATION_DISCOVERABLE}]

ASSUME WireAssumption ==
    /\ Outgoing \subseteq RegRequests \cup AuthRequests \cup AuthResponses \cup RegResponses
         \cup PreResponses \cup SealedIndications \cup BareIndications
    /\ NewKeys \subseteq Nat \ {RegKeys[k] : k \in DOMAIN RegKeys}

VARIABLES
    sent,           \* the packet to send
    wire,           \* the item on the wire, in a set; {} when the packet was not built
    extended,       \* a later version has added a pair
    got             \* what the receiver parsed: a set of at most one packet

wireVars == <<sent, wire, extended, got>>

Nothing == [type |-> UNDEFINED]

(* Optional fields a sender leaves out come back as the defaults the       *)
(* parser of the registration request puts in (serialize.c:370-373).       *)
Default(value, default) == IF value = 0 THEN default ELSE value
Received(p) ==
    IF p.type # REG_REQUEST THEN p
    ELSE [p EXCEPT !.residentKey = Default(@, 1), !.userVerification = Default(@, 2),
                   !.attestation = Default(@, 1)]

(* position of the map of optional values in the packets that have one *)
MapAt == [t \in {REG_REQUEST, AUTH_REQUEST, AUTH_RESPONSE} |->
            CASE t = REG_REQUEST -> 7 [] t = AUTH_REQUEST -> 3 [] t = AUTH_RESPONSE -> 5]
HasMap(x) == /\ x.s[1].n \in DOMAIN MapAt
             /\ Len(x.s) = MapAt[x.s[1].n]

WithPair(x, k, value, first) ==
    LET i == MapAt[x.s[1].n]
        new == <<Number(k), value>>
        pairs == IF first THEN new \o x.s[i].s ELSE x.s[i].s \o new
    IN  Arr(x.n, [x.s EXCEPT ![i] = PairsOf(pairs)])

WireStart ==
    /\ sent = Nothing
    /\ wire = {}
    /\ extended = FALSE
    /\ got = {}

Send(p) ==
    /\ sent = Nothing
    /\ sent' = p
    /\ wire' = Build(p)
    /\ UNCHANGED <<extended, got>>

Extend(k, value, first) ==
    /\ ~extended /\ got = {}
    /\ \E x \in wire : /\ HasMap(x)
                       /\ wire' = {WithPair(x, k, value, first)}
    /\ extended' = TRUE
    /\ UNCHANGED <<sent, got>>

(* each parse callback asks for the type first and then for that packet *)
Receive ==
    /\ wire # {} /\ got = {}
    /\ \E x \in wire : \E type \in GetPacketType(x) : got' = Parse(type, x)
    /\ wire' = {}
    /\ UNCHANGED <<sent, extended>>

WireNext ==
    \/ \E p \in Outgoing : Send(p)
    \/ \E k \in NewKeys, value \in NewValues, first \in BOOLEAN : Extend(k, value, first)
    \/ Receive

WireSpec == WireStart /\ [][WireNext]_wireVars

-----------------------------------------------------------------------------
(* What is parsed is what was built: no field is lost, exchanged with      *)
(* another or read under the wrong key, whichever optional fields are set  *)
(* (cbor_build and cbor_parse agree).                                      *)
RoundTrip ==
    [][wire # {} /\ wire' = {} /\ ~extended => got' = {Received(sent)}]_wireVars

(* A registration request with an option of a later version is understood  *)
(* as if the option were not there (serialize.c:554-557).                  *)
RegRequestExtensible ==
    [][wire # {} /\ wire' = {} /\ sent.type = REG_REQUEST
        => got' = {Received(sent)}]_wireVars

(* The same for the two authentication packets, as the comment of their    *)
(* parsers has it: "the fido spec mandates to be graceful with unknown     *)
(* keys" (serialize.c:774-776, 867-869).  The parser passes over the key   *)
(* and takes the value for the next key.                                   *)
GracefulWithUnknownKeys ==
    [][wire # {} /\ wire' = {} /\ sent.type \in {AUTH_REQUEST, AUTH_RESPONSE}
        => got' = {Received(sent)}]_wireVars
=============================================================================
