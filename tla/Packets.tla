------------------------------ MODULE Packets ------------------------------
(***************************************************************************)
(* The packets of fidoSSL as CBOR: cbor_build and cbor_parse of            *)
(* src/serialize.c for the nine packets, the three arrays that travel      *)
(* encrypted inside them, and the attestation object.                      *)
(*                                                                         *)
(* A string is a blob [v, len]: an abstract value and its length in bytes. *)
(* A CBOR item is a record with its type t; n is the integer, the value of *)
(* a string, or the number of elements a container declares; s are the     *)
(* elements of a container, keys and values of a map in turn; size counts  *)
(* the bytes of its encoding, and whole says that every container in it    *)
(* holds what its head declares.  Building and parsing return a set of at  *)
(* most one result, {} for the return value -1.                            *)
(***************************************************************************)
EXTENDS Integers, Sequences

(* packet types (enum packet_type) and the keys of optional maps *)
UNDEFINED == 0
PRE_INDICATION == 1
PRE_RESPONSE == 2
REG_INDICATION == 3
REG_REQUEST == 4
REG_RESPONSE == 5
AUTH_INDICATION_DISCOVERABLE == 6
AUTH_INDICATION_SERVER_SIDE == 7
AUTH_REQUEST == 8
AUTH_RESPONSE == 9

RegKeys == [timeout |-> 1, authSel |-> 2, attestation |-> 4, extensions |-> 5]
SelKeys == [attachment |-> 1, residentKey |-> 2, userVerification |-> 3]
AuthKeys == [timeout |-> 1, rpId |-> 2, allow |-> 3, userVerification |-> 4,
             extensions |-> 5]
ResponseKeys == [userHandle |-> 1, credId |-> 2]

BufSize == 2000
EncDataBufSize == 1000
AttObjBufSize == 4048

(* the lengths the parsers accept *)
NameLengths == 1..256
ChallengeLengths == 16..64
ExtensionDataLengths == 1..4096
AttObjLengths == 1..8192
ClientDataLengths == 1..2048

PublicKey == 1
ES256 == -7

Absent == [v |-> 0, len |-> 0]          \* a NULL pointer

-----------------------------------------------------------------------------
(* CBOR items, and the encoder of tinyCBOR as far as the code relies on it *)

(* bytes of the head of an item whose count, length or magnitude is n *)
Head8(n) == IF n < 24 THEN 1 ELSE IF n < 256 THEN 2 ELSE IF n < 65536 THEN 3 ELSE 5

AddSize(sum, x) == sum + x.size
Sizes == INSTANCE Iteration WITH Step <- AddSize

Leaf(t, n, len, size) ==
    [t |-> t, n |-> n, len |-> len, s |-> <<>>, size |-> size, whole |-> TRUE]
Container(t, n, s, elements) ==
    [t |-> t, n |-> n, len |-> 0, s |-> s, size |-> Sizes!Iterate(Head8(n), s),
     whole |-> Len(s) = elements /\ \A i \in 1..Len(s) : s[i].whole]

Number(n) == Leaf("int", n, 0, Head8(IF n < 0 THEN -1 - n ELSE n))
Bytes(b) == Leaf("bytes", b.v, b.len, Head8(b.len) + b.len)
Text(b) == Leaf("text", b.v, b.len, Head8(b.len) + b.len)
Arr(n, s) == Container("array", n, s, n)
MapOf(n, s) == Container("map", n, s, 2 * n)
End == Leaf("end", 0, 0, 0)

IsInt(x) == x.t = "int"
IsUint(x) == x.t = "int" /\ x.n >= 0
IsBytes(x) == x.t = "bytes"
IsText(x) == x.t = "text"
IsArray(x) == x.t = "array"
IsMap(x) == x.t = "map"
Blob(x) == [v |-> x.n, len |-> x.len]

At(s, i) == IF i <= Len(s) THEN s[i] ELSE End

(* closing the outermost container fails when anything before it did not fit *)
Encode(size, x) == IF x.whole /\ x.size <= size THEN {x} ELSE {}

-----------------------------------------------------------------------------
(* Packets as the two sides fill them in.  Zero and Absent are "not set".  *)

Pair(set, key, value) == IF set THEN <<Number(key), value>> ELSE <<>>
PairsOf(s) == MapOf(Len(s) \div 2, s)

ExtensionMap(exts) ==
    PairsOf([i \in 1..2 * Len(exts) |-> IF i % 2 = 1 THEN Text(exts[(i + 1) \div 2].id)
                                                    ELSE Bytes(exts[i \div 2].data)])

Descriptors(ids) ==
    Arr(Len(ids), [i \in 1..Len(ids) |-> Arr(2, <<Number(PublicKey), Bytes(ids[i])>>)])

BuildRegRequest(p) ==
    LET sel == Pair(p.attachment # 0, SelKeys.attachment, Number(p.attachment))
               \o Pair(p.residentKey # 0, SelKeys.residentKey, Number(p.residentKey))
               \o Pair(p.userVerification # 0, SelKeys.userVerification, Number(p.userVerification))
        opt == Pair(p.timeout # 0, RegKeys.timeout, Number(p.timeout))
               \o Pair(sel # <<>>, RegKeys.authSel, PairsOf(sel))
               \o Pair(p.attestation # 0, RegKeys.attestation, Number(p.attestation))
               \o Pair(p.extensions # <<>>, RegKeys.extensions, ExtensionMap(p.extensions))
        params == [i \in 1..Len(p.params) |-> Arr(2, <<Number(PublicKey), Number(p.params[i])>>)]
    IN  Arr(IF opt # <<>> THEN 7 ELSE 6,
            <<Number(REG_REQUEST), Text(p.rpId), Text(p.rpName), Bytes(p.challenge),
              Arr(Len(params), params), Bytes(p.encrypted)>>
            \o (IF opt # <<>> THEN <<PairsOf(opt)>> ELSE <<>>))

(* Mutant of BuildAuthRequest: the key of the registration's map.          *)
BuildAuthRequestOtherKey(p) ==
    LET opt == Pair(p.timeout # 0, AuthKeys.timeout, Number(p.timeout))
               \o Pair(p.userVerification # 0, SelKeys.userVerification,
                       Number(p.userVerification))
    IN  Arr(IF opt # <<>> THEN 3 ELSE 2,
            <<Number(AUTH_REQUEST), Bytes(p.challenge)>>
            \o (IF opt # <<>> THEN <<PairsOf(opt)>> ELSE <<>>))

BuildAuthRequest(p) ==
    LET opt == Pair(p.timeout # 0, AuthKeys.timeout, Number(p.timeout))
               \o Pair(p.rpId # Absent, AuthKeys.rpId, Text(p.rpId))
               \o Pair(p.allow # Absent, AuthKeys.allow, Bytes(p.allow))
               \o Pair(p.userVerification # 0, AuthKeys.userVerification, Number(p.userVerification))
               \o Pair(p.extensions # <<>>, AuthKeys.extensions, ExtensionMap(p.extensions))
    IN  Arr(IF opt # <<>> THEN 3 ELSE 2,
            <<Number(AUTH_REQUEST), Bytes(p.challenge)>>
            \o (IF opt # <<>> THEN <<PairsOf(opt)>> ELSE <<>>))

(* five elements are declared, whether or not there is a map *)
BuildAuthResponse(p) ==
    LET opt == Pair(p.userHandle # Absent, ResponseKeys.userHandle, Bytes(p.userHandle))
               \o Pair(p.credId # Absent, ResponseKeys.credId, Bytes(p.credId))
    IN  Arr(5, <<Number(AUTH_RESPONSE), Text(p.clientdata), Bytes(p.authdata), Bytes(p.signature)>>
               \o (IF opt # <<>> THEN <<PairsOf(opt)>> ELSE <<>>))

Build(p) ==
    CASE p.type = PRE_RESPONSE ->
           IF p.ephUserId.len = 256 /\ p.gcmKey.len = 32
           THEN Encode(BufSize, Arr(3, <<Number(p.type), Bytes(p.ephUserId), Bytes(p.gcmKey)>>))
           ELSE {}
      [] p.type \in {PRE_INDICATION, AUTH_INDICATION_DISCOVERABLE} ->
           Encode(BufSize, Arr(1, <<Number(p.type)>>))
      [] p.type \in {REG_INDICATION, AUTH_INDICATION_SERVER_SIDE} ->
           Encode(BufSize, Arr(3, <<Number(p.type), Bytes(p.ephUserId), Bytes(p.encrypted)>>))
      [] p.type = REG_REQUEST -> Encode(BufSize, BuildRegRequest(p))
      [] p.type = REG_RESPONSE ->
           Encode(BufSize, Arr(3, <<Number(p.type), Bytes(p.attobj), Text(p.clientdata)>>))
      [] p.type = AUTH_REQUEST -> Encode(BufSize, BuildAuthRequest(p))
      [] p.type = AUTH_RESPONSE -> Encode(BufSize, BuildAuthResponse(p))

-----------------------------------------------------------------------------
(* The optional maps: what each parser makes of their keys and values.     *)

Between == -1

When(condition, S) == IF condition THEN S ELSE {}

(* Mutant of UintKey: as in the authentication packets.                    *)
UintKeyPassedOver(x) == When(IsUint(x), {IF x.n \in 1..5 THEN x.n ELSE Between})

UintKey(x) == When(IsUint(x), {x.n})

(* an unknown key of the authentication packets is passed over, its value is not *)
KnownKey(known, x) == When(IsInt(x), IF x.n \in known THEN {x.n} ELSE {Between})
AuthRequestKey(x) == KnownKey({AuthKeys[k] : k \in DOMAIN AuthKeys}, x)
AuthResponseKey(x) == KnownKey({ResponseKeys[k] : k \in DOMAIN ResponseKeys}, x)

ExtensionsOk(s) ==
    \A i \in 1..Len(s) : IF i % 2 = 1 THEN IsText(s[i]) /\ s[i].len \in NameLengths
                                      ELSE IsBytes(s[i]) /\ s[i].len \in ExtensionDataLengths
ExtensionsOf(s) == [i \in 1..Len(s) \div 2 |-> [id |-> Blob(s[2*i - 1]), data |-> Blob(s[2*i])]]
WithExtensions(x, p) ==
    When(IsMap(x) /\ ExtensionsOk(x.s), {[p EXCEPT !.extensions = ExtensionsOf(x.s)]})

Selection(key, x, p) ==
    CASE key = SelKeys.attachment -> When(IsUint(x) /\ x.n \in 1..2, {[p EXCEPT !.attachment = x.n]})
      [] key = SelKeys.residentKey -> When(IsUint(x) /\ x.n \in 1..3, {[p EXCEPT !.residentKey = x.n]})
      [] key = SelKeys.userVerification ->
           When(IsUint(x) /\ x.n \in 1..3, {[p EXCEPT !.userVerification = x.n]})
      [] OTHER -> {}

SelectionMap == INSTANCE OptionMap WITH Key <- UintKey, Value <- Selection

RegOption(key, x, p) ==
    CASE key = RegKeys.timeout -> When(IsUint(x), {[p EXCEPT !.timeout = x.n]})
      [] key = RegKeys.authSel -> When(IsMap(x), SelectionMap!ReadMap(x.s, p))
      [] key = RegKeys.attestation ->
           When(IsUint(x) /\ x.n \in 1..4, {[p EXCEPT !.attestation = x.n]})
      [] key = RegKeys.extensions -> WithExtensions(x, p)
      [] OTHER -> {p}                   \* cbor_value_advance over the value

AuthOption(key, x, p) ==
    CASE key = AuthKeys.timeout -> When(IsInt(x), {[p EXCEPT !.timeout = x.n]})
      [] key = AuthKeys.rpId -> When(IsText(x), {[p EXCEPT !.rpId = Blob(x)]})
      [] key = AuthKeys.allow -> When(IsBytes(x), {[p EXCEPT !.allow = Blob(x)]})
      [] key = AuthKeys.userVerification -> When(IsInt(x), {[p EXCEPT !.userVerification = x.n]})
      [] key = AuthKeys.extensions -> WithExtensions(x, p)

ResponseOption(key, x, p) ==
    CASE key = ResponseKeys.userHandle -> When(IsBytes(x), {[p EXCEPT !.userHandle = Blob(x)]})
      [] key = ResponseKeys.credId -> When(IsBytes(x), {[p EXCEPT !.credId = Blob(x)]})

RegOptionMap == INSTANCE OptionMap WITH Key <- UintKey, Value <- RegOption
AuthOptionMap == INSTANCE OptionMap WITH Key <- AuthRequestKey, Value <- AuthOption
ResponseOptionMap == INSTANCE OptionMap WITH Key <- AuthResponseKey, Value <- ResponseOption

-----------------------------------------------------------------------------
ParamsOk(x) ==
    /\ IsArray(x) /\ x.n >= 1
    /\ \A i \in 1..x.n : /\ IsArray(x.s[i]) /\ x.s[i].n = 2
                         /\ IsUint(x.s[i].s[1]) /\ x.s[i].s[1].n = PublicKey
                         /\ IsInt(x.s[i].s[2])

ParseRegRequest(s) ==
    LET required ==
            /\ Len(s) \in {6, 7}
            /\ IsText(s[2]) /\ s[2].len \in NameLengths
            /\ IsText(s[3]) /\ s[3].len \in NameLengths
            /\ IsBytes(s[4]) /\ s[4].len \in ChallengeLengths
            /\ ParamsOk(s[5])
            /\ IsBytes(s[6])
        p == [type |-> REG_REQUEST, rpId |-> Blob(s[2]), rpName |-> Blob(s[3]),
              challenge |-> Blob(s[4]), params |-> [i \in 1..s[5].n |-> s[5].s[i].s[2].n],
              encrypted |-> Blob(s[6]), timeout |-> 0, attachment |-> 0,
              residentKey |-> 1, userVerification |-> 2, attestation |-> 1,
              extensions |-> <<>>]
    IN  IF ~required THEN {}
        ELSE IF Len(s) = 6 THEN {p}
        ELSE When(IsMap(s[7]), RegOptionMap!ReadMap(s[7].s, p))

ParseRegResponse(s) ==
    When(Len(s) = 3 /\ IsBytes(At(s, 2)) /\ At(s, 2).len \in AttObjLengths
                    /\ IsText(At(s, 3)) /\ At(s, 3).len \in ClientDataLengths,
         {[type |-> REG_RESPONSE, attobj |-> Blob(At(s, 2)), clientdata |-> Blob(At(s, 3))]})

ParseAuthRequest(s) ==
    LET p == [type |-> AUTH_REQUEST, challenge |-> Blob(At(s, 2)), timeout |-> 0,
              rpId |-> Absent, allow |-> Absent, userVerification |-> 0,
              extensions |-> <<>>]
    IN  IF ~IsBytes(At(s, 2)) THEN {}
        ELSE IF Len(s) = 2 THEN {p}
        ELSE When(IsMap(s[3]), AuthOptionMap!ReadMap(s[3].s, p))

ParseAuthResponse(s) ==
    LET p == [type |-> AUTH_RESPONSE, clientdata |-> Blob(At(s, 2)), authdata |-> Blob(At(s, 3)),
              signature |-> Blob(At(s, 4)), userHandle |-> Absent, credId |-> Absent]
    IN  IF ~(IsText(At(s, 2)) /\ IsBytes(At(s, 3)) /\ IsBytes(At(s, 4))) THEN {}
        ELSE IF Len(s) = 4 THEN {p}
        ELSE When(IsMap(s[5]), ResponseOptionMap!ReadMap(s[5].s, p))

ParsePreResponse(s) ==
    When(Len(s) = 3 /\ IsBytes(At(s, 2)) /\ At(s, 2).len = 256
                    /\ IsBytes(At(s, 3)) /\ At(s, 3).len = 32,
         {[type |-> PRE_RESPONSE, ephUserId |-> Blob(At(s, 2)), gcmKey |-> Blob(At(s, 3))]})

(* only the registration indication has to have exactly three elements *)
ParseIndication(type, s) ==
    When(/\ type = REG_INDICATION => Len(s) = 3
         /\ IsBytes(At(s, 2)) /\ At(s, 2).len = 256
         /\ IsBytes(At(s, 3)),
         {[type |-> type, ephUserId |-> Blob(At(s, 2)), encrypted |-> Blob(At(s, 3))]})

GetPacketType(x) == When(IsArray(x) /\ IsInt(At(x.s, 1)), {At(x.s, 1).n})

(* cbor_parse; expected is UNDEFINED when the caller takes any packet *)
Parse(expected, x) ==
    UNION {IF expected \notin {UNDEFINED, type} THEN {}
           ELSE CASE type \in {PRE_INDICATION, AUTH_INDICATION_DISCOVERABLE} -> {[type |-> type]}
                  [] type = PRE_RESPONSE -> ParsePreResponse(x.s)
                  [] type \in {REG_INDICATION, AUTH_INDICATION_SERVER_SIDE} ->
                       ParseIndication(type, x.s)
                  [] type = REG_REQUEST -> ParseRegRequest(x.s)
                  [] type = REG_RESPONSE -> ParseRegResponse(x.s)
                  [] type = AUTH_REQUEST -> ParseAuthRequest(x.s)
                  [] type = AUTH_RESPONSE -> ParseAuthResponse(x.s)
                  [] OTHER -> {} : type \in GetPacketType(x)}

-----------------------------------------------------------------------------
(* The arrays that are encrypted, and the attestation object *)

BuildEncryptedData(d) ==
    Encode(EncDataBufSize, Arr(2, <<Bytes(d.displayName), Bytes(d.ticket)>>))

ParseEncryptedData(x) ==
    When(/\ IsArray(x) /\ x.n = 2
         /\ \A i \in 1..2 : IsBytes(x.s[i]) /\ x.s[i].len = 256,
         {[displayName |-> Blob(x.s[1]), ticket |-> Blob(x.s[2])]})

(* Mutant of BuildRegRequestEncryptedData: the larger buffer.              *)
BuildRegRequestEncryptedDataLarge(d) ==
    Encode(BufSize,
           Arr(IF d.exclude # <<>> THEN 4 ELSE 3,
               <<Bytes(d.userName), Bytes(d.displayName), Bytes(d.userId)>>
               \o (IF d.exclude # <<>> THEN <<Descriptors(d.exclude)>> ELSE <<>>)))

BuildRegRequestEncryptedData(d) ==
    Encode(EncDataBufSize,
           Arr(IF d.exclude # <<>> THEN 4 ELSE 3,
               <<Bytes(d.userName), Bytes(d.displayName), Bytes(d.userId)>>
               \o (IF d.exclude # <<>> THEN <<Descriptors(d.exclude)>> ELSE <<>>)))

(* OPENSSL_zalloc(0) is NULL: a descriptor needs a non-empty id *)
DescriptorsOk(x) ==
    /\ IsArray(x) /\ x.n >= 1
    /\ \A i \in 1..x.n : /\ IsArray(x.s[i]) /\ x.s[i].n = 2
                         /\ IsUint(x.s[i].s[1]) /\ x.s[i].s[1].n = PublicKey
                         /\ IsBytes(x.s[i].s[2]) /\ x.s[i].s[2].len > 0
IdsIn(x) == [i \in 1..x.n |-> Blob(x.s[i].s[2])]

(* Mutant of ParseRegRequestEncryptedData: one descriptor is kept.         *)
ParseRegRequestEncryptedDataFirst(x) ==
    When(/\ IsArray(x) /\ x.n \in 3..4
         /\ x.n = 4 => DescriptorsOk(x.s[4]),
         {[userName |-> Blob(x.s[1]), displayName |-> Blob(x.s[2]), userId |-> Blob(x.s[3]),
           exclude |-> IF x.n = 4 THEN <<IdsIn(x.s[4])[1]>> ELSE <<>>]})

ParseRegRequestEncryptedData(x) ==
    When(/\ IsArray(x) /\ x.n \in 3..4
         /\ \A i \in 1..3 : IsBytes(x.s[i]) /\ x.s[i].len = <<256, 256, 64>>[i]
         /\ x.n = 4 => DescriptorsOk(x.s[4]),
         {[userName |-> Blob(x.s[1]), displayName |-> Blob(x.s[2]), userId |-> Blob(x.s[3]),
           exclude |-> IF x.n = 4 THEN IdsIn(x.s[4]) ELSE <<>>]})

BuildAllowedCredentials(ids) == Encode(EncDataBufSize, Descriptors(ids))
ParseAllowedCredentials(x) == When(DescriptorsOk(x), {IdsIn(x)})

(* the text keys of an attestation object, a value for each *)
AttKeys == [fmt |-> [v |-> 1, len |-> 3], attStmt |-> [v |-> 2, len |-> 7],
            authData |-> [v |-> 3, len |-> 8], alg |-> [v |-> 4, len |-> 3],
            sig |-> [v |-> 5, len |-> 3], x5c |-> [v |-> 6, len |-> 3],
            packed |-> [v |-> 7, len |-> 6], fidoU2f |-> [v |-> 8, len |-> 8]]

AttestationStatement(cred) ==
    LET alg == IF cred.fmt = AttKeys.packed THEN <<Text(AttKeys.alg), Number(cred.type)>> ELSE <<>>
    IN  PairsOf(alg \o <<Text(AttKeys.sig), Bytes(cred.sig),
                         Text(AttKeys.x5c), Arr(1, <<Bytes(cred.x5c)>>)>>)

(* self attestation has no certificate: the object cannot be built *)
BuildAttestationObject(cred) ==
    When(cred.authdata # Absent /\ cred.type = ES256 /\ cred.sig.len > 0 /\ cred.x5c.len > 0,
         Encode(AttObjBufSize,
                PairsOf(<<Text(AttKeys.fmt), Text(cred.fmt),
                          Text(AttKeys.attStmt), AttestationStatement(cred),
                          Text(AttKeys.authData), Bytes(cred.authdata)>>)))

(* extract_authdata_from_attobj: the first pair with the key authData *)
AuthdataOf(x) ==
    LET keys == {i \in 1..Len(x.s) : i % 2 = 1 /\ x.s[i] = Text(AttKeys.authData)}
    IN  When(IsMap(x), {Blob(x.s[i + 1]) : i \in {j \in keys : /\ \A k \in keys : j <= k
                                                                /\ IsBytes(x.s[j + 1])}})
=============================================================================
