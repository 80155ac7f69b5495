--------------------------- MODULE PacketsProofs ----------------------------
(***************************************************************************)
(* Theorems about the packets, for every packet: what one side builds is   *)
(* what the other side parses (Wire), and the lists of credentials fit     *)
(* into the buffers they travel in (Enrolments).  The loops over maps and  *)
(* arrays are those of Iteration.tla and OptionMap.tla, and facts about    *)
(* them are shown there by induction.                                      *)
(***************************************************************************)
EXTENDS Wire, Enrolments, SequenceTheorems, TLAPS

-----------------------------------------------------------------------------
(***************************************************************************)
(* Packets: what was built is what is parsed.                              *)
(***************************************************************************)

(* A value of bounded length is a value.                                   *)
LEMMA BlobFields ==
    \A lengths : lengths \subseteq Nat => \A b \in BlobsOf(lengths) : b \in Blobs /\ b.len \in lengths
BY DEF BlobsOf, Blobs

(* A value is its content and its length.                                  *)
LEMMA BlobIsRecord ==
    \A b \in Blobs : b = [v |-> b.v, len |-> b.len] /\ b.v \in Nat /\ b.len \in Nat
BY DEF BlobsOf, Blobs

(* The fields of a CBOR item without items in it ...                       *)
LEMMA LeafFields ==
    \A t, n, len, size :
      LET x == Leaf(t, n, len, size)
      IN  x.t = t /\ x.n = n /\ x.len = len /\ x.size = size /\ x.whole
BY DEF Leaf

(* ... and of an array or a map.                                           *)
LEMMA ContainerFields ==
    \A t, n, s, elements :
      LET x == Container(t, n, s, elements)
      IN  x.t = t /\ x.n = n /\ x.s = s /\ x.size = Sizes!Iterate(Head8(n), s)
          /\ x.whole = (Len(s) = elements /\ \A i \in 1..Len(s) : s[i].whole)
BY DEF Container

(* The items the builders make and what the type checks of libcbor find:   *)
(* an integer,                                                             *)
LEMMA NumberItem ==
    \A n : /\ IsInt(Number(n)) /\ Number(n).n = n /\ Number(n).whole
           /\ Number(n).size = Head8(IF n < 0 THEN -1 - n ELSE n)
           /\ n >= 0 => IsUint(Number(n))
<1> TAKE n
<1>1. Number(n).t = "int" /\ Number(n).n = n /\ Number(n).whole
      /\ Number(n).size = Head8(IF n < 0 THEN -1 - n ELSE n)
  BY LeafFields DEF Number
<1> QED
  BY <1>1 DEF IsInt, IsUint

(* a byte string,                                                          *)
LEMMA BytesItem ==
    \A b \in Blobs : /\ IsBytes(Bytes(b)) /\ Bytes(b).len = b.len /\ Bytes(b).whole
                     /\ Bytes(b).size = Head8(b.len) + b.len
                     /\ Blob(Bytes(b)) = b
<1> TAKE b \in Blobs
<1>1. Bytes(b).t = "bytes" /\ Bytes(b).n = b.v /\ Bytes(b).len = b.len /\ Bytes(b).whole
      /\ Bytes(b).size = Head8(b.len) + b.len
  BY LeafFields DEF Bytes
<1>2. [v |-> b.v, len |-> b.len] = b
  BY BlobIsRecord
<1> QED
  BY <1>1, <1>2 DEF IsBytes, Blob

(* a text string,                                                          *)
LEMMA TextItem ==
    \A b \in Blobs : /\ IsText(Text(b)) /\ Text(b).len = b.len /\ Text(b).whole
                     /\ Text(b).size = Head8(b.len) + b.len
                     /\ Blob(Text(b)) = b
<1> TAKE b \in Blobs
<1>1. Text(b).t = "text" /\ Text(b).n = b.v /\ Text(b).len = b.len /\ Text(b).whole
      /\ Text(b).size = Head8(b.len) + b.len
  BY LeafFields DEF Text
<1>2. [v |-> b.v, len |-> b.len] = b
  BY BlobIsRecord
<1> QED
  BY <1>1, <1>2 DEF IsText, Blob

(* a map, whose size is its head and what is in it,                        *)
LEMMA MapItem ==
    \A s : LET x == PairsOf(s)
           IN  IsMap(x) /\ x.s = s /\ x.n = Len(s) \div 2
               /\ x.whole = (Len(s) = 2 * (Len(s) \div 2) /\ \A i \in 1..Len(s) : s[i].whole)
               /\ x.size = Sizes!Iterate(Head8(Len(s) \div 2), s)
BY ContainerFields DEF PairsOf, MapOf, IsMap

(* and an array.                                                           *)
LEMMA ArrayItem ==
    \A n, s : LET x == Arr(n, s)
              IN  IsArray(x) /\ x.s = s /\ x.n = n
                  /\ x.whole = (Len(s) = n /\ \A i \in 1..Len(s) : s[i].whole)
                  /\ x.size = Sizes!Iterate(Head8(n), s)
BY ContainerFields DEF Arr, IsArray

(* cbor_serialize writes an item as it is, or nothing.                     *)
LEMMA EncodedItself ==
    \A size, x : \A y \in Encode(size, x) : y = x /\ x.whole /\ x.size =< size
BY DEF Encode

(* Id and data of an extension have the lengths the parser accepts.        *)
LEMMA ExtensionFields ==
    \A x \in Extension : x.id \in BlobsOf(NameLengths) /\ x.data \in BlobsOf(ExtensionDataLengths)
BY DEF Extension

(* The lengths types.h has room for are numbers.                           *)
LEMMA LengthsAreNumbers ==
    /\ NameLengths \subseteq Nat /\ ChallengeLengths \subseteq Nat
    /\ ExtensionDataLengths \subseteq Nat /\ AttObjLengths \subseteq Nat
    /\ ClientDataLengths \subseteq Nat
BY DEF NameLengths, ChallengeLengths, ExtensionDataLengths, AttObjLengths, ClientDataLengths

(* Values of such lengths are values.                                      *)
LEMMA BlobsOfType == \A lengths : lengths \subseteq Nat => BlobsOf(lengths) \subseteq Blobs
BY BlobFields

(* What a string holds, and that its length is one of those accepted.      *)
LEMMA BytesWithin ==
    \A lengths : lengths \subseteq Nat =>
      \A b \in BlobsOf(lengths) : /\ IsBytes(Bytes(b)) /\ Bytes(b).len \in lengths
                                  /\ Blob(Bytes(b)) = b
BY BlobFields, BytesItem

(* The same for text strings.                                              *)
LEMMA TextWithin ==
    \A lengths : lengths \subseteq Nat =>
      \A b \in BlobsOf(lengths) : /\ IsText(Text(b)) /\ Text(b).len \in lengths
                                  /\ Blob(Text(b)) = b
BY BlobFields, TextItem

(* What the parser asks of a key and a value in the map of extensions.     *)
IdOk(x) == IsText(x) /\ x.len \in NameLengths
DataOk(x) == IsBytes(x) /\ x.len \in ExtensionDataLengths

(* An extension id is accepted and read as it was ...                      *)
LEMMA ExtensionIdItem == \A b \in BlobsOf(NameLengths) : IdOk(Text(b)) /\ Blob(Text(b)) = b
BY LengthsAreNumbers, TextWithin DEF IdOk

(* ... and so is its data.                                                 *)
LEMMA ExtensionDataItem ==
    \A b \in BlobsOf(ExtensionDataLengths) : DataOk(Bytes(b)) /\ Blob(Bytes(b)) = b
BY LengthsAreNumbers, BytesWithin DEF DataOk

(* An extension is its id and its data.                                    *)
LEMMA ExtensionIsRecord == \A x \in Extension : x = [id |-> x.id, data |-> x.data]
BY DEF Extension

(* The extensions a map is built from come back in the same order.         *)
LEMMA ExtensionsRoundTrip ==
    ASSUME NEW e \in Seq(Extension)
    PROVE  LET x == ExtensionMap(e)
           IN  IsMap(x) /\ ExtensionsOk(x.s) /\ ExtensionsOf(x.s) = e
<1> DEFINE n == Len(e)
           s == [i \in 1..2 * n |-> IF i % 2 = 1 THEN Text(e[(i + 1) \div 2].id)
                                                  ELSE Bytes(e[i \div 2].data)]
<1>1. n \in Nat /\ Len(s) = 2 * n /\ Len(s) \div 2 = n
  BY LenProperties
<1>2. ASSUME NEW i \in 1 .. n
      PROVE  e[i].id \in BlobsOf(NameLengths) /\ e[i].data \in BlobsOf(ExtensionDataLengths)
  <2>1. e[i] \in Extension
    BY ElementOfSeq
  <2> QED
    BY <2>1, ExtensionFields
<1>7. ASSUME NEW i \in 1 .. n
      PROVE  e[i] = [id |-> e[i].id, data |-> e[i].data]
  <2>1. e[i] \in Extension
    BY ElementOfSeq
  <2> QED
    BY <2>1, ExtensionIsRecord
<1>8. ASSUME NEW i \in 1 .. n
      PROVE  s[2 * i - 1] = Text(e[i].id) /\ s[2 * i] = Bytes(e[i].data)
  <2>3. 2 * i - 1 \in 1 .. 2 * n /\ (2 * i - 1) % 2 = 1 /\ ((2 * i - 1) + 1) \div 2 = i
    BY <1>1
  <2>4. 2 * i \in 1 .. 2 * n /\ (2 * i) % 2 # 1 /\ (2 * i) \div 2 = i
    BY <1>1
  <2>5. s[2 * i - 1] = Text(e[i].id)
    BY <2>3
  <2>6. s[2 * i] = Bytes(e[i].data)
    BY <2>4
  <2> QED
    BY <2>5, <2>6
<1>3. ExtensionMap(e) = PairsOf(s)
  BY DEF ExtensionMap
<1> HIDE DEF s
<1>4. IsMap(ExtensionMap(e)) /\ ExtensionMap(e).s = s
  BY <1>3, MapItem
<1>9. ASSUME NEW i \in 1 .. n
      PROVE  /\ IdOk(s[2*i - 1]) /\ Blob(s[2*i - 1]) = e[i].id
             /\ DataOk(s[2*i]) /\ Blob(s[2*i]) = e[i].data
  <2>1. IdOk(s[2*i - 1]) /\ Blob(s[2*i - 1]) = e[i].id
    BY <1>2, <1>8, ExtensionIdItem
  <2>2. DataOk(s[2*i]) /\ Blob(s[2*i]) = e[i].data
    BY <1>2, <1>8, ExtensionDataItem
  <2> QED
    BY <2>1, <2>2
<1>5. ExtensionsOk(s)
  <2>1. ASSUME NEW i \in 1 .. 2 * n
        PROVE  IF i % 2 = 1 THEN IdOk(s[i]) ELSE DataOk(s[i])
    <3>1. CASE i % 2 = 1
      <4> DEFINE j == (i + 1) \div 2
      <4>1. j \in 1 .. n /\ i = 2 * j - 1
        BY <3>1, <1>1
      <4> HIDE DEF j
      <4>2. IdOk(s[2*j - 1])
        BY <4>1, <1>9
      <4> QED
        BY <3>1, <4>1, <4>2
    <3>2. CASE i % 2 # 1
      <4> DEFINE j == i \div 2
      <4>1. j \in 1 .. n /\ i = 2 * j
        BY <3>2, <1>1
      <4> HIDE DEF j
      <4>2. DataOk(s[2*j])
        BY <4>1, <1>9
      <4> QED
        BY <3>2, <4>1, <4>2
    <3> QED
      BY <3>1, <3>2
  <2>2. \A i \in 1 .. Len(s) : IF i % 2 = 1 THEN IdOk(s[i]) ELSE DataOk(s[i])
    <3>1. Len(s) = 2 * n
      BY <1>1
    <3> HIDE DEF n
    <3> QED
      BY <2>1, <3>1
  <2> QED
    BY <2>2 DEF ExtensionsOk, IdOk, DataOk
<1>6. ExtensionsOf(s) = e
  <2> DEFINE f == [i \in 1..n |-> [id |-> Blob(s[2*i - 1]), data |-> Blob(s[2*i])]]
  <2>1. ExtensionsOf(s) = f
    BY <1>1 DEF ExtensionsOf
  <2>2. ASSUME NEW i \in 1 .. n
        PROVE  f[i] = e[i]
    <3>1. Blob(s[2*i - 1]) = e[i].id /\ Blob(s[2*i]) = e[i].data
      BY <1>9
    <3>2. f[i] = [id |-> Blob(s[2*i - 1]), data |-> Blob(s[2*i])]
      OBVIOUS
    <3> QED
      BY <1>7, <3>1, <3>2
  <2>3. e = [i \in 1 .. n |-> e[i]] /\ f = [i \in 1 .. n |-> f[i]]
    BY LenProperties
  <2> HIDE DEF f
  <2>4. f = e
    BY <2>2, <2>3
  <2> QED
    BY <2>1, <2>4
<1> QED
  BY <1>4, <1>5, <1>6

-----------------------------------------------------------------------------
(* A key and its value, as Pair puts them into a map.                      *)
Two(k, x) == <<Number(k), x>>

(* An optional field is a key and a value, or nothing.                     *)
LEMMA PairIsTwo ==
    \A k, x : \A set \in BOOLEAN : Pair(set, k, x) = IF set THEN Two(k, x) ELSE <<>>
BY DEF Pair, Two

(* A pair, or nothing, behind items leaves a sequence of items.            *)
LEMMA TwoMore ==
    ASSUME NEW S, NEW s \in Seq(S), NEW k, Number(k) \in S, NEW x \in S
    PROVE  s \o Two(k, x) \in Seq(S) /\ s \o <<>> = s
<1> DEFINE n == Number(k)
           t == <<n, x>>
<1>1. t \in Seq(S) /\ t = Two(k, x)
  BY DEF Two
<1> HIDE DEF t
<1> QED
  BY <1>1, ConcatProperties, ConcatEmptySeq

(* A key that was built is read as the key it was.                         *)
LEMMA UintKeys == \A k \in Nat : UintKey(Number(k)) = {k} /\ k # Between
BY NumberItem DEF UintKey, When, Between

(* A loop over the keys of a map has read one pair more, or the field was  *)
(* not set: for the authenticator selection,                               *)
LEMMA SelectionRead ==
    ASSUME NEW S, NEW s \in Seq(S), NEW k \in Nat, Number(k) \in S, NEW x \in S,
           NEW p, NEW q, NEW r, NEW t,
           SelectionMap!Read(s, p) = SelectionMap!After(q),
           \/ t = Two(k, x) /\ Selection(k, x, q) = {r}
           \/ t = <<>> /\ r = q
    PROVE  s \o t \in Seq(S) /\ SelectionMap!Read(s \o t, p) = SelectionMap!After(r)
<1>1. CASE t = Two(k, x) /\ Selection(k, x, q) = {r}
  <2>1. UintKey(Number(k)) = {k} /\ k # Between
    BY UintKeys
  <2>2. SelectionMap!Read(s \o <<Number(k), x>>, p) = SelectionMap!After(r)
    BY <1>1, <2>1, SelectionMap!PairIsRead
  <2>3. s \o Two(k, x) = s \o <<Number(k), x>>
    BY Zenon DEF Two
  <2>4. s \o Two(k, x) \in Seq(S)
    BY TwoMore
  <2> QED
    BY <1>1, <2>2, <2>3, <2>4, Zenon
<1>2. CASE t = <<>> /\ r = q
  <2>1. s \o <<>> = s
    BY ConcatEmptySeq
  <2> QED
    BY <1>2, <2>1, Zenon
<1> QED
  BY <1>1, <1>2, Zenon

(* for the options of a registration request,                              *)
LEMMA RegOptionRead ==
    ASSUME NEW S, NEW s \in Seq(S), NEW k \in Nat, Number(k) \in S, NEW x \in S,
           NEW p, NEW q, NEW r, NEW t,
           RegOptionMap!Read(s, p) = RegOptionMap!After(q),
           \/ t = Two(k, x) /\ RegOption(k, x, q) = {r}
           \/ t = <<>> /\ r = q
    PROVE  s \o t \in Seq(S) /\ RegOptionMap!Read(s \o t, p) = RegOptionMap!After(r)
<1>1. CASE t = Two(k, x) /\ RegOption(k, x, q) = {r}
  <2>1. UintKey(Number(k)) = {k} /\ k # Between
    BY UintKeys
  <2>2. RegOptionMap!Read(s \o <<Number(k), x>>, p) = RegOptionMap!After(r)
    BY <1>1, <2>1, RegOptionMap!PairIsRead
  <2>3. s \o Two(k, x) = s \o <<Number(k), x>>
    BY Zenon DEF Two
  <2>4. s \o Two(k, x) \in Seq(S)
    BY TwoMore
  <2> QED
    BY <1>1, <2>2, <2>3, <2>4, Zenon
<1>2. CASE t = <<>> /\ r = q
  <2>1. s \o <<>> = s
    BY ConcatEmptySeq
  <2> QED
    BY <1>2, <2>1, Zenon
<1> QED
  BY <1>1, <1>2, Zenon

(* for those of an authentication request,                                 *)
LEMMA AuthOptionRead ==
    ASSUME NEW S, NEW s \in Seq(S), NEW k \in 1 .. 5, Number(k) \in S, NEW x \in S,
           NEW p, NEW q, NEW r, NEW t,
           AuthOptionMap!Read(s, p) = AuthOptionMap!After(q),
           \/ t = Two(k, x) /\ AuthOption(k, x, q) = {r}
           \/ t = <<>> /\ r = q
    PROVE  s \o t \in Seq(S) /\ AuthOptionMap!Read(s \o t, p) = AuthOptionMap!After(r)
<1>1. CASE t = Two(k, x) /\ AuthOption(k, x, q) = {r}
  <2>1. AuthRequestKey(Number(k)) = {k} /\ k # Between
    <3>1. k \in {AuthKeys[f] : f \in DOMAIN AuthKeys}
      BY DEF AuthKeys
    <3>2. IsInt(Number(k)) /\ Number(k).n = k
      BY NumberItem
    <3> QED
      BY <3>1, <3>2 DEF AuthRequestKey, KnownKey, When, Between
  <2>2. AuthOptionMap!Read(s \o <<Number(k), x>>, p) = AuthOptionMap!After(r)
    BY <1>1, <2>1, AuthOptionMap!PairIsRead
  <2>3. s \o Two(k, x) = s \o <<Number(k), x>>
    BY Zenon DEF Two
  <2>4. s \o Two(k, x) \in Seq(S)
    BY TwoMore
  <2> QED
    BY <1>1, <2>2, <2>3, <2>4, Zenon
<1>2. CASE t = <<>> /\ r = q
  <2>1. s \o <<>> = s
    BY ConcatEmptySeq
  <2> QED
    BY <1>2, <2>1, Zenon
<1> QED
  BY <1>1, <1>2, Zenon

(* and for those of an authentication response.                            *)
LEMMA ResponseOptionRead ==
    ASSUME NEW S, NEW s \in Seq(S), NEW k \in 1 .. 2, Number(k) \in S, NEW x \in S,
           NEW p, NEW q, NEW r, NEW t,
           ResponseOptionMap!Read(s, p) = ResponseOptionMap!After(q),
           \/ t = Two(k, x) /\ ResponseOption(k, x, q) = {r}
           \/ t = <<>> /\ r = q
    PROVE  s \o t \in Seq(S) /\ ResponseOptionMap!Read(s \o t, p) = ResponseOptionMap!After(r)
<1>1. CASE t = Two(k, x) /\ ResponseOption(k, x, q) = {r}
  <2>1. AuthResponseKey(Number(k)) = {k} /\ k # Between
    <3>1. k \in {ResponseKeys[f] : f \in DOMAIN ResponseKeys}
      BY DEF ResponseKeys
    <3>2. IsInt(Number(k)) /\ Number(k).n = k
      BY NumberItem
    <3> QED
      BY <3>1, <3>2 DEF AuthResponseKey, KnownKey, When, Between
  <2>2. ResponseOptionMap!Read(s \o <<Number(k), x>>, p) = ResponseOptionMap!After(r)
    BY <1>1, <2>1, ResponseOptionMap!PairIsRead
  <2>3. s \o Two(k, x) = s \o <<Number(k), x>>
    BY Zenon DEF Two
  <2>4. s \o Two(k, x) \in Seq(S)
    BY TwoMore
  <2> QED
    BY <1>1, <2>2, <2>3, <2>4, Zenon
<1>2. CASE t = <<>> /\ r = q
  <2>1. s \o <<>> = s
    BY ConcatEmptySeq
  <2> QED
    BY <1>2, <2>1, Zenon
<1> QED
  BY <1>1, <1>2, Zenon

-----------------------------------------------------------------------------
(* The registration request.                                               *)
(* What has been parsed when some of the options of p have been read.      *)
RegRead(p, timeout, attachment, residentKey, userVerification, attestation, extensions) ==
    [type |-> REG_REQUEST, rpId |-> p.rpId, rpName |-> p.rpName, challenge |-> p.challenge,
     params |-> p.params, encrypted |-> p.encrypted, timeout |-> timeout,
     attachment |-> attachment, residentKey |-> residentKey,
     userVerification |-> userVerification, attestation |-> attestation,
     extensions |-> extensions]

(* Each case of the switch over the keys sets its own field: in the        *)
(* authenticator selection ...                                             *)
LEMMA SelectionSets ==
    \A p, t, a, r, u, s, e :
      /\ \A n \in 1..2 : Selection(1, Number(n), RegRead(p, t, a, r, u, s, e))
                           = {RegRead(p, t, n, r, u, s, e)}
      /\ \A n \in 1..3 : Selection(2, Number(n), RegRead(p, t, a, r, u, s, e))
                           = {RegRead(p, t, a, n, u, s, e)}
      /\ \A n \in 1..3 : Selection(3, Number(n), RegRead(p, t, a, r, u, s, e))
                           = {RegRead(p, t, a, r, n, s, e)}
<1> TAKE p, t, a, r, u, s, e
<1> DEFINE q == RegRead(p, t, a, r, u, s, e)
<1>1. /\ \A n : [q EXCEPT !.attachment = n] = RegRead(p, t, n, r, u, s, e)
      /\ \A n : [q EXCEPT !.residentKey = n] = RegRead(p, t, a, n, u, s, e)
      /\ \A n : [q EXCEPT !.userVerification = n] = RegRead(p, t, a, r, n, s, e)
  BY DEF RegRead
<1> HIDE DEF q
<1>2. \A n \in Nat : IsUint(Number(n)) /\ Number(n).n = n
  BY NumberItem
<1>3. SelKeys.attachment = 1 /\ SelKeys.residentKey = 2 /\ SelKeys.userVerification = 3
  BY DEF SelKeys
<1>4. /\ \A x : Selection(1, x, q) = When(IsUint(x) /\ x.n \in 1..2, {[q EXCEPT !.attachment = x.n]})
      /\ \A x : Selection(2, x, q) = When(IsUint(x) /\ x.n \in 1..3, {[q EXCEPT !.residentKey = x.n]})
      /\ \A x : Selection(3, x, q) = When(IsUint(x) /\ x.n \in 1..3, {[q EXCEPT !.userVerification = x.n]})
  BY <1>3 DEF Selection
<1> QED
  BY <1>1, <1>2, <1>4 DEF When, q

(* ... and in the options of the request.                                  *)
LEMMA RegOptionSets ==
    \A p, t, a, r, u, s, e :
      /\ \A n \in Nat : RegOption(1, Number(n), RegRead(p, t, a, r, u, s, e))
                          = {RegRead(p, n, a, r, u, s, e)}
      /\ \A n \in 1..4 : RegOption(4, Number(n), RegRead(p, t, a, r, u, s, e))
                          = {RegRead(p, t, a, r, u, n, e)}
      /\ \A f \in Seq(Extension) : RegOption(5, ExtensionMap(f), RegRead(p, t, a, r, u, s, e))
                          = {RegRead(p, t, a, r, u, s, f)}
<1> TAKE p, t, a, r, u, s, e
<1> DEFINE q == RegRead(p, t, a, r, u, s, e)
<1>1. /\ \A n : [q EXCEPT !.timeout = n] = RegRead(p, n, a, r, u, s, e)
      /\ \A n : [q EXCEPT !.attestation = n] = RegRead(p, t, a, r, u, n, e)
      /\ \A n : [q EXCEPT !.extensions = n] = RegRead(p, t, a, r, u, s, n)
  BY DEF RegRead
<1> HIDE DEF q
<1>2. \A n \in Nat : IsUint(Number(n)) /\ Number(n).n = n
  BY NumberItem
<1>3. RegKeys.timeout = 1 /\ RegKeys.authSel = 2 /\ RegKeys.attestation = 4 /\ RegKeys.extensions = 5
  BY DEF RegKeys
<1>4. /\ \A x : RegOption(1, x, q) = When(IsUint(x), {[q EXCEPT !.timeout = x.n]})
      /\ \A x : RegOption(4, x, q) = When(IsUint(x) /\ x.n \in 1..4, {[q EXCEPT !.attestation = x.n]})
      /\ \A x : RegOption(5, x, q) = WithExtensions(x, q)
  BY <1>3 DEF RegOption
<1>5. ASSUME NEW f \in Seq(Extension)
      PROVE  WithExtensions(ExtensionMap(f), q) = {[q EXCEPT !.extensions = f]}
  BY ExtensionsRoundTrip DEF WithExtensions, When
<1> QED
  BY <1>1, <1>2, <1>4, <1>5 DEF When, q

(* The fields of a registration request.                                   *)
LEMMA RegRequestFields ==
    ASSUME NEW p \in RegRequests
    PROVE  /\ p.type = REG_REQUEST
           /\ p.rpId \in BlobsOf(NameLengths) /\ p.rpName \in BlobsOf(NameLengths)
           /\ p.challenge \in BlobsOf(ChallengeLengths) /\ p.encrypted \in Blobs
           /\ p.params \in Seq(Int) /\ p.params # <<>>
           /\ p.timeout \in Nat /\ p.attachment \in 0..2 /\ p.residentKey \in 0..3
           /\ p.userVerification \in 0..3 /\ p.attestation \in 0..4
           /\ p.extensions \in Seq(Extension)
BY DEF RegRequests

(* What the client is to have of it: the defaults stand for what is not    *)
(* set.                                                                    *)
LEMMA RegRequestReceived ==
    ASSUME NEW p \in RegRequests
    PROVE  Received(p) = RegRead(p, p.timeout, p.attachment, Default(p.residentKey, 1),
                                 Default(p.userVerification, 2), Default(p.attestation, 1),
                                 p.extensions)
BY DEF RegRequests, Received, RegRead

(* The pairs the builder makes of the fields that are set.                 *)
SelectionOf(p) ==
    Pair(p.attachment # 0, SelKeys.attachment, Number(p.attachment))
    \o Pair(p.residentKey # 0, SelKeys.residentKey, Number(p.residentKey))
    \o Pair(p.userVerification # 0, SelKeys.userVerification, Number(p.userVerification))

RegOptionsOf(p) ==
    Pair(p.timeout # 0, RegKeys.timeout, Number(p.timeout))
    \o Pair(SelectionOf(p) # <<>>, RegKeys.authSel, PairsOf(SelectionOf(p)))
    \o Pair(p.attestation # 0, RegKeys.attestation, Number(p.attestation))
    \o Pair(p.extensions # <<>>, RegKeys.extensions, ExtensionMap(p.extensions))

(* They are read back, first the authenticator selection.                  *)
LEMMA SelectionIsRead ==
    ASSUME NEW p \in RegRequests, NEW t, NEW s, NEW e
    PROVE  SelectionMap!Read(SelectionOf(p), RegRead(p, t, 0, 1, 2, s, e)) =
             SelectionMap!After(RegRead(p, t, p.attachment, Default(p.residentKey, 1),
                                        Default(p.userVerification, 2), s, e))
<1> DEFINE S == {Number(n) : n \in Nat}
           q0 == RegRead(p, t, 0, 1, 2, s, e)
           q1 == RegRead(p, t, p.attachment, 1, 2, s, e)
           q2 == RegRead(p, t, p.attachment, Default(p.residentKey, 1), 2, s, e)
           q3 == RegRead(p, t, p.attachment, Default(p.residentKey, 1),
                         Default(p.userVerification, 2), s, e)
           a == Pair(p.attachment # 0, 1, Number(p.attachment))
           b == Pair(p.residentKey # 0, 2, Number(p.residentKey))
           c == Pair(p.userVerification # 0, 3, Number(p.userVerification))
<1>1. /\ p.attachment \in Nat /\ p.residentKey \in Nat /\ p.userVerification \in Nat
      /\ p.attachment # 0 => p.attachment \in 1..2
      /\ p.residentKey # 0 => p.residentKey \in 1..3
      /\ p.userVerification # 0 => p.userVerification \in 1..3
  BY RegRequestFields
<1>2. \A n \in Nat : Number(n) \in S
  OBVIOUS
<1>3. /\ p.attachment # 0 => Selection(1, Number(p.attachment), q0) = {q1}
      /\ p.residentKey # 0 => Selection(2, Number(p.residentKey), q1) = {q2}
      /\ p.userVerification # 0 => Selection(3, Number(p.userVerification), q2) = {q3}
  BY <1>1, SelectionSets DEF Default
<1>4. /\ ~(p.attachment # 0) => q1 = q0
      /\ ~(p.residentKey # 0) => q2 = q1
      /\ ~(p.userVerification # 0) => q3 = q2
  BY DEF Default
<1>5. SelectionOf(p) = (a \o b) \o c
  BY DEF SelectionOf, SelKeys
<1> HIDE DEF S, q0, q1, q2, q3
<1>6. /\ \/ a = Two(1, Number(p.attachment)) /\ Selection(1, Number(p.attachment), q0) = {q1}
         \/ a = <<>> /\ q1 = q0
      /\ \/ b = Two(2, Number(p.residentKey)) /\ Selection(2, Number(p.residentKey), q1) = {q2}
         \/ b = <<>> /\ q2 = q1
      /\ \/ c = Two(3, Number(p.userVerification))
            /\ Selection(3, Number(p.userVerification), q2) = {q3}
         \/ c = <<>> /\ q3 = q2
  BY <1>3, <1>4, PairIsTwo
<1> HIDE DEF a, b, c
<1> DEFINE z == <<>>
           za == z \o a
           zab == za \o b
<1>7. z \in Seq(S) /\ SelectionMap!Read(z, q0) = SelectionMap!After(q0)
  BY SelectionMap!EmptyIsRead, EmptySeq
<1>8. (z \o a) \o b = a \o b
  BY <1>6 DEF Two
<1> HIDE DEF z
<1>9. za \in Seq(S) /\ SelectionMap!Read(za, q0) = SelectionMap!After(q1)
  BY <1>1, <1>2, <1>6, <1>7, SelectionRead
<1> HIDE DEF za
<1>10. zab \in Seq(S) /\ SelectionMap!Read(zab, q0) = SelectionMap!After(q2)
  BY <1>1, <1>2, <1>6, <1>9, SelectionRead
<1> HIDE DEF zab
<1>11. SelectionMap!Read(zab \o c, q0) = SelectionMap!After(q3)
  BY <1>1, <1>2, <1>6, <1>10, SelectionRead
<1> QED
  BY <1>5, <1>8, <1>11, Zenon DEF zab, za, q0, q3

(* The options are read whatever stands in front of them and leaves the    *)
(* packet as it was.                                                       *)
LEMMA RegOptionsAreRead ==
    ASSUME NEW p \in RegRequests
    PROVE  LET q == RegRead(p, 0, 0, 1, 2, 1, <<>>)
           IN  /\ RegOptionMap!Read(RegOptionsOf(p), q) = RegOptionMap!After(Received(p))
               /\ \E S : RegOptionsOf(p) \in Seq(S)
<1> DEFINE sel == SelectionOf(p)
           n1 == Number(p.timeout)
           x2 == PairsOf(sel)
           n3 == Number(p.attestation)
           x4 == ExtensionMap(p.extensions)
           S == {Number(n) : n \in Nat} \cup {x2, x4}
           rk == Default(p.residentKey, 1)
           uv == Default(p.userVerification, 2)
           att == Default(p.attestation, 1)
           q0 == RegRead(p, 0, 0, 1, 2, 1, <<>>)
           q1 == RegRead(p, p.timeout, 0, 1, 2, 1, <<>>)
           q2 == RegRead(p, p.timeout, p.attachment, rk, uv, 1, <<>>)
           q3 == RegRead(p, p.timeout, p.attachment, rk, uv, att, <<>>)
           q4 == RegRead(p, p.timeout, p.attachment, rk, uv, att, p.extensions)
           a == Pair(p.timeout # 0, 1, n1)
           b == Pair(sel # <<>>, 2, x2)
           c == Pair(p.attestation # 0, 4, n3)
           d == Pair(p.extensions # <<>>, 5, x4)
<1>1. /\ p.timeout \in Nat /\ p.attestation \in Nat
      /\ p.attestation # 0 => p.attestation \in 1..4
      /\ p.extensions \in Seq(Extension)
  BY RegRequestFields
<1>2. /\ \A n \in Nat : Number(n) \in S
      /\ x2 \in S /\ x4 \in S
  OBVIOUS
<1>3. RegOption(1, n1, q0) = {q1}
  BY <1>1, RegOptionSets
<1>4. sel # <<>> => RegOption(2, x2, q1) = {q2}
  <2>1. SelectionMap!Read(sel, q1) = SelectionMap!After(q2)
    BY SelectionIsRead
  <2> HIDE DEF q1, q2, sel
  <2>2. SelectionMap!ReadMap(sel, q1) = {q2}
    BY <2>1, SelectionMap!MapIsRead
  <2>3. IsMap(x2) /\ x2.s = sel
    BY MapItem
  <2>4. RegKeys.timeout = 1 /\ RegKeys.authSel = 2 /\ RegKeys.attestation = 4 /\ RegKeys.extensions = 5
    BY DEF RegKeys
  <2>5. RegOption(2, x2, q1) = When(IsMap(x2), SelectionMap!ReadMap(x2.s, q1))
    BY <2>4 DEF RegOption
  <2> QED
    BY <2>2, <2>3, <2>5 DEF When
<1>5. sel = <<>> => q2 = q1
  <2>1. SelectionMap!Read(sel, q1) = SelectionMap!After(q2)
    BY SelectionIsRead
  <2> HIDE DEF q1, q2, sel
  <2>2. SelectionMap!Read(<<>>, q1) = SelectionMap!After(q1)
    BY SelectionMap!EmptyIsRead
  <2>3. sel = <<>> => SelectionMap!ReadMap(sel, q1) = {q1} /\ SelectionMap!ReadMap(sel, q1) = {q2}
    BY <2>1, <2>2, SelectionMap!MapIsRead
  <2> QED
    BY <2>3
<1>6. /\ p.attestation # 0 => RegOption(4, n3, q2) = {q3}
      /\ ~(p.attestation # 0) => q3 = q2
  BY <1>1, RegOptionSets DEF Default
<1>7. RegOption(5, x4, q3) = {q4}
  BY <1>1, RegOptionSets
<1>8. /\ ~(p.timeout # 0) => q1 = q0
      /\ ~(p.extensions # <<>>) => q4 = q3
  OBVIOUS
<1>9. RegOptionsOf(p) = ((a \o b) \o c) \o d /\ q4 = Received(p)
  BY RegRequestReceived DEF RegOptionsOf, RegKeys
<1>10. Number(1) \in S /\ Number(2) \in S /\ Number(4) \in S /\ Number(5) \in S /\ n1 \in S /\ n3 \in S
  BY <1>1, <1>2
<1> HIDE DEF S, q0, q1, q2, q3, q4, n1, x2, n3, x4, sel
<1>11. /\ (a = Two(1, n1) /\ RegOption(1, n1, q0) = {q1}) \/ (a = <<>> /\ q1 = q0)
       /\ (b = Two(2, x2) /\ RegOption(2, x2, q1) = {q2}) \/ (b = <<>> /\ q2 = q1)
       /\ (c = Two(4, n3) /\ RegOption(4, n3, q2) = {q3}) \/ (c = <<>> /\ q3 = q2)
       /\ (d = Two(5, x4) /\ RegOption(5, x4, q3) = {q4}) \/ (d = <<>> /\ q4 = q3)
  <2>1. (a = Two(1, n1) /\ RegOption(1, n1, q0) = {q1}) \/ (a = <<>> /\ q1 = q0)
    BY <1>3, <1>8, PairIsTwo
  <2>2. (b = Two(2, x2) /\ RegOption(2, x2, q1) = {q2}) \/ (b = <<>> /\ q2 = q1)
    BY <1>4, <1>5, PairIsTwo
  <2>3. (c = Two(4, n3) /\ RegOption(4, n3, q2) = {q3}) \/ (c = <<>> /\ q3 = q2)
    BY <1>6, PairIsTwo
  <2>4. (d = Two(5, x4) /\ RegOption(5, x4, q3) = {q4}) \/ (d = <<>> /\ q4 = q3)
    BY <1>7, <1>8, PairIsTwo
  <2> QED
    BY <2>1, <2>2, <2>3, <2>4
<1> HIDE DEF a, b, c, d
<1> DEFINE z == <<>>
           za == z \o a
           zab == za \o b
           zabc == zab \o c
<1>12. z \in Seq(S) /\ RegOptionMap!Read(z, q0) = RegOptionMap!After(q0)
  BY RegOptionMap!EmptyIsRead, EmptySeq
<1>13. (z \o a) \o b = a \o b
  BY <1>11 DEF Two
<1> HIDE DEF z
<1>14. za \in Seq(S) /\ RegOptionMap!Read(za, q0) = RegOptionMap!After(q1)
  BY <1>10, <1>11, <1>12, RegOptionRead
<1> HIDE DEF za
<1>15. zab \in Seq(S) /\ RegOptionMap!Read(zab, q0) = RegOptionMap!After(q2)
  <2>1. Number(2) \in S /\ x2 \in S /\ 2 \in Nat
    BY <1>2, <1>10
  <2>2. \/ b = Two(2, x2) /\ RegOption(2, x2, q1) = {q2}
        \/ b = <<>> /\ q2 = q1
    BY <1>11
  <2> QED
    BY <1>14, <2>1, <2>2, RegOptionRead
<1> HIDE DEF zab
<1>16. zabc \in Seq(S) /\ RegOptionMap!Read(zabc, q0) = RegOptionMap!After(q3)
  <2>1. Number(4) \in S /\ n3 \in S /\ 4 \in Nat
    BY <1>10
  <2>2. \/ c = Two(4, n3) /\ RegOption(4, n3, q2) = {q3}
        \/ c = <<>> /\ q3 = q2
    BY <1>11
  <2> QED
    BY <1>15, <2>1, <2>2, RegOptionRead
<1> HIDE DEF zabc
<1>17. zabc \o d \in Seq(S) /\ RegOptionMap!Read(zabc \o d, q0) = RegOptionMap!After(q4)
  BY <1>2, <1>10, <1>11, <1>16, RegOptionRead
<1>18. RegOptionsOf(p) = zabc \o d
  BY <1>9, <1>13, Zenon DEF zabc, zab, za
<1>19. /\ RegOptionMap!Read(RegOptionsOf(p), q0) = RegOptionMap!After(Received(p))
       /\ RegOptionsOf(p) \in Seq(S)
  BY <1>9, <1>17, <1>18, Zenon
<1> QED
  BY <1>19, Zenon DEF q0

ParamsOf(p) ==
    LET params == [i \in 1..Len(p.params) |-> Arr(2, <<Number(PublicKey), Number(p.params[i])>>)]
    IN  Arr(Len(params), params)

(* The algorithms come back in their order.                                *)
LEMMA ParamsAreRead ==
    ASSUME NEW p, p.params \in Seq(Int), p.params # <<>>
    PROVE  LET x == ParamsOf(p)
           IN  ParamsOk(x) /\ [i \in 1..x.n |-> x.s[i].s[2].n] = p.params
<1> DEFINE n == Len(p.params)
           params == [i \in 1..n |-> Arr(2, <<Number(PublicKey), Number(p.params[i])>>)]
           x == Arr(n, params)
<1>1. n \in Nat /\ n >= 1 /\ Len(params) = n /\ p.params = [i \in 1..n |-> p.params[i]]
  BY EmptySeq, LenProperties
<1>2. ParamsOf(p) = x
  BY <1>1 DEF ParamsOf
<1>3. ASSUME NEW i \in 1..n
      PROVE  /\ IsArray(params[i]) /\ params[i].n = 2
             /\ IsUint(params[i].s[1]) /\ params[i].s[1].n = PublicKey
             /\ IsInt(params[i].s[2]) /\ params[i].s[2].n = p.params[i]
  <2> DEFINE a == Number(PublicKey)
             b == Number(p.params[i])
             ab == <<a, b>>
             y == Arr(2, ab)
  <2>1. params[i] = y
    OBVIOUS
  <2>2. IsUint(a) /\ a.n = PublicKey /\ IsInt(b) /\ b.n = p.params[i]
    BY NumberItem DEF PublicKey
  <2> HIDE DEF a, b, params
  <2>3. ab[1] = a /\ ab[2] = b
    OBVIOUS
  <2> HIDE DEF ab
  <2>4. IsArray(y) /\ y.n = 2 /\ y.s = ab
    BY ArrayItem
  <2> HIDE DEF y
  <2> QED
    BY <2>1, <2>2, <2>3, <2>4
<1> HIDE DEF params
<1>4. IsArray(x) /\ x.n = n /\ x.s = params
  BY ArrayItem
<1> HIDE DEF x
<1>5. ParamsOk(x)
  BY <1>1, <1>3, <1>4 DEF ParamsOk
<1>6. [i \in 1..n |-> params[i].s[2].n] = [i \in 1..n |-> p.params[i]]
  BY <1>3
<1> QED
  BY <1>1, <1>2, <1>4, <1>5, <1>6

(* The registration request with this item in the place of its map.        *)
RegItems(p, map) ==
    <<Number(REG_REQUEST), Text(p.rpId), Text(p.rpName), Bytes(p.challenge),
      ParamsOf(p), Bytes(p.encrypted)>> \o map

(* The parser finds the request in the six or seven items of the array.    *)
LEMMA RegRequestParsed ==
    ASSUME NEW p \in RegRequests, NEW s, NEW m,
           \/ s = RegItems(p, <<>>)
              /\ Received(p) = RegRead(p, 0, 0, 1, 2, 1, <<>>)
           \/ s = RegItems(p, <<m>>)
              /\ IsMap(m) /\ RegOptionMap!ReadMap(m.s, RegRead(p, 0, 0, 1, 2, 1, <<>>)) = {Received(p)}
    PROVE  ParseRegRequest(s) = {Received(p)} /\ s[1] = Number(REG_REQUEST) /\ Len(s) \in 6..7
           /\ (Len(s) = 7 => s[7] = m)
<1> DEFINE q == RegRead(p, 0, 0, 1, 2, 1, <<>>)
           i1 == Number(REG_REQUEST)
           i2 == Text(p.rpId)
           i3 == Text(p.rpName)
           i4 == Bytes(p.challenge)
           i5 == ParamsOf(p)
           i6 == Bytes(p.encrypted)
<1>1. /\ p.rpId \in BlobsOf(NameLengths) /\ p.rpName \in BlobsOf(NameLengths)
      /\ p.challenge \in BlobsOf(ChallengeLengths) /\ p.encrypted \in Blobs
      /\ p.params \in Seq(Int) /\ p.params # <<>>
  BY RegRequestFields
<1>2. /\ IsText(i2) /\ i2.len \in NameLengths /\ Blob(i2) = p.rpId
      /\ IsText(i3) /\ i3.len \in NameLengths /\ Blob(i3) = p.rpName
      /\ IsBytes(i4) /\ i4.len \in ChallengeLengths /\ Blob(i4) = p.challenge
      /\ IsBytes(i6) /\ Blob(i6) = p.encrypted
  BY <1>1, LengthsAreNumbers, TextWithin, BytesWithin, BytesItem
<1>3. ParamsOk(i5) /\ [i \in 1..i5.n |-> i5.s[i].s[2].n] = p.params
  BY <1>1, ParamsAreRead
<1>4. RegItems(p, <<>>) = <<i1, i2, i3, i4, i5, i6>> \o <<>> /\ RegItems(p, <<m>>) = <<i1, i2, i3, i4, i5, i6>> \o <<m>>
  BY Zenon DEF RegItems
<1> HIDE DEF i1, i2, i3, i4, i5, i6
<1>5. /\ s[1] = i1 /\ s[2] = i2 /\ s[3] = i3 /\ s[4] = i4 /\ s[5] = i5 /\ s[6] = i6
      /\ \/ Len(s) = 6 /\ Received(p) = q
         \/ Len(s) = 7 /\ s[7] = m /\ IsMap(m) /\ RegOptionMap!ReadMap(m.s, q) = {Received(p)}
  <2>1. CASE s = <<i1, i2, i3, i4, i5, i6>> \o <<>> /\ Received(p) = q
    BY <2>1
  <2>2. CASE s = <<i1, i2, i3, i4, i5, i6>> \o <<m>>
             /\ IsMap(m) /\ RegOptionMap!ReadMap(m.s, q) = {Received(p)}
    BY <2>2
  <2> QED
    BY <1>4, <2>1, <2>2, Zenon
<1>6. [type |-> REG_REQUEST, rpId |-> Blob(s[2]), rpName |-> Blob(s[3]),
       challenge |-> Blob(s[4]), params |-> [i \in 1..s[5].n |-> s[5].s[i].s[2].n],
       encrypted |-> Blob(s[6]), timeout |-> 0, attachment |-> 0,
       residentKey |-> 1, userVerification |-> 2, attestation |-> 1,
       extensions |-> <<>>] = q
  BY <1>2, <1>3, <1>5, Zenon DEF RegRead, q
<1> HIDE DEF q
<1>7. ParseRegRequest(s) = IF Len(s) = 6 THEN {q} ELSE When(IsMap(s[7]), RegOptionMap!ReadMap(s[7].s, q))
  <2>1. /\ Len(s) \in {6, 7}
        /\ IsText(s[2]) /\ s[2].len \in NameLengths
        /\ IsText(s[3]) /\ s[3].len \in NameLengths
        /\ IsBytes(s[4]) /\ s[4].len \in ChallengeLengths
        /\ ParamsOk(s[5])
        /\ IsBytes(s[6])
    BY <1>2, <1>3, <1>5
  <2> QED
    BY <1>6, <2>1, Zenon DEF ParseRegRequest
<1>8. ParseRegRequest(s) = {Received(p)}
  BY <1>5, <1>7 DEF When
<1> QED
  BY <1>5, <1>8 DEF i1

(* cbor_parse reads the type of an item and goes on with the parser of     *)
(* that type.                                                              *)
PacketTypes == {PRE_INDICATION, PRE_RESPONSE, REG_INDICATION, REG_REQUEST, REG_RESPONSE,
                AUTH_INDICATION_DISCOVERABLE, AUTH_INDICATION_SERVER_SIDE, AUTH_REQUEST,
                AUTH_RESPONSE}

ParseAs(type, s) ==
    CASE type \in {PRE_INDICATION, AUTH_INDICATION_DISCOVERABLE} -> {[type |-> type]}
      [] type = PRE_RESPONSE -> ParsePreResponse(s)
      [] type \in {REG_INDICATION, AUTH_INDICATION_SERVER_SIDE} -> ParseIndication(type, s)
      [] type = REG_REQUEST -> ParseRegRequest(s)
      [] type = REG_RESPONSE -> ParseRegResponse(s)
      [] type = AUTH_REQUEST -> ParseAuthRequest(s)
      [] type = AUTH_RESPONSE -> ParseAuthResponse(s)
      [] OTHER -> {}

(* The packet type is read off the first item ...                          *)
LEMMA TypeIsRead ==
    ASSUME NEW type, NEW x, IsArray(x), Len(x.s) \in Nat, 1 =< Len(x.s), x.s[1] = Number(type)
    PROVE  GetPacketType(x) = {type}
<1>1. At(x.s, 1) = Number(type)
  BY DEF At
<1>2. IsInt(Number(type)) /\ Number(type).n = type
  BY NumberItem
<1> QED
  BY <1>1, <1>2 DEF GetPacketType, When

(* ... and the parser of that type is called.                              *)
LEMMA ParsedAs ==
    ASSUME NEW type, NEW x, GetPacketType(x) = {type}
    PROVE  Parse(type, x) = ParseAs(type, x.s)
<1> DEFINE R(t) == IF type \notin {UNDEFINED, t} THEN {} ELSE ParseAs(t, x.s)
<1>1. Parse(type, x) = UNION {R(t) : t \in GetPacketType(x)}
  BY Zenon DEF Parse, ParseAs
<1>2. UNION {R(t) : t \in {type}} = R(type)
  <2> HIDE DEF R
  <2> QED
    OBVIOUS
<1>3. R(type) = ParseAs(type, x.s)
  OBVIOUS
<1> HIDE DEF R
<1> QED
  BY <1>1, <1>2, <1>3

(* The numbers of the packet types.                                        *)
LEMMA TypeNumbers ==
    /\ UNDEFINED = 0 /\ PRE_INDICATION = 1 /\ PRE_RESPONSE = 2 /\ REG_INDICATION = 3
    /\ REG_REQUEST = 4 /\ REG_RESPONSE = 5 /\ AUTH_INDICATION_DISCOVERABLE = 6
    /\ AUTH_INDICATION_SERVER_SIDE = 7 /\ AUTH_REQUEST = 8 /\ AUTH_RESPONSE = 9
BY DEF UNDEFINED, PRE_INDICATION, PRE_RESPONSE, REG_INDICATION, REG_REQUEST, REG_RESPONSE,
       AUTH_INDICATION_DISCOVERABLE, AUTH_INDICATION_SERVER_SIDE, AUTH_REQUEST, AUTH_RESPONSE

(* Each type has its parser.                                               *)
LEMMA ParserOfType ==
    \A s : /\ ParseAs(REG_REQUEST, s) = ParseRegRequest(s)
           /\ ParseAs(REG_RESPONSE, s) = ParseRegResponse(s)
           /\ ParseAs(AUTH_REQUEST, s) = ParseAuthRequest(s)
           /\ ParseAs(AUTH_RESPONSE, s) = ParseAuthResponse(s)
           /\ ParseAs(PRE_RESPONSE, s) = ParsePreResponse(s)
           /\ \A t \in {REG_INDICATION, AUTH_INDICATION_SERVER_SIDE} :
                ParseAs(t, s) = ParseIndication(t, s)
           /\ \A t \in {PRE_INDICATION, AUTH_INDICATION_DISCOVERABLE} :
                ParseAs(t, s) = {[type |-> t]}
BY TypeNumbers DEF ParseAs

(* What cbor_build makes of a packet when it fits.                         *)
Body(p) ==
    CASE p.type = PRE_RESPONSE -> Arr(3, <<Number(p.type), Bytes(p.ephUserId), Bytes(p.gcmKey)>>)
      [] p.type \in {PRE_INDICATION, AUTH_INDICATION_DISCOVERABLE} -> Arr(1, <<Number(p.type)>>)
      [] p.type \in {REG_INDICATION, AUTH_INDICATION_SERVER_SIDE} ->
           Arr(3, <<Number(p.type), Bytes(p.ephUserId), Bytes(p.encrypted)>>)
      [] p.type = REG_REQUEST -> BuildRegRequest(p)
      [] p.type = REG_RESPONSE -> Arr(3, <<Number(p.type), Bytes(p.attobj), Text(p.clientdata)>>)
      [] p.type = AUTH_REQUEST -> BuildAuthRequest(p)
      [] p.type = AUTH_RESPONSE -> BuildAuthResponse(p)

(* What cbor_build returns is the item of the packet, or nothing.          *)
LEMMA BuiltBody ==
    ASSUME NEW p, p.type \in PacketTypes
    PROVE  /\ Build(p) \subseteq Encode(BufSize, Body(p))
           /\ p.type # PRE_RESPONSE => Build(p) = Encode(BufSize, Body(p))
           /\ p.type = PRE_RESPONSE => \A x \in Build(p) : p.ephUserId.len = 256 /\ p.gcmKey.len = 32
BY TypeNumbers DEF PacketTypes, Build, Body

-----------------------------------------------------------------------------
(* Packet by packet: what is parsed is what was built.                     *)
LEMMA BodyOfType ==
    \A p : /\ p.type \in {PRE_INDICATION, AUTH_INDICATION_DISCOVERABLE} =>
                Body(p) = Arr(1, <<Number(p.type)>>)
           /\ p.type = PRE_RESPONSE =>
                Body(p) = Arr(3, <<Number(p.type), Bytes(p.ephUserId), Bytes(p.gcmKey)>>)
           /\ p.type \in {REG_INDICATION, AUTH_INDICATION_SERVER_SIDE} =>
                Body(p) = Arr(3, <<Number(p.type), Bytes(p.ephUserId), Bytes(p.encrypted)>>)
           /\ p.type = REG_REQUEST => Body(p) = BuildRegRequest(p)
           /\ p.type = REG_RESPONSE =>
                Body(p) = Arr(3, <<Number(p.type), Bytes(p.attobj), Text(p.clientdata)>>)
           /\ p.type = AUTH_REQUEST => Body(p) = BuildAuthRequest(p)
           /\ p.type = AUTH_RESPONSE => Body(p) = BuildAuthResponse(p)
BY TypeNumbers DEF Body

(* An indication without fields is parsed as it was built.                 *)
LEMMA BareRoundTrip ==
    ASSUME NEW p \in BareIndications, NEW x, x = Body(p)
    PROVE  GetPacketType(x) = {p.type} /\ Parse(p.type, x) = {Received(p)}
<1>1. /\ p.type \in {PRE_INDICATION, AUTH_INDICATION_DISCOVERABLE} /\ p = [type |-> p.type]
  BY DEF BareIndications
<1>2. Received(p) = p
  BY <1>1, TypeNumbers DEF Received
<1> DEFINE n == Number(p.type)
           s == <<n>>
<1>3. x = Arr(1, s)
  BY <1>1, BodyOfType
<1>4. Len(s) = 1 /\ s[1] = n
  OBVIOUS
<1> HIDE DEF s
<1>5. IsArray(x) /\ x.s = s
  BY <1>3, ArrayItem
<1>6. GetPacketType(x) = {p.type}
  BY <1>4, <1>5, TypeIsRead
<1>7. Parse(p.type, x) = {[type |-> p.type]}
  BY <1>1, <1>6, ParsedAs, ParserOfType
<1> QED
  BY <1>1, <1>2, <1>6, <1>7, Zenon

(* So is the answer to a pre-registration, with an id and a key of the     *)
(* lengths parse_pre_response asks for,                                    *)
LEMMA PreResponseRoundTrip ==
    ASSUME NEW p \in PreResponses, NEW x, x = Body(p),
           p.ephUserId.len = 256, p.gcmKey.len = 32
    PROVE  GetPacketType(x) = {p.type} /\ Parse(p.type, x) = {Received(p)}
<1>1. /\ p.type = PRE_RESPONSE /\ p.ephUserId \in Blobs /\ p.gcmKey \in Blobs
      /\ p = [type |-> PRE_RESPONSE, ephUserId |-> p.ephUserId, gcmKey |-> p.gcmKey]
  BY DEF PreResponses
<1>2. Received(p) = p
  BY <1>1, TypeNumbers DEF Received
<1> DEFINE n == Number(p.type)
           a == Bytes(p.ephUserId)
           b == Bytes(p.gcmKey)
           s == <<n, a, b>>
<1>3. x = Arr(3, s)
  BY <1>1, BodyOfType
<1>4. /\ IsBytes(a) /\ a.len = 256 /\ Blob(a) = p.ephUserId
      /\ IsBytes(b) /\ b.len = 32 /\ Blob(b) = p.gcmKey
  BY <1>1, BytesItem
<1> HIDE DEF n, a, b
<1>5. Len(s) = 3 /\ s[1] = n /\ At(s, 2) = a /\ At(s, 3) = b
  BY DEF At
<1> HIDE DEF s
<1>6. IsArray(x) /\ x.s = s
  BY <1>3, ArrayItem
<1>7. GetPacketType(x) = {p.type}
  <2>1. Len(x.s) = 3 /\ x.s[1] = Number(p.type)
    BY <1>5, <1>6, Zenon DEF n
  <2>2. Len(x.s) \in Nat /\ 1 =< Len(x.s)
    BY <2>1
  <2> QED
    BY <1>6, <2>1, <2>2, TypeIsRead
<1>8. Parse(p.type, x) = ParsePreResponse(s)
  BY <1>1, <1>6, <1>7, ParsedAs, ParserOfType
<1>9. ParsePreResponse(s) = {[type |-> PRE_RESPONSE, ephUserId |-> p.ephUserId, gcmKey |-> p.gcmKey]}
  BY <1>4, <1>5 DEF ParsePreResponse, When
<1> QED
  BY <1>1, <1>2, <1>7, <1>8, <1>9, Zenon

(* an indication with a sealed part,                                       *)
LEMMA IndicationRoundTrip ==
    ASSUME NEW p \in SealedIndications, NEW x, x = Body(p)
    PROVE  GetPacketType(x) = {p.type} /\ Parse(p.type, x) = {Received(p)}
<1>1. /\ p.type \in {REG_INDICATION, AUTH_INDICATION_SERVER_SIDE}
      /\ p.ephUserId \in BlobsOf({256}) /\ p.encrypted \in Blobs
      /\ p = [type |-> p.type, ephUserId |-> p.ephUserId, encrypted |-> p.encrypted]
  BY DEF SealedIndications
<1>2. Received(p) = p
  BY <1>1, TypeNumbers DEF Received
<1> DEFINE n == Number(p.type)
           a == Bytes(p.ephUserId)
           b == Bytes(p.encrypted)
           s == <<n, a, b>>
<1>3. x = Arr(3, s)
  BY <1>1, BodyOfType
<1>4. /\ IsBytes(a) /\ a.len = 256 /\ Blob(a) = p.ephUserId
      /\ IsBytes(b) /\ Blob(b) = p.encrypted
  BY <1>1, BytesItem, BytesWithin
<1> HIDE DEF n, a, b
<1>5. Len(s) = 3 /\ s[1] = n /\ At(s, 2) = a /\ At(s, 3) = b
  BY DEF At
<1> HIDE DEF s
<1>6. IsArray(x) /\ x.s = s
  BY <1>3, ArrayItem
<1>7. GetPacketType(x) = {p.type}
  BY <1>5, <1>6, TypeIsRead DEF n
<1>8. Parse(p.type, x) = ParseIndication(p.type, s)
  BY <1>1, <1>6, <1>7, ParsedAs, ParserOfType
<1>9. ParseIndication(p.type, s) = {[type |-> p.type, ephUserId |-> p.ephUserId, encrypted |-> p.encrypted]}
  BY <1>4, <1>5 DEF ParseIndication, When
<1> QED
  BY <1>1, <1>2, <1>7, <1>8, <1>9, Zenon

(* and a registration response.                                            *)
LEMMA RegResponseRoundTrip ==
    ASSUME NEW p \in RegResponses, NEW x, x = Body(p)
    PROVE  GetPacketType(x) = {p.type} /\ Parse(p.type, x) = {Received(p)}
<1>1. /\ p.type = REG_RESPONSE
      /\ p.attobj \in BlobsOf(AttObjLengths) /\ p.clientdata \in BlobsOf(ClientDataLengths)
      /\ p = [type |-> REG_RESPONSE, attobj |-> p.attobj, clientdata |-> p.clientdata]
  BY DEF RegResponses
<1>2. Received(p) = p
  BY <1>1, TypeNumbers DEF Received
<1> DEFINE n == Number(p.type)
           a == Bytes(p.attobj)
           b == Text(p.clientdata)
           s == <<n, a, b>>
<1>3. x = Arr(3, s)
  BY <1>1, BodyOfType
<1>4. /\ IsBytes(a) /\ a.len \in AttObjLengths /\ Blob(a) = p.attobj
      /\ IsText(b) /\ b.len \in ClientDataLengths /\ Blob(b) = p.clientdata
  BY <1>1, LengthsAreNumbers, BytesWithin, TextWithin
<1> HIDE DEF n, a, b
<1>5. Len(s) = 3 /\ s[1] = n /\ At(s, 2) = a /\ At(s, 3) = b
  BY DEF At
<1> HIDE DEF s
<1>6. IsArray(x) /\ x.s = s
  BY <1>3, ArrayItem
<1>7. GetPacketType(x) = {p.type}
  BY <1>5, <1>6, TypeIsRead DEF n
<1>8. Parse(p.type, x) = ParseRegResponse(s)
  BY <1>1, <1>6, <1>7, ParsedAs, ParserOfType
<1>9. ParseRegResponse(s) = {[type |-> REG_RESPONSE, attobj |-> p.attobj, clientdata |-> p.clientdata]}
  BY <1>4, <1>5 DEF ParseRegResponse, When
<1> QED
  BY <1>1, <1>2, <1>7, <1>8, <1>9, Zenon

(* The item of a registration request.                                     *)
LEMMA RegRequestBody ==
    ASSUME NEW p \in RegRequests
    PROVE  LET x == Body(p)
               o == RegOptionsOf(p)
           IN  IsArray(x) /\ x.s = RegItems(p, IF o # <<>> THEN <<PairsOf(o)>> ELSE <<>>)
<1> DEFINE o == RegOptionsOf(p)
           s == RegItems(p, IF o # <<>> THEN <<PairsOf(o)>> ELSE <<>>)
           n == IF o # <<>> THEN 7 ELSE 6
<1>1. Body(p) = BuildRegRequest(p)
  BY RegRequestFields, BodyOfType
<1>2. BuildRegRequest(p) = Arr(n, s)
  BY Zenon DEF BuildRegRequest, RegItems, RegOptionsOf, SelectionOf, ParamsOf
<1> HIDE DEF s, n
<1>3. IsArray(Arr(n, s)) /\ Arr(n, s).s = s
  BY ArrayItem
<1> QED
  BY <1>1, <1>2, <1>3, Zenon DEF s

(* A registration request is parsed as it was built, with the defaults.    *)
LEMMA RegRequestRoundTrip ==
    ASSUME NEW p \in RegRequests, NEW x, x = Body(p)
    PROVE  GetPacketType(x) = {p.type} /\ Parse(p.type, x) = {Received(p)}
<1> DEFINE o == RegOptionsOf(p)
           m == PairsOf(o)
           q == RegRead(p, 0, 0, 1, 2, 1, <<>>)
<1>1. RegOptionMap!Read(o, q) = RegOptionMap!After(Received(p))
  BY RegOptionsAreRead
<1>2. IsMap(m) /\ m.s = o
  BY MapItem
<1>3. IsArray(x) /\ x.s = RegItems(p, IF o # <<>> THEN <<m>> ELSE <<>>)
  BY RegRequestBody
<1> HIDE DEF o, m, q
<1>4. RegOptionMap!ReadMap(m.s, q) = {Received(p)}
  BY <1>1, <1>2, RegOptionMap!MapIsRead
<1>5. o = <<>> => Received(p) = q
  <2>1. RegOptionMap!Read(<<>>, q) = RegOptionMap!After(q)
    BY RegOptionMap!EmptyIsRead
  <2>2. o = <<>> => RegOptionMap!ReadMap(o, q) = {q} /\ RegOptionMap!ReadMap(o, q) = {Received(p)}
    BY <1>1, <2>1, RegOptionMap!MapIsRead
  <2> QED
    BY <2>2
<1> DEFINE s == x.s
<1>6. \/ s = RegItems(p, <<>>) /\ Received(p) = q
      \/ s = RegItems(p, <<m>>) /\ IsMap(m) /\ RegOptionMap!ReadMap(m.s, q) = {Received(p)}
  BY <1>2, <1>3, <1>4, <1>5
<1> HIDE DEF s
<1>7. ParseRegRequest(s) = {Received(p)} /\ s[1] = Number(REG_REQUEST) /\ Len(s) \in 6..7
  BY <1>6, RegRequestParsed DEF q
<1>8. GetPacketType(x) = {REG_REQUEST}
  BY <1>3, <1>7, TypeIsRead DEF s
<1>9. Parse(REG_REQUEST, x) = ParseRegRequest(s)
  BY <1>8, ParsedAs, ParserOfType DEF s
<1> QED
  BY <1>7, <1>8, <1>9, RegRequestFields

-----------------------------------------------------------------------------
(* The authentication request.                                             *)
AuthRead(p, timeout, rpId, allow, userVerification, extensions) ==
    [type |-> AUTH_REQUEST, challenge |-> p.challenge, timeout |-> timeout, rpId |-> rpId,
     allow |-> allow, userVerification |-> userVerification, extensions |-> extensions]

(* Its fields.                                                             *)
LEMMA AuthRequestFields ==
    ASSUME NEW p \in AuthRequests
    PROVE  /\ p.type = AUTH_REQUEST
           /\ p.challenge \in Blobs /\ p.timeout \in Nat /\ p.rpId \in Blobs /\ p.allow \in Blobs
           /\ p.userVerification \in 0..3 /\ p.extensions \in Seq(Extension)
BY DEF AuthRequests

(* What the client is to have of it.                                       *)
LEMMA AuthRequestReceived ==
    ASSUME NEW p \in AuthRequests
    PROVE  Received(p) = AuthRead(p, p.timeout, p.rpId, p.allow, p.userVerification, p.extensions)
<1>1. p.type # REG_REQUEST
  BY AuthRequestFields, TypeNumbers
<1>2. Received(p) = p
  BY <1>1 DEF Received
<1>3. p = AuthRead(p, p.timeout, p.rpId, p.allow, p.userVerification, p.extensions)
  BY DEF AuthRequests, AuthRead
<1> QED
  BY <1>2, <1>3, Zenon

(* Each case of the switch over the keys sets its own field.               *)
LEMMA AuthOptionSets ==
    \A p, t, i, a, u, e :
      /\ \A n \in Nat : AuthOption(1, Number(n), AuthRead(p, t, i, a, u, e))
                          = {AuthRead(p, n, i, a, u, e)}
      /\ \A b \in Blobs : AuthOption(2, Text(b), AuthRead(p, t, i, a, u, e))
                          = {AuthRead(p, t, b, a, u, e)}
      /\ \A b \in Blobs : AuthOption(3, Bytes(b), AuthRead(p, t, i, a, u, e))
                          = {AuthRead(p, t, i, b, u, e)}
      /\ \A n \in Nat : AuthOption(4, Number(n), AuthRead(p, t, i, a, u, e))
                          = {AuthRead(p, t, i, a, n, e)}
      /\ \A f \in Seq(Extension) : AuthOption(5, ExtensionMap(f), AuthRead(p, t, i, a, u, e))
                          = {AuthRead(p, t, i, a, u, f)}
<1> TAKE p, t, i, a, u, e
<1> DEFINE q == AuthRead(p, t, i, a, u, e)
<1>1. /\ \A n : [q EXCEPT !.timeout = n] = AuthRead(p, n, i, a, u, e)
      /\ \A n : [q EXCEPT !.rpId = n] = AuthRead(p, t, n, a, u, e)
      /\ \A n : [q EXCEPT !.allow = n] = AuthRead(p, t, i, n, u, e)
      /\ \A n : [q EXCEPT !.userVerification = n] = AuthRead(p, t, i, a, n, e)
      /\ \A n : [q EXCEPT !.extensions = n] = AuthRead(p, t, i, a, u, n)
  BY DEF AuthRead
<1> HIDE DEF q
<1>2. \A n \in Nat : IsInt(Number(n)) /\ Number(n).n = n
  BY NumberItem
<1>3. /\ \A b \in Blobs : IsText(Text(b)) /\ Blob(Text(b)) = b
      /\ \A b \in Blobs : IsBytes(Bytes(b)) /\ Blob(Bytes(b)) = b
  BY TextItem, BytesItem
<1>4. /\ AuthKeys.timeout = 1 /\ AuthKeys.rpId = 2 /\ AuthKeys.allow = 3
      /\ AuthKeys.userVerification = 4 /\ AuthKeys.extensions = 5
  BY DEF AuthKeys
<1>5. /\ \A x : AuthOption(1, x, q) = When(IsInt(x), {[q EXCEPT !.timeout = x.n]})
      /\ \A x : AuthOption(2, x, q) = When(IsText(x), {[q EXCEPT !.rpId = Blob(x)]})
      /\ \A x : AuthOption(3, x, q) = When(IsBytes(x), {[q EXCEPT !.allow = Blob(x)]})
      /\ \A x : AuthOption(4, x, q) = When(IsInt(x), {[q EXCEPT !.userVerification = x.n]})
      /\ \A x : AuthOption(5, x, q) = WithExtensions(x, q)
  BY <1>4 DEF AuthOption
<1>6. ASSUME NEW f \in Seq(Extension)
      PROVE  WithExtensions(ExtensionMap(f), q) = {[q EXCEPT !.extensions = f]}
  BY ExtensionsRoundTrip DEF WithExtensions, When
<1>7. /\ \A n \in Nat : AuthOption(1, Number(n), q) = {AuthRead(p, n, i, a, u, e)}
      /\ \A n \in Nat : AuthOption(4, Number(n), q) = {AuthRead(p, t, i, a, n, e)}
  BY <1>1, <1>2, <1>5 DEF When
<1>8. \A b \in Blobs : AuthOption(2, Text(b), q) = {AuthRead(p, t, b, a, u, e)}
  BY <1>1, <1>3, <1>5 DEF When
<1>9. \A b \in Blobs : AuthOption(3, Bytes(b), q) = {AuthRead(p, t, i, b, u, e)}
  BY <1>1, <1>3, <1>5 DEF When
<1>10. \A f \in Seq(Extension) : AuthOption(5, ExtensionMap(f), q) = {AuthRead(p, t, i, a, u, f)}
  BY <1>1, <1>5, <1>6
<1> QED
  BY <1>7, <1>8, <1>9, <1>10 DEF q

(* The pairs the builder makes of the fields that are set.                 *)
AuthOptionsOf(p) ==
    Pair(p.timeout # 0, AuthKeys.timeout, Number(p.timeout))
    \o Pair(p.rpId # Absent, AuthKeys.rpId, Text(p.rpId))
    \o Pair(p.allow # Absent, AuthKeys.allow, Bytes(p.allow))
    \o Pair(p.userVerification # 0, AuthKeys.userVerification, Number(p.userVerification))
    \o Pair(p.extensions # <<>>, AuthKeys.extensions, ExtensionMap(p.extensions))

(* They are read back.                                                     *)
LEMMA AuthOptionsAreRead ==
    ASSUME NEW p \in AuthRequests
    PROVE  LET q == AuthRead(p, 0, Absent, Absent, 0, <<>>)
           IN  AuthOptionMap!Read(AuthOptionsOf(p), q) = AuthOptionMap!After(Received(p))
<1> DEFINE x1 == Number(p.timeout)
           x2 == Text(p.rpId)
           x3 == Bytes(p.allow)
           x4 == Number(p.userVerification)
           x5 == ExtensionMap(p.extensions)
           S == {Number(n) : n \in Nat} \cup {x2, x3, x5}
           q0 == AuthRead(p, 0, Absent, Absent, 0, <<>>)
           q1 == AuthRead(p, p.timeout, Absent, Absent, 0, <<>>)
           q2 == AuthRead(p, p.timeout, p.rpId, Absent, 0, <<>>)
           q3 == AuthRead(p, p.timeout, p.rpId, p.allow, 0, <<>>)
           q4 == AuthRead(p, p.timeout, p.rpId, p.allow, p.userVerification, <<>>)
           q5 == AuthRead(p, p.timeout, p.rpId, p.allow, p.userVerification, p.extensions)
           a == Pair(p.timeout # 0, 1, x1)
           b == Pair(p.rpId # Absent, 2, x2)
           c == Pair(p.allow # Absent, 3, x3)
           d == Pair(p.userVerification # 0, 4, x4)
           e == Pair(p.extensions # <<>>, 5, x5)
<1>1. /\ p.timeout \in Nat /\ p.rpId \in Blobs /\ p.allow \in Blobs
      /\ p.userVerification \in Nat /\ p.extensions \in Seq(Extension)
  BY AuthRequestFields
<1>2. /\ \A n \in Nat : Number(n) \in S
      /\ x2 \in S /\ x3 \in S /\ x5 \in S
  OBVIOUS
<1>3. /\ AuthOption(1, x1, q0) = {q1} /\ AuthOption(2, x2, q1) = {q2}
      /\ AuthOption(3, x3, q2) = {q3} /\ AuthOption(4, x4, q3) = {q4}
      /\ AuthOption(5, x5, q4) = {q5}
  BY <1>1, AuthOptionSets
<1>4. /\ ~(p.timeout # 0) => q1 = q0
      /\ ~(p.rpId # Absent) => q2 = q1
      /\ ~(p.allow # Absent) => q3 = q2
      /\ ~(p.userVerification # 0) => q4 = q3
      /\ ~(p.extensions # <<>>) => q5 = q4
  OBVIOUS
<1>5. AuthOptionsOf(p) = (((a \o b) \o c) \o d) \o e /\ q5 = Received(p)
  BY AuthRequestReceived DEF AuthOptionsOf, AuthKeys
<1>6. /\ Number(1) \in S /\ Number(2) \in S /\ Number(3) \in S /\ Number(4) \in S
      /\ Number(5) \in S /\ x1 \in S /\ x4 \in S
  BY <1>1, <1>2
<1> HIDE DEF S, q0, q1, q2, q3, q4, q5, x1, x2, x3, x4, x5
<1>11. (a = Two(1, x1) /\ AuthOption(1, x1, q0) = {q1}) \/ (a = <<>> /\ q1 = q0)
  BY <1>3, <1>4, PairIsTwo
<1>12. (b = Two(2, x2) /\ AuthOption(2, x2, q1) = {q2}) \/ (b = <<>> /\ q2 = q1)
  BY <1>3, <1>4, PairIsTwo
<1>13. (c = Two(3, x3) /\ AuthOption(3, x3, q2) = {q3}) \/ (c = <<>> /\ q3 = q2)
  BY <1>3, <1>4, PairIsTwo
<1>14. (d = Two(4, x4) /\ AuthOption(4, x4, q3) = {q4}) \/ (d = <<>> /\ q4 = q3)
  BY <1>3, <1>4, PairIsTwo
<1>15. (e = Two(5, x5) /\ AuthOption(5, x5, q4) = {q5}) \/ (e = <<>> /\ q5 = q4)
  BY <1>3, <1>4, PairIsTwo
<1> HIDE DEF a, b, c, d, e
<1> DEFINE z == <<>>
           za == z \o a
           zab == za \o b
           zabc == zab \o c
           zabcd == zabc \o d
<1>20. z \in Seq(S) /\ AuthOptionMap!Read(z, q0) = AuthOptionMap!After(q0)
  BY AuthOptionMap!EmptyIsRead, EmptySeq
<1>21. (z \o a) \o b = a \o b
  BY <1>11 DEF Two
<1> HIDE DEF z
<1>22. za \in Seq(S) /\ AuthOptionMap!Read(za, q0) = AuthOptionMap!After(q1)
  <2>1. 1 \in 1 .. 5
    OBVIOUS
  <2> QED
    BY <2>1, <1>6, <1>11, <1>20, AuthOptionRead, SMTT(30)
<1> HIDE DEF za
<1>23. zab \in Seq(S) /\ AuthOptionMap!Read(zab, q0) = AuthOptionMap!After(q2)
  <2>1. 2 \in 1 .. 5
    OBVIOUS
  <2> QED
    BY <2>1, <1>2, <1>6, <1>12, <1>22, AuthOptionRead, SMTT(30)
<1> HIDE DEF zab
<1>24. zabc \in Seq(S) /\ AuthOptionMap!Read(zabc, q0) = AuthOptionMap!After(q3)
  <2>1. 3 \in 1 .. 5
    OBVIOUS
  <2> QED
    BY <2>1, <1>2, <1>6, <1>13, <1>23, AuthOptionRead, SMTT(30)
<1> HIDE DEF zabc
<1>25. zabcd \in Seq(S) /\ AuthOptionMap!Read(zabcd, q0) = AuthOptionMap!After(q4)
  <2>1. 4 \in 1 .. 5
    OBVIOUS
  <2> QED
    BY <2>1, <1>6, <1>14, <1>24, AuthOptionRead, SMTT(30)
<1> HIDE DEF zabcd
<1>26. AuthOptionMap!Read(zabcd \o e, q0) = AuthOptionMap!After(q5)
  <2>1. 5 \in 1 .. 5
    OBVIOUS
  <2> QED
    BY <2>1, <1>2, <1>6, <1>15, <1>25, AuthOptionRead, SMTT(30)
<1>27. AuthOptionsOf(p) = zabcd \o e
  BY <1>5, <1>21, Zenon DEF zabcd, zabc, zab, za
<1> QED
  BY <1>5, <1>26, <1>27, Zenon DEF q0

AuthItems(p, map) == <<Number(AUTH_REQUEST), Bytes(p.challenge)>> \o map

(* The item of an authentication request.                                  *)
LEMMA AuthRequestBody ==
    ASSUME NEW p \in AuthRequests
    PROVE  LET x == Body(p)
               o == AuthOptionsOf(p)
           IN  IsArray(x) /\ x.s = AuthItems(p, IF o # <<>> THEN <<PairsOf(o)>> ELSE <<>>)
<1> DEFINE o == AuthOptionsOf(p)
           s == AuthItems(p, IF o # <<>> THEN <<PairsOf(o)>> ELSE <<>>)
           n == IF o # <<>> THEN 3 ELSE 2
<1>1. Body(p) = BuildAuthRequest(p)
  BY AuthRequestFields, BodyOfType
<1>2. BuildAuthRequest(p) = Arr(n, s)
  BY Zenon DEF BuildAuthRequest, AuthItems, AuthOptionsOf
<1> HIDE DEF s, n
<1>3. IsArray(Arr(n, s)) /\ Arr(n, s).s = s
  BY ArrayItem
<1> QED
  BY <1>1, <1>2, <1>3, Zenon DEF s

(* An authentication request is parsed as it was built.                    *)
LEMMA AuthRequestRoundTrip ==
    ASSUME NEW p \in AuthRequests, NEW x, x = Body(p)
    PROVE  GetPacketType(x) = {p.type} /\ Parse(p.type, x) = {Received(p)}
<1> DEFINE o == AuthOptionsOf(p)
           m == PairsOf(o)
           q == AuthRead(p, 0, Absent, Absent, 0, <<>>)
           i1 == Number(AUTH_REQUEST)
           i2 == Bytes(p.challenge)
<1>1. AuthOptionMap!Read(o, q) = AuthOptionMap!After(Received(p))
  BY AuthOptionsAreRead
<1>2. IsMap(m) /\ m.s = o
  BY MapItem
<1>3. IsArray(x) /\ x.s = AuthItems(p, IF o # <<>> THEN <<m>> ELSE <<>>)
  BY AuthRequestBody
<1>4. IsBytes(i2) /\ Blob(i2) = p.challenge
  BY AuthRequestFields, BytesItem
<1>5. AuthItems(p, <<>>) = <<i1, i2>> \o <<>> /\ AuthItems(p, <<m>>) = <<i1, i2>> \o <<m>>
  BY Zenon DEF AuthItems
<1> HIDE DEF o, m, i1, i2
<1>6. o = <<>> => Received(p) = q
  <2> HIDE DEF q
  <2>1. AuthOptionMap!Read(<<>>, q) = AuthOptionMap!After(q)
    BY AuthOptionMap!EmptyIsRead
  <2>2. o = <<>> => AuthOptionMap!ReadMap(o, q) = {q} /\ AuthOptionMap!ReadMap(o, q) = {Received(p)}
    BY <1>1, <2>1, AuthOptionMap!MapIsRead
  <2> QED
    BY <2>2
<1> DEFINE s == x.s
<1>7. /\ s[1] = i1 /\ s[2] = i2 /\ At(s, 2) = i2
      /\ \/ Len(s) = 2 /\ Received(p) = q
         \/ Len(s) = 3 /\ s[3] = m
  <2>1. CASE s = <<i1, i2>> \o <<>> /\ Received(p) = q
    BY <2>1 DEF At
  <2>2. CASE s = <<i1, i2>> \o <<m>>
    BY <2>2 DEF At
  <2>3. (s = <<i1, i2>> \o <<>> /\ Received(p) = q) \/ s = <<i1, i2>> \o <<m>>
    BY <1>3, <1>5, <1>6, Zenon
  <2> QED
    BY <2>1, <2>2, <2>3, Zenon
<1>8. [type |-> AUTH_REQUEST, challenge |-> Blob(At(s, 2)), timeout |-> 0,
       rpId |-> Absent, allow |-> Absent, userVerification |-> 0, extensions |-> <<>>] = q
  BY <1>4, <1>7 DEF AuthRead
<1> HIDE DEF q, s
<1>9. AuthOptionMap!ReadMap(m.s, q) = {Received(p)}
  BY <1>1, <1>2, AuthOptionMap!MapIsRead
<1>10. ParseAuthRequest(s) = IF Len(s) = 2 THEN {q} ELSE When(IsMap(s[3]), AuthOptionMap!ReadMap(s[3].s, q))
  BY <1>4, <1>7, <1>8, Zenon DEF ParseAuthRequest
<1>11. ParseAuthRequest(s) = {Received(p)}
  BY <1>2, <1>7, <1>9, <1>10 DEF When
<1>12. GetPacketType(x) = {AUTH_REQUEST}
  <2>1. Len(x.s) \in Nat /\ 1 =< Len(x.s) /\ x.s[1] = Number(AUTH_REQUEST)
    BY <1>7 DEF s, i1
  <2> QED
    BY <1>3, <2>1, TypeIsRead
<1>13. Parse(AUTH_REQUEST, x) = ParseAuthRequest(s)
  BY <1>12, ParsedAs, ParserOfType DEF s
<1> QED
  BY <1>11, <1>12, <1>13, AuthRequestFields
-----------------------------------------------------------------------------
(* The authentication response.                                            *)
ResponseRead(p, userHandle, credId) ==
    [type |-> AUTH_RESPONSE, clientdata |-> p.clientdata, authdata |-> p.authdata,
     signature |-> p.signature, userHandle |-> userHandle, credId |-> credId]

(* Its fields.                                                             *)
LEMMA AuthResponseFields ==
    ASSUME NEW p \in AuthResponses
    PROVE  /\ p.type = AUTH_RESPONSE
           /\ p.clientdata \in Blobs /\ p.authdata \in Blobs /\ p.signature \in Blobs
           /\ p.userHandle \in Blobs /\ p.credId \in Blobs
BY DEF AuthResponses

(* What the server is to have of it.                                       *)
LEMMA AuthResponseReceived ==
    ASSUME NEW p \in AuthResponses
    PROVE  Received(p) = ResponseRead(p, p.userHandle, p.credId)
<1>1. p.type # REG_REQUEST
  BY AuthResponseFields, TypeNumbers
<1>2. Received(p) = p
  BY <1>1 DEF Received
<1>3. p = ResponseRead(p, p.userHandle, p.credId)
  BY DEF AuthResponses, ResponseRead
<1> QED
  BY <1>2, <1>3, Zenon

(* Each case of the switch over the keys sets its own field.               *)
LEMMA ResponseOptionSets ==
    \A p, h, i :
      /\ \A b \in Blobs : ResponseOption(1, Bytes(b), ResponseRead(p, h, i)) = {ResponseRead(p, b, i)}
      /\ \A b \in Blobs : ResponseOption(2, Bytes(b), ResponseRead(p, h, i)) = {ResponseRead(p, h, b)}
<1> TAKE p, h, i
<1> DEFINE q == ResponseRead(p, h, i)
<1>1. /\ \A n : [q EXCEPT !.userHandle = n] = ResponseRead(p, n, i)
      /\ \A n : [q EXCEPT !.credId = n] = ResponseRead(p, h, n)
  BY DEF ResponseRead
<1> HIDE DEF q
<1>2. \A b \in Blobs : IsBytes(Bytes(b)) /\ Blob(Bytes(b)) = b
  BY BytesItem
<1>3. ResponseKeys.userHandle = 1 /\ ResponseKeys.credId = 2
  BY DEF ResponseKeys
<1>4. /\ \A x : ResponseOption(1, x, q) = When(IsBytes(x), {[q EXCEPT !.userHandle = Blob(x)]})
      /\ \A x : ResponseOption(2, x, q) = When(IsBytes(x), {[q EXCEPT !.credId = Blob(x)]})
  BY <1>3 DEF ResponseOption
<1> QED
  BY <1>1, <1>2, <1>4 DEF When, q

(* The pairs the builder makes of the fields that are set.                 *)
ResponseOptionsOf(p) ==
    Pair(p.userHandle # Absent, ResponseKeys.userHandle, Bytes(p.userHandle))
    \o Pair(p.credId # Absent, ResponseKeys.credId, Bytes(p.credId))

(* They are read back.                                                     *)
LEMMA ResponseOptionsAreRead ==
    ASSUME NEW p \in AuthResponses
    PROVE  LET q == ResponseRead(p, Absent, Absent)
           IN  ResponseOptionMap!Read(ResponseOptionsOf(p), q) = ResponseOptionMap!After(Received(p))
<1> DEFINE x1 == Bytes(p.userHandle)
           x2 == Bytes(p.credId)
           S == {Number(n) : n \in Nat} \cup {x1, x2}
           q0 == ResponseRead(p, Absent, Absent)
           q1 == ResponseRead(p, p.userHandle, Absent)
           q2 == ResponseRead(p, p.userHandle, p.credId)
           a == Pair(p.userHandle # Absent, 1, x1)
           b == Pair(p.credId # Absent, 2, x2)
<1>1. p.userHandle \in Blobs /\ p.credId \in Blobs
  BY AuthResponseFields
<1>2. /\ x1 \in S /\ x2 \in S /\ Number(1) \in S /\ Number(2) \in S
  OBVIOUS
<1>3. ResponseOption(1, x1, q0) = {q1} /\ ResponseOption(2, x2, q1) = {q2}
  BY <1>1, ResponseOptionSets
<1>4. /\ ~(p.userHandle # Absent) => q1 = q0
      /\ ~(p.credId # Absent) => q2 = q1
  OBVIOUS
<1>5. ResponseOptionsOf(p) = a \o b /\ q2 = Received(p)
  BY AuthResponseReceived DEF ResponseOptionsOf, ResponseKeys
<1> HIDE DEF S, q0, q1, q2, x1, x2
<1>6. (a = Two(1, x1) /\ ResponseOption(1, x1, q0) = {q1}) \/ (a = <<>> /\ q1 = q0)
  BY <1>3, <1>4, PairIsTwo
<1>7. (b = Two(2, x2) /\ ResponseOption(2, x2, q1) = {q2}) \/ (b = <<>> /\ q2 = q1)
  BY <1>3, <1>4, PairIsTwo
<1> HIDE DEF a, b
<1> DEFINE z == <<>>
           za == z \o a
<1>8. z \in Seq(S) /\ ResponseOptionMap!Read(z, q0) = ResponseOptionMap!After(q0)
  BY ResponseOptionMap!EmptyIsRead, EmptySeq
<1>9. (z \o a) \o b = a \o b
  BY <1>6 DEF Two
<1> HIDE DEF z
<1>10. za \in Seq(S) /\ ResponseOptionMap!Read(za, q0) = ResponseOptionMap!After(q1)
  <2>1. 1 \in 1 .. 2
    OBVIOUS
  <2> QED
    BY <2>1, <1>2, <1>6, <1>8, ResponseOptionRead
<1> HIDE DEF za
<1>11. ResponseOptionMap!Read(za \o b, q0) = ResponseOptionMap!After(q2)
  <2>1. 2 \in 1 .. 2
    OBVIOUS
  <2> QED
    BY <2>1, <1>2, <1>7, <1>10, ResponseOptionRead
<1> QED
  BY <1>5, <1>9, <1>11, Zenon DEF za, q0

ResponseItems(p, map) ==
    <<Number(AUTH_RESPONSE), Text(p.clientdata), Bytes(p.authdata), Bytes(p.signature)>> \o map

(* The item of an authentication response.                                 *)
LEMMA AuthResponseBody ==
    ASSUME NEW p \in AuthResponses
    PROVE  LET x == Body(p)
               o == ResponseOptionsOf(p)
           IN  IsArray(x) /\ x.s = ResponseItems(p, IF o # <<>> THEN <<PairsOf(o)>> ELSE <<>>)
<1> DEFINE o == ResponseOptionsOf(p)
           s == ResponseItems(p, IF o # <<>> THEN <<PairsOf(o)>> ELSE <<>>)
<1>1. Body(p) = BuildAuthResponse(p)
  BY AuthResponseFields, BodyOfType
<1>2. BuildAuthResponse(p) = Arr(5, s)
  BY Zenon DEF BuildAuthResponse, ResponseItems, ResponseOptionsOf
<1> HIDE DEF s
<1>3. IsArray(Arr(5, s)) /\ Arr(5, s).s = s
  BY ArrayItem
<1> QED
  BY <1>1, <1>2, <1>3, Zenon DEF s

(* An authentication response is parsed as it was built.                   *)
LEMMA AuthResponseRoundTrip ==
    ASSUME NEW p \in AuthResponses, NEW x, x = Body(p)
    PROVE  GetPacketType(x) = {p.type} /\ Parse(p.type, x) = {Received(p)}
<1> DEFINE o == ResponseOptionsOf(p)
           m == PairsOf(o)
           q == ResponseRead(p, Absent, Absent)
           i1 == Number(AUTH_RESPONSE)
           i2 == Text(p.clientdata)
           i3 == Bytes(p.authdata)
           i4 == Bytes(p.signature)
<1>1. ResponseOptionMap!Read(o, q) = ResponseOptionMap!After(Received(p))
  BY ResponseOptionsAreRead
<1>2. IsMap(m) /\ m.s = o
  BY MapItem
<1>3. IsArray(x) /\ x.s = ResponseItems(p, IF o # <<>> THEN <<m>> ELSE <<>>)
  BY AuthResponseBody
<1>4. /\ IsText(i2) /\ Blob(i2) = p.clientdata
      /\ IsBytes(i3) /\ Blob(i3) = p.authdata
      /\ IsBytes(i4) /\ Blob(i4) = p.signature
  BY AuthResponseFields, BytesItem, TextItem
<1>5. /\ ResponseItems(p, <<>>) = <<i1, i2, i3, i4>> \o <<>>
      /\ ResponseItems(p, <<m>>) = <<i1, i2, i3, i4>> \o <<m>>
  BY Zenon DEF ResponseItems
<1> HIDE DEF o, m, i1, i2, i3, i4
<1>6. o = <<>> => Received(p) = q
  <2> HIDE DEF q
  <2>1. ResponseOptionMap!Read(<<>>, q) = ResponseOptionMap!After(q)
    BY ResponseOptionMap!EmptyIsRead
  <2>2. o = <<>> => ResponseOptionMap!ReadMap(o, q) = {q} /\ ResponseOptionMap!ReadMap(o, q) = {Received(p)}
    BY <1>1, <2>1, ResponseOptionMap!MapIsRead
  <2> QED
    BY <2>2
<1> DEFINE s == x.s
<1>7. /\ s[1] = i1 /\ At(s, 2) = i2 /\ At(s, 3) = i3 /\ At(s, 4) = i4
      /\ \/ Len(s) = 4 /\ Received(p) = q
         \/ Len(s) = 5 /\ s[5] = m
  <2>1. CASE s = <<i1, i2, i3, i4>> \o <<>> /\ Received(p) = q
    BY <2>1 DEF At
  <2>2. CASE s = <<i1, i2, i3, i4>> \o <<m>>
    BY <2>2 DEF At
  <2>3. (s = <<i1, i2, i3, i4>> \o <<>> /\ Received(p) = q) \/ s = <<i1, i2, i3, i4>> \o <<m>>
    BY <1>3, <1>5, <1>6, Zenon
  <2> QED
    BY <2>1, <2>2, <2>3, Zenon
<1>8. [type |-> AUTH_RESPONSE, clientdata |-> Blob(At(s, 2)), authdata |-> Blob(At(s, 3)),
       signature |-> Blob(At(s, 4)), userHandle |-> Absent, credId |-> Absent] = q
  BY <1>4, <1>7 DEF ResponseRead
<1> HIDE DEF q, s
<1>9. ResponseOptionMap!ReadMap(m.s, q) = {Received(p)}
  BY <1>1, <1>2, ResponseOptionMap!MapIsRead
<1>10. ParseAuthResponse(s) =
         IF Len(s) = 4 THEN {q} ELSE When(IsMap(s[5]), ResponseOptionMap!ReadMap(s[5].s, q))
  BY <1>4, <1>7, <1>8, Zenon DEF ParseAuthResponse
<1>11. ParseAuthResponse(s) = {Received(p)}
  BY <1>2, <1>7, <1>9, <1>10 DEF When
<1>12. GetPacketType(x) = {AUTH_RESPONSE}
  <2>1. Len(x.s) \in Nat /\ 1 =< Len(x.s) /\ x.s[1] = Number(AUTH_RESPONSE)
    BY <1>7 DEF s, i1
  <2> QED
    BY <1>3, <2>1, TypeIsRead
<1>13. Parse(AUTH_RESPONSE, x) = ParseAuthResponse(s)
  BY <1>12, ParsedAs, ParserOfType DEF s
<1> QED
  BY <1>11, <1>12, <1>13, AuthResponseFields

-----------------------------------------------------------------------------
(* The wire holds what cbor_build makes of the packet, or that with one    *)
(* pair more.                                                              *)
WireInv ==
    /\ wire # {} \/ extended => sent \in Outgoing
    /\ wire # {} /\ sent.type = PRE_RESPONSE => sent.ephUserId.len = 256 /\ sent.gcmKey.len = 32
    /\ ~extended => \A x \in wire : x = Body(sent)
    /\ extended => \A x \in wire : \E k \in NewKeys, value \in NewValues, first \in BOOLEAN :
                      HasMap(Body(sent)) /\ x = WithPair(Body(sent), k, value, first)

(* The packets that are sent have a type.                                  *)
LEMMA OutgoingTypes == \A p \in Outgoing : p.type \in PacketTypes /\ p.type # UNDEFINED
<1> TAKE p \in Outgoing
<1>1. \/ p \in RegRequests \/ p \in AuthRequests \/ p \in AuthResponses \/ p \in RegResponses
      \/ p \in PreResponses \/ p \in SealedIndications \/ p \in BareIndications
  BY WireAssumption
<1>2. \/ p.type \in {REG_REQUEST, AUTH_REQUEST, AUTH_RESPONSE, REG_RESPONSE, PRE_RESPONSE}
      \/ p.type \in {REG_INDICATION, AUTH_INDICATION_SERVER_SIDE}
      \/ p.type \in {PRE_INDICATION, AUTH_INDICATION_DISCOVERABLE}
  BY <1>1, RegRequestFields, AuthRequestFields, AuthResponseFields
     DEF RegResponses, PreResponses, SealedIndications, BareIndications
<1> QED
  BY <1>2, TypeNumbers DEF PacketTypes

(* That no packet was sent yet is not a packet.                            *)
LEMMA NothingNotOutgoing == Nothing \notin Outgoing
BY OutgoingTypes DEF Nothing

(* The invariant of the wire holds.                                        *)
LEMMA WireInvHolds == WireSpec => []WireInv
<1>1. WireStart => WireInv
  BY DEF WireStart, WireInv
<1>2. WireInv /\ [WireNext]_wireVars => WireInv'
  <2> SUFFICES ASSUME WireInv, [WireNext]_wireVars
               PROVE  WireInv'
    OBVIOUS
  <2>1. ASSUME NEW p \in Outgoing, Send(p)
        PROVE  WireInv'
    <3>1. sent' = p /\ wire' = Build(p) /\ extended' = extended /\ wire = {} /\ ~extended
      BY <2>1, NothingNotOutgoing DEF Send, WireInv
    <3>2. /\ Build(p) \subseteq Encode(BufSize, Body(p))
          /\ p.type = PRE_RESPONSE => \A x \in Build(p) : p.ephUserId.len = 256 /\ p.gcmKey.len = 32
      BY OutgoingTypes, BuiltBody
    <3>3. \A x \in wire' : x = Body(sent')
      BY <3>1, <3>2, EncodedItself
    <3>4. wire' # {} /\ p.type = PRE_RESPONSE => p.ephUserId.len = 256 /\ p.gcmKey.len = 32
      BY <3>1, <3>2
    <3> QED
      BY <3>1, <3>3, <3>4, Zenon DEF WireInv
  <2>2. ASSUME NEW k \in NewKeys, NEW value \in NewValues, NEW first \in BOOLEAN,
               Extend(k, value, first)
        PROVE  WireInv'
    <3>1. PICK x \in wire : HasMap(x) /\ wire' = {WithPair(x, k, value, first)}
      BY <2>2 DEF Extend
    <3>2. ~extended /\ extended' = TRUE /\ sent' = sent
      BY <2>2 DEF Extend
    <3>3. x = Body(sent)
      BY <3>2 DEF WireInv
    <3>4. sent' \in Outgoing /\ (sent'.type = PRE_RESPONSE =>
                                  sent'.ephUserId.len = 256 /\ sent'.gcmKey.len = 32)
      BY <3>1, <3>2 DEF WireInv
    <3>6. extended'
      BY <3>2
    <3>5. \A y \in wire' : HasMap(Body(sent')) /\ y = WithPair(Body(sent'), k, value, first)
      BY <3>1, <3>2, <3>3
    <3> QED
      BY <3>4, <3>5, <3>6, Zenon DEF WireInv
  <2>3. CASE Receive
    BY <2>3 DEF Receive, WireInv
  <2>4. CASE UNCHANGED wireVars
    BY <2>4 DEF wireVars, WireInv
  <2> QED
    BY <2>1, <2>2, <2>3, <2>4 DEF WireNext
<1> QED
  BY <1>1, <1>2, PTL DEF WireSpec

(* All packet types together.                                              *)
LEMMA OutgoingRoundTrip ==
    ASSUME NEW p \in Outgoing,
           p.type = PRE_RESPONSE => p.ephUserId.len = 256 /\ p.gcmKey.len = 32,
           NEW x, x = Body(p)
    PROVE  GetPacketType(x) = {p.type} /\ Parse(p.type, x) = {Received(p)}
<1>1. \/ p \in RegRequests \/ p \in AuthRequests \/ p \in AuthResponses \/ p \in RegResponses
      \/ p \in PreResponses \/ p \in SealedIndications \/ p \in BareIndications
  BY WireAssumption
<1>2. p \in PreResponses => p.type = PRE_RESPONSE
  BY DEF PreResponses
<1>3. CASE p \in RegRequests
  BY <1>3, RegRequestRoundTrip
<1>4. CASE p \in AuthRequests
  BY <1>4, AuthRequestRoundTrip
<1>5. CASE p \in AuthResponses
  BY <1>5, AuthResponseRoundTrip
<1>6. CASE p \in RegResponses
  BY <1>6, RegResponseRoundTrip
<1>7. CASE p \in PreResponses
  BY <1>7, <1>2, PreResponseRoundTrip
<1>8. CASE p \in SealedIndications
  BY <1>8, IndicationRoundTrip
<1>9. CASE p \in BareIndications
  BY <1>9, BareRoundTrip
<1> QED
  BY <1>1, <1>3, <1>4, <1>5, <1>6, <1>7, <1>8, <1>9, Zenon

(* What Receive makes of the one item on the wire.                         *)
LEMMA OneReceived ==
    ASSUME Receive, NEW type, NEW r,
           \A x \in wire : GetPacketType(x) = {type} /\ Parse(type, x) = {r}
    PROVE  got' = {r} /\ sent' = sent
<1>1. PICK x \in wire : \E t \in GetPacketType(x) : got' = Parse(t, x)
  BY DEF Receive
<1> QED
  BY <1>1 DEF Receive

(* A message leaves the wire by being received.                            *)
LEMMA OnlyReceiveEmpties ==
    ASSUME WireInv, [WireNext]_wireVars, wire # {}, wire' = {}
    PROVE  Receive
<1>1. ASSUME NEW p \in Outgoing, Send(p)
      PROVE  FALSE
  BY <1>1, NothingNotOutgoing DEF Send, WireInv
<1>2. ASSUME NEW k \in NewKeys, NEW value \in NewValues, NEW first \in BOOLEAN,
             Extend(k, value, first)
      PROVE  FALSE
  BY <1>2 DEF Extend
<1>3. ~UNCHANGED wireVars
  BY DEF wireVars
<1> QED
  BY <1>1, <1>2, <1>3 DEF WireNext

(* cbor_build and cbor_parse agree: what a side parses is the packet the   *)
(* other side built, for all packets of the types in types.h, with any     *)
(* optional fields set.                                                    *)
THEOREM WireRoundTrip == WireSpec => RoundTrip
<1>1. ASSUME WireInv, [WireNext]_wireVars
      PROVE  [wire # {} /\ wire' = {} /\ ~extended => got' = {Received(sent)}]_wireVars
  <2> SUFFICES ASSUME wire # {}, wire' = {}, ~extended
               PROVE  got' = {Received(sent)}
    OBVIOUS
  <2>1. Receive
    BY <1>1, OnlyReceiveEmpties
  <2>2. \A x \in wire : GetPacketType(x) = {sent.type} /\ Parse(sent.type, x) = {Received(sent)}
    BY <1>1, OutgoingRoundTrip DEF WireInv
  <2> QED
    BY <2>1, <2>2, OneReceived
<1> QED
  BY <1>1, WireInvHolds, PTL DEF WireSpec, RoundTrip

-----------------------------------------------------------------------------
(* A registration request with a pair of a later version.                  *)
LEMMA NewKeyIsPassed ==
    ASSUME NEW k \in NewKeys, NEW x, NEW q
    PROVE  k \in Nat /\ RegOption(k, x, q) = {q}
<1>1. k \in Nat /\ k \notin {RegKeys[f] : f \in DOMAIN RegKeys}
  BY WireAssumption
<1>2. k # RegKeys.timeout /\ k # RegKeys.authSel /\ k # RegKeys.attestation /\ k # RegKeys.extensions
  BY <1>1 DEF RegKeys
<1> QED
  BY <1>1, <1>2 DEF RegOption

(* A pair with a key of a later version in front of the options or behind  *)
(* them.                                                                   *)
LEMMA ReadWithNewPair ==
    ASSUME NEW k \in NewKeys, NEW x, NEW S, NEW o \in Seq(S), NEW q, NEW r,
           RegOptionMap!Read(o, q) = RegOptionMap!After(r)
    PROVE  LET new == <<Number(k), x>>
           IN  /\ RegOptionMap!Read(o \o new, q) = RegOptionMap!After(r)
               /\ RegOptionMap!Read(new \o o, q) = RegOptionMap!After(r)
<1> DEFINE n == Number(k)
           new == <<n, x>>
           T == S \cup {n, x}
<1>1. UintKey(n) = {k} /\ k # Between /\ RegOption(k, x, r) = {r} /\ RegOption(k, x, q) = {q}
  BY NewKeyIsPassed, UintKeys
<1>2. o \in Seq(T) /\ n \in T /\ x \in T
  OBVIOUS
<1>3. <<>> \in Seq(T) /\ new \in Seq(T) /\ <<>> \o new = new
  OBVIOUS
<1> HIDE DEF n, T
<1>4. RegOptionMap!Read(o \o <<n, x>>, q) = RegOptionMap!After(r)
  BY <1>1, <1>2, RegOptionMap!PairIsRead
<1>5. RegOptionMap!Read(<<>> \o <<n, x>>, q) = RegOptionMap!After(q)
  <2>1. RegOptionMap!Read(<<>>, q) = RegOptionMap!After(q)
    BY RegOptionMap!EmptyIsRead
  <2> DEFINE z == <<>>
  <2>2. z \in Seq(T) /\ RegOptionMap!Read(z, q) = RegOptionMap!After(q)
    BY <1>3, <2>1
  <2> HIDE DEF z
  <2>3. RegOptionMap!Read(z \o <<n, x>>, q) = RegOptionMap!After(q)
    BY <1>1, <1>2, <2>2, RegOptionMap!PairIsRead
  <2> QED
    BY <2>3 DEF z
<1>6. RegOptionMap!Read(new, q) = RegOptionMap!After(q)
  BY <1>3, <1>5, Zenon
<1> HIDE DEF new
<1>7. RegOptionMap!Read(new \o o, q) = RegOptionMap!Read(o, q)
  BY <1>2, <1>3, <1>6, RegOptionMap!PairInFront
<1> QED
  BY <1>4, <1>7, Zenon DEF n, new

(* The seventh of seven items is the map of options.                       *)
LEMMA SeventhReplaced ==
    ASSUME NEW a, NEW b, NEW c, NEW d, NEW e, NEW f, NEW m, NEW w
    PROVE  [<<a, b, c, d, e, f, m>> EXCEPT ![7] = w] = <<a, b, c, d, e, f, w>>
<1> DEFINE t == <<a, b, c, d, e, f, m>>
           u == <<a, b, c, d, e, f, w>>
<1>1. t = [i \in 1 .. 7 |-> t[i]] /\ u = [i \in 1 .. 7 |-> u[i]]
  OBVIOUS
<1>2. \A i \in 1 .. 7 : u[i] = IF i = 7 THEN w ELSE t[i]
  OBVIOUS
<1> HIDE DEF t, u
<1>3. [t EXCEPT ![7] = w] = [i \in 1 .. 7 |-> IF i = 7 THEN w ELSE t[i]]
  BY <1>1
<1>4. [t EXCEPT ![7] = w] = u
  BY <1>1, <1>2, <1>3
<1> QED
  BY <1>4 DEF t, u

(* An array with a seventh item.                                           *)
LEMMA SixAndOne ==
    ASSUME NEW a, NEW b, NEW c, NEW d, NEW e, NEW f, NEW w
    PROVE  <<a, b, c, d, e, f>> \o <<w>> = <<a, b, c, d, e, f, w>>
<1> DEFINE S == {a, b, c, d, e, f, w}
           t == <<a, b, c, d, e, f>> \o <<w>>
           u == <<a, b, c, d, e, f, w>>
<1>1. t \in Seq(S) /\ u \in Seq(S)
  OBVIOUS
<1>2. Len(t) = 7 /\ Len(u) = 7
  OBVIOUS
<1>3. /\ t[1] = u[1] /\ t[2] = u[2] /\ t[3] = u[3] /\ t[4] = u[4]
      /\ t[5] = u[5] /\ t[6] = u[6] /\ t[7] = u[7]
  OBVIOUS
<1> HIDE DEF S, t, u
<1>4. \A i \in 1 .. 7 : t[i] = u[i]
  BY <1>3
<1>5. t = u
  BY <1>1, <1>2, <1>4, SeqEqual
<1> QED
  BY <1>5 DEF t, u

(* A request without options has six items ...                             *)
LEMMA ItemsWithoutMap ==
    \A p : Len(RegItems(p, <<>>)) = 6 /\ RegItems(p, <<>>)[1] = Number(REG_REQUEST)
<1> TAKE p
<1> DEFINE i1 == Number(REG_REQUEST)
           i2 == Text(p.rpId)
           i3 == Text(p.rpName)
           i4 == Bytes(p.challenge)
           i5 == ParamsOf(p)
           i6 == Bytes(p.encrypted)
           six == <<i1, i2, i3, i4, i5, i6>>
<1>1. RegItems(p, <<>>) = six \o <<>>
  BY Zenon DEF RegItems
<1> HIDE DEF i1, i2, i3, i4, i5, i6
<1>2. six \o <<>> = six /\ Len(six) = 6 /\ six[1] = i1
  OBVIOUS
<1> HIDE DEF six
<1> QED
  BY <1>1, <1>2, Zenon DEF i1

(* ... and with options a seventh, which can be exchanged.                 *)
LEMMA ItemsWithMap ==
    \A p, m : /\ Len(RegItems(p, <<m>>)) = 7 /\ RegItems(p, <<m>>)[7] = m
              /\ RegItems(p, <<m>>)[1] = Number(REG_REQUEST)
              /\ \A w : [RegItems(p, <<m>>) EXCEPT ![7] = w] = RegItems(p, <<w>>)
<1> TAKE p, m
<1> DEFINE i1 == Number(REG_REQUEST)
           i2 == Text(p.rpId)
           i3 == Text(p.rpName)
           i4 == Bytes(p.challenge)
           i5 == ParamsOf(p)
           i6 == Bytes(p.encrypted)
           six == <<i1, i2, i3, i4, i5, i6>>
<1>1. \A w : RegItems(p, <<w>>) = six \o <<w>>
  BY Zenon DEF RegItems
<1> HIDE DEF i1, i2, i3, i4, i5, i6
<1>3. Len(six \o <<m>>) = 7 /\ (six \o <<m>>)[7] = m /\ (six \o <<m>>)[1] = i1
  OBVIOUS
<1>4. ASSUME NEW w
      PROVE  [six \o <<m>> EXCEPT ![7] = w] = six \o <<w>>
  <2>1. \A v : six \o <<v>> = <<i1, i2, i3, i4, i5, i6, v>>
    BY SixAndOne
  <2>2. [<<i1, i2, i3, i4, i5, i6, m>> EXCEPT ![7] = w] = <<i1, i2, i3, i4, i5, i6, w>>
    BY SeventhReplaced
  <2> QED
    BY <2>1, <2>2, Zenon
<1> HIDE DEF six
<1> QED
  BY <1>1, <1>3, <1>4, Zenon DEF i1

(* A request with such a pair is parsed as without it.                     *)
LEMMA ExtendedRoundTrip ==
    ASSUME NEW p \in RegRequests, NEW k \in NewKeys, NEW value, NEW first \in BOOLEAN,
           HasMap(Body(p)), NEW x, x = WithPair(Body(p), k, value, first)
    PROVE  GetPacketType(x) = {p.type} /\ Parse(p.type, x) = {Received(p)}
<1> DEFINE o == RegOptionsOf(p)
           m == PairsOf(o)
           q == RegRead(p, 0, 0, 1, 2, 1, <<>>)
           y == Body(p)
           s == y.s
           new == <<Number(k), value>>
           pairs == IF first THEN new \o o ELSE o \o new
           w == PairsOf(pairs)
<1>1. RegOptionMap!Read(o, q) = RegOptionMap!After(Received(p)) /\ \E S : o \in Seq(S)
  BY RegOptionsAreRead
<1>2. IsMap(m) /\ m.s = o /\ IsMap(w) /\ w.s = pairs
  BY MapItem
<1>3. s = RegItems(p, IF o # <<>> THEN <<m>> ELSE <<>>)
  BY RegRequestBody
<1> HIDE DEF o, m, y, s, q
<1>4. RegOptionMap!Read(pairs, q) = RegOptionMap!After(Received(p))
  BY <1>1, ReadWithNewPair
<1> HIDE DEF pairs, w
<1>5. RegOptionMap!ReadMap(w.s, q) = {Received(p)}
  BY <1>2, <1>4, RegOptionMap!MapIsRead
<1>6. s[1] = Number(REG_REQUEST) /\ s[1].n = REG_REQUEST
  BY <1>3, ItemsWithMap, ItemsWithoutMap, NumberItem
<1>7. REG_REQUEST \in DOMAIN MapAt /\ MapAt[REG_REQUEST] = 7
  BY TypeNumbers DEF MapAt
<1>8. Len(s) = 7
  BY <1>6, <1>7, Zenon DEF HasMap, y, s
<1>9. s = RegItems(p, <<m>>)
  <2>1. s = RegItems(p, <<m>>) \/ s = RegItems(p, <<>>)
    BY <1>3, Zenon
  <2>2. Len(RegItems(p, <<>>)) = 6
    BY ItemsWithoutMap
  <2>3. 6 # 7
    OBVIOUS
  <2> QED
    BY <1>8, <2>1, <2>2, <2>3, Zenon
<1>10. s[7] = m /\ [s EXCEPT ![7] = w] = RegItems(p, <<w>>)
  BY <1>9, ItemsWithMap
<1>11. x = Arr(y.n, [s EXCEPT ![7] = w])
  <2>1. x = Arr(y.n, [s EXCEPT ![7] = PairsOf(IF first THEN new \o s[7].s ELSE s[7].s \o new)])
    BY <1>6, <1>7, Zenon DEF WithPair, y, s
  <2>2. s[7].s = o
    BY <1>2, <1>10
  <2> QED
    BY <2>1, <2>2, Zenon DEF w, pairs
<1>12. IsArray(x) /\ x.s = RegItems(p, <<w>>)
  BY <1>10, <1>11, ArrayItem
<1> DEFINE t == x.s
<1>13. t = RegItems(p, <<w>>) /\ IsMap(w) /\ RegOptionMap!ReadMap(w.s, q) = {Received(p)}
  BY <1>2, <1>5, <1>12
<1> HIDE DEF t
<1>14. ParseRegRequest(t) = {Received(p)} /\ t[1] = Number(REG_REQUEST) /\ Len(t) \in 6..7
  BY <1>13, RegRequestParsed DEF q
<1>15. GetPacketType(x) = {REG_REQUEST}
  BY <1>12, <1>14, TypeIsRead DEF t
<1>16. Parse(REG_REQUEST, x) = ParseRegRequest(t)
  BY <1>15, ParsedAs, ParserOfType DEF t
<1> QED
  BY <1>14, <1>15, <1>16, RegRequestFields

(* The type of a packet says that it is a registration request.            *)
LEMMA RegRequestsByType == \A p \in Outgoing : p.type = REG_REQUEST => p \in RegRequests
<1> TAKE p \in Outgoing
<1>1. \/ p \in RegRequests \/ p \in AuthRequests \/ p \in AuthResponses \/ p \in RegResponses
      \/ p \in PreResponses \/ p \in SealedIndications \/ p \in BareIndications
  BY WireAssumption
<1>2. \/ p \in RegRequests
      \/ p.type \in {AUTH_REQUEST, AUTH_RESPONSE, REG_RESPONSE, PRE_RESPONSE}
      \/ p.type \in {REG_INDICATION, AUTH_INDICATION_SERVER_SIDE}
      \/ p.type \in {PRE_INDICATION, AUTH_INDICATION_DISCOVERABLE}
  BY <1>1, AuthRequestFields, AuthResponseFields
     DEF RegResponses, PreResponses, SealedIndications, BareIndications
<1> QED
  BY <1>2, TypeNumbers

(* An option of a later version, wherever it stands in the map and         *)
(* whatever its value, changes nothing of what is parsed from a            *)
(* registration request (the default case of the switch over its keys).    *)
THEOREM WireRegRequestExtensible == WireSpec => RegRequestExtensible
<1>1. ASSUME WireInv, [WireNext]_wireVars
      PROVE  [wire # {} /\ wire' = {} /\ sent.type = REG_REQUEST
                => got' = {Received(sent)}]_wireVars
  <2> SUFFICES ASSUME wire # {}, wire' = {}, sent.type = REG_REQUEST
               PROVE  got' = {Received(sent)}
    OBVIOUS
  <2>1. Receive
    BY <1>1, OnlyReceiveEmpties
  <2>2. sent \in Outgoing /\ sent \in RegRequests
    BY <1>1, RegRequestsByType DEF WireInv
  <2>3. \A x \in wire : GetPacketType(x) = {sent.type} /\ Parse(sent.type, x) = {Received(sent)}
    <3>1. CASE ~extended
      BY <1>1, <2>2, <3>1, RegRequestRoundTrip DEF WireInv
    <3>2. CASE extended
      BY <1>1, <2>2, <3>2, ExtendedRoundTrip DEF WireInv
    <3> QED
      BY <3>1, <3>2
  <2> QED
    BY <2>1, <2>3, OneReceived
<1> QED
  BY <1>1, WireInvHolds, PTL DEF WireSpec, RegRequestExtensible
-----------------------------------------------------------------------------
(***************************************************************************)
(* Enrolments: what fits.  First the sizes.                                *)
(***************************************************************************)
LEMMA HeadSizes ==
    \A n \in Nat : /\ Head8(n) \in 1..5
                   /\ n < 65535 => Head8(n + 1) =< Head8(n) + 1
                   /\ n < 65536 => Head8(n) =< 3
                   /\ n < 256 => Head8(n) =< 2
                   /\ n < 24 => Head8(n) = 1
                   /\ n >= 256 /\ n < 65536 => Head8(n) = 3
                   /\ n >= 24 /\ n < 256 => Head8(n) = 2
BY DEF Head8

(* The size of a head is a number.                                         *)
LEMMA HeadIsNat == \A n \in Nat : Head8(n) \in Nat
BY DEF Head8

(* The size of a container is the size of its head and of all its items.   *)
LEMMA SizesAdd ==
    ASSUME NEW S, \A x \in S : x.size \in Nat \ {0},
           NEW s \in Seq(S), NEW h \in Nat
    PROVE  /\ Sizes!Iterate(h, s) = h + Sizes!Iterate(0, s)
           /\ Sizes!Iterate(0, s) \in Nat
           /\ Sizes!Iterate(0, s) >= Len(s)
<1> DEFINE T == {t \in Seq(S) : /\ \A a \in Nat : Sizes!Iterate(a, t) = a + Sizes!Iterate(0, t)
                                /\ Sizes!Iterate(0, t) \in Nat
                                /\ Sizes!Iterate(0, t) >= Len(t)}
<1>1. <<>> \in T
  <2>1. \A a : Sizes!Iterate(a, <<>>) = a
    BY Sizes!IterateEmpty
  <2>2. Len(<<>>) = 0 /\ <<>> \in Seq(S)
    OBVIOUS
  <2> QED
    BY <2>1, <2>2
<1>2. ASSUME NEW t \in Seq(S), NEW x \in S, t \in T
      PROVE  Append(t, x) \in T
  <2> DEFINE u == Append(t, x)
             m == Sizes!Iterate(0, t)
             k == x.size
  <2>1. ASSUME NEW a \in Nat
        PROVE  Sizes!Iterate(a, u) = a + m + k
    <3>1. Sizes!Iterate(a, u) = Sizes!Iterate(a, t) + x.size
      BY Sizes!IterateAppend DEF AddSize
    <3>2. Sizes!Iterate(a, t) = a + m
      BY <1>2
    <3> QED
      BY <3>1, <3>2
  <2>2. m \in Nat /\ m >= Len(t) /\ k \in Nat \ {0} /\ Len(t) \in Nat
    BY <1>2
  <2>3. Len(u) = Len(t) + 1 /\ u \in Seq(S)
    OBVIOUS
  <2> HIDE DEF u, m, k
  <2>4. Sizes!Iterate(0, u) = m + k
    BY <2>1, <2>2
  <2>5. \A a \in Nat : Sizes!Iterate(a, u) = a + Sizes!Iterate(0, u)
    BY <2>1, <2>2, <2>4
  <2>6. Sizes!Iterate(0, u) \in Nat /\ Sizes!Iterate(0, u) >= Len(u)
    BY <2>2, <2>3, <2>4
  <2>7. u \in T
    BY <2>3, <2>5, <2>6, Zenon
  <2> QED
    BY <2>7 DEF u
<1> HIDE DEF T
<1>3. s \in T
  BY <1>1, <1>2, Sizes!InductionOnSeq
<1> QED
  BY <1>3 DEF T

(* The size of two items.                                                  *)
LEMMA SizeOfTwo ==
    ASSUME NEW h, NEW a, NEW b
    PROVE  Sizes!Iterate(h, <<a, b>>) = (h + a.size) + b.size
<1> DEFINE S == {a, b}
           s0 == <<>>
           s1 == <<a>>
           s2 == <<a, b>>
<1>1. a \in S /\ b \in S /\ s0 \in Seq(S) /\ s1 \in Seq(S) /\ s1 = Append(s0, a) /\ s2 = Append(s1, b)
  OBVIOUS
<1>2. Sizes!Iterate(h, s0) = h
  BY Sizes!IterateEmpty
<1> HIDE DEF S, s0, s1, s2
<1>3. Sizes!Iterate(h, s1) = h + a.size
  BY <1>1, <1>2, Sizes!IterateAppend DEF AddSize
<1>4. Sizes!Iterate(h, s2) = (h + a.size) + b.size
  BY <1>1, <1>3, Sizes!IterateAppend DEF AddSize
<1> QED
  BY <1>4 DEF s2

(* Two items more.                                                         *)
LEMMA SizeOfTwoMore ==
    ASSUME NEW h, NEW S, NEW s \in Seq(S), NEW a \in S, NEW b \in S
    PROVE  /\ s \o <<a, b>> \in Seq(S) /\ Len(s \o <<a, b>>) = Len(s) + 2
           /\ Sizes!Iterate(h, s \o <<a, b>>) = (Sizes!Iterate(h, s) + a.size) + b.size
<1> DEFINE t == Append(s, a)
<1>1. t \in Seq(S) /\ s \o <<a, b>> = Append(t, b) /\ s \o <<a, b>> \in Seq(S)
      /\ Len(s \o <<a, b>>) = Len(s) + 2
  OBVIOUS
<1>2. Sizes!Iterate(h, t) = Sizes!Iterate(h, s) + a.size
  BY Sizes!IterateAppend DEF AddSize
<1> HIDE DEF t
<1>3. Sizes!Iterate(h, Append(t, b)) = (Sizes!Iterate(h, s) + a.size) + b.size
  BY <1>1, <1>2, Sizes!IterateAppend DEF AddSize
<1> QED
  BY <1>1, <1>3

-----------------------------------------------------------------------------
(* Lists of credential ids.                                                *)
CredIds == BlobsOf(Nat \ {0})

Entry(b) == Arr(2, <<Number(PublicKey), Bytes(b)>>)
Entries(list) == [i \in 1..Len(list) |-> Entry(list[i])]
EntriesSize(list) == Sizes!Iterate(0, Entries(list))

(* A credential id is a value that is not empty.                           *)
LEMMA CredIdFields == \A b \in CredIds : b \in Blobs /\ b.len \in Nat \ {0}
BY BlobFields DEF CredIds

(* The descriptor of a credential.                                         *)
LEMMA EntryItem ==
    ASSUME NEW b \in CredIds
    PROVE  LET x == Entry(b)
           IN  /\ IsArray(x) /\ x.n = 2 /\ x.whole
               /\ IsUint(x.s[1]) /\ x.s[1].n = PublicKey
               /\ IsBytes(x.s[2]) /\ x.s[2].len > 0 /\ Blob(x.s[2]) = b
               /\ x.size = 2 + Head8(b.len) + b.len
               /\ x.size \in Nat \ {0}
<1> DEFINE p == Number(PublicKey)
           c == Bytes(b)
           s == <<p, c>>
           x == Arr(2, s)
           n == b.len
<1>1. b \in Blobs /\ n \in Nat \ {0}
  BY CredIdFields
<1>2. IsUint(p) /\ p.n = PublicKey /\ p.whole /\ p.size = 1
  BY NumberItem DEF PublicKey, Head8
<1>3. IsBytes(c) /\ c.len = n /\ Blob(c) = b /\ c.whole /\ c.size = Head8(n) + n
  BY <1>1, BytesItem
<1>4. Head8(n) \in 1..5 /\ Head8(2) = 1
  BY <1>1, HeadSizes
<1> HIDE DEF p, c, n
<1>5. s[1] = p /\ s[2] = c /\ Len(s) = 2
  OBVIOUS
<1>6. Sizes!Iterate(1, s) = (1 + p.size) + c.size
  BY SizeOfTwo
<1> HIDE DEF s
<1>7. IsArray(x) /\ x.s = s /\ x.n = 2 /\ x.size = Sizes!Iterate(Head8(2), s)
      /\ x.whole = (Len(s) = 2 /\ \A i \in 1..Len(s) : s[i].whole)
  BY ArrayItem
<1> HIDE DEF x
<1>8. \A i \in 1..Len(s) : s[i].whole
  BY <1>2, <1>3, <1>5
<1>9. x.whole
  BY <1>5, <1>7, <1>8
<1>10. x.size = 2 + Head8(n) + n
  BY <1>1, <1>2, <1>3, <1>4, <1>6, <1>7
<1>11. x.size \in Nat \ {0}
  BY <1>1, <1>4, <1>10
<1>12. Entry(b) = x
  BY Zenon DEF Entry, x, s, p, c
<1>13. IsUint(x.s[1]) /\ x.s[1].n = PublicKey
  BY <1>2, <1>5, <1>7
<1>14. IsBytes(x.s[2]) /\ x.s[2].len > 0 /\ Blob(x.s[2]) = b
  BY <1>1, <1>3, <1>5, <1>7
<1> QED
  BY <1>7, <1>9, <1>10, <1>11, <1>12, <1>13, <1>14 DEF n

(* The list of descriptors that is built ...                               *)
LEMMA DescriptorsItem ==
    ASSUME NEW list \in Seq(CredIds)
    PROVE  LET x == Descriptors(list)
           IN  /\ IsArray(x) /\ x.n = Len(list) /\ x.s = Entries(list) /\ x.whole
               /\ x.size = Sizes!Iterate(Head8(Len(list)), Entries(list))
<1> DEFINE x == Arr(Len(list), Entries(list))
<1>1. Descriptors(list) = x
  BY Zenon DEF Descriptors, Entries, Entry
<1>2. IsArray(x) /\ x.s = Entries(list) /\ x.n = Len(list)
      /\ x.whole = (Len(Entries(list)) = Len(list) /\ \A i \in 1..Len(Entries(list)) : Entries(list)[i].whole)
      /\ x.size = Sizes!Iterate(Head8(Len(list)), Entries(list))
  BY ArrayItem
<1>3. Len(Entries(list)) = Len(list)
  BY LenProperties DEF Entries
<1>4. ASSUME NEW i \in 1..Len(list)
      PROVE  Entries(list)[i].whole
  <2>1. list[i] \in CredIds
    BY ElementOfSeq
  <2>2. Entry(list[i]).whole
    BY <2>1, EntryItem
  <2>3. Entries(list)[i] = Entry(list[i])
    BY DEF Entries
  <2> QED
    BY <2>2, <2>3
<1> QED
  BY <1>1, <1>2, <1>3, <1>4

(* ... is read back as the ids it was built from.                          *)
LEMMA DescriptorsRoundTrip ==
    ASSUME NEW list \in Seq(CredIds)
    PROVE  LET x == Descriptors(list)
           IN  IdsIn(x) = list /\ (list # <<>> => DescriptorsOk(x))
<1> DEFINE x == Descriptors(list)
           n == Len(list)
<1>1. IsArray(x) /\ x.n = n /\ x.s = Entries(list)
  BY DescriptorsItem
<1>2. n \in Nat /\ list = [i \in 1..n |-> list[i]] /\ (list # <<>> => n >= 1)
  BY EmptySeq, LenProperties
<1>3. ASSUME NEW i \in 1..n
      PROVE  Entries(list)[i] = Entry(list[i]) /\ list[i] \in CredIds
  <2>1. list[i] \in CredIds
    BY ElementOfSeq
  <2> QED
    BY <2>1 DEF Entries
<1> HIDE DEF x
<1>4. ASSUME NEW i \in 1..n
      PROVE  /\ IsArray(x.s[i]) /\ x.s[i].n = 2
             /\ IsUint(x.s[i].s[1]) /\ x.s[i].s[1].n = PublicKey
             /\ IsBytes(x.s[i].s[2]) /\ x.s[i].s[2].len > 0
             /\ Blob(x.s[i].s[2]) = list[i]
  <2>1. x.s[i] = Entry(list[i]) /\ list[i] \in CredIds
    BY <1>1, <1>3
  <2> HIDE DEF n
  <2> QED
    BY <2>1, EntryItem, Zenon
<1> HIDE DEF n
<1>5. IdsIn(x) = list
  <2>1. IdsIn(x) = [i \in 1..n |-> Blob(x.s[i].s[2])]
    BY <1>1 DEF IdsIn
  <2>2. [i \in 1..n |-> Blob(x.s[i].s[2])] = [i \in 1..n |-> list[i]]
    BY <1>4
  <2> QED
    BY <1>2, <2>1, <2>2
<1>6. list # <<>> => DescriptorsOk(x)
  BY <1>1, <1>2, <1>4 DEF DescriptorsOk
<1> QED
  BY <1>5, <1>6 DEF x

(* The size of a list, and how it grows.                                   *)
LEMMA DescriptorsSize ==
    ASSUME NEW list \in Seq(CredIds)
    PROVE  /\ Descriptors(list).size = Head8(Len(list)) + EntriesSize(list)
           /\ EntriesSize(list) \in Nat /\ EntriesSize(list) >= Len(list)
<1> DEFINE S == {Entry(b) : b \in CredIds}
           s == Entries(list)
           h == Head8(Len(list))
<1>1. \A x \in S : x.size \in Nat \ {0}
  BY EntryItem
<1>2. s \in Seq(S) /\ Len(s) = Len(list)
  <2>1. \A i \in 1..Len(list) : list[i] \in CredIds
    BY ElementOfSeq
  <2> HIDE DEF S
  <2>2. \A i \in 1..Len(list) : Entry(list[i]) \in S
    BY <2>1 DEF S
  <2>3. Len(list) \in Nat
    BY LenProperties
  <2> QED
    BY <2>2, <2>3 DEF Entries
<1>3. h \in Nat
  <2>1. Len(list) \in Nat
    BY LenProperties
  <2> QED
    BY <2>1, HeadSizes
<1>4. Descriptors(list).size = Sizes!Iterate(h, s)
  BY DescriptorsItem
<1> HIDE DEF S, s, h
<1>5. /\ Sizes!Iterate(h, s) = h + Sizes!Iterate(0, s)
      /\ Sizes!Iterate(0, s) \in Nat /\ Sizes!Iterate(0, s) >= Len(s)
  BY <1>1, <1>2, <1>3, SizesAdd
<1> QED
  BY <1>2, <1>4, <1>5 DEF EntriesSize, s, h

(* Its size is a number.                                                   *)
LEMMA DescriptorsSizeIsNat == \A list \in Seq(CredIds) : Descriptors(list).size \in Nat
<1> TAKE list \in Seq(CredIds)
<1> DEFINE n == Len(list)
           h == Head8(n)
           e == EntriesSize(list)
<1>1. h \in Nat
  BY LenProperties, HeadIsNat
<1>2. Descriptors(list).size = h + e /\ e \in Nat
  BY DescriptorsSize
<1> HIDE DEF h, e
<1> QED
  BY <1>1, <1>2

(* One id more.                                                            *)
LEMMA EntriesGrow ==
    ASSUME NEW list \in Seq(CredIds), NEW b \in CredIds
    PROVE  EntriesSize(Append(list, b)) = EntriesSize(list) + 2 + Head8(b.len) + b.len
<1> DEFINE S == {Entry(c) : c \in CredIds}
           n == Len(list)
           l == Append(list, b)
           s == Entries(list)
           e == Entry(b)
<1>1. n \in Nat /\ Len(l) = n + 1 /\ l[n + 1] = b /\ \A i \in 1..n : l[i] = list[i]
  OBVIOUS
<1>2. s \in Seq(S) /\ Len(s) = n /\ e \in S /\ \A i \in 1..n : s[i] = Entry(list[i])
  <2>1. \A i \in 1..Len(list) : list[i] \in CredIds
    BY ElementOfSeq
  <2> HIDE DEF S
  <2>2. e \in S /\ \A i \in 1..Len(list) : Entry(list[i]) \in S
    BY <2>1 DEF S
  <2> QED
    BY <1>1, <2>2 DEF Entries
<1>3. Entries(l) = Append(s, e)
  <2> HIDE DEF l, s, e, n, S
  <2>1. Entries(l) = [i \in 1..n + 1 |-> Entry(l[i])]
    BY <1>1 DEF Entries
  <2>2. Append(s, e) = [i \in 1..n + 1 |-> IF i = n + 1 THEN e ELSE s[i]]
    <3> DEFINE a == Append(s, e)
    <3>1. a \in Seq(S) /\ Len(a) = n + 1 /\ \A i \in 1..n + 1 : a[i] = IF i = n + 1 THEN e ELSE s[i]
      BY <1>1, <1>2, AppendProperties
    <3> HIDE DEF a
    <3>2. a = [i \in 1..n + 1 |-> a[i]]
      BY <3>1, LenProperties
    <3>3. a = [i \in 1..n + 1 |-> IF i = n + 1 THEN e ELSE s[i]]
      BY <3>1, <3>2
    <3> QED
      BY <3>3 DEF a
  <2>3. ASSUME NEW i \in 1..n + 1
        PROVE  Entry(l[i]) = IF i = n + 1 THEN e ELSE s[i]
    BY <1>1, <1>2 DEF e
  <2> QED
    BY <2>1, <2>2, <2>3
<1>4. e.size = 2 + Head8(b.len) + b.len
  BY EntryItem
<1>5. b.len \in Nat /\ Head8(b.len) \in Nat /\ EntriesSize(list) \in Nat
  <2>1. b.len \in Nat
    BY CredIdFields
  <2>2. Head8(b.len) \in Nat
    BY <2>1, HeadSizes
  <2>3. EntriesSize(list) \in Nat
    BY DescriptorsSize
  <2> QED
    BY <2>1, <2>2, <2>3
<1> HIDE DEF S, l, s, e, n
<1>6. Sizes!Iterate(0, Append(s, e)) = Sizes!Iterate(0, s) + e.size
  BY <1>2, Sizes!IterateAppend DEF AddSize
<1>7. EntriesSize(l) = EntriesSize(list) + e.size
  BY <1>3, <1>6 DEF EntriesSize, s
<1> QED
  BY <1>4, <1>5, <1>7 DEF l
-----------------------------------------------------------------------------
(* What the two sides send in a ceremony.                                  *)
LEMMA SizeOfThree ==
    ASSUME NEW h, NEW a, NEW b, NEW c
    PROVE  Sizes!Iterate(h, <<a, b, c>>) = ((h + a.size) + b.size) + c.size
<1> DEFINE S == {a, b, c}
           s2 == <<a, b>>
           s3 == <<a, b, c>>
<1>1. c \in S /\ s2 \in Seq(S) /\ s3 = Append(s2, c)
  OBVIOUS
<1>2. Sizes!Iterate(h, s2) = (h + a.size) + b.size
  BY SizeOfTwo
<1> HIDE DEF S, s2, s3
<1>3. Sizes!Iterate(h, s3) = ((h + a.size) + b.size) + c.size
  BY <1>1, <1>2, Sizes!IterateAppend DEF AddSize
<1> QED
  BY <1>3 DEF s3

(* The size of four items.                                                 *)
LEMMA SizeOfFour ==
    ASSUME NEW h, NEW a, NEW b, NEW c, NEW d
    PROVE  Sizes!Iterate(h, <<a, b, c>> \o <<d>>) = (((h + a.size) + b.size) + c.size) + d.size
<1> DEFINE S == {a, b, c, d}
           s == <<a, b, c>>
<1>1. s \in Seq(S) /\ d \in S /\ s \o <<d>> = Append(s, d)
  OBVIOUS
<1>2. Sizes!Iterate(h, s) = ((h + a.size) + b.size) + c.size
  BY SizeOfThree
<1> HIDE DEF S, s
<1>3. Sizes!Iterate(h, Append(s, d)) = (((h + a.size) + b.size) + c.size) + d.size
  BY <1>1, <1>2, Sizes!IterateAppend DEF AddSize
<1> QED
  BY <1>1, <1>3, Zenon DEF s

(* A field of a given length is a value.                                   *)
LEMMA FieldIsBlob == \A n \in Nat : Field(n) \in Blobs /\ Field(n).len = n /\ Field(n).v = 1
BY DEF Field, Blobs, BlobsOf

(* The array that travels encrypted in the registration request.           *)
Inner(list) ==
    Arr(IF list # <<>> THEN 4 ELSE 3,
        <<Bytes(Field(256)), Bytes(Field(256)), Bytes(Field(64))>>
        \o (IF list # <<>> THEN <<Descriptors(list)>> ELSE <<>>))

(* The part of a registration request that is sealed: its size around the  *)
(* list.                                                                   *)
LEMMA InnerItem ==
    ASSUME NEW list \in Seq(CredIds)
    PROVE  LET x == Inner(list)
           IN  /\ list = <<>> => x.n = 3
               /\ list # <<>> => x.n = 4 /\ x.s[4] = Descriptors(list)
                                 /\ x.size = 585 + Descriptors(list).size
<1> DEFINE a == Bytes(Field(256))
           c == Bytes(Field(64))
           d == Descriptors(list)
           e == Descriptors(list).size
           n == IF list # <<>> THEN 4 ELSE 3
           s == <<a, a, c>> \o (IF list # <<>> THEN <<d>> ELSE <<>>)
           x == Arr(n, s)
<1>1. Inner(list) = x
  BY Zenon DEF Inner
<1>2. a.size = 259 /\ c.size = 66
  <2>1. Field(256) \in Blobs /\ Field(256).len = 256 /\ Field(64) \in Blobs /\ Field(64).len = 64
    BY FieldIsBlob
  <2>2. a.size = Head8(256) + 256 /\ c.size = Head8(64) + 64
    BY <2>1, BytesItem
  <2>3. Head8(256) = 3 /\ Head8(64) = 2
    BY DEF Head8
  <2> QED
    BY <2>2, <2>3
<1>3. e \in Nat
  BY DescriptorsSizeIsNat
<1>4. Head8(4) = 1
  BY DEF Head8
<1> HIDE DEF a, c, d
<1>5. list # <<>> => s[4] = d
  OBVIOUS
<1> DEFINE z == <<a, a, c>> \o <<d>>
<1>6. list # <<>> => s = z
  OBVIOUS
<1>7. Sizes!Iterate(1, z) = 585 + e
  <2>1. Sizes!Iterate(1, z) = (((1 + a.size) + a.size) + c.size) + d.size
    BY SizeOfFour
  <2>2. d.size = e
    BY Zenon DEF d
  <2> HIDE DEF z, e
  <2> QED
    BY <1>2, <1>3, <2>1, <2>2
<1> HIDE DEF s, n, e, z
<1>8. x.n = n /\ x.s = s /\ x.size = Sizes!Iterate(Head8(n), s)
  BY ArrayItem
<1>9. (list # <<>> => n = 4) /\ (list = <<>> => n = 3)
  BY DEF n
<1> HIDE DEF x
<1>10. list # <<>> => x.size = 585 + e
  <2> SUFFICES ASSUME list # <<>>
               PROVE  x.size = 585 + e
    OBVIOUS
  <2>1. Head8(n) = 1 /\ s = z
    BY <1>4, <1>6, <1>9
  <2> QED
    BY <1>7, <1>8, <2>1
<1>11. list # <<>> => x.n = 4 /\ x.s[4] = d
  BY <1>5, <1>8, <1>9
<1>12. list = <<>> => x.n = 3
  BY <1>8, <1>9
<1> QED
  BY <1>1, <1>10, <1>11, <1>12, Zenon DEF d, e

(* The exclude list a client gets is the whole list, and then there is     *)
(* room for one more id in the request for a login.                        *)
LEMMA ExcludeListsComplete ==
    ASSUME NEW list \in Seq(CredIds), NEW excl \in ExcludeLists(list)
    PROVE  excl = list /\ (list # <<>> => Descriptors(list).size =< 415)
<1> DEFINE data == [userName |-> Field(256), displayName |-> Field(256),
                    userId |-> Field(64), exclude |-> list]
<1>1. PICK x \in BuildRegRequestEncryptedData(data) :
        \E d \in ParseRegRequestEncryptedData(x) : excl = d.exclude
  BY DEF ExcludeLists
<1>2. x = Inner(list) /\ x.size =< 1000
  <2>1. BuildRegRequestEncryptedData(data) = Encode(1000, Inner(list))
    BY DEF BuildRegRequestEncryptedData, Inner, EncDataBufSize
  <2> HIDE DEF data
  <2>2. x \in Encode(1000, Inner(list))
    BY <1>1, <2>1
  <2> QED
    BY <2>2, EncodedItself
<1> HIDE DEF data
<1>3. excl = IF x.n = 4 THEN IdsIn(x.s[4]) ELSE <<>>
  BY <1>1 DEF ParseRegRequestEncryptedData, When
<1>4. CASE list = <<>>
  <2>1. x.n = 3
    <3>1. Inner(list).n = 3
      BY <1>4, InnerItem, Zenon
    <3> QED
      BY <1>2, <3>1
  <2>2. excl = <<>>
    BY <1>3, <2>1
  <2> QED
    BY <1>4, <2>2
<1>5. CASE list # <<>>
  <2>1. x.n = 4 /\ x.s[4] = Descriptors(list) /\ x.size = 585 + Descriptors(list).size
    BY <1>2, <1>5, InnerItem
  <2>2. excl = list
    BY <1>3, <2>1, DescriptorsRoundTrip
  <2> DEFINE e == Descriptors(list).size
  <2>3. e \in Nat
    <3>1. Len(list) \in Nat
      BY LenProperties
    <3> QED
      BY <3>1, HeadSizes, DescriptorsSize
  <2>4. 585 + e =< 1000
    BY <1>2, <2>1
  <2> HIDE DEF e
  <2>5. e =< 415
    BY <2>3, <2>4
  <2> QED
    BY <2>2, <2>5 DEF e
<1> QED
  BY <1>4, <1>5

-----------------------------------------------------------------------------
(* The attestation object with the credential that was made.               *)
LEMMA SizeOfSix ==
    ASSUME NEW h, NEW a, NEW b, NEW c, NEW d, NEW e, NEW f
    PROVE  Sizes!Iterate(h, <<a, b, c, d, e, f>>)
             = (((((h + a.size) + b.size) + c.size) + d.size) + e.size) + f.size
<1> DEFINE S == {a, b, c, d, e, f}
           s3 == <<a, b, c>>
           s4 == <<a, b, c, d>>
           s5 == <<a, b, c, d, e>>
           s6 == <<a, b, c, d, e, f>>
<1>1. d \in S /\ e \in S /\ f \in S /\ s3 \in Seq(S) /\ s4 \in Seq(S) /\ s5 \in Seq(S)
  OBVIOUS
<1>2. s4 = Append(s3, d) /\ s5 = Append(s4, e) /\ s6 = Append(s5, f)
  OBVIOUS
<1>3. Sizes!Iterate(h, s3) = ((h + a.size) + b.size) + c.size
  BY SizeOfThree
<1> HIDE DEF S, s3, s4, s5, s6
<1>4. Sizes!Iterate(h, s4) = (((h + a.size) + b.size) + c.size) + d.size
  <2>1. Sizes!Iterate(h, Append(s3, d)) = Sizes!Iterate(h, s3) + d.size
    BY <1>1, Sizes!IterateAppend DEF AddSize
  <2> QED
    BY <1>2, <1>3, <2>1, Zenon
<1>5. Sizes!Iterate(h, s5) = ((((h + a.size) + b.size) + c.size) + d.size) + e.size
  <2>1. Sizes!Iterate(h, Append(s4, e)) = Sizes!Iterate(h, s4) + e.size
    BY <1>1, Sizes!IterateAppend DEF AddSize
  <2> QED
    BY <1>2, <1>4, <2>1, Zenon
<1>6. Sizes!Iterate(h, s6) = (((((h + a.size) + b.size) + c.size) + d.size) + e.size) + f.size
  <2>1. Sizes!Iterate(h, Append(s5, f)) = Sizes!Iterate(h, s5) + f.size
    BY <1>1, Sizes!IterateAppend DEF AddSize
  <2> QED
    BY <1>2, <1>5, <2>1, Zenon
<1> QED
  BY <1>6 DEF s6

(* Six items, put together of two and four.                                *)
LEMMA TwoAndFour ==
    ASSUME NEW a, NEW b, NEW c, NEW d, NEW e, NEW f
    PROVE  <<a, b>> \o <<c, d, e, f>> = <<a, b, c, d, e, f>>
<1> DEFINE S == {a, b, c, d, e, f}
           r == <<a, b>> \o <<c, d, e, f>>
           u == <<a, b, c, d, e, f>>
<1>1. r \in Seq(S) /\ u \in Seq(S)
  OBVIOUS
<1>2. Len(r) = 6 /\ Len(u) = 6
  OBVIOUS
<1>3. r[1] = u[1] /\ r[2] = u[2] /\ r[3] = u[3] /\ r[4] = u[4] /\ r[5] = u[5] /\ r[6] = u[6]
  OBVIOUS
<1> HIDE DEF S, r, u
<1>5. \A i \in 1 .. 6 : r[i] = u[i]
  BY <1>3
<1>6. r = u
  BY <1>1, <1>2, <1>5, SeqEqual
<1> QED
  BY <1>6 DEF r, u

(* The keys of an attestation object.                                      *)
LEMMA KeyText ==
    /\ AttKeys.fmt \in Blobs /\ AttKeys.attStmt \in Blobs /\ AttKeys.authData \in Blobs
    /\ AttKeys.alg \in Blobs /\ AttKeys.sig \in Blobs /\ AttKeys.x5c \in Blobs
    /\ AttKeys.packed \in Blobs
    /\ AttKeys.fmt.len = 3 /\ AttKeys.attStmt.len = 7 /\ AttKeys.authData.len = 8
    /\ AttKeys.alg.len = 3 /\ AttKeys.sig.len = 3 /\ AttKeys.x5c.len = 3 /\ AttKeys.packed.len = 6
    /\ AttKeys.fmt.v = 1 /\ AttKeys.attStmt.v = 2 /\ AttKeys.authData.v = 3
BY DEF AttKeys, Blobs, BlobsOf

(* They differ from the one that is looked for.                            *)
LEMMA KeysDiffer ==
    /\ Text(AttKeys.fmt) # Text(AttKeys.authData)
    /\ Text(AttKeys.attStmt) # Text(AttKeys.authData)
<1>1. /\ Text(AttKeys.fmt).n = AttKeys.fmt.v /\ Text(AttKeys.attStmt).n = AttKeys.attStmt.v
      /\ Text(AttKeys.authData).n = AttKeys.authData.v
  BY LeafFields DEF Text
<1>2. /\ Text(AttKeys.fmt).n # Text(AttKeys.authData).n
      /\ Text(AttKeys.attStmt).n # Text(AttKeys.authData).n
  BY <1>1, KeyText
<1> QED
  BY <1>2

(* extract_authdata_from_attobj finds the authenticator data.              *)
LEMMA AuthdataIsFound ==
    ASSUME NEW a, NEW b, NEW data \in Blobs, NEW x,
           x = PairsOf(<<Text(AttKeys.fmt), a, Text(AttKeys.attStmt), b,
                         Text(AttKeys.authData), Bytes(data)>>)
    PROVE  AuthdataOf(x) = {data}
<1> DEFINE t1 == Text(AttKeys.fmt)
           t3 == Text(AttKeys.attStmt)
           t5 == Text(AttKeys.authData)
           t6 == Bytes(data)
           s == <<t1, a, t3, b, t5, t6>>
           keys == {i \in 1..Len(x.s) : i % 2 = 1 /\ x.s[i] = Text(AttKeys.authData)}
<1>1. t1 # t5 /\ t3 # t5 /\ IsBytes(t6) /\ Blob(t6) = data
  BY KeysDiffer, BytesItem
<1>2. IsMap(x) /\ x.s = s
  BY MapItem
<1>3. keys = {i \in 1..Len(s) : i % 2 = 1 /\ s[i] = t5}
  BY <1>2
<1> HIDE DEF t1, t3, t5, t6, keys
<1>4. Len(s) = 6 /\ s[1] = t1 /\ s[3] = t3 /\ s[5] = t5 /\ s[6] = t6
  OBVIOUS
<1> HIDE DEF s
<1>5. keys = {5}
  <2>1. \A i \in 1..6 : i % 2 = 1 => i \in {1, 3, 5}
    OBVIOUS
  <2>2. 5 % 2 = 1
    OBVIOUS
  <2> QED
    BY <1>1, <1>3, <1>4, <2>1, <2>2
<1>6. AuthdataOf(x) = {Blob(x.s[i + 1]) : i \in {j \in keys : /\ \A k \in keys : j <= k
                                                                /\ IsBytes(x.s[j + 1])}}
  BY <1>2, Zenon DEF AuthdataOf, When, keys
<1>7. {j \in keys : /\ \A k \in keys : j <= k
                                     /\ IsBytes(x.s[j + 1])} = {5}
  BY <1>1, <1>2, <1>4, <1>5
<1>8. AuthdataOf(x) = {Blob(x.s[5 + 1])}
  BY <1>6, <1>7
<1> QED
  BY <1>1, <1>2, <1>4, <1>8

(* The credential of Register, and its attestation object.                 *)
AuthdataFor(id) == [v |-> id.v, len |-> 37 + 18 + id.len + CredentialPublicKeyLength]
Credential(id, cert) ==
    [fmt |-> AttKeys.packed, type |-> ES256, sig |-> Field(SignatureLength), x5c |-> Field(cert),
     authdata |-> AuthdataFor(id)]
AttestationObject(id, cert) ==
    PairsOf(<<Text(AttKeys.fmt), Text(AttKeys.packed),
              Text(AttKeys.attStmt), AttestationStatement(Credential(id, cert)),
              Text(AttKeys.authData), Bytes(AuthdataFor(id))>>)

(* The authenticator data of a credential.                                 *)
LEMMA AuthdataForFields ==
    ASSUME NEW id \in CredIds
    PROVE  AuthdataFor(id) \in Blobs /\ AuthdataFor(id).len = 132 + id.len /\ AuthdataFor(id) # Absent
<1>1. id.v \in Nat /\ id.len \in Nat
  BY CredIdFields, BlobIsRecord
<1>2. AuthdataFor(id).len = 132 + id.len /\ AuthdataFor(id).v = id.v
  BY <1>1 DEF AuthdataFor, CredentialPublicKeyLength
<1>3. AuthdataFor(id) # Absent
  BY <1>1, <1>2 DEF Absent
<1>4. AuthdataFor(id) \in Blobs
  BY <1>1 DEF AuthdataFor, CredentialPublicKeyLength, Blobs, BlobsOf
<1> QED
  BY <1>2, <1>3, <1>4

(* The attestation object is built with all its parts, or not at all.      *)
LEMMA BuiltObject ==
    ASSUME NEW id \in CredIds, NEW cert \in Nat \ {0}
    PROVE  BuildAttestationObject(Credential(id, cert))
             = Encode(AttObjBufSize, AttestationObject(id, cert))
<1> DEFINE c == Credential(id, cert)
<1>1. /\ c.authdata = AuthdataFor(id) /\ c.fmt = AttKeys.packed /\ c.type = ES256
      /\ c.sig = Field(SignatureLength) /\ c.x5c = Field(cert)
  BY DEF Credential
<1>2. c.authdata # Absent /\ c.sig.len > 0 /\ c.x5c.len > 0
  BY <1>1, AuthdataForFields, FieldIsBlob DEF SignatureLength
<1>3. BuildAttestationObject(c) =
        Encode(AttObjBufSize,
                PairsOf(<<Text(AttKeys.fmt), Text(c.fmt),
                          Text(AttKeys.attStmt), AttestationStatement(c),
                          Text(AttKeys.authData), Bytes(c.authdata)>>))
  BY <1>1, <1>2, Zenon DEF BuildAttestationObject, When
<1> QED
  BY <1>1, <1>3, Zenon DEF AttestationObject

(* The server finds the credential when its object can be built and the    *)
(* response with it reaches the server, and only then.                     *)
LEMMA ResponsesForOne ==
    ASSUME NEW id \in CredIds, NEW cert \in Nat \ {0}
    PROVE  LET y == AttestationObject(id, cert)
           IN  ResponsesFor(id, cert) # {}
                  <=> /\ y.whole /\ y.size =< AttObjBufSize
                      /\ Delivered([type |-> REG_RESPONSE, attobj |-> Field(y.size),
                                    clientdata |-> Field(ClientDataLength)]) # {}
<1> DEFINE y == AttestationObject(id, cert)
           D(z) == Delivered([type |-> REG_RESPONSE, attobj |-> Field(z.size),
                              clientdata |-> Field(ClientDataLength)]) # {}
           R == {z \in Encode(AttObjBufSize, y) : D(z)}
<1>1. ResponsesFor(id, cert) = UNION {AuthdataOf(x) : x \in R}
  BY BuiltObject, Zenon DEF ResponsesFor, Credential, AuthdataFor
<1>2. AuthdataOf(y) = {AuthdataFor(id)}
  BY AuthdataForFields, AuthdataIsFound DEF AttestationObject
<1>3. R # {} => y.whole /\ y.size =< AttObjBufSize /\ D(y)
  BY DEF Encode
<1>4. y.whole /\ y.size =< AttObjBufSize /\ D(y) => R = {y}
  BY DEF Encode
<1> HIDE DEF R, y, D
<1>5. ResponsesFor(id, cert) # {} => R # {}
  BY <1>1
<1>6. R = {y} => ResponsesFor(id, cert) # {}
  BY <1>1, <1>2
<1> QED
  BY <1>3, <1>4, <1>5, <1>6, Zenon DEF y, D

-----------------------------------------------------------------------------
(* The table of credentials, numbered in the order of enrolment.           *)
TableInv == ids \in Seq(CredIds) /\ \A i \in 1..Len(ids) : ids[i].v = i

(* The id of the next credential.                                          *)
LEMMA MadeId ==
    ASSUME TableInv, NEW len \in IdLengths
    PROVE  [v |-> Len(ids) + 1, len |-> len] \in CredIds
<1>1. len \in Nat \ {0}
  BY EnrolmentsAssumption
<1>2. Len(ids) + 1 \in Nat
  BY LenProperties DEF TableInv
<1> QED
  BY <1>1, <1>2 DEF CredIds, BlobsOf

(* A registration stores the credential that was made when the server      *)
(* finds it and takes its id.                                              *)
LEMMA RegisterStores ==
    ASSUME TableInv, NEW len \in IdLengths, NEW cert \in CertLengths, Register(len, cert)
    PROVE  LET id == [v |-> Len(ids) + 1, len |-> len]
           IN  /\ id \in CredIds
               /\ made' = [id |-> id, cert |-> cert]
               /\ IF ResponsesFor(id, cert) # {} /\ len \in 1..1023 THEN ids' = Append(ids, id)
                                                                   ELSE ids' = ids
<1> DEFINE id == [v |-> Len(ids) + 1, len |-> len]
<1>1. id \in CredIds /\ id.len = len
  BY MadeId
<1>2. /\ made' = [id |-> id, cert |-> cert]
      /\ ids' = IF ResponsesFor(id, cert) # {} /\ StorableId(id) THEN Append(ids, id) ELSE ids
  BY DEF Register
<1>3. StorableId(id) <=> len \in 1..1023
  BY <1>1 DEF StorableId
<1> HIDE DEF id
<1> QED
  BY <1>1, <1>2, <1>3, ZenonT(40) DEF id

(* A credential more takes the next number.                                *)
LEMMA TableGrows ==
    ASSUME TableInv, NEW id \in CredIds, id.v = Len(ids) + 1
    PROVE  LET t == Append(ids, id)
           IN  /\ t \in Seq(CredIds) /\ \A i \in 1..Len(t) : t[i].v = i
               /\ \E i \in 1..Len(t) : t[i] = id
<1> DEFINE t == Append(ids, id)
           n == Len(ids)
<1>1. ids \in Seq(CredIds) /\ \A i \in 1..n : ids[i].v = i
  BY DEF TableInv
<1>2. /\ t \in Seq(CredIds) /\ Len(t) = n + 1 /\ t[n + 1] = id
      /\ \A i \in 1..n : t[i] = ids[i]
  BY <1>1, AppendProperties
<1>3. n \in Nat
  BY <1>1, LenProperties
<1> HIDE DEF t, n
<1>4. ASSUME NEW i \in 1..n + 1
      PROVE  t[i].v = i
  <2>1. CASE i = n + 1
    BY <1>2, <2>1 DEF n
  <2>2. CASE i # n + 1
    <3>1. i \in 1..n
      BY <1>3, <2>2
    <3> QED
      BY <1>1, <1>2, <3>1
  <2> QED
    BY <2>1, <2>2
<1>5. n + 1 \in 1..n + 1
  BY <1>3
<1>6. \E i \in 1..Len(t) : t[i] = id
  BY <1>2, <1>5
<1> QED
  BY <1>2, <1>4, <1>6 DEF t

(* The lists hold credential ids in every state.                           *)
LEMMA TableInvHolds == EnrolmentsSpec => []TableInv
<1>1. EnrolmentsStart => TableInv
  <2>1. Len(<<>>) = 0 /\ <<>> \in Seq(CredIds)
    OBVIOUS
  <2> QED
    BY <2>1 DEF EnrolmentsStart, TableInv
<1>2. TableInv /\ [EnrolmentsNext]_enrolmentsVars => TableInv'
  <2> SUFFICES ASSUME TableInv, [EnrolmentsNext]_enrolmentsVars
               PROVE  TableInv'
    OBVIOUS
  <2>1. ASSUME NEW len \in IdLengths, NEW cert \in CertLengths, Register(len, cert)
        PROVE  TableInv'
    <3> DEFINE id == [v |-> Len(ids) + 1, len |-> len]
    <3>1. id \in CredIds /\ id.v = Len(ids) + 1 /\ (ids' = ids \/ ids' = Append(ids, id))
      BY <2>1, RegisterStores
    <3> HIDE DEF id
    <3>2. CASE ids' = ids
      BY <3>2 DEF TableInv
    <3>3. CASE ids' = Append(ids, id)
      BY <3>1, <3>3, TableGrows DEF TableInv
    <3> QED
      BY <3>1, <3>2, <3>3
  <2>2. CASE Authenticate
    BY <2>2 DEF Authenticate, TableInv
  <2>3. CASE UNCHANGED enrolmentsVars
    BY <2>3 DEF enrolmentsVars, TableInv
  <2> QED
    BY <2>1, <2>2, <2>3 DEF EnrolmentsNext
<1> QED
  BY <1>1, <1>2, PTL DEF EnrolmentsSpec

(* A credential is only made under the list of all credentials of the      *)
(* account, however long their ids are: a list that does not fit into the  *)
(* buffer of cbor_build_reg_request_encrypted_data stops the request.      *)
THEOREM EnrolmentsExcludeComplete == EnrolmentsSpec => ExcludeComplete
<1>1. ASSUME TableInv, [EnrolmentsNext]_enrolmentsVars
      PROVE  [made' # made => excluded' = ids]_enrolmentsVars
  <2>1. ASSUME NEW len \in IdLengths, NEW cert \in CertLengths, Register(len, cert)
        PROVE  excluded' = ids
    <3>1. PICK list \in ExcludeLists(ids) : excluded' = list
      BY <2>1 DEF Register
    <3>2. ids \in Seq(CredIds)
      BY <1>1 DEF TableInv
    <3> QED
      BY <3>1, <3>2, ExcludeListsComplete
  <2>2. CASE Authenticate
    BY <2>2 DEF Authenticate
  <2>3. CASE UNCHANGED enrolmentsVars
    BY <2>3
  <2> QED
    BY <1>1, <2>1, <2>2, <2>3 DEF EnrolmentsNext
<1> QED
  BY <1>1, TableInvHolds, PTL DEF EnrolmentsSpec, ExcludeComplete

-----------------------------------------------------------------------------
(* The size of an attestation object and of the response it travels in.    *)
LEMMA StatementItem ==
    ASSUME NEW id, NEW cert \in Nat \ {0}
    PROVE  LET x == AttestationStatement(Credential(id, cert))
           IN  x.whole /\ x.size = 89 + Head8(cert) + cert
<1> DEFINE a == Text(AttKeys.alg)
           b == Number(ES256)
           c == Text(AttKeys.sig)
           d == Bytes(Field(SignatureLength))
           e == Text(AttKeys.x5c)
           g == Bytes(Field(cert))
           f == Arr(1, <<g>>)
           s == <<a, b>> \o <<c, d, e, f>>
           u == <<a, b, c, d, e, f>>
           x == PairsOf(s)
           cred == Credential(id, cert)
<1>1. /\ cred.fmt = AttKeys.packed /\ cred.type = ES256
      /\ cred.sig = Field(SignatureLength) /\ cred.x5c = Field(cert)
  BY DEF Credential
<1> HIDE DEF cred
<1>2. AttestationStatement(cred) = x
  BY <1>1, Zenon DEF AttestationStatement
<1>3. s = u
  BY TwoAndFour
<1>4. Head8(cert) \in 1..5 /\ Head8(1) = 1 /\ Head8(3) = 1
  <2>1. Head8(cert) \in 1..5
    BY HeadSizes
  <2> QED
    BY <2>1 DEF Head8
<1>5. a.size = 4 /\ a.whole /\ c.size = 4 /\ c.whole /\ e.size = 4 /\ e.whole
  BY KeyText, TextItem DEF Head8
<1>6. b.size = 1 /\ b.whole
  BY NumberItem DEF ES256, Head8
<1>7. d.size = 74 /\ d.whole
  BY FieldIsBlob, BytesItem DEF SignatureLength, Head8
<1>8. g.size = Head8(cert) + cert /\ g.whole
  BY FieldIsBlob, BytesItem
<1> HIDE DEF g
<1>9. f.size = 1 + Head8(cert) + cert /\ f.whole
  <2> DEFINE t == <<g>>
             S == {g}
             z == <<>>
  <2>1. t = Append(z, g) /\ z \in Seq(S) /\ g \in S /\ Len(t) = 1 /\ t[1] = g
    OBVIOUS
  <2>2. Sizes!Iterate(1, z) = 1
    BY Sizes!IterateEmpty
  <2> HIDE DEF t, S, z
  <2>3. Sizes!Iterate(1, t) = 1 + g.size
    BY <2>1, <2>2, Sizes!IterateAppend DEF AddSize
  <2>4. f.size = Sizes!Iterate(Head8(1), t)
        /\ f.whole = (Len(t) = 1 /\ \A i \in 1..Len(t) : t[i].whole)
    BY ArrayItem DEF t
  <2> HIDE DEF f
  <2>5. f.size = 1 + g.size
    BY <1>4, <2>3, <2>4
  <2>6. f.whole
    <3>1. \A i \in 1..1 : t[i].whole
      BY <1>8, <2>1
    <3> QED
      BY <2>1, <2>4, <3>1, Zenon
  <2> QED
    BY <1>4, <1>8, <2>5, <2>6
<1> HIDE DEF a, b, c, d, e, f
<1>10. Len(u) = 6 /\ u[1] = a /\ u[2] = b /\ u[3] = c /\ u[4] = d /\ u[5] = e /\ u[6] = f
  OBVIOUS
<1>11. Sizes!Iterate(1, u) = (((((1 + a.size) + b.size) + c.size) + d.size) + e.size) + f.size
  BY SizeOfSix
<1> HIDE DEF s, u
<1>12. x.whole = (Len(s) = 2 * (Len(s) \div 2) /\ \A i \in 1..Len(s) : s[i].whole)
       /\ x.size = Sizes!Iterate(Head8(Len(s) \div 2), s)
  BY MapItem
<1> HIDE DEF x
<1>13. Len(s) \div 2 = 3 /\ 6 = 2 * (Len(s) \div 2)
  BY <1>3, <1>10
<1>14. x.size = Sizes!Iterate(1, u)
  BY <1>3, <1>4, <1>12, <1>13, Zenon
<1>15. x.size = 89 + Head8(cert) + cert
  BY <1>4, <1>5, <1>6, <1>7, <1>9, <1>11, <1>14
<1>16. \A i \in 1..6 : u[i].whole
  BY <1>5, <1>6, <1>7, <1>9, <1>10
<1>17. x.whole
  BY <1>3, <1>10, <1>12, <1>13, <1>16
<1> QED
  BY <1>2, <1>15, <1>17, Zenon DEF cred

(* The attestation object around it.                                       *)
LEMMA ObjectItem ==
    ASSUME NEW id \in CredIds, NEW cert \in Nat \ {0}
    PROVE  LET x == AttestationObject(id, cert)
           IN  /\ x.whole
               /\ x.size = 250 + Head8(cert) + cert + Head8(132 + id.len) + id.len
<1> DEFINE a == Text(AttKeys.fmt)
           b == Text(AttKeys.packed)
           c == Text(AttKeys.attStmt)
           d == AttestationStatement(Credential(id, cert))
           e == Text(AttKeys.authData)
           f == Bytes(AuthdataFor(id))
           s == <<a, b, c, d, e, f>>
           x == PairsOf(s)
           n == id.len
<1>1. AttestationObject(id, cert) = x
  BY Zenon DEF AttestationObject
<1>2. n \in Nat
  BY CredIdFields
<1>3. a.size = 4 /\ a.whole /\ b.size = 7 /\ b.whole /\ c.size = 8 /\ c.whole /\ e.size = 9 /\ e.whole
  BY KeyText, TextItem DEF Head8
<1>4. d.size = 89 + Head8(cert) + cert /\ d.whole
  BY StatementItem
<1>5. f.size = Head8(132 + n) + 132 + n /\ f.whole
  <2> DEFINE z == AuthdataFor(id)
  <2>1. z \in Blobs /\ z.len = 132 + n
    BY AuthdataForFields
  <2> HIDE DEF z, n
  <2>2. Bytes(z).size = Head8(z.len) + z.len /\ Bytes(z).whole
    BY <2>1, BytesItem
  <2>3. Head8(z.len) = Head8(132 + n)
    BY <2>1
  <2>4. Head8(132 + n) \in Nat
    BY <1>2, HeadSizes
  <2> QED
    BY <1>2, <2>1, <2>2, <2>3, <2>4 DEF z
<1>6. Head8(cert) \in 1..5 /\ Head8(132 + n) \in 1..5 /\ Head8(3) = 1
  <2>1. Head8(cert) \in 1..5
    BY HeadSizes
  <2>2. 132 + n \in Nat
    BY <1>2
  <2>3. Head8(132 + n) \in 1..5
    BY <2>2, HeadSizes
  <2> QED
    BY <2>1, <2>3 DEF Head8
<1> HIDE DEF a, b, c, d, e, f, n
<1>10. Len(s) = 6 /\ s[1] = a /\ s[2] = b /\ s[3] = c /\ s[4] = d /\ s[5] = e /\ s[6] = f
  OBVIOUS
<1>11. Sizes!Iterate(1, s) = (((((1 + a.size) + b.size) + c.size) + d.size) + e.size) + f.size
  BY SizeOfSix
<1> HIDE DEF s
<1>12. x.whole = (Len(s) = 2 * (Len(s) \div 2) /\ \A i \in 1..Len(s) : s[i].whole)
       /\ x.size = Sizes!Iterate(Head8(Len(s) \div 2), s)
  BY MapItem
<1> HIDE DEF x
<1>13. Len(s) \div 2 = 3 /\ 6 = 2 * (Len(s) \div 2)
  BY <1>10
<1>14. x.size = Sizes!Iterate(1, s)
  BY <1>6, <1>12, <1>13, Zenon
<1>15. x.size = 250 + Head8(cert) + cert + Head8(132 + n) + n
  BY <1>2, <1>3, <1>4, <1>5, <1>6, <1>11, <1>14
<1>16. \A i \in 1..6 : s[i].whole
  BY <1>3, <1>4, <1>5, <1>10
<1>17. x.whole
  BY <1>10, <1>12, <1>13, <1>16
<1> QED
  BY <1>1, <1>15, <1>17, Zenon DEF n

(* A field of a length in a set.                                           *)
LEMMA FieldWithin == \A lengths : \A n \in lengths : Field(n) \in BlobsOf(lengths)
BY DEF Field, BlobsOf

(* A packet that fits is built, sent and parsed.                           *)
LEMMA DeliveredWhole ==
    ASSUME NEW p, p.type \in PacketTypes, p.type # PRE_RESPONSE, NEW r,
           Body(p).whole, Body(p).size =< BufSize, Parse(p.type, Body(p)) = {r}
    PROVE  Delivered(p) = {r}
<1>1. Build(p) = Encode(BufSize, Body(p))
  BY BuiltBody
<1>2. Encode(BufSize, Body(p)) = {Body(p)}
  BY DEF Encode
<1>3. Delivered(p) = UNION {Parse(p.type, x) : x \in {Body(p)}}
  BY <1>1, <1>2, Zenon DEF Delivered
<1> QED
  BY <1>3

(* The size of a registration response ...                                 *)
LEMMA ResponseBodySize ==
    ASSUME NEW p, p.type = REG_RESPONSE, NEW n \in Nat, NEW cd \in Nat,
           p.attobj = Field(n), p.clientdata = Field(cd)
    PROVE  Body(p).whole /\ Body(p).size = 2 + Head8(n) + n + Head8(cd) + cd
<1> DEFINE a == Number(p.type)
           b == Bytes(p.attobj)
           c == Text(p.clientdata)
           s == <<a, b, c>>
           x == Arr(3, s)
<1>2. Body(p) = x
  BY BodyOfType
<1>3. a.size = 1 /\ a.whole
  BY NumberItem, TypeNumbers DEF Head8
<1>4. b.size = Head8(n) + n /\ b.whole
  BY FieldIsBlob, BytesItem
<1>5. c.size = Head8(cd) + cd /\ c.whole
  BY FieldIsBlob, TextItem
<1>6. Head8(n) \in Nat /\ Head8(cd) \in Nat /\ Head8(3) = 1
  <2>1. Head8(n) \in Nat
    BY HeadSizes
  <2>2. Head8(cd) \in Nat
    BY HeadSizes
  <2> QED
    BY <2>1, <2>2 DEF Head8
<1> HIDE DEF a, b, c
<1>7. Len(s) = 3 /\ s[1] = a /\ s[2] = b /\ s[3] = c
  OBVIOUS
<1>8. Sizes!Iterate(1, s) = ((1 + a.size) + b.size) + c.size
  BY SizeOfThree
<1> HIDE DEF s
<1>9. x.size = Sizes!Iterate(Head8(3), s) /\ x.whole = (Len(s) = 3 /\ \A i \in 1..Len(s) : s[i].whole)
  BY ArrayItem
<1> HIDE DEF x
<1>10. x.size = 2 + Head8(n) + n + Head8(cd) + cd
  BY <1>3, <1>4, <1>5, <1>6, <1>8, <1>9
<1>11. \A i \in 1..3 : s[i].whole
  BY <1>3, <1>4, <1>5, <1>7
<1>12. x.whole
  BY <1>7, <1>9, <1>11
<1> QED
  BY <1>2, <1>10, <1>12

(* ... which is delivered when it has room in the buffer.                  *)
LEMMA ResponseDelivered ==
    ASSUME NEW n \in AttObjLengths, NEW cd \in ClientDataLengths,
           Head8(n) + n + Head8(cd) + cd =< 1998
    PROVE  Delivered([type |-> REG_RESPONSE, attobj |-> Field(n), clientdata |-> Field(cd)]) # {}
<1> DEFINE p == [type |-> REG_RESPONSE, attobj |-> Field(n), clientdata |-> Field(cd)]
           h1 == Head8(n)
           h2 == Head8(cd)
<1>1. n \in Nat /\ cd \in Nat
  BY LengthsAreNumbers
<1>2. p.type = REG_RESPONSE /\ p.attobj = Field(n) /\ p.clientdata = Field(cd)
  OBVIOUS
<1>3. p \in RegResponses
  <2>1. Field(n) \in BlobsOf(AttObjLengths) /\ Field(cd) \in BlobsOf(ClientDataLengths)
    BY FieldWithin
  <2> QED
    BY <2>1 DEF RegResponses
<1> HIDE DEF p
<1>4. Body(p).whole /\ Body(p).size = 2 + h1 + n + h2 + cd
  BY <1>1, <1>2, ResponseBodySize
<1>5. h1 \in Nat
  BY <1>1, HeadSizes
<1>6. h2 \in Nat
  BY <1>1, HeadSizes
<1>7. h1 + n + h2 + cd =< 1998
  OBVIOUS
<1> HIDE DEF h1, h2
<1>8. Body(p).size =< BufSize
  BY <1>1, <1>4, <1>5, <1>6, <1>7 DEF BufSize
<1>9. Parse(p.type, Body(p)) = {Received(p)}
  BY <1>3, RegResponseRoundTrip
<1>10. p.type \in PacketTypes /\ p.type # PRE_RESPONSE
  BY <1>2, TypeNumbers DEF PacketTypes
<1>11. Delivered(p) = {Received(p)}
  BY <1>4, <1>8, <1>9, <1>10, DeliveredWhole
<1> QED
  BY <1>11 DEF p

(* A response that is longer than the buffer is not built.                 *)
LEMMA ResponseTooLong ==
    ASSUME NEW n \in Nat, NEW cd \in Nat,
           Delivered([type |-> REG_RESPONSE, attobj |-> Field(n), clientdata |-> Field(cd)]) # {}
    PROVE  2 + Head8(n) + n + Head8(cd) + cd =< 2000
<1> DEFINE p == [type |-> REG_RESPONSE, attobj |-> Field(n), clientdata |-> Field(cd)]
<1>1. p.type = REG_RESPONSE /\ p.attobj = Field(n) /\ p.clientdata = Field(cd)
  OBVIOUS
<1>2. Delivered(p) # {}
  OBVIOUS
<1> HIDE DEF p
<1>3. Build(p) # {}
  BY <1>2 DEF Delivered
<1>4. Build(p) \subseteq Encode(BufSize, Body(p))
  BY <1>1, BuiltBody, TypeNumbers DEF PacketTypes
<1>5. Body(p).size =< BufSize
  BY <1>3, <1>4 DEF Encode
<1>6. Body(p).size = 2 + Head8(n) + n + Head8(cd) + cd
  BY <1>1, ResponseBodySize
<1> QED
  BY <1>5, <1>6 DEF BufSize

(* A credential arrives if and only if its response fits.  The buffer of   *)
(* cbor_build is the narrowest place: an object that fits there fits into  *)
(* the one it is made in, and into what the parser accepts.                *)
LEMMA CredentialArrives ==
    ASSUME NEW id \in CredIds, NEW cert \in Nat \ {0}
    PROVE  ResponsesFor(id, cert) # {} <=> ResponseFits(id.len, cert)
<1> DEFINE y == AttestationObject(id, cert)
           n == y.size
           k == id.len
           cd == ClientDataLength
           h1 == Head8(cert)
           h2 == Head8(132 + k)
           h3 == Head8(n)
           h4 == Head8(cd)
           D == Delivered([type |-> REG_RESPONSE, attobj |-> Field(n), clientdata |-> Field(cd)]) # {}
<1>1. k \in Nat /\ cert \in Nat /\ cd \in Nat /\ cd \in ClientDataLengths
  BY CredIdFields, EnrolmentsAssumption, LengthsAreNumbers
<1>2. y.whole /\ n = 250 + h1 + cert + h2 + k
  BY ObjectItem
<1>3. h1 \in Nat
  BY <1>1, HeadIsNat
<1>4. h2 \in Nat
  <2>1. 132 + k \in Nat
    BY <1>1
  <2> QED
    BY <2>1, HeadIsNat
<1>5. n \in Nat /\ n >= 1 /\ n = 250 + (h1 + cert) + (h2 + k)
  <2> HIDE DEF h1, h2, n, k
  <2> QED
    BY <1>1, <1>2, <1>3, <1>4
<1>6. ObjectSize(k, cert) = 250 + (h1 + cert) + (h2 + k)
  BY DEF ObjectSize
<1>7. ObjectSize(k, cert) = n
  BY <1>5, <1>6, Zenon
<1>8. ResponseFits(k, cert) <=> 2 + (h3 + n) + (h4 + cd) =< 2000
  <2> HIDE DEF n
  <2> QED
    BY <1>7 DEF ResponseFits
<1> HIDE DEF k, cd, h1, h2, n
<1>9. h3 \in Nat
  BY <1>5, HeadIsNat
<1>10. h4 \in Nat
  BY <1>1, HeadIsNat
<1> HIDE DEF y
<1>11. D => 2 + h3 + n + h4 + cd =< 2000
  BY <1>1, <1>5, ResponseTooLong
<1>12. ASSUME h3 + n + h4 + cd =< 1998
       PROVE  D /\ n =< 4048
  <2>1. n =< 4048 /\ n \in AttObjLengths
    <3>1. h3 + n + h4 + cd =< 1998
      BY <1>12
    <3> HIDE DEF h3, h4, D
    <3>2. n =< 1998
      BY <1>1, <1>5, <1>9, <1>10, <3>1
    <3>3. n \in Nat /\ n >= 1
      BY <1>5
    <3>4. n =< 4048
      BY <3>2, <3>3
    <3>5. n \in 1..8192
      BY <3>2, <3>3
    <3>6. n \in AttObjLengths
      BY <3>5 DEF AttObjLengths
    <3> QED
      BY <3>4, <3>6
  <2>2. D
    BY <1>1, <1>12, <2>1, ResponseDelivered
  <2> QED
    BY <2>1, <2>2
<1> HIDE DEF h3, h4, D
<1>13. ResponsesFor(id, cert) # {} <=> n =< 4048 /\ D
  BY <1>2, ResponsesForOne DEF AttObjBufSize, D, n, y, cd
<1>14. ResponseFits(k, cert) <=> n =< 4048 /\ D
  BY <1>1, <1>5, <1>8, <1>9, <1>10, <1>11, <1>12
<1>15. ResponsesFor(id, cert) # {} <=> ResponseFits(k, cert)
  BY <1>13, <1>14
<1> QED
  BY <1>15 DEF k

(* The credential made last is in the table if and only if the response    *)
(* with it fits into the buffer of cbor_build and its id is no longer than *)
(* process_reg_response takes.                                             *)
THEOREM EnrolmentsStoredIffItFits == EnrolmentsSpec => []StoredIffItFits
<1>1. EnrolmentsStart => StoredIffItFits
  BY DEF EnrolmentsStart, StoredIffItFits
<1>2. TableInv /\ StoredIffItFits /\ [EnrolmentsNext]_enrolmentsVars => StoredIffItFits'
  <2> SUFFICES ASSUME TableInv, StoredIffItFits, [EnrolmentsNext]_enrolmentsVars
               PROVE  StoredIffItFits'
    OBVIOUS
  <2>1. ASSUME NEW len \in IdLengths, NEW cert \in CertLengths, Register(len, cert)
        PROVE  StoredIffItFits'
    <3> DEFINE id == [v |-> Len(ids) + 1, len |-> len]
               fits == ResponsesFor(id, cert) # {} /\ len \in 1..1023
    <3>1. id \in CredIds /\ id.v = Len(ids) + 1 /\ id.len = len /\ len \in Nat \ {0}
      BY MadeId, EnrolmentsAssumption
    <3>2. cert \in Nat \ {0}
      BY EnrolmentsAssumption
    <3>3. /\ made' = [id |-> id, cert |-> cert]
          /\ IF fits THEN ids' = Append(ids, id) ELSE ids' = ids
      BY <2>1, RegisterStores, ZenonT(40)
    <3> HIDE DEF id
    <3>4. made'.id = id /\ made'.cert = cert
      BY <3>3
    <3>5. fits <=> len =< 1023 /\ ResponseFits(len, cert)
      <4>1. ResponsesFor(id, cert) # {} <=> ResponseFits(len, cert)
        BY <3>1, <3>2, CredentialArrives
      <4>2. len \in 1..1023 <=> len =< 1023
        BY <3>1
      <4>3. fits <=> (ResponsesFor(id, cert) # {} /\ len \in 1..1023)
        OBVIOUS
      <4> HIDE DEF fits
      <4> QED
        BY <4>1, <4>2, <4>3
    <3> HIDE DEF fits
    <3>6. fits => \E i \in 1..Len(ids') : ids'[i] = id
      BY <3>1, <3>3, TableGrows
    <3>7. ~fits => ~ \E i \in 1..Len(ids') : ids'[i] = id
      <4>1. Len(ids) \in Nat
        BY LenProperties DEF TableInv
      <4> QED
        BY <3>1, <3>3, <4>1 DEF TableInv
    <3> QED
      <4>1. id.len = len
        BY <3>1
      <4>2. (\E i \in 1..Len(ids') : ids'[i] = made'.id)
              <=> made'.id.len =< 1023 /\ ResponseFits(made'.id.len, made'.cert)
        <5>1. (\E i \in 1..Len(ids') : ids'[i] = id) <=> len =< 1023 /\ ResponseFits(len, cert)
          BY <3>5, <3>6, <3>7, Zenon
        <5> QED
          BY <3>4, <4>1, <5>1
      <4> QED
        BY <4>2 DEF StoredIffItFits
  <2>2. CASE Authenticate
    BY <2>2 DEF Authenticate, StoredIffItFits
  <2>3. CASE UNCHANGED enrolmentsVars
    BY <2>3 DEF enrolmentsVars, StoredIffItFits
  <2> QED
    BY <2>1, <2>2, <2>3 DEF EnrolmentsNext
<1> QED
  BY <1>1, <1>2, TableInvHolds, PTL DEF EnrolmentsSpec
-----------------------------------------------------------------------------
(* The size of the authentication request around an allow list.            *)
FourPairs(k1, x1, k2, x2, k3, x3, k4, x4) ==
    ((<<k1, x1>> \o <<k2, x2>>) \o <<k3, x3>>) \o <<k4, x4>>

(* The size of a map of four options.                                      *)
LEMMA OptionsSize ==
    ASSUME NEW k1, NEW x1, NEW k2, NEW x2, NEW k3, NEW x3, NEW k4, NEW x4,
           k1.size = 1, k2.size = 1, k3.size = 1, k4.size = 1,
           k1.whole, k2.whole, k3.whole, k4.whole, x1.whole, x2.whole, x3.whole, x4.whole,
           x1.size \in Nat, x2.size \in Nat, x3.size \in Nat, x4.size \in Nat
    PROVE  LET s == FourPairs(k1, x1, k2, x2, k3, x3, k4, x4)
           IN  /\ s # <<>> /\ Len(s) = 8 /\ PairsOf(s).whole
               /\ PairsOf(s).size = 5 + x1.size + x2.size + x3.size + x4.size
<1> DEFINE S == {k1, x1, k2, x2, k3, x3, k4, x4}
           s1 == <<k1, x1>>
           s2 == s1 \o <<k2, x2>>
           s3 == s2 \o <<k3, x3>>
           s4 == s3 \o <<k4, x4>>
           m == PairsOf(s4)
<1>1. /\ k1 \in S /\ x1 \in S /\ k2 \in S /\ x2 \in S /\ k3 \in S /\ x3 \in S /\ k4 \in S /\ x4 \in S
      /\ s1 \in Seq(S)
  OBVIOUS
<1>2. \A x \in S : x.whole
  OBVIOUS
<1>3. Sizes!Iterate(1, s1) = (1 + k1.size) + x1.size
  BY SizeOfTwo
<1>4. Len(s1) = 2
  OBVIOUS
<1> HIDE DEF S, s1
<1>5. s2 \in Seq(S) /\ Len(s2) = Len(s1) + 2 /\ Sizes!Iterate(1, s2) = (Sizes!Iterate(1, s1) + k2.size) + x2.size
  BY <1>1, SizeOfTwoMore
<1>6. Len(s2) = 4
  BY <1>4, <1>5
<1> HIDE DEF s2
<1>7. s3 \in Seq(S) /\ Len(s3) = Len(s2) + 2 /\ Sizes!Iterate(1, s3) = (Sizes!Iterate(1, s2) + k3.size) + x3.size
  BY <1>1, <1>5, SizeOfTwoMore
<1>8. Len(s3) = 6
  BY <1>6, <1>7
<1> HIDE DEF s3
<1>9. s4 \in Seq(S) /\ Len(s4) = Len(s3) + 2 /\ Sizes!Iterate(1, s4) = (Sizes!Iterate(1, s3) + k4.size) + x4.size
  BY <1>1, <1>7, SizeOfTwoMore
<1>10. Len(s4) = 8
  BY <1>8, <1>9
<1> HIDE DEF s4
<1>11. \A i \in 1..Len(s4) : s4[i].whole
  <2>1. \A i \in 1..Len(s4) : s4[i] \in S
    BY <1>9, ElementOfSeq
  <2> QED
    BY <1>2, <2>1
<1>12. m.whole = (Len(s4) = 2 * (Len(s4) \div 2) /\ \A i \in 1..Len(s4) : s4[i].whole)
       /\ m.size = Sizes!Iterate(Head8(Len(s4) \div 2), s4)
  BY MapItem
<1> HIDE DEF m
<1>13. Len(s4) \div 2 = 4 /\ Len(s4) = 2 * (Len(s4) \div 2)
  BY <1>10
<1>14. Head8(4) = 1
  BY DEF Head8
<1>15. m.size = Sizes!Iterate(1, s4)
  BY <1>12, <1>13, <1>14, Zenon
<1>16. m.whole
  BY <1>11, <1>12, <1>13
<1>17. m.size = 5 + x1.size + x2.size + x3.size + x4.size
  <2> DEFINE v1 == x1.size
             v2 == x2.size
             v3 == x3.size
             v4 == x4.size
             t1 == Sizes!Iterate(1, s1)
             t2 == Sizes!Iterate(1, s2)
             t3 == Sizes!Iterate(1, s3)
             t4 == Sizes!Iterate(1, s4)
  <2>1. v1 \in Nat /\ v2 \in Nat /\ v3 \in Nat /\ v4 \in Nat
    OBVIOUS
  <2>2. t1 = (1 + 1) + v1 /\ t2 = (t1 + 1) + v2 /\ t3 = (t2 + 1) + v3 /\ t4 = (t3 + 1) + v4
    BY <1>3, <1>5, <1>7, <1>9, Zenon
  <2>3. m.size = t4
    BY <1>15
  <2> HIDE DEF v1, v2, v3, v4, t1, t2, t3, t4
  <2>4. t1 = 2 + v1
    BY <2>1, <2>2
  <2>5. t2 = 3 + v1 + v2
    BY <2>1, <2>2, <2>4
  <2>6. t3 = 4 + v1 + v2 + v3
    BY <2>1, <2>2, <2>5
  <2>7. t4 = 5 + v1 + v2 + v3 + v4
    BY <2>1, <2>2, <2>6
  <2> QED
    BY <2>3, <2>7, Zenon DEF v1, v2, v3, v4
<1>18. s4 # <<>>
  <2>1. Len(<<>>) # 8
    OBVIOUS
  <2> QED
    BY <1>10, <2>1, Zenon
<1> QED
  BY <1>10, <1>16, <1>17, <1>18, Zenon DEF m, s4, s3, s2, s1, FourPairs

(* A small number is its head.                                             *)
LEMMA SmallNumber == \A k \in 0 .. 23 : Number(k).size = 1 /\ Number(k).whole
BY NumberItem DEF Head8

(* The size of an authentication request with the options server.c sets,   *)
(* by the length of its list.                                              *)
LEMMA AuthBodySize ==
    ASSUME NEW p \in AuthRequests, NEW n \in Nat, NEW host \in Nat,
           NEW t \in Nat, t # 0, Head8(t) = 3,
           p.challenge = Field(32), p.timeout = t, p.rpId = Field(host),
           p.allow = Field(n), p.userVerification = 1, p.extensions = <<>>
    PROVE  Body(p).whole /\ Body(p).size = 45 + Head8(host) + host + Head8(n) + n
<1> DEFINE i1 == Number(AUTH_REQUEST)
           i2 == Bytes(p.challenge)
           k1 == Number(1)
           k2 == Number(2)
           k3 == Number(3)
           k4 == Number(4)
           x1 == Number(p.timeout)
           x2 == Text(p.rpId)
           x3 == Bytes(p.allow)
           x4 == Number(p.userVerification)
           s == FourPairs(k1, x1, k2, x2, k3, x3, k4, x4)
           m == PairsOf(s)
           h1 == Head8(host)
           h2 == Head8(n)
<1>1. h1 \in Nat
  BY HeadIsNat
<1>2. h2 \in Nat
  BY HeadIsNat
<1>3. i1.size = 1 /\ i1.whole
  BY SmallNumber, TypeNumbers
<1>4. i2.size = 34 /\ i2.whole
  BY FieldIsBlob, BytesItem DEF Head8
<1>5. k1.size = 1 /\ k1.whole /\ k2.size = 1 /\ k2.whole
      /\ k3.size = 1 /\ k3.whole /\ k4.size = 1 /\ k4.whole
  BY SmallNumber
<1>6. x1.size = 3 /\ x1.whole
  BY NumberItem
<1>7. x2.size = h1 + host /\ x2.whole
  BY FieldIsBlob, TextItem
<1>8. x3.size = h2 + n /\ x3.whole
  BY FieldIsBlob, BytesItem
<1>9. x4.size = 1 /\ x4.whole
  BY SmallNumber
<1>10. AuthOptionsOf(p) = s
  <2>1. p.timeout # 0 /\ p.userVerification # 0
    OBVIOUS
  <2>2. p.rpId # Absent /\ p.allow # Absent
    BY FieldIsBlob DEF Absent
  <2>3. AuthKeys.timeout = 1 /\ AuthKeys.rpId = 2 /\ AuthKeys.allow = 3 /\ AuthKeys.userVerification = 4
    BY DEF AuthKeys
  <2>4. /\ Pair(p.timeout # 0, AuthKeys.timeout, Number(p.timeout)) = <<k1, x1>>
        /\ Pair(p.rpId # Absent, AuthKeys.rpId, Text(p.rpId)) = <<k2, x2>>
        /\ Pair(p.allow # Absent, AuthKeys.allow, Bytes(p.allow)) = <<k3, x3>>
        /\ Pair(p.userVerification # 0, AuthKeys.userVerification, Number(p.userVerification)) = <<k4, x4>>
        /\ Pair(p.extensions # <<>>, AuthKeys.extensions, ExtensionMap(p.extensions)) = <<>>
    BY <2>1, <2>2, <2>3, Zenon DEF Pair
  <2> HIDE DEF k1, x1, k2, x2, k3, x3, k4, x4
  <2>5. AuthOptionsOf(p) = s \o <<>>
    BY <2>4, Zenon DEF AuthOptionsOf, FourPairs
  <2>6. s \o <<>> = s
    BY DEF FourPairs
  <2> QED
    BY <2>5, <2>6, Zenon
<1> HIDE DEF i1, i2, k1, x1, k2, x2, k3, x3, k4, x4, h1, h2
<1>11. s # <<>> /\ m.whole /\ m.size = 5 + x1.size + x2.size + x3.size + x4.size
  <2>1. x1.size \in Nat /\ x2.size \in Nat /\ x3.size \in Nat /\ x4.size \in Nat
    BY <1>1, <1>2, <1>6, <1>7, <1>8, <1>9
  <2>2. x1.whole /\ x2.whole /\ x3.whole /\ x4.whole
    BY <1>6, <1>7, <1>8, <1>9
  <2> QED
    BY <1>5, <2>1, <2>2, OptionsSize, SMTT(30)
<1> HIDE DEF s, m
<1> DEFINE u == <<i1, i2>> \o <<m>>
<1>12. Body(p) = Arr(3, u)
  <2>1. Body(p) = BuildAuthRequest(p)
    BY AuthRequestFields, BodyOfType
  <2>2. BuildAuthRequest(p) = Arr(IF AuthOptionsOf(p) # <<>> THEN 3 ELSE 2,
           <<Number(AUTH_REQUEST), Bytes(p.challenge)>>
           \o (IF AuthOptionsOf(p) # <<>> THEN <<PairsOf(AuthOptionsOf(p))>> ELSE <<>>))
    BY Zenon DEF BuildAuthRequest, AuthOptionsOf
  <2> QED
    BY <1>10, <1>11, <2>1, <2>2, Zenon DEF i1, i2, m
<1>13. Sizes!Iterate(1, u) = ((1 + i1.size) + i2.size) + m.size
  <2> DEFINE S == {i1, i2, m}
             r == <<i1, i2>>
  <2>1. r \in Seq(S) /\ m \in S /\ u = Append(r, m)
    OBVIOUS
  <2>2. Sizes!Iterate(1, r) = (1 + i1.size) + i2.size
    BY SizeOfTwo
  <2> HIDE DEF S, r, u
  <2>3. Sizes!Iterate(1, Append(r, m)) = Sizes!Iterate(1, r) + m.size
    BY <2>1, Sizes!IterateAppend DEF AddSize
  <2> QED
    BY <2>1, <2>2, <2>3, Zenon
<1>14. Len(u) = 3 /\ u[1] = i1 /\ u[2] = i2 /\ u[3] = m
  OBVIOUS
<1> HIDE DEF u
<1> DEFINE x == Arr(3, u)
<1>15. /\ x.size = Sizes!Iterate(Head8(3), u)
       /\ x.whole = (Len(u) = 3 /\ \A i \in 1..Len(u) : u[i].whole)
  BY ArrayItem, ZenonT(40)
<1> HIDE DEF x
<1>16. Head8(3) = 1
  BY DEF Head8
<1>17. x.size = 45 + h1 + host + h2 + n
  BY <1>1, <1>2, <1>3, <1>4, <1>6, <1>7, <1>8, <1>9, <1>11, <1>13, <1>15, <1>16
<1>18. x.whole
  <2>1. \A i \in 1..3 : u[i].whole
    BY <1>3, <1>4, <1>11, <1>14
  <2> QED
    BY <1>14, <1>15, <2>1
<1> QED
  BY <1>12, <1>17, <1>18, Zenon DEF x, h1, h2

(* It is delivered when the list was.                                      *)
LEMMA AuthDelivered ==
    ASSUME NEW x, NEW n \in Nat, x.size = n, n =< 1000
    PROVE  Delivered(AuthRequestOver(x)) # {}
<1> DEFINE p == AuthRequestOver(x)
           host == HostLength
           k == n + 16
           t == 60000
           h1 == Head8(host)
           h2 == Head8(k)
<1>1. /\ p.type = AUTH_REQUEST /\ p.challenge = Field(32) /\ p.timeout = t
      /\ p.rpId = Field(host) /\ p.allow = Field(k) /\ p.userVerification = 1
      /\ p.extensions = <<>>
  BY DEF AuthRequestOver, Sealed, TagLength
<1>2. host \in 1..256 /\ k \in Nat /\ k =< 1016
  BY EnrolmentsAssumption DEF NameLengths
<1>3. p \in AuthRequests
  <2>1. Field(32) \in Blobs /\ Field(HostLength) \in Blobs /\ Sealed(x) \in Blobs
    BY <1>2, FieldIsBlob DEF Sealed, TagLength
  <2>2. <<>> \in Seq(Extension)
    OBVIOUS
  <2> QED
    BY <2>1, <2>2 DEF AuthRequestOver, AuthRequests
<1>11. t \in Nat /\ t # 0 /\ Head8(t) = 3
  BY DEF Head8
<1> HIDE DEF p, host, k, t
<1>4. h1 \in 1..3
  <2>1. host \in Nat /\ host < 65536
    BY <1>2
  <2> QED
    BY <2>1, HeadSizes
<1>5. h2 \in 1..3
  <2>1. k \in Nat /\ k < 65536
    BY <1>2
  <2> QED
    BY <2>1, HeadSizes
<1>6. Body(p).whole /\ Body(p).size = 45 + h1 + host + h2 + k
  <2>1. host \in Nat
    BY <1>2
  <2> QED
    BY <1>1, <1>2, <1>3, <1>11, <2>1, AuthBodySize
<1> HIDE DEF h1, h2
<1>7. Body(p).size =< BufSize
  BY <1>2, <1>4, <1>5, <1>6 DEF BufSize
<1>8. Parse(p.type, Body(p)) = {Received(p)}
  BY <1>3, AuthRequestRoundTrip
<1>9. p.type \in PacketTypes /\ p.type # PRE_RESPONSE
  BY <1>1, TypeNumbers DEF PacketTypes
<1>10. Delivered(p) = {Received(p)}
  BY <1>6, <1>7, <1>8, <1>9, DeliveredWhole
<1> QED
  BY <1>10 DEF p

(* An allow list that fits into the buffer of                              *)
(* cbor_build_allowed_credentials reaches the client as it is.             *)
LEMMA AllowListArrives ==
    ASSUME NEW list \in Seq(CredIds), list # <<>>, Descriptors(list).size =< 1000
    PROVE  AllowLists(list) = {list}
<1> DEFINE x == Descriptors(list)
           R == {y \in BuildAllowedCredentials(list) : Delivered(AuthRequestOver(y)) # {}}
<1>1. x.whole /\ IdsIn(x) = list /\ DescriptorsOk(x)
  BY DescriptorsItem, DescriptorsRoundTrip
<1>2. x.size \in Nat
  BY DescriptorsSizeIsNat, Zenon
<1>3. BuildAllowedCredentials(list) = {x}
  BY <1>1 DEF BuildAllowedCredentials, Encode, EncDataBufSize
<1>4. Delivered(AuthRequestOver(x)) # {}
  <2> DEFINE n == x.size
  <2>1. n \in Nat /\ n =< 1000 /\ x.size = n
    BY <1>2
  <2> HIDE DEF n, x
  <2> QED
    BY <2>1, AuthDelivered
<1>5. R = {x}
  BY <1>3, <1>4
<1>6. ParseAllowedCredentials(x) = {list}
  BY <1>1 DEF ParseAllowedCredentials, When
<1> HIDE DEF x, R
<1>7. AllowLists(list) = UNION {ParseAllowedCredentials(y) : y \in R}
  BY Zenon DEF AllowLists, R
<1> QED
  BY <1>5, <1>6, <1>7

-----------------------------------------------------------------------------
(* Two registrations and a login: the exclude list of the last             *)
(* registration leaves room for one id of this length in the allow list.   *)
(* Ids that the server does not take do not matter.                        *)
LoginsFit == \A len \in IdLengths : len =< 579 \/ len > 1023

LoginInv == ids # <<>> => Descriptors(ids).size =< 1000

(* A list that left room for a registration has room for one id more.      *)
LEMMA OneIdMore ==
    ASSUME NEW list \in Seq(CredIds), list # <<>> => Descriptors(list).size =< 415,
           NEW b \in CredIds, b.len =< 579
    PROVE  Descriptors(Append(list, b)).size =< 1000
<1> DEFINE n == Len(list)
           e == EntriesSize(list)
           k == b.len
           h == Head8(k)
           h0 == Head8(n)
           h1 == Head8(n + 1)
           l == Append(list, b)
<1>1. n \in Nat /\ l \in Seq(CredIds) /\ Len(l) = n + 1
  BY LenProperties, AppendProperties
<1>2. e \in Nat /\ e >= n /\ Descriptors(list).size = h0 + e
  BY DescriptorsSize
<1>3. k \in Nat /\ k =< 579
  BY CredIdFields
<1>4. h \in 1..3
  <2> HIDE DEF k
  <2>1. k < 65536
    BY <1>3
  <2> QED
    BY <1>3, <2>1, HeadSizes
<1>5. Descriptors(l).size = h1 + e + 2 + h + k
  <2>1. Descriptors(l).size = Head8(Len(l)) + EntriesSize(l)
    BY <1>1, DescriptorsSize
  <2>2. EntriesSize(l) = e + 2 + h + k
    BY EntriesGrow
  <2>4. n + 1 \in Nat
    BY <1>1
  <2>3. h1 \in Nat
    BY <2>4, HeadIsNat
  <2> HIDE DEF l, n, e, h, k
  <2> QED
    BY <1>1, <1>2, <1>3, <1>4, <2>1, <2>2, <2>3
<1>6. list = <<>> => n = 0 /\ e = 0
  <2>1. list = <<>> => n = 0
    OBVIOUS
  <2>2. list = <<>> => Entries(list) = <<>>
    BY DEF Entries
  <2>3. list = <<>> => e = 0
    BY <2>2, Sizes!IterateEmpty, Zenon DEF EntriesSize
  <2> QED
    BY <2>1, <2>3
<1>7. h0 \in Nat /\ h1 \in Nat
  <2>1. h0 \in Nat
    BY <1>1, HeadIsNat
  <2>2. n + 1 \in Nat
    BY <1>1
  <2>3. h1 \in Nat
    BY <2>2, HeadIsNat
  <2> QED
    BY <2>1, <2>3
<1>8. n < 65535 => h1 =< h0 + 1
  BY <1>1, HeadSizes
<1>9. n = 0 => h0 = 1
  BY <1>1, HeadSizes
<1>10. list # <<>> => h0 + e =< 415
  BY <1>2
<1> HIDE DEF n, e, k, h, h0, h1, l
<1>11. CASE list = <<>>
  <2>1. n = 0 /\ e = 0
    BY <1>6, <1>11
  <2>2. h1 =< 2
    BY <1>8, <1>9, <2>1
  <2>3. Descriptors(l).size =< 1000
    BY <1>3, <1>4, <1>5, <1>7, <2>1, <2>2
  <2> QED
    BY <2>3 DEF l
<1>12. CASE list # <<>>
  <2>1. h0 + e =< 415
    BY <1>10, <1>12
  <2>2. h1 =< h0 + 1
    BY <1>1, <1>2, <1>7, <1>8, <2>1
  <2>3. Descriptors(l).size =< 1000
    BY <1>2, <1>3, <1>4, <1>5, <1>7, <2>1, <2>2
  <2> QED
    BY <2>3 DEF l
<1> QED
  BY <1>11, <1>12

(* The list never outgrows the buffer of the allow list.                   *)
LEMMA LoginInvHolds ==
    ASSUME LoginsFit
    PROVE  EnrolmentsSpec => []LoginInv
<1>1. EnrolmentsStart => LoginInv
  BY DEF EnrolmentsStart, LoginInv
<1>2. TableInv /\ LoginInv /\ [EnrolmentsNext]_enrolmentsVars => LoginInv'
  <2> SUFFICES ASSUME TableInv, LoginInv, [EnrolmentsNext]_enrolmentsVars
               PROVE  LoginInv'
    OBVIOUS
  <2>1. ASSUME NEW len \in IdLengths, NEW cert \in CertLengths, Register(len, cert)
        PROVE  LoginInv'
    <3> DEFINE id == [v |-> Len(ids) + 1, len |-> len]
    <3>1. id \in CredIds /\ id.len = len /\ (ids' = ids \/ (ids' = Append(ids, id) /\ len \in 1..1023))
      <4>1. id \in CredIds /\ id.len = len
        BY MadeId
      <4>2. IF ResponsesFor(id, cert) # {} /\ len \in 1..1023 THEN ids' = Append(ids, id)
                                                             ELSE ids' = ids
        BY <2>1, RegisterStores, ZenonT(40)
      <4> HIDE DEF id
      <4> QED
        BY <4>1, <4>2, Zenon
    <3>2. PICK list \in ExcludeLists(ids) : excluded' = list
      BY <2>1 DEF Register
    <3>3. ids \in Seq(CredIds)
      BY DEF TableInv
    <3>4. ids # <<>> => Descriptors(ids).size =< 415
      BY <3>2, <3>3, ExcludeListsComplete
    <3> HIDE DEF id
    <3>7. CASE ids' = ids
      BY <3>7 DEF LoginInv
    <3>8. CASE ids' = Append(ids, id) /\ len \in 1..1023
      <4>1. id.len =< 579
        BY <3>1, <3>8 DEF LoginsFit
      <4>2. Descriptors(Append(ids, id)).size =< 1000
        BY <3>1, <3>3, <3>4, <4>1, OneIdMore
      <4> QED
        BY <3>8, <4>2 DEF LoginInv
    <3> QED
      BY <3>1, <3>7, <3>8
  <2>2. CASE Authenticate
    BY <2>2 DEF Authenticate, LoginInv
  <2>3. CASE UNCHANGED enrolmentsVars
    BY <2>3 DEF enrolmentsVars, LoginInv
  <2> QED
    BY <2>1, <2>2, <2>3 DEF EnrolmentsNext
<1> QED
  BY <1>1, <1>2, TableInvHolds, PTL DEF EnrolmentsSpec

(* Whatever an account has registered, a login can carry the whole list:   *)
(* the exclude list shares its buffer with user name, display name and     *)
(* user id and stops a registration before the allow list would not fit.   *)
(* With ids of 580 to 1023 bytes that is no longer so.                     *)
THEOREM EnrolmentsLoginPossible ==
    ASSUME LoginsFit
    PROVE  EnrolmentsSpec => []LoginPossible
<1>1. TableInv /\ LoginInv => LoginPossible
  BY AllowListArrives DEF TableInv, LoginInv, LoginPossible
<1> QED
  BY <1>1, TableInvHolds, LoginInvHolds, PTL
=============================================================================
