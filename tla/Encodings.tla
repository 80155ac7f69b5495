----------------------------- MODULE Encodings ------------------------------
(***************************************************************************)
(* encoding.c: base64 for the tickets, base64url for the challenge, which  *)
(* travels as text in the client data and is decoded again to be compared. *)
(* A character is its position in the base64 alphabet; the characters that *)
(* are in no base64 alphabet position have the numbers behind it.          *)
(***************************************************************************)
EXTENDS Integers, Sequences

CONSTANTS
    ByteValues,       \* the byte values that occur
    Lengths      \* the lengths of challenges (32 in rp.c) and tickets

ASSUME EncodingsAssumption == ByteValues \subseteq 0 .. 255 /\ Lengths \subseteq Nat \ {0}

VARIABLES
    kind,      \* "challenge" or "ticket"
    stage,     \* "drawn", "written" or "read"
    bytes,     \* what the server has drawn, or the ticket issuer
    text,      \* what travels
    result     \* what the reader gets: [ok, bytes]

encodingsVars == <<kind, stage, bytes, text, result>>

Plus == 62          \* +
Slash == 63         \* /
Pad == 64           \* =
Minus == 65         \* -
Underscore == 66    \* _

Failed == [ok |-> FALSE, bytes |-> <<>>]
Decoded(s) == [ok |-> TRUE, bytes |-> s]

-----------------------------------------------------------------------------
(* EVP_EncodeBlock and EVP_DecodeBlock of OpenSSL: four characters for     *)
(* three bytes, "=" where there is no byte left, and read as zero bits.    *)

ByteAt(s, i) == IF i \in 1 .. Len(s) THEN s[i] ELSE 0

(* The character at place 0 .. 3 of a group, the byte at place 0 .. 2.      *)
Character(s, group, place) ==
    LET first == 3 * group
        b(k) == ByteAt(s, first + k)
    IN  CASE place = 0 -> b(1) \div 4
          [] place = 1 -> (b(1) % 4) * 16 + (b(2) \div 16)
          [] place = 2 /\ first + 2 =< Len(s) -> (b(2) % 16) * 4 + (b(3) \div 64)
          [] place = 3 /\ first + 3 =< Len(s) -> b(3) % 64
          [] OTHER -> Pad

Bits(c) == IF c = Pad THEN 0 ELSE c

DecodedByte(t, group, place) ==
    LET c(k) == Bits(t[4 * group + k])
    IN  CASE place = 0 -> (c(1) * 4 + (c(2) \div 16)) % 256
          [] place = 1 -> ((c(2) % 16) * 16 + (c(3) \div 4)) % 256
          [] place = 2 -> (c(3) % 4) * 64 + c(4)

EncodeBlock(s) ==
    [p \in 1 .. 4 * ((Len(s) + 2) \div 3) |-> Character(s, (p - 1) \div 4, (p - 1) % 4)]

DecodeBlock(t) ==
    [q \in 1 .. 3 * (Len(t) \div 4) |-> DecodedByte(t, (q - 1) \div 3, (q - 1) % 3)]

Base64Text(t) == Len(t) % 4 = 0 /\ \A i \in 1 .. Len(t) : t[i] \in 0 .. Pad

-----------------------------------------------------------------------------
(* encoding.c                                                              *)

EncodeBase64(s) == EncodeBlock(s)

(* Mutant of Padding: the padding is not taken off the length.             *)
PaddingNone(t) == 0

(* The "=" at the end of a text, two at most.                              *)
Padding(t) ==
    IF Len(t) > 0 /\ t[Len(t)] = Pad
    THEN IF Len(t) > 1 /\ t[Len(t) - 1] = Pad THEN 2 ELSE 1
    ELSE 0

(* The buffer of an empty text cannot be allocated.                        *)
DecodeBase64(t) ==
    IF Len(t) > 0 /\ Base64Text(t)
    THEN Decoded(SubSeq(DecodeBlock(t), 1, Len(DecodeBlock(t)) - Padding(t)))
    ELSE Failed

ToUrl(c) == IF c = Plus THEN Minus ELSE IF c = Slash THEN Underscore ELSE c
FromUrl(c) == IF c = Minus THEN Plus ELSE IF c = Underscore THEN Slash ELSE c

(* The length of t without the "=" at its end.                             *)
Trimmed(t) ==
    CHOOSE k \in 0 .. Len(t) :
      (k = 0 \/ t[k] # Pad) /\ \A i \in k + 1 .. Len(t) : t[i] = Pad

Base64urlEncode(s) ==
    LET t == EncodeBase64(s)
        u == [i \in 1 .. Len(t) |-> ToUrl(t[i])]
    IN  SubSeq(u, 1, Trimmed(u))

(* What len % 4 tells of the "=" that have been removed.                   *)
Missing(t) ==
    CASE Len(t) % 4 = 2 -> <<Pad, Pad>>
      [] Len(t) % 4 = 3 -> <<Pad>>
      [] OTHER -> <<>>

(* Mutants of UrlBuffer: room for the text alone.                          *)
UrlBufferOfText(t) == Len(t) + 1

(* The temporary buffer of base64url_decode, with its null terminator.     *)
UrlBuffer(t) == Len(t) + (Len(t) % 4) + 1

Base64urlDecode(t) ==
    IF Len(t) % 4 = 1 THEN Failed
    ELSE DecodeBase64([i \in 1 .. Len(t) |-> FromUrl(t[i])] \o Missing(t))

-----------------------------------------------------------------------------
EncodingsStart ==
    /\ kind \in {"challenge", "ticket"}
    /\ stage = "drawn"
    /\ \E n \in Lengths : bytes \in [1 .. n -> ByteValues]
    /\ text = <<>>
    /\ result = Failed

Written(k, t) ==
    /\ kind = k /\ stage = "drawn"
    /\ text' = t
    /\ stage' = "written"
    /\ UNCHANGED <<kind, bytes, result>>

Read(k, r) ==
    /\ kind = k /\ stage = "written"
    /\ result' = r
    /\ stage' = "read"
    /\ UNCHANGED <<kind, bytes, text>>

(* generate_clientdata: the challenge of the request as a JSON string.     *)
GenerateClientdata == Written("challenge", Base64urlEncode(bytes))

(* verify_clientdata: back to bytes, to be compared with the challenge.    *)
VerifyClientdata == Read("challenge", Base64urlDecode(text))

(* ticket_b64 of the options of a client and of a server.                  *)
IssueTicket == Written("ticket", EncodeBase64(bytes))

(* init_ud and init_rp.                                                    *)
ReadTicket == Read("ticket", DecodeBase64(text))

ReadOnce == stage = "read" /\ UNCHANGED encodingsVars

EncodingsNext == GenerateClientdata \/ VerifyClientdata \/ IssueTicket \/ ReadTicket \/ ReadOnce

EncodingsSpec == EncodingsStart /\ [][EncodingsNext]_encodingsVars

-----------------------------------------------------------------------------
(* Whatever bytes the server draws for a challenge, and whatever their     *)
(* number, the answer of the client decodes and compares equal:            *)
(* base64url_decode is the inverse of base64url_encode.  So is             *)
(* decode_base64 for the text of a ticket.                                 *)
BytesArrive == stage = "read" => result = Decoded(bytes)

(* The restored padding and the terminator fit the buffer that             *)
(* base64url_decode has allocated from len % 4.                            *)
PaddingFits ==
    kind = "challenge" => Len(text) + Len(Missing(text)) + 1 =< UrlBuffer(text)

=============================================================================
