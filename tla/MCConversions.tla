--------------------------- MODULE MCConversions ----------------------------
(***************************************************************************)
(* The conversions on the way of a ceremony, for TLC.  They have no state  *)
(* in common: a behaviour is one of one of them, its subject, and the      *)
(* others stay in a fixed initial state.                                   *)
(***************************************************************************)
EXTENDS UserNames, Wire, Enrolments, AuthenticatorData, Encodings, RpIds

CONSTANTS Subjects, original, copy

VARIABLE subject

-----------------------------------------------------------------------------
(* All names of up to Width bytes over a marker and another byte.          *)
MCTyped == {<<>>} \cup UNION {[1..n -> {97, Marker}] : n \in 1..Width}

(* An account that grows until the exclude list is full.  An id of 255     *)
(* bytes fits the response with a certificate of 1081, not of 1082; an id  *)
(* of 1024 fits it with one of 300, and the server refuses it.             *)
MCIdLengths == {48, 128, 255, 579, 1024}
MCCertLengths == {300, 1081, 1082}

(* Names of up to three labels: "a", "b", "ab" and "A", so that a label    *)
(* may be the end of another one and differ from it in case only.          *)
MCLabels == {<<97>>, <<98>>, <<97, 98>>, <<65>>}
MCDomains == UNION {[1 .. n -> MCLabels] : n \in 1 .. 3}

(* a, b and ab are top-level domains, and b.a is a public suffix below a.  *)
MCPublicSuffixes == {<<<<97>>>>, <<<<98>>>>, <<<<97, 98>>>>, <<<<98>>, <<97>>>>}

(* Packets with every choice of optional fields, as rp.c and ud.c fill     *)
(* them in.                                                                *)
B(v, len) == [v |-> v, len |-> len]

Extensions == {<<>>, <<[id |-> B(1, 11), data |-> B(2, 4)]>>,
               <<[id |-> B(1, 11), data |-> B(2, 4)], [id |-> B(3, 256), data |-> B(4, 1)]>>}

MCOutgoing ==
    {[type |-> PRE_INDICATION], [type |-> AUTH_INDICATION_DISCOVERABLE]}
    \cup [type : {PRE_RESPONSE}, ephUserId : {B(1, 256)}, gcmKey : {B(2, 32)}]
    \cup [type : {REG_INDICATION}, ephUserId : {B(1, 256)}, encrypted : {B(3, 533)}]
    \cup [type : {AUTH_INDICATION_SERVER_SIDE}, ephUserId : {B(1, 256)}, encrypted : {B(3, 272)}]
    \cup [type : {REG_REQUEST}, rpId : {B(1, 9), B(1, 253)}, rpName : {B(2, 12)},
          challenge : {B(3, 32)}, params : {<<ES256>>}, encrypted : {B(4, 601), B(4, 1016)},
          timeout : {0, 60000}, attachment : 0..2, residentKey : 0..3,
          userVerification : 0..3, attestation : 0..4, extensions : {<<>>}]
    \cup [type : {REG_REQUEST}, rpId : {B(1, 9)}, rpName : {B(2, 12)},
          challenge : {B(3, 32)}, params : {<<ES256>>}, encrypted : {B(4, 601)},
          timeout : {0, 60000}, attachment : {0, 2}, residentKey : {0, 3},
          userVerification : {0, 1}, attestation : {0, 3}, extensions : Extensions]
    \cup [type : {REG_RESPONSE}, attobj : {B(1, 1100), B(1, 1900)}, clientdata : {B(2, 180)}]
    \cup [type : {AUTH_REQUEST}, challenge : {B(1, 32)}, timeout : {0, 60000},
          rpId : {Absent, B(2, 9), B(2, 253)}, allow : {Absent, B(3, 86), B(3, 1016)},
          userVerification : 0..3, extensions : Extensions]
    \cup [type : {AUTH_RESPONSE}, clientdata : {B(1, 180)}, authdata : {B(2, 37)},
          signature : {B(3, 71)}, userHandle : {Absent, B(4, 64)}, credId : {Absent, B(5, 64)}]

(* Options of a later version of the protocol.                             *)
MCNewKeys == {9}
MCNewValues == {Number(2), Number(4), Bytes(B(9, 20)), Text(B(9, 20))}

-----------------------------------------------------------------------------
Chosen(s) == subject = s

CounterIdle ==
    /\ dev = [d \in Devices |-> [count |-> 0, holds |-> FALSE]]
    /\ row = NoRow /\ last = NoLogin /\ accepted = {}
EncodingsIdle ==
    kind = "ticket" /\ stage = "drawn" /\ bytes = <<0>> /\ text = <<>> /\ result = Failed
RpIdsIdle ==
    host = <<<<97>>>> /\ rpId = <<>> /\ used = <<>> /\ verdict = "none"

ConversionsStart ==
    /\ subject \in Subjects
    /\ NamesStart /\ WireStart /\ EnrolmentsStart
    /\ IF Chosen("counter") THEN CounterStart ELSE CounterIdle
    /\ IF Chosen("encodings") THEN EncodingsStart ELSE EncodingsIdle
    /\ IF Chosen("rp ids") THEN RpIdsStart ELSE RpIdsIdle

allVars == <<namesVars, wireVars, enrolmentsVars, counterVars, encodingsVars, rpIdVars>>

ConversionsNext ==
    /\ \/ /\ Chosen("names") /\ NamesNext
          /\ UNCHANGED <<wireVars, enrolmentsVars, counterVars, encodingsVars, rpIdVars>>
       \/ /\ Chosen("packets") /\ WireNext
          /\ UNCHANGED <<namesVars, enrolmentsVars, counterVars, encodingsVars, rpIdVars>>
       \/ /\ Chosen("enrolments") /\ EnrolmentsNext
          /\ UNCHANGED <<namesVars, wireVars, counterVars, encodingsVars, rpIdVars>>
       \/ /\ Chosen("counter") /\ CounterNext
          /\ UNCHANGED <<namesVars, wireVars, enrolmentsVars, encodingsVars, rpIdVars>>
       \/ /\ Chosen("encodings") /\ EncodingsNext
          /\ UNCHANGED <<namesVars, wireVars, enrolmentsVars, counterVars, rpIdVars>>
       \/ /\ Chosen("rp ids") /\ RpIdsNext
          /\ UNCHANGED <<namesVars, wireVars, enrolmentsVars, counterVars, encodingsVars>>
    /\ UNCHANGED subject

ConversionsSpec == ConversionsStart /\ [][ConversionsNext]_<<allVars, subject>>
=============================================================================
