------------------------------ MODULE AnyClient ------------------------------
(***************************************************************************)
(* The relying party against clients that send what they like: any packet  *)
(* that can be put together from random values drawn so far, in any order, *)
(* on any connection, with or without the extension.                       *)
(***************************************************************************)
EXTENDS RelyingParty

CONSTANTS
    AuthenticatorIds,  \* credential ids the authenticators have made
    Counts             \* signature counters they report

ASSUME AnyClientAssumption ==
    /\ AuthenticatorIds \subseteq Nat
    /\ Counts \subseteq Nat

Drawn == 1 .. (fresh - 1)

(* A key that was sent to some client, or one that never was (kep = 0).    *)
Keys == {GcmKey(k, e) : k \in 0 .. episode, e \in Drawn}

(* What cbor_parse can make of the extension of a ClientHello.             *)
HelloPackets ==
    {NoExt, PreIndication, AuthIndicationDiscoverable, Malformed}
      \cup {RegIndication(k.eph, k, n, t) : k \in Keys, n \in Names, t \in Tickets}
      \cup {AuthIndicationServerSide(k.eph, k, n) : k \in Keys, n \in Names}

(* What cbor_parse can make of the extension of a Certificate.             *)
ResponsePackets ==
    {NoExt, Malformed}
      \cup {RegResponse(d, i, o, h, v, n, b) :
                d \in AuthenticatorIds, i \in Drawn, o \in Hosts, h \in Hosts,
                v \in BOOLEAN, n \in Counts, b \in BOOLEAN}
      \cup {AuthResponse(d, i, o, h, v, n, u, b) :
                d \in AuthenticatorIds, i \in Drawn, o \in Hosts, h \in Hosts,
                v \in BOOLEAN, n \in Counts, u \in Drawn \cup {0}, b \in BOOLEAN}

Hello(c) ==
    /\ CanConnect(c)
    /\ \E m \in HelloPackets : ParseClientHello(c, m)

Certificate(c) ==
    /\ conn[c].phase = "request"
    /\ \E m \in ResponsePackets : ParseCertificate(c, m)

RpNext ==
    \/ \E c \in Clients : Hello(c)
    \/ \E c \in Clients : AddCertificateRequest(c)
    \/ \E c \in Clients : Certificate(c)
    \/ \E c \in Clients : Drop(c) /\ UNCHANGED rpVars
    \/ RestartServer

RpStart == TlsInit /\ RpInit

RpSpec == RpStart /\ [][RpNext]_serverVars

-----------------------------------------------------------------------------
(* The server implements the account service: the challenge of the request *)
(* that was sent is pending until a response is accepted or refused, and   *)
(* what the service calls spent is what the server has accepted.           *)
Service == INSTANCE AccountService WITH
    rows <- creds,
    pending <- IF Outstanding(rp.state) THEN rp.chal ELSE 0,
    spent <- {x.chal : x \in accepted}

(* Every step of callbacks, crashes and restarts is a step of the service  *)
(* or leaves it unchanged: no row appears or changes without a challenge   *)
(* that was outstanding and had never been answered.                       *)
ImplementsAccountService == Service!Spec

-----------------------------------------------------------------------------
(* The inductive invariant behind the safety properties.                   *)

(* Everything the server remembers was drawn, so that what it draws next   *)
(* is new.                                                                 *)
Remembered ==
    /\ fresh \in Nat \ {0}
    /\ rp.chal < fresh /\ rp.user < fresh
    /\ \A u \in users : 0 < u.id /\ u.id < fresh
    /\ \A x \in accepted : x.chal < fresh

(* What each state of rp_data has filled in.                               *)
FilledIn ==
    /\ rp.state # "NO_DATA" => rp.rpId \in Hosts /\ rp.kep = episode
    /\ rp.state \in {"REG_INDICATION_RECEIVED", "REG_REQUEST_SENT"} => rp.name \in Names
    /\ rp.state = "REG_REQUEST_SENT" => rp.user # 0
    /\ rp.state = "AUTH_INDICATION_DISCOVERABLE_RECEIVED" => rp.ceremony = "AUTH_DISCOVERABLE"

(* An acceptance ends the episode's ceremony, and an outstanding challenge *)
(* has never been accepted.                                                *)
AcceptedBefore ==
    /\ \A x \in accepted :
         /\ x.episode =< episode
         /\ x.episode = episode => rp.state \in {"REG_SUCCESS", "AUTH_SUCCESS"}
    /\ Outstanding(rp.state) => \A x \in accepted : x.chal # rp.chal

(* The conjunction is inductive: with what is proved of it, every safety   *)
(* property of the server follows.                                         *)
IInv ==
    /\ RpTypeOK
    /\ Remembered
    /\ FilledIn
    /\ AcceptedBefore
    /\ DatabaseConsistent
    /\ ClosedHandleUnused
    /\ AcceptedOnce
    /\ LoginsAreEnrolled
    /\ AssertsHold
    /\ SnapshotsCurrent

=============================================================================
