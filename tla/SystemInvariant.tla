-------------------------- MODULE SystemInvariant --------------------------
(***************************************************************************)
(* The inductive invariant of the whole system (FidoSystem.tla): what the  *)
(* server and the client keep against anyone (AnyClient.tla,               *)
(* AnyServer.tla), and what relates the two sides, the messages between    *)
(* them and the authenticators.  FidoSystemProofs.tla proves it.           *)
(***************************************************************************)
EXTENDS FidoSystem, AnyClient, AnyServer

(* States of a client that has sent its ClientHello and heard nothing yet. *)
IndicationStates ==
    {"NO_EXTENSION", "PRE_INDICATION_SENT", "REG_INDICATION_SENT",
     "AUTH_INDICATION_SERVER_SIDE_SENT", "AUTH_INDICATION_DISCOVERABLE_SENT"}

RegAnswerStates == {"REG_REQUEST_RECEIVED", "REG_RESPONSE_SENT"}
AuthAnswerStates == {"AUTH_REQUEST_RECEIVED", "AUTH_RESPONSE_SENT"}

-----------------------------------------------------------------------------
(* One client: its ud_data u, and the message m that is in flight.  Every  *)
(* random value is below n, the next one to be drawn.                      *)

(* What the state of ud_data says of its fields.                           *)
StateFits(u, n) ==
    /\ u.state \in {"REG_INITIAL", "REG_INDICATION_SENT"} \cup RegAnswerStates =>
         u.ceremony = "REGISTRATION"
    /\ u.state \in {"AUTH_INITIAL_SERVER_SIDE", "AUTH_INDICATION_SERVER_SIDE_SENT"} =>
         u.ceremony = "AUTH_SERVER_SIDE"
    /\ u.state \in {"AUTH_INITIAL_DISCOVERABLE", "AUTH_INDICATION_DISCOVERABLE_SENT"} =>
         u.ceremony = "AUTH_DISCOVERABLE"
    /\ u.state \in {"PRE_INDICATION_SENT", "PRE_RESPONSE_RECEIVED"} =>
         u.ceremony \in {"REGISTRATION", "AUTH_SERVER_SIDE"}
    /\ u.state \in AuthAnswerStates => u.ceremony \in {"AUTH_SERVER_SIDE", "AUTH_DISCOVERABLE"}
    /\ u.ceremony \in {"REGISTRATION", "AUTH_SERVER_SIDE"} => u.name \in Names
    /\ u.state \in {"REG_REQUEST_RECEIVED", "AUTH_REQUEST_RECEIVED"} => u.chal # 0
    /\ u.state \in {"PRE_RESPONSE_RECEIVED", "REG_INDICATION_SENT",
                    "AUTH_INDICATION_SERVER_SIDE_SENT"} => u.eph # 0
    /\ u.key.eph = u.eph
    /\ u.eph < n /\ u.cred < n

(* A ClientHello carries fields of the program that sent it.               *)
HelloOf(u, m) ==
    \/ u.state = "NO_EXTENSION" /\ m = NoExt
    \/ u.state = "PRE_INDICATION_SENT" /\ m = PreIndication
    \/ u.state = "REG_INDICATION_SENT" /\ m = RegIndication(u.eph, u.key, u.name, u.ticket)
    \/ u.state = "AUTH_INDICATION_SERVER_SIDE_SENT"
         /\ m = AuthIndicationServerSide(u.eph, u.key, u.name)
    \/ u.state = "AUTH_INDICATION_DISCOVERABLE_SENT" /\ m = AuthIndicationDiscoverable

(* The requests of a server.                                               *)
RequestWellFormed(m, n) ==
    \/ m = NoExt
    \/ /\ m.type = "PRE_RESPONSE"
       /\ m.eph \in Nat \ {0} /\ m.eph < n /\ m.key \in GcmKeys /\ m.key.eph = m.eph
    \/ /\ m.type = "REG_REQUEST"
       /\ m.chal \in Nat \ {0} /\ m.rpId \in Hosts /\ m.user \in Nat /\ m.exclude \in SUBSET Nat
    \/ /\ m.type = "AUTH_REQUEST"
       /\ m.chal \in Nat \ {0} /\ m.rpId \in Hosts /\ m.allow \in SUBSET Nat

(* So does a Certificate.                                                  *)
CertificateOf(u, m) ==
    \/ u.state \in IndicationStates \cup {"PRE_RESPONSE_RECEIVED"} /\ m = NoExt
    \/ /\ u.state = "REG_RESPONSE_SENT"
       /\ \E uv \in CredUv : m = RegResponse(u.cred, u.chal, u.host, u.rpId, uv, 0, TRUE)
    \/ /\ u.state = "AUTH_RESPONSE_SENT"
       /\ m.type = "AUTH_RESPONSE" /\ m.count \in Nat
       /\ \E uv \in AssertUv :
            m = AuthResponse(u.cred, u.chal, u.host, u.rpId, uv, m.count, u.user, TRUE)

(* How far a handshake is, and what that says of state and message.        *)
PhaseFits(phase, u, m, n) ==
    /\ phase \in Phases
    /\ phase = "hello" => HelloOf(u, m)
    /\ phase \in {"hello", "parsed", "request"} => u.state \in IndicationStates
    /\ phase = "request" => RequestWellFormed(m, n)
    /\ phase = "asked" =>
         u.state \in {"PRE_RESPONSE_RECEIVED", "REG_REQUEST_RECEIVED", "AUTH_REQUEST_RECEIVED"}
    /\ phase = "cert" => CertificateOf(u, m)

ClientFits(c) ==
    StateFits(ud[c], fresh) /\ PhaseFits(conn[c].phase, ud[c], conn[c].msg, fresh)

EachClientFits == \A c \in Clients : ClientFits(c)

-----------------------------------------------------------------------------
(* One request.                                                            *)

AskedToRegister(c) == conn[c].phase = "request" /\ conn[c].msg.type = "REG_REQUEST"
AskedToLogIn(c) == conn[c].phase = "request" /\ conn[c].msg.type = "AUTH_REQUEST"
Registering(c) == conn[c].phase \in {"asked", "cert"} /\ ud[c].state \in RegAnswerStates
LoggingIn(c) == conn[c].phase \in {"asked", "cert"} /\ ud[c].state \in AuthAnswerStates

(* The connection on which the server's request, or the answer, is.        *)
HasRequest(c) ==
    AskedToRegister(c) \/ AskedToLogIn(c) \/ Registering(c) \/ LoggingIn(c)

ExcludesEnrolled(exclude) == ~ReadFaults => exclude = Descriptors(rp.user, rp.rpId)

(* The request on that connection is the one rp_data waits for.            *)
RequestMatches(c) ==
    /\ AskedToRegister(c) =>
         LET m == conn[c].msg
         IN  /\ rp.state = "REG_REQUEST_SENT"
             /\ m.chal = rp.chal /\ m.rpId = rp.rpId /\ m.key = rp.key /\ m.name = rp.name
             /\ m.user = rp.user /\ ExcludesEnrolled(m.exclude)
    /\ AskedToLogIn(c) =>
         LET m == conn[c].msg
         IN  /\ rp.state = "AUTH_REQUEST_SENT"
             /\ m.chal = rp.chal /\ m.rpId = rp.rpId
             /\ \/ rp.ceremony = "AUTH_SERVER_SIDE" /\ m.allow = rp.allow
                     /\ m.key = rp.key /\ m.key # NoKey
                \/ rp.ceremony = "AUTH_DISCOVERABLE" /\ m.key = NoKey
    /\ Registering(c) =>
         LET u == ud[c]
         IN  /\ rp.state = "REG_REQUEST_SENT"
             /\ u.chal = rp.chal /\ u.rpId = rp.rpId /\ u.key = rp.key /\ u.name = rp.name
             /\ u.user = rp.user /\ ExcludesEnrolled(u.exclude) /\ u.eph # 0
    /\ LoggingIn(c) =>
         LET u == ud[c]
         IN  /\ rp.state = "AUTH_REQUEST_SENT"
             /\ u.chal = rp.chal /\ u.rpId = rp.rpId /\ u.ceremony = rp.ceremony
             /\ rp.ceremony = "AUTH_SERVER_SIDE" =>
                  u.key = rp.key /\ u.allow = rp.allow /\ u.eph # 0

(* At most one request is under way, although any connection may ask.      *)
OneRequest ==
    /\ \A c, d \in Clients : HasRequest(c) /\ HasRequest(d) => c = d
    /\ \A c \in Clients : RequestMatches(c)

(* What the state of rp_data says of the ceremony.                         *)
CeremonyFits ==
    /\ rp.state \in {"REG_INDICATION_RECEIVED", "REG_REQUEST_SENT"} =>
         rp.ceremony = "REGISTRATION"
    /\ rp.state = "AUTH_INDICATION_SERVER_SIDE_RECEIVED" => rp.ceremony = "AUTH_SERVER_SIDE"
    /\ rp.state = "AUTH_REQUEST_SENT" => rp.ceremony \in {"AUTH_SERVER_SIDE", "AUTH_DISCOVERABLE"}

-----------------------------------------------------------------------------
(* Keys.                                                                   *)

(* A pre-response is on its way to client c.                               *)
Offered(c) == conn[c].phase = "request" /\ conn[c].msg.type = "PRE_RESPONSE"

(* An ephemeral user id, and the key derived from it, is one client's.     *)
KeysApart ==
    /\ rp.key.eph < fresh
    /\ \A c, d \in Clients : ud[c].eph # 0 /\ ud[c].eph = ud[d].eph => c = d
    /\ \A c \in Clients : Offered(c) =>
         /\ rp.key.eph # conn[c].msg.eph
         /\ \A d \in Clients : ud[d].eph # conn[c].msg.eph
    /\ \A c, d \in Clients :
         Offered(c) /\ Offered(d) /\ conn[c].msg.eph = conn[d].msg.eph => c = d

(* States in which rp_data d holds what an indication brought: the name of *)
(* somebody with a ticket, or the id of a user.                            *)
HoldsName(d) == d.state \in {"REG_INDICATION_RECEIVED", "REG_REQUEST_SENT"}
HoldsUser(d) ==
    \/ d.state = "AUTH_INDICATION_SERVER_SIDE_RECEIVED"
    \/ d.state = "AUTH_REQUEST_SENT" /\ d.ceremony = "AUTH_SERVER_SIDE"

(* It came from the program that has the key rp_data holds beside it.      *)
KeyOwner ==
    \A c \in Clients : ud[c].eph # 0 /\ rp.key.eph = ud[c].eph =>
      /\ HoldsName(rp) => ud[c].ticket = ServerTicket
      /\ HoldsUser(rp) => [id |-> rp.user, name |-> ud[c].name] \in users

-----------------------------------------------------------------------------
(* Authenticators.                                                         *)

(* A credential id names one credential on one authenticator.              *)
DeviceIds ==
    /\ \A d \in Devices : \A k \in dev[d] : k.cred < fresh /\ k.user # 0
    /\ \A d, e \in Devices : \A k \in dev[d], l \in dev[e] : k.cred = l.cred => d = e /\ k = l
    /\ \A r \in creds : r.cred < fresh

(* The credential in a registration response is on an authenticator that   *)
(* holds no enrolled credential of the account, and is not enrolled yet.   *)
CredentialMade(c) ==
    /\ \A r \in creds : r.cred # ud[c].cred
    /\ \E d \in Devices :
         /\ \E k \in dev[d] : k.cred = ud[c].cred /\ k.user = ud[c].user /\ k.rp = ud[c].rpId
         /\ ~ReadFaults =>
              \A k \in dev[d], r \in creds :
                r.user = ud[c].user /\ r.rp = ud[c].rpId => k.cred # r.cred

(* The credential of an authentication response is on an authenticator,    *)
(* with the counter and the user handle that were sent.                    *)
AssertionMade(c) ==
    /\ \E d \in Devices : \E k \in dev[d] :
         /\ k.cred = ud[c].cred /\ k.rp = ud[c].rpId /\ k.count = conn[c].msg.count
         /\ IF ud[c].ceremony = "AUTH_SERVER_SIDE"
            THEN k.cred \in ud[c].allow /\ ud[c].user \in {0, k.user}
            ELSE ud[c].user = k.user
    /\ ~ReadFaults => \A r \in creds : r.cred = ud[c].cred => r.count < conn[c].msg.count

AnswersMade ==
    \A c \in Clients : conn[c].phase = "cert" =>
      /\ ud[c].state = "REG_RESPONSE_SENT" => CredentialMade(c)
      /\ ud[c].state = "AUTH_RESPONSE_SENT" => AssertionMade(c)

(* With SELECTs that end without an error the authenticators and the table *)
(* agree.                                                                  *)
DevicesAgree ==
    ~ReadFaults => EnrolledCredentialsUsable /\ OneCredentialPerAuthenticator

-----------------------------------------------------------------------------
(* What a completed handshake means.  After a SELECT that failed, the user *)
(* row of a registration may be missing.                                   *)
CeremonyMeant ==
    \A c \in Clients : conn[c].phase = "open" =>
      /\ ud[c].state = "REG_RESPONSE_SENT" /\ ~ReadFaults => RegisteredAs(c)
      /\ ud[c].state = "AUTH_RESPONSE_SENT" => LoggedIn(c)

SystemInv ==
    /\ IInv
    /\ UdIInv
    /\ EachClientFits
    /\ OneRequest
    /\ CeremonyFits
    /\ KeysApart
    /\ KeyOwner
    /\ DeviceIds
    /\ AnswersMade
    /\ DevicesAgree
    /\ CeremonyMeant

=============================================================================
