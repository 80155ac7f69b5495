----------------------------- MODULE FidoSystem -----------------------------
(***************************************************************************)
(* Clients with their authenticators and a relying party with its          *)
(* database, joined by TLS connections: UserDevice.tla and                 *)
(* RelyingParty.tla over the same connections.                             *)
(***************************************************************************)
EXTENDS RelyingParty, UserDevice

CONSTANT Lossy    \* the clients whose connections may break

ASSUME LossyAssumption == Lossy \subseteq Clients

vars == <<conn, fresh, rpVars, udVars>>

Init == TlsInit /\ RpInit /\ UdInit

-----------------------------------------------------------------------------
(* The callbacks of the two sides, each on the message that has arrived.   *)
ServerHello(c) ==
    /\ conn[c].phase = "hello"
    /\ ParseClientHello(c, conn[c].msg)
    /\ UNCHANGED udVars

ServerFlight(c) == AddCertificateRequest(c) /\ UNCHANGED udVars

ServerCertificate(c) ==
    /\ conn[c].phase = "cert"
    /\ ParseCertificate(c, conn[c].msg)
    /\ UNCHANGED udVars

ClientRequest(c) ==
    /\ conn[c].phase = "request"
    /\ ParseCertificateRequest(c, conn[c].msg)
    /\ UNCHANGED rpVars

ClientCertificate(c) == AddCertificate(c) /\ UNCHANGED rpVars

Connect(c) == ClientHello(c) /\ UNCHANGED rpVars

(* What the user, the application and the network may do, and need not.    *)
Start(c) == \E o \in LaunchOptions : Launch(c, o) /\ UNCHANGED rpVars
Reconnect(c) == RefuseHello(c) /\ UNCHANGED rpVars
Lose(c) == c \in Lossy /\ Drop(c) /\ UNCHANGED <<rpVars, udVars>>
Restart == RestartServer /\ UNCHANGED udVars

Handshake(c) ==
    \/ ServerHello(c)
    \/ ServerFlight(c)
    \/ ServerCertificate(c)
    \/ ClientRequest(c)
    \/ ClientCertificate(c)

Next ==
    \/ \E c \in Clients : Handshake(c) \/ Connect(c)
    \/ \E c \in Clients : Start(c) \/ Reconnect(c) \/ Lose(c)
    \/ Restart

(* OpenSSL runs the callbacks of a handshake that has begun, and a client  *)
(* that has something to indicate connects.  Nothing obliges the user to   *)
(* launch a program, the network to fail or the server to restart; how the *)
(* authenticator answers is free, that it answers (or times out) is fair.  *)
Fairness ==
    /\ \A c \in Clients : WF_vars(Handshake(c))
    /\ \A c \in Clients : WF_vars(Connect(c))

Spec == Init /\ [][Next]_vars
FairSpec == Spec /\ Fairness

-----------------------------------------------------------------------------
(* Safety.                                                                 *)

NameOf(id) == {u.name : u \in {v \in users : v.id = id}}

RegisteredAs(c) ==
    \E r \in creds :
      r.cred = ud[c].cred /\ r.rp = ud[c].rpId /\ NameOf(r.user) = {ud[c].name}

LoggedIn(c) ==
    \E x \in accepted :
      /\ x.kind = "AUTH" /\ x.cred = ud[c].cred /\ x.chal = ud[c].chal
      /\ ud[c].ceremony = "AUTH_SERVER_SIDE" => NameOf(x.user) = {ud[c].name}

(* A handshake that completes after the client has answered a request      *)
(* means what the application takes it for: the client's new credential is *)
(* stored under the name it gave, or its login was accepted for the        *)
(* challenge it signed and the name it gave.                               *)
HandshakeMeansCeremony ==
    \A c \in Clients : conn[c].phase = "open" =>
      /\ ud[c].state = "REG_RESPONSE_SENT" => RegisteredAs(c)
      /\ ud[c].state = "AUTH_RESPONSE_SENT" => LoggedIn(c)

(* README.md:172: new keys are only enrolled if the client provides a      *)
(* valid ticket.  The ticket is checked on one connection and the          *)
(* credential arrives later, through the state all connections share.      *)
TicketGuardsEnrolment ==
    [][\A r \in creds' : (\E s \in creds : s.cred = r.cred) \/
          \E c \in Clients :
            /\ ud[c].ticket = ServerTicket /\ ud[c].cred = r.cred
            /\ [id |-> r.user, name |-> ud[c].name] \in users']_vars

(* The request a client works on is the one the server waits for: nobody   *)
(* else's request has replaced its challenge, and its key, user and RP id  *)
(* are the server's.                                                       *)
RequestIsOutstanding ==
    \A c \in Clients :
      conn[c].phase \in {"asked", "cert"}
        /\ ud[c].state \in {"REG_REQUEST_RECEIVED", "REG_RESPONSE_SENT",
                            "AUTH_REQUEST_RECEIVED", "AUTH_RESPONSE_SENT"} =>
      /\ rp.state \in {"REG_REQUEST_SENT", "AUTH_REQUEST_SENT"}
      /\ rp.chal = ud[c].chal /\ rp.rpId = ud[c].rpId /\ rp.ceremony = ud[c].ceremony
      /\ rp.ceremony # "AUTH_DISCOVERABLE" => rp.key = ud[c].key
      /\ rp.ceremony = "REGISTRATION" => rp.user = ud[c].user

(* What ud.c asserts: a key before a registration request is opened        *)
(* (ud.c:1013), a challenge before client data are generated (ud.c:272).   *)
ClientAssertsHold ==
    \A c \in Clients :
      /\ ud[c].state = "REG_INDICATION_SENT" => ud[c].key # NoKey
      /\ ud[c].state \in {"REG_REQUEST_RECEIVED", "AUTH_REQUEST_RECEIVED"} => ud[c].chal # 0

(* The purpose of the exclude list (create_reg_request,                    *)
(* create_fido_cred_t): no authenticator holds two enrolled credentials of *)
(* one account.                                                            *)
OneCredentialPerAuthenticator ==
    \A d \in Devices : \A r, s \in creds :
      r.user = s.user /\ r.rp = s.rp /\ {r.cred, s.cred} \subseteq {k.cred : k \in dev[d]}
        => r = s

(* An authenticator replaces a discoverable credential of the same         *)
(* account; it never replaces one the server has enrolled, and its counter *)
(* is never behind the stored one, which would lock the account.           *)
EnrolledCredentialsUsable ==
    \A r \in creds : \E d \in Devices : \E k \in dev[d] :
      k.cred = r.cred /\ k.user = r.user /\ k.rp = r.rp /\ k.count >= r.count

(* The counter, allow list, user handle and verification checks never      *)
(* refuse the answer of a real client.  What is refused was answered from  *)
(* a host that is not the RP id itself, or with a credential that was made *)
(* in a registration the server never completed.                           *)
RefusedForCause ==
    [][Outstanding(rp.state) /\ rp'.state \in {"REG_FAILURE", "AUTH_FAILURE"} =>
         \E c \in Clients : conn[c].phase = "cert" /\
           \/ ud[c].host # rp.rpId
           \/ rp.state = "AUTH_REQUEST_SENT" /\ \A r \in creds : r.cred # ud[c].cred]_vars

-----------------------------------------------------------------------------
(* Liveness.                                                               *)

InHandshake(c) == conn[c].phase \notin {"idle", "open", "failed"}

(* Every handshake comes to an end: no callback leaves both sides waiting. *)
HandshakesEnd == \A c \in Clients : InHandshake(c) ~> ~InHandshake(c)

(* A client that is about to start a ceremony the server can complete: it  *)
(* has a valid ticket, or names an enrolled user, or has nothing but       *)
(* enrolled credentials on its authenticators.                             *)
Prepared(c) ==
    /\ conn[c].phase = "idle"
    /\ ServerIds = {ud[c].host}
    /\ \/ ud[c].state = "REG_INITIAL" /\ ud[c].ticket = ServerTicket
       \/ /\ ud[c].state = "AUTH_INITIAL_SERVER_SIDE"
          /\ \E id \in UserIds(ud[c].name) :
               Cardinality(Descriptors(id, ud[c].host)) \in 1 .. MaxAllow
       \/ /\ ud[c].state = "AUTH_INITIAL_DISCOVERABLE"
          /\ \A d \in Attached[c] : \A k \in dev[d] :
               \E r \in creds : r.cred = k.cred /\ r.user = k.user

(* The user or the authenticator did not complete the CTAP operation.      *)
NotTouched(c) == ud[c].state \in {"REG_REQUEST_RECEIVED", "AUTH_REQUEST_RECEIVED"}

(* No other client is in a handshake or has anything to start one with.    *)
Alone(c) ==
    \A d \in Clients \ {c} :
      /\ ~InHandshake(d)
      /\ ud[d].state \notin {"NO_EXTENSION", "REG_INITIAL", "AUTH_INITIAL_SERVER_SIDE",
                             "AUTH_INITIAL_DISCOVERABLE", "PRE_RESPONSE_RECEIVED"}

(* A lone prepared client with a connection that holds and a new server    *)
(* complete the ceremony, through one or two handshakes, unless the user   *)
(* does not touch the device, stops the program, starts another client or  *)
(* restarts the server.  What other clients have left behind, on the       *)
(* authenticators and in the tables, is no obstacle.                       *)
PreparedCeremonySucceeds ==
    \A c \in Clients \ Lossy, n \in 1 .. MaxLaunches, e \in 1 .. MaxEpisodes :
      (launches = n /\ episode = e /\ rp.state = "NO_DATA" /\ Prepared(c) /\ Alone(c))
        ~> \/ launches > n \/ episode > e \/ NotTouched(c)
           \/ conn[c].phase = "open" /\ ud[c].state = "REG_RESPONSE_SENT" /\ RegisteredAs(c)
           \/ conn[c].phase = "open" /\ ud[c].state = "AUTH_RESPONSE_SENT" /\ LoggedIn(c)

-----------------------------------------------------------------------------
(* What comments of the code promise, and the code does not keep.          *)

(* fidossl.c:235: a client that does not support the extension is not an   *)
(* error.  The handshake of such a client is then never refused.           *)
PlainClientsServed ==
    \A c \in Clients : ud[c].state = "NO_EXTENSION" => conn[c].phase # "failed"

(* ud.c:250: the RP may override the RP id by any registrable domain       *)
(* suffix of the origin's effective domain.  A registration with such an   *)
(* RP id is then not refused by the server that has chosen it.             *)
ValidRpIdsAccepted ==
    [][\A c \in Clients :
         conn[c].phase = "cert" /\ ud[c].state = "REG_RESPONSE_SENT"
           /\ rp.rpId \in ValidFor[ud[c].host] => rp'.state # "REG_FAILURE"]_vars

=============================================================================
