----------------------------- MODULE UserDevice -----------------------------
(***************************************************************************)
(* The client side of the extension: ud.c behind the two client callbacks  *)
(* of fidossl.c, and the authenticators it drives through CTAP.            *)
(*                                                                         *)
(* ud[c] is the ud_data of the SSL_CTX of client program c; a program is   *)
(* launched by its user for one ceremony and may connect several times.    *)
(* Actions that read a packet take it as the parameter m.                  *)
(***************************************************************************)
EXTENDS TlsSession

CONSTANTS
    Devices,        \* the authenticators
    Attached,       \* Attached[c]: those plugged in at client c
    ValidFor,       \* ValidFor[h]: RP ids equal to or a registrable suffix of h
    LaunchOptions,  \* the option records a client may be launched with
    Orphans,        \* TRUE: an attestation object may exceed BUF_SIZE
    MaxLaunches     \* bound: client programs launched in a behaviour

LaunchRecords ==
    [mode : {"REGISTER", "AUTHENTICATE_SERVER_SIDE", "AUTHENTICATE_DISCOVERABLE", "PLAIN"},
     name : Names \cup {Null}, ticket : Tickets \cup {Null}, host : Hosts]

(* init_ud refuses to register without a display name and a ticket, and    *)
(* copies the name of a server-side login.                                 *)
ASSUME UserDeviceAssumption ==
    /\ Attached \in [Clients -> SUBSET Devices]
    /\ ValidFor \in [Hosts -> SUBSET Hosts]
    /\ Hosts # {} /\ \A h \in Hosts : h \in ValidFor[h]
    /\ LaunchOptions \subseteq LaunchRecords
    /\ \A o \in LaunchOptions :
         /\ o.mode = "REGISTER" => o.name # Null /\ o.ticket # Null
         /\ o.mode = "AUTHENTICATE_SERVER_SIDE" => o.name # Null
    /\ Orphans \in BOOLEAN
    /\ MaxLaunches \in Nat

VARIABLES
    ud,        \* struct ud_data of each client; uses counts CTAP successes
    dev,       \* dev[d]: the credentials on authenticator d
    launches   \* client programs launched so far

udVars == <<ud, dev, launches>>
clientVars == <<conn, fresh, udVars>>

DeviceCreds == [cred : Nat, user : Nat, rp : Hosts, rk : BOOLEAN, count : Nat]

-----------------------------------------------------------------------------
(* init_ud: the state by mode.  PLAIN: a TLS client without the extension. *)
InitialState(mode) ==
    CASE mode = "REGISTER" -> "REG_INITIAL"
      [] mode = "AUTHENTICATE_SERVER_SIDE" -> "AUTH_INITIAL_SERVER_SIDE"
      [] mode = "AUTHENTICATE_DISCOVERABLE" -> "AUTH_INITIAL_DISCOVERABLE"
      [] mode = "PLAIN" -> "NO_EXTENSION"

InitialCeremony(mode) ==
    CASE mode = "REGISTER" -> "REGISTRATION"
      [] mode = "AUTHENTICATE_SERVER_SIDE" -> "AUTH_SERVER_SIDE"
      [] mode = "AUTHENTICATE_DISCOVERABLE" -> "AUTH_DISCOVERABLE"
      [] mode = "PLAIN" -> "UNDEFINED"

Program(state, ceremony, name, ticket, host) ==
    [state |-> state, ceremony |-> ceremony, name |-> name, ticket |-> ticket, host |-> host,
     eph |-> 0, key |-> NoKey, chal |-> 0, rpId |-> Null, user |-> 0,
     exclude |-> {}, allow |-> {}, cred |-> 0, uses |-> 0]

(* The user starts the client program, instead of the one that ran before. *)
Launch(c, o) ==
    /\ launches < MaxLaunches
    /\ CanConnect(c)
    /\ ud' = [ud EXCEPT ![c] = Program(InitialState(o.mode), InitialCeremony(o.mode),
                                       o.name, o.ticket, o.host)]
    /\ conn' = [conn EXCEPT ![c] = [phase |-> "idle", msg |-> NoExt]]
    /\ launches' = launches + 1
    /\ UNCHANGED <<fresh, dev>>

-----------------------------------------------------------------------------
(* fidossl_client_add_cb, CLIENT_HELLO.                                    *)

SendHello(c, msg, state) ==
    /\ CanConnect(c)
    /\ Send(c, "hello", msg)
    /\ ud' = [ud EXCEPT ![c].state = state]
    /\ UNCHANGED <<fresh, dev, launches>>

SendPlainHello(c) ==
    /\ ud[c].state = "NO_EXTENSION"
    /\ SendHello(c, NoExt, "NO_EXTENSION")

SendPreIndication(c) ==
    /\ ud[c].state \in {"REG_INITIAL", "AUTH_INITIAL_SERVER_SIDE"}
    /\ SendHello(c, PreIndication, "PRE_INDICATION_SENT")

SendRegIndication(c) ==
    /\ ud[c].state = "PRE_RESPONSE_RECEIVED"
    /\ ud[c].ceremony = "REGISTRATION"
    /\ SendHello(c, RegIndication(ud[c].eph, ud[c].key, ud[c].name, ud[c].ticket),
                 "REG_INDICATION_SENT")

SendAuthIndicationServerSide(c) ==
    /\ ud[c].state = "PRE_RESPONSE_RECEIVED"
    /\ ud[c].ceremony = "AUTH_SERVER_SIDE"
    /\ SendHello(c, AuthIndicationServerSide(ud[c].eph, ud[c].key, ud[c].name),
                 "AUTH_INDICATION_SERVER_SIDE_SENT")

SendAuthIndicationDiscoverable(c) ==
    /\ ud[c].state = "AUTH_INITIAL_DISCOVERABLE"
    /\ SendHello(c, AuthIndicationDiscoverable, "AUTH_INDICATION_DISCOVERABLE_SENT")

(* default: Invalid state.  Nothing is sent.                               *)
RefuseHello(c) ==
    /\ CanConnect(c)
    /\ ud[c].state \notin {"OFF", "NO_EXTENSION", "REG_INITIAL", "AUTH_INITIAL_SERVER_SIDE",
                           "AUTH_INITIAL_DISCOVERABLE", "PRE_RESPONSE_RECEIVED"}
    /\ Alert(c)
    /\ UNCHANGED <<fresh, udVars>>

ClientHello(c) ==
    \/ SendPlainHello(c)
    \/ SendPreIndication(c)
    \/ SendRegIndication(c)
    \/ SendAuthIndicationServerSide(c)
    \/ SendAuthIndicationDiscoverable(c)

-----------------------------------------------------------------------------
(* fidossl_client_parse_cb, CERTIFICATE_REQUEST.                           *)

(* No extension on this side or on the other: no callback runs, and the    *)
(* Certificate carries no extension.                                       *)
IgnoreRequest(c, m) ==
    /\ ud[c].state = "NO_EXTENSION" \/ m.type = "NO_EXT"
    /\ Send(c, "cert", NoExt)
    /\ UNCHANGED <<fresh, udVars>>

(* Mutant of ProcessPreResponse: the key is not stored.                    *)
ProcessPreResponseNoKey(c, m) ==
    /\ m.type = "PRE_RESPONSE"
    /\ ud[c].state = "PRE_INDICATION_SENT"
    /\ ud' = [ud EXCEPT ![c].state = "PRE_RESPONSE_RECEIVED", ![c].eph = m.eph]
    /\ Send(c, "asked", NoExt)
    /\ UNCHANGED <<fresh, dev, launches>>

ProcessPreResponse(c, m) ==
    /\ m.type = "PRE_RESPONSE"
    /\ ud[c].state = "PRE_INDICATION_SENT"
    /\ ud' = [ud EXCEPT ![c].state = "PRE_RESPONSE_RECEIVED",
                        ![c].eph = m.eph, ![c].key = m.key]
    /\ Send(c, "asked", NoExt)
    /\ UNCHANGED <<fresh, dev, launches>>

RegRequestOpens(c, m) == m.key = ud[c].key /\ m.name = ud[c].name

(* Mutant of ProcessRegRequest: the exclude list is not stored.            *)
ProcessRegRequestNoExclude(c, m) ==
    /\ m.type = "REG_REQUEST"
    /\ ud[c].state = "REG_INDICATION_SENT"
    /\ RegRequestOpens(c, m)
    /\ ud' = [ud EXCEPT ![c].state = "REG_REQUEST_RECEIVED", ![c].chal = m.chal,
                        ![c].rpId = m.rpId, ![c].user = m.user]
    /\ Send(c, "asked", NoExt)
    /\ UNCHANGED <<fresh, dev, launches>>

ProcessRegRequest(c, m) ==
    /\ m.type = "REG_REQUEST"
    /\ ud[c].state = "REG_INDICATION_SENT"
    /\ RegRequestOpens(c, m)
    /\ ud' = [ud EXCEPT ![c].state = "REG_REQUEST_RECEIVED", ![c].chal = m.chal,
                        ![c].rpId = m.rpId, ![c].user = m.user, ![c].exclude = m.exclude]
    /\ Send(c, "asked", NoExt)
    /\ UNCHANGED <<fresh, dev, launches>>

(* A list sealed with the client's key with server-side credentials, no    *)
(* list at all with discoverable ones.                                     *)
AllowListOpens(c, m) ==
    IF ud[c].ceremony = "AUTH_SERVER_SIDE" THEN m.key = ud[c].key /\ m.key # NoKey
    ELSE m.key = NoKey

AwaitsAuthRequest(c) ==
    ud[c].state \in {"AUTH_INDICATION_SERVER_SIDE_SENT", "AUTH_INDICATION_DISCOVERABLE_SENT"}

(* The RP id is optional in this packet.                                   *)
RpIdAfter(c, m) == IF m.rpId = Null THEN ud[c].rpId ELSE m.rpId

ProcessAuthRequest(c, m) ==
    /\ m.type = "AUTH_REQUEST"
    /\ AwaitsAuthRequest(c)
    /\ AllowListOpens(c, m)
    /\ ud' = [ud EXCEPT ![c].state = "AUTH_REQUEST_RECEIVED", ![c].chal = m.chal,
                        ![c].rpId = RpIdAfter(c, m), ![c].allow = m.allow]
    /\ Send(c, "asked", NoExt)
    /\ UNCHANGED <<fresh, dev, launches>>

(* Challenge and RP id are stored before the allow list is decrypted.      *)
RejectAuthRequest(c, m) ==
    /\ m.type = "AUTH_REQUEST"
    /\ AwaitsAuthRequest(c)
    /\ ~AllowListOpens(c, m)
    /\ ud' = [ud EXCEPT ![c].chal = m.chal, ![c].rpId = RpIdAfter(c, m)]
    /\ Alert(c)
    /\ UNCHANGED <<fresh, dev, launches>>

(* The packet type the state calls for; any other does not parse.          *)
Awaited(state) ==
    CASE state = "PRE_INDICATION_SENT" -> {"PRE_RESPONSE"}
      [] state = "REG_INDICATION_SENT" -> {"REG_REQUEST"}
      [] state \in {"AUTH_INDICATION_SERVER_SIDE_SENT", "AUTH_INDICATION_DISCOVERABLE_SENT"} ->
           {"AUTH_REQUEST"}
      [] OTHER -> {}

RefuseRequest(c, m) ==
    /\ ud[c].state # "NO_EXTENSION" /\ m.type # "NO_EXT"
    /\ \/ m.type \notin Awaited(ud[c].state)
       \/ m.type = "REG_REQUEST" /\ ~RegRequestOpens(c, m)
    /\ Alert(c)
    /\ UNCHANGED <<fresh, udVars>>

ParseCertificateRequest(c, m) ==
    \/ IgnoreRequest(c, m)
    \/ ProcessPreResponse(c, m)
    \/ ProcessRegRequest(c, m)
    \/ ProcessAuthRequest(c, m)
    \/ RejectAuthRequest(c, m)
    \/ RefuseRequest(c, m)

-----------------------------------------------------------------------------
(* The authenticators, as run_ctap uses them (libfido2 and the device).    *)

(* authenticatorMakeCredential: refused if an excluded credential is on    *)
(* the device; a discoverable credential replaces the one of the same      *)
(* account.                                                                *)
MakeCredential(d, cred, user, rpId, rk, exclude) ==
    /\ \A k \in dev[d] : k.cred \notin exclude
    /\ dev' = [dev EXCEPT ![d] =
                 {k \in dev[d] : ~(rk /\ k.rk /\ k.rp = rpId /\ k.user = user)}
                   \cup {[cred |-> cred, user |-> user, rp |-> rpId, rk |-> rk, count |-> 0]}]

(* authenticatorGetAssertion signs with one credential and counts it.      *)
CountUp(d, k) ==
    dev' = [dev EXCEPT ![d] = (dev[d] \ {k}) \cup {[k EXCEPT !.count = k.count + 1]}]

(* With an allow list, one of its credentials; without, a discoverable one.*)
Assertable(d, c, rpId) ==
    {k \in dev[d] : k.rp = rpId /\
        IF ud[c].ceremony = "AUTH_SERVER_SIDE" THEN k.cred \in ud[c].allow ELSE k.rk}

(* The device may leave the user handle out if there was an allow list.    *)
Handles(c, k) ==
    CASE ~k.rk -> {0}
      [] k.rk /\ ud[c].ceremony = "AUTH_SERVER_SIDE" -> {0, k.user}
      [] OTHER -> {k.user}

(* create_fido_cred_t asks for a discoverable credential if it is required *)
(* or preferred.                                                           *)
Discoverable == ResidentKey \in {"REQUIRED", "PREFERRED"}

(* The user verification flag: set if asked for, else up to the device.    *)
(* create_fido_cred_t leaves the choice open for PREFERRED and             *)
(* create_fido_assert_t does not.                                          *)
CredUv == IF UserVerification = "REQUIRED" THEN {TRUE} ELSE BOOLEAN
AssertUv == IF UserVerification \in {"REQUIRED", "PREFERRED"} THEN {TRUE} ELSE BOOLEAN

-----------------------------------------------------------------------------
(* fidossl_client_add_cb, CERTIFICATE.                                     *)

(* The RP id defaults to the effective domain, which is the SNI host.      *)
RpIdUsed(c) == IF ud[c].rpId = Null THEN ud[c].host ELSE ud[c].rpId

(* Mutant of RpIdValid: the RP id of the server is taken as it is.         *)
RpIdValidAlways(c) == TRUE

(* validate_rp_id *)
RpIdValid(c) == RpIdUsed(c) \in ValidFor[ud[c].host]

SendNoResponse(c) ==
    /\ conn[c].phase = "asked"
    /\ ud[c].state = "PRE_RESPONSE_RECEIVED"
    /\ Send(c, "cert", NoExt)
    /\ UNCHANGED <<fresh, udVars>>

(* Mutant of CreateRegResponse: the program is made ready to register again.*)
CreateRegResponseAgain(c) ==
    /\ conn[c].phase = "asked"
    /\ ud[c].state = "REG_REQUEST_RECEIVED"
    /\ RpIdValid(c)
    /\ \E d \in Attached[c] :
         MakeCredential(d, fresh, ud[c].user, RpIdUsed(c), Discoverable, ud[c].exclude)
    /\ Send(c, "cert", RegResponse(fresh, ud[c].chal, ud[c].host, RpIdUsed(c), TRUE, 0, TRUE))
    /\ ud' = [ud EXCEPT ![c].state = "REG_INITIAL", ![c].uses = ud[c].uses + 1]
    /\ fresh' = fresh + 1
    /\ UNCHANGED launches

CreateRegResponse(c) ==
    /\ conn[c].phase = "asked"
    /\ ud[c].state = "REG_REQUEST_RECEIVED"
    /\ RpIdValid(c)
    /\ \E d \in Attached[c] :
         MakeCredential(d, fresh, ud[c].user, RpIdUsed(c), Discoverable, ud[c].exclude)
    /\ \E uv \in CredUv :
         Send(c, "cert", RegResponse(fresh, ud[c].chal, ud[c].host, RpIdUsed(c), uv, 0, TRUE))
    /\ ud' = [ud EXCEPT ![c].state = "REG_RESPONSE_SENT", ![c].rpId = RpIdUsed(c),
                        ![c].cred = fresh, ![c].uses = ud[c].uses + 1]
    /\ fresh' = fresh + 1
    /\ UNCHANGED launches

(* The credential is made, but the packet cannot be built: the attestation *)
(* object is too large.                                                    *)
FailRegResponse(c) ==
    /\ conn[c].phase = "asked"
    /\ ud[c].state = "REG_REQUEST_RECEIVED"
    /\ RpIdValid(c)
    /\ Orphans
    /\ \E d \in Attached[c] :
         MakeCredential(d, fresh, ud[c].user, RpIdUsed(c), Discoverable, ud[c].exclude)
    /\ Alert(c)
    /\ ud' = [ud EXCEPT ![c].rpId = RpIdUsed(c), ![c].cred = fresh, ![c].uses = ud[c].uses + 1]
    /\ fresh' = fresh + 1
    /\ UNCHANGED launches

CreateAuthResponse(c) ==
    /\ conn[c].phase = "asked"
    /\ ud[c].state = "AUTH_REQUEST_RECEIVED"
    /\ RpIdValid(c)
    /\ \E d \in Attached[c] : \E k \in Assertable(d, c, RpIdUsed(c)) :
         /\ CountUp(d, k)
         /\ \E uv \in AssertUv, handle \in Handles(c, k) :
              /\ Send(c, "cert", AuthResponse(k.cred, ud[c].chal, ud[c].host, RpIdUsed(c),
                                               uv, k.count + 1, handle, TRUE))
              /\ ud' = [ud EXCEPT ![c].state = "AUTH_RESPONSE_SENT", ![c].rpId = RpIdUsed(c),
                                  ![c].user = handle, ![c].cred = k.cred,
                                  ![c].uses = ud[c].uses + 1]
    /\ UNCHANGED <<fresh, launches>>

(* The device has counted the assertion, but run_ctap does not take it: the*)
(* user handle has a wrong length, or some part of it is missing.          *)
FailAuthResponse(c) ==
    /\ conn[c].phase = "asked"
    /\ ud[c].state = "AUTH_REQUEST_RECEIVED"
    /\ RpIdValid(c)
    /\ \E d \in Attached[c] : \E k \in Assertable(d, c, RpIdUsed(c)) :
         /\ CountUp(d, k)
         /\ \E handle \in Handles(c, k) \cup {ud[c].user} :
              ud' = [ud EXCEPT ![c].rpId = RpIdUsed(c), ![c].user = handle, ![c].cred = k.cred,
                               ![c].uses = ud[c].uses + 1]
    /\ Alert(c)
    /\ UNCHANGED <<fresh, launches>>

(* The RP id does not validate, or CTAP fails: no touch in time, wrong PIN,*)
(* no credential, an excluded credential.                                  *)
FailResponse(c) ==
    /\ conn[c].phase = "asked"
    /\ ud[c].state \in {"REG_REQUEST_RECEIVED", "AUTH_REQUEST_RECEIVED"}
    /\ Alert(c)
    /\ ud' = [ud EXCEPT ![c].rpId = RpIdUsed(c)]
    /\ UNCHANGED <<fresh, dev, launches>>

AddCertificate(c) ==
    \/ SendNoResponse(c)
    \/ CreateRegResponse(c)
    \/ FailRegResponse(c)
    \/ CreateAuthResponse(c)
    \/ FailAuthResponse(c)
    \/ FailResponse(c)

UdInit ==
    /\ ud = [c \in Clients |-> Program("OFF", "UNDEFINED", Null, Null, CHOOSE h \in Hosts : TRUE)]
    /\ dev = [d \in Devices |-> {}]
    /\ launches = 0

-----------------------------------------------------------------------------
(* Properties of the client.                                               *)

(* The shape of ud_data and of the authenticators.                         *)
UdTypeOK ==
    /\ ud \in [Clients ->
          [state : ClientStates, ceremony : Ceremonies, name : Names \cup {Null},
           ticket : Tickets \cup {Null}, host : Hosts, eph : Nat, key : GcmKeys, chal : Nat,
           rpId : Hosts \cup {Null}, user : Nat, exclude : SUBSET Nat, allow : SUBSET Nat,
           cred : Nat, uses : Nat]]
    /\ dev \in [Devices -> SUBSET DeviceCreds]
    /\ launches \in 0 .. MaxLaunches

(* The user touches the authenticator for one operation per program run,   *)
(* however often the program connects and whatever the servers answer.     *)
OneOperationPerLaunch == \A c \in Clients : ud[c].uses =< 1

(* An authenticator is only ever used for an RP id that is valid for the   *)
(* host the user asked to connect to (create_reg_response,                 *)
(* create_auth_response, validate_rp_id).                                  *)
ScopedToHost ==
    [][\A d \in Devices : \A k \in dev'[d] \ dev[d] :
          \E c \in Clients : d \in Attached[c] /\ k.rp \in ValidFor[ud[c].host]
                              /\ ud'[c].uses = ud[c].uses + 1]_clientVars

=============================================================================
