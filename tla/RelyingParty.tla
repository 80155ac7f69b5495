---------------------------- MODULE RelyingParty ----------------------------
(***************************************************************************)
(* The server side of the extension: rp.c behind the two server callbacks  *)
(* of fidossl.c, and the rows it keeps through persistence.c.              *)
(*                                                                         *)
(* All connections of an SSL_CTX share ONE rp_data (get_rp_data), so rp is *)
(* one record and not a function of the connection.  Each action is one    *)
(* run of a callback on connection c; those that read a packet take it as  *)
(* the parameter m.  RpSpec lets every well-formed packet arrive at any    *)
(* time; FidoSystem.tla connects the same actions to the real client.      *)
(***************************************************************************)
EXTENDS TlsSession

CONSTANTS
    ServerTicket,      \* FIDOSSL_SERVER_OPTS.ticket_b64, decoded
    ServerIds,         \* the rp_id values the server may be started with
    Attestation,       \* "DIRECT", or what makes every registration fail
    MaxExclude,        \* credential ids that fit into ENC_DATA_BUF_SIZE
    MaxAllow,          \* credential ids that fit into the allow list buffer
    MaxEpisodes,       \* bound: server processes in a behaviour
    ReadFaults,        \* TRUE: a SELECT may end with an error, a locked file say
    WriteFaults        \* TRUE: so may an INSERT or an UPDATE

ASSUME RelyingPartyAssumption ==
    /\ ServerTicket \in Tickets
    /\ ServerIds \subseteq Hosts
    /\ MaxExclude \in Nat
    /\ MaxAllow \in Nat
    /\ MaxEpisodes \in Nat \ {0}
    /\ {ReadFaults, WriteFaults} \subseteq BOOLEAN

VARIABLES
    rp,        \* struct rp_data, plus db: is the sqlite3 handle open?
    episode,   \* which server process runs: names its episode key k_ep
    users,     \* table users
    creds,     \* table credentials
    accepted   \* history: what the server has accepted, with its challenge

rpVars == <<rp, episode, users, creds, accepted>>
serverVars == <<conn, fresh, rpVars>>

UserRows == [id : Nat, name : Names]
CredRows == [cred : Nat, user : Nat, rp : Hosts, count : Nat]

RpData ==
    [state : ServerStates, ceremony : Ceremonies, rpId : Hosts \cup {Null}, kep : Nat,
     key : GcmKeys, user : Nat, name : Names \cup {Null}, chal : Nat, allow : SUBSET Nat,
     db : {"open", "closed"}]

Blank(state) ==
    [state |-> state, ceremony |-> "UNDEFINED", rpId |-> Null, kep |-> 0, key |-> NoKey,
     user |-> 0, name |-> Null, chal |-> 0, allow |-> {}, db |-> "open"]

(* Mutant of InitRp: the episode key survives a restart.                   *)
InitRpOldKey(h) == [Blank("INITIAL") EXCEPT !.rpId = h, !.kep = 1]

(* init_rp: a new episode key, the configured RP id, the database opened.  *)
InitRp(h) == [Blank("INITIAL") EXCEPT !.rpId = h, !.kep = episode]

(* get_rp_data: built when the first FIDO ClientHello reaches the process. *)
GetRpData == IF rp.state = "NO_DATA" THEN {InitRp(h) : h \in ServerIds} ELSE {rp}

-----------------------------------------------------------------------------
(* persistence.c, queries.  No caller can tell an error from the end of    *)
(* the rows: get_user_id and get_credential report both as -1, and         *)
(* get_credential_descriptors takes an error for the end of its list.      *)

(* get_user_id *)
UserIds(name) == {u.id : u \in {v \in users : v.name = name}}

(* Mutant of Descriptors: the query returns no row.                        *)
DescriptorsNone(user, rpId) == {}

(* get_credential_descriptors *)
Descriptors(user, rpId) ==
    {r.cred : r \in {s \in creds : s.user = user /\ s.rp = rpId}}

(* What get_credential_descriptors may return as the list.                 *)
Lists(user, rpId) ==
    IF ReadFaults THEN SUBSET Descriptors(user, rpId) ELSE {Descriptors(user, rpId)}

(* Mutant of CredentialRows: the query forgets user_id.                    *)
CredentialRowsOfAnyone(user, cred) == {r \in creds : r.cred = cred}

(* get_credential *)
CredentialRows(user, cred) == {r \in creds : r.user = user /\ r.cred = cred}

-----------------------------------------------------------------------------
(* fidossl_server_parse_cb, CLIENT_HELLO: process_indication.              *)

(* A ClientHello without the extension: the callback is not called.        *)
ParseNoIndication(c, m) ==
    /\ m.type = "NO_EXT"
    /\ Send(c, "parsed", NoExt)
    /\ UNCHANGED <<fresh, rpVars>>

ProcessPreIndication(c, m) ==
    /\ m.type = "PRE_INDICATION"
    /\ \E d \in GetRpData :
         /\ d.state = "INITIAL"
         /\ rp' = [d EXCEPT !.state = "PRE_INDICATION_RECEIVED"]
    /\ Send(c, "parsed", NoExt)
    /\ UNCHANGED <<fresh, episode, users, creds, accepted>>

(* aes_gcm_decrypt succeeds: sealed with the key derived from the          *)
(* ephemeral user id in the packet.                                        *)
Opens(m) == m.key = GcmKey(rp.kep, m.eph)

(* Mutant of ProcessRegIndication: any ticket will do.                     *)
ProcessRegIndicationAnyTicket(c, m) ==
    /\ m.type = "REG_INDICATION" /\ rp.state = "PRE_RESPONSE_SENT" /\ Opens(m)
    /\ rp' = [rp EXCEPT !.state = "REG_INDICATION_RECEIVED", !.ceremony = "REGISTRATION",
                        !.key = GcmKey(rp.kep, m.eph), !.name = m.name]
    /\ Send(c, "parsed", NoExt)
    /\ UNCHANGED <<fresh, episode, users, creds, accepted>>

(* Mutant of ProcessRegIndication: the user name is not stored.            *)
ProcessRegIndicationNoName(c, m) ==
    /\ m.type = "REG_INDICATION" /\ rp.state = "PRE_RESPONSE_SENT"
    /\ Opens(m) /\ m.ticket = ServerTicket
    /\ rp' = [rp EXCEPT !.state = "REG_INDICATION_RECEIVED", !.ceremony = "REGISTRATION",
                        !.key = GcmKey(rp.kep, m.eph)]
    /\ Send(c, "parsed", NoExt)
    /\ UNCHANGED <<fresh, episode, users, creds, accepted>>

ProcessRegIndication(c, m) ==
    /\ m.type = "REG_INDICATION"
    /\ rp.state = "PRE_RESPONSE_SENT"
    /\ Opens(m)
    /\ m.ticket = ServerTicket
    /\ rp' = [rp EXCEPT !.state = "REG_INDICATION_RECEIVED", !.ceremony = "REGISTRATION",
                        !.key = GcmKey(rp.kep, m.eph), !.name = m.name]
    /\ Send(c, "parsed", NoExt)
    /\ UNCHANGED <<fresh, episode, users, creds, accepted>>

(* The derived key is stored before decryption and the ticket are checked. *)
RejectRegIndication(c, m) ==
    /\ m.type = "REG_INDICATION"
    /\ rp.state = "PRE_RESPONSE_SENT"
    /\ ~Opens(m) \/ m.ticket # ServerTicket
    /\ rp' = [rp EXCEPT !.key = GcmKey(rp.kep, m.eph)]
    /\ Alert(c)
    /\ UNCHANGED <<fresh, episode, users, creds, accepted>>

(* Mutant of ProcessAuthIndicationDiscoverable: a further ceremony starts   *)
(* after a success, or while a request is outstanding.                     *)
ProcessAuthIndicationDiscoverableAnyState(c, m) ==
    /\ m.type = "AUTH_INDICATION_DISCOVERABLE"
    /\ \E d \in GetRpData :
         rp' = [d EXCEPT !.state = "AUTH_INDICATION_DISCOVERABLE_RECEIVED",
                         !.ceremony = "AUTH_DISCOVERABLE"]
    /\ Send(c, "parsed", NoExt)
    /\ UNCHANGED <<fresh, episode, users, creds, accepted>>

ProcessAuthIndicationDiscoverable(c, m) ==
    /\ m.type = "AUTH_INDICATION_DISCOVERABLE"
    /\ \E d \in GetRpData :
         /\ d.state = "INITIAL"
         /\ rp' = [d EXCEPT !.state = "AUTH_INDICATION_DISCOVERABLE_RECEIVED",
                            !.ceremony = "AUTH_DISCOVERABLE"]
    /\ Send(c, "parsed", NoExt)
    /\ UNCHANGED <<fresh, episode, users, creds, accepted>>

ProcessAuthIndicationServerSide(c, m) ==
    /\ m.type = "AUTH_INDICATION_SERVER_SIDE"
    /\ rp.state = "PRE_RESPONSE_SENT"
    /\ Opens(m)
    /\ \E id \in UserIds(m.name) :
         rp' = [rp EXCEPT !.state = "AUTH_INDICATION_SERVER_SIDE_RECEIVED",
                          !.ceremony = "AUTH_SERVER_SIDE",
                          !.key = GcmKey(rp.kep, m.eph), !.user = id]
    /\ Send(c, "parsed", NoExt)
    /\ UNCHANGED <<fresh, episode, users, creds, accepted>>

RejectAuthIndicationServerSide(c, m) ==
    /\ m.type = "AUTH_INDICATION_SERVER_SIDE"
    /\ rp.state = "PRE_RESPONSE_SENT"
    /\ ~Opens(m) \/ UserIds(m.name) = {} \/ ReadFaults
    /\ rp' = [rp EXCEPT !.key = GcmKey(rp.kep, m.eph)]
    /\ Alert(c)
    /\ UNCHANGED <<fresh, episode, users, creds, accepted>>

(* The packet types process_indication handles in a given state.           *)
Expected(state) ==
    CASE state = "INITIAL" -> {"PRE_INDICATION", "AUTH_INDICATION_DISCOVERABLE"}
      [] state = "PRE_RESPONSE_SENT" -> {"REG_INDICATION", "AUTH_INDICATION_SERVER_SIDE"}
      [] OTHER -> {}

(* Any other packet, and any packet in another state: -1.                  *)
RefuseIndication(c, m) ==
    /\ m.type # "NO_EXT"
    /\ \E d \in GetRpData :
         /\ m.type \notin Expected(d.state)
         /\ rp' = d
    /\ Alert(c)
    /\ UNCHANGED <<fresh, episode, users, creds, accepted>>

ParseClientHello(c, m) ==
    \/ ParseNoIndication(c, m)
    \/ ProcessPreIndication(c, m)
    \/ ProcessRegIndication(c, m)
    \/ RejectRegIndication(c, m)
    \/ ProcessAuthIndicationDiscoverable(c, m)
    \/ ProcessAuthIndicationServerSide(c, m)
    \/ RejectAuthIndicationServerSide(c, m)
    \/ RefuseIndication(c, m)

-----------------------------------------------------------------------------
(* fidossl_server_add_cb, CERTIFICATE_REQUEST.  It is called on every      *)
(* connection, and looks at the shared state only.                         *)

(* get_rp_data returned NULL: no extension.                                *)
SendNothing(c) ==
    /\ conn[c].phase = "parsed"
    /\ rp.state = "NO_DATA"
    /\ Send(c, "request", NoExt)
    /\ UNCHANGED <<fresh, rpVars>>

(* Mutant of CreatePreResponse: the key belongs to another user id.        *)
CreatePreResponseOtherKey(c) ==
    /\ conn[c].phase = "parsed"
    /\ rp.state = "PRE_INDICATION_RECEIVED"
    /\ Send(c, "request", PreResponse(fresh, GcmKey(rp.kep, fresh + 1)))
    /\ rp' = [rp EXCEPT !.state = "PRE_RESPONSE_SENT"]
    /\ fresh' = fresh + 1
    /\ UNCHANGED <<episode, users, creds, accepted>>

(* The ephemeral user id and the derived key are sent, and not kept.       *)
CreatePreResponse(c) ==
    /\ conn[c].phase = "parsed"
    /\ rp.state = "PRE_INDICATION_RECEIVED"
    /\ Send(c, "request", PreResponse(fresh, GcmKey(rp.kep, fresh)))
    /\ rp' = [rp EXCEPT !.state = "PRE_RESPONSE_SENT"]
    /\ fresh' = fresh + 1
    /\ UNCHANGED <<episode, users, creds, accepted>>

(* Mutant of UserIdFor: the table is not consulted.                        *)
UserIdForAlwaysNew(name) == {fresh + 1}

(* The user id of the name in the table, or 64 random bytes.               *)
UserIdFor(name) ==
    UserIds(name) \cup (IF UserIds(name) = {} \/ ReadFaults THEN {fresh + 1} ELSE {})

(* Mutant of CreateRegRequest: the state that the indication has set stays. *)
CreateRegRequestAgain(c) ==
    /\ conn[c].phase = "parsed"
    /\ rp.state = "REG_INDICATION_RECEIVED"
    /\ \E id \in UserIdFor(rp.name) : \E exclude \in Lists(id, rp.rpId) :
         /\ Cardinality(exclude) =< MaxExclude
         /\ Send(c, "request", RegRequest(fresh, rp.rpId, rp.key, rp.name, id, exclude))
         /\ rp' = [rp EXCEPT !.chal = fresh, !.user = id]
    /\ fresh' = fresh + 2
    /\ UNCHANGED <<episode, users, creds, accepted>>

CreateRegRequest(c) ==
    /\ conn[c].phase = "parsed"
    /\ rp.state = "REG_INDICATION_RECEIVED"
    /\ \E id \in UserIdFor(rp.name) : \E exclude \in Lists(id, rp.rpId) :
         /\ Cardinality(exclude) =< MaxExclude
         /\ Send(c, "request", RegRequest(fresh, rp.rpId, rp.key, rp.name, id, exclude))
         /\ rp' = [rp EXCEPT !.state = "REG_REQUEST_SENT", !.chal = fresh, !.user = id]
    /\ fresh' = fresh + 2
    /\ UNCHANGED <<episode, users, creds, accepted>>

(* The exclude list cannot be read or does not fit: challenge and user id  *)
(* stay written.                                                           *)
FailRegRequest(c) ==
    /\ conn[c].phase = "parsed"
    /\ rp.state = "REG_INDICATION_RECEIVED"
    /\ \E id \in UserIdFor(rp.name) :
         /\ Cardinality(Descriptors(id, rp.rpId)) > MaxExclude \/ ReadFaults
         /\ rp' = [rp EXCEPT !.chal = fresh, !.user = id]
    /\ Alert(c)
    /\ fresh' = fresh + 2
    /\ UNCHANGED <<episode, users, creds, accepted>>

CreateAuthRequestDiscoverable(c) ==
    /\ conn[c].phase = "parsed"
    /\ rp.state = "AUTH_INDICATION_DISCOVERABLE_RECEIVED"
    /\ Send(c, "request", AuthRequest(fresh, rp.rpId, NoKey, {}))
    /\ rp' = [rp EXCEPT !.state = "AUTH_REQUEST_SENT", !.chal = fresh]
    /\ fresh' = fresh + 1
    /\ UNCHANGED <<episode, users, creds, accepted>>

CreateAuthRequestServerSide(c) ==
    /\ conn[c].phase = "parsed"
    /\ rp.state = "AUTH_INDICATION_SERVER_SIDE_RECEIVED"
    /\ \E allow \in Lists(rp.user, rp.rpId) :
         /\ allow # {}
         /\ Cardinality(allow) =< MaxAllow
         /\ Send(c, "request", AuthRequest(fresh, rp.rpId, rp.key, allow))
         /\ rp' = [rp EXCEPT !.state = "AUTH_REQUEST_SENT", !.chal = fresh, !.allow = allow]
    /\ fresh' = fresh + 1
    /\ UNCHANGED <<episode, users, creds, accepted>>

(* The list is empty or cannot be read (nothing kept but the challenge) or *)
(* does not fit (kept all the same).                                       *)
FailAuthRequest(c) ==
    /\ conn[c].phase = "parsed"
    /\ rp.state = "AUTH_INDICATION_SERVER_SIDE_RECEIVED"
    /\ \/ /\ {} \in Lists(rp.user, rp.rpId)
          /\ rp' = [rp EXCEPT !.chal = fresh]
       \/ \E allow \in Lists(rp.user, rp.rpId) :
            /\ Cardinality(allow) > MaxAllow
            /\ rp' = [rp EXCEPT !.chal = fresh, !.allow = allow]
    /\ Alert(c)
    /\ fresh' = fresh + 1
    /\ UNCHANGED <<episode, users, creds, accepted>>

(* Mutant of RefuseCertificateRequest: a state without a case.             *)
RefuseCertificateRequestNoDefault(c) ==
    /\ conn[c].phase = "parsed"
    /\ rp.state \in {"INITIAL", "REG_REQUEST_SENT", "REG_SUCCESS", "REG_FAILURE",
                     "AUTH_REQUEST_SENT", "AUTH_SUCCESS", "AUTH_FAILURE"}
    /\ Alert(c)
    /\ UNCHANGED <<fresh, rpVars>>

(* default: Invalid state.                                                 *)
RefuseCertificateRequest(c) ==
    /\ conn[c].phase = "parsed"
    /\ rp.state \in {"INITIAL", "PRE_RESPONSE_SENT", "REG_REQUEST_SENT", "REG_SUCCESS",
                     "REG_FAILURE", "AUTH_REQUEST_SENT", "AUTH_SUCCESS", "AUTH_FAILURE"}
    /\ Alert(c)
    /\ UNCHANGED <<fresh, rpVars>>

AddCertificateRequest(c) ==
    \/ SendNothing(c)
    \/ CreatePreResponse(c)
    \/ CreateRegRequest(c)
    \/ FailRegRequest(c)
    \/ CreateAuthRequestDiscoverable(c)
    \/ CreateAuthRequestServerSide(c)
    \/ FailAuthRequest(c)
    \/ RefuseCertificateRequest(c)

-----------------------------------------------------------------------------
(* fidossl_server_parse_cb, CERTIFICATE: process_reg_response and          *)
(* process_auth_response.                                                  *)

(* verify_clientdata: the origin has to be "https://" and the RP id.       *)
VerifyClientdata(m) == m.chal = rp.chal /\ m.origin = rp.rpId

(* verify_authdata, and fido_cred_verify for a registration.               *)
VerifyFlags(m) == m.rpId = rp.rpId /\ (UserVerification = "REQUIRED" => m.uv)

RegResponseVerifies(m) ==
    VerifyClientdata(m) /\ Attestation = "DIRECT" /\ m.valid /\ VerifyFlags(m)

Acceptance(kind, m, user) ==
    [episode |-> episode, kind |-> kind, chal |-> rp.chal, cred |-> m.cred, user |-> user]

(* add_creds inserts the user unless the id is in the table; user_name is  *)
(* UNIQUE and cred_id is a PRIMARY KEY.                                    *)
WithUser ==
    IF \E u \in users : u.id = rp.user THEN users
    ELSE users \cup {[id |-> rp.user, name |-> rp.name]}

NameTaken == \E u \in users : u.name = rp.name /\ \A v \in users : v.id # rp.user

(* Any outcome of the SELECT but "no row" makes add_creds go on to the     *)
(* credential, an error too.                                               *)
AddsUser ==
    \/ users' = WithUser /\ ~NameTaken
    \/ users' = users /\ ReadFaults

(* Mutant of CredentialTaken: cred_id is not a key of the table.           *)
CredentialTakenNever(cred) == FALSE

CredentialTaken(cred) == \E r \in creds : r.cred = cred

ProcessRegResponse(c, m) ==
    /\ m.type = "REG_RESPONSE"
    /\ rp.state = "REG_REQUEST_SENT"
    /\ RegResponseVerifies(m)
    /\ ~CredentialTaken(m.cred)
    /\ AddsUser
    /\ creds' = creds \cup {[cred |-> m.cred, user |-> rp.user, rp |-> rp.rpId, count |-> m.count]}
    /\ rp' = [rp EXCEPT !.state = "REG_SUCCESS", !.chal = 0]
    /\ accepted' = accepted \cup {Acceptance("REG", m, rp.user)}
    /\ Send(c, "open", NoExt)
    /\ UNCHANGED <<fresh, episode>>

RejectRegResponse(c, m) ==
    /\ m.type # "NO_EXT"
    /\ rp.state = "REG_REQUEST_SENT"
    /\ m.type = "REG_RESPONSE" => ~RegResponseVerifies(m)
    /\ rp' = [rp EXCEPT !.state = "REG_FAILURE"]
    /\ Alert(c)
    /\ UNCHANGED <<fresh, episode, users, creds, accepted>>

(* The server process ends, by itself or by the abort below, and is        *)
(* started again: rp_data is gone, the database is not.                    *)
NextProcess ==
    /\ episode < MaxEpisodes
    /\ episode' = episode + 1
    /\ rp' = Blank("NO_DATA")
    /\ BreakAll

(* Mutant of FailAddCreds: the result of add_creds is ignored.             *)
FailAddCredsIgnored(c, m) ==
    /\ m.type = "REG_RESPONSE" /\ rp.state = "REG_REQUEST_SENT" /\ RegResponseVerifies(m)
    /\ WriteFaults
    /\ rp' = [rp EXCEPT !.state = "REG_SUCCESS", !.chal = 0]
    /\ Send(c, "open", NoExt)
    /\ UNCHANGED <<fresh, episode, users, creds, accepted>>

(* add_creds fails: the name or the credential id is taken, or SQLite      *)
(* reports an error before or after the user row is committed.  Then the   *)
(* database is closed but data->db is kept, and free_credential frees the  *)
(* literal "public-key": undefined, so the process survives or aborts.     *)
FailAddCreds(c, m) ==
    /\ m.type = "REG_RESPONSE"
    /\ rp.state = "REG_REQUEST_SENT"
    /\ RegResponseVerifies(m)
    /\ \/ AddsUser /\ (WriteFaults \/ CredentialTaken(m.cred))
       \/ users' = users /\ (WriteFaults \/ ReadFaults \/ NameTaken)
    /\ \/ /\ rp' = [rp EXCEPT !.state = "REG_FAILURE", !.db = "closed"]
          /\ Alert(c)
          /\ UNCHANGED episode
       \/ NextProcess
    /\ UNCHANGED <<fresh, creds, accepted>>

(* The user the asserted credential has to belong to: the one of the       *)
(* request, or the one the authenticator names.  A handle that             *)
(* contradicts the request, a missing one and a credential outside the     *)
(* allow list are refused before the database is asked.                    *)
Owners(m) ==
    IF rp.ceremony = "AUTH_SERVER_SIDE"
    THEN {u \in {rp.user} : m.handle \in {0, u} /\ m.cred \in rp.allow}
    ELSE {m.handle} \ {0}

Candidates(m) == UNION {CredentialRows(u, m.cred) : u \in Owners(m)}

(* Mutants of AuthResponseVerifies: without the counter, and off by one.   *)
AuthResponseVerifiesAnyCount(m, row) ==
    row.rp = rp.rpId /\ VerifyClientdata(m) /\ VerifyFlags(m) /\ m.valid

AuthResponseVerifiesOffByOne(m, row) ==
    AuthResponseVerifiesAnyCount(m, row) /\ m.count > row.count + 1

(* The signature counter has to exceed the stored one.                     *)
AuthResponseVerifies(m, row) ==
    row.rp = rp.rpId /\ VerifyClientdata(m) /\ VerifyFlags(m) /\ m.valid
      /\ m.count > row.count

(* Mutant of ProcessAuthResponse: the request stays outstanding.           *)
ProcessAuthResponseStillOpen(c, m) ==
    /\ m.type = "AUTH_RESPONSE" /\ rp.state = "AUTH_REQUEST_SENT"
    /\ \E u \in Owners(m) : \E row \in CredentialRows(u, m.cred) :
         /\ AuthResponseVerifies(m, row)
         /\ creds' = {IF r.cred = m.cred THEN [r EXCEPT !.count = m.count] ELSE r : r \in creds}
         /\ accepted' = accepted \cup {Acceptance("AUTH", m, u)}
    /\ Send(c, "open", NoExt)
    /\ UNCHANGED <<fresh, rp, episode, users>>

(* update_sign_count.  The challenge is not cleared.                       *)
ProcessAuthResponse(c, m) ==
    /\ m.type = "AUTH_RESPONSE"
    /\ rp.state = "AUTH_REQUEST_SENT"
    /\ \E u \in Owners(m) : \E row \in CredentialRows(u, m.cred) :
         /\ AuthResponseVerifies(m, row)
         /\ creds' = {IF r.cred = m.cred THEN [r EXCEPT !.count = m.count] ELSE r : r \in creds}
         /\ accepted' = accepted \cup {Acceptance("AUTH", m, u)}
    /\ rp' = [rp EXCEPT !.state = "AUTH_SUCCESS"]
    /\ Send(c, "open", NoExt)
    /\ UNCHANGED <<fresh, episode, users>>

(* update_sign_count reports an error after everything has verified.       *)
FailUpdateSignCount(c, m) ==
    /\ m.type = "AUTH_RESPONSE"
    /\ rp.state = "AUTH_REQUEST_SENT"
    /\ WriteFaults
    /\ \E row \in Candidates(m) : AuthResponseVerifies(m, row)
    /\ rp' = [rp EXCEPT !.state = "AUTH_FAILURE", !.db = "closed"]
    /\ Alert(c)
    /\ UNCHANGED <<fresh, episode, users, creds, accepted>>

RejectAuthResponse(c, m) ==
    /\ m.type # "NO_EXT"
    /\ rp.state = "AUTH_REQUEST_SENT"
    /\ m.type = "AUTH_RESPONSE" =>
         /\ Owners(m) # {} => Candidates(m) # {}
         /\ \A row \in Candidates(m) : ~AuthResponseVerifies(m, row)
    /\ rp' = [rp EXCEPT !.state = "AUTH_FAILURE"]
    /\ Alert(c)
    /\ UNCHANGED <<fresh, episode, users, creds, accepted>>

(* Mutant of RejectUnknownCredential: the ceremony is not ended.           *)
RejectUnknownCredentialGoesOn(c, m) ==
    /\ m.type = "AUTH_RESPONSE" /\ rp.state = "AUTH_REQUEST_SENT"
    /\ Owners(m) # {} /\ Candidates(m) = {}
    /\ rp' = [rp EXCEPT !.db = "closed"]
    /\ Alert(c)
    /\ UNCHANGED <<fresh, episode, users, creds, accepted>>

(* get_credential finds no row: that closes the database too.              *)
RejectUnknownCredential(c, m) ==
    /\ m.type = "AUTH_RESPONSE"
    /\ rp.state = "AUTH_REQUEST_SENT"
    /\ Owners(m) # {}
    /\ Candidates(m) = {} \/ ReadFaults
    /\ rp' = [rp EXCEPT !.state = "AUTH_FAILURE", !.db = "closed"]
    /\ Alert(c)
    /\ UNCHANGED <<fresh, episode, users, creds, accepted>>

(* Everything in the response is as expected, but parse_cose_key does not  *)
(* take the key of the row for one the signature could be checked with.    *)
RejectStoredKey(c, m) ==
    /\ m.type = "AUTH_RESPONSE"
    /\ rp.state = "AUTH_REQUEST_SENT"
    /\ ~m.valid
    /\ \E row \in Candidates(m) : AuthResponseVerifies([m EXCEPT !.valid = TRUE], row)
    /\ rp' = [rp EXCEPT !.state = "AUTH_FAILURE", !.db = "closed"]
    /\ Alert(c)
    /\ UNCHANGED <<fresh, episode, users, creds, accepted>>

(* default: Invalid state.  An extension nobody asked for builds rp_data.  *)
RefuseCertificate(c, m) ==
    /\ m.type # "NO_EXT"
    /\ \E d \in GetRpData :
         /\ d.state \notin {"REG_REQUEST_SENT", "AUTH_REQUEST_SENT"}
         /\ rp' = d
    /\ Alert(c)
    /\ UNCHANGED <<fresh, episode, users, creds, accepted>>

(* A Certificate without the extension: the callback is not called, and    *)
(* the handshake completes (no_verify_cb accepts any certificate).         *)
AcceptPlainCertificate(c, m) ==
    /\ m.type = "NO_EXT"
    /\ Send(c, "open", NoExt)
    /\ UNCHANGED <<fresh, rpVars>>

ParseCertificate(c, m) ==
    \/ ProcessRegResponse(c, m)
    \/ RejectRegResponse(c, m)
    \/ FailAddCreds(c, m)
    \/ ProcessAuthResponse(c, m)
    \/ FailUpdateSignCount(c, m)
    \/ RejectAuthResponse(c, m)
    \/ RejectUnknownCredential(c, m)
    \/ RejectStoredKey(c, m)
    \/ RefuseCertificate(c, m)
    \/ AcceptPlainCertificate(c, m)

RestartServer ==
    /\ NextProcess
    /\ UNCHANGED <<fresh, users, creds, accepted>>

RpInit ==
    /\ rp = Blank("NO_DATA")
    /\ episode = 1
    /\ users = {}
    /\ creds = {}
    /\ accepted = {}

-----------------------------------------------------------------------------
(* Properties of the server.                                               *)

(* A request has been sent and its response is awaited.                    *)
Outstanding(state) == state \in {"REG_REQUEST_SENT", "AUTH_REQUEST_SENT"}

(* The shape of rp_data, of the two tables and of the history.             *)
RpTypeOK ==
    /\ rp \in RpData
    /\ episode \in 1 .. MaxEpisodes
    /\ users \subseteq UserRows
    /\ creds \subseteq CredRows
    /\ accepted \subseteq [episode : 1 .. MaxEpisodes, kind : {"REG", "AUTH"},
                           chal : Nat, cred : Nat, user : Nat]

(* persistence.c:46: the FOREIGN KEY of table credentials.                 *)
OwnersExist == \A r \in creds : \E u \in users : u.id = r.user

(* SQLite does not enforce that FOREIGN KEY (the pragma is never set) and  *)
(* add_creds commits its two INSERTs one by one; still, as long as no      *)
(* SELECT fails, every credential has its owner, and whatever fails names, *)
(* user ids and credential ids stay unique.                                *)
DatabaseConsistent ==
    /\ ~ReadFaults => OwnersExist
    /\ \A u, v \in users : u.id = v.id \/ u.name = v.name => u = v
    /\ \A r, s \in creds : r.cred = s.cred => r = s

(* Whatever the clients send and however often the server restarts, no     *)
(* credential row is lost, moves to another user or RP id, or has its      *)
(* signature counter lowered (process_auth_response, update_sign_count).   *)
SignCountNeverDecreases ==
    [][\A r \in creds : \E s \in creds' :
          s.cred = r.cred /\ s.user = r.user /\ s.rp = r.rp /\ s.count >= r.count]_serverVars

(* process_reg_response and process_auth_response close the database on    *)
(* some errors and leave data->db dangling: the shared rp_data must then   *)
(* be in a state in which no callback touches the database again.          *)
ClosedHandleUnused == rp.db = "closed" => rp.state \in {"REG_FAILURE", "AUTH_FAILURE"}

(* No replay: an accepted challenge is never accepted again, although      *)
(* process_auth_response does not clear it, and one server process accepts *)
(* one ceremony, on whichever connection.                                  *)
AcceptedOnce ==
    \A a, b \in accepted : a.chal = b.chal \/ a.episode = b.episode => a = b

(* A login is only accepted for a credential that the same user enrolled   *)
(* in an earlier ceremony, and exactly the enrolled credentials have rows. *)
LoginsAreEnrolled ==
    /\ \A a \in accepted : \E r \in creds : r.cred = a.cred /\ r.user = a.user
    /\ \A r \in creds : \E a \in accepted :
          a.kind = "REG" /\ a.cred = r.cred /\ a.user = r.user

(* What the callbacks assert() or dereference without a check: a challenge *)
(* when a response is verified (rp.c:482), a user name and a key when the  *)
(* registration request is built (rp.c:768), a user id before the          *)
(* descriptors of that user are read.                                      *)
AssertsHold ==
    /\ rp.state \in {"REG_REQUEST_SENT", "AUTH_REQUEST_SENT"} => rp.chal # 0 /\ rp.rpId # Null
    /\ rp.state = "REG_INDICATION_RECEIVED" => rp.name # Null /\ rp.key # NoKey
    /\ rp.state = "AUTH_INDICATION_SERVER_SIDE_RECEIVED" => rp.user # 0 /\ rp.key # NoKey

(* What is read when the request is built and used when the response       *)
(* arrives is not stale: the user id is still the id of the name, or the   *)
(* id of nobody and the name unknown, and the allow list is still the list *)
(* of the credentials of that user.  A SELECT that fails breaks both.      *)
SnapshotsCurrent ==
    ~ReadFaults =>
    /\ rp.state = "REG_REQUEST_SENT" =>
         \A u \in users : u.name = rp.name <=> u.id = rp.user
    /\ rp.state = "AUTH_REQUEST_SENT" /\ rp.ceremony = "AUTH_SERVER_SIDE" =>
         rp.allow = Descriptors(rp.user, rp.rpId) /\ rp.allow # {}

=============================================================================
