------------------------ MODULE SealingHistoryProofs ------------------------
(***************************************************************************)
(* No key of the running system encrypts two fields under one IV, for any  *)
(* clients, options and bounds: a proof about SealingHistory.tla.          *)
(***************************************************************************)
EXTENDS SealingHistory, FidoSystemProofs

(* The IVs of what clients seal and of what the server seals.              *)
ClientIvs == {"messagetype3", "messagetype7"}
ServerIvs == {"messagetype4", "messagetype8"}

(* The states of rp_data before and after the server seals.                *)
BeforeRequest == {"REG_INDICATION_RECEIVED", "AUTH_INDICATION_SERVER_SIDE_RECEIVED"}
PastRequest ==
    {"REG_REQUEST_SENT", "REG_SUCCESS", "REG_FAILURE",
     "AUTH_REQUEST_SENT", "AUTH_SUCCESS", "AUTH_FAILURE"}

-----------------------------------------------------------------------------
(* The inductive invariant.                                                *)

(* No key that has sealed something is on its way to a client.             *)
OfferedUnused ==
    \A x \in sealed :
      /\ x.key.eph \in Nat /\ x.key.eph < fresh
      /\ \A c \in Clients : Offered(c) => conn[c].msg.eph # x.key.eph

(* A program that has its key and has indicated nothing has sealed nothing *)
(* with it.                                                                *)
ReceivedUnused ==
    \A c \in Clients : ud[c].state = "PRE_RESPONSE_RECEIVED" =>
      \A x \in sealed : x.iv \in ClientIvs => x.key.eph # ud[c].eph

(* A server process seals in one request, with a key of its episode.       *)
RequestSealsOnce ==
    /\ rp.state \in BeforeRequest => rp.key.kep = episode
    /\ \A x \in sealed : x.iv \in ServerIvs =>
         /\ x.key.kep \in Nat /\ x.key.kep =< episode
         /\ x.key.kep = episode => rp.state \in PastRequest

SealingInv == OfferedUnused /\ ReceivedUnused /\ RequestSealsOnce /\ IvUniquePerKey

-----------------------------------------------------------------------------
(* What a step seals.                                                      *)

(* The history that SealingNext keeps.                                     *)
Records ==
    sealed' = sealed \cup
      UNION {SealingOf(conn'[c].msg) : c \in {d \in Clients : conn'[d] # conn[d]}}

(* A packet without an encrypted field.                                    *)
Open(m) ==
    \/ m.type \notin {"REG_INDICATION", "REG_REQUEST", "AUTH_INDICATION_SERVER_SIDE",
                      "AUTH_REQUEST"}
    \/ m.type = "AUTH_REQUEST" /\ m.key = NoKey

(* It adds nothing ...                                                     *)
LEMMA OpenSealsNothing ==
    ASSUME NEW m, Open(m)
    PROVE  SealingOf(m) = {}
  BY DEF Open, SealingOf

(* ... and any other packet one encryption with its key.                   *)
LEMMA SealsWithKey ==
    ASSUME NEW m
    PROVE  \/ SealingOf(m) = {}
           \/ \E s : /\ SealingOf(m) = {s} /\ s.key = m.key
                     /\ m.type \in {"REG_INDICATION", "AUTH_INDICATION_SERVER_SIDE"} =>
                          s.iv \in ClientIvs
                     /\ m.type \in {"REG_REQUEST", "AUTH_REQUEST"} => s.iv \in ServerIvs
  <1>1. ASSUME NEW name, NEW ticket, NEW user, NEW ids
        PROVE  \E s : /\ Sealing(m, name, ticket, user, ids) = {s} /\ s.key = m.key
                      /\ s.iv = MessageIv(m.type)
    <2> DEFINE s == [key |-> m.key, iv |-> MessageIv(m.type),
                     name |-> name, ticket |-> ticket, user |-> user, ids |-> ids]
    <2>1. Sealing(m, name, ticket, user, ids) = {s} /\ s.key = m.key /\ s.iv = MessageIv(m.type)
      BY DEF Sealing
    <2> HIDE DEF s
    <2> QED
      BY <2>1
  <1>2. /\ m.type = "REG_INDICATION" => MessageIv(m.type) \in ClientIvs
        /\ m.type = "AUTH_INDICATION_SERVER_SIDE" => MessageIv(m.type) \in ClientIvs
        /\ m.type = "REG_REQUEST" => MessageIv(m.type) \in ServerIvs
        /\ m.type = "AUTH_REQUEST" => MessageIv(m.type) \in ServerIvs
    BY DEF MessageIv, ClientIvs, ServerIvs
  <1>3. CASE Open(m)
    BY <1>3, OpenSealsNothing
  <1>4. CASE ~Open(m)
    <2>1. \E name, ticket, user, ids : SealingOf(m) = Sealing(m, name, ticket, user, ids)
      <3>1. CASE m.type = "REG_INDICATION"
        BY <3>1 DEF SealingOf
      <3>2. CASE m.type = "REG_REQUEST"
        BY <3>2 DEF SealingOf
      <3>3. CASE m.type = "AUTH_INDICATION_SERVER_SIDE"
        BY <3>3 DEF SealingOf
      <3>4. CASE m.type = "AUTH_REQUEST" /\ m.key # NoKey
        BY <3>4 DEF SealingOf
      <3> QED
        BY <1>4, <3>1, <3>2, <3>3, <3>4 DEF Open
    <2>2. PICK name, ticket, user, ids : SealingOf(m) = Sealing(m, name, ticket, user, ids)
      BY <2>1
    <2> QED
      BY <1>1, <1>2, <2>2
  <1> QED
    BY <1>3, <1>4

(* Only the packet of the client whose connection moves is recorded.       *)
LEMMA RecordsOne ==
    ASSUME Records, NEW c \in Clients, OnlyAt(c)
    PROVE  sealed' = sealed \/ sealed' = sealed \cup SealingOf(conn'[c].msg)
  <1>1. {d \in Clients : conn'[d] # conn[d]} \subseteq {c}
    BY DEF OnlyAt
  <1>2. CASE {d \in Clients : conn'[d] # conn[d]} = {}
    BY <1>2 DEF Records
  <1>3. CASE {d \in Clients : conn'[d] # conn[d]} = {c}
    BY <1>3 DEF Records
  <1> QED
    BY <1>1, <1>2, <1>3

(* Nothing is recorded if nothing is sealed.                               *)
LEMMA RecordsNothing ==
    ASSUME Records, \A c \in Clients : conn'[c] = conn[c] \/ Open(conn'[c].msg)
    PROVE  sealed' = sealed
  BY OpenSealsNothing DEF Records

(* A message without an encrypted field.                                   *)
LEMMA SendsOpen ==
    ASSUME UdIInv, Records, NEW c \in Clients, NEW phase, NEW m, Send(c, phase, m), Open(m)
    PROVE  sealed' = sealed
  <1>1. conn'[c].msg = m /\ \A x \in Clients : x # c => conn'[x] = conn[x]
    BY Shapes DEF Send
  <1> QED
    BY <1>1, RecordsNothing

(* These have none.                                                        *)
LEMMA OpenMessages ==
    /\ Open(NoExt) /\ Open(PreIndication) /\ Open(AuthIndicationDiscoverable)
    /\ \A eph, key : Open(PreResponse(eph, key))
    /\ \A chal, rpId, ids : Open(AuthRequest(chal, rpId, NoKey, ids))
    /\ \A cred, chal, o, rpId, uv, n, v : Open(RegResponse(cred, chal, o, rpId, uv, n, v))
    /\ \A cred, chal, o, rpId, uv, n, h, v : Open(AuthResponse(cred, chal, o, rpId, uv, n, h, v))
  BY DEF Open, NoExt, PreIndication, AuthIndicationDiscoverable, PreResponse, AuthRequest,
     RegResponse, AuthResponse

(* A restart breaks connections and seals nothing.                         *)
LEMMA BreakAllRecords ==
    ASSUME Records, BreakAll
    PROVE  sealed' = sealed
  <1>1. \A c \in Clients : conn'[c] = conn[c] \/ conn'[c].msg = NoExt
    BY DEF BreakAll
  <1> QED
    BY <1>1, OpenMessages, RecordsNothing

(* Client c seals the field of its second ClientHello.                     *)
ClientSeals(c) ==
    /\ OnlyAt(c) /\ UNCHANGED rpVars
    /\ ud[c].state = "PRE_RESPONSE_RECEIVED" /\ ud'[c].state # "PRE_RESPONSE_RECEIVED"
    /\ ud'[c].eph = ud[c].eph
    /\ \E s : sealed' = sealed \cup {s} /\ s.iv \in ClientIvs /\ s.key = ud[c].key

(* The server seals the field of its request.                              *)
ServerSeals ==
    /\ UNCHANGED <<episode, udVars>>
    /\ rp.state \in BeforeRequest /\ rp'.state \in PastRequest /\ rp'.key = rp.key
    /\ \E s : sealed' = sealed \cup {s} /\ s.iv \in ServerIvs /\ s.key = rp.key

(* The steps of a client, as the system takes them.                        *)
ClientActs(c) ==
    ClientRequest(c) \/ ClientCertificate(c) \/ Connect(c) \/ Start(c) \/ Reconnect(c) \/ Lose(c)

(* A client seals with its second ClientHello, and never else.             *)
LEMMA ClientRecords ==
    ASSUME SystemInv, Records, NEW c \in Clients, ClientActs(c)
    PROVE  sealed' = sealed \/ ClientSeals(c)
  <1>1. UdIInv /\ ud[c] \in UdRecord
    BY Shapes DEF SystemInv
  <1>2. CASE \E phase, m : Send(c, phase, m) /\ Open(m)
    BY <1>1, <1>2, SendsOpen
  <1>3. CASE Start(c)
    BY <1>2, <1>3, OpenMessages DEF Start, Launch, Send
  <1>4. CASE Reconnect(c) \/ Lose(c)
    BY <1>2, <1>4, OpenMessages DEF Reconnect, RefuseHello, Lose, Drop, Alert
  <1>5. CASE ClientRequest(c)
    BY <1>2, <1>5, OpenMessages DEF ClientRequest, ParseCertificateRequest, IgnoreRequest,
       ProcessPreResponse, ProcessRegRequest, ProcessAuthRequest, RejectAuthRequest,
       RefuseRequest, Alert
  <1>6. CASE ClientCertificate(c)
    BY <1>2, <1>6, OpenMessages DEF ClientCertificate, AddCertificate, SendNoResponse,
       CreateRegResponse, FailRegResponse, CreateAuthResponse, FailAuthResponse, FailResponse,
       Alert
  <1>7. CASE Connect(c)
    <2>1. CASE SendPlainHello(c) \/ SendPreIndication(c) \/ SendAuthIndicationDiscoverable(c)
      BY <1>2, <2>1, OpenMessages DEF SendPlainHello, SendPreIndication,
         SendAuthIndicationDiscoverable, SendHello
    <2>2. CASE SendRegIndication(c) \/ SendAuthIndicationServerSide(c)
      <3>1. PICK m, state :
              /\ SendHello(c, m, state) /\ state # "PRE_RESPONSE_RECEIVED"
              /\ m.type \in {"REG_INDICATION", "AUTH_INDICATION_SERVER_SIDE"}
              /\ m.key = ud[c].key /\ ud[c].state = "PRE_RESPONSE_RECEIVED"
        BY <2>2 DEF SendRegIndication, SendAuthIndicationServerSide, RegIndication,
           AuthIndicationServerSide
      <3>2. ud' = [ud EXCEPT ![c] = [ud[c] EXCEPT !.state = state]] /\ Send(c, "hello", m)
        BY <3>1 DEF SendHello
      <3>3. Moves(c, "hello", m, [ud[c] EXCEPT !.state = state])
        BY <1>1, <3>2, MovesWithMessage
      <3>4. /\ OnlyAt(c) /\ conn'[c].msg = m /\ ud'[c].state = state
            /\ ud'[c].eph = ud[c].eph
        BY <1>1, <3>3 DEF Moves, UdRecord
      <3>5. sealed' = sealed \/ sealed' = sealed \cup SealingOf(m)
        BY <3>4, RecordsOne
      <3>6. \/ SealingOf(m) = {}
            \/ \E s : SealingOf(m) = {s} /\ s.key = ud[c].key /\ s.iv \in ClientIvs
        BY <3>1, SealsWithKey
      <3> QED
        BY <1>7, <3>1, <3>4, <3>5, <3>6 DEF ClientSeals, Connect
    <2> QED
      BY <1>7, <2>1, <2>2 DEF Connect, ClientHello
  <1> QED
    BY <1>3, <1>4, <1>5, <1>6, <1>7 DEF ClientActs

(* The server seals with a request, and never else.                        *)
LEMMA ServerRecords ==
    ASSUME SystemInv, Records, NEW c \in Clients,
           ServerHello(c) \/ ServerFlight(c) \/ ServerCertificate(c)
    PROVE  sealed' = sealed \/ ServerSeals
  <1>1. UdIInv /\ EachClientFits /\ rp \in RpData
    BY DEF SystemInv, IInv, RpTypeOK
  <1>2. CASE \E phase, m : Send(c, phase, m) /\ Open(m)
    BY <1>1, <1>2, SendsOpen
  <1>3. CASE ServerHello(c)
    BY <1>1, <1>2, <1>3, ServerHelloMoves, OpenMessages
  <1>4. CASE ServerCertificate(c)
    BY <1>1, <1>2, <1>4, ServerCertificateMoves, OpenMessages, BreakAllRecords
       DEF Ends, NextProcess
  <1>5. CASE ServerFlight(c)
    <2>1. AddCertificateRequest(c) /\ UNCHANGED udVars
      BY <1>5 DEF ServerFlight
    <2>2. CASE \/ SendNothing(c) \/ CreatePreResponse(c) \/ FailRegRequest(c)
               \/ CreateAuthRequestDiscoverable(c) \/ FailAuthRequest(c)
               \/ RefuseCertificateRequest(c)
      BY <1>2, <2>2, OpenMessages DEF SendNothing, CreatePreResponse, FailRegRequest,
         CreateAuthRequestDiscoverable, FailAuthRequest, RefuseCertificateRequest, Alert
    <2>3. CASE CreateRegRequest(c) \/ CreateAuthRequestServerSide(c)
      <3>1. \E m : /\ Send(c, "request", m)
                   /\ m.type \in {"REG_REQUEST", "AUTH_REQUEST"} /\ m.key = rp.key
        <4>1. CASE CreateRegRequest(c)
          <5>1. PICK id, exclude :
                  Send(c, "request", RegRequest(fresh, rp.rpId, rp.key, rp.name, id, exclude))
            BY <4>1 DEF CreateRegRequest
          <5> DEFINE m == RegRequest(fresh, rp.rpId, rp.key, rp.name, id, exclude)
          <5>2. Send(c, "request", m) /\ m.type = "REG_REQUEST" /\ m.key = rp.key
            BY <5>1 DEF RegRequest
          <5> HIDE DEF m
          <5> QED
            BY <5>2
        <4>2. CASE CreateAuthRequestServerSide(c)
          <5>1. PICK allow : Send(c, "request", AuthRequest(fresh, rp.rpId, rp.key, allow))
            BY <4>2 DEF CreateAuthRequestServerSide
          <5> DEFINE m == AuthRequest(fresh, rp.rpId, rp.key, allow)
          <5>2. Send(c, "request", m) /\ m.type = "AUTH_REQUEST" /\ m.key = rp.key
            BY <5>1 DEF AuthRequest
          <5> HIDE DEF m
          <5> QED
            BY <5>2
        <4> QED
          BY <2>3, <4>1, <4>2
      <3>2. PICK m : /\ Send(c, "request", m)
                     /\ m.type \in {"REG_REQUEST", "AUTH_REQUEST"} /\ m.key = rp.key
        BY <3>1
      <3>3. /\ UNCHANGED episode /\ rp.state \in BeforeRequest
            /\ rp'.state \in PastRequest /\ rp'.key = rp.key
        BY <1>1, <2>3 DEF CreateRegRequest, CreateAuthRequestServerSide, RpData,
           BeforeRequest, PastRequest
      <3>4. OnlyAt(c) /\ conn'[c].msg = m
        BY <1>1, <2>1, <3>2, MovesConnection DEF Moves, udVars
      <3>5. sealed' = sealed \/ sealed' = sealed \cup SealingOf(m)
        BY <3>4, RecordsOne
      <3>6. \/ SealingOf(m) = {}
            \/ \E s : SealingOf(m) = {s} /\ s.key = rp.key /\ s.iv \in ServerIvs
        BY <3>2, SealsWithKey
      <3> QED
        BY <2>1, <3>3, <3>5, <3>6 DEF ServerSeals
    <2> QED
      BY <2>1, <2>2, <2>3 DEF AddCertificateRequest
  <1> QED
    BY <1>3, <1>4, <1>5


-----------------------------------------------------------------------------
(* What a step does to the keys that can still seal.                       *)

(* A step of the system is one of the server, a client or a restart.       *)
LEMMA NextActs ==
    ASSUME Next
    PROVE  \/ Restart
           \/ \E c \in Clients : ServerHello(c) \/ ServerFlight(c) \/ ServerCertificate(c)
           \/ \E c \in Clients : ClientActs(c)
  BY DEF Next, Handshake, ClientActs

(* The source of random values never steps back.                           *)
LEMMA FreshGrows ==
    ASSUME SystemInv, Next
    PROVE  fresh' \in Nat /\ fresh' >= fresh /\ fresh \in Nat
  <1>1. IInv /\ UdIInv /\ EachClientFits /\ DeviceIds /\ fresh \in Nat
    BY Shapes DEF SystemInv
  <1>2. CASE Restart
    BY <1>1, <1>2 DEF Restart, RestartServer
  <1>3. ASSUME NEW c \in Clients, ServerHello(c) \/ ServerFlight(c) \/ ServerCertificate(c)
        PROVE  fresh' \in Nat /\ fresh' >= fresh
    BY <1>1, <1>3, ServerHelloMoves, ServerFlightMoves, ServerCertificateMoves
  <1>4. ASSUME NEW c \in Clients, ClientStep(c)
        PROVE  fresh' \in Nat /\ fresh' >= fresh
    BY <1>1, <1>4, ClientDraws DEF ClientStep
  <1> QED
    BY <1>1, <1>2, <1>3, <1>4, StepCases

(* A pre-response that is on its way was so before, or has a new key.      *)
LEMMA OfferedBefore ==
    ASSUME SystemInv, Next, NEW x \in Clients, Offered(x)'
    PROVE  \/ Offered(x) /\ conn'[x].msg.eph = conn[x].msg.eph
           \/ conn'[x].msg.eph = fresh
  <1>1. IInv /\ UdIInv /\ EachClientFits /\ DeviceIds
    BY DEF SystemInv
  <1>2. ASSUME NEW c \in Clients, OnlyAt(c), x # c
        PROVE  Offered(x) /\ conn'[x].msg.eph = conn[x].msg.eph
    BY <1>2, OfferedElsewhere
  <1>3. CASE Restart
    BY <1>1, <1>3, BreakAllMoves DEF Restart, RestartServer, NextProcess, Offered
  <1>4. ASSUME NEW c \in Clients, ServerHello(c)
        PROVE  Offered(x) /\ conn'[x].msg.eph = conn[x].msg.eph
    <2>1. OnlyAt(c) /\ conn'[c].phase # "request"
      BY <1>1, <1>4, ServerHelloMoves DEF Moves
    <2> QED
      BY <1>2, <2>1 DEF Offered
  <1>5. ASSUME NEW c \in Clients, ServerCertificate(c)
        PROVE  Offered(x) /\ conn'[x].msg.eph = conn[x].msg.eph
    <2>1. CASE Ends(c)
      BY <1>2, <2>1 DEF Ends, Moves, Offered
    <2>2. CASE NextProcess
      <3>1. BreakAll /\ UNCHANGED <<fresh, udVars>>
        BY <1>1, <1>5, <2>2, ServerCertificateMoves DEF NextProcess
      <3> QED
        BY <1>1, <3>1, BreakAllMoves DEF Offered
    <2> QED
      BY <1>1, <1>5, <2>1, <2>2, ServerCertificateMoves
  <1>6. ASSUME NEW c \in Clients, ServerFlight(c), x = c
        PROVE  conn'[x].msg.eph = fresh
    <2>1. AddCertificateRequest(c) /\ conn = [d \in Clients |-> conn[d]]
      BY <1>1, <1>6, Shapes DEF ServerFlight
    <2>2. CASE CreatePreResponse(c)
      BY <1>6, <2>1, <2>2 DEF CreatePreResponse, Send, PreResponse
    <2>3. CASE \E phase, m : Send(c, phase, m) /\ m.type # "PRE_RESPONSE"
      BY <1>6, <2>1, <2>3 DEF Send, Offered
    <2>4. CASE \/ SendNothing(c) \/ FailRegRequest(c) \/ FailAuthRequest(c)
               \/ RefuseCertificateRequest(c) \/ CreateRegRequest(c)
               \/ CreateAuthRequestDiscoverable(c) \/ CreateAuthRequestServerSide(c)
      <3>1. /\ NoExt.type # "PRE_RESPONSE"
            /\ \A a, b, d, e, f, g : RegRequest(a, b, d, e, f, g).type # "PRE_RESPONSE"
            /\ \A a, b, d, e : AuthRequest(a, b, d, e).type # "PRE_RESPONSE"
        BY DEF NoExt, RegRequest, AuthRequest
      <3>2. CASE \/ SendNothing(c) \/ FailRegRequest(c) \/ FailAuthRequest(c)
                 \/ RefuseCertificateRequest(c)
        BY <2>3, <3>1, <3>2 DEF SendNothing, FailRegRequest, FailAuthRequest,
           RefuseCertificateRequest, Alert
      <3>3. CASE CreateRegRequest(c)
        <4>1. PICK id, exclude :
                Send(c, "request", RegRequest(fresh, rp.rpId, rp.key, rp.name, id, exclude))
          BY <3>3 DEF CreateRegRequest
        <4> QED
          BY <2>3, <3>1, <4>1
      <3>4. CASE CreateAuthRequestDiscoverable(c)
        BY <2>3, <3>1, <3>4 DEF CreateAuthRequestDiscoverable
      <3>5. CASE CreateAuthRequestServerSide(c)
        <4>1. PICK allow : Send(c, "request", AuthRequest(fresh, rp.rpId, rp.key, allow))
          BY <3>5 DEF CreateAuthRequestServerSide
        <4> QED
          BY <2>3, <3>1, <4>1
      <3> QED
        BY <2>4, <3>2, <3>3, <3>4, <3>5
    <2> QED
      BY <2>1, <2>2, <2>4 DEF AddCertificateRequest
  <1>7. ASSUME NEW c \in Clients, ServerFlight(c), x # c
        PROVE  Offered(x) /\ conn'[x].msg.eph = conn[x].msg.eph
    <2>1. OnlyAt(c)
      BY <1>1, <1>7, ServerFlightMoves DEF Flight, Moves
    <2> QED
      BY <1>2, <1>7, <2>1
  <1>8. ASSUME NEW c \in Clients, ClientStep(c)
        PROVE  Offered(x) /\ conn'[x].msg.eph = conn[x].msg.eph
    <2>1. CASE Stores(c) /\ ProcessPreResponse(c, conn[c].msg)
      <3>1. OnlyAt(c) /\ conn'[c].phase = "asked"
        BY <1>1, <2>1, PreResponseMoves DEF Stores, Moves
      <3> QED
        BY <1>2, <3>1 DEF Offered
    <2>2. CASE \/ Settles(c) \/ Answers(c)
               \/ Stores(c) /\ ~ProcessPreResponse(c, conn[c].msg)
      <3>1. OnlyAt(c) /\ ~Offered(c)'
        BY <1>1, <2>2, KeepsKey
      <3> QED
        BY <1>2, <3>1
    <2> QED
      BY <1>8, <2>1, <2>2 DEF ClientStep, ClientSettles
  <1> QED
    BY <1>1, <1>3, <1>4, <1>5, <1>6, <1>7, <1>8, StepCases


(* A client that holds its key held it before, or has just been sent it.   *)
LEMMA ReceivedBefore ==
    ASSUME SystemInv, Next, NEW x \in Clients, ud'[x].state = "PRE_RESPONSE_RECEIVED"
    PROVE  \/ ud[x].state = "PRE_RESPONSE_RECEIVED" /\ ud'[x].eph = ud[x].eph
           \/ Offered(x) /\ ud'[x].eph = conn[x].msg.eph
  <1>1. IInv /\ UdIInv /\ EachClientFits /\ DeviceIds /\ ud \in [Clients -> UdRecord]
    BY Shapes DEF SystemInv
  <1>2. CASE UNCHANGED ud
    BY <1>2
  <1>3. CASE Restart
    BY <1>2, <1>3 DEF Restart, udVars
  <1>4. ASSUME NEW c \in Clients, ServerHello(c) \/ ServerFlight(c) \/ ServerCertificate(c)
        PROVE  UNCHANGED ud
    BY <1>4 DEF ServerHello, ServerFlight, ServerCertificate, udVars
  <1>5. ASSUME NEW c \in Clients, ClientActs(c), x # c
        PROVE  ud[x].state = "PRE_RESPONSE_RECEIVED" /\ ud'[x].eph = ud[x].eph
    <2>1. CASE \/ Settles(c) \/ Answers(c)
               \/ Stores(c) /\ ~ProcessPreResponse(c, conn[c].msg)
      <3>1. OnlyAt(c)
        BY <1>1, <2>1, KeepsKey
      <3> QED
        BY <1>5, <3>1 DEF OnlyAt
    <2>2. CASE Stores(c) /\ ProcessPreResponse(c, conn[c].msg)
      <3>1. OnlyAt(c)
        BY <1>1, <2>2, PreResponseMoves DEF Stores, Moves
      <3> QED
        BY <1>5, <3>1 DEF OnlyAt
    <2>3. Settles(c) \/ Stores(c) \/ Answers(c)
      BY <1>1, <1>5, ClientStepForms DEF ClientActs, ClientSettles
    <2>4. CASE Stores(c)
      BY <2>1, <2>2, <2>4
    <2> QED
      BY <2>1, <2>3, <2>4
  <1>6. ASSUME NEW c \in Clients, ClientActs(c), x = c
        PROVE  \/ ud[x].state = "PRE_RESPONSE_RECEIVED" /\ ud'[x].eph = ud[x].eph
               \/ Offered(x) /\ ud'[x].eph = conn[x].msg.eph
    <2>1. CASE Start(c)
      <3>1. ud'[c].eph = 0
        <4>1. PICK o \in LaunchOptions : Launch(c, o)
          BY <2>1 DEF Start
        <4> QED
          BY <1>1, <4>1, LaunchMoves DEF Moves
      <3>2. EachClientFits'
        BY <1>1, <1>6, ClientStepForms DEF ClientActs
      <3> QED
        BY <1>6, <3>1, <3>2 DEF EachClientFits, ClientFits, StateFits
    <2>2. CASE Reconnect(c) \/ Lose(c)
      BY <1>2, <2>2 DEF Reconnect, RefuseHello, Lose, udVars
    <2>3. CASE Connect(c)
      <3>1. PICK m, state : SendHello(c, m, state) /\ state # "PRE_RESPONSE_RECEIVED"
        BY <2>3 DEF Connect, ClientHello, SendPlainHello, SendPreIndication, SendRegIndication,
           SendAuthIndicationServerSide, SendAuthIndicationDiscoverable
      <3> QED
        BY <1>1, <1>6, <3>1 DEF SendHello, UdRecord
    <2>4. CASE ClientCertificate(c)
      <3>1. AddCertificate(c)
        BY <2>4 DEF ClientCertificate
      <3>2. CASE SendNoResponse(c)
        BY <1>2, <3>2 DEF SendNoResponse, udVars
      <3>3. CASE CreateRegResponse(c)
        BY <1>1, <1>6, <3>3 DEF CreateRegResponse, UdRecord
      <3>4. CASE FailRegResponse(c)
        BY <1>1, <1>6, <3>4 DEF FailRegResponse, UdRecord
      <3>5. CASE CreateAuthResponse(c)
        BY <1>1, <1>6, <3>5 DEF CreateAuthResponse, UdRecord
      <3>6. CASE FailResponse(c)
        BY <1>1, <1>6, <3>6 DEF FailResponse, UdRecord
      <3>7. CASE FailAuthResponse(c)
        BY <1>1, <1>6, <3>7 DEF FailAuthResponse, UdRecord
      <3> QED
        BY <3>1, <3>2, <3>3, <3>4, <3>5, <3>6, <3>7 DEF AddCertificate
    <2>5. CASE ClientRequest(c)
      <3>1. conn[c].phase = "request" /\ ParseCertificateRequest(c, conn[c].msg)
        BY <2>5 DEF ClientRequest
      <3>2. CASE IgnoreRequest(c, conn[c].msg) \/ RefuseRequest(c, conn[c].msg)
        BY <1>2, <3>2 DEF IgnoreRequest, RefuseRequest, udVars
      <3>3. CASE ProcessPreResponse(c, conn[c].msg)
        BY <1>1, <1>6, <3>1, <3>3 DEF ProcessPreResponse, Offered, UdRecord
      <3>4. CASE \/ ProcessRegRequest(c, conn[c].msg) \/ ProcessAuthRequest(c, conn[c].msg)
                 \/ RejectAuthRequest(c, conn[c].msg)
        BY <1>1, <1>6, <3>4 DEF ProcessRegRequest, ProcessAuthRequest, RejectAuthRequest,
           AwaitsAuthRequest, UdRecord
      <3> QED
        BY <3>1, <3>2, <3>3, <3>4 DEF ParseCertificateRequest
    <2> QED
      BY <1>6, <2>1, <2>2, <2>3, <2>4, <2>5 DEF ClientActs
  <1> QED
    BY <1>2, <1>3, <1>4, <1>5, <1>6, NextActs

(* A server process never returns to a state before its request, and the   *)
(* key of an indication is one of its episode.                             *)
LEMMA PastStays ==
    ASSUME SystemInv, Next, rp.state \in BeforeRequest => rp.key.kep = episode
    PROVE  /\ episode \in Nat /\ episode' \in Nat
           /\ \/ episode' = episode + 1
              \/ episode' = episode /\ (rp.state \in PastRequest => rp'.state \in PastRequest)
           /\ rp'.state \in BeforeRequest => rp'.key.kep = episode'
  <1> DEFINE P == \/ episode' = episode + 1
                  \/ episode' = episode /\ (rp.state \in PastRequest => rp'.state \in PastRequest)
             K == rp'.state \in BeforeRequest => rp'.key.kep = episode'
  <1>1. /\ IInv /\ UdIInv /\ EachClientFits /\ DeviceIds
        /\ rp \in RpData /\ episode \in Nat
        /\ rp.state # "NO_DATA" => rp.kep = episode
    BY DEF SystemInv, IInv, RpTypeOK, FilledIn
  <1>2. ASSUME UNCHANGED rpVars
        PROVE  P /\ K
    BY <1>2 DEF rpVars
  <1>3. ASSUME NextProcess
        PROVE  P /\ K
    BY <1>3 DEF NextProcess, Blank, BeforeRequest
  <1>4. ASSUME Restart
        PROVE  P /\ K
    BY <1>3, <1>4 DEF Restart, RestartServer
  <1>5. ASSUME NEW c \in Clients, ServerHello(c)
        PROVE  P /\ K
    <2> DEFINE m == conn[c].msg
    <2>1. ParseClientHello(c, m)
      BY <1>5 DEF ServerHello
    <2>2. CASE ParseNoIndication(c, m)
      BY <1>2, <2>2 DEF ParseNoIndication
    <2>3. CASE \/ ProcessPreIndication(c, m) \/ ProcessAuthIndicationDiscoverable(c, m)
               \/ RefuseIndication(c, m)
      <3>1. PICK d \in GetRpData :
              /\ rp' = d \/ (d.state = "INITIAL" /\ rp'.state \notin BeforeRequest)
              /\ UNCHANGED episode
        <4>1. \A d \in GetRpData : d \in RpData
          BY <1>1, GetRpDataReturns
        <4> QED
          BY <2>3, <4>1 DEF ProcessPreIndication, ProcessAuthIndicationDiscoverable,
             RefuseIndication, BeforeRequest, RpData
      <3>2. (rp.state = "NO_DATA" /\ d.state = "INITIAL") \/ d = rp
        BY <1>1, GetRpDataReturns
      <3> QED
        BY <1>1, <3>1, <3>2 DEF BeforeRequest, PastRequest
    <2>4. CASE \/ ProcessRegIndication(c, m) \/ RejectRegIndication(c, m)
               \/ ProcessAuthIndicationServerSide(c, m) \/ RejectAuthIndicationServerSide(c, m)
      <3>1. /\ UNCHANGED episode /\ rp.state = "PRE_RESPONSE_SENT"
            /\ rp'.key = GcmKey(rp.kep, m.eph)
        BY <1>1, <2>4 DEF ProcessRegIndication, RejectRegIndication,
           ProcessAuthIndicationServerSide, RejectAuthIndicationServerSide, RpData
      <3>2. GcmKey(rp.kep, m.eph).kep = rp.kep
        BY DEF GcmKey
      <3> QED
        BY <1>1, <3>1, <3>2 DEF PastRequest
    <2> QED
      BY <2>1, <2>2, <2>3, <2>4 DEF ParseClientHello
  <1>6. ASSUME NEW c \in Clients, ServerFlight(c)
        PROVE  P /\ K
    <2>1. AddCertificateRequest(c)
      BY <1>6 DEF ServerFlight
    <2>2. CASE SendNothing(c) \/ RefuseCertificateRequest(c)
      BY <1>2, <2>2 DEF SendNothing, RefuseCertificateRequest
    <2>3. CASE \/ CreatePreResponse(c) \/ CreateRegRequest(c) \/ FailRegRequest(c)
               \/ CreateAuthRequestDiscoverable(c) \/ CreateAuthRequestServerSide(c)
               \/ FailAuthRequest(c)
      BY <1>1, <2>3 DEF CreatePreResponse, CreateRegRequest, FailRegRequest,
         CreateAuthRequestDiscoverable, CreateAuthRequestServerSide, FailAuthRequest, RpData,
         BeforeRequest, PastRequest
    <2> QED
      BY <2>1, <2>2, <2>3 DEF AddCertificateRequest
  <1>7. ASSUME NEW c \in Clients, ServerCertificate(c)
        PROVE  P /\ K
    <2> DEFINE m == conn[c].msg
    <2>1. ParseCertificate(c, m)
      BY <1>7 DEF ServerCertificate
    <2>2. CASE AcceptPlainCertificate(c, m)
      BY <1>2, <2>2 DEF AcceptPlainCertificate
    <2>3. CASE RefuseCertificate(c, m)
      <3>1. PICK d \in GetRpData : rp' = d /\ UNCHANGED episode
        BY <2>3 DEF RefuseCertificate
      <3>2. (rp.state = "NO_DATA" /\ d.state = "INITIAL") \/ d = rp
        BY <1>1, GetRpDataReturns
      <3> QED
        BY <1>1, <3>1, <3>2 DEF BeforeRequest, PastRequest
    <2>4. CASE FailAddCreds(c, m)
      <3>1. NextProcess \/ (rp'.state = "REG_FAILURE" /\ UNCHANGED episode)
        BY <1>1, <2>4 DEF FailAddCreds, RpData
      <3> QED
        BY <1>3, <3>1 DEF BeforeRequest, PastRequest
    <2>5. CASE \/ ProcessRegResponse(c, m) \/ RejectRegResponse(c, m)
               \/ ProcessAuthResponse(c, m) \/ FailUpdateSignCount(c, m)
               \/ RejectAuthResponse(c, m) \/ RejectUnknownCredential(c, m) \/ RejectStoredKey(c, m)
      <3>1. UNCHANGED episode /\ rp'.state \in PastRequest \ BeforeRequest
        BY <1>1, <2>5 DEF ProcessRegResponse, RejectRegResponse, ProcessAuthResponse,
           FailUpdateSignCount, RejectAuthResponse, RejectUnknownCredential, RejectStoredKey, RpData,
           BeforeRequest, PastRequest
      <3> QED
        BY <3>1
    <2> QED
      BY <2>1, <2>2, <2>3, <2>4, <2>5 DEF ParseCertificate
  <1>8. ASSUME NEW c \in Clients, ClientActs(c)
        PROVE  UNCHANGED rpVars
    BY <1>8 DEF ClientActs, ClientRequest, ClientCertificate, Connect, Start, Reconnect, Lose
  <1>9. P /\ K
    BY <1>2, <1>4, <1>5, <1>6, <1>7, <1>8, NextActs
  <1> QED
    BY <1>1, <1>9

(* A step seals nothing, or one field, on one of the two sides.            *)
LEMMA SealingCases ==
    ASSUME SystemInv, SealingNext
    PROVE  sealed' = sealed \/ (\E c \in Clients : ClientSeals(c)) \/ ServerSeals
  <1>1. Next /\ Records
    BY DEF SealingNext, Records
  <1>2. CASE Restart
    BY <1>1, <1>2, BreakAllRecords DEF Restart, RestartServer, NextProcess
  <1> QED
    BY <1>1, <1>2, NextActs, ClientRecords, ServerRecords


-----------------------------------------------------------------------------
(* The invariant is inductive.                                             *)

(* A step that seals nothing.                                              *)
LEMMA SealsNothing ==
    ASSUME SystemInv, SealingInv, Next, sealed' = sealed
    PROVE  SealingInv'
  <1>1. OfferedUnused'
    <2>1. ASSUME NEW x \in sealed, NEW c \in Clients, Offered(c)'
          PROVE  conn'[c].msg.eph # x.key.eph
      BY <2>1, OfferedBefore, FreshGrows DEF SealingInv, OfferedUnused
    <2> QED
      BY <2>1, FreshGrows DEF SealingInv, OfferedUnused
  <1>2. ReceivedUnused'
    BY ReceivedBefore DEF SealingInv, OfferedUnused, ReceivedUnused
  <1>3. RequestSealsOnce'
    <2>1. rp.state \in BeforeRequest => rp.key.kep = episode
      BY DEF SealingInv, RequestSealsOnce
    <2> QED
      BY <2>1, PastStays DEF SealingInv, RequestSealsOnce
  <1>4. IvUniquePerKey'
    BY DEF SealingInv, IvUniquePerKey
  <1> QED
    BY <1>1, <1>2, <1>3, <1>4 DEF SealingInv

(* A client seals with its key once.                                       *)
LEMMA ClientSealsOnce ==
    ASSUME SystemInv, SystemInv', SealingInv, Next, NEW c \in Clients, ClientSeals(c)
    PROVE  SealingInv'
  <1>1. PICK s : sealed' = sealed \cup {s} /\ s.iv \in ClientIvs /\ s.key = ud[c].key
    BY DEF ClientSeals
  <1>2. /\ s.key.eph = ud[c].eph /\ ud[c].eph # 0
        /\ ud[c].eph \in Nat /\ ud[c].eph < fresh /\ ud'[c].eph = ud[c].eph
    BY <1>1, EphDrawn, RequestFits DEF SystemInv, ClientSeals, StateFits
  <1>3. OfferedUnused'
    <2>1. ASSUME NEW x \in sealed', NEW d \in Clients, Offered(d)'
          PROVE  conn'[d].msg.eph # x.key.eph
      <3>1. CASE x \in sealed
        BY <2>1, <3>1, OfferedBefore, FreshGrows DEF SealingInv, OfferedUnused
      <3>2. CASE x = s
        BY <1>2, <2>1, <3>2 DEF SystemInv, KeysApart
      <3> QED
        BY <1>1, <3>1, <3>2
    <2> QED
      BY <1>1, <1>2, <2>1, FreshGrows DEF SealingInv, OfferedUnused
  <1>4. ReceivedUnused'
    <2>1. ASSUME NEW d \in Clients, ud'[d].state = "PRE_RESPONSE_RECEIVED",
                 NEW x \in sealed', x.iv \in ClientIvs
          PROVE  x.key.eph # ud'[d].eph
      <3>1. CASE x \in sealed
        BY <2>1, <3>1, ReceivedBefore DEF SealingInv, OfferedUnused, ReceivedUnused
      <3>2. CASE x = s
        <4>1. d # c
          BY <2>1 DEF ClientSeals
        <4>2. ud'[d].eph # 0
          BY <2>1 DEF SystemInv, EachClientFits, ClientFits, StateFits
        <4> QED
          BY <1>2, <3>2, <4>1, <4>2 DEF SystemInv, KeysApart
      <3> QED
        BY <1>1, <3>1, <3>2
    <2> QED
      BY <2>1 DEF ReceivedUnused
  <1>5. RequestSealsOnce'
    <2>1. s.iv \notin ServerIvs
      BY <1>1 DEF ClientIvs, ServerIvs
    <2> QED
      BY <1>1, <2>1 DEF SealingInv, RequestSealsOnce, ClientSeals, rpVars
  <1>6. IvUniquePerKey'
    <2>1. \A x \in sealed : ~(x.key = s.key /\ x.iv = s.iv)
      BY <1>1, <1>2 DEF SealingInv, ReceivedUnused, ClientSeals
    <2> QED
      BY <1>1, <2>1 DEF SealingInv, IvUniquePerKey
  <1> QED
    BY <1>3, <1>4, <1>5, <1>6 DEF SealingInv

(* So does the server.                                                     *)
LEMMA ServerSealsOnce ==
    ASSUME SystemInv, SystemInv', SealingInv, Next, ServerSeals
    PROVE  SealingInv'
  <1>1. PICK s : sealed' = sealed \cup {s} /\ s.iv \in ServerIvs /\ s.key = rp.key
    BY DEF ServerSeals
  <1>2. /\ s.key.kep = episode /\ episode \in Nat
        /\ s.key.eph \in Nat /\ s.key.eph < fresh
        /\ rp'.key = rp.key /\ s.iv \notin ClientIvs
    BY <1>1 DEF SealingInv, RequestSealsOnce, ServerSeals, SystemInv, IInv, RpTypeOK, RpData,
       GcmKeys, KeysApart, ClientIvs, ServerIvs
  <1>3. OfferedUnused'
    <2>1. ASSUME NEW x \in sealed', NEW d \in Clients, Offered(d)'
          PROVE  conn'[d].msg.eph # x.key.eph
      <3>1. CASE x \in sealed
        BY <2>1, <3>1, OfferedBefore, FreshGrows DEF SealingInv, OfferedUnused
      <3>2. CASE x = s
        BY <1>1, <1>2, <2>1, <3>2 DEF SystemInv, KeysApart
      <3> QED
        BY <1>1, <3>1, <3>2
    <2> QED
      BY <1>1, <1>2, <2>1, FreshGrows DEF SealingInv, OfferedUnused
  <1>4. ReceivedUnused'
    BY <1>1, <1>2 DEF SealingInv, ReceivedUnused, ServerSeals, udVars
  <1>5. RequestSealsOnce'
    <2>1. rp'.state \in PastRequest /\ rp'.state \notin BeforeRequest /\ episode' = episode
      BY DEF ServerSeals, PastRequest, BeforeRequest
    <2> QED
      BY <1>1, <1>2, <2>1 DEF SealingInv, RequestSealsOnce
  <1>6. IvUniquePerKey'
    <2>1. rp.state \notin PastRequest
      BY DEF ServerSeals, PastRequest, BeforeRequest
    <2>2. \A x \in sealed : ~(x.key = s.key /\ x.iv = s.iv)
      BY <1>1, <1>2, <2>1 DEF SealingInv, RequestSealsOnce
    <2> QED
      BY <1>1, <2>2 DEF SealingInv, IvUniquePerKey
  <1> QED
    BY <1>3, <1>4, <1>5, <1>6 DEF SealingInv

(* No step of the system seals twice with one key and one IV.              *)
LEMMA NextSealingInv ==
    SystemInv /\ SealingInv /\ [SealingNext]_<<vars, sealed>> => SystemInv' /\ SealingInv'
  <1> SUFFICES ASSUME SystemInv, SealingInv, [SealingNext]_<<vars, sealed>>
               PROVE  SystemInv' /\ SealingInv'
    OBVIOUS
  <1>1. SystemInv'
    BY NextSystemInv DEF SealingNext
  <1>2. CASE SealingNext
    BY <1>1, <1>2, SealingCases, SealsNothing, ClientSealsOnce, ServerSealsOnce DEF SealingNext
  <1>3. CASE UNCHANGED <<vars, sealed>>
    <2>1. UNCHANGED <<conn, fresh, rp, episode, ud, sealed>>
      BY <1>3 DEF vars, rpVars, udVars
    <2>2. OfferedUnused' /\ ReceivedUnused'
      BY <2>1 DEF SealingInv, OfferedUnused, ReceivedUnused, Offered
    <2>3. RequestSealsOnce' /\ IvUniquePerKey'
      BY <2>1 DEF SealingInv, RequestSealsOnce, IvUniquePerKey
    <2> QED
      BY <1>1, <2>2, <2>3 DEF SealingInv
  <1> QED
    BY <1>1, <1>2, <1>3

(* No key encrypts two different fields under the IV of one packet type,   *)
(* whatever programs the users start, however often server and             *)
(* connections fail and whichever connection a request goes to: for any    *)
(* clients, authenticators, options and bounds (get_message_iv,            *)
(* derive_gcm_key).                                                        *)
THEOREM KeysSealOnce == SealingSpec => []IvUniquePerKey
  <1>1. SealingInit => SystemInv /\ SealingInv
    <2>1. SealingInit => rp.state \notin BeforeRequest /\ sealed = {}
      BY DEF SealingInit, Init, RpInit, Blank, BeforeRequest
    <2>2. SealingInit => \A c \in Clients : ud[c].state # "PRE_RESPONSE_RECEIVED"
      BY DEF SealingInit, Init, UdInit, Program
    <2> QED
      BY <2>1, <2>2, InitSystemInv DEF SealingInit, SealingInv, OfferedUnused, ReceivedUnused,
         RequestSealsOnce, IvUniquePerKey
  <1>2. SealingInv => IvUniquePerKey
    BY DEF SealingInv
  <1> QED
    BY <1>1, <1>2, NextSealingInv, PTL DEF SealingSpec

=============================================================================
