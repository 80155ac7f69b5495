-------------------------- MODULE FidoSystemProofs --------------------------
(***************************************************************************)
(* The safety of the whole system for every set of clients, hosts, names,  *)
(* authenticators and launch options, and every bound: proofs about        *)
(* FidoSystem.tla, with the invariant of SystemInvariant.tla.  What holds  *)
(* of the server against any client and of the client against any server   *)
(* is taken callback by callback from PartiesProofs.tla; the parameters of *)
(* AnyClient.tla and AnyServer.tla that come along play no part.           *)
(***************************************************************************)
EXTENDS SystemInvariant, PartiesProofs

-----------------------------------------------------------------------------
(* A step of one client or of its connection.                              *)

(* The clients other than c and their connections stay as they are.        *)
OnlyAt(c) == \A x \in Clients : x # c => conn'[x] = conn[x] /\ ud'[x] = ud[x]

(* Client c gets the ud_data u, its handshake the phase and the message.   *)
Moves(c, phase, m, u) ==
    /\ conn'[c].phase = phase /\ conn'[c].msg = m
    /\ ud'[c] = u
    /\ OnlyAt(c)

(* The shape of ud and conn, for one client.                               *)
LEMMA Shapes ==
    ASSUME UdIInv
    PROVE  /\ ud \in [Clients -> UdRecord] /\ conn = [x \in Clients |-> conn[x]]
           /\ fresh \in Nat /\ dev \in [Devices -> SUBSET DeviceCreds]
  BY DEF UdIInv, UdTypeOK, UdRecord

(* A client action that sends a message.                                   *)
LEMMA MovesWithMessage ==
    ASSUME UdIInv, NEW c \in Clients, NEW phase, NEW m, NEW u,
           Send(c, phase, m), ud' = [ud EXCEPT ![c] = u]
    PROVE  Moves(c, phase, m, u)
  BY Shapes DEF Send, Moves, OnlyAt

(* A server action that sends a message.                                   *)
LEMMA MovesConnection ==
    ASSUME UdIInv, NEW c \in Clients, NEW phase, NEW m,
           Send(c, phase, m), UNCHANGED ud
    PROVE  Moves(c, phase, m, ud[c])
  BY Shapes DEF Send, Moves, OnlyAt

(* What fits one value of the random source fits a later one.              *)
LEMMA FitsLater ==
    ASSUME NEW n \in Nat, NEW k \in Nat, n =< k, NEW phase, NEW u \in UdRecord, NEW m,
           StateFits(u, n), PhaseFits(phase, u, m, n)
    PROVE  StateFits(u, k) /\ PhaseFits(phase, u, m, k)
  <1>1. StateFits(u, k)
    BY DEF StateFits, UdRecord
  <1>2. RequestWellFormed(m, n) => RequestWellFormed(m, k)
    BY DEF RequestWellFormed
  <1> QED
    BY <1>1, <1>2 DEF PhaseFits

(* What a step of client c has to do for every client to fit.              *)
LEMMA FitsStep ==
    ASSUME UdIInv, EachClientFits, NEW c \in Clients, NEW phase, NEW m, NEW u,
           Moves(c, phase, m, u), fresh' \in Nat, fresh' >= fresh,
           StateFits(u, fresh'), PhaseFits(phase, u, m, fresh')
    PROVE  EachClientFits'
  <1>1. ASSUME NEW x \in Clients, x # c
        PROVE  ClientFits(x)'
    <2>1. conn'[x] = conn[x] /\ ud'[x] = ud[x] /\ ud[x] \in UdRecord /\ fresh \in Nat
      BY <1>1, Shapes DEF Moves, OnlyAt
    <2>2. StateFits(ud[x], fresh) /\ PhaseFits(conn[x].phase, ud[x], conn[x].msg, fresh)
      BY DEF EachClientFits, ClientFits
    <2>3. /\ StateFits(ud[x], fresh')
          /\ PhaseFits(conn[x].phase, ud[x], conn[x].msg, fresh')
      BY <2>1, <2>2, FitsLater
    <2> QED
      BY <2>1, <2>3 DEF ClientFits
  <1>2. ClientFits(c)'
    BY DEF ClientFits, Moves
  <1> QED
    BY <1>1, <1>2 DEF EachClientFits

-----------------------------------------------------------------------------
(* Where the client's callbacks take it.                                   *)

(* What stays as long as the program runs and is given no other key.       *)
SameProgram(u, v) ==
    /\ u.name = v.name /\ u.ticket = v.ticket /\ u.host = v.host /\ u.ceremony = v.ceremony
    /\ u.eph = v.eph /\ u.key = v.key

(* A launch: a program without a key.                                      *)
LEMMA LaunchMoves ==
    ASSUME UdIInv, EachClientFits, NEW c \in Clients, NEW o \in LaunchOptions, Launch(c, o)
    PROVE  /\ EachClientFits'
           /\ \E u : Moves(c, "idle", NoExt, u) /\ u.eph = 0
  <1> DEFINE u == Program(InitialState(o.mode), InitialCeremony(o.mode), o.name, o.ticket, o.host)
  <1>1. o \in LaunchRecords /\ (o.mode = "REGISTER" => o.name # Null)
          /\ (o.mode = "AUTHENTICATE_SERVER_SIDE" => o.name # Null)
    BY UserDeviceAssumption
  <1>2. ud' = [ud EXCEPT ![c] = u] /\ Send(c, "idle", NoExt) /\ fresh' = fresh
    BY DEF Launch, Send
  <1>3. Moves(c, "idle", NoExt, u)
    BY <1>2, MovesWithMessage
  <1>4. fresh \in Nat /\ 0 < fresh
    BY DEF UdIInv, EachClientFits, ClientFits, StateFits, UdTypeOK
  <1>5. StateFits(u, fresh)
    BY <1>1, <1>4 DEF StateFits, Program, InitialState, InitialCeremony, LaunchRecords,
       RegAnswerStates, AuthAnswerStates, NoKey, GcmKey
  <1>6. PhaseFits("idle", u, NoExt, fresh)
    BY DEF PhaseFits, Phases
  <1>7. u.eph = 0
    BY DEF Program
  <1> HIDE DEF u
  <1> QED
    BY <1>2, <1>3, <1>4, <1>5, <1>6, <1>7, FitsStep

(* A ClientHello: the fields of the program, sealed with its key.          *)
LEMMA ClientHelloMoves ==
    ASSUME UdIInv, EachClientFits, NEW c \in Clients, ClientHello(c)
    PROVE  /\ EachClientFits'
           /\ \E u, m : Moves(c, "hello", m, u) /\ SameProgram(u, ud[c])
           /\ UNCHANGED <<fresh, dev, launches>>
  <1>1. ud[c] \in UdRecord /\ fresh \in Nat /\ StateFits(ud[c], fresh)
    BY Shapes DEF EachClientFits, ClientFits
  <1>2. \E m, state : /\ SendHello(c, m, state) /\ state \in IndicationStates
                      /\ HelloOf([ud[c] EXCEPT !.state = state], m)
                      /\ StateFits([ud[c] EXCEPT !.state = state], fresh)
    <2> USE DEF HelloOf, StateFits, UdRecord, IndicationStates, RegAnswerStates, AuthAnswerStates
    <2>1. CASE SendPlainHello(c)
      BY <1>1, <2>1 DEF SendPlainHello
    <2>2. CASE SendPreIndication(c)
      BY <1>1, <2>2 DEF SendPreIndication
    <2>3. CASE SendRegIndication(c)
      BY <1>1, <2>3 DEF SendRegIndication
    <2>4. CASE SendAuthIndicationServerSide(c)
      BY <1>1, <2>4 DEF SendAuthIndicationServerSide
    <2>5. CASE SendAuthIndicationDiscoverable(c)
      BY <1>1, <2>5 DEF SendAuthIndicationDiscoverable
    <2> QED
      BY <2>1, <2>2, <2>3, <2>4, <2>5 DEF ClientHello
  <1>3. PICK m, state : /\ SendHello(c, m, state) /\ state \in IndicationStates
                        /\ HelloOf([ud[c] EXCEPT !.state = state], m)
                        /\ StateFits([ud[c] EXCEPT !.state = state], fresh)
    BY <1>2
  <1> DEFINE u == [ud[c] EXCEPT !.state = state]
  <1>4. ud' = [ud EXCEPT ![c] = u] /\ Send(c, "hello", m) /\ UNCHANGED <<fresh, dev, launches>>
    BY <1>3 DEF SendHello
  <1>5. u.state = state /\ SameProgram(u, ud[c])
    BY <1>1 DEF UdRecord, SameProgram
  <1> HIDE DEF u
  <1>6. Moves(c, "hello", m, u)
    BY <1>4, MovesWithMessage
  <1>7. PhaseFits("hello", u, m, fresh) /\ StateFits(u, fresh)
    BY <1>3, <1>5 DEF PhaseFits, Phases, u
  <1> QED
    BY <1>1, <1>4, <1>5, <1>6, <1>7, FitsStep

(* The handshake fails on the client's side, or the connection breaks.     *)
Fails(c) ==
    \/ RefuseHello(c)
    \/ Drop(c) /\ UNCHANGED udVars
    \/ conn[c].phase = "request" /\ RefuseRequest(c, conn[c].msg)
    \/ conn[c].phase = "request" /\ RejectAuthRequest(c, conn[c].msg)
    \/ FailRegResponse(c)
    \/ FailAuthResponse(c)
    \/ FailResponse(c)

(* The message and the phase of a failed handshake fit any program.        *)
LEMMA FailsWith ==
    ASSUME UdIInv, EachClientFits, NEW c \in Clients, NEW u, Moves(c, "failed", NoExt, u),
           StateFits(u, fresh'), fresh' \in Nat, fresh' >= fresh
    PROVE  EachClientFits'
  <1>1. PhaseFits("failed", u, NoExt, fresh')
    BY DEF PhaseFits, Phases
  <1> QED
    BY <1>1, FitsStep

(* Whatever fails, the program keeps its key and what it was started with. *)
LEMMA FailsMoves ==
    ASSUME UdIInv, EachClientFits, DeviceIds, NEW c \in Clients, Fails(c)
    PROVE  /\ EachClientFits'
           /\ \E u : Moves(c, "failed", NoExt, u) /\ SameProgram(u, ud[c])
           /\ fresh' \in Nat /\ fresh' >= fresh
  <1>1. ud[c] \in UdRecord /\ fresh \in Nat /\ StateFits(ud[c], fresh)
    BY Shapes DEF EachClientFits, ClientFits
  <1>2. CASE \/ RefuseHello(c)
             \/ Drop(c) /\ UNCHANGED udVars
             \/ RefuseRequest(c, conn[c].msg)
    <2>1. ud' = [ud EXCEPT ![c] = ud[c]] /\ Send(c, "failed", NoExt) /\ fresh' = fresh
      BY <1>2, Shapes DEF RefuseHello, Drop, RefuseRequest, udVars, Alert
    <2>2. SameProgram(ud[c], ud[c])
      BY DEF SameProgram
    <2>3. Moves(c, "failed", NoExt, ud[c])
      BY <2>1, MovesWithMessage
    <2>4. EachClientFits'
      BY <1>1, <2>1, <2>3, FailsWith
    <2> QED
      BY <1>1, <2>1, <2>2, <2>3, <2>4
  <1>3. CASE RejectAuthRequest(c, conn[c].msg)
    <2> DEFINE u == [ud[c] EXCEPT !.chal = conn[c].msg.chal, !.rpId = RpIdAfter(c, conn[c].msg)]
    <2>1. ud' = [ud EXCEPT ![c] = u] /\ Send(c, "failed", NoExt) /\ fresh' = fresh
      BY <1>3 DEF RejectAuthRequest, Alert
    <2>2. SameProgram(u, ud[c]) /\ StateFits(u, fresh)
      BY <1>1, <1>3 DEF SameProgram, StateFits, UdRecord, RejectAuthRequest, AwaitsAuthRequest,
         RegAnswerStates, AuthAnswerStates
    <2> HIDE DEF u
    <2>3. Moves(c, "failed", NoExt, u)
      BY <2>1, MovesWithMessage
    <2>4. fresh' \in Nat /\ fresh' >= fresh /\ StateFits(u, fresh')
      BY <1>1, <2>1, <2>2
    <2>5. EachClientFits'
      BY <2>3, <2>4, FailsWith
    <2> QED
      BY <2>2, <2>3, <2>4, <2>5
  <1>4. CASE FailRegResponse(c)
    <2> DEFINE u == [ud[c] EXCEPT !.rpId = RpIdUsed(c), !.cred = fresh, !.uses = ud[c].uses + 1]
    <2>1. ud' = [ud EXCEPT ![c] = u] /\ Send(c, "failed", NoExt) /\ fresh' = fresh + 1
      BY <1>4 DEF FailRegResponse, Alert
    <2>2. SameProgram(u, ud[c]) /\ StateFits(u, fresh + 1)
      BY <1>1, <1>4 DEF SameProgram, StateFits, UdRecord, RegAnswerStates, AuthAnswerStates
    <2> HIDE DEF u
    <2>3. Moves(c, "failed", NoExt, u)
      BY <2>1, MovesWithMessage
    <2>4. fresh' \in Nat /\ fresh' >= fresh /\ StateFits(u, fresh')
      BY <1>1, <2>1, <2>2
    <2>5. EachClientFits'
      BY <2>3, <2>4, FailsWith
    <2> QED
      BY <2>2, <2>3, <2>4, <2>5
  <1>5. CASE FailResponse(c)
    <2> DEFINE u == [ud[c] EXCEPT !.rpId = RpIdUsed(c)]
    <2>1. ud' = [ud EXCEPT ![c] = u] /\ Send(c, "failed", NoExt) /\ fresh' = fresh
      BY <1>5 DEF FailResponse, Alert
    <2>2. SameProgram(u, ud[c]) /\ StateFits(u, fresh)
      BY <1>1, <1>5 DEF SameProgram, StateFits, UdRecord, RegAnswerStates, AuthAnswerStates
    <2> HIDE DEF u
    <2>3. Moves(c, "failed", NoExt, u)
      BY <2>1, MovesWithMessage
    <2>4. fresh' \in Nat /\ fresh' >= fresh /\ StateFits(u, fresh')
      BY <1>1, <2>1, <2>2
    <2>5. EachClientFits'
      BY <2>3, <2>4, FailsWith
    <2> QED
      BY <2>2, <2>3, <2>4, <2>5
  <1>6. CASE FailAuthResponse(c)
    <2>1. PICK d \in Attached[c] : \E k \in Assertable(d, c, RpIdUsed(c)) :
            \E handle \in Handles(c, k) \cup {ud[c].user} :
              ud' = [ud EXCEPT ![c].rpId = RpIdUsed(c), ![c].user = handle, ![c].cred = k.cred,
                               ![c].uses = ud[c].uses + 1]
      BY <1>6 DEF FailAuthResponse
    <2>2. PICK k \in Assertable(d, c, RpIdUsed(c)) :
            \E handle \in Handles(c, k) \cup {ud[c].user} :
              ud' = [ud EXCEPT ![c].rpId = RpIdUsed(c), ![c].user = handle, ![c].cred = k.cred,
                               ![c].uses = ud[c].uses + 1]
      BY <2>1
    <2>3. PICK handle \in Handles(c, k) \cup {ud[c].user} :
            ud' = [ud EXCEPT ![c].rpId = RpIdUsed(c), ![c].user = handle, ![c].cred = k.cred,
                             ![c].uses = ud[c].uses + 1]
      BY <2>2
    <2>4. k.cred \in Nat /\ k.cred < fresh
      BY Shapes, UserDeviceAssumption DEF Assertable, DeviceIds, DeviceCreds
    <2> DEFINE u == [ud[c] EXCEPT !.rpId = RpIdUsed(c), !.user = handle, !.cred = k.cred,
                                  !.uses = ud[c].uses + 1]
    <2>5. ud' = [ud EXCEPT ![c] = u]
      BY <2>3
    <2>6. Send(c, "failed", NoExt) /\ fresh' = fresh
      BY <1>6 DEF FailAuthResponse, Alert
    <2>7. SameProgram(u, ud[c])
      BY <1>1 DEF SameProgram, UdRecord
    <2>8. StateFits(u, fresh)
      BY <1>1, <2>4 DEF StateFits, UdRecord, RegAnswerStates, AuthAnswerStates
    <2> HIDE DEF u
    <2>9. Moves(c, "failed", NoExt, u)
      BY <2>5, <2>6, MovesWithMessage
    <2>10. fresh' \in Nat /\ fresh' >= fresh /\ StateFits(u, fresh')
      BY <1>1, <2>6, <2>8
    <2>11. EachClientFits'
      BY <2>9, <2>10, FailsWith
    <2> QED
      BY <2>7, <2>9, <2>10, <2>11
  <1> QED
    BY <1>2, <1>3, <1>4, <1>5, <1>6 DEF Fails

-----------------------------------------------------------------------------
(* A request and its answer.                                               *)

(* What ud_data becomes when a request has been stored ...                 *)
WithPreResponse(u, m) ==
    [u EXCEPT !.state = "PRE_RESPONSE_RECEIVED", !.eph = m.eph, !.key = m.key]
WithRegRequest(u, m) ==
    [u EXCEPT !.state = "REG_REQUEST_RECEIVED", !.chal = m.chal, !.rpId = m.rpId,
              !.user = m.user, !.exclude = m.exclude]
WithAuthRequest(u, m) ==
    [u EXCEPT !.state = "AUTH_REQUEST_RECEIVED", !.chal = m.chal, !.rpId = m.rpId,
              !.allow = m.allow]

(* ... and when it has been answered.                                      *)
WithRegResponse(u, rpId, cred) ==
    [u EXCEPT !.state = "REG_RESPONSE_SENT", !.rpId = rpId, !.cred = cred, !.uses = u.uses + 1]
WithAuthResponse(u, rpId, cred, handle) ==
    [u EXCEPT !.state = "AUTH_RESPONSE_SENT", !.rpId = rpId, !.user = handle, !.cred = cred,
              !.uses = u.uses + 1]

(* What a message in the request phase may be.                             *)
LEMMA RequestFits ==
    ASSUME UdIInv, EachClientFits, NEW c \in Clients
    PROVE  /\ ud[c] \in UdRecord /\ fresh \in Nat /\ StateFits(ud[c], fresh)
           /\ conn[c].phase = "request" =>
                RequestWellFormed(conn[c].msg, fresh) /\ ud[c].state \in IndicationStates
  BY Shapes DEF EachClientFits, ClientFits, PhaseFits

(* A Certificate without the extension.                                    *)
LEMMA PlainAnswerMoves ==
    ASSUME UdIInv, EachClientFits, NEW c \in Clients,
           \/ conn[c].phase = "request" /\ IgnoreRequest(c, conn[c].msg)
           \/ SendNoResponse(c)
    PROVE  /\ EachClientFits' /\ Moves(c, "cert", NoExt, ud[c]) /\ UNCHANGED <<fresh, dev>>
           /\ ud[c].state \in IndicationStates \cup {"PRE_RESPONSE_RECEIVED"}
  <1>1. Send(c, "cert", NoExt) /\ UNCHANGED <<fresh, udVars>>
    BY DEF IgnoreRequest, SendNoResponse
  <1>2. UNCHANGED <<fresh, ud, dev>>
    BY <1>1 DEF udVars
  <1>3. ud[c].state \in IndicationStates \cup {"PRE_RESPONSE_RECEIVED"}
    BY RequestFits DEF SendNoResponse
  <1>4. Moves(c, "cert", NoExt, ud[c])
    BY <1>1, <1>2, MovesConnection
  <1>5. PhaseFits("cert", ud[c], NoExt, fresh)
    BY <1>3 DEF PhaseFits, Phases, CertificateOf
  <1>6. EachClientFits'
    BY <1>2, <1>4, <1>5, RequestFits, FitsStep
  <1> QED
    BY <1>2, <1>3, <1>4, <1>6

(* A pre-response: the program gets its key.                               *)
LEMMA PreResponseMoves ==
    ASSUME UdIInv, EachClientFits, NEW c \in Clients, conn[c].phase = "request",
           ProcessPreResponse(c, conn[c].msg)
    PROVE  /\ EachClientFits' /\ Moves(c, "asked", NoExt, WithPreResponse(ud[c], conn[c].msg))
           /\ UNCHANGED <<fresh, dev>> /\ Offered(c)
  <1> DEFINE m == conn[c].msg
             u == WithPreResponse(ud[c], m)
  <1>1. /\ ud' = [ud EXCEPT ![c] = u] /\ Send(c, "asked", NoExt) /\ UNCHANGED <<fresh, dev>>
        /\ m.type = "PRE_RESPONSE" /\ ud[c].state = "PRE_INDICATION_SENT"
    BY DEF ProcessPreResponse, WithPreResponse
  <1>2. m.eph \in Nat \ {0} /\ m.eph < fresh /\ m.key \in GcmKeys /\ m.key.eph = m.eph
    BY <1>1, RequestFits DEF RequestWellFormed, NoExt
  <1>3. ud[c] \in UdRecord /\ fresh \in Nat /\ StateFits(ud[c], fresh)
    BY RequestFits
  <1>4. StateFits(u, fresh) /\ u.state = "PRE_RESPONSE_RECEIVED"
    BY <1>1, <1>2, <1>3 DEF StateFits, UdRecord, WithPreResponse, RegAnswerStates,
       AuthAnswerStates
  <1>5. Offered(c)
    BY <1>1 DEF Offered
  <1> HIDE DEF u
  <1>6. PhaseFits("asked", u, NoExt, fresh)
    BY <1>4 DEF PhaseFits, Phases
  <1>7. Moves(c, "asked", NoExt, u)
    BY <1>1, MovesWithMessage
  <1>8. EachClientFits'
    BY <1>1, <1>3, <1>4, <1>6, <1>7, FitsStep
  <1> QED
    BY <1>1, <1>5, <1>7, <1>8 DEF u

(* A registration request is stored.                                       *)
LEMMA RegRequestMoves ==
    ASSUME UdIInv, EachClientFits, NEW c \in Clients, conn[c].phase = "request",
           ProcessRegRequest(c, conn[c].msg)
    PROVE  /\ EachClientFits' /\ Moves(c, "asked", NoExt, WithRegRequest(ud[c], conn[c].msg))
           /\ UNCHANGED <<fresh, dev>> /\ AskedToRegister(c)
           /\ ud[c].state = "REG_INDICATION_SENT" /\ ud[c].ceremony = "REGISTRATION"
           /\ ud[c].eph # 0 /\ ud[c].key = conn[c].msg.key /\ ud[c].name = conn[c].msg.name
  <1> DEFINE m == conn[c].msg
             u == WithRegRequest(ud[c], m)
  <1>1. /\ ud' = [ud EXCEPT ![c] = u] /\ Send(c, "asked", NoExt) /\ UNCHANGED <<fresh, dev>>
        /\ m.type = "REG_REQUEST" /\ ud[c].state = "REG_INDICATION_SENT"
        /\ m.key = ud[c].key /\ m.name = ud[c].name
    BY DEF ProcessRegRequest, WithRegRequest, RegRequestOpens
  <1>2. m.chal \in Nat \ {0}
    BY <1>1, RequestFits DEF RequestWellFormed, NoExt
  <1>3. ud[c] \in UdRecord /\ fresh \in Nat /\ StateFits(ud[c], fresh)
    BY RequestFits
  <1>4. StateFits(u, fresh) /\ u.state = "REG_REQUEST_RECEIVED"
    BY <1>1, <1>2, <1>3 DEF StateFits, UdRecord, WithRegRequest, RegAnswerStates,
       AuthAnswerStates
  <1>5. AskedToRegister(c) /\ ud[c].ceremony = "REGISTRATION" /\ ud[c].eph # 0
    BY <1>1, <1>3 DEF AskedToRegister, StateFits
  <1> HIDE DEF u
  <1>6. PhaseFits("asked", u, NoExt, fresh)
    BY <1>4 DEF PhaseFits, Phases
  <1>7. Moves(c, "asked", NoExt, u)
    BY <1>1, MovesWithMessage
  <1>8. EachClientFits'
    BY <1>1, <1>3, <1>4, <1>6, <1>7, FitsStep
  <1> QED
    BY <1>1, <1>5, <1>7, <1>8 DEF u

(* So is an authentication request; it always names an RP id.              *)
LEMMA AuthRequestMoves ==
    ASSUME UdIInv, EachClientFits, NEW c \in Clients, conn[c].phase = "request",
           ProcessAuthRequest(c, conn[c].msg)
    PROVE  /\ EachClientFits' /\ Moves(c, "asked", NoExt, WithAuthRequest(ud[c], conn[c].msg))
           /\ UNCHANGED <<fresh, dev>> /\ AskedToLogIn(c)
           /\ ud[c].ceremony \in {"AUTH_SERVER_SIDE", "AUTH_DISCOVERABLE"}
           /\ IF ud[c].ceremony = "AUTH_SERVER_SIDE"
              THEN conn[c].msg.key = ud[c].key /\ conn[c].msg.key # NoKey /\ ud[c].eph # 0
              ELSE conn[c].msg.key = NoKey
  <1> DEFINE m == conn[c].msg
             u == WithAuthRequest(ud[c], m)
  <1>1. m.type = "AUTH_REQUEST" /\ AwaitsAuthRequest(c) /\ AllowListOpens(c, m)
    BY DEF ProcessAuthRequest
  <1>2. m.chal \in Nat \ {0} /\ m.rpId \in Hosts
    BY <1>1, RequestFits DEF RequestWellFormed, NoExt
  <1>3. ud[c] \in UdRecord /\ fresh \in Nat /\ StateFits(ud[c], fresh)
    BY RequestFits
  <1>4. RpIdAfter(c, m) = m.rpId
    BY <1>2, NullAssumption DEF RpIdAfter
  <1>5. ud' = [ud EXCEPT ![c] = u] /\ Send(c, "asked", NoExt) /\ UNCHANGED <<fresh, dev>>
    BY <1>4 DEF ProcessAuthRequest, WithAuthRequest
  <1>6. /\ ud[c].ceremony \in {"AUTH_SERVER_SIDE", "AUTH_DISCOVERABLE"}
        /\ ud[c].ceremony = "AUTH_SERVER_SIDE" => ud[c].eph # 0
    BY <1>1, <1>3 DEF AwaitsAuthRequest, StateFits
  <1>7. StateFits(u, fresh) /\ u.state = "AUTH_REQUEST_RECEIVED"
    BY <1>2, <1>3, <1>6 DEF StateFits, UdRecord, WithAuthRequest, RegAnswerStates,
       AuthAnswerStates
  <1>8. AskedToLogIn(c)
    BY <1>1 DEF AskedToLogIn
  <1> HIDE DEF u
  <1>9. PhaseFits("asked", u, NoExt, fresh)
    BY <1>7 DEF PhaseFits, Phases
  <1>10. Moves(c, "asked", NoExt, u)
    BY <1>5, MovesWithMessage
  <1>11. EachClientFits'
    BY <1>3, <1>5, <1>7, <1>9, <1>10, FitsStep
  <1> QED
    BY <1>1, <1>5, <1>6, <1>8, <1>10, <1>11 DEF u, AllowListOpens

(* A registration is answered with a new credential.                       *)
LEMMA RegResponseMoves ==
    ASSUME UdIInv, EachClientFits, NEW c \in Clients, CreateRegResponse(c)
    PROVE  /\ EachClientFits' /\ fresh' = fresh + 1
           /\ \E m : Moves(c, "cert", m, WithRegResponse(ud[c], RpIdUsed(c), fresh))
           /\ conn[c].phase = "asked" /\ ud[c].state = "REG_REQUEST_RECEIVED"
           /\ \E d \in Devices :
                MakeCredential(d, fresh, ud[c].user, RpIdUsed(c), Discoverable, ud[c].exclude)
  <1> DEFINE u == WithRegResponse(ud[c], RpIdUsed(c), fresh)
  <1>1. /\ ud' = [ud EXCEPT ![c] = u] /\ fresh' = fresh + 1
        /\ conn[c].phase = "asked" /\ ud[c].state = "REG_REQUEST_RECEIVED"
    BY DEF CreateRegResponse, WithRegResponse
  <1>2. PICK uv \in CredUv :
          Send(c, "cert", RegResponse(fresh, ud[c].chal, ud[c].host, RpIdUsed(c), uv, 0, TRUE))
    BY DEF CreateRegResponse
  <1> DEFINE m == RegResponse(fresh, ud[c].chal, ud[c].host, RpIdUsed(c), uv, 0, TRUE)
  <1>3. ud[c] \in UdRecord /\ fresh \in Nat /\ StateFits(ud[c], fresh) /\ RpIdUsed(c) \in Hosts
    BY RequestFits, RpIdUsedIsHost
  <1>4. /\ u.state = "REG_RESPONSE_SENT" /\ u.cred = fresh /\ u.chal = ud[c].chal
        /\ u.host = ud[c].host /\ u.rpId = RpIdUsed(c)
    BY <1>3 DEF WithRegResponse, UdRecord
  <1>5. StateFits(u, fresh + 1)
    BY <1>1, <1>3 DEF StateFits, UdRecord, WithRegResponse, RegAnswerStates, AuthAnswerStates
  <1>6. \E d \in Devices :
          MakeCredential(d, fresh, ud[c].user, RpIdUsed(c), Discoverable, ud[c].exclude)
    BY UserDeviceAssumption DEF CreateRegResponse
  <1> HIDE DEF u
  <1>7. CertificateOf(u, m)
    BY <1>4 DEF CertificateOf
  <1>8. PhaseFits("cert", u, m, fresh + 1)
    BY <1>7 DEF PhaseFits, Phases
  <1>9. Moves(c, "cert", m, u)
    BY <1>1, <1>2, MovesWithMessage
  <1> HIDE DEF m
  <1>10. EachClientFits'
    BY <1>1, <1>3, <1>5, <1>8, <1>9, FitsStep
  <1> QED
    BY <1>1, <1>6, <1>9, <1>10 DEF u

(* A login is answered with an assertion by a credential that is there.    *)
LEMMA AuthResponseMoves ==
    ASSUME UdIInv, EachClientFits, DeviceIds, NEW c \in Clients, CreateAuthResponse(c)
    PROVE  /\ EachClientFits' /\ UNCHANGED fresh
           /\ conn[c].phase = "asked" /\ ud[c].state = "AUTH_REQUEST_RECEIVED"
           /\ \E d \in Devices : \E k, handle, m :
                /\ k \in Assertable(d, c, RpIdUsed(c)) /\ CountUp(d, k)
                /\ handle \in Handles(c, k)
                /\ Moves(c, "cert", m, WithAuthResponse(ud[c], RpIdUsed(c), k.cred, handle))
                /\ m.count = k.count + 1
  <1> DEFINE Sends(k, uv, handle) ==
               /\ Send(c, "cert", AuthResponse(k.cred, ud[c].chal, ud[c].host, RpIdUsed(c),
                                                uv, k.count + 1, handle, TRUE))
               /\ ud' = [ud EXCEPT ![c].state = "AUTH_RESPONSE_SENT", ![c].rpId = RpIdUsed(c),
                                   ![c].user = handle, ![c].cred = k.cred,
                                   ![c].uses = ud[c].uses + 1]
  <1>a. \E d \in Attached[c] : \E k \in Assertable(d, c, RpIdUsed(c)) :
          CountUp(d, k) /\ \E uv \in AssertUv, handle \in Handles(c, k) : Sends(k, uv, handle)
    BY DEF CreateAuthResponse
  <1> HIDE DEF Sends
  <1>1. PICK d, k, uv, handle :
          /\ d \in Attached[c] /\ k \in Assertable(d, c, RpIdUsed(c)) /\ uv \in AssertUv
          /\ handle \in Handles(c, k) /\ CountUp(d, k) /\ Sends(k, uv, handle)
    BY <1>a
  <1> USE DEF Sends
  <1> DEFINE u == WithAuthResponse(ud[c], RpIdUsed(c), k.cred, handle)
             m == AuthResponse(k.cred, ud[c].chal, ud[c].host, RpIdUsed(c),
                               uv, k.count + 1, handle, TRUE)
  <1>2. ud[c] \in UdRecord /\ fresh \in Nat /\ StateFits(ud[c], fresh) /\ RpIdUsed(c) \in Hosts
    BY RequestFits, RpIdUsedIsHost
  <1>3. d \in Devices /\ k \in dev[d] /\ k \in DeviceCreds
    BY <1>1, Shapes, UserDeviceAssumption DEF Assertable
  <1>4. k.cred \in Nat /\ k.cred < fresh /\ k.count \in Nat /\ handle \in Nat
    BY <1>1, <1>3 DEF DeviceIds, DeviceCreds, Handles
  <1>5. /\ conn[c].phase = "asked" /\ ud[c].state = "AUTH_REQUEST_RECEIVED" /\ fresh' = fresh
        /\ ud' = [ud EXCEPT ![c] = u]
    <2>1. conn[c].phase = "asked" /\ ud[c].state = "AUTH_REQUEST_RECEIVED" /\ fresh' = fresh
      BY DEF CreateAuthResponse
    <2>2. ud' = [ud EXCEPT ![c] = u]
      BY <1>1 DEF WithAuthResponse
    <2> QED
      BY <2>1, <2>2
  <1>6. /\ u.state = "AUTH_RESPONSE_SENT" /\ u.cred = k.cred /\ u.chal = ud[c].chal
        /\ u.host = ud[c].host /\ u.rpId = RpIdUsed(c) /\ u.user = handle
    BY <1>2 DEF WithAuthResponse, UdRecord
  <1>7. /\ m.type = "AUTH_RESPONSE" /\ m.count = k.count + 1 /\ m.count \in Nat
        /\ m = AuthResponse(u.cred, u.chal, u.host, u.rpId, uv, m.count, u.user, TRUE)
    BY <1>4, <1>6 DEF AuthResponse
  <1>8. StateFits(u, fresh)
    BY <1>2, <1>4, <1>5 DEF StateFits, UdRecord, WithAuthResponse, RegAnswerStates,
       AuthAnswerStates
  <1>9. Moves(c, "cert", m, u)
    BY <1>1, <1>5, MovesWithMessage
  <1> HIDE DEF u, m
  <1>10. CertificateOf(u, m)
    BY <1>1, <1>6, <1>7 DEF CertificateOf
  <1>11. PhaseFits("cert", u, m, fresh)
    BY <1>10 DEF PhaseFits, Phases
  <1>12. EachClientFits'
    BY <1>2, <1>5, <1>8, <1>9, <1>11, FitsStep
  <1>13. \E m1 : Moves(c, "cert", m1, u) /\ m1.count = k.count + 1
    BY <1>7, <1>9
  <1> QED
    BY <1>1, <1>3, <1>5, <1>12, <1>13 DEF u

-----------------------------------------------------------------------------
(* Where the server's callbacks take a handshake.  They change no ud_data  *)
(* and no authenticator.                                                   *)

(* A message that is not a request, in a phase that asks nothing of it.    *)
LEMMA PhaseMoves ==
    ASSUME UdIInv, EachClientFits, NEW c \in Clients, NEW phase \in Phases, NEW m,
           Send(c, phase, m), UNCHANGED <<fresh, udVars>>,
           phase \in {"idle", "open", "failed"} \/
             (phase = "parsed" /\ ud[c].state \in IndicationStates)
    PROVE  EachClientFits' /\ Moves(c, phase, m, ud[c])
  <1>1. UNCHANGED <<fresh, ud>>
    BY DEF udVars
  <1>2. Moves(c, phase, m, ud[c])
    BY <1>1, MovesConnection
  <1>3. PhaseFits(phase, ud[c], m, fresh)
    BY DEF PhaseFits
  <1> QED
    BY <1>1, <1>2, <1>3, RequestFits, FitsStep

(* What a ClientHello or a Certificate that arrives may be.                *)
LEMMA ArrivalFits ==
    ASSUME UdIInv, EachClientFits, NEW c \in Clients
    PROVE  /\ conn[c].phase = "hello" =>
                /\ HelloOf(ud[c], conn[c].msg) /\ HelloTyped(conn[c].msg)
                /\ ud[c].state \in IndicationStates
           /\ conn[c].phase = "cert" =>
                CertificateOf(ud[c], conn[c].msg) /\ ResponseTyped(conn[c].msg)
  <1>1. ud[c] \in UdRecord /\ StateFits(ud[c], fresh)
           /\ PhaseFits(conn[c].phase, ud[c], conn[c].msg, fresh)
    BY Shapes DEF EachClientFits, ClientFits
  <1>2. ASSUME HelloOf(ud[c], conn[c].msg)
        PROVE  HelloTyped(conn[c].msg)
    BY <1>1, <1>2 DEF HelloOf, HelloTyped, StateFits, UdRecord, NoExt, PreIndication,
       RegIndication, AuthIndicationServerSide, AuthIndicationDiscoverable
  <1>3. ASSUME CertificateOf(ud[c], conn[c].msg)
        PROVE  ResponseTyped(conn[c].msg)
    <2>1. CASE conn[c].msg = NoExt
      BY <2>1 DEF ResponseTyped, NoExt
    <2>2. CASE \E uv \in CredUv :
                 conn[c].msg = RegResponse(ud[c].cred, ud[c].chal, ud[c].host, ud[c].rpId,
                                           uv, 0, TRUE)
      BY <1>1, <2>2 DEF ResponseTyped, RegResponse, UdRecord
    <2>3. CASE /\ conn[c].msg.count \in Nat
               /\ \E uv \in AssertUv :
                    conn[c].msg = AuthResponse(ud[c].cred, ud[c].chal, ud[c].host, ud[c].rpId,
                                               uv, conn[c].msg.count, ud[c].user, TRUE)
      BY <1>1, <2>3 DEF ResponseTyped, AuthResponse, UdRecord
    <2> QED
      BY <1>3, <2>1, <2>2, <2>3 DEF CertificateOf
  <1> QED
    BY <1>1, <1>2, <1>3 DEF PhaseFits

(* A ClientHello.                                                          *)
LEMMA ServerHelloMoves ==
    ASSUME UdIInv, EachClientFits, NEW c \in Clients, ServerHello(c)
    PROVE  /\ EachClientFits' /\ UNCHANGED <<fresh, udVars, users, creds, accepted>>
           /\ \E phase \in {"parsed", "failed"} :
                Send(c, phase, NoExt) /\ Moves(c, phase, NoExt, ud[c])
  <1>1. conn[c].phase = "hello" /\ ParseClientHello(c, conn[c].msg) /\ UNCHANGED udVars
    BY DEF ServerHello
  <1>2. UNCHANGED <<users, creds, accepted>>
    BY <1>1, HelloKeepsTables
  <1>3. ud[c].state \in IndicationStates
    BY <1>1, ArrivalFits
  <1>4. UNCHANGED fresh /\ \E phase \in {"parsed", "failed"} : Send(c, phase, NoExt)
    BY <1>1 DEF ParseClientHello, ParseNoIndication, ProcessPreIndication, ProcessRegIndication,
       RejectRegIndication, ProcessAuthIndicationDiscoverable, ProcessAuthIndicationServerSide,
       RejectAuthIndicationServerSide, RefuseIndication, Alert
  <1>5. PICK phase \in {"parsed", "failed"} : Send(c, phase, NoExt)
    BY <1>4
  <1>6. EachClientFits' /\ Moves(c, phase, NoExt, ud[c])
    BY <1>1, <1>3, <1>4, <1>5, PhaseMoves DEF Phases
  <1> QED
    BY <1>1, <1>2, <1>4, <1>5, <1>6

(* The random source only goes on.                                         *)
LEMMA RequestDraws ==
    ASSUME IInv, NEW c, AddCertificateRequest(c)
    PROVE  fresh' \in Nat /\ fresh' >= fresh
  <1>1. fresh \in Nat
    BY DEF IInv, Remembered
  <1>2. fresh' \in {fresh, fresh + 1, fresh + 2}
    BY DEF AddCertificateRequest, SendNothing, CreatePreResponse, CreateRegRequest,
       FailRegRequest, CreateAuthRequestDiscoverable, CreateAuthRequestServerSide,
       FailAuthRequest, RefuseCertificateRequest
  <1> QED
    BY <1>1, <1>2

(* A CertificateRequest: what is sent is well-formed, or the handshake     *)
(* fails.                                                                  *)
Flight(c, phase, m) ==
    /\ Send(c, phase, m) /\ Moves(c, phase, m, ud[c])
    /\ \/ phase = "failed" /\ m = NoExt
       \/ phase = "request" /\ RequestWellFormed(m, fresh')

(* create_pre_response, create_reg_request and create_auth_request move    *)
(* one connection and send one message; clients and tables stay.           *)
LEMMA ServerFlightMoves ==
    ASSUME IInv, UdIInv, EachClientFits, NEW c \in Clients, ServerFlight(c)
    PROVE  /\ EachClientFits' /\ UNCHANGED <<udVars, users, creds, accepted>>
           /\ fresh' \in Nat /\ fresh' >= fresh /\ conn[c].phase = "parsed"
           /\ ud[c].state \in IndicationStates
           /\ \E phase, m : Flight(c, phase, m)
  <1>1. AddCertificateRequest(c) /\ UNCHANGED <<udVars, ud>>
    BY DEF ServerFlight, udVars
  <1>2. UNCHANGED <<users, creds, accepted>>
    BY <1>1, RequestKeepsTables
  <1>3. fresh' \in Nat /\ fresh' >= fresh /\ fresh \in Nat \ {0}
    BY <1>1, RequestDraws DEF IInv, Remembered
  <1>4. conn[c].phase = "parsed"
    BY <1>1 DEF AddCertificateRequest, SendNothing, CreatePreResponse, CreateRegRequest,
       FailRegRequest, CreateAuthRequestDiscoverable, CreateAuthRequestServerSide,
       FailAuthRequest, RefuseCertificateRequest
  <1>5. /\ ud[c].state \in IndicationStates /\ StateFits(ud[c], fresh) /\ ud[c] \in UdRecord
    BY <1>4, Shapes DEF EachClientFits, ClientFits, PhaseFits
  <1>6. rp \in RpData /\ rp.kep \in Nat /\ (rp.state # "NO_DATA" => rp.rpId \in Hosts)
    BY DEF IInv, RpTypeOK, RpData, FilledIn
  <1>7. \E phase, m : /\ Send(c, phase, m)
                      /\ \/ phase = "failed" /\ m = NoExt
                         \/ phase = "request" /\ RequestWellFormed(m, fresh')
    <2>1. CASE SendNothing(c)
      BY <2>1 DEF SendNothing, RequestWellFormed
    <2>2. CASE CreatePreResponse(c)
      <3>1. RequestWellFormed(PreResponse(fresh, GcmKey(rp.kep, fresh)), fresh + 1)
        BY <1>3, <1>6 DEF RequestWellFormed, PreResponse, GcmKey, GcmKeys
      <3> QED
        BY <2>2, <3>1 DEF CreatePreResponse
    <2>3. CASE CreateRegRequest(c)
      <3>1. PICK id, exclude :
              /\ id \in UserIdFor(rp.name) /\ exclude \in Lists(id, rp.rpId)
              /\ Send(c, "request", RegRequest(fresh, rp.rpId, rp.key, rp.name, id, exclude))
        BY <2>3 DEF CreateRegRequest
      <3>2. rp.state = "REG_INDICATION_RECEIVED" /\ rp.name \in Names
        BY <2>3 DEF CreateRegRequest, IInv, FilledIn
      <3>3. id \in Nat /\ exclude \in SUBSET Nat
        BY <3>1, <3>2, UserIdForReturns, ListsReturn
      <3>4. RequestWellFormed(RegRequest(fresh, rp.rpId, rp.key, rp.name, id, exclude), fresh')
        BY <1>3, <1>6, <3>2, <3>3 DEF RequestWellFormed, RegRequest
      <3> QED
        BY <3>1, <3>4
    <2>4. CASE CreateAuthRequestDiscoverable(c)
      <3>1. RequestWellFormed(AuthRequest(fresh, rp.rpId, NoKey, {}), fresh')
        BY <1>3, <1>6, <2>4 DEF RequestWellFormed, AuthRequest, CreateAuthRequestDiscoverable
      <3> QED
        BY <2>4, <3>1 DEF CreateAuthRequestDiscoverable
    <2>5. CASE CreateAuthRequestServerSide(c)
      <3>1. PICK allow \in Lists(rp.user, rp.rpId) :
              Send(c, "request", AuthRequest(fresh, rp.rpId, rp.key, allow))
        BY <2>5 DEF CreateAuthRequestServerSide
      <3>2. allow \in SUBSET Nat
        BY ListsReturn
      <3>3. rp.state # "NO_DATA"
        BY <2>5 DEF CreateAuthRequestServerSide
      <3>4. RequestWellFormed(AuthRequest(fresh, rp.rpId, rp.key, allow), fresh')
        BY <1>3, <1>6, <3>2, <3>3 DEF RequestWellFormed, AuthRequest
      <3> QED
        BY <3>1, <3>4
    <2>6. CASE FailRegRequest(c) \/ FailAuthRequest(c) \/ RefuseCertificateRequest(c)
      BY <2>6 DEF FailRegRequest, FailAuthRequest, RefuseCertificateRequest, Alert
    <2> QED
      BY <1>1, <2>1, <2>2, <2>3, <2>4, <2>5, <2>6 DEF AddCertificateRequest
  <1>8. PICK phase, m : /\ Send(c, phase, m)
                        /\ \/ phase = "failed" /\ m = NoExt
                           \/ phase = "request" /\ RequestWellFormed(m, fresh')
    BY <1>7
  <1>9. Moves(c, phase, m, ud[c])
    BY <1>1, <1>8, MovesConnection
  <1>10. PhaseFits(phase, ud[c], m, fresh')
    BY <1>5, <1>8 DEF PhaseFits, Phases
  <1>11. StateFits(ud[c], fresh')
    BY <1>3, <1>5 DEF StateFits, UdRecord
  <1>12. EachClientFits'
    BY <1>3, <1>9, <1>10, <1>11, FitsStep
  <1> QED
    BY <1>1, <1>2, <1>3, <1>4, <1>5, <1>8, <1>9, <1>12 DEF Flight

(* The server process ends: every connection is idle or broken.            *)
LEMMA BreakAllMoves ==
    ASSUME UdIInv, EachClientFits, BreakAll, UNCHANGED <<fresh, udVars>>
    PROVE  /\ EachClientFits' /\ UdIInv'
           /\ \A x \in Clients : conn'[x].phase \in {"idle", "failed"} /\ ud'[x] = ud[x]
  <1>1. UNCHANGED <<fresh, ud, dev, launches>>
    BY DEF udVars
  <1>2. ASSUME NEW x \in Clients
        PROVE  /\ conn'[x].phase \in {"idle", "failed"} /\ ud'[x] = ud[x]
               /\ conn[x].phase # "idle" => conn'[x].phase = "failed"
               /\ conn[x].phase = "idle" => conn'[x] = conn[x]
    BY <1>1 DEF BreakAll
  <1>3. ASSUME NEW x \in Clients
        PROVE  ClientFits(x)'
    <2>1. StateFits(ud[x], fresh)
      BY RequestFits
    <2>2. PhaseFits(conn'[x].phase, ud[x], conn'[x].msg, fresh)
      BY <1>2 DEF PhaseFits, Phases
    <2> QED
      BY <1>1, <1>2, <2>1, <2>2 DEF ClientFits
  <1>4. UdIInv'
    <2>1. UdTypeOK' /\ fresh' \in Nat
      BY <1>1 DEF UdIInv, UdTypeOK
    <2>2. conn' = [x \in Clients |-> conn'[x]]
      BY DEF BreakAll
    <2>3. ASSUME NEW x \in Clients
          PROVE  (ud[x].uses = 0 \/ (ud[x].uses = 1 /\ Done(x)))'
      <3>1. ud[x].uses = 0 \/ (ud[x].uses = 1 /\ Done(x))
        BY DEF UdIInv
      <3> QED
        BY <1>2, <3>1 DEF Done
    <2> QED
      BY <2>1, <2>2, <2>3 DEF UdIInv
  <1> QED
    BY <1>2, <1>3, <1>4 DEF EachClientFits

(* The end of a handshake on the server's side.                            *)
Ends(c) ==
    \E phase \in {"open", "failed"} : Send(c, phase, NoExt) /\ Moves(c, phase, NoExt, ud[c])

(* A Certificate: the handshake completes or fails, or the process aborts. *)
LEMMA ServerCertificateMoves ==
    ASSUME UdIInv, EachClientFits, NEW c \in Clients, ServerCertificate(c)
    PROVE  /\ EachClientFits' /\ UNCHANGED <<fresh, udVars>>
           /\ Ends(c) \/ (NextProcess /\ FailAddCreds(c, conn[c].msg))
  <1>1. /\ ParseCertificate(c, conn[c].msg) /\ UNCHANGED <<fresh, udVars>>
    BY DEF ServerCertificate, ParseCertificate, ProcessRegResponse, RejectRegResponse,
       FailAddCreds, ProcessAuthResponse, FailUpdateSignCount, RejectAuthResponse,
       RejectUnknownCredential, RejectStoredKey, RefuseCertificate, AcceptPlainCertificate
  <1>2. \/ \E phase \in {"open", "failed"} : Send(c, phase, NoExt)
        \/ NextProcess /\ FailAddCreds(c, conn[c].msg)
    BY <1>1 DEF ParseCertificate, ProcessRegResponse, RejectRegResponse, FailAddCreds,
       ProcessAuthResponse, FailUpdateSignCount, RejectAuthResponse, RejectUnknownCredential, RejectStoredKey,
       RefuseCertificate, AcceptPlainCertificate, Alert
  <1>3. CASE \E phase \in {"open", "failed"} : Send(c, phase, NoExt)
    <2>1. PICK phase \in {"open", "failed"} : Send(c, phase, NoExt)
      BY <1>3
    <2>2. EachClientFits' /\ Moves(c, phase, NoExt, ud[c])
      BY <1>1, <2>1, PhaseMoves DEF Phases
    <2> QED
      BY <1>1, <2>1, <2>2 DEF Ends
  <1>4. CASE NextProcess /\ FailAddCreds(c, conn[c].msg)
    BY <1>1, <1>4, BreakAllMoves DEF NextProcess
  <1> QED
    BY <1>2, <1>3, <1>4

-----------------------------------------------------------------------------
(* The steps of the system, by what they do to the invariant.              *)

(* Client c is left without a request, an offered key or a completed       *)
(* handshake, and its program with its key or without one.                 *)
Settles(c) ==
    /\ OnlyAt(c)
    /\ ~HasRequest(c)' /\ ~Offered(c)' /\ conn'[c].phase # "open"
    /\ ud'[c].eph = 0 \/ SameProgram(ud'[c], ud[c])

(* All there is to most steps of a client.                                 *)
ClientSettles(c) == Settles(c) /\ UNCHANGED <<fresh, dev, rpVars>>

(* A step that stores a request, and one that answers it.                  *)
Stores(c) ==
    /\ conn[c].phase = "request"
    /\ \/ ProcessPreResponse(c, conn[c].msg)
       \/ ProcessRegRequest(c, conn[c].msg)
       \/ ProcessAuthRequest(c, conn[c].msg)
    /\ UNCHANGED rpVars

Answers(c) == (CreateRegResponse(c) \/ CreateAuthResponse(c)) /\ UNCHANGED rpVars

(* The authenticator is used, and no answer follows.                       *)
Spends(c) == FailRegResponse(c) \/ FailAuthResponse(c)

(* A client that is idle, connects or fails settles.                       *)
LEMMA MovesSettles ==
    ASSUME NEW c \in Clients, NEW phase \in {"idle", "hello", "parsed", "failed"}, NEW m, NEW u,
           Moves(c, phase, m, u), u.eph = 0 \/ SameProgram(u, ud[c])
    PROVE  Settles(c)
  BY DEF Moves, Settles, HasRequest, AskedToRegister, AskedToLogIn, Registering, LoggingIn,
     Offered

(* So does one that answers with no extension.                             *)
LEMMA PlainAnswerSettles ==
    ASSUME NEW c \in Clients, Moves(c, "cert", NoExt, ud[c]),
           ud[c].state \in IndicationStates \cup {"PRE_RESPONSE_RECEIVED"}
    PROVE  Settles(c)
  BY DEF Moves, Settles, HasRequest, AskedToRegister, AskedToLogIn, Registering, LoggingIn,
     Offered, IndicationStates, RegAnswerStates, AuthAnswerStates, SameProgram

(* Every step is one of the server, settles its client, or stores or       *)
(* answers a request; and every client fits afterwards.                    *)
LEMMA ClientStepForms ==
    ASSUME UdIInv, EachClientFits, DeviceIds, NEW c \in Clients,
           \/ ClientRequest(c) \/ ClientCertificate(c)
           \/ Connect(c) \/ Start(c) \/ Reconnect(c) \/ Lose(c)
    PROVE  /\ EachClientFits' /\ UNCHANGED rpVars
           /\ \/ ClientSettles(c) \/ Stores(c) \/ Answers(c)
              \/ Spends(c) /\ Settles(c)
  <1>1. UNCHANGED rpVars
    BY DEF ClientRequest, ClientCertificate, Connect, Start, Reconnect, Lose
  <1>2. CASE Start(c)
    <2>1. PICK o \in LaunchOptions : Launch(c, o)
      BY <1>2 DEF Start
    <2>2. EachClientFits' /\ \E u : Moves(c, "idle", NoExt, u) /\ u.eph = 0
      BY <2>1, LaunchMoves
    <2>3. UNCHANGED <<fresh, dev>>
      BY <2>1 DEF Launch
    <2> QED
      BY <1>1, <2>2, <2>3, MovesSettles DEF ClientSettles
  <1>3. CASE Connect(c)
    <2>1. ClientHello(c)
      BY <1>3 DEF Connect
    <2>2. /\ EachClientFits' /\ UNCHANGED <<fresh, dev>>
          /\ \E u, m : Moves(c, "hello", m, u) /\ SameProgram(u, ud[c])
      BY <2>1, ClientHelloMoves
    <2> QED
      BY <1>1, <2>2, MovesSettles DEF ClientSettles
  <1>4. ASSUME Fails(c)
        PROVE  EachClientFits' /\ Settles(c)
    <2>1. EachClientFits' /\ \E u : Moves(c, "failed", NoExt, u) /\ SameProgram(u, ud[c])
      BY <1>4, FailsMoves
    <2> QED
      BY <2>1, MovesSettles
  <1>5. CASE Reconnect(c) \/ Lose(c)
    <2>1. Fails(c) /\ UNCHANGED <<fresh, dev>>
      BY <1>5 DEF Reconnect, Lose, Fails, RefuseHello, Drop, udVars
    <2> QED
      BY <1>1, <1>4, <2>1 DEF ClientSettles
  <1>6. CASE ClientRequest(c)
    <2>1. conn[c].phase = "request" /\ ParseCertificateRequest(c, conn[c].msg)
      BY <1>6 DEF ClientRequest
    <2>2. CASE RejectAuthRequest(c, conn[c].msg) \/ RefuseRequest(c, conn[c].msg)
      <3>1. Fails(c) /\ UNCHANGED <<fresh, dev>>
        BY <2>1, <2>2 DEF Fails, RejectAuthRequest, RefuseRequest, udVars
      <3> QED
        BY <1>1, <1>4, <3>1 DEF ClientSettles
    <2>3. CASE IgnoreRequest(c, conn[c].msg)
      BY <1>1, <2>1, <2>3, PlainAnswerMoves, PlainAnswerSettles DEF ClientSettles
    <2>4. CASE \/ ProcessPreResponse(c, conn[c].msg)
               \/ ProcessRegRequest(c, conn[c].msg)
               \/ ProcessAuthRequest(c, conn[c].msg)
      <3>1. EachClientFits'
        BY <2>1, <2>4, PreResponseMoves, RegRequestMoves, AuthRequestMoves
      <3> QED
        BY <1>1, <2>1, <2>4, <3>1 DEF Stores
    <2> QED
      BY <2>1, <2>2, <2>3, <2>4 DEF ParseCertificateRequest
  <1>7. CASE ClientCertificate(c)
    <2>1. AddCertificate(c)
      BY <1>7 DEF ClientCertificate
    <2>2. CASE FailResponse(c)
      <3>1. Fails(c) /\ UNCHANGED <<fresh, dev>>
        BY <2>2 DEF Fails, FailResponse
      <3> QED
        BY <1>1, <1>4, <3>1 DEF ClientSettles
    <2>3. CASE Spends(c)
      <3>1. Fails(c)
        BY <2>3 DEF Fails, Spends
      <3> QED
        BY <1>1, <1>4, <2>3, <3>1
    <2>4. CASE SendNoResponse(c)
      BY <1>1, <2>4, PlainAnswerMoves, PlainAnswerSettles DEF ClientSettles
    <2>5. CASE CreateRegResponse(c) \/ CreateAuthResponse(c)
      <3>1. EachClientFits'
        BY <2>5, RegResponseMoves, AuthResponseMoves
      <3> QED
        BY <1>1, <2>5, <3>1 DEF Answers
    <2> QED
      BY <2>1, <2>2, <2>3, <2>4, <2>5 DEF AddCertificate, Spends
  <1> QED
    BY <1>2, <1>3, <1>5, <1>6, <1>7

(* The steps, by kind.                                                     *)
LEMMA StepForms ==
    ASSUME IInv, UdIInv, EachClientFits, DeviceIds, Next
    PROVE  /\ EachClientFits'
           /\ \/ Restart
              \/ \E c \in Clients : ServerHello(c) \/ ServerFlight(c) \/ ServerCertificate(c)
              \/ \E c \in Clients :
                   \/ ClientSettles(c)
                   \/ (Stores(c) \/ Answers(c)) /\ UNCHANGED rpVars
                   \/ Spends(c) /\ Settles(c) /\ UNCHANGED rpVars
  <1>1. CASE Restart
    BY <1>1, BreakAllMoves DEF Restart, RestartServer, NextProcess
  <1>2. ASSUME NEW c \in Clients, ServerHello(c) \/ ServerFlight(c) \/ ServerCertificate(c)
        PROVE  EachClientFits'
    BY <1>2, ServerHelloMoves, ServerFlightMoves, ServerCertificateMoves
  <1>3. ASSUME NEW c \in Clients,
               \/ ClientRequest(c) \/ ClientCertificate(c)
               \/ Connect(c) \/ Start(c) \/ Reconnect(c) \/ Lose(c)
        PROVE  /\ EachClientFits'
               /\ \/ ClientSettles(c)
                  \/ (Stores(c) \/ Answers(c)) /\ UNCHANGED rpVars
                  \/ Spends(c) /\ Settles(c) /\ UNCHANGED rpVars
    BY <1>3, ClientStepForms
  <1>4. CASE \E c \in Clients : ServerHello(c) \/ ServerFlight(c) \/ ServerCertificate(c)
    BY <1>2, <1>4
  <1>5. CASE \E c \in Clients :
               \/ ClientRequest(c) \/ ClientCertificate(c)
               \/ Connect(c) \/ Start(c) \/ Reconnect(c) \/ Lose(c)
    BY <1>3, <1>5
  <1> QED
    BY <1>1, <1>4, <1>5 DEF Next, Handshake

(* A step of client c or its authenticator; the server keeps its state.    *)
ClientStep(c) ==
    /\ UNCHANGED rpVars
    /\ \/ ClientSettles(c)
       \/ Stores(c)
       \/ Answers(c)
       \/ Spends(c) /\ Settles(c)

(* Every step is one of the server or one of a client.                     *)
LEMMA StepCases ==
    ASSUME IInv, UdIInv, EachClientFits, DeviceIds, Next
    PROVE  \/ Restart
           \/ \E c \in Clients : ServerHello(c) \/ ServerFlight(c) \/ ServerCertificate(c)
           \/ \E c \in Clients : ClientStep(c)
  BY StepForms DEF ClientSettles, ClientStep

(* No program that is waiting for a request has used its authenticator.    *)
LEMMA UnusedBefore ==
    ASSUME UdIInv, NEW c \in Clients, conn[c].phase \in {"hello", "parsed", "request"}
    PROVE  ud[c].uses = 0
  BY DEF UdIInv, Done

(* The server's callbacks keep the invariant of the clients.               *)
LEMMA ServerKeepsClients ==
    ASSUME UdIInv, NEW c \in Clients, NEW phase, NEW m, Send(c, phase, m),
           UNCHANGED udVars, fresh' \in Nat,
           phase \in {"open", "failed"} \/ ud[c].uses = 0
    PROVE  UdIInv'
  <1>1. UNCHANGED <<ud, dev, launches>>
    BY DEF udVars
  <1>2. OthersStay(c) /\ conn'[c].phase = phase
    BY <1>1, OneClient, SendChanges DEF OthersStay
  <1>3. ud'[c].uses = 0 \/ (ud'[c].uses = 1 /\ Done(c)')
    BY <1>1, <1>2, OneClient DEF Done
  <1>4. /\ ud'[c] \in UdRecord /\ launches' \in 0 .. MaxLaunches
        /\ dev' \in [Devices -> SUBSET DeviceCreds]
    BY <1>1, OneClient
  <1> QED
    BY <1>2, <1>3, <1>4, StepOf

(* What a request that arrives has to be for the client.                   *)
LEMMA RequestIsTyped ==
    ASSUME UdIInv, EachClientFits, NEW c \in Clients, conn[c].phase = "request"
    PROVE  RequestTyped(conn[c].msg)
  BY RequestFits DEF RequestWellFormed, RequestTyped, NoExt

(* Every step keeps the invariant of the clients ...                       *)
LEMMA StepUdIInv ==
    ASSUME IInv, UdIInv, EachClientFits, Next
    PROVE  UdIInv'
  <1>1. CASE Restart
    BY <1>1, BreakAllMoves DEF Restart, RestartServer, NextProcess
  <1>2. ASSUME NEW c \in Clients, ServerHello(c)
        PROVE  UdIInv'
    <2>1. PICK phase \in {"parsed", "failed"} : Send(c, phase, NoExt)
      BY <1>2, ServerHelloMoves
    <2>2. UNCHANGED udVars /\ fresh' \in Nat /\ ud[c].uses = 0
      BY <1>2, ServerHelloMoves, UnusedBefore, Shapes DEF ServerHello
    <2> QED
      BY <2>1, <2>2, ServerKeepsClients
  <1>3. ASSUME NEW c \in Clients, ServerFlight(c)
        PROVE  UdIInv'
    <2>1. PICK phase, m : Send(c, phase, m)
      BY <1>3, ServerFlightMoves DEF Flight
    <2>2. UNCHANGED udVars /\ fresh' \in Nat /\ ud[c].uses = 0
      BY <1>3, ServerFlightMoves, UnusedBefore
    <2> QED
      BY <2>1, <2>2, ServerKeepsClients
  <1>4. ASSUME NEW c \in Clients, ServerCertificate(c)
        PROVE  UdIInv'
    <2>1. UNCHANGED <<fresh, udVars>> /\ fresh' \in Nat /\ (Ends(c) \/ NextProcess)
      BY <1>4, ServerCertificateMoves, Shapes
    <2>2. CASE Ends(c)
      BY <2>1, <2>2, ServerKeepsClients DEF Ends
    <2>3. CASE NextProcess
      BY <2>1, <2>3, BreakAllMoves DEF NextProcess
    <2> QED
      BY <2>1, <2>2, <2>3
  <1>5. ASSUME NEW c \in Clients, ClientRequest(c)
        PROVE  UdIInv'
    BY <1>5, UnusedBefore, RequestIsTyped, ParseCertificateRequestUdIInv DEF ClientRequest
  <1>6. ASSUME NEW c \in Clients,
               ClientCertificate(c) \/ Connect(c) \/ Start(c) \/ Reconnect(c) \/ Lose(c)
        PROVE  UdIInv'
    BY <1>6, AddCertificateUdIInv, ClientHelloUdIInv, LaunchUdIInv, RefuseHelloUdIInv, DropUdIInv
    DEF ClientCertificate, Connect, Start, Reconnect, Lose
  <1> QED
    BY <1>1, <1>2, <1>3, <1>4, <1>5, <1>6 DEF Next, Handshake

(* The random source only goes on in a step of a client.                   *)
LEMMA ClientDraws ==
    ASSUME UdIInv, NEW c \in Clients,
           ClientSettles(c) \/ Stores(c) \/ Answers(c) \/ Spends(c)
    PROVE  fresh' \in Nat /\ fresh' >= fresh
  <1>1. fresh' \in {fresh, fresh + 1}
    BY DEF ClientSettles, Stores, Answers, Spends, FailRegResponse, FailAuthResponse,
       CreateRegResponse, CreateAuthResponse, ProcessPreResponse, ProcessRegRequest, ProcessAuthRequest
  <1> QED
    BY <1>1, Shapes

(* ... and that of the server.                                             *)
LEMMA StepIInv ==
    ASSUME IInv, UdIInv, EachClientFits, DeviceIds, Next
    PROVE  IInv'
  <1>1. CASE Restart
    BY <1>1, RestartServerIInv DEF Restart
  <1>2. ASSUME NEW c \in Clients, ServerHello(c)
        PROVE  IInv'
    BY <1>2, ArrivalFits, ParseClientHelloIInv DEF ServerHello
  <1>3. ASSUME NEW c \in Clients, ServerFlight(c)
        PROVE  IInv'
    BY <1>3, AddCertificateRequestIInv DEF ServerFlight
  <1>4. ASSUME NEW c \in Clients, ServerCertificate(c)
        PROVE  IInv'
    BY <1>4, ArrivalFits, ParseCertificateIInv DEF ServerCertificate
  <1>5. ASSUME NEW c \in Clients, UNCHANGED rpVars,
               ClientSettles(c) \/ Stores(c) \/ Answers(c) \/ Spends(c)
        PROVE  IInv'
    BY <1>5, ClientDraws, Idle
  <1> QED
    BY <1>1, <1>2, <1>3, <1>4, <1>5, StepForms DEF ClientSettles

-----------------------------------------------------------------------------
(* One request.                                                            *)

(* Without an outstanding request no connection has one.                   *)
LEMMA NobodyAsks ==
    ASSUME OneRequest, ~Outstanding(rp.state)
    PROVE  \A x \in Clients : ~HasRequest(x)
  BY DEF OneRequest, RequestMatches, HasRequest, Outstanding

(* With no request anywhere there is nothing to match.                     *)
LEMMA NoneMatches ==
    ASSUME \A x \in Clients : ~HasRequest(x)'
    PROVE  OneRequest'
  BY DEF OneRequest, RequestMatches, HasRequest

(* A step at connection c is no concern of the other connections.          *)
LEMMA ElsewhereSame ==
    ASSUME NEW c \in Clients, NEW x \in Clients, x # c, OnlyAt(c)
    PROVE  /\ HasRequest(x)' <=> HasRequest(x)
           /\ UNCHANGED <<rp, creds>> => (RequestMatches(x)' <=> RequestMatches(x))
  <1>1. conn'[x] = conn[x] /\ ud'[x] = ud[x]
    BY DEF OnlyAt
  <1>2. HasRequest(x)' <=> HasRequest(x)
    BY <1>1 DEF HasRequest, AskedToRegister, AskedToLogIn, Registering, LoggingIn
  <1>3. ASSUME UNCHANGED <<rp, creds>>
        PROVE  RequestMatches(x)' <=> RequestMatches(x)
    BY <1>1, <1>3 DEF RequestMatches, AskedToRegister, AskedToLogIn, Registering, LoggingIn,
       ExcludesEnrolled, Descriptors
  <1> QED
    BY <1>2, <1>3

(* A connection that is left without a request leaves the others alone.    *)
LEMMA SettledOneRequest ==
    ASSUME OneRequest, NEW c \in Clients, OnlyAt(c), ~HasRequest(c)',
           UNCHANGED <<rp, creds>> \/ ~Outstanding(rp.state)
    PROVE  OneRequest'
  <1>1. CASE ~Outstanding(rp.state)
    <2>1. \A x \in Clients : ~HasRequest(x)'
      BY <1>1, NobodyAsks, ElsewhereSame
    <2> QED
      BY <2>1, NoneMatches
  <1>2. CASE UNCHANGED <<rp, creds>>
    <2>1. RequestMatches(c)'
      BY DEF RequestMatches, HasRequest
    <2>2. \A x \in Clients : RequestMatches(x)'
      BY <1>2, <2>1, ElsewhereSame DEF OneRequest
    <2>3. \A x, y \in Clients : HasRequest(x)' /\ HasRequest(y)' => x = y
      BY ElsewhereSame DEF OneRequest
    <2> QED
      BY <2>2, <2>3 DEF OneRequest
  <1> QED
    BY <1>1, <1>2

(* A step at the connection that has the request, or will have it.         *)
LEMMA TheRequest ==
    ASSUME NEW c \in Clients, OnlyAt(c), \A x \in Clients : x # c => ~HasRequest(x),
           RequestMatches(c)'
    PROVE  OneRequest'
  <1>1. \A x \in Clients : x # c => ~HasRequest(x)'
    BY ElsewhereSame
  <1>2. \A x \in Clients : x # c => RequestMatches(x)'
    BY <1>1 DEF RequestMatches, HasRequest
  <1> QED
    BY <1>1, <1>2 DEF OneRequest

(* A ClientHello does not disturb an outstanding request.                  *)
LEMMA HelloKeepsRequest ==
    ASSUME NEW c, NEW m, ParseClientHello(c, m), Outstanding(rp.state)
    PROVE  UNCHANGED rp
  BY DEF ParseClientHello, ParseNoIndication, ProcessPreIndication, ProcessRegIndication,
     RejectRegIndication, ProcessAuthIndicationDiscoverable, ProcessAuthIndicationServerSide,
     RejectAuthIndicationServerSide, RefuseIndication, GetRpData, Outstanding, rpVars

(* parse_cb on a ClientHello leaves the one outstanding request alone.     *)
LEMMA HelloOneRequest ==
    ASSUME UdIInv, EachClientFits, OneRequest, NEW c \in Clients, ServerHello(c)
    PROVE  OneRequest'
  <1>1. UNCHANGED creds /\ (UNCHANGED rp \/ ~Outstanding(rp.state))
    BY ServerHelloMoves, HelloKeepsRequest DEF ServerHello
  <1>2. \E phase \in {"parsed", "failed"} : Moves(c, phase, NoExt, ud[c])
    BY ServerHelloMoves
  <1>3. Settles(c)
    BY <1>2, MovesSettles DEF SameProgram
  <1> QED
    BY <1>1, <1>3, SettledOneRequest DEF Settles

(* The request that is sent is the one rp_data waits for.                  *)
LEMMA FlightOneRequest ==
    ASSUME IInv, UdIInv, EachClientFits, OneRequest, CeremonyFits, NEW c \in Clients,
           ServerFlight(c)
    PROVE  OneRequest'
  <1>1. AddCertificateRequest(c) /\ UNCHANGED creds
    BY ServerFlightMoves DEF ServerFlight
  <1>2. PICK phase, m : Flight(c, phase, m)
    BY ServerFlightMoves
  <1>3. /\ OnlyAt(c) /\ conn'[c].phase = phase /\ conn'[c].msg = m
        /\ phase \in {"request", "failed"}
    BY <1>2 DEF Flight, Moves
  <1>5. CASE SendNothing(c) \/ RefuseCertificateRequest(c)
    <2>1. UNCHANGED rp /\ conn'[c].msg = NoExt
      BY <1>5, <1>3, Shapes DEF SendNothing, RefuseCertificateRequest, rpVars, Alert, Send
    <2>2. ~HasRequest(c)'
      BY <1>3, <2>1 DEF HasRequest, AskedToRegister, AskedToLogIn, Registering, LoggingIn, NoExt
    <2> QED
      BY <1>1, <1>3, <2>1, <2>2, SettledOneRequest
  <1>6. CASE CreatePreResponse(c) \/ FailRegRequest(c) \/ FailAuthRequest(c)
    <2>1. ~Outstanding(rp.state)
      BY <1>6 DEF CreatePreResponse, FailRegRequest, FailAuthRequest, Outstanding
    <2>2. CASE CreatePreResponse(c)
      <3>1. conn'[c].msg = PreResponse(fresh, GcmKey(rp.kep, fresh))
        BY <2>2, Shapes DEF CreatePreResponse, Send
      <3>2. ~HasRequest(c)'
        BY <3>1, <1>3 DEF PreResponse, HasRequest, AskedToRegister, AskedToLogIn, Registering,
           LoggingIn
      <3> QED
        BY <1>3, <2>1, <3>2, SettledOneRequest
    <2>3. CASE FailRegRequest(c) \/ FailAuthRequest(c)
      <3>1. Send(c, "failed", NoExt)
        BY <2>3 DEF FailRegRequest, FailAuthRequest, Alert
      <3>2. ~HasRequest(c)'
        BY <3>1, SendChanges DEF HasRequest, AskedToRegister, AskedToLogIn, Registering,
           LoggingIn
      <3> QED
        BY <1>3, <2>1, <3>2, SettledOneRequest
    <2> QED
      BY <1>6, <2>2, <2>3
  <1>7. CASE CreateRegRequest(c)
    <2>1. PICK id, exclude :
            /\ id \in UserIdFor(rp.name) /\ exclude \in Lists(id, rp.rpId)
            /\ Send(c, "request", RegRequest(fresh, rp.rpId, rp.key, rp.name, id, exclude))
            /\ rp' = [rp EXCEPT !.state = "REG_REQUEST_SENT", !.chal = fresh, !.user = id]
      BY <1>7 DEF CreateRegRequest
    <2>2. /\ conn'[c].msg = RegRequest(fresh, rp.rpId, rp.key, rp.name, id, exclude)
          /\ conn'[c].phase = "request"
      BY <2>1, Shapes DEF Send
    <2>3. /\ rp'.state = "REG_REQUEST_SENT" /\ rp'.chal = fresh /\ rp'.user = id
          /\ rp'.key = rp.key /\ rp'.name = rp.name /\ rp'.rpId = rp.rpId
      BY <2>1 DEF IInv, RpTypeOK, RpData
    <2>4. ExcludesEnrolled(exclude)'
      BY <1>1, <2>1, <2>3, ListsReturn DEF ExcludesEnrolled, Descriptors
    <2>5. RequestMatches(c)'
      BY <2>2, <2>3, <2>4 DEF RequestMatches, AskedToRegister, AskedToLogIn, Registering,
         LoggingIn, RegRequest
    <2>6. \A x \in Clients : ~HasRequest(x)
      BY <1>7, NobodyAsks DEF CreateRegRequest, Outstanding
    <2> QED
      BY <1>3, <2>5, <2>6, TheRequest
  <1>8. CASE CreateAuthRequestDiscoverable(c)
    <2>1. /\ conn'[c].msg = AuthRequest(fresh, rp.rpId, NoKey, {})
          /\ conn'[c].phase = "request"
      BY <1>8, Shapes DEF CreateAuthRequestDiscoverable, Send
    <2>2. /\ rp'.state = "AUTH_REQUEST_SENT" /\ rp'.chal = fresh /\ rp'.rpId = rp.rpId
          /\ rp'.ceremony = "AUTH_DISCOVERABLE"
      BY <1>8 DEF CreateAuthRequestDiscoverable, IInv, RpTypeOK, RpData, FilledIn
    <2>3. RequestMatches(c)'
      BY <2>1, <2>2 DEF RequestMatches, AskedToRegister, AskedToLogIn, Registering,
         LoggingIn, AuthRequest
    <2>4. \A x \in Clients : ~HasRequest(x)
      BY <1>8, NobodyAsks DEF CreateAuthRequestDiscoverable, Outstanding
    <2> QED
      BY <1>3, <2>3, <2>4, TheRequest
  <1>9. CASE CreateAuthRequestServerSide(c)
    <2>1. PICK allow \in Lists(rp.user, rp.rpId) :
            /\ Send(c, "request", AuthRequest(fresh, rp.rpId, rp.key, allow))
            /\ rp' = [rp EXCEPT !.state = "AUTH_REQUEST_SENT", !.chal = fresh, !.allow = allow]
      BY <1>9 DEF CreateAuthRequestServerSide
    <2>2. /\ conn'[c].msg = AuthRequest(fresh, rp.rpId, rp.key, allow)
          /\ conn'[c].phase = "request"
      BY <2>1, Shapes DEF Send
    <2>3. rp.state = "AUTH_INDICATION_SERVER_SIDE_RECEIVED"
      BY <1>9 DEF CreateAuthRequestServerSide
    <2>4. rp.ceremony = "AUTH_SERVER_SIDE" /\ rp.key # NoKey
      BY <2>3 DEF CeremonyFits, IInv, AssertsHold
    <2>5. /\ rp'.state = "AUTH_REQUEST_SENT" /\ rp'.chal = fresh /\ rp'.allow = allow
          /\ rp'.key = rp.key /\ rp'.ceremony = rp.ceremony /\ rp'.rpId = rp.rpId
      BY <2>1 DEF IInv, RpTypeOK, RpData
    <2>6. RequestMatches(c)'
      BY <2>2, <2>4, <2>5 DEF RequestMatches, AskedToRegister, AskedToLogIn, Registering,
         LoggingIn, AuthRequest
    <2>7. \A x \in Clients : ~HasRequest(x)
      BY <2>3, NobodyAsks DEF Outstanding
    <2> QED
      BY <1>3, <2>6, <2>7, TheRequest
  <1> QED
    BY <1>1, <1>5, <1>6, <1>7, <1>8, <1>9 DEF AddCertificateRequest

(* A Certificate with the extension comes from the client that was asked.  *)
LEMMA AnswerWasAsked ==
    ASSUME UdIInv, EachClientFits, NEW c \in Clients, conn[c].phase = "cert",
           conn[c].msg.type # "NO_EXT"
    PROVE  HasRequest(c)
  <1>1. ud[c].state \in {"REG_RESPONSE_SENT", "AUTH_RESPONSE_SENT"}
    <2>1. CertificateOf(ud[c], conn[c].msg)
      BY ArrivalFits
    <2>2. conn[c].msg # NoExt
      BY DEF NoExt
    <2> QED
      BY <2>1, <2>2 DEF CertificateOf
  <1> QED
    BY <1>1 DEF HasRequest, Registering, LoggingIn, RegAnswerStates, AuthAnswerStates

(* The answer to a request ends it; no other client has one.               *)
LEMMA CertificateOneRequest ==
    ASSUME UdIInv, EachClientFits, OneRequest, NEW c \in Clients, ServerCertificate(c)
    PROVE  OneRequest'
  <1>1. conn[c].phase = "cert" /\ ParseCertificate(c, conn[c].msg)
    BY DEF ServerCertificate
  <1>2. UNCHANGED <<fresh, udVars>> /\ (Ends(c) \/ NextProcess)
    BY ServerCertificateMoves
  <1>3. CASE NextProcess
    <2>1. \A x \in Clients : conn'[x].phase \in {"idle", "failed"}
      BY <1>2, <1>3, BreakAllMoves DEF NextProcess
    <2>2. \A x \in Clients : ~HasRequest(x)'
      BY <2>1 DEF HasRequest, AskedToRegister, AskedToLogIn, Registering, LoggingIn
    <2> QED
      BY <2>2, NoneMatches
  <1>4. CASE Ends(c)
    <2>1. OnlyAt(c) /\ conn'[c].phase \in {"open", "failed"}
      BY <1>4 DEF Ends, Moves
    <2>2. ~HasRequest(c)'
      BY <2>1 DEF HasRequest, AskedToRegister, AskedToLogIn, Registering, LoggingIn
    <2>3. CASE conn[c].msg.type = "NO_EXT"
      <3>1. UNCHANGED <<rp, creds>>
        BY <1>1, <2>3 DEF ParseCertificate, ProcessRegResponse, RejectRegResponse, FailAddCreds,
           ProcessAuthResponse, FailUpdateSignCount, RejectAuthResponse,
           RejectUnknownCredential, RejectStoredKey, RefuseCertificate, AcceptPlainCertificate, rpVars
      <3> QED
        BY <2>1, <2>2, <3>1, SettledOneRequest
    <2>4. CASE conn[c].msg.type # "NO_EXT"
      <3>1. \A x \in Clients : x # c => ~HasRequest(x)
        BY <1>1, <2>4, AnswerWasAsked DEF OneRequest
      <3>2. \A x \in Clients : ~HasRequest(x)'
        BY <2>1, <2>2, <3>1, ElsewhereSame
      <3> QED
        BY <3>2, NoneMatches
    <2> QED
      BY <2>3, <2>4
  <1> QED
    BY <1>2, <1>3, <1>4

(* A new process has no request, and breaks all connections.               *)
LEMMA RestartOneRequest ==
    ASSUME UdIInv, EachClientFits, Restart
    PROVE  OneRequest'
  <1>1. \A x \in Clients : conn'[x].phase \in {"idle", "failed"}
    BY BreakAllMoves DEF Restart, RestartServer, NextProcess
  <1>2. \A x \in Clients : ~HasRequest(x)'
    BY <1>1 DEF HasRequest, AskedToRegister, AskedToLogIn, Registering, LoggingIn
  <1> QED
    BY <1>2, NoneMatches

(* The request a client stores is the one rp_data waits for.               *)
LEMMA StoresOneRequest ==
    ASSUME IInv, UdIInv, EachClientFits, OneRequest, NEW c \in Clients, Stores(c),
           UNCHANGED rpVars
    PROVE  OneRequest'
  <1> DEFINE m == conn[c].msg
  <1>1. UNCHANGED <<rp, creds>> /\ ud[c] \in UdRecord
    BY RequestFits DEF rpVars
  <1>2. CASE ProcessPreResponse(c, m)
    <2>1. Moves(c, "asked", NoExt, WithPreResponse(ud[c], m))
      BY <1>2, PreResponseMoves DEF Stores
    <2>2. WithPreResponse(ud[c], m).state = "PRE_RESPONSE_RECEIVED"
      BY <1>1 DEF WithPreResponse, UdRecord
    <2>3. OnlyAt(c) /\ ~HasRequest(c)'
      BY <2>1, <2>2 DEF Moves, HasRequest, AskedToRegister, AskedToLogIn, Registering,
         LoggingIn, RegAnswerStates, AuthAnswerStates
    <2> QED
      BY <1>1, <2>3, SettledOneRequest
  <1>3. CASE ProcessRegRequest(c, m)
    <2>1. /\ Moves(c, "asked", NoExt, WithRegRequest(ud[c], m)) /\ AskedToRegister(c)
          /\ ud[c].eph # 0 /\ ud[c].key = m.key /\ ud[c].name = m.name
      BY <1>3, RegRequestMoves DEF Stores
    <2>2. RequestMatches(c) /\ \A x \in Clients : x # c => ~HasRequest(x)
      BY <2>1 DEF OneRequest, HasRequest
    <2>3. /\ rp.state = "REG_REQUEST_SENT"
          /\ m.chal = rp.chal /\ m.rpId = rp.rpId /\ m.key = rp.key /\ m.name = rp.name
          /\ m.user = rp.user /\ ExcludesEnrolled(m.exclude)
      BY <2>1, <2>2 DEF RequestMatches
    <2>4. /\ conn'[c].phase = "asked" /\ ud'[c].state = "REG_REQUEST_RECEIVED"
          /\ ud'[c].chal = m.chal /\ ud'[c].rpId = m.rpId /\ ud'[c].user = m.user
          /\ ud'[c].exclude = m.exclude /\ ud'[c].key = ud[c].key /\ ud'[c].name = ud[c].name
          /\ ud'[c].eph = ud[c].eph
      BY <1>1, <2>1 DEF Moves, WithRegRequest, UdRecord
    <2>5. ExcludesEnrolled(m.exclude) => ExcludesEnrolled(ud[c].exclude)'
      BY <1>1, <2>4 DEF ExcludesEnrolled, Descriptors
    <2>6. RequestMatches(c)'
      BY <1>1, <2>1, <2>3, <2>4, <2>5 DEF RequestMatches, AskedToRegister, AskedToLogIn,
         Registering, LoggingIn, AuthAnswerStates
    <2> QED
      BY <2>1, <2>2, <2>6, TheRequest DEF Moves
  <1>4. CASE ProcessAuthRequest(c, m)
    <2>1. /\ Moves(c, "asked", NoExt, WithAuthRequest(ud[c], m)) /\ AskedToLogIn(c)
          /\ ud[c].ceremony \in {"AUTH_SERVER_SIDE", "AUTH_DISCOVERABLE"}
          /\ IF ud[c].ceremony = "AUTH_SERVER_SIDE"
             THEN m.key = ud[c].key /\ m.key # NoKey /\ ud[c].eph # 0
             ELSE m.key = NoKey
      BY <1>4, AuthRequestMoves DEF Stores
    <2>2. RequestMatches(c) /\ \A x \in Clients : x # c => ~HasRequest(x)
      BY <2>1 DEF OneRequest, HasRequest
    <2>3. /\ rp.state = "AUTH_REQUEST_SENT" /\ m.chal = rp.chal /\ m.rpId = rp.rpId
          /\ \/ rp.ceremony = "AUTH_SERVER_SIDE" /\ m.allow = rp.allow
                  /\ m.key = rp.key /\ m.key # NoKey
             \/ rp.ceremony = "AUTH_DISCOVERABLE" /\ m.key = NoKey
      BY <2>1, <2>2 DEF RequestMatches
    <2>4. /\ conn'[c].phase = "asked" /\ ud'[c].state = "AUTH_REQUEST_RECEIVED"
          /\ ud'[c].chal = m.chal /\ ud'[c].rpId = m.rpId /\ ud'[c].allow = m.allow
          /\ ud'[c].key = ud[c].key /\ ud'[c].ceremony = ud[c].ceremony
          /\ ud'[c].eph = ud[c].eph
      BY <1>1, <2>1 DEF Moves, WithAuthRequest, UdRecord
    <2>5. RequestMatches(c)'
      BY <1>1, <2>1, <2>3, <2>4 DEF RequestMatches, AskedToRegister, AskedToLogIn,
         Registering, LoggingIn, RegAnswerStates
    <2> QED
      BY <2>1, <2>2, <2>5, TheRequest DEF Moves
  <1> QED
    BY <1>2, <1>3, <1>4 DEF Stores

(* While a client works on a request, the RP id it uses is the server's.   *)
LEMMA RequestRpId ==
    ASSUME IInv, OneRequest, NEW c \in Clients, Registering(c) \/ LoggingIn(c)
    PROVE  /\ RpIdUsed(c) = rp.rpId /\ ud[c].rpId = rp.rpId /\ rp.rpId \in Hosts
           /\ \A x \in Clients : x # c => ~HasRequest(x)
  <1>1. rp.rpId = ud[c].rpId /\ Outstanding(rp.state)
    BY DEF OneRequest, RequestMatches, Outstanding
  <1>2. rp.rpId \in Hosts
    BY <1>1 DEF IInv, FilledIn, Outstanding
  <1> QED
    BY <1>1, <1>2, NullAssumption DEF RpIdUsed, OneRequest, HasRequest

(* So is the one it answers.                                               *)
LEMMA AnswersOneRequest ==
    ASSUME IInv, UdIInv, EachClientFits, DeviceIds, OneRequest, NEW c \in Clients, Answers(c)
    PROVE  OneRequest'
  <1>1. UNCHANGED <<rp, creds>> /\ ud[c] \in UdRecord
    BY RequestFits DEF rpVars, Answers
  <1>2. CASE CreateRegResponse(c)
    <2>1. /\ \E m : Moves(c, "cert", m, WithRegResponse(ud[c], RpIdUsed(c), fresh))
          /\ conn[c].phase = "asked" /\ ud[c].state = "REG_REQUEST_RECEIVED"
      BY <1>2, RegResponseMoves
    <2>2. Registering(c)
      BY <2>1 DEF Registering, RegAnswerStates
    <2>3. /\ RpIdUsed(c) = ud[c].rpId /\ \A x \in Clients : x # c => ~HasRequest(x)
      BY <2>2, RequestRpId
    <2>4. /\ rp.state = "REG_REQUEST_SENT"
          /\ ud[c].chal = rp.chal /\ ud[c].rpId = rp.rpId /\ ud[c].key = rp.key
          /\ ud[c].name = rp.name /\ ud[c].user = rp.user /\ ExcludesEnrolled(ud[c].exclude)
          /\ ud[c].eph # 0
      BY <2>2 DEF OneRequest, RequestMatches
    <2>5. /\ conn'[c].phase = "cert" /\ ud'[c].state = "REG_RESPONSE_SENT"
          /\ ud'[c].chal = ud[c].chal /\ ud'[c].rpId = ud[c].rpId /\ ud'[c].user = ud[c].user
          /\ ud'[c].exclude = ud[c].exclude /\ ud'[c].key = ud[c].key
          /\ ud'[c].name = ud[c].name /\ ud'[c].eph = ud[c].eph
      BY <1>1, <2>1, <2>3 DEF Moves, WithRegResponse, UdRecord
    <2>6. ExcludesEnrolled(ud[c].exclude) => ExcludesEnrolled(ud[c].exclude)'
      BY <1>1, <2>5 DEF ExcludesEnrolled, Descriptors
    <2>7. RequestMatches(c)'
      BY <1>1, <2>4, <2>5, <2>6 DEF RequestMatches, AskedToRegister, AskedToLogIn,
         Registering, LoggingIn, AuthAnswerStates
    <2> QED
      BY <2>1, <2>3, <2>7, TheRequest DEF Moves
  <1>3. CASE CreateAuthResponse(c)
    <2>1. /\ conn[c].phase = "asked" /\ ud[c].state = "AUTH_REQUEST_RECEIVED"
          /\ \E m, cred, handle :
               Moves(c, "cert", m, WithAuthResponse(ud[c], RpIdUsed(c), cred, handle))
      BY <1>3, AuthResponseMoves
    <2>2. LoggingIn(c)
      BY <2>1 DEF LoggingIn, AuthAnswerStates
    <2>3. /\ RpIdUsed(c) = ud[c].rpId /\ \A x \in Clients : x # c => ~HasRequest(x)
      BY <2>2, RequestRpId
    <2>4. /\ rp.state = "AUTH_REQUEST_SENT"
          /\ ud[c].chal = rp.chal /\ ud[c].rpId = rp.rpId /\ ud[c].ceremony = rp.ceremony
          /\ rp.ceremony = "AUTH_SERVER_SIDE" =>
               ud[c].key = rp.key /\ ud[c].allow = rp.allow /\ ud[c].eph # 0
      BY <2>2 DEF OneRequest, RequestMatches
    <2>5. /\ conn'[c].phase = "cert" /\ ud'[c].state = "AUTH_RESPONSE_SENT"
          /\ ud'[c].chal = ud[c].chal /\ ud'[c].rpId = ud[c].rpId
          /\ ud'[c].allow = ud[c].allow /\ ud'[c].key = ud[c].key
          /\ ud'[c].ceremony = ud[c].ceremony /\ ud'[c].eph = ud[c].eph /\ OnlyAt(c)
      BY <1>1, <2>1, <2>3 DEF Moves, WithAuthResponse, UdRecord
    <2>6. RequestMatches(c)'
      BY <1>1, <2>4, <2>5 DEF RequestMatches, AskedToRegister, AskedToLogIn,
         Registering, LoggingIn, RegAnswerStates
    <2> QED
      BY <2>3, <2>5, <2>6, TheRequest
  <1> QED
    BY <1>2, <1>3 DEF Answers

(* Every step leaves at most one request, and that is the server's.        *)
LEMMA StepOneRequest ==
    ASSUME IInv, UdIInv, EachClientFits, DeviceIds, OneRequest, CeremonyFits, Next
    PROVE  OneRequest'
  <1>1. ASSUME NEW c \in Clients, Settles(c), UNCHANGED rpVars
        PROVE  OneRequest'
    BY <1>1, SettledOneRequest DEF Settles, rpVars
  <1>2. CASE Restart
    BY <1>2, RestartOneRequest
  <1>3. CASE \E c \in Clients : ServerHello(c) \/ ServerFlight(c) \/ ServerCertificate(c)
    BY <1>3, HelloOneRequest, FlightOneRequest, CertificateOneRequest
  <1>4. CASE \E c \in Clients : (Stores(c) \/ Answers(c)) /\ UNCHANGED rpVars
    BY <1>4, StoresOneRequest, AnswersOneRequest
  <1> QED
    BY <1>1, <1>2, <1>3, <1>4, StepForms DEF ClientSettles

-----------------------------------------------------------------------------
(* What the server's callbacks do to rp_data.                              *)

(* States in which rp_data holds nothing that an indication has brought.   *)
HoldsNothing ==
    {"NO_DATA", "INITIAL", "PRE_INDICATION_RECEIVED", "PRE_RESPONSE_SENT", "REG_SUCCESS",
     "REG_FAILURE", "AUTH_SUCCESS", "AUTH_FAILURE", "AUTH_INDICATION_DISCOVERABLE_RECEIVED"}

(* A registration indication of client c, or a login, has been accepted.   *)
TakesName(c) ==
    /\ rp'.state = "REG_INDICATION_RECEIVED" /\ rp'.ceremony = "REGISTRATION"
    /\ rp'.key.eph = ud[c].eph /\ ud[c].ticket = ServerTicket
TakesUser(c) ==
    /\ rp'.state = "AUTH_INDICATION_SERVER_SIDE_RECEIVED" /\ rp'.ceremony = "AUTH_SERVER_SIDE"
    /\ rp'.key.eph = ud[c].eph /\ [id |-> rp'.user, name |-> ud[c].name] \in users

(* A packet with an encrypted field is sealed by the program that sends it.*)
LEMMA HelloFields ==
    ASSUME UdIInv, EachClientFits, NEW c \in Clients, conn[c].phase = "hello"
    PROVE  /\ conn[c].msg.type \in {"REG_INDICATION", "AUTH_INDICATION_SERVER_SIDE"} =>
                /\ conn[c].msg.eph = ud[c].eph /\ conn[c].msg.key = ud[c].key
                /\ conn[c].msg.name = ud[c].name
           /\ conn[c].msg.type = "REG_INDICATION" => conn[c].msg.ticket = ud[c].ticket
  <1> DEFINE m == conn[c].msg
             u == ud[c]
  <1>1. \/ m \in {NoExt, PreIndication, AuthIndicationDiscoverable}
        \/ m = RegIndication(u.eph, u.key, u.name, u.ticket)
        \/ m = AuthIndicationServerSide(u.eph, u.key, u.name)
    BY ArrivalFits DEF HelloOf
  <1> HIDE DEF m, u
  <1>2. CASE m \in {NoExt, PreIndication, AuthIndicationDiscoverable}
    BY <1>2 DEF NoExt, PreIndication, AuthIndicationDiscoverable, m
  <1>3. CASE m = RegIndication(u.eph, u.key, u.name, u.ticket)
    BY <1>3 DEF RegIndication, m, u
  <1>4. CASE m = AuthIndicationServerSide(u.eph, u.key, u.name)
    BY <1>4 DEF AuthIndicationServerSide, m, u
  <1> QED
    BY <1>1, <1>2, <1>3, <1>4 DEF m

(* A new rp_data, or the one there is.                                     *)
LEMMA GetRpDataKey ==
    ASSUME IInv, NEW d \in GetRpData
    PROVE  d = rp \/ (d \in RpData /\ d.state = "INITIAL" /\ d.key.eph = 0)
  <1>1. d \in RpData /\ (d = rp \/ (rp.state = "NO_DATA" /\ d.state = "INITIAL"))
    BY GetRpDataReturns
  <1>2. ASSUME rp.state = "NO_DATA"
        PROVE  d.key.eph = 0
    <2>1. PICK h \in ServerIds : d = InitRp(h)
      BY <1>2 DEF GetRpData
    <2>2. d.key = NoKey
      BY <2>1 DEF InitRp, Blank
    <2> QED
      BY <2>2 DEF NoKey, GcmKey
  <1> QED
    BY <1>1, <1>2

(* What a ClientHello does to rp_data: nothing, a fresh start, or the      *)
(* name, ceremony and key of an indication that was opened.                *)
LEMMA HelloRp ==
    ASSUME IInv, UdIInv, EachClientFits, NEW c \in Clients, ServerHello(c)
    PROVE  \/ UNCHANGED rp
           \/ rp'.state \in HoldsNothing /\ rp'.key.eph \in {0, rp.key.eph, ud[c].eph}
           \/ TakesName(c)
           \/ TakesUser(c)
  <1> DEFINE m == conn[c].msg
  <1>1. conn[c].phase = "hello" /\ ParseClientHello(c, m)
    BY DEF ServerHello
  <1>2. rp \in RpData /\ users \subseteq UserRows
    BY DEF IInv, RpTypeOK
  <1>3. CASE ParseNoIndication(c, m)
    BY <1>3 DEF ParseNoIndication, rpVars
  <1>4. CASE ProcessPreIndication(c, m) \/ ProcessAuthIndicationDiscoverable(c, m)
    <2>1. PICK d \in GetRpData :
            \/ rp' = [d EXCEPT !.state = "PRE_INDICATION_RECEIVED"]
            \/ rp' = [d EXCEPT !.state = "AUTH_INDICATION_DISCOVERABLE_RECEIVED",
                               !.ceremony = "AUTH_DISCOVERABLE"]
      BY <1>4 DEF ProcessPreIndication, ProcessAuthIndicationDiscoverable
    <2>2. d \in RpData /\ d.key.eph \in {0, rp.key.eph}
      BY <1>2, GetRpDataKey
    <2>3. rp'.state \in HoldsNothing /\ rp'.key = d.key
      BY <2>1, <2>2 DEF RpData, HoldsNothing
    <2> QED
      BY <2>2, <2>3
  <1>5. CASE ProcessRegIndication(c, m)
    <2>1. /\ m.type = "REG_INDICATION" /\ m.ticket = ServerTicket
          /\ rp' = [rp EXCEPT !.state = "REG_INDICATION_RECEIVED", !.ceremony = "REGISTRATION",
                              !.key = GcmKey(rp.kep, m.eph), !.name = m.name]
      BY <1>5 DEF ProcessRegIndication
    <2>2. m.eph = ud[c].eph /\ m.ticket = ud[c].ticket
      BY <1>1, <2>1, HelloFields
    <2> QED
      BY <1>2, <2>1, <2>2 DEF RpData, GcmKey, TakesName
  <1>6. CASE ProcessAuthIndicationServerSide(c, m)
    <2>1. PICK id \in UserIds(m.name) :
             /\ m.type = "AUTH_INDICATION_SERVER_SIDE"
             /\ rp' = [rp EXCEPT !.state = "AUTH_INDICATION_SERVER_SIDE_RECEIVED",
                                 !.ceremony = "AUTH_SERVER_SIDE",
                                 !.key = GcmKey(rp.kep, m.eph), !.user = id]
      BY <1>6 DEF ProcessAuthIndicationServerSide
    <2>2. m.eph = ud[c].eph /\ m.name = ud[c].name
      BY <1>1, <2>1, HelloFields
    <2>3. PICK v \in users : v.name = ud[c].name /\ v.id = id
      BY <2>2 DEF UserIds
    <2>4. v = [id |-> id, name |-> ud[c].name]
      BY <1>2, <2>3 DEF UserRows
    <2> QED
      BY <1>2, <2>1, <2>2, <2>3, <2>4 DEF RpData, GcmKey, TakesUser
  <1>7. CASE RejectRegIndication(c, m) \/ RejectAuthIndicationServerSide(c, m)
    <2>1. /\ m.type \in {"REG_INDICATION", "AUTH_INDICATION_SERVER_SIDE"}
          /\ rp.state = "PRE_RESPONSE_SENT" /\ rp' = [rp EXCEPT !.key = GcmKey(rp.kep, m.eph)]
      BY <1>7 DEF RejectRegIndication, RejectAuthIndicationServerSide
    <2>2. m.eph = ud[c].eph
      BY <1>1, <2>1, HelloFields
    <2> QED
      BY <1>2, <2>1, <2>2 DEF RpData, GcmKey, HoldsNothing
  <1>8. CASE RefuseIndication(c, m)
    BY <1>8, GetRpDataKey DEF RefuseIndication, HoldsNothing
  <1> QED
    BY <1>1, <1>3, <1>4, <1>5, <1>6, <1>7, <1>8 DEF ParseClientHello

(* Building the request keeps the key, and what was held.                  *)
LEMMA FlightRp ==
    ASSUME IInv, NEW c, ServerFlight(c)
    PROVE  /\ rp'.key = rp.key
           /\ \/ UNCHANGED rp
              \/ rp'.state \in HoldsNothing
              \/ /\ rp.state = "REG_INDICATION_RECEIVED" /\ rp'.ceremony = rp.ceremony
                 /\ rp'.state \in {"REG_INDICATION_RECEIVED", "REG_REQUEST_SENT"}
              \/ rp'.state = "AUTH_REQUEST_SENT" /\ rp'.ceremony = "AUTH_DISCOVERABLE"
              \/ /\ rp.state = "AUTH_INDICATION_SERVER_SIDE_RECEIVED"
                 /\ rp'.ceremony = rp.ceremony /\ rp'.user = rp.user
                 /\ rp'.state \in {"AUTH_INDICATION_SERVER_SIDE_RECEIVED", "AUTH_REQUEST_SENT"}
  <1>1. rp \in RpData /\ AddCertificateRequest(c)
    BY DEF IInv, RpTypeOK, ServerFlight
  <1>2. CASE SendNothing(c) \/ RefuseCertificateRequest(c)
    BY <1>2 DEF SendNothing, RefuseCertificateRequest, rpVars
  <1>3. CASE CreatePreResponse(c)
    BY <1>1, <1>3 DEF CreatePreResponse, RpData, HoldsNothing
  <1>4. CASE CreateRegRequest(c) \/ FailRegRequest(c)
    <2>1. /\ rp.state = "REG_INDICATION_RECEIVED"
          /\ \E id : \/ rp' = [rp EXCEPT !.state = "REG_REQUEST_SENT", !.chal = fresh, !.user = id]
                     \/ rp' = [rp EXCEPT !.chal = fresh, !.user = id]
      BY <1>4 DEF CreateRegRequest, FailRegRequest
    <2> QED
      BY <1>1, <2>1 DEF RpData
  <1>5. CASE CreateAuthRequestDiscoverable(c)
    <2>1. rp.ceremony = "AUTH_DISCOVERABLE"
      BY <1>5 DEF CreateAuthRequestDiscoverable, IInv, FilledIn
    <2> QED
      BY <1>1, <1>5, <2>1 DEF CreateAuthRequestDiscoverable, RpData
  <1>6. CASE CreateAuthRequestServerSide(c) \/ FailAuthRequest(c)
    <2>1. /\ rp.state = "AUTH_INDICATION_SERVER_SIDE_RECEIVED"
          /\ \E allow : \/ rp' = [rp EXCEPT !.state = "AUTH_REQUEST_SENT", !.chal = fresh,
                                            !.allow = allow]
                        \/ rp' = [rp EXCEPT !.chal = fresh, !.allow = allow]
                        \/ rp' = [rp EXCEPT !.chal = fresh]
      BY <1>6 DEF CreateAuthRequestServerSide, FailAuthRequest
    <2> QED
      BY <1>1, <2>1 DEF RpData
  <1> QED
    BY <1>1, <1>2, <1>3, <1>4, <1>5, <1>6 DEF AddCertificateRequest

(* A Certificate ends what there was.                                      *)
LEMMA CertificateRp ==
    ASSUME IInv, NEW c, ServerCertificate(c)
    PROVE  \/ UNCHANGED rp
           \/ rp'.state \in HoldsNothing /\ rp'.key.eph \in {0, rp.key.eph}
  <1> DEFINE m == conn[c].msg
  <1>1. rp \in RpData /\ ParseCertificate(c, m)
    BY DEF IInv, RpTypeOK, ServerCertificate
  <1>2. CASE AcceptPlainCertificate(c, m)
    BY <1>2 DEF AcceptPlainCertificate, rpVars
  <1>3. CASE RefuseCertificate(c, m)
    BY <1>3, GetRpDataKey DEF RefuseCertificate, HoldsNothing
  <1>4. CASE NextProcess
    BY <1>4 DEF NextProcess, Blank, NoKey, GcmKey, HoldsNothing
  <1>5. CASE \/ ProcessRegResponse(c, m) \/ RejectRegResponse(c, m)
             \/ FailAddCreds(c, m) /\ ~NextProcess
             \/ ProcessAuthResponse(c, m) \/ FailUpdateSignCount(c, m)
             \/ RejectAuthResponse(c, m) \/ RejectUnknownCredential(c, m) \/ RejectStoredKey(c, m)
    BY <1>1, <1>5 DEF ProcessRegResponse, RejectRegResponse, FailAddCreds, ProcessAuthResponse,
       FailUpdateSignCount, RejectAuthResponse, RejectUnknownCredential, RejectStoredKey, RpData, HoldsNothing
  <1> QED
    BY <1>1, <1>2, <1>3, <1>4, <1>5 DEF ParseCertificate

(* No user is lost.                                                        *)
LEMMA CertificateKeepsUsers ==
    ASSUME IInv, NEW c, ServerCertificate(c)
    PROVE  users \subseteq users'
  BY DEF ServerCertificate, ParseCertificate, ProcessRegResponse, RejectRegResponse,
     FailAddCreds, AddsUser, WithUser, ProcessAuthResponse, FailUpdateSignCount,
     RejectAuthResponse, RejectUnknownCredential, RejectStoredKey, RefuseCertificate, AcceptPlainCertificate,
     rpVars

(* Every step keeps state and ceremony together.                           *)
LEMMA StepCeremonyFits ==
    ASSUME IInv, UdIInv, EachClientFits, DeviceIds, CeremonyFits, Next
    PROVE  CeremonyFits'
  <1>1. ASSUME UNCHANGED rp \/ rp'.state \in HoldsNothing
        PROVE  CeremonyFits'
    BY <1>1 DEF CeremonyFits, HoldsNothing
  <1>2. CASE Restart
    BY <1>1, <1>2 DEF Restart, RestartServer, NextProcess, Blank, HoldsNothing
  <1>3. ASSUME NEW c \in Clients, ServerHello(c)
        PROVE  CeremonyFits'
    BY <1>1, <1>3, HelloRp DEF CeremonyFits, TakesName, TakesUser
  <1>4. ASSUME NEW c \in Clients, ServerFlight(c)
        PROVE  CeremonyFits'
    BY <1>1, <1>4, FlightRp DEF CeremonyFits
  <1>5. ASSUME NEW c \in Clients, ServerCertificate(c)
        PROVE  CeremonyFits'
    BY <1>1, <1>5, CertificateRp
  <1>6. CASE UNCHANGED rpVars
    BY <1>1, <1>6 DEF rpVars
  <1> QED
    BY <1>2, <1>3, <1>4, <1>5, <1>6, StepForms DEF ClientSettles

-----------------------------------------------------------------------------
(* Keys.                                                                   *)

(* An ephemeral user id is drawn before it is offered or kept.             *)
LEMMA EphDrawn ==
    ASSUME UdIInv, EachClientFits, NEW x \in Clients
    PROVE  /\ ud[x].eph \in Nat /\ ud[x].eph < fresh /\ fresh \in Nat
           /\ Offered(x) =>
                conn[x].msg.eph \in Nat \ {0} /\ conn[x].msg.eph < fresh
  <1>1. ud[x].eph \in Nat /\ ud[x].eph < fresh /\ fresh \in Nat
    BY RequestFits DEF StateFits, UdRecord
  <1>2. ASSUME Offered(x)
        PROVE  conn[x].msg.eph \in Nat \ {0} /\ conn[x].msg.eph < fresh
    BY <1>2, RequestFits DEF Offered, RequestWellFormed, NoExt
  <1> QED
    BY <1>1, <1>2

(* An offer elsewhere stays as it is.                                      *)
LEMMA OfferedElsewhere ==
    ASSUME NEW c, NEW x \in Clients, x # c, OnlyAt(c)
    PROVE  (Offered(x)' <=> Offered(x)) /\ conn'[x] = conn[x] /\ ud'[x] = ud[x]
  BY DEF OnlyAt, Offered

(* Nobody gets a new key.                                                  *)
LEMMA SameKeysApart ==
    ASSUME IInv, UdIInv, EachClientFits, KeysApart, NEW c \in Clients, OnlyAt(c), ~Offered(c)',
           fresh' \in Nat, fresh' >= fresh, ud'[c].eph \in {0, ud[c].eph},
           rp'.key.eph \in {0, rp.key.eph, ud[c].eph}
    PROVE  KeysApart'
  <1>1. rp'.key.eph \in Nat /\ rp'.key.eph < fresh'
    <2>1. rp.key.eph \in Nat /\ rp.key.eph < fresh
      BY DEF KeysApart, IInv, RpTypeOK, RpData, GcmKeys
    <2> QED
      BY <2>1, EphDrawn
  <1>2. \A x \in Clients : ud'[x].eph # 0 => ud'[x].eph = ud[x].eph
    BY OfferedElsewhere
  <1>3. \A x, y \in Clients : ud'[x].eph # 0 /\ ud'[x].eph = ud'[y].eph => x = y
    BY <1>2 DEF KeysApart
  <1>4. ASSUME NEW x \in Clients, Offered(x)'
        PROVE  /\ Offered(x) /\ conn'[x].msg = conn[x].msg
               /\ rp'.key.eph # conn[x].msg.eph
               /\ \A y \in Clients : ud'[y].eph # conn[x].msg.eph
    <2>1. Offered(x) /\ conn'[x].msg = conn[x].msg
      BY <1>4, OfferedElsewhere
    <2>2. /\ conn[x].msg.eph # 0 /\ rp.key.eph # conn[x].msg.eph
          /\ \A y \in Clients : ud[y].eph # conn[x].msg.eph
      BY <2>1, EphDrawn DEF KeysApart
    <2> QED
      BY <1>2, <2>1, <2>2
  <1>5. \A x, y \in Clients :
          Offered(x)' /\ Offered(y)' /\ conn'[x].msg.eph = conn'[y].msg.eph => x = y
    BY <1>4 DEF KeysApart
  <1> QED
    BY <1>1, <1>3, <1>4, <1>5 DEF KeysApart

(* A new pre-response offers a key nobody has.                             *)
LEMMA PreResponseKeysApart ==
    ASSUME IInv, UdIInv, EachClientFits, KeysApart, NEW c \in Clients, ServerFlight(c),
           CreatePreResponse(c)
    PROVE  KeysApart'
  <1>1. /\ conn'[c].phase = "request" /\ conn'[c].msg.type = "PRE_RESPONSE"
        /\ conn'[c].msg.eph = fresh
    BY Shapes DEF CreatePreResponse, Send, PreResponse
  <1>2. OnlyAt(c) /\ UNCHANGED ud
    BY ServerFlightMoves DEF Flight, Moves, udVars
  <1>3. fresh \in Nat /\ fresh' = fresh + 1 /\ rp'.key.eph = rp.key.eph /\ rp.key.eph \in Nat
    BY Shapes DEF CreatePreResponse, IInv, RpTypeOK, RpData, GcmKeys
  <1>4. ASSUME NEW x \in Clients, Offered(x)'
        PROVE  /\ x = c => conn'[x].msg.eph = fresh
               /\ x # c => conn'[x].msg.eph < fresh /\ Offered(x) /\ conn'[x].msg = conn[x].msg
    BY <1>1, <1>2, <1>4, OfferedElsewhere, EphDrawn
  <1>5. ASSUME NEW x \in Clients, Offered(x)'
        PROVE  /\ rp'.key.eph # conn'[x].msg.eph
               /\ \A y \in Clients : ud'[y].eph # conn'[x].msg.eph
    <2>1. CASE x = c
      BY <1>2, <1>3, <1>4, <1>5, <2>1, EphDrawn DEF KeysApart
    <2>2. CASE x # c
      BY <1>2, <1>3, <1>4, <1>5, <2>2 DEF KeysApart
    <2> QED
      BY <2>1, <2>2
  <1>6. ASSUME NEW x \in Clients, NEW y \in Clients, Offered(x)', Offered(y)',
               conn'[x].msg.eph = conn'[y].msg.eph
        PROVE  x = y
    BY <1>3, <1>4, <1>6 DEF KeysApart
  <1>7. rp'.key.eph < fresh'
    BY <1>3 DEF KeysApart
  <1>8. \A x, y \in Clients : ud'[x].eph # 0 /\ ud'[x].eph = ud'[y].eph => x = y
    BY <1>2 DEF KeysApart
  <1> QED
    BY <1>5, <1>6, <1>7, <1>8 DEF KeysApart

(* A key that is taken is offered no more.                                 *)
LEMMA TakenKeysApart ==
    ASSUME IInv, UdIInv, EachClientFits, KeysApart, NEW c \in Clients,
           conn[c].phase = "request", ProcessPreResponse(c, conn[c].msg), UNCHANGED rp
    PROVE  KeysApart' /\ ud'[c].eph # rp.key.eph
  <1> DEFINE e == conn[c].msg.eph
  <1>1. /\ Moves(c, "asked", NoExt, WithPreResponse(ud[c], conn[c].msg))
        /\ UNCHANGED fresh /\ Offered(c)
    BY PreResponseMoves
  <1>2. OnlyAt(c) /\ ~Offered(c)' /\ ud'[c].eph = e
    BY <1>1, RequestFits DEF Moves, Offered, WithPreResponse, UdRecord
  <1>3. e # rp.key.eph /\ \A x \in Clients : ud[x].eph # e
    BY <1>1 DEF KeysApart
  <1>4. \A x, y \in Clients : ud'[x].eph # 0 /\ ud'[x].eph = ud'[y].eph => x = y
    BY <1>2, <1>3, OfferedElsewhere DEF KeysApart
  <1>5. ASSUME NEW x \in Clients, Offered(x)'
        PROVE  /\ Offered(x) /\ conn'[x].msg = conn[x].msg /\ rp'.key.eph # conn[x].msg.eph
               /\ \A y \in Clients : ud'[y].eph # conn[x].msg.eph
    <2>1. x # c /\ Offered(x) /\ conn'[x].msg = conn[x].msg
      BY <1>2, <1>5, OfferedElsewhere
    <2>2. e # conn[x].msg.eph
      BY <1>1, <2>1 DEF KeysApart
    <2> QED
      BY <1>2, <2>1, <2>2, OfferedElsewhere DEF KeysApart
  <1>6. \A x, y \in Clients :
          Offered(x)' /\ Offered(y)' /\ conn'[x].msg.eph = conn'[y].msg.eph => x = y
    BY <1>5 DEF KeysApart
  <1>7. rp'.key.eph < fresh'
    BY <1>1 DEF KeysApart
  <1> QED
    BY <1>2, <1>3, <1>4, <1>5, <1>6, <1>7 DEF KeysApart

(* Requests and answers leave the program with its key.                    *)
LEMMA WithSameProgram ==
    ASSUME NEW u \in UdRecord, NEW m, NEW rpId, NEW cred, NEW handle
    PROVE  /\ SameProgram(WithRegRequest(u, m), u)
           /\ SameProgram(WithAuthRequest(u, m), u)
           /\ SameProgram(WithRegResponse(u, rpId, cred), u)
           /\ SameProgram(WithAuthResponse(u, rpId, cred, handle), u)
  BY DEF SameProgram, UdRecord, WithRegRequest, WithAuthRequest, WithRegResponse,
     WithAuthResponse

(* What a step of a client that takes no key leaves of the keys.           *)
LEMMA KeepsKey ==
    ASSUME UdIInv, EachClientFits, DeviceIds, NEW c \in Clients,
           \/ Settles(c)
           \/ Stores(c) /\ ~ProcessPreResponse(c, conn[c].msg)
           \/ Answers(c)
    PROVE  /\ OnlyAt(c) /\ ~Offered(c)' /\ ud'[c].eph \in {0, ud[c].eph}
           /\ ud'[c].eph # 0 => ud'[c].name = ud[c].name /\ ud'[c].ticket = ud[c].ticket
  <1>1. CASE Settles(c)
    BY <1>1 DEF Settles, SameProgram
  <1>2. ASSUME NEW phase \in {"asked", "cert"}, NEW m, NEW u, Moves(c, phase, m, u),
               SameProgram(u, ud[c])
        PROVE  /\ OnlyAt(c) /\ ~Offered(c)' /\ ud'[c].eph = ud[c].eph
               /\ ud'[c].name = ud[c].name /\ ud'[c].ticket = ud[c].ticket
    BY <1>2 DEF Moves, Offered, SameProgram
  <1>3. CASE Stores(c) /\ ~ProcessPreResponse(c, conn[c].msg)
    <2>1. \E u : Moves(c, "asked", NoExt, u) /\ SameProgram(u, ud[c])
      <3>1. conn[c].phase = "request" /\ ud[c] \in UdRecord
        BY <1>3, RequestFits DEF Stores
      <3>2. CASE ProcessRegRequest(c, conn[c].msg)
        BY <3>1, <3>2, RegRequestMoves, WithSameProgram
      <3>3. CASE ProcessAuthRequest(c, conn[c].msg)
        BY <3>1, <3>3, AuthRequestMoves, WithSameProgram
      <3> QED
        BY <1>3, <3>2, <3>3 DEF Stores
    <2> QED
      BY <1>2, <2>1
  <1>4. CASE Answers(c)
    <2>1. \E m, u : Moves(c, "cert", m, u) /\ SameProgram(u, ud[c])
      <3>1. ud[c] \in UdRecord
        BY RequestFits
      <3>2. CASE CreateRegResponse(c)
        BY <3>1, <3>2, RegResponseMoves, WithSameProgram
      <3>3. CASE CreateAuthResponse(c)
        <4>1. PICK m, cred, handle :
                Moves(c, "cert", m, WithAuthResponse(ud[c], RpIdUsed(c), cred, handle))
          BY <3>3, AuthResponseMoves
        <4> QED
          BY <3>1, <4>1, WithSameProgram
      <3> QED
        BY <1>4, <3>2, <3>3 DEF Answers
    <2> QED
      BY <1>2, <2>1
  <1> QED
    BY <1>1, <1>3, <1>4

(* Every step keeps the keys apart.                                        *)
LEMMA StepKeysApart ==
    ASSUME IInv, UdIInv, EachClientFits, DeviceIds, KeysApart, Next
    PROVE  KeysApart'
  <1>1. CASE Restart
    <2>1. \A x \in Clients : conn'[x].phase \in {"idle", "failed"} /\ ud'[x] = ud[x]
      BY <1>1, BreakAllMoves DEF Restart, RestartServer, NextProcess
    <2>2. rp'.key.eph = 0 /\ fresh' = fresh /\ fresh \in Nat \ {0}
      BY <1>1 DEF Restart, RestartServer, NextProcess, Blank, NoKey, GcmKey, IInv, Remembered
    <2> QED
      BY <2>1, <2>2 DEF KeysApart, Offered
  <1>2. ASSUME NEW c \in Clients, ServerHello(c)
        PROVE  KeysApart'
    <2>1. /\ UNCHANGED fresh /\ ud'[c] = ud[c]
          /\ \E phase \in {"parsed", "failed"} : Moves(c, phase, NoExt, ud[c])
      BY <1>2, ServerHelloMoves DEF udVars
    <2>2. Settles(c)
      BY <2>1, MovesSettles DEF SameProgram
    <2>3. rp'.key.eph \in {0, rp.key.eph, ud[c].eph}
      BY <1>2, HelloRp DEF TakesName, TakesUser
    <2> QED
      BY <2>1, <2>2, <2>3, Shapes, SameKeysApart DEF Settles
  <1>3. ASSUME NEW c \in Clients, ServerFlight(c)
        PROVE  KeysApart'
    <2>1. CASE CreatePreResponse(c)
      BY <1>3, <2>1, PreResponseKeysApart
    <2>2. CASE ~CreatePreResponse(c)
      <3>1. PICK phase, m : Flight(c, phase, m)
        BY <1>3, ServerFlightMoves
      <3>2. OnlyAt(c) /\ ud'[c] = ud[c] /\ conn'[c].phase = phase /\ conn'[c].msg = m
        BY <3>1 DEF Flight, Moves
      <3>3. phase = "failed" \/ m.type # "PRE_RESPONSE"
        <4>1. CASE SendNothing(c)
          BY <3>2, <4>1, Shapes DEF SendNothing, Send, NoExt
        <4>2. CASE FailRegRequest(c) \/ FailAuthRequest(c) \/ RefuseCertificateRequest(c)
          <5>1. Send(c, "failed", NoExt)
            BY <4>2 DEF FailRegRequest, FailAuthRequest, RefuseCertificateRequest, Alert
          <5> QED
            BY <3>2, <5>1, SendChanges
        <4>3. CASE CreateRegRequest(c)
          <5>1. PICK id, exclude :
                  Send(c, "request", RegRequest(fresh, rp.rpId, rp.key, rp.name, id, exclude))
            BY <4>3 DEF CreateRegRequest
          <5> QED
            BY <3>2, <5>1, Shapes DEF Send, RegRequest
        <4>4. CASE CreateAuthRequestDiscoverable(c) \/ CreateAuthRequestServerSide(c)
          <5>1. PICK key, allow : Send(c, "request", AuthRequest(fresh, rp.rpId, key, allow))
            BY <4>4 DEF CreateAuthRequestDiscoverable, CreateAuthRequestServerSide
          <5> QED
            BY <3>2, <5>1, Shapes DEF Send, AuthRequest
        <4> QED
          BY <1>3, <2>2, <4>1, <4>2, <4>3, <4>4 DEF ServerFlight, AddCertificateRequest
      <3>4. ~Offered(c)'
        BY <3>2, <3>3 DEF Offered
      <3>5. rp'.key.eph = rp.key.eph /\ fresh' \in Nat /\ fresh' >= fresh
        BY <1>3, FlightRp, ServerFlightMoves
      <3> QED
        BY <3>2, <3>4, <3>5, SameKeysApart
    <2> QED
      BY <2>1, <2>2
  <1>4. ASSUME NEW c \in Clients, ServerCertificate(c)
        PROVE  KeysApart'
    <2>1. UNCHANGED <<fresh, ud>> /\ (Ends(c) \/ NextProcess) /\ fresh \in Nat \ {0}
      BY <1>4, ServerCertificateMoves DEF udVars, IInv, Remembered
    <2>2. CASE NextProcess
      <3>1. \A x \in Clients : conn'[x].phase \in {"idle", "failed"} /\ ud'[x] = ud[x]
        BY <1>4, <2>2, ServerCertificateMoves, BreakAllMoves DEF NextProcess
      <3>2. rp'.key.eph = 0
        BY <2>2 DEF NextProcess, Blank, NoKey, GcmKey
      <3> QED
        BY <2>1, <3>1, <3>2 DEF KeysApart, Offered
    <2>3. CASE Ends(c)
      <3>1. OnlyAt(c) /\ ~Offered(c)' /\ ud'[c] = ud[c]
        BY <2>3 DEF Ends, Moves, Offered
      <3>2. rp'.key.eph \in {0, rp.key.eph}
        BY <1>4, CertificateRp
      <3> QED
        BY <2>1, <3>1, <3>2, SameKeysApart
    <2> QED
      BY <2>1, <2>2, <2>3
  <1>5. ASSUME NEW c \in Clients, ClientStep(c)
        PROVE  KeysApart'
    <2>1. UNCHANGED rp /\ fresh' \in Nat /\ fresh' >= fresh
      BY <1>5, ClientDraws DEF rpVars, ClientStep
    <2>2. CASE Stores(c) /\ ProcessPreResponse(c, conn[c].msg)
      BY <2>1, <2>2, TakenKeysApart DEF Stores
    <2>3. CASE ~(Stores(c) /\ ProcessPreResponse(c, conn[c].msg))
      BY <1>5, <2>1, <2>3, KeepsKey, SameKeysApart DEF ClientSettles, ClientStep
    <2> QED
      BY <2>2, <2>3
  <1>6. CASE \E c \in Clients : ServerHello(c) \/ ServerFlight(c) \/ ServerCertificate(c)
    BY <1>2, <1>3, <1>4, <1>6
  <1>7. CASE \E c \in Clients : ClientStep(c)
    BY <1>5, <1>7
  <1> QED
    BY <1>1, <1>6, <1>7, StepCases

(* A step after which rp_data holds no more than before, from the same     *)
(* program.                                                                *)
LEMMA SameKeyOwner ==
    ASSUME KeyOwner, NEW c \in Clients, OnlyAt(c), users \subseteq users',
           ud'[c].eph # 0 /\ ud'[c].eph = rp.key.eph =>
             ud'[c].eph = ud[c].eph /\ ud'[c].name = ud[c].name /\ ud'[c].ticket = ud[c].ticket,
           rp'.key.eph = rp.key.eph, HoldsName(rp') => HoldsName(rp),
           HoldsUser(rp') => HoldsUser(rp) /\ rp'.user = rp.user
    PROVE  KeyOwner'
  <1>1. ASSUME NEW x \in Clients, ud'[x].eph # 0, rp'.key.eph = ud'[x].eph
        PROVE  ud[x].eph = ud'[x].eph /\ ud'[x].name = ud[x].name /\ ud'[x].ticket = ud[x].ticket
    BY <1>1 DEF OnlyAt
  <1> QED
    BY <1>1 DEF KeyOwner, HoldsName, HoldsUser

(* A step after which rp_data holds nothing.                               *)
LEMMA HoldsNothingOwner ==
    ASSUME rp'.state \in HoldsNothing
    PROVE  KeyOwner'
  BY DEF KeyOwner, HoldsName, HoldsUser, HoldsNothing

(* What rp_data holds came from the program whose key it has.              *)
LEMMA StepKeyOwner ==
    ASSUME IInv, UdIInv, EachClientFits, DeviceIds, KeysApart, KeyOwner, Next
    PROVE  KeyOwner'
  <1>1. CASE Restart
    BY <1>1, HoldsNothingOwner DEF Restart, RestartServer, NextProcess, Blank, HoldsNothing
  <1>2. ASSUME NEW c \in Clients, ServerHello(c)
        PROVE  KeyOwner'
    <2>1. UNCHANGED <<ud, users>>
      BY <1>2, ServerHelloMoves DEF udVars
    <2>2. CASE UNCHANGED rp
      BY <2>1, <2>2 DEF KeyOwner, HoldsName, HoldsUser
    <2>3. CASE TakesName(c) \/ TakesUser(c)
      <3>1. \A x \in Clients : ud[x].eph # 0 /\ rp'.key.eph = ud[x].eph => x = c
        BY <2>3 DEF TakesName, TakesUser, KeysApart
      <3>2. CASE TakesName(c)
        BY <2>1, <3>1, <3>2 DEF KeyOwner, TakesName, HoldsName, HoldsUser
      <3>3. CASE TakesUser(c)
        BY <2>1, <3>1, <3>3 DEF KeyOwner, TakesUser, HoldsName, HoldsUser
      <3> QED
        BY <2>3, <3>2, <3>3
    <2> QED
      BY <1>2, <2>2, <2>3, HelloRp, HoldsNothingOwner
  <1>3. ASSUME NEW c \in Clients, ServerFlight(c)
        PROVE  KeyOwner'
    <2>1. UNCHANGED <<ud, users>> /\ rp'.key = rp.key
      BY <1>3, ServerFlightMoves, FlightRp DEF udVars
    <2>2. CASE rp'.state \in HoldsNothing
      BY <2>2, HoldsNothingOwner
    <2>3. CASE rp'.state \notin HoldsNothing
      <3>1. /\ HoldsName(rp') => HoldsName(rp)
            /\ HoldsUser(rp') => HoldsUser(rp) /\ rp'.user = rp.user
        BY <1>3, <2>3, FlightRp DEF HoldsName, HoldsUser
      <3> QED
        BY <2>1, <3>1 DEF KeyOwner
    <2> QED
      BY <2>2, <2>3
  <1>4. ASSUME NEW c \in Clients, ServerCertificate(c)
        PROVE  KeyOwner'
    <2>1. UNCHANGED ud /\ users \subseteq users'
      BY <1>4, ServerCertificateMoves, CertificateKeepsUsers DEF udVars
    <2>2. CASE UNCHANGED rp
      BY <2>1, <2>2 DEF KeyOwner, HoldsName, HoldsUser
    <2> QED
      BY <1>4, <2>2, CertificateRp, HoldsNothingOwner
  <1>5. ASSUME NEW c \in Clients, ClientStep(c)
        PROVE  KeyOwner'
    <2>1. UNCHANGED <<rp, users>>
      BY <1>5 DEF rpVars, ClientStep
    <2>2. OnlyAt(c) /\ (ud'[c].eph # 0 /\ ud'[c].eph = rp.key.eph =>
             ud'[c].eph = ud[c].eph /\ ud'[c].name = ud[c].name /\ ud'[c].ticket = ud[c].ticket)
      <3>1. CASE Stores(c) /\ ProcessPreResponse(c, conn[c].msg)
        BY <2>1, <3>1, TakenKeysApart, PreResponseMoves DEF Stores, Moves
      <3>2. CASE ~(Stores(c) /\ ProcessPreResponse(c, conn[c].msg))
        BY <1>5, <3>2, KeepsKey DEF ClientSettles, ClientStep
      <3> QED
        BY <3>1, <3>2
    <2> QED
      BY <2>1, <2>2, SameKeyOwner
  <1>6. CASE \E c \in Clients : ServerHello(c) \/ ServerFlight(c) \/ ServerCertificate(c)
    BY <1>2, <1>3, <1>4, <1>6
  <1>7. CASE \E c \in Clients : ClientStep(c)
    BY <1>5, <1>7
  <1> QED
    BY <1>1, <1>6, <1>7, StepCases

-----------------------------------------------------------------------------
(* Authenticators.                                                         *)

(* Credentials have natural numbers as their ids, on authenticators and in *)
(* the table.                                                              *)
LEMMA IdsDrawn ==
    ASSUME IInv, UdIInv, DeviceIds
    PROVE  /\ fresh \in Nat
           /\ \A d \in Devices : \A k \in dev[d] : k \in DeviceCreds /\ k.cred < fresh
           /\ \A r \in creds : r \in CredRows /\ r.cred < fresh
  BY Shapes DEF DeviceIds, IInv, RpTypeOK

(* MakeCredential, one authenticator at a time.                            *)
LEMMA MadeOn ==
    ASSUME UdIInv, NEW d \in Devices, NEW cred, NEW user, NEW h, NEW rk, NEW exclude,
           MakeCredential(d, cred, user, h, rk, exclude)
    PROVE  LET new == [cred |-> cred, user |-> user, rp |-> h, rk |-> rk, count |-> 0]
           IN  /\ \A k \in dev[d] : k.cred \notin exclude
               /\ new \in dev'[d]
               /\ \A k \in dev'[d] : k = new \/ k \in dev[d]
               /\ \A k \in dev[d] : k \in dev'[d] \/ (k.rp = h /\ k.user = user)
               /\ \A e \in Devices : e # d => dev'[e] = dev[e]
  <1>1. dev'[d] = {k \in dev[d] : ~(rk /\ k.rk /\ k.rp = h /\ k.user = user)}
                    \cup {[cred |-> cred, user |-> user, rp |-> h, rk |-> rk, count |-> 0]}
    BY Shapes DEF MakeCredential
  <1>2. \A k \in dev[d] : k.cred \notin exclude
    BY DEF MakeCredential
  <1>3. \A e \in Devices : e # d => dev'[e] = dev[e]
    BY Shapes DEF MakeCredential
  <1> QED
    BY <1>1, <1>2, <1>3

(* CountUp, likewise.                                                      *)
LEMMA CountedOn ==
    ASSUME UdIInv, NEW d \in Devices, NEW k \in dev[d], CountUp(d, k)
    PROVE  LET up == [k EXCEPT !.count = k.count + 1]
           IN  /\ up \in DeviceCreds
               /\ up.cred = k.cred /\ up.user = k.user /\ up.rp = k.rp
               /\ up.count = k.count + 1 /\ up.count > k.count
               /\ up \in dev'[d]
               /\ \A l \in dev'[d] : l = up \/ (l \in dev[d] /\ l # k)
               /\ \A l \in dev[d] : l = k \/ l \in dev'[d]
               /\ \A e \in Devices : e # d => dev'[e] = dev[e]
  <1> DEFINE up == [k EXCEPT !.count = k.count + 1]
  <1>1. dev'[d] = (dev[d] \ {k}) \cup {up} /\ \A e \in Devices : e # d => dev'[e] = dev[e]
    BY Shapes DEF CountUp
  <1>2. k \in DeviceCreds
    BY Shapes
  <1>3. /\ up \in DeviceCreds /\ up.cred = k.cred /\ up.user = k.user /\ up.rp = k.rp
        /\ up.count = k.count + 1 /\ up.count > k.count
    BY <1>2 DEF DeviceCreds
  <1> HIDE DEF up
  <1>4. up \in dev'[d] /\ (\A l \in dev'[d] : l = up \/ (l \in dev[d] /\ l # k))
           /\ (\A l \in dev[d] : l = k \/ l \in dev'[d])
    BY <1>1
  <1> QED
    BY <1>1, <1>3, <1>4 DEF up

(* A client that registers works for a user the server has named, and      *)
(* excludes what that user has enrolled.                                   *)
LEMMA RegisteringFor ==
    ASSUME IInv, UdIInv, OneRequest, NEW c \in Clients, Registering(c)
    PROVE  /\ ud[c].user = rp.user /\ rp.user # 0 /\ ud[c].user \in Nat
           /\ RpIdUsed(c) = rp.rpId /\ ud[c].rpId = rp.rpId
           /\ ~ReadFaults => ud[c].exclude = Descriptors(ud[c].user, RpIdUsed(c))
           /\ \A x \in Clients : x # c => ~HasRequest(x)
  <1>1. /\ rp.state = "REG_REQUEST_SENT" /\ ud[c].user = rp.user /\ ud[c].rpId = rp.rpId
        /\ ExcludesEnrolled(ud[c].exclude)
    BY DEF OneRequest, RequestMatches
  <1>2. rp.user # 0
    BY <1>1 DEF IInv, FilledIn
  <1> QED
    BY <1>1, <1>2, RequestRpId, Shapes DEF ExcludesEnrolled, UdRecord

(* A new credential, whether its packet is sent or not.                    *)
Makes(c) ==
    /\ Registering(c)
    /\ \E d \in Devices :
         MakeCredential(d, fresh, ud[c].user, RpIdUsed(c), Discoverable, ud[c].exclude)
    /\ fresh' = fresh + 1 /\ UNCHANGED rpVars

(* create_reg_response makes it, also where its packet does not fit.       *)
LEMMA ResponsesMake ==
    ASSUME NEW c \in Clients, CreateRegResponse(c) \/ FailRegResponse(c), UNCHANGED rpVars
    PROVE  Makes(c)
  <1>1. /\ Registering(c) /\ fresh' = fresh + 1
    BY DEF CreateRegResponse, FailRegResponse, Registering, RegAnswerStates
  <1>2. \E d \in Attached[c] :
          MakeCredential(d, fresh, ud[c].user, RpIdUsed(c), Discoverable, ud[c].exclude)
    BY DEF CreateRegResponse, FailRegResponse
  <1> QED
    BY <1>1, <1>2, UserDeviceAssumption DEF Makes

(* It is unlike any other, and replaces none that is enrolled.             *)
LEMMA MakesKeepsDevices ==
    ASSUME IInv, UdIInv, OneRequest, DeviceIds, DevicesAgree, NEW c \in Clients, Makes(c)
    PROVE  DeviceIds' /\ DevicesAgree'
  <1>1. PICK d \in Devices :
          MakeCredential(d, fresh, ud[c].user, RpIdUsed(c), Discoverable, ud[c].exclude)
    BY DEF Makes
  <1> DEFINE new == [cred |-> fresh, user |-> ud[c].user, rp |-> RpIdUsed(c),
                     rk |-> Discoverable, count |-> 0]
  <1>2. /\ \A k \in dev[d] : k.cred \notin ud[c].exclude
        /\ new \in dev'[d]
        /\ \A k \in dev'[d] : k = new \/ k \in dev[d]
        /\ \A k \in dev[d] : k \in dev'[d] \/ (k.rp = RpIdUsed(c) /\ k.user = ud[c].user)
        /\ \A e \in Devices : e # d => dev'[e] = dev[e]
    BY <1>1, MadeOn
  <1>3. new.cred = fresh /\ new.user = ud[c].user /\ new.rp = RpIdUsed(c)
    OBVIOUS
  <1> HIDE DEF new
  <1>4. /\ UNCHANGED creds /\ fresh' = fresh + 1 /\ fresh \in Nat
        /\ \A e \in Devices : \A k \in dev[e] : k \in DeviceCreds /\ k.cred < fresh /\ k.user # 0
        /\ \A r \in creds : r \in CredRows /\ r.cred < fresh
    BY IdsDrawn DEF Makes, rpVars, DeviceIds
  <1>5. /\ ud[c].user \in Nat \ {0}
        /\ ~ReadFaults => ud[c].exclude = Descriptors(ud[c].user, RpIdUsed(c))
    BY RegisteringFor DEF Makes
  <1>6. ASSUME NEW e \in Devices, NEW k \in dev'[e]
        PROVE  (e = d /\ k = new) \/ (k \in dev[e] /\ k.cred < fresh)
    BY <1>2, <1>4, <1>6
  <1>7. DeviceIds'
    <2>1. \A e \in Devices : \A k \in dev'[e] : k.cred < fresh' /\ k.user # 0
      BY <1>3, <1>4, <1>5, <1>6 DEF DeviceCreds
    <2>2. ASSUME NEW e \in Devices, NEW f \in Devices, NEW k \in dev'[e], NEW l \in dev'[f],
                 k.cred = l.cred
          PROVE  e = f /\ k = l
      BY <1>3, <1>4, <1>6, <2>2 DEF DeviceIds, DeviceCreds
    <2>3. \A r \in creds' : r.cred < fresh'
      BY <1>4 DEF CredRows
    <2> QED
      BY <2>1, <2>2, <2>3 DEF DeviceIds
  <1>8. ASSUME ~ReadFaults
        PROVE  EnrolledCredentialsUsable' /\ OneCredentialPerAuthenticator'
    <2>1. ASSUME NEW r \in creds'
          PROVE  \E e \in Devices : \E k \in dev'[e] :
                   k.cred = r.cred /\ k.user = r.user /\ k.rp = r.rp /\ k.count >= r.count
      <3>1. PICK e \in Devices : \E k \in dev[e] :
              k.cred = r.cred /\ k.user = r.user /\ k.rp = r.rp /\ k.count >= r.count
        BY <1>4, <1>8, <2>1 DEF DevicesAgree, EnrolledCredentialsUsable
      <3>2. PICK k \in dev[e] :
              k.cred = r.cred /\ k.user = r.user /\ k.rp = r.rp /\ k.count >= r.count
        BY <3>1
      <3>3. k \in dev'[e]
        <4>1. CASE e = d /\ k.rp = RpIdUsed(c) /\ k.user = ud[c].user
          <5>1. r.cred \in Descriptors(ud[c].user, RpIdUsed(c))
            BY <1>4, <3>2, <4>1 DEF Descriptors
          <5> QED
            BY <1>2, <1>5, <1>8, <3>2, <4>1, <5>1
        <4> QED
          BY <1>2, <4>1
      <3> QED
        BY <3>2, <3>3
    <2>2. ASSUME NEW e \in Devices, NEW r \in creds', NEW s \in creds',
                 r.user = s.user, r.rp = s.rp, {r.cred, s.cred} \subseteq {k.cred : k \in dev'[e]}
          PROVE  r = s
      <3>1. ASSUME NEW q \in creds, q.cred \in {k.cred : k \in dev'[e]}
            PROVE  q.cred \in {k.cred : k \in dev[e]}
        BY <1>3, <1>4, <1>6, <3>1 DEF CredRows
      <3>2. {r.cred, s.cred} \subseteq {k.cred : k \in dev[e]} /\ r \in creds /\ s \in creds
        BY <1>4, <2>2, <3>1
      <3> QED
        BY <1>8, <2>2, <3>2 DEF DevicesAgree, OneCredentialPerAuthenticator
    <2> QED
      BY <2>1, <2>2 DEF EnrolledCredentialsUsable, OneCredentialPerAuthenticator
  <1> QED
    BY <1>7, <1>8 DEF DevicesAgree

(* With its packet it is what CredentialMade says.                         *)
LEMMA RegResponseMade ==
    ASSUME IInv, UdIInv, EachClientFits, OneRequest, DeviceIds, NEW c \in Clients,
           CreateRegResponse(c), UNCHANGED rpVars
    PROVE  CredentialMade(c)'
  <1>1. Makes(c)
    BY ResponsesMake
  <1>2. PICK d \in Devices :
          MakeCredential(d, fresh, ud[c].user, RpIdUsed(c), Discoverable, ud[c].exclude)
    BY <1>1 DEF Makes
  <1> DEFINE new == [cred |-> fresh, user |-> ud[c].user, rp |-> RpIdUsed(c),
                     rk |-> Discoverable, count |-> 0]
  <1>3. /\ \A k \in dev[d] : k.cred \notin ud[c].exclude
        /\ new \in dev'[d] /\ \A k \in dev'[d] : k = new \/ k \in dev[d]
    BY <1>2, MadeOn
  <1>4. new.cred = fresh /\ new.user = ud[c].user /\ new.rp = RpIdUsed(c)
    OBVIOUS
  <1> HIDE DEF new
  <1>5. /\ UNCHANGED creds /\ fresh \in Nat
        /\ \A r \in creds : r \in CredRows /\ r.cred < fresh
    BY IdsDrawn DEF rpVars
  <1>6. /\ ~ReadFaults => ud[c].exclude = Descriptors(ud[c].user, RpIdUsed(c))
    BY <1>1, RegisteringFor DEF Makes
  <1>7. ud'[c].cred = fresh /\ ud'[c].user = ud[c].user /\ ud'[c].rpId = RpIdUsed(c)
    BY RegResponseMoves, RequestFits DEF Moves, WithRegResponse, UdRecord
  <1>8. \A r \in creds' : r.cred # ud'[c].cred
    BY <1>5, <1>7 DEF CredRows
  <1>9. ASSUME ~ReadFaults, NEW k \in dev'[d], NEW r \in creds',
               r.user = ud'[c].user, r.rp = ud'[c].rpId
        PROVE  k.cred # r.cred
    <2>1. r.cred \in ud[c].exclude
      BY <1>5, <1>6, <1>7, <1>9 DEF Descriptors
    <2> QED
      BY <1>3, <1>4, <1>7, <1>8, <1>9, <2>1
  <1> QED
    BY <1>3, <1>4, <1>7, <1>8, <1>9 DEF CredentialMade

(* An assertion keeps every credential, with a higher counter.             *)
LEMMA CountsKeepsDevices ==
    ASSUME IInv, UdIInv, DeviceIds, DevicesAgree, NEW d \in Devices, NEW k \in dev[d],
           CountUp(d, k), UNCHANGED <<fresh, creds>>
    PROVE  DeviceIds' /\ DevicesAgree'
  <1> DEFINE up == [k EXCEPT !.count = k.count + 1]
  <1>1. /\ up \in DeviceCreds /\ up.cred = k.cred /\ up.user = k.user /\ up.rp = k.rp
        /\ up.count > k.count
        /\ up \in dev'[d]
        /\ \A l \in dev'[d] : l = up \/ (l \in dev[d] /\ l # k)
        /\ \A l \in dev[d] : l = k \/ l \in dev'[d]
        /\ \A e \in Devices : e # d => dev'[e] = dev[e]
    BY CountedOn
  <1> HIDE DEF up
  <1>2. ASSUME NEW e \in Devices, NEW l \in dev'[e]
        PROVE  \/ e = d /\ l = up
               \/ l \in dev[e] /\ ~(e = d /\ l = k)
    BY <1>1, <1>2
  <1>3. ASSUME NEW e \in Devices, NEW l \in dev[e]
        PROVE  \E l2 \in dev'[e] :
                 l2.cred = l.cred /\ l2.user = l.user /\ l2.rp = l.rp /\ l2.count >= l.count
    <2>1. CASE e = d /\ l = k
      <3>1. k \in DeviceCreds
        BY Shapes
      <3>2. up.count >= k.count
        BY <1>1, <3>1 DEF DeviceCreds
      <3> QED
        BY <1>1, <2>1, <3>2
    <2>2. CASE ~(e = d /\ l = k)
      <3>1. l \in dev'[e] /\ l.count \in Nat
        BY <1>1, <1>3, <2>2, Shapes DEF DeviceCreds
      <3>2. l.count >= l.count
        BY <3>1
      <3> QED
        BY <3>1, <3>2
    <2> QED
      BY <2>1, <2>2
  <1>4. DeviceIds'
    <2>1. \A e \in Devices : \A l \in dev'[e] : l.cred < fresh' /\ l.user # 0
      BY <1>1, <1>2 DEF DeviceIds
    <2>2. ASSUME NEW e \in Devices, NEW f \in Devices, NEW l \in dev'[e], NEW n \in dev'[f],
                 l.cred = n.cred
          PROVE  e = f /\ l = n
      BY <1>1, <1>2, <2>2 DEF DeviceIds
    <2>3. \A r \in creds' : r.cred < fresh'
      BY DEF DeviceIds
    <2> QED
      BY <2>1, <2>2, <2>3 DEF DeviceIds
  <1>5. ASSUME ~ReadFaults
        PROVE  EnrolledCredentialsUsable' /\ OneCredentialPerAuthenticator'
    <2>1. ASSUME NEW r \in creds'
          PROVE  \E e \in Devices : \E l \in dev'[e] :
                   l.cred = r.cred /\ l.user = r.user /\ l.rp = r.rp /\ l.count >= r.count
      <3>1. r \in creds /\ r \in CredRows
        BY <2>1, IdsDrawn
      <3>2. PICK e \in Devices : \E l \in dev[e] :
              l.cred = r.cred /\ l.user = r.user /\ l.rp = r.rp /\ l.count >= r.count
        BY <1>5, <3>1 DEF DevicesAgree, EnrolledCredentialsUsable
      <3>3. PICK l \in dev[e] :
              l.cred = r.cred /\ l.user = r.user /\ l.rp = r.rp /\ l.count >= r.count
        BY <3>2
      <3>4. PICK l2 \in dev'[e] :
              l2.cred = l.cred /\ l2.user = l.user /\ l2.rp = l.rp /\ l2.count >= l.count
        BY <1>3
      <3>5. l2.count \in Nat /\ l.count \in Nat /\ r.count \in Nat
        <4>1. l \in DeviceCreds
          BY Shapes
        <4>2. l2 = up \/ l2 \in dev[e]
          BY <1>2
        <4>3. l2 \in DeviceCreds
          BY <1>1, <4>2, Shapes
        <4> QED
          BY <3>1, <4>1, <4>3 DEF DeviceCreds, CredRows
      <3> QED
        BY <3>3, <3>4, <3>5
    <2>2. ASSUME NEW e \in Devices, NEW r \in creds', NEW s \in creds',
                 r.user = s.user, r.rp = s.rp, {r.cred, s.cred} \subseteq {l.cred : l \in dev'[e]}
          PROVE  r = s
      <3>1. {r.cred, s.cred} \subseteq {l.cred : l \in dev[e]} /\ r \in creds /\ s \in creds
        BY <1>1, <1>2, <2>2
      <3> QED
        BY <1>5, <2>2, <3>1 DEF DevicesAgree, OneCredentialPerAuthenticator
    <2> QED
      BY <2>1, <2>2 DEF EnrolledCredentialsUsable, OneCredentialPerAuthenticator
  <1> QED
    BY <1>4, <1>5 DEF DevicesAgree

(* The assertion that is sent is what AssertionMade says.                  *)
LEMMA AuthResponseMade ==
    ASSUME IInv, UdIInv, EachClientFits, OneRequest, DeviceIds, DevicesAgree, NEW c \in Clients,
           CreateAuthResponse(c), UNCHANGED rpVars
    PROVE  DeviceIds' /\ DevicesAgree' /\ AssertionMade(c)'
  <1>1. PICK d, k, handle, m :
          /\ d \in Devices /\ k \in Assertable(d, c, RpIdUsed(c)) /\ CountUp(d, k)
          /\ handle \in Handles(c, k)
          /\ Moves(c, "cert", m, WithAuthResponse(ud[c], RpIdUsed(c), k.cred, handle))
          /\ m.count = k.count + 1
    BY AuthResponseMoves
  <1>2. /\ d \in Devices /\ k \in dev[d] /\ k \in DeviceCreds
        /\ UNCHANGED <<fresh, creds>>
    BY <1>1, Shapes, AuthResponseMoves DEF Assertable, rpVars
  <1>3. DeviceIds' /\ DevicesAgree'
    BY <1>1, <1>2, CountsKeepsDevices
  <1> DEFINE up == [k EXCEPT !.count = k.count + 1]
  <1>4. /\ up.cred = k.cred /\ up.user = k.user /\ up.rp = k.rp
        /\ up.count = k.count + 1 /\ up \in dev'[d]
    BY <1>1, <1>2, CountedOn
  <1> HIDE DEF up
  <1>5. /\ ud'[c].cred = k.cred /\ ud'[c].rpId = RpIdUsed(c) /\ ud'[c].user = handle
        /\ ud'[c].ceremony = ud[c].ceremony /\ ud'[c].allow = ud[c].allow
        /\ conn'[c].msg.count = k.count + 1
    BY <1>1, RequestFits DEF Moves, WithAuthResponse, UdRecord
  <1>6. /\ k.rp = RpIdUsed(c)
        /\ IF ud[c].ceremony = "AUTH_SERVER_SIDE" THEN k.cred \in ud[c].allow ELSE k.rk
    BY <1>1 DEF Assertable
  <1>7. IF ud[c].ceremony = "AUTH_SERVER_SIDE" THEN handle \in {0, k.user} ELSE handle = k.user
    BY <1>1, <1>6 DEF Handles
  <1>8. ASSUME ~ReadFaults, NEW r \in creds', r.cred = ud'[c].cred
        PROVE  r.count < conn'[c].msg.count
    <2>1. r \in creds /\ r \in CredRows
      BY <1>2, <1>8, IdsDrawn
    <2>2. PICK e \in Devices : \E l \in dev[e] : l.cred = r.cred /\ l.count >= r.count
      BY <1>8, <2>1 DEF DevicesAgree, EnrolledCredentialsUsable
    <2>3. k.count >= r.count
      BY <1>2, <1>5, <1>8, <2>2 DEF DeviceIds
    <2> QED
      BY <1>2, <1>5, <2>1, <2>3 DEF DeviceCreds, CredRows
  <1>9. /\ up \in dev'[d] /\ up.cred = ud'[c].cred /\ up.rp = ud'[c].rpId
        /\ up.count = conn'[c].msg.count
        /\ IF ud'[c].ceremony = "AUTH_SERVER_SIDE"
           THEN up.cred \in ud'[c].allow /\ ud'[c].user \in {0, up.user}
           ELSE ud'[c].user = up.user
    BY <1>4, <1>5, <1>6, <1>7
  <1>10. AssertionMade(c)'
    BY <1>2, <1>8, <1>9 DEF AssertionMade
  <1> QED
    BY <1>3, <1>10

(* An answer without a request is no answer.                               *)
LEMMA NoAnswers ==
    ASSUME \A x \in Clients : ~HasRequest(x)'
    PROVE  AnswersMade'
  BY DEF AnswersMade, HasRequest, Registering, LoggingIn, RegAnswerStates, AuthAnswerStates

(* The answer of the client with the request is the only one.              *)
LEMMA TheAnswer ==
    ASSUME NEW c \in Clients, OnlyAt(c), \A x \in Clients : x # c => ~HasRequest(x),
           conn'[c].phase = "cert" /\ ud'[c].state = "REG_RESPONSE_SENT" => CredentialMade(c)',
           conn'[c].phase = "cert" /\ ud'[c].state = "AUTH_RESPONSE_SENT" => AssertionMade(c)'
    PROVE  AnswersMade'
  <1>1. \A x \in Clients : x # c => ~HasRequest(x)'
    BY ElsewhereSame
  <1>2. ASSUME NEW x \in Clients, x # c, conn'[x].phase = "cert"
        PROVE  ud'[x].state \notin {"REG_RESPONSE_SENT", "AUTH_RESPONSE_SENT"}
    BY <1>1, <1>2 DEF HasRequest, Registering, LoggingIn, RegAnswerStates, AuthAnswerStates
  <1> QED
    BY <1>2 DEF AnswersMade

(* A step that leaves authenticators and credentials alone.                *)
LEMMA SameDevices ==
    ASSUME IInv, UdIInv, DeviceIds, DevicesAgree, UNCHANGED <<dev, creds>>,
           fresh' \in Nat, fresh' >= fresh
    PROVE  DeviceIds' /\ DevicesAgree'
  <1>1. DeviceIds'
    BY IdsDrawn DEF DeviceIds, DeviceCreds, CredRows
  <1>2. DevicesAgree'
    BY DEF DevicesAgree, EnrolledCredentialsUsable, OneCredentialPerAuthenticator
  <1> QED
    BY <1>1, <1>2

(* If it leaves its client without an answer, the other answers stay good. *)
LEMMA SameAnswers ==
    ASSUME AnswersMade, NEW c \in Clients, OnlyAt(c), UNCHANGED <<dev, creds>>,
           ~HasRequest(c)' \/ conn'[c].phase # "cert"
    PROVE  AnswersMade'
  <1>1. ASSUME NEW x \in Clients, x # c, conn'[x].phase = "cert"
        PROVE  /\ ud'[x].state = "REG_RESPONSE_SENT" => CredentialMade(x)'
               /\ ud'[x].state = "AUTH_RESPONSE_SENT" => AssertionMade(x)'
    <2>1. conn'[x] = conn[x] /\ ud'[x] = ud[x]
      BY <1>1 DEF OnlyAt
    <2>2. CredentialMade(x) => CredentialMade(x)'
      BY <2>1 DEF CredentialMade
    <2>3. AssertionMade(x) => AssertionMade(x)'
      BY <2>1 DEF AssertionMade
    <2> QED
      BY <1>1, <2>1, <2>2, <2>3 DEF AnswersMade
  <1>2. conn'[c].phase = "cert" =>
          ud'[c].state \notin {"REG_RESPONSE_SENT", "AUTH_RESPONSE_SENT"}
    BY DEF HasRequest, Registering, LoggingIn, RegAnswerStates, AuthAnswerStates
  <1> QED
    BY <1>1, <1>2 DEF AnswersMade

(* A client's step.                                                        *)
LEMMA ClientDevices ==
    ASSUME IInv, UdIInv, EachClientFits, OneRequest, DeviceIds, AnswersMade, DevicesAgree,
           NEW c \in Clients, ClientStep(c)
    PROVE  DeviceIds' /\ DevicesAgree' /\ AnswersMade'
  <1>1. UNCHANGED <<rpVars, creds>>
    BY DEF ClientStep, rpVars
  <1>2. CASE ClientSettles(c)
    BY <1>2, SameDevices, SameAnswers, ClientDraws, <1>1 DEF ClientSettles, Settles
  <1>3. CASE Stores(c)
    <2>1. UNCHANGED <<fresh, dev>> /\ \E u : Moves(c, "asked", NoExt, u)
      BY <1>3, PreResponseMoves, RegRequestMoves, AuthRequestMoves DEF Stores
    <2>2. OnlyAt(c) /\ conn'[c].phase # "cert"
      BY <2>1 DEF Moves
    <2> QED
      BY <1>1, <1>3, <2>1, <2>2, SameDevices, SameAnswers, ClientDraws
  <1>4. CASE CreateRegResponse(c)
    <2>1. Makes(c) /\ CredentialMade(c)'
      BY <1>1, <1>4, ResponsesMake, RegResponseMade
    <2>2. DeviceIds' /\ DevicesAgree' /\ \A x \in Clients : x # c => ~HasRequest(x)
      BY <2>1, MakesKeepsDevices, RegisteringFor DEF Makes
    <2>3. OnlyAt(c) /\ ud'[c].state = "REG_RESPONSE_SENT"
      BY <1>4, RegResponseMoves, RequestFits DEF Moves, WithRegResponse, UdRecord
    <2> QED
      BY <2>1, <2>2, <2>3, TheAnswer
  <1>5. CASE CreateAuthResponse(c)
    <2>1. DeviceIds' /\ DevicesAgree' /\ AssertionMade(c)'
      BY <1>1, <1>5, AuthResponseMade
    <2>2. /\ conn[c].phase = "asked" /\ ud[c].state = "AUTH_REQUEST_RECEIVED"
          /\ \E m, cred, handle :
               Moves(c, "cert", m, WithAuthResponse(ud[c], RpIdUsed(c), cred, handle))
      BY <1>5, AuthResponseMoves
    <2>3. \A x \in Clients : x # c => ~HasRequest(x)
      BY <2>2, RequestRpId DEF LoggingIn, AuthAnswerStates
    <2>4. OnlyAt(c) /\ ud'[c].state = "AUTH_RESPONSE_SENT"
      BY <2>2, RequestFits DEF Moves, WithAuthResponse, UdRecord
    <2> QED
      BY <2>1, <2>3, <2>4, TheAnswer
  <1>6. CASE FailRegResponse(c) /\ Settles(c)
    <2>1. Makes(c)
      BY <1>1, <1>6, ResponsesMake
    <2>2. DeviceIds' /\ DevicesAgree' /\ \A x \in Clients : x # c => ~HasRequest(x)
      BY <2>1, MakesKeepsDevices, RegisteringFor DEF Makes
    <2>3. \A x \in Clients : ~HasRequest(x)'
      BY <1>6, <2>2, ElsewhereSame DEF Settles
    <2> QED
      BY <2>2, <2>3, NoAnswers
  <1>7. CASE FailAuthResponse(c) /\ Settles(c)
    <2>1. /\ conn[c].phase = "asked" /\ ud[c].state = "AUTH_REQUEST_RECEIVED" /\ fresh' = fresh
          /\ \E d \in Attached[c] : \E k \in Assertable(d, c, RpIdUsed(c)) : CountUp(d, k)
      BY <1>7 DEF FailAuthResponse
    <2>2. PICK d, k : d \in Attached[c] /\ k \in Assertable(d, c, RpIdUsed(c)) /\ CountUp(d, k)
      BY <2>1
    <2>3. d \in Devices /\ k \in dev[d]
      BY <2>2, UserDeviceAssumption DEF Assertable
    <2>4. DeviceIds' /\ DevicesAgree'
      BY <1>1, <2>1, <2>2, <2>3, CountsKeepsDevices
    <2>5. \A x \in Clients : x # c => ~HasRequest(x)
      BY <2>1, RequestRpId DEF LoggingIn, AuthAnswerStates
    <2>6. \A x \in Clients : ~HasRequest(x)'
      BY <1>7, <2>5, ElsewhereSame DEF Settles
    <2> QED
      BY <2>4, <2>6, NoAnswers
  <1> QED
    BY <1>2, <1>3, <1>4, <1>5, <1>6, <1>7 DEF ClientStep, Answers, Spends

(* A registration response carries what the program has done ...           *)
LEMMA RegAnswerFields ==
    ASSUME UdIInv, EachClientFits, OneRequest, NEW c \in Clients, conn[c].phase = "cert",
           conn[c].msg.type = "REG_RESPONSE"
    PROVE  LET m == conn[c].msg
           IN  /\ m.cred = ud[c].cred /\ m.chal = ud[c].chal /\ m.origin = ud[c].host
               /\ m.rpId = ud[c].rpId /\ m.uv \in CredUv /\ m.count = 0 /\ m.valid
               /\ ud[c].state = "REG_RESPONSE_SENT" /\ Registering(c)
               /\ rp.state = "REG_REQUEST_SENT" /\ rp.chal = ud[c].chal
               /\ rp.user = ud[c].user /\ rp.rpId = ud[c].rpId /\ rp.name = ud[c].name
               /\ rp.key = ud[c].key /\ ud[c].eph # 0
               /\ \A x \in Clients : x # c => ~HasRequest(x)
  <1> DEFINE m == conn[c].msg
             u == ud[c]
  <1>1. CertificateOf(u, m)
    BY ArrivalFits
  <1> HIDE DEF m
  <1>2. m.type = "REG_RESPONSE"
    BY DEF m
  <1>3. /\ u.state = "REG_RESPONSE_SENT"
        /\ \E uv \in CredUv : m = RegResponse(u.cred, u.chal, u.host, u.rpId, uv, 0, TRUE)
    <2>1. m # NoExt
      BY <1>2 DEF NoExt
    <2> QED
      BY <1>1, <1>2, <2>1 DEF CertificateOf
  <1>4. /\ m.cred = u.cred /\ m.chal = u.chal /\ m.origin = u.host
        /\ m.rpId = u.rpId /\ m.uv \in CredUv /\ m.count = 0 /\ m.valid
    BY <1>3 DEF RegResponse
  <1>5. Registering(c)
    BY <1>3 DEF Registering, RegAnswerStates
  <1>6. /\ rp.state = "REG_REQUEST_SENT" /\ rp.chal = ud[c].chal
        /\ rp.user = ud[c].user /\ rp.rpId = ud[c].rpId /\ rp.name = ud[c].name
        /\ rp.key = ud[c].key /\ ud[c].eph # 0
        /\ \A x \in Clients : x # c => ~HasRequest(x)
    BY <1>5 DEF OneRequest, RequestMatches, HasRequest
  <1> QED
    BY <1>3, <1>4, <1>5, <1>6 DEF m

(* ... and so does an authentication response.                             *)
LEMMA AuthAnswerFields ==
    ASSUME UdIInv, EachClientFits, OneRequest, NEW c \in Clients, conn[c].phase = "cert",
           conn[c].msg.type = "AUTH_RESPONSE"
    PROVE  LET m == conn[c].msg
           IN  /\ m.cred = ud[c].cred /\ m.chal = ud[c].chal /\ m.origin = ud[c].host
               /\ m.rpId = ud[c].rpId /\ m.uv \in AssertUv /\ m.count \in Nat /\ m.valid
               /\ m.handle = ud[c].user
               /\ ud[c].state = "AUTH_RESPONSE_SENT" /\ LoggingIn(c)
               /\ rp.state = "AUTH_REQUEST_SENT" /\ rp.chal = ud[c].chal
               /\ rp.rpId = ud[c].rpId /\ rp.ceremony = ud[c].ceremony
               /\ rp.ceremony = "AUTH_SERVER_SIDE" =>
                    rp.key = ud[c].key /\ rp.allow = ud[c].allow /\ ud[c].eph # 0
               /\ \A x \in Clients : x # c => ~HasRequest(x)
  <1> DEFINE m == conn[c].msg
             u == ud[c]
  <1>1. CertificateOf(u, m)
    BY ArrivalFits
  <1> HIDE DEF m
  <1>2. m.type = "AUTH_RESPONSE"
    BY DEF m
  <1>3. /\ u.state = "AUTH_RESPONSE_SENT" /\ m.count \in Nat
        /\ \E uv \in AssertUv :
             m = AuthResponse(u.cred, u.chal, u.host, u.rpId, uv, m.count, u.user, TRUE)
    <2>1. m # NoExt
      BY <1>2 DEF NoExt
    <2>2. \A uv : m # RegResponse(u.cred, u.chal, u.host, u.rpId, uv, 0, TRUE)
      BY <1>2 DEF RegResponse
    <2> QED
      BY <1>1, <1>2, <2>1, <2>2 DEF CertificateOf
  <1>4. /\ m.cred = u.cred /\ m.chal = u.chal /\ m.origin = u.host
        /\ m.rpId = u.rpId /\ m.uv \in AssertUv /\ m.valid /\ m.handle = u.user
    BY <1>3 DEF AuthResponse
  <1>5. LoggingIn(c)
    BY <1>3 DEF LoggingIn, AuthAnswerStates
  <1>6. /\ rp.state = "AUTH_REQUEST_SENT" /\ rp.chal = ud[c].chal
        /\ rp.rpId = ud[c].rpId /\ rp.ceremony = ud[c].ceremony
        /\ rp.ceremony = "AUTH_SERVER_SIDE" =>
             rp.key = ud[c].key /\ rp.allow = ud[c].allow /\ ud[c].eph # 0
        /\ \A x \in Clients : x # c => ~HasRequest(x)
    BY <1>5 DEF OneRequest, RequestMatches, HasRequest
  <1> QED
    BY <1>3, <1>4, <1>5, <1>6 DEF m

(* The row of an accepted registration is the credential that was made.    *)
LEMMA RegistrationDevices ==
    ASSUME IInv, UdIInv, EachClientFits, OneRequest, DeviceIds, AnswersMade, DevicesAgree,
           NEW c \in Clients, conn[c].phase = "cert", UNCHANGED udVars,
           ProcessRegResponse(c, conn[c].msg)
    PROVE  DeviceIds' /\ DevicesAgree'
  <1> DEFINE row == [cred |-> ud[c].cred, user |-> ud[c].user, rp |-> ud[c].rpId, count |-> 0]
  <1>1. conn[c].msg.type = "REG_RESPONSE"
    BY DEF ProcessRegResponse
  <1>2. ud[c].state = "REG_RESPONSE_SENT" /\ creds' = creds \cup {row}
    BY <1>1, RegAnswerFields DEF ProcessRegResponse
  <1>3. /\ row.cred = ud[c].cred /\ row.user = ud[c].user /\ row.rp = ud[c].rpId
        /\ row.count = 0
    OBVIOUS
  <1> HIDE DEF row
  <1>4. UNCHANGED <<fresh, dev>>
    BY DEF ProcessRegResponse, udVars
  <1>5. ud[c].cred < fresh
    BY RequestFits DEF StateFits
  <1>6. PICK d \in Devices :
          /\ \E k \in dev[d] : k.cred = ud[c].cred /\ k.user = ud[c].user /\ k.rp = ud[c].rpId
          /\ ~ReadFaults =>
               \A k \in dev[d], r \in creds :
                 r.user = ud[c].user /\ r.rp = ud[c].rpId => k.cred # r.cred
    BY <1>2 DEF AnswersMade, CredentialMade
  <1>7. DeviceIds'
    BY <1>2, <1>3, <1>4, <1>5 DEF DeviceIds
  <1>8. ASSUME ~ReadFaults
        PROVE  EnrolledCredentialsUsable'
    <2>1. \E k \in dev[d] : k.cred = row.cred /\ k.user = row.user /\ k.rp = row.rp
                            /\ k.count >= row.count
      BY <1>3, <1>6, IdsDrawn DEF DeviceCreds
    <2> QED
      BY <1>2, <1>4, <1>8, <2>1 DEF DevicesAgree, EnrolledCredentialsUsable
  <1>9. ASSUME ~ReadFaults, NEW e \in Devices, NEW s \in creds,
               s.user = row.user, s.rp = row.rp,
               {row.cred, s.cred} \subseteq {k.cred : k \in dev[e]}
        PROVE  FALSE
    <2>1. PICK k \in dev[e] : k.cred = row.cred
      BY <1>9
    <2>2. e = d
      BY <1>3, <1>6, <2>1 DEF DeviceIds
    <2> QED
      BY <1>3, <1>6, <1>9, <2>2
  <1>10. ASSUME ~ReadFaults
         PROVE  OneCredentialPerAuthenticator'
    <2>1. ASSUME NEW e \in Devices, NEW r \in creds', NEW s \in creds',
                 r.user = s.user, r.rp = s.rp, {r.cred, s.cred} \subseteq {k.cred : k \in dev[e]}
          PROVE  r = s
      <3>1. (r = row \/ r \in creds) /\ (s = row \/ s \in creds)
        BY <1>2
      <3>2. CASE r \in creds /\ s \in creds
        BY <1>10, <2>1, <3>2 DEF DevicesAgree, OneCredentialPerAuthenticator
      <3>3. CASE r = row /\ s \in creds
        BY <1>9, <1>10, <2>1, <3>3
      <3>4. CASE r \in creds /\ s = row
        <4>1. {row.cred, r.cred} \subseteq {k.cred : k \in dev[e]}
          BY <2>1, <3>4
        <4> QED
          BY <1>9, <1>10, <2>1, <3>4, <4>1
      <3> QED
        BY <3>1, <3>2, <3>3, <3>4
    <2> QED
      BY <1>4, <2>1 DEF OneCredentialPerAuthenticator
  <1> QED
    BY <1>7, <1>8, <1>10 DEF DevicesAgree


(* The counter of an accepted login is that of the authenticator.          *)
LEMMA LoginDevices ==
    ASSUME IInv, UdIInv, EachClientFits, OneRequest, DeviceIds, AnswersMade, DevicesAgree,
           NEW c \in Clients, conn[c].phase = "cert", UNCHANGED udVars,
           ProcessAuthResponse(c, conn[c].msg)
    PROVE  DeviceIds' /\ DevicesAgree'
  <1> DEFINE m == conn[c].msg
  <1>1. m.type = "AUTH_RESPONSE" /\ ResponseTyped(m)
    BY ArrivalFits DEF ProcessAuthResponse
  <1>2. /\ ud[c].state = "AUTH_RESPONSE_SENT" /\ m.cred = ud[c].cred /\ m.count \in Nat
    BY <1>1, AuthAnswerFields
  <1> HIDE DEF m
  <1>3. PICK row \in creds, raised \in CredRows :
          /\ row.cred = m.cred
          /\ raised.cred = row.cred /\ raised.user = row.user /\ raised.rp = row.rp
          /\ raised.count = m.count
          /\ creds' = (creds \ {row}) \cup {raised}
    <2>1. ProcessAuthResponse(c, m)
      BY DEF m
    <2>2. PICK row \in creds :
            LET raised == [row EXCEPT !.count = m.count]
            IN  /\ row.cred = m.cred /\ raised \in CredRows
                /\ raised.cred = row.cred /\ raised.user = row.user /\ raised.rp = row.rp
                /\ raised.count = m.count
                /\ creds' = (creds \ {row}) \cup {raised}
      BY <1>1, <2>1, LoginRaisesOneCounter
    <2> QED
      BY <2>2
  <1>4. UNCHANGED <<fresh, dev>>
    BY DEF ProcessAuthResponse, udVars
  <1>5. PICK d \in Devices : \E k \in dev[d] : k.cred = m.cred /\ k.count = m.count
    BY <1>2 DEF AnswersMade, AssertionMade, m
  <1>6. DeviceIds'
    BY <1>3, <1>4 DEF DeviceIds
  <1>7. ASSUME ~ReadFaults
        PROVE  EnrolledCredentialsUsable'
    <2>1. PICK k \in dev[d] : k.cred = m.cred /\ k.count = m.count
      BY <1>5
    <2>2. PICK e \in Devices : \E l \in dev[e] :
            l.cred = row.cred /\ l.user = row.user /\ l.rp = row.rp
      BY <1>7 DEF DevicesAgree, EnrolledCredentialsUsable
    <2>3. k.user = row.user /\ k.rp = row.rp /\ k.cred = row.cred
      BY <1>3, <2>1, <2>2 DEF DeviceIds
    <2>4. k.cred = raised.cred /\ k.user = raised.user /\ k.rp = raised.rp
            /\ k.count >= raised.count
      BY <1>2, <1>3, <2>1, <2>3
    <2> QED
      BY <1>3, <1>4, <1>7, <2>4 DEF DevicesAgree, EnrolledCredentialsUsable
  <1>8. ASSUME ~ReadFaults
        PROVE  OneCredentialPerAuthenticator'
    <2>1. ASSUME NEW e \in Devices, NEW r \in creds', NEW s \in creds',
                 r.user = s.user, r.rp = s.rp, {r.cred, s.cred} \subseteq {k.cred : k \in dev[e]}
          PROVE  r = s
      <3>1. ASSUME NEW x \in creds, NEW y \in creds, x.user = y.user, x.rp = y.rp,
                   {x.cred, y.cred} \subseteq {k.cred : k \in dev[e]}
            PROVE  x = y
        BY <1>8, <3>1 DEF DevicesAgree, OneCredentialPerAuthenticator
      <3>2. (r = raised \/ (r \in creds /\ r # row)) /\ (s = raised \/ (s \in creds /\ s # row))
        BY <1>3
      <3>3. CASE r = raised /\ s \in creds /\ s # row
        <4>1. row.user = s.user /\ row.rp = s.rp /\ {row.cred, s.cred} \subseteq {k.cred : k \in dev[e]}
          BY <1>3, <2>1, <3>3
        <4> QED
          BY <3>1, <3>3, <4>1
      <3>4. CASE r \in creds /\ r # row /\ s = raised
        <4>1. row.user = r.user /\ row.rp = r.rp /\ {row.cred, r.cred} \subseteq {k.cred : k \in dev[e]}
          BY <1>3, <2>1, <3>4
        <4> QED
          BY <3>1, <3>4, <4>1
      <3>5. CASE r \in creds /\ s \in creds
        BY <2>1, <3>1, <3>5
      <3> QED
        BY <3>2, <3>3, <3>4, <3>5
    <2> QED
      BY <1>4, <2>1 DEF OneCredentialPerAuthenticator
  <1> QED
    BY <1>6, <1>7, <1>8 DEF DevicesAgree

(* The end of the server process leaves tables and authenticators alone.   *)
LEMMA NextProcessDevices ==
    ASSUME IInv, UdIInv, EachClientFits, DeviceIds, DevicesAgree,
           NextProcess, UNCHANGED <<fresh, creds, udVars>>
    PROVE  DeviceIds' /\ DevicesAgree' /\ AnswersMade'
  <1>1. \A x \in Clients : conn'[x].phase \in {"idle", "failed"}
    BY BreakAllMoves DEF NextProcess
  <1>2. UNCHANGED dev /\ fresh' \in Nat /\ fresh' >= fresh
    BY Shapes DEF udVars
  <1> QED
    BY <1>1, <1>2, SameDevices DEF AnswersMade

(* A Certificate.                                                          *)
LEMMA CertificateDevices ==
    ASSUME IInv, UdIInv, EachClientFits, OneRequest, DeviceIds, AnswersMade, DevicesAgree,
           NEW c \in Clients, ServerCertificate(c)
    PROVE  DeviceIds' /\ DevicesAgree' /\ AnswersMade'
  <1>1. conn[c].phase = "cert" /\ ParseCertificate(c, conn[c].msg) /\ UNCHANGED udVars
    BY DEF ServerCertificate
  <1>2. UNCHANGED <<fresh, dev>> /\ fresh' \in Nat /\ fresh' >= fresh
    BY ServerCertificateMoves, Shapes DEF udVars
  <1>3. CASE NextProcess /\ UNCHANGED creds
    BY <1>1, <1>2, <1>3, NextProcessDevices
  <1>4. CASE Ends(c) /\ UNCHANGED creds
    <2>1. OnlyAt(c) /\ conn'[c].phase # "cert"
      BY <1>4 DEF Ends, Moves
    <2> QED
      BY <1>2, <1>4, <2>1, SameDevices, SameAnswers
  <1>5. CASE ProcessRegResponse(c, conn[c].msg) \/ ProcessAuthResponse(c, conn[c].msg)
    <2>1. DeviceIds' /\ DevicesAgree'
      BY <1>1, <1>5, RegistrationDevices, LoginDevices
    <2>2. Send(c, "open", NoExt) /\ conn[c].msg.type # "NO_EXT"
      BY <1>5 DEF ProcessRegResponse, ProcessAuthResponse
    <2>3. \A x \in Clients : x # c => ~HasRequest(x)
      BY <1>1, <2>2, AnswerWasAsked DEF OneRequest
    <2>4. OnlyAt(c) /\ conn'[c].phase = "open"
      BY <1>1, <2>2, MovesConnection DEF Moves, udVars
    <2> QED
      BY <2>1, <2>3, <2>4, TheAnswer
  <1> QED
    BY <1>1, <1>3, <1>4, <1>5, ServerCertificateMoves, ResponseChangesCreds DEF FailAddCreds

(* Every step keeps authenticators, table and answers together.            *)
LEMMA StepDevices ==
    ASSUME IInv, UdIInv, EachClientFits, OneRequest, DeviceIds, AnswersMade, DevicesAgree, Next
    PROVE  DeviceIds' /\ DevicesAgree' /\ AnswersMade'
  <1>1. CASE Restart
    BY <1>1, NextProcessDevices DEF Restart, RestartServer
  <1>2. ASSUME NEW c \in Clients, ServerHello(c) \/ ServerFlight(c)
        PROVE  DeviceIds' /\ DevicesAgree' /\ AnswersMade'
    <2>1. UNCHANGED <<dev, creds>> /\ fresh' \in Nat /\ fresh' >= fresh
      BY <1>2, ServerHelloMoves, ServerFlightMoves, Shapes DEF udVars
    <2>2. OnlyAt(c) /\ conn'[c].phase # "cert"
      <3>1. CASE ServerHello(c)
        BY <3>1, ServerHelloMoves DEF Moves
      <3>2. CASE ServerFlight(c)
        BY <3>2, ServerFlightMoves DEF Moves, Flight
      <3> QED
        BY <1>2, <3>1, <3>2
    <2> QED
      BY <2>1, <2>2, SameDevices, SameAnswers
  <1>3. CASE \E c \in Clients : ServerHello(c) \/ ServerFlight(c) \/ ServerCertificate(c)
    BY <1>2, <1>3, CertificateDevices
  <1>4. CASE \E c \in Clients : ClientStep(c)
    BY <1>4, ClientDevices
  <1> QED
    BY <1>1, <1>3, <1>4, StepCases


-----------------------------------------------------------------------------
(* What a completed handshake means.                                       *)

Meant(c) ==
    /\ ud[c].state = "REG_RESPONSE_SENT" /\ ~ReadFaults => RegisteredAs(c)
    /\ ud[c].state = "AUTH_RESPONSE_SENT" => LoggedIn(c)

(* No step loses a credential, a user or what has been accepted.           *)
TablesKept == RowsKept /\ users \subseteq users' /\ accepted \subseteq accepted'

(* Here is the step: every action keeps what is in the tables.             *)
LEMMA StepKeepsTables ==
    ASSUME IInv, UdIInv, EachClientFits, DeviceIds, Next
    PROVE  TablesKept
  <1>1. CASE UNCHANGED <<users, creds, accepted>>
    BY <1>1, SameRowsKept DEF TablesKept
  <1>2. ASSUME NEW c \in Clients, ServerHello(c) \/ ServerFlight(c)
        PROVE  TablesKept
    BY <1>1, <1>2, ServerHelloMoves, ServerFlightMoves
  <1>3. ASSUME NEW c \in Clients, ServerCertificate(c)
        PROVE  TablesKept
    <2>1. conn[c].phase = "cert" /\ ParseCertificate(c, conn[c].msg)
      BY <1>3 DEF ServerCertificate
    <2>2. RowsKept
      BY <2>1, ArrivalFits, ResponseKeepsRows
    <2>3. accepted \subseteq accepted'
      BY <2>1, ResponseChangesCreds DEF ProcessRegResponse, ProcessAuthResponse
    <2> QED
      BY <1>3, <2>2, <2>3, CertificateKeepsUsers DEF TablesKept
  <1>4. CASE Restart \/ UNCHANGED rpVars
    BY <1>1, <1>4 DEF Restart, RestartServer, rpVars
  <1>5. CASE \E c \in Clients : ServerHello(c) \/ ServerFlight(c) \/ ServerCertificate(c)
    BY <1>2, <1>3, <1>5
  <1> QED
    BY <1>4, <1>5, StepCases DEF ClientStep

(* The name of a user stays.                                               *)
LEMMA NameOfStays ==
    ASSUME users \subseteq users', \A u, v \in users' : u.id = v.id => u = v,
           NEW id, NEW n, NameOf(id) = {n}
    PROVE  NameOf(id)' = {n}
  <1>1. PICK u \in users : u.id = id /\ u.name = n
    BY DEF NameOf
  <1>2. \A v \in users' : v.id = id => v = u
    BY <1>1
  <1> QED
    BY <1>1, <1>2 DEF NameOf

(* So does what a handshake has meant.                                     *)
LEMMA MeantStays ==
    ASSUME TablesKept, IInv', NEW x \in Clients, ud'[x] = ud[x], Meant(x)
    PROVE  Meant(x)'
  <1>1. \A u, v \in users' : u.id = v.id => u = v
    BY DEF IInv, DatabaseConsistent
  <1>2. ASSUME RegisteredAs(x)
        PROVE  RegisteredAs(x)'
    <2>1. PICK r \in creds : r.cred = ud[x].cred /\ r.rp = ud[x].rpId
                             /\ NameOf(r.user) = {ud[x].name}
      BY <1>2 DEF RegisteredAs
    <2>2. PICK s \in creds' : s.cred = r.cred /\ s.user = r.user /\ s.rp = r.rp
      BY DEF TablesKept, RowsKept
    <2>3. NameOf(r.user)' = {ud[x].name}
      BY <1>1, <2>1, NameOfStays DEF TablesKept
    <2> QED
      BY <2>1, <2>2, <2>3 DEF RegisteredAs, NameOf
  <1>3. ASSUME LoggedIn(x)
        PROVE  LoggedIn(x)'
    <2>1. PICK a \in accepted :
            /\ a.kind = "AUTH" /\ a.cred = ud[x].cred /\ a.chal = ud[x].chal
            /\ ud[x].ceremony = "AUTH_SERVER_SIDE" => NameOf(a.user) = {ud[x].name}
      BY <1>3 DEF LoggedIn
    <2>2. a \in accepted'
      BY DEF TablesKept
    <2>3. ud[x].ceremony = "AUTH_SERVER_SIDE" => NameOf(a.user)' = {ud[x].name}
      BY <1>1, <2>1, NameOfStays DEF TablesKept
    <2> QED
      BY <2>1, <2>2, <2>3 DEF LoggedIn, NameOf
  <1> QED
    BY <1>2, <1>3 DEF Meant

(* Only the client of the step needs a look.                               *)
LEMMA MeantStep ==
    ASSUME CeremonyMeant, TablesKept, IInv', NEW c \in Clients, OnlyAt(c),
           conn'[c].phase = "open" => Meant(c)'
    PROVE  CeremonyMeant'
  <1>1. ASSUME NEW x \in Clients, x # c, conn'[x].phase = "open"
        PROVE  Meant(x)'
    <2>1. ud'[x] = ud[x] /\ conn[x].phase = "open"
      BY <1>1 DEF OnlyAt
    <2>2. Meant(x)
      BY <2>1 DEF CeremonyMeant, Meant
    <2> QED
      BY <2>1, <2>2, MeantStays
  <1> QED
    BY <1>1 DEF CeremonyMeant, Meant

(* An accepted registration stores what the client registered.             *)
LEMMA RegistrationMeant ==
    ASSUME IInv, UdIInv, EachClientFits, OneRequest, NEW c \in Clients,
           conn[c].phase = "cert", UNCHANGED udVars, ProcessRegResponse(c, conn[c].msg)
    PROVE  Meant(c)'
  <1>1. conn[c].msg.type = "REG_RESPONSE"
    BY DEF ProcessRegResponse
  <1>2. /\ ud[c].state = "REG_RESPONSE_SENT" /\ UNCHANGED ud
        /\ rp.state = "REG_REQUEST_SENT" /\ rp.user = ud[c].user /\ rp.name = ud[c].name
        /\ AddsUser
    BY <1>1, RegAnswerFields DEF ProcessRegResponse, udVars
  <1>3. PICK row \in creds' : row.cred = ud[c].cred /\ row.user = rp.user /\ row.rp = ud[c].rpId
    <2> DEFINE new == [cred |-> ud[c].cred, user |-> rp.user, rp |-> ud[c].rpId, count |-> 0]
    <2>1. creds' = creds \cup {new}
      BY <1>1, RegAnswerFields DEF ProcessRegResponse
    <2>2. new.cred = ud[c].cred /\ new.user = rp.user /\ new.rp = ud[c].rpId
      OBVIOUS
    <2> HIDE DEF new
    <2> QED
      BY <2>1, <2>2
  <1>4. ASSUME ~ReadFaults, NEW id, id = rp.user
        PROVE  NameOf(id)' = {rp.name}
    <2>1. users' = WithUser /\ \A u \in users : u.name = rp.name <=> u.id = id
      BY <1>2, <1>4 DEF AddsUser, IInv, SnapshotsCurrent
    <2>2. CASE \E u \in users : u.id = id
      <3>1. users' = users
        BY <1>4, <2>1, <2>2 DEF WithUser
      <3> QED
        BY <2>1, <2>2, <3>1 DEF NameOf
    <2>3. CASE ~\E u \in users : u.id = id
      <3> DEFINE new == [id |-> rp.user, name |-> rp.name]
      <3>1. users' = users \cup {new} /\ new.id = id /\ new.name = rp.name
        BY <1>4, <2>1, <2>3 DEF WithUser
      <3> HIDE DEF new
      <3>2. {v \in users' : v.id = id} = {new}
        BY <2>3, <3>1
      <3>3. {u.name : u \in {new}} = {rp.name}
        BY <3>1
      <3> QED
        BY <3>2, <3>3 DEF NameOf
    <2> QED
      BY <2>2, <2>3
  <1>5. ~ReadFaults => RegisteredAs(c)'
    <2>1. row \in creds' /\ row.cred = ud'[c].cred /\ row.rp = ud'[c].rpId
      BY <1>2, <1>3
    <2>2. ~ReadFaults => NameOf(row.user)' = {ud'[c].name}
      BY <1>2, <1>3, <1>4
    <2> QED
      BY <2>1, <2>2 DEF RegisteredAs, NameOf
  <1> QED
    BY <1>2, <1>5 DEF Meant


(* An accepted login is that of the user the client has named.             *)
LEMMA LoginMeant ==
    ASSUME IInv, UdIInv, EachClientFits, OneRequest, KeyOwner, NEW c \in Clients,
           conn[c].phase = "cert", UNCHANGED udVars, ProcessAuthResponse(c, conn[c].msg)
    PROVE  Meant(c)'
  <1>1. conn[c].msg.type = "AUTH_RESPONSE"
    BY DEF ProcessAuthResponse
  <1>2. /\ ud[c].state = "AUTH_RESPONSE_SENT" /\ UNCHANGED <<ud, users>>
        /\ rp.state = "AUTH_REQUEST_SENT" /\ rp.ceremony = ud[c].ceremony
        /\ rp.chal = ud[c].chal /\ conn[c].msg.cred = ud[c].cred
        /\ rp.ceremony = "AUTH_SERVER_SIDE" => rp.key = ud[c].key /\ ud[c].eph # 0
    BY <1>1, AuthAnswerFields DEF ProcessAuthResponse, udVars
  <1>3. PICK u \in Owners(conn[c].msg) :
          accepted' = accepted \cup {Acceptance("AUTH", conn[c].msg, u)}
    BY DEF ProcessAuthResponse
  <1>4. PICK a \in accepted' :
          a.kind = "AUTH" /\ a.cred = ud[c].cred /\ a.chal = ud[c].chal /\ a.user = u
    <2> DEFINE a == Acceptance("AUTH", conn[c].msg, u)
    <2>1. a.kind = "AUTH" /\ a.cred = ud[c].cred /\ a.chal = ud[c].chal /\ a.user = u
      BY <1>2 DEF Acceptance
    <2> HIDE DEF a
    <2>2. a \in accepted'
      BY <1>3 DEF a
    <2> QED
      BY <2>1, <2>2
  <1>5. ASSUME ud[c].ceremony = "AUTH_SERVER_SIDE"
        PROVE  NameOf(a.user)' = {ud[c].name}
    <2>1. u = rp.user /\ HoldsUser(rp)
      BY <1>2, <1>3, <1>5 DEF Owners, HoldsUser
    <2>2. rp.key.eph = ud[c].eph /\ ud[c].eph # 0
      BY <1>2, <1>5, RequestFits DEF StateFits
    <2>3. [id |-> u, name |-> ud[c].name] \in users
      BY <2>1, <2>2 DEF KeyOwner
    <2>4. PICK v \in users : v.id = a.user /\ v.name = ud[c].name
      BY <1>4, <2>3
    <2>5. \A w \in users : w.id = a.user => w = v
      BY <2>4 DEF IInv, DatabaseConsistent
    <2> QED
      BY <1>2, <2>4, <2>5 DEF NameOf
  <1>6. LoggedIn(c)'
    BY <1>2, <1>4, <1>5 DEF LoggedIn, NameOf
  <1> QED
    BY <1>2, <1>6 DEF Meant

(* A handshake that completes does so in one of three ways.                *)
LEMMA OpensBy ==
    ASSUME UdIInv, EachClientFits, NEW c \in Clients, ServerCertificate(c),
           conn'[c].phase = "open"
    PROVE  \/ ProcessRegResponse(c, conn[c].msg)
           \/ ProcessAuthResponse(c, conn[c].msg)
           \/ AcceptPlainCertificate(c, conn[c].msg)
  <1>1. ParseCertificate(c, conn[c].msg) /\ UNCHANGED <<fresh, udVars>>
    BY ServerCertificateMoves DEF ServerCertificate
  <1>2. ~Alert(c)
    <2>1. Alert(c) => conn'[c].phase = "failed"
      BY SendChanges DEF Alert
    <2> QED
      BY <2>1
  <1>3. ~NextProcess
    BY <1>1, BreakAllMoves DEF NextProcess
  <1> QED
    BY <1>1, <1>2, <1>3 DEF ParseCertificate, RejectRegResponse, FailAddCreds,
       FailUpdateSignCount, RejectAuthResponse, RejectUnknownCredential, RejectStoredKey, RefuseCertificate

(* Every step keeps what completed handshakes mean.                        *)
LEMMA StepCeremonyMeant ==
    ASSUME IInv, UdIInv, EachClientFits, OneRequest, KeyOwner, DeviceIds, CeremonyMeant, Next
    PROVE  CeremonyMeant'
  <1>1. IInv' /\ TablesKept
    BY StepIInv, StepKeepsTables
  <1>2. ASSUME \A x \in Clients : conn'[x].phase # "open"
        PROVE  CeremonyMeant'
    BY <1>2 DEF CeremonyMeant
  <1>3. CASE Restart
    <2>1. \A x \in Clients : conn'[x].phase \in {"idle", "failed"}
      BY <1>3, BreakAllMoves DEF Restart, RestartServer, NextProcess
    <2> QED
      BY <1>2, <2>1
  <1>4. ASSUME NEW c \in Clients, ServerHello(c) \/ ServerFlight(c)
        PROVE  CeremonyMeant'
    <2>1. OnlyAt(c) /\ conn'[c].phase # "open"
      BY <1>4, ServerHelloMoves, ServerFlightMoves DEF Moves, Flight
    <2> QED
      BY <1>1, <2>1, MeantStep
  <1>5. ASSUME NEW c \in Clients, ServerCertificate(c)
        PROVE  CeremonyMeant'
    <2>1. conn[c].phase = "cert" /\ UNCHANGED <<fresh, udVars, ud>>
      BY <1>5, ServerCertificateMoves DEF ServerCertificate, udVars
    <2>2. CASE Ends(c)
      <3>1. OnlyAt(c)
        BY <2>2 DEF Ends, Moves
      <3>2. ASSUME conn'[c].phase = "open"
            PROVE  Meant(c)'
        <4>1. CASE AcceptPlainCertificate(c, conn[c].msg)
          <5>1. ~(ud[c].state \in {"REG_RESPONSE_SENT", "AUTH_RESPONSE_SENT"})
            <6>1. conn[c].msg.type = "NO_EXT" /\ CertificateOf(ud[c], conn[c].msg)
              BY <2>1, <4>1, ArrivalFits DEF AcceptPlainCertificate
            <6>2. \A m : m.type = "NO_EXT" =>
                    \A uv : m # RegResponse(ud[c].cred, ud[c].chal, ud[c].host, ud[c].rpId, uv, 0, TRUE)
              BY DEF RegResponse
            <6>3. ud[c].state \in IndicationStates \cup {"PRE_RESPONSE_RECEIVED"}
              BY <6>1, <6>2 DEF CertificateOf
            <6> QED
              BY <6>3 DEF IndicationStates
          <5> QED
            BY <2>1, <5>1 DEF Meant
        <4> QED
          BY <1>5, <2>1, <3>2, <4>1, OpensBy, RegistrationMeant, LoginMeant
      <3> QED
        BY <1>1, <3>1, <3>2, MeantStep
    <2>3. CASE NextProcess
      <3>1. \A x \in Clients : conn'[x].phase \in {"idle", "failed"}
        BY <2>1, <2>3, BreakAllMoves DEF NextProcess
      <3> QED
        BY <1>2, <3>1
    <2> QED
      BY <1>5, <2>2, <2>3, ServerCertificateMoves
  <1>6. ASSUME NEW c \in Clients, ClientStep(c)
        PROVE  CeremonyMeant'
    <2>1. OnlyAt(c) /\ conn'[c].phase # "open"
      <3>1. CASE Settles(c)
        BY <3>1 DEF Settles
      <3>2. CASE Stores(c)
        BY <3>2, PreResponseMoves, RegRequestMoves, AuthRequestMoves DEF Stores, Moves
      <3>3. CASE Answers(c)
        <4>1. \E m, u : Moves(c, "cert", m, u)
          BY <3>3, RegResponseMoves, AuthResponseMoves DEF Answers
        <4> QED
          BY <4>1 DEF Moves
      <3> QED
        BY <1>6, <3>1, <3>2, <3>3 DEF ClientStep, ClientSettles
    <2> QED
      BY <1>1, <2>1, MeantStep
  <1>7. CASE \E c \in Clients : ServerHello(c) \/ ServerFlight(c) \/ ServerCertificate(c)
    BY <1>4, <1>5, <1>7
  <1>8. CASE \E c \in Clients : ClientStep(c)
    BY <1>6, <1>8
  <1> QED
    BY <1>3, <1>7, <1>8, StepCases


-----------------------------------------------------------------------------
(* The inductive invariant.                                                *)

(* It holds of the first state, in which no program runs ...               *)
LEMMA InitSystemInv == Init => SystemInv
  <1> SUFFICES ASSUME Init
               PROVE  SystemInv
    OBVIOUS
  <1>1. IInv /\ UdIInv
    BY InitIInv, InitUdIInv DEF Init, RpStart, UdStart
  <1>2. /\ rp = Blank("NO_DATA") /\ creds = {} /\ fresh = 1
        /\ \A d \in Devices : dev[d] = {}
        /\ \A c \in Clients : conn[c].phase = "idle" /\ conn[c].msg = NoExt
    BY DEF Init, TlsInit, RpInit, UdInit
  <1>3. /\ rp.state = "NO_DATA" /\ rp.key.eph = 0
    BY <1>2 DEF Blank, NoKey, GcmKey
  <1>4. ASSUME NEW c \in Clients
        PROVE  /\ ud[c].state = "OFF" /\ ud[c].eph = 0 /\ ud[c].key = NoKey /\ ud[c].cred = 0
               /\ ud[c].ceremony = "UNDEFINED"
    BY DEF Init, UdInit, Program
  <1>5. EachClientFits
    <2>1. ASSUME NEW c \in Clients
          PROVE  StateFits(ud[c], 1)
      BY <1>4 DEF StateFits, NoKey, GcmKey, RegAnswerStates, AuthAnswerStates
    <2>2. ASSUME NEW c \in Clients
          PROVE  PhaseFits(conn[c].phase, ud[c], conn[c].msg, 1)
      BY <1>2 DEF PhaseFits, Phases
    <2> QED
      BY <1>2, <2>1, <2>2 DEF EachClientFits, ClientFits
  <1>6. OneRequest /\ CeremonyFits
    BY <1>2, <1>3 DEF OneRequest, CeremonyFits, HasRequest, RequestMatches, AskedToRegister,
       AskedToLogIn, Registering, LoggingIn
  <1>7. KeysApart /\ KeyOwner
    BY <1>2, <1>3, <1>4 DEF KeysApart, KeyOwner, Offered
  <1>8. DeviceIds /\ AnswersMade
    BY <1>2 DEF DeviceIds, AnswersMade
  <1>9. DevicesAgree /\ CeremonyMeant
    BY <1>2 DEF DevicesAgree, EnrolledCredentialsUsable, OneCredentialPerAuthenticator,
       CeremonyMeant
  <1> QED
    BY <1>1, <1>5, <1>6, <1>7, <1>8, <1>9 DEF SystemInv

(* ... and every step keeps it.                                            *)
LEMMA NextSystemInv == SystemInv /\ [Next]_vars => SystemInv'
  <1> SUFFICES ASSUME SystemInv, [Next]_vars
               PROVE  SystemInv'
    OBVIOUS
  <1> USE DEF SystemInv
  <1>1. CASE Next
    <2>1. IInv' /\ UdIInv' /\ EachClientFits'
      BY <1>1, StepIInv, StepUdIInv, StepForms
    <2>2. OneRequest' /\ CeremonyFits'
      BY <1>1, StepOneRequest, StepCeremonyFits
    <2>3. KeysApart' /\ KeyOwner'
      BY <1>1, StepKeysApart, StepKeyOwner
    <2>4. DeviceIds' /\ AnswersMade' /\ DevicesAgree'
      BY <1>1, StepDevices
    <2>5. CeremonyMeant'
      BY <1>1, StepCeremonyMeant
    <2> QED
      BY <2>1, <2>2, <2>3, <2>4, <2>5
  <1>2. CASE UNCHANGED vars
    <2>1. UNCHANGED <<conn, fresh, rp, episode, users, creds, accepted, ud, dev, launches>>
      BY <1>2 DEF vars, rpVars, udVars
    <2>2. IInv' /\ UdIInv'
      BY <2>1, Idle, NextUdIInv DEF rpVars, clientVars, udVars, UdIInv
    <2>3. EachClientFits'
      BY <2>1 DEF EachClientFits, ClientFits
    <2>4. OneRequest' /\ CeremonyFits'
      BY <2>1 DEF OneRequest, CeremonyFits, HasRequest, RequestMatches, AskedToRegister,
         AskedToLogIn, Registering, LoggingIn, ExcludesEnrolled, Descriptors
    <2>5. KeysApart' /\ KeyOwner'
      BY <2>1 DEF KeysApart, KeyOwner, Offered
    <2>6. DeviceIds' /\ AnswersMade'
      BY <2>1 DEF DeviceIds, AnswersMade, CredentialMade, AssertionMade
    <2>7. DevicesAgree'
      BY <2>1 DEF DevicesAgree, EnrolledCredentialsUsable, OneCredentialPerAuthenticator
    <2>8. CeremonyMeant'
      BY <2>1 DEF CeremonyMeant, RegisteredAs, LoggedIn, NameOf
    <2> QED
      BY <2>2, <2>3, <2>4, <2>5, <2>6, <2>7, <2>8
  <1> QED
    BY <1>1, <1>2

(* Clients, server, authenticators and the messages between them keep the  *)
(* inductive invariant of the system.                                      *)
THEOREM SystemInductive == Spec => []SystemInv
  BY InitSystemInv, NextSystemInv, PTL DEF Spec

-----------------------------------------------------------------------------
(* What the invariant gives: the safety of the system.                     *)

(* What is proved of the server against any client holds of it here: its   *)
(* tables stay consistent, it reads nothing that is not set or not current *)
(* any more, touches no closed handle, and accepts nothing twice and       *)
(* nothing of strangers.                                                   *)
THEOREM ServerSafe ==
    Spec => [](/\ DatabaseConsistent /\ ClosedHandleUnused /\ AcceptedOnce
               /\ LoginsAreEnrolled /\ AssertsHold /\ SnapshotsCurrent)
  BY SystemInductive, PTL DEF SystemInv, IInv

(* One run of a client program touches an authenticator once at most       *)
(* (run_ctap).                                                             *)
THEOREM SystemTouchedOnce == Spec => []OneOperationPerLaunch
  <1>1. SystemInv => OneOperationPerLaunch
    BY DEF SystemInv, UdIInv, OneOperationPerLaunch
  <1> QED
    BY <1>1, SystemInductive, PTL

(* What ud.c asserts holds: a key before a registration request is opened, *)
(* a challenge before client data are generated.                           *)
THEOREM ClientAssertionsHold == Spec => []ClientAssertsHold
  <1>1. SystemInv => ClientAssertsHold
    <2> SUFFICES ASSUME SystemInv, NEW c \in Clients
                 PROVE  /\ ud[c].state = "REG_INDICATION_SENT" => ud[c].key # NoKey
                        /\ ud[c].state \in {"REG_REQUEST_RECEIVED", "AUTH_REQUEST_RECEIVED"} =>
                             ud[c].chal # 0
      BY DEF ClientAssertsHold
    <2>1. StateFits(ud[c], fresh)
      BY DEF SystemInv, EachClientFits, ClientFits
    <2>2. NoKey.eph = 0
      BY DEF NoKey, GcmKey
    <2> QED
      BY <2>1, <2>2 DEF StateFits
  <1> QED
    BY <1>1, SystemInductive, PTL

(* The request a client works on is the one the server waits for.          *)
THEOREM RequestStaysOutstanding == Spec => []RequestIsOutstanding
  <1>1. SystemInv => RequestIsOutstanding
    <2> SUFFICES ASSUME SystemInv, NEW c \in Clients, conn[c].phase \in {"asked", "cert"},
                        ud[c].state \in RegAnswerStates \cup AuthAnswerStates
                 PROVE  /\ rp.state \in {"REG_REQUEST_SENT", "AUTH_REQUEST_SENT"}
                        /\ rp.chal = ud[c].chal /\ rp.rpId = ud[c].rpId
                        /\ rp.ceremony = ud[c].ceremony
                        /\ rp.ceremony # "AUTH_DISCOVERABLE" => rp.key = ud[c].key
                        /\ rp.ceremony = "REGISTRATION" => rp.user = ud[c].user
      BY DEF RequestIsOutstanding, RegAnswerStates, AuthAnswerStates
    <2>1. StateFits(ud[c], fresh) /\ RequestMatches(c) /\ CeremonyFits
      BY DEF SystemInv, EachClientFits, ClientFits, OneRequest
    <2>2. CASE Registering(c)
      BY <2>1, <2>2 DEF RequestMatches, StateFits, Registering, CeremonyFits
    <2>3. CASE LoggingIn(c)
      BY <2>1, <2>3 DEF RequestMatches, LoggingIn, CeremonyFits
    <2> QED
      BY <2>2, <2>3 DEF Registering, LoggingIn
  <1> QED
    BY <1>1, SystemInductive, PTL

(* A completed handshake means the ceremony, as long as no SELECT fails:   *)
(* a registration response is stored under the name the client gave, a     *)
(* login was accepted for the challenge and the name it gave.              *)
THEOREM HandshakesMeanCeremonies ==
    ASSUME ~ReadFaults
    PROVE  Spec => []HandshakeMeansCeremony
  <1>1. SystemInv => HandshakeMeansCeremony
    BY DEF SystemInv, CeremonyMeant, HandshakeMeansCeremony
  <1> QED
    BY <1>1, SystemInductive, PTL

(* What remains of it when a SELECT may fail: the half of the login.       *)
THEOREM LoginsMeanLogins ==
    Spec => [](\A c \in Clients :
                 conn[c].phase = "open" /\ ud[c].state = "AUTH_RESPONSE_SENT" => LoggedIn(c))
  <1>1. SystemInv => \A c \in Clients :
           conn[c].phase = "open" /\ ud[c].state = "AUTH_RESPONSE_SENT" => LoggedIn(c)
    BY DEF SystemInv, CeremonyMeant
  <1> QED
    BY <1>1, SystemInductive, PTL

(* As long as no SELECT fails, every enrolled credential is still on an    *)
(* authenticator, whose counter is not behind the stored one.              *)
THEOREM CredentialsStayUsable ==
    ASSUME ~ReadFaults
    PROVE  Spec => []EnrolledCredentialsUsable
  <1>1. SystemInv => EnrolledCredentialsUsable
    BY DEF SystemInv, DevicesAgree
  <1> QED
    BY <1>1, SystemInductive, PTL

(* And the exclude list does its work: no authenticator holds two enrolled *)
(* credentials of one account.                                             *)
THEOREM OneCredentialEach ==
    ASSUME ~ReadFaults
    PROVE  Spec => []OneCredentialPerAuthenticator
  <1>1. SystemInv => OneCredentialPerAuthenticator
    BY DEF SystemInv, DevicesAgree
  <1> QED
    BY <1>1, SystemInductive, PTL

-----------------------------------------------------------------------------
(* What a step may not do.                                                 *)

(* The server's steps, with the messages they find.                        *)
ServerStep ==
    \/ Restart
    \/ \E c \in Clients :
         /\ UNCHANGED udVars
         /\ \/ ParseClientHello(c, conn[c].msg) /\ HelloTyped(conn[c].msg)
            \/ AddCertificateRequest(c)
            \/ /\ conn[c].phase = "cert" /\ ResponseTyped(conn[c].msg)
               /\ ParseCertificate(c, conn[c].msg)

(* Every step is one of these, or leaves the server alone.                 *)
LEMMA ServerStepCases ==
    ASSUME SystemInv, [Next]_vars
    PROVE  \/ ServerStep
           \/ \E c \in Clients : ClientStep(c)
           \/ UNCHANGED vars
  <1>1. ASSUME NEW c \in Clients, ServerHello(c) \/ ServerFlight(c) \/ ServerCertificate(c)
        PROVE  ServerStep
    BY <1>1, ArrivalFits DEF SystemInv, ServerHello, ServerFlight, ServerCertificate, ServerStep
  <1>2. CASE \E c \in Clients : ServerHello(c) \/ ServerFlight(c) \/ ServerCertificate(c)
    BY <1>1, <1>2
  <1>3. CASE Next
    BY <1>2, <1>3, StepCases DEF SystemInv, ServerStep
  <1> QED
    BY <1>3

(* The server among its clients implements the account service: no row     *)
(* appears or changes without a challenge that was outstanding and had     *)
(* never been answered.                                                    *)
THEOREM SystemImplements == Spec => ImplementsAccountService
  <1>1. Init => Service!Init
    BY ServiceInit DEF Init, RpStart
  <1>2. SystemInv /\ [Next]_vars => [Service!Next]_(Service!vars)
    <2> SUFFICES ASSUME SystemInv, [Next]_vars
                 PROVE  Service!Next \/ UNCHANGED Service!vars
      OBVIOUS
    <2>1. CASE Restart
      BY <2>1, NextProcessWithdraws DEF Restart, RestartServer, Service!Next
    <2>2. CASE ServerStep
      BY <2>1, <2>2, HelloStutters, RequestStep, ResponseStep
         DEF ServerStep, SystemInv, Service!Next
    <2>3. CASE UNCHANGED vars \/ \E c \in Clients : ClientStep(c)
      BY <2>3 DEF vars, ClientStep, rpVars, Service!vars
    <2> QED
      BY <2>2, <2>3, ServerStepCases
  <1> QED
    BY <1>1, <1>2, SystemInductive, PTL
       DEF Spec, ImplementsAccountService, Service!Spec

(* Among real clients too no credential row is lost, moved or set back.    *)
THEOREM SystemKeepsCounters == Spec => SignCountNeverDecreases
  <1>1. SystemInv /\ [Next]_vars => [RowsKept]_serverVars
    <2>1. UNCHANGED vars => UNCHANGED serverVars
      BY DEF vars, serverVars
    <2> QED
      BY <2>1, StepKeepsTables DEF SystemInv, TablesKept
  <1> QED
    BY <1>1, SystemInductive, PTL DEF Spec, SignCountNeverDecreases, RowsKept

(* And authenticators are used only for RP ids that are valid for the host *)
(* the user asked for.                                                     *)
THEOREM SystemUsesInScope == Spec => ScopedToHost
  <1>1. SystemInv /\ [Next]_vars => [Scoped]_clientVars
    <2> SUFFICES ASSUME SystemInv, [Next]_vars
                 PROVE  Scoped \/ UNCHANGED clientVars
      OBVIOUS
    <2>1. UNCHANGED dev => Scoped
      BY DEF Scoped
    <2>2. ASSUME NEW c \in Clients, ClientStep(c)
          PROVE  Scoped
      <3>1. CASE ClientSettles(c) \/ Stores(c)
        <4>1. UNCHANGED dev
          BY <3>1 DEF ClientSettles, Stores, ProcessPreResponse, ProcessRegRequest,
             ProcessAuthRequest
        <4> QED
          BY <2>1, <4>1
      <3>2. CASE Answers(c) \/ Spends(c)
        BY <3>2, CreateRegResponseUses, FailRegResponseUses, CreateAuthResponseUses,
           FailAuthResponseUses, UsesScoped
           DEF Answers, Spends, SystemInv
      <3> QED
        BY <2>2, <3>1, <3>2 DEF ClientStep
    <2>3. CASE ServerStep
      BY <2>1, <2>3 DEF ServerStep, Restart, udVars
    <2>4. CASE UNCHANGED vars
      BY <2>4 DEF vars, clientVars
    <2> QED
      BY <2>2, <2>3, <2>4, ServerStepCases
  <1> QED
    BY <1>1, SystemInductive, PTL DEF Spec, ScopedToHost, Scoped

(* The rows a step adds, and the client they come from.                    *)
NewRow(r) == r \in creds' /\ \A s \in creds : s.cred # r.cred
TicketHeld(r) ==
    \E c \in Clients :
      /\ ud[c].ticket = ServerTicket /\ ud[c].cred = r.cred
      /\ ~ReadFaults => [id |-> r.user, name |-> ud[c].name] \in users'

(* A registration that is accepted stores the user it was requested for.   *)
LEMMA RegistrationStoresUser ==
    ASSUME IInv, rp.state = "REG_REQUEST_SENT", AddsUser, ~ReadFaults
    PROVE  [id |-> rp.user, name |-> rp.name] \in users'
  <1>1. users' = WithUser /\ \A u \in users : u.name = rp.name <=> u.id = rp.user
    BY DEF AddsUser, IInv, SnapshotsCurrent
  <1>2. CASE \E u \in users : u.id = rp.user
    <2>1. PICK u \in users : u.id = rp.user
      BY <1>2
    <2>2. u.name = rp.name /\ u \in UserRows
      BY <1>1, <2>1 DEF IInv, RpTypeOK
    <2>3. u = [id |-> rp.user, name |-> rp.name]
      BY <2>1, <2>2 DEF UserRows
    <2> QED
      BY <1>1, <1>2, <2>3 DEF WithUser
  <1>3. CASE ~\E u \in users : u.id = rp.user
    BY <1>1, <1>3 DEF WithUser
  <1> QED
    BY <1>2, <1>3

(* A step adds a row only by a registration, of a client with a ticket.    *)
LEMMA NewRowHasTicket ==
    ASSUME SystemInv, [Next]_vars, NEW r, NewRow(r)
    PROVE  TicketHeld(r)
  <1>1. ~UNCHANGED creds
    BY DEF NewRow
  <1>2. ServerStep
    BY <1>1, ServerStepCases DEF vars, rpVars, ClientStep
  <1>3. PICK c \in Clients :
          /\ conn[c].phase = "cert" /\ ResponseTyped(conn[c].msg)
          /\ ParseCertificate(c, conn[c].msg)
    BY <1>1, <1>2, HelloKeepsTables, RequestKeepsTables DEF ServerStep, Restart, RestartServer
  <1>4. CASE ProcessRegResponse(c, conn[c].msg)
    <2>1. /\ rp.state = "REG_REQUEST_SENT" /\ AddsUser
          /\ conn[c].msg.type = "REG_RESPONSE"
      BY <1>4 DEF ProcessRegResponse
    <2>2. /\ rp.user = ud[c].user /\ rp.name = ud[c].name
          /\ rp.key = ud[c].key /\ ud[c].eph # 0
          /\ creds' = creds \cup {[cred |-> ud[c].cred, user |-> rp.user, rp |-> rp.rpId,
                                   count |-> 0]}
      BY <1>3, <1>4, <2>1, RegAnswerFields DEF SystemInv, ProcessRegResponse
    <2>3. r.cred = ud[c].cred /\ r.user = rp.user
      BY <2>2 DEF NewRow
    <2>4. rp.key.eph = ud[c].eph
      BY <2>2 DEF SystemInv, EachClientFits, ClientFits, StateFits
    <2>5. ud[c].ticket = ServerTicket
      BY <2>1, <2>2, <2>4 DEF SystemInv, KeyOwner, HoldsName
    <2>6. ~ReadFaults => [id |-> rp.user, name |-> rp.name] \in users'
      BY <2>1, RegistrationStoresUser DEF SystemInv
    <2> QED
      BY <2>2, <2>3, <2>5, <2>6 DEF TicketHeld
  <1>5. CASE ProcessAuthResponse(c, conn[c].msg)
    <2>1. PICK row \in creds :
            LET raised == [row EXCEPT !.count = conn[c].msg.count]
            IN  raised.cred = row.cred /\ creds' = (creds \ {row}) \cup {raised}
      BY <1>3, <1>5, LoginRaisesOneCounter DEF SystemInv
    <2>2. \A s \in creds' : \E q \in creds : q.cred = s.cred
      BY <2>1
    <2> QED
      BY <2>2 DEF NewRow
  <1> QED
    BY <1>1, <1>3, <1>4, <1>5, ResponseChangesCreds

(* README.md:172, the part that holds whatever fails: a credential is      *)
(* enrolled only while the client that made it holds the server's ticket.  *)
THEOREM TicketNeeded ==
    Spec => [][\A r \in creds' : (\E s \in creds : s.cred = r.cred) \/
                 \E c \in Clients : ud[c].ticket = ServerTicket /\ ud[c].cred = r.cred]_vars
  <1>1. SystemInv /\ [Next]_vars =>
          [\A r \in creds' : (\E s \in creds : s.cred = r.cred) \/
             \E c \in Clients : ud[c].ticket = ServerTicket /\ ud[c].cred = r.cred]_vars
    BY NewRowHasTicket DEF NewRow, TicketHeld
  <1> QED
    BY <1>1, SystemInductive, PTL DEF Spec

(* As long as no SELECT fails, it is enrolled for the user that client has *)
(* named.                                                                  *)
THEOREM EnrolmentNeedsTicket ==
    ASSUME ~ReadFaults
    PROVE  Spec => TicketGuardsEnrolment
  <1> DEFINE Guarded ==
        \A r \in creds' : (\E s \in creds : s.cred = r.cred) \/
          \E c \in Clients :
            /\ ud[c].ticket = ServerTicket /\ ud[c].cred = r.cred
            /\ [id |-> r.user, name |-> ud[c].name] \in users'
  <1>1. SystemInv /\ [Next]_vars => [Guarded]_vars
    BY NewRowHasTicket DEF NewRow, TicketHeld
  <1> QED
    BY <1>1, SystemInductive, PTL DEF Spec, TicketGuardsEnrolment

-----------------------------------------------------------------------------
(* What the server refuses.                                                *)

(* A step out of an outstanding request into a failure is a Certificate.   *)
LEMMA FailureByCertificate ==
    ASSUME SystemInv, [Next]_vars, Outstanding(rp.state),
           rp'.state \in {"REG_FAILURE", "AUTH_FAILURE"}
    PROVE  \E c \in Clients : conn[c].phase = "cert" /\ ParseCertificate(c, conn[c].msg)
  <1>1. ~UNCHANGED rp
    BY DEF Outstanding
  <1>2. ServerStep
    BY <1>1, ServerStepCases DEF vars, rpVars, ClientStep
  <1>3. ASSUME NEW c \in Clients, ParseClientHello(c, conn[c].msg)
        PROVE  FALSE
    <2>1. rp.state # "NO_DATA" /\ GetRpData = {rp}
      BY DEF Outstanding, GetRpData
    <2>2. rp' = rp
      BY <1>3, <2>1 DEF Outstanding, ParseClientHello, ParseNoIndication, ProcessPreIndication,
         ProcessRegIndication, RejectRegIndication, ProcessAuthIndicationDiscoverable,
         ProcessAuthIndicationServerSide, RejectAuthIndicationServerSide, RefuseIndication, rpVars
    <2> QED
      BY <1>1, <2>2
  <1>4. ASSUME NEW c \in Clients, AddCertificateRequest(c)
        PROVE  FALSE
    BY <1>1, <1>4 DEF Outstanding, AddCertificateRequest, SendNothing, CreatePreResponse,
       CreateRegRequest, FailRegRequest, CreateAuthRequestDiscoverable,
       CreateAuthRequestServerSide, FailAuthRequest, RefuseCertificateRequest, rpVars
  <1>5. ~Restart
    BY DEF Restart, RestartServer, NextProcess, Blank
  <1> QED
    BY <1>2, <1>3, <1>4, <1>5 DEF ServerStep

(* A registration response from the host that is the RP id verifies.       *)
LEMMA RegistrationVerifies ==
    ASSUME SystemInv, Attestation = "DIRECT", NEW c \in Clients, conn[c].phase = "cert",
           conn[c].msg.type = "REG_RESPONSE", ud[c].host = rp.rpId
    PROVE  RegResponseVerifies(conn[c].msg)
  <1>1. LET m == conn[c].msg
        IN  /\ m.chal = rp.chal /\ m.origin = rp.rpId /\ m.rpId = rp.rpId /\ m.valid
            /\ m.uv \in CredUv
    BY RegAnswerFields DEF SystemInv
  <1> QED
    BY <1>1 DEF RegResponseVerifies, VerifyClientdata, VerifyFlags, CredUv

(* Its user and its credential can be stored, if nothing fails.            *)
LEMMA RegistrationStorable ==
    ASSUME SystemInv, ~ReadFaults, NEW c \in Clients, conn[c].phase = "cert",
           conn[c].msg.type = "REG_RESPONSE"
    PROVE  ~CredentialTaken(conn[c].msg.cred) /\ ~NameTaken
  <1>1. /\ conn[c].msg.cred = ud[c].cred /\ ud[c].state = "REG_RESPONSE_SENT"
        /\ rp.state = "REG_REQUEST_SENT"
    BY RegAnswerFields DEF SystemInv
  <1>2. CredentialMade(c)
    BY <1>1 DEF SystemInv, AnswersMade
  <1>3. \A u \in users : u.name = rp.name <=> u.id = rp.user
    BY <1>1 DEF SystemInv, IInv, SnapshotsCurrent
  <1> QED
    BY <1>1, <1>2, <1>3 DEF CredentialMade, CredentialTaken, NameTaken

(* The row of an enrolled credential is found, and its login verifies.     *)
LEMMA LoginVerifies ==
    ASSUME SystemInv, ~ReadFaults, NEW c \in Clients, conn[c].phase = "cert",
           conn[c].msg.type = "AUTH_RESPONSE", ud[c].host = rp.rpId,
           NEW r \in creds, r.cred = ud[c].cred
    PROVE  r \in Candidates(conn[c].msg) /\ AuthResponseVerifies(conn[c].msg, r)
  <1> DEFINE m == conn[c].msg
  <1>1. /\ m.cred = r.cred /\ m.chal = rp.chal /\ m.origin = rp.rpId /\ m.rpId = rp.rpId
        /\ m.valid /\ m.uv \in AssertUv /\ m.handle = ud[c].user
        /\ ud[c].state = "AUTH_RESPONSE_SENT" /\ rp.state = "AUTH_REQUEST_SENT"
        /\ rp.rpId = ud[c].rpId /\ rp.ceremony = ud[c].ceremony
        /\ rp.ceremony = "AUTH_SERVER_SIDE" => rp.allow = ud[c].allow
    BY AuthAnswerFields DEF SystemInv
  <1>2. AssertionMade(c)
    BY <1>1 DEF SystemInv, AnswersMade
  <1>3. r.count < m.count
    BY <1>2 DEF AssertionMade
  <1>4. PICK d, k :
          /\ d \in Devices /\ k \in dev[d]
          /\ k.cred = ud[c].cred /\ k.rp = ud[c].rpId
          /\ IF ud[c].ceremony = "AUTH_SERVER_SIDE"
             THEN k.cred \in ud[c].allow /\ ud[c].user \in {0, k.user}
             ELSE ud[c].user = k.user
    BY <1>2 DEF AssertionMade
  <1>5. PICK e, l : /\ e \in Devices /\ l \in dev[e]
                    /\ l.cred = r.cred /\ l.user = r.user /\ l.rp = r.rp
    BY DEF SystemInv, DevicesAgree, EnrolledCredentialsUsable
  <1>6. k = l /\ k.user # 0
    BY <1>4, <1>5 DEF SystemInv, DeviceIds
  <1>7. r.rp = rp.rpId /\ r.user = k.user
    BY <1>1, <1>4, <1>5, <1>6
  <1>8. r.user \in Owners(m)
    <2>1. CASE rp.ceremony = "AUTH_SERVER_SIDE"
      <3>1. r.cred \in Descriptors(rp.user, rp.rpId) /\ m.cred \in rp.allow
        BY <1>1, <1>4, <2>1 DEF SystemInv, IInv, SnapshotsCurrent
      <3>2. PICK q \in creds : q.cred = r.cred /\ q.user = rp.user
        BY <3>1 DEF Descriptors
      <3>3. r.user = rp.user
        BY <3>2 DEF SystemInv, IInv, DatabaseConsistent
      <3>4. m.handle \in {0, rp.user}
        BY <1>1, <1>4, <1>7, <2>1, <3>3
      <3> QED
        BY <2>1, <3>1, <3>3, <3>4 DEF Owners
    <2>2. CASE rp.ceremony # "AUTH_SERVER_SIDE"
      BY <1>1, <1>4, <1>6, <1>7, <2>2 DEF Owners
    <2> QED
      BY <2>1, <2>2
  <1>9. r \in Candidates(m)
    BY <1>1, <1>8 DEF Candidates, CredentialRows
  <1>10. AuthResponseVerifies(m, r)
    BY <1>1, <1>3, <1>7 DEF AuthResponseVerifies, VerifyClientdata, VerifyFlags, AssertUv
  <1> QED
    BY <1>9, <1>10

(* The answers that may arrive while a request is outstanding.             *)
LEMMA AnswerTypes ==
    ASSUME SystemInv, NEW c \in Clients, conn[c].phase = "cert", conn[c].msg.type # "NO_EXT"
    PROVE  \/ conn[c].msg.type = "REG_RESPONSE" /\ rp.state = "REG_REQUEST_SENT"
           \/ conn[c].msg.type = "AUTH_RESPONSE" /\ rp.state = "AUTH_REQUEST_SENT"
  <1> DEFINE m == conn[c].msg
  <1>1. CertificateOf(ud[c], m)
    BY ArrivalFits DEF SystemInv
  <1>2. m.type # "NO_EXT"
    OBVIOUS
  <1> HIDE DEF m
  <1>3. m.type \in {"REG_RESPONSE", "AUTH_RESPONSE"}
    <2>1. m # NoExt
      BY <1>2 DEF NoExt
    <2>2. \A uv : m = RegResponse(ud[c].cred, ud[c].chal, ud[c].host, ud[c].rpId, uv, 0, TRUE) =>
            m.type = "REG_RESPONSE"
      BY DEF RegResponse
    <2> QED
      BY <1>1, <2>1, <2>2 DEF CertificateOf
  <1>4. conn[c].msg.type \in {"REG_RESPONSE", "AUTH_RESPONSE"}
    BY <1>3 DEF m
  <1> QED
    BY <1>4, RegAnswerFields, AuthAnswerFields DEF SystemInv

(* The server refuses the answer of a real client only for cause: when     *)
(* attestation is of the supported kind and the database reports no        *)
(* errors, the answer came from a host that is not the RP id itself, or    *)
(* with a credential that has no row.  The exclude list, the allow list,   *)
(* the counter, the user handle and the verification flag refuse nobody.   *)
THEOREM RefusalsHaveCause ==
    ASSUME ~ReadFaults, ~WriteFaults, Attestation = "DIRECT"
    PROVE  Spec => RefusedForCause
  <1> DEFINE Cause ==
        Outstanding(rp.state) /\ rp'.state \in {"REG_FAILURE", "AUTH_FAILURE"} =>
          \E c \in Clients : conn[c].phase = "cert" /\
            \/ ud[c].host # rp.rpId
            \/ rp.state = "AUTH_REQUEST_SENT" /\ \A r \in creds : r.cred # ud[c].cred
  <1>1. ASSUME SystemInv, [Next]_vars, Outstanding(rp.state),
               rp'.state \in {"REG_FAILURE", "AUTH_FAILURE"}
        PROVE  Cause
    <2>1. PICK c \in Clients : conn[c].phase = "cert" /\ ParseCertificate(c, conn[c].msg)
      BY <1>1, FailureByCertificate
    <2> DEFINE m == conn[c].msg
    <2>2. rp \in RpData /\ ~UNCHANGED rp /\ GetRpData = {rp}
      BY <1>1 DEF Outstanding, SystemInv, IInv, RpTypeOK, GetRpData
    <2>3. \/ RejectRegResponse(c, m) \/ FailAddCreds(c, m)
          \/ RejectAuthResponse(c, m) \/ RejectUnknownCredential(c, m) \/ RejectStoredKey(c, m)
      <3>1. ~ProcessRegResponse(c, m) /\ ~ProcessAuthResponse(c, m)
        BY <1>1, <2>2 DEF ProcessRegResponse, ProcessAuthResponse, RpData
      <3>2. ~FailUpdateSignCount(c, m) /\ ~RefuseCertificate(c, m)
              /\ ~AcceptPlainCertificate(c, m)
        BY <2>2 DEF FailUpdateSignCount, RefuseCertificate, AcceptPlainCertificate, rpVars
      <3> QED
        BY <2>1, <3>1, <3>2 DEF ParseCertificate
    <2>4. CASE rp.state = "REG_REQUEST_SENT"
      <3>1. m.type = "REG_RESPONSE"
        BY <1>1, <2>1, <2>3, <2>4, AnswerTypes
           DEF RejectRegResponse, FailAddCreds, RejectAuthResponse, RejectUnknownCredential, RejectStoredKey
      <3>2. ~FailAddCreds(c, m)
        BY <1>1, <2>1, <3>1, RegistrationStorable DEF FailAddCreds
      <3>3. ~RegResponseVerifies(m)
        BY <2>3, <2>4, <3>1, <3>2
           DEF RejectRegResponse, RejectAuthResponse, RejectUnknownCredential, RejectStoredKey
      <3> QED
        BY <1>1, <2>1, <3>1, <3>3, RegistrationVerifies
    <2>5. CASE rp.state = "AUTH_REQUEST_SENT"
      <3>1. m.type = "AUTH_RESPONSE"
        BY <1>1, <2>1, <2>3, <2>5, AnswerTypes
           DEF RejectRegResponse, FailAddCreds, RejectAuthResponse, RejectUnknownCredential, RejectStoredKey
      <3>2. RejectAuthResponse(c, m) \/ RejectUnknownCredential(c, m) \/ RejectStoredKey(c, m)
        BY <2>3, <2>5 DEF RejectRegResponse, FailAddCreds
      <3>3. \A row \in Candidates(m) : ~AuthResponseVerifies(m, row)
        BY <3>1, <3>2
           DEF RejectAuthResponse, RejectUnknownCredential, RejectStoredKey, AuthResponseVerifies
      <3> QED
        BY <1>1, <2>1, <2>5, <3>1, <3>3, LoginVerifies
    <2> QED
      BY <1>1, <2>4, <2>5 DEF Outstanding
  <1>2. SystemInv /\ [Next]_vars => [Cause]_vars
    BY <1>1
  <1> QED
    BY <1>2, SystemInductive, PTL DEF Spec, RefusedForCause

=============================================================================
