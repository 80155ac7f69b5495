--------------------------- MODULE PartiesProofs ----------------------------
(***************************************************************************)
(* What each side is sure of whatever the other one does, for every set of *)
(* names, hosts, tickets, packets and counters, and every bound: proofs    *)
(* about AnyClient.tla (the relying party, in the first part) and          *)
(* AnyServer.tla (the client, in the second).                              *)
(***************************************************************************)
EXTENDS AnyClient, AnyServer, TLAPS

-----------------------------------------------------------------------------
(***************************************************************************)
(* The relying party against every client.                                 *)
(***************************************************************************)
(* The fields the handlers read out of a packet have their types: all that *)
(* the invariant of the server asks of what the clients send.              *)
HelloTyped(m) ==
    m.type \in {"REG_INDICATION", "AUTH_INDICATION_SERVER_SIDE"} =>
      m.eph \in Nat /\ m.name \in Names

ResponseTyped(m) ==
    m.type \in {"REG_RESPONSE", "AUTH_RESPONSE"} => m.cred \in Nat /\ m.count \in Nat

(* So it is in every ClientHello that can be sent ...                      *)
LEMMA HelloTypes ==
    ASSUME fresh \in Nat, NEW m \in HelloPackets
    PROVE  HelloTyped(m)
  BY SMTT(30) DEF HelloPackets, Keys, Drawn, GcmKey, NoExt, PreIndication, Malformed,
     AuthIndicationDiscoverable, RegIndication, AuthIndicationServerSide, HelloTyped

(* ... and in every Certificate.                                           *)
LEMMA ResponseTypes ==
    ASSUME fresh \in Nat, NEW m \in ResponsePackets
    PROVE  ResponseTyped(m)
  BY AnyClientAssumption, SMTT(30)
     DEF ResponsePackets, Drawn, NoExt, Malformed, RegResponse, AuthResponse, ResponseTyped

(* The initial state.                                                      *)
LEMMA InitIInv == RpStart => IInv
  BY RelyingPartyAssumption
     DEF RpStart, TlsInit, RpInit, IInv, RpTypeOK, RpData, Remembered, FilledIn, AcceptedBefore,
         DatabaseConsistent, OwnersExist, ClosedHandleUnused, AcceptedOnce, LoginsAreEnrolled,
         AssertsHold, SnapshotsCurrent, Blank, ServerStates, Ceremonies, GcmKeys, NoKey, GcmKey,
         Outstanding, UserRows, CredRows

-----------------------------------------------------------------------------
(* Steps that leave the tables, the history and the process alone.         *)

(* The parts of the invariant that only the tables and the history decide. *)
LEMMA TablesUnchanged ==
    ASSUME IInv, UNCHANGED <<users, creds, accepted>>
    PROVE  DatabaseConsistent' /\ AcceptedOnce' /\ LoginsAreEnrolled'
  BY DEF IInv, DatabaseConsistent, OwnersExist, AcceptedOnce, LoginsAreEnrolled

(* Nothing but connections and the random source changes.                  *)
LEMMA Idle ==
    ASSUME IInv, UNCHANGED rpVars, fresh' \in Nat, fresh' >= fresh
    PROVE  IInv'
  <1> USE DEF rpVars
  <1>1. RpTypeOK'
    BY DEF IInv, RpTypeOK, RpData
  <1>2. Remembered'
    <2>1. rp.chal \in Nat /\ rp.user \in Nat
      BY DEF IInv, RpTypeOK, RpData
    <2>2. \A u \in users : u.id \in Nat
      BY DEF IInv, RpTypeOK, RpData, UserRows
    <2>3. \A x \in accepted : x.chal \in Nat
      BY DEF IInv, RpTypeOK, RpData
    <2> QED
      BY <2>1, <2>2, <2>3 DEF IInv, Remembered
  <1>3. FilledIn' /\ AcceptedBefore'
    BY DEF IInv, FilledIn, AcceptedBefore
  <1>4. ClosedHandleUnused' /\ AssertsHold' /\ SnapshotsCurrent'
    BY DEF IInv, ClosedHandleUnused, AssertsHold, SnapshotsCurrent, Descriptors
  <1> QED
    BY <1>1, <1>2, <1>3, <1>4, TablesUnchanged DEF IInv

(* What get_rp_data returns: the rp_data there is, or a new one in its     *)
(* initial state.                                                          *)
LEMMA GetRpDataReturns ==
    ASSUME IInv, NEW d \in GetRpData
    PROVE  /\ d \in RpData
           /\ rp.state = "NO_DATA" \/ d = rp
           /\ rp.state = "NO_DATA" => d.state = "INITIAL"
           /\ d.rpId \in Hosts /\ d.kep = episode
           /\ d.chal < fresh /\ d.user < fresh
           /\ d.db = "closed" => d.state \in {"REG_FAILURE", "AUTH_FAILURE"}
  <1>1. CASE rp.state # "NO_DATA"
    BY <1>1 DEF GetRpData, IInv, RpTypeOK, FilledIn, Remembered, ClosedHandleUnused
  <1>2. CASE rp.state = "NO_DATA"
    <2>1. PICK h \in ServerIds : d = InitRp(h)
      BY <1>2 DEF GetRpData
    <2>2. h \in Hosts /\ episode \in Nat /\ fresh \in Nat /\ fresh > 0
      BY RelyingPartyAssumption DEF IInv, RpTypeOK, RpData, Remembered
    <2>3. d = [state |-> "INITIAL", ceremony |-> "UNDEFINED", rpId |-> h, kep |-> episode,
               key |-> NoKey, user |-> 0, name |-> Null, chal |-> 0, allow |-> {},
               db |-> "open"]
      BY <2>1, Zenon DEF InitRp, Blank
    <2> QED
      BY <1>2, <2>2, <2>3 DEF RpData, ServerStates, Ceremonies, GcmKeys, NoKey, GcmKey
  <1> QED
    BY <1>1, <1>2

(* A step that changes rp_data only, to something well-formed.             *)
LEMMA KeepsTables ==
    ASSUME IInv, UNCHANGED <<episode, users, creds, accepted>>, fresh' \in Nat, fresh' >= fresh,
           rp' \in RpData, rp'.chal < fresh', rp'.user < fresh'
    PROVE  RpTypeOK' /\ Remembered' /\ DatabaseConsistent' /\ AcceptedOnce' /\ LoginsAreEnrolled'
  <1>1. RpTypeOK'
    BY DEF IInv, RpTypeOK
  <1>2. Remembered'
    <2>1. \A u \in users : u.id \in Nat
      BY DEF IInv, RpTypeOK, UserRows
    <2>2. \A x \in accepted : x.chal \in Nat
      BY DEF IInv, RpTypeOK
    <2> QED
      BY <2>1, <2>2 DEF IInv, Remembered
  <1> QED
    BY <1>1, <1>2, TablesUnchanged

(* States in which neither a request is outstanding nor one is to be built *)
(* from what an indication left behind.                                    *)
AtRest ==
    {"INITIAL", "PRE_INDICATION_RECEIVED", "PRE_RESPONSE_SENT", "REG_FAILURE", "AUTH_FAILURE",
     "AUTH_INDICATION_DISCOVERABLE_RECEIVED"}

(* A step into such a state, while this process has accepted nothing.      *)
LEMMA ComesToRest ==
    ASSUME IInv, UNCHANGED <<episode, users, creds, accepted>>, fresh' \in Nat, fresh' >= fresh,
           rp' \in RpData, rp'.chal < fresh', rp'.user < fresh',
           rp'.state \in AtRest, rp'.rpId \in Hosts, rp'.kep = episode,
           rp'.db = "closed" => rp'.state \in {"REG_FAILURE", "AUTH_FAILURE"},
           rp'.state = "AUTH_INDICATION_DISCOVERABLE_RECEIVED" => rp'.ceremony = "AUTH_DISCOVERABLE",
           rp.state \notin {"REG_SUCCESS", "AUTH_SUCCESS"}
    PROVE  IInv'
  <1>1. FilledIn' /\ AcceptedBefore'
    BY DEF IInv, FilledIn, AcceptedBefore, AtRest, Outstanding
  <1>2. ClosedHandleUnused' /\ AssertsHold' /\ SnapshotsCurrent'
    BY DEF ClosedHandleUnused, AssertsHold, SnapshotsCurrent, AtRest
  <1> QED
    BY <1>1, <1>2, KeepsTables DEF IInv

-----------------------------------------------------------------------------
(* ClientHello.                                                            *)

(* A pre-indication starts the first ceremony of a new rp_data.             *)
LEMMA ProcessPreIndicationIInv ==
    ASSUME IInv, NEW c, NEW m, ProcessPreIndication(c, m)
    PROVE  IInv'
  <1>1. PICK d \in GetRpData :
            d.state = "INITIAL" /\ rp' = [d EXCEPT !.state = "PRE_INDICATION_RECEIVED"]
    BY DEF ProcessPreIndication
  <1>2. /\ d \in RpData /\ d.rpId \in Hosts /\ d.kep = episode
        /\ d.chal < fresh /\ d.user < fresh /\ d.db # "closed"
        /\ rp.state \in {"NO_DATA", "INITIAL"} /\ fresh \in Nat
    BY <1>1, GetRpDataReturns DEF IInv, Remembered
  <1>3. rp' \in RpData /\ rp'.state \in AtRest
    BY <1>1, <1>2 DEF RpData, ServerStates, AtRest
  <1> QED
    BY <1>1, <1>2, <1>3, ComesToRest DEF ProcessPreIndication, RpData

(* A discoverable login starts in a new rp_data, with its ceremony set.     *)
LEMMA ProcessAuthIndicationDiscoverableIInv ==
    ASSUME IInv, NEW c, NEW m, ProcessAuthIndicationDiscoverable(c, m)
    PROVE  IInv'
  <1>1. PICK d \in GetRpData :
            /\ d.state = "INITIAL"
            /\ rp' = [d EXCEPT !.state = "AUTH_INDICATION_DISCOVERABLE_RECEIVED",
                               !.ceremony = "AUTH_DISCOVERABLE"]
    BY DEF ProcessAuthIndicationDiscoverable
  <1>2. /\ d \in RpData /\ d.rpId \in Hosts /\ d.kep = episode
        /\ d.chal < fresh /\ d.user < fresh /\ d.db # "closed"
        /\ rp.state \in {"NO_DATA", "INITIAL"} /\ fresh \in Nat
    BY <1>1, GetRpDataReturns DEF IInv, Remembered
  <1>3. /\ rp' \in RpData /\ rp'.state \in AtRest /\ rp'.ceremony = "AUTH_DISCOVERABLE"
        /\ rp'.rpId = d.rpId /\ rp'.kep = d.kep /\ rp'.chal = d.chal /\ rp'.user = d.user
        /\ rp'.db = d.db
    BY <1>1, <1>2 DEF RpData, ServerStates, Ceremonies, AtRest
  <1> QED
    BY <1>1, <1>2, <1>3, ComesToRest DEF ProcessAuthIndicationDiscoverable

(* A registration indication leaves a user name and a key for the request.  *)
LEMMA ProcessRegIndicationIInv ==
    ASSUME IInv, NEW c, NEW m, HelloTyped(m), ProcessRegIndication(c, m)
    PROVE  IInv'
  <1> USE DEF ProcessRegIndication
  <1>1. m.eph \in Nat /\ m.name \in Names
    BY DEF HelloTyped, IInv, Remembered
  <1>2. rp.state = "PRE_RESPONSE_SENT" /\ rp.kep = episode /\ episode \in Nat \ {0}
    BY DEF IInv, RpTypeOK, RpData, FilledIn
  <1>3. GcmKey(rp.kep, m.eph) \in GcmKeys /\ GcmKey(rp.kep, m.eph) # NoKey
    BY <1>1, <1>2 DEF GcmKeys, GcmKey, NoKey
  <1>4. RpTypeOK'
    BY <1>1, <1>3 DEF IInv, RpTypeOK, RpData, Ceremonies, ServerStates
  <1>5. Remembered' /\ FilledIn' /\ AcceptedBefore'
    BY <1>1 DEF IInv, RpTypeOK, RpData, Remembered, FilledIn, AcceptedBefore, Outstanding
  <1>6. ClosedHandleUnused' /\ AssertsHold' /\ SnapshotsCurrent'
    BY <1>1, <1>3, NullAssumption
       DEF IInv, RpTypeOK, RpData, ClosedHandleUnused, AssertsHold, SnapshotsCurrent
  <1> QED
    BY <1>4, <1>5, <1>6, TablesUnchanged DEF IInv

(* A server-side login leaves the id of an existing user for the request.   *)
LEMMA ProcessAuthIndicationServerSideIInv ==
    ASSUME IInv, NEW c, NEW m, HelloTyped(m), ProcessAuthIndicationServerSide(c, m)
    PROVE  IInv'
  <1>1. PICK id \in UserIds(m.name) :
            rp' = [rp EXCEPT !.state = "AUTH_INDICATION_SERVER_SIDE_RECEIVED",
                             !.ceremony = "AUTH_SERVER_SIDE",
                             !.key = GcmKey(rp.kep, m.eph), !.user = id]
    BY DEF ProcessAuthIndicationServerSide
  <1>2. id \in Nat /\ 0 < id /\ id < fresh
    BY DEF UserIds, IInv, RpTypeOK, UserRows, Remembered
  <1>3. /\ rp \in RpData /\ rp.state = "PRE_RESPONSE_SENT" /\ rp.kep = episode
        /\ episode \in Nat \ {0} /\ m.eph \in Nat /\ fresh \in Nat
    BY DEF HelloTyped, IInv, RpTypeOK, FilledIn, Remembered, ProcessAuthIndicationServerSide
  <1>4. GcmKey(rp.kep, m.eph) \in GcmKeys /\ GcmKey(rp.kep, m.eph) # NoKey
    BY <1>3 DEF GcmKeys, GcmKey, NoKey
  <1>5. /\ rp' \in RpData
        /\ rp'.state = "AUTH_INDICATION_SERVER_SIDE_RECEIVED" /\ rp'.key # NoKey
        /\ rp'.user = id /\ rp'.chal = rp.chal /\ rp'.rpId = rp.rpId /\ rp'.kep = rp.kep
        /\ rp'.db = rp.db
    BY <1>1, <1>2, <1>3, <1>4 DEF RpData, ServerStates, Ceremonies
  <1>6. UNCHANGED <<fresh, episode, users, creds, accepted>>
    BY DEF ProcessAuthIndicationServerSide
  <1>7. FilledIn' /\ AcceptedBefore'
    BY <1>3, <1>5, <1>6 DEF IInv, FilledIn, AcceptedBefore, Outstanding
  <1>8. ClosedHandleUnused' /\ AssertsHold' /\ SnapshotsCurrent'
    BY <1>2, <1>3, <1>5 DEF IInv, ClosedHandleUnused, AssertsHold, SnapshotsCurrent
  <1> QED
    BY <1>2, <1>3, <1>5, <1>6, <1>7, <1>8, KeepsTables DEF IInv, Remembered

(* Both refusals store the derived key and nothing else.                   *)
LEMMA RejectIndicationIInv ==
    ASSUME IInv, NEW c, NEW m, HelloTyped(m),
           RejectRegIndication(c, m) \/ RejectAuthIndicationServerSide(c, m)
    PROVE  IInv'
  <1>1. /\ rp \in RpData /\ rp.state = "PRE_RESPONSE_SENT" /\ m.eph \in Nat
        /\ rp.rpId \in Hosts /\ rp.kep = episode /\ rp.db # "closed"
        /\ fresh \in Nat /\ rp.chal < fresh /\ rp.user < fresh
    BY DEF HelloTyped, IInv, RpTypeOK, FilledIn, Remembered, ClosedHandleUnused,
                      RejectRegIndication, RejectAuthIndicationServerSide
  <1>2. rp' = [rp EXCEPT !.key = GcmKey(rp.kep, m.eph)]
    BY DEF RejectRegIndication, RejectAuthIndicationServerSide
  <1>3. rp' \in RpData /\ rp'.state \in AtRest
    BY <1>1, <1>2 DEF RpData, GcmKeys, GcmKey, AtRest
  <1>4. UNCHANGED <<fresh, episode, users, creds, accepted>>
    BY DEF RejectRegIndication, RejectAuthIndicationServerSide
  <1> QED
    BY <1>1, <1>2, <1>3, <1>4, ComesToRest DEF RpData

(* A message that is refused at once has built rp_data at most.            *)
LEMMA RefusedIInv ==
    ASSUME IInv, NEW c, NEW m, RefuseIndication(c, m) \/ RefuseCertificate(c, m)
    PROVE  IInv'
  <1>1. rp' \in GetRpData /\ UNCHANGED <<fresh, episode, users, creds, accepted>>
    BY DEF RefuseIndication, RefuseCertificate
  <1>2. fresh \in Nat
    BY DEF IInv, Remembered
  <1>3. CASE rp' = rp
    BY <1>1, <1>2, <1>3, Idle DEF rpVars
  <1>4. CASE rp.state = "NO_DATA"
    BY <1>1, <1>2, <1>4, GetRpDataReturns, ComesToRest DEF AtRest
  <1> QED
    BY <1>1, <1>3, <1>4, GetRpDataReturns

(* The server's callback on a ClientHello keeps the invariant.              *)
LEMMA ParseClientHelloIInv ==
    ASSUME IInv, NEW c, NEW m, HelloTyped(m), ParseClientHello(c, m)
    PROVE  IInv'
  <1>1. CASE ParseNoIndication(c, m)
    BY <1>1, Idle DEF ParseNoIndication, IInv, Remembered
  <1> QED
    BY <1>1, ProcessPreIndicationIInv, ProcessRegIndicationIInv, RejectIndicationIInv,
       ProcessAuthIndicationDiscoverableIInv, ProcessAuthIndicationServerSideIInv,
       RefusedIInv DEF ParseClientHello

-----------------------------------------------------------------------------
(* CertificateRequest.                                                     *)

(* A pre-response draws one value and waits for the indication.             *)
LEMMA CreatePreResponseIInv ==
    ASSUME IInv, NEW c, CreatePreResponse(c)
    PROVE  IInv'
  <1>1. /\ rp \in RpData /\ rp.state = "PRE_INDICATION_RECEIVED"
        /\ rp.rpId \in Hosts /\ rp.kep = episode /\ rp.db # "closed"
        /\ fresh \in Nat /\ rp.chal < fresh /\ rp.user < fresh
    BY DEF IInv, RpTypeOK, FilledIn, Remembered, ClosedHandleUnused, CreatePreResponse
  <1>2. /\ rp' = [rp EXCEPT !.state = "PRE_RESPONSE_SENT"] /\ fresh' = fresh + 1
        /\ UNCHANGED <<episode, users, creds, accepted>>
    BY DEF CreatePreResponse
  <1>3. /\ rp' \in RpData /\ rp'.state \in AtRest
        /\ rp'.rpId = rp.rpId /\ rp'.kep = rp.kep /\ rp'.chal = rp.chal /\ rp'.user = rp.user
        /\ rp'.db = rp.db
    BY <1>1, <1>2 DEF RpData, ServerStates, AtRest
  <1>4. rp.chal \in Nat /\ rp.user \in Nat
    BY <1>1 DEF RpData
  <1> QED
    BY <1>1, <1>2, <1>3, <1>4, ComesToRest

(* The user id in a registration request is that of the name, or of nobody *)
(* and then, unless a SELECT has failed, the name is not in the table.     *)
LEMMA UserIdForReturns ==
    ASSUME IInv, NEW n \in Names, NEW id \in UserIdFor(n)
    PROVE  /\ id \in Nat /\ 0 < id /\ id < fresh + 2
           /\ ReadFaults \/ \A u \in users : u.name = n <=> u.id = id
  <1>1. /\ fresh \in Nat /\ fresh > 0
        /\ \A u \in users : u.id \in Nat /\ 0 < u.id /\ u.id < fresh
    BY DEF IInv, RpTypeOK, UserRows, Remembered
  <1>2. CASE id = fresh + 1 /\ (UserIds(n) = {} \/ ReadFaults)
    <2>1. ReadFaults \/ \A u \in users : u.name # n
      BY <1>2 DEF UserIds
    <2> QED
      BY <1>1, <1>2, <2>1
  <1>3. CASE id \in UserIds(n)
    <2>1. PICK v \in users : v.name = n /\ v.id = id
      BY <1>3 DEF UserIds
    <2>2. \A u \in users : u.id = v.id \/ u.name = v.name => u = v
      BY DEF IInv, DatabaseConsistent
    <2> QED
      BY <1>1, <2>1, <2>2
  <1> QED
    BY <1>2, <1>3 DEF UserIdFor

(* The lists of credential ids that the queries return.                    *)
LEMMA ListsReturn ==
    ASSUME IInv, NEW u, NEW h, NEW l \in Lists(u, h)
    PROVE  l \in SUBSET Nat /\ (ReadFaults \/ l = Descriptors(u, h))
  <1>1. Descriptors(u, h) \in SUBSET Nat
    BY DEF Descriptors, IInv, RpTypeOK, CredRows
  <1> QED
    BY <1>1 DEF Lists

(* Sent or not, a registration request leaves a new challenge and a        *)
(* current user id in rp_data.                                             *)
LEMMA RegRequestIInv ==
    ASSUME IInv, NEW c, CreateRegRequest(c) \/ FailRegRequest(c)
    PROVE  IInv'
  <1>0. rp.state = "REG_INDICATION_RECEIVED"
    BY DEF CreateRegRequest, FailRegRequest
  <1>1. /\ rp \in RpData /\ rp.state = "REG_INDICATION_RECEIVED"
        /\ rp.rpId \in Hosts /\ rp.rpId # Null /\ rp.kep = episode /\ rp.db # "closed"
        /\ fresh \in Nat /\ fresh > 0 /\ rp.name \in Names /\ rp.name # Null /\ rp.key # NoKey
    BY <1>0, NullAssumption
       DEF IInv, RpTypeOK, FilledIn, Remembered, ClosedHandleUnused, AssertsHold
  <1>2. PICK id \in UserIdFor(rp.name) :
            \/ rp' = [rp EXCEPT !.state = "REG_REQUEST_SENT", !.chal = fresh, !.user = id]
            \/ rp' = [rp EXCEPT !.chal = fresh, !.user = id]
    BY DEF CreateRegRequest, FailRegRequest
  <1>3. fresh' = fresh + 2 /\ UNCHANGED <<episode, users, creds, accepted>>
    BY DEF CreateRegRequest, FailRegRequest
  <1>4. /\ id \in Nat /\ 0 < id /\ id < fresh + 2
        /\ ReadFaults \/ \A u \in users : u.name = rp.name <=> u.id = id
    BY <1>1, UserIdForReturns
  <1>5. /\ rp' \in RpData /\ rp'.state \in {"REG_INDICATION_RECEIVED", "REG_REQUEST_SENT"}
        /\ rp'.chal = fresh /\ rp'.user = id /\ rp'.name = rp.name /\ rp'.key = rp.key
        /\ rp'.rpId = rp.rpId /\ rp'.kep = rp.kep /\ rp'.db = rp.db
    BY <1>1, <1>2, <1>4, ZenonT(40) DEF RpData, ServerStates
  <1>6. FilledIn' /\ AcceptedBefore'
    BY <1>1, <1>3, <1>4, <1>5 DEF IInv, FilledIn, AcceptedBefore, Remembered, Outstanding
  <1>7. ClosedHandleUnused' /\ AssertsHold' /\ SnapshotsCurrent'
    BY <1>1, <1>3, <1>4, <1>5 DEF ClosedHandleUnused, AssertsHold, SnapshotsCurrent
  <1>8. fresh' \in Nat /\ fresh' >= fresh /\ rp'.chal < fresh' /\ rp'.user < fresh'
    BY <1>1, <1>3, <1>4, <1>5
  <1> QED
    BY <1>3, <1>5, <1>6, <1>7, <1>8, KeepsTables DEF IInv

(* A discoverable request carries a challenge that was never accepted.      *)
LEMMA CreateAuthRequestDiscoverableIInv ==
    ASSUME IInv, NEW c, CreateAuthRequestDiscoverable(c)
    PROVE  IInv'
  <1>1. /\ rp.state = "AUTH_INDICATION_DISCOVERABLE_RECEIVED"
        /\ rp' = [rp EXCEPT !.state = "AUTH_REQUEST_SENT", !.chal = fresh]
        /\ fresh' = fresh + 1 /\ UNCHANGED <<episode, users, creds, accepted>>
    BY DEF CreateAuthRequestDiscoverable
  <1>2. /\ rp \in RpData /\ rp.rpId \in Hosts /\ rp.rpId # Null /\ rp.kep = episode
        /\ rp.db # "closed" /\ rp.ceremony = "AUTH_DISCOVERABLE"
        /\ fresh \in Nat /\ fresh > 0 /\ rp.user < fresh
    BY <1>1, NullAssumption DEF IInv, RpTypeOK, FilledIn, Remembered, ClosedHandleUnused
  <1>3. /\ rp' \in RpData /\ rp'.state = "AUTH_REQUEST_SENT"
        /\ rp'.ceremony = rp.ceremony /\ rp'.chal = fresh /\ rp'.user = rp.user
        /\ rp'.rpId = rp.rpId /\ rp'.kep = rp.kep /\ rp'.db = rp.db
    BY <1>1, <1>2 DEF RpData, ServerStates
  <1>4. FilledIn' /\ AcceptedBefore'
    BY <1>1, <1>2, <1>3 DEF IInv, FilledIn, AcceptedBefore, Remembered, Outstanding
  <1>5. ClosedHandleUnused' /\ AssertsHold' /\ SnapshotsCurrent'
    BY <1>1, <1>2, <1>3 DEF ClosedHandleUnused, AssertsHold, SnapshotsCurrent
  <1>6. fresh' \in Nat /\ fresh' >= fresh /\ rp'.chal < fresh' /\ rp'.user < fresh'
    BY <1>1, <1>2, <1>3 DEF RpData
  <1> QED
    BY <1>1, <1>3, <1>4, <1>5, <1>6, KeepsTables DEF IInv

(* The allow list in a request is the list of the user's credentials.      *)
LEMMA CreateAuthRequestServerSideIInv ==
    ASSUME IInv, NEW c, CreateAuthRequestServerSide(c)
    PROVE  IInv'
  <1>0. PICK allow \in Lists(rp.user, rp.rpId) :
            /\ allow # {}
            /\ rp' = [rp EXCEPT !.state = "AUTH_REQUEST_SENT", !.chal = fresh, !.allow = allow]
    BY DEF CreateAuthRequestServerSide
  <1>1. /\ rp.state = "AUTH_INDICATION_SERVER_SIDE_RECEIVED" /\ allow # {}
        /\ rp' = [rp EXCEPT !.state = "AUTH_REQUEST_SENT", !.chal = fresh, !.allow = allow]
        /\ fresh' = fresh + 1 /\ UNCHANGED <<episode, users, creds, accepted>>
    BY <1>0 DEF CreateAuthRequestServerSide
  <1>2. /\ rp \in RpData /\ rp.rpId \in Hosts /\ rp.rpId # Null /\ rp.kep = episode
        /\ rp.db # "closed" /\ fresh \in Nat /\ fresh > 0 /\ rp.user < fresh
    BY <1>1, NullAssumption DEF IInv, RpTypeOK, FilledIn, Remembered, ClosedHandleUnused
  <1>3. allow \in SUBSET Nat /\ (ReadFaults \/ allow = Descriptors(rp.user, rp.rpId))
    BY ListsReturn
  <1>4. /\ rp' \in RpData /\ rp'.state = "AUTH_REQUEST_SENT" /\ rp'.allow = allow
        /\ rp'.chal = fresh /\ rp'.user = rp.user
        /\ rp'.rpId = rp.rpId /\ rp'.kep = rp.kep /\ rp'.db = rp.db
    BY <1>1, <1>2, <1>3 DEF RpData, ServerStates
  <1>5. FilledIn' /\ AcceptedBefore'
    BY <1>1, <1>2, <1>4 DEF IInv, FilledIn, AcceptedBefore, Remembered, Outstanding
  <1>6. ReadFaults \/ Descriptors(rp.user, rp.rpId)' = allow
    BY <1>1, <1>3, <1>4 DEF Descriptors
  <1>7. ClosedHandleUnused' /\ AssertsHold' /\ SnapshotsCurrent'
    BY <1>1, <1>2, <1>4, <1>6 DEF ClosedHandleUnused, AssertsHold, SnapshotsCurrent
  <1>8. fresh' \in Nat /\ fresh' >= fresh /\ rp'.chal < fresh' /\ rp'.user < fresh'
    BY <1>1, <1>2, <1>4 DEF RpData
  <1> QED
    BY <1>1, <1>4, <1>5, <1>7, <1>8, KeepsTables DEF IInv

(* A server-side request that cannot be built leaves nothing outstanding.   *)
LEMMA FailAuthRequestIInv ==
    ASSUME IInv, NEW c, FailAuthRequest(c)
    PROVE  IInv'
  <1>1. rp.state = "AUTH_INDICATION_SERVER_SIDE_RECEIVED"
    BY DEF FailAuthRequest
  <1>2. \/ rp' = [rp EXCEPT !.chal = fresh]
        \/ \E a \in Lists(rp.user, rp.rpId) : rp' = [rp EXCEPT !.chal = fresh, !.allow = a]
    BY Zenon DEF FailAuthRequest
  <1>3. fresh' = fresh + 1 /\ UNCHANGED <<episode, users, creds, accepted>>
    BY DEF FailAuthRequest
  <1>4. /\ rp \in RpData /\ rp.rpId \in Hosts /\ rp.kep = episode /\ rp.db # "closed"
        /\ fresh \in Nat /\ fresh > 0 /\ rp.user < fresh /\ rp.user # 0 /\ rp.key # NoKey
    BY <1>1 DEF IInv, RpTypeOK, FilledIn, Remembered, ClosedHandleUnused, AssertsHold
  <1>5. Lists(rp.user, rp.rpId) \subseteq SUBSET Nat
    BY ListsReturn
  <1>6. /\ rp' \in RpData /\ rp'.state = rp.state /\ rp'.chal = fresh /\ rp'.user = rp.user
        /\ rp'.key = rp.key /\ rp'.rpId = rp.rpId /\ rp'.kep = rp.kep /\ rp'.db = rp.db
    <2>1. CASE rp' = [rp EXCEPT !.chal = fresh]
      BY <1>4, <2>1 DEF RpData
    <2>2. ASSUME NEW a \in SUBSET Nat, rp' = [rp EXCEPT !.chal = fresh, !.allow = a]
          PROVE  /\ rp' \in RpData /\ rp'.state = rp.state /\ rp'.chal = fresh
                 /\ rp'.user = rp.user /\ rp'.key = rp.key /\ rp'.rpId = rp.rpId
                 /\ rp'.kep = rp.kep /\ rp'.db = rp.db
      BY <1>4, <2>2 DEF RpData
    <2> QED
      BY <1>2, <1>5, <2>1, <2>2
  <1>7. FilledIn' /\ AcceptedBefore'
    BY <1>1, <1>3, <1>4, <1>6 DEF IInv, FilledIn, AcceptedBefore, Outstanding
  <1>8. ClosedHandleUnused' /\ AssertsHold' /\ SnapshotsCurrent'
    BY <1>1, <1>4, <1>6 DEF ClosedHandleUnused, AssertsHold, SnapshotsCurrent
  <1>9. fresh' \in Nat /\ fresh' >= fresh /\ rp'.chal < fresh' /\ rp'.user < fresh'
    BY <1>3, <1>4, <1>6 DEF RpData
  <1> QED
    BY <1>3, <1>6, <1>7, <1>8, <1>9, KeepsTables DEF IInv

(* The server's callback on a CertificateRequest keeps the invariant.       *)
LEMMA AddCertificateRequestIInv ==
    ASSUME IInv, NEW c, AddCertificateRequest(c)
    PROVE  IInv'
  <1>1. CASE SendNothing(c) \/ RefuseCertificateRequest(c)
    BY <1>1, Idle DEF SendNothing, RefuseCertificateRequest, IInv, Remembered
  <1> QED
    BY <1>1, CreatePreResponseIInv, RegRequestIInv, CreateAuthRequestDiscoverableIInv,
       CreateAuthRequestServerSideIInv, FailAuthRequestIInv DEF AddCertificateRequest

-----------------------------------------------------------------------------
(* Certificate.                                                            *)

(* What add_creds makes of table users when the name is not taken: ids and *)
(* names stay unique.                                                      *)
LEMMA WithUserKeepsUnique ==
    ASSUME IInv, rp.state = "REG_REQUEST_SENT",
           AddsUser \/ users' = users
    PROVE  /\ users \subseteq users' /\ users' \subseteq UserRows
           /\ \A u \in users' : 0 < u.id /\ u.id < fresh
           /\ \A u, v \in users' : u.id = v.id \/ u.name = v.name => u = v
           /\ users' = WithUser => \E u \in users' : u.id = rp.user
  <1>1. /\ users \subseteq UserRows /\ \A u \in users : 0 < u.id /\ u.id < fresh
        /\ \A u, v \in users : u.id = v.id \/ u.name = v.name => u = v
        /\ fresh \in Nat
    BY DEF IInv, RpTypeOK, Remembered, DatabaseConsistent
  <1>2. rp.user \in Nat /\ rp.user # 0 /\ rp.user < fresh /\ rp.name \in Names
    BY DEF IInv, RpTypeOK, RpData, Remembered, FilledIn
  <1> DEFINE new == [id |-> rp.user, name |-> rp.name]
  <1>3. new \in UserRows /\ new.id = rp.user /\ new.name = rp.name
    BY <1>2 DEF UserRows
  <1>4. WithUser = IF \E u \in users : u.id = rp.user THEN users ELSE users \cup {new}
    BY DEF WithUser
  <1> HIDE DEF new
  <1>5. users' = WithUser => \E u \in users' : u.id = rp.user
    BY <1>3, <1>4
  <1>6. CASE users' = users
    BY <1>1, <1>5, <1>6
  <1>7. CASE users' = users \cup {new} /\ ~NameTaken /\ \A u \in users : u.id # rp.user
    <2>1. \A u \in users : u.name # rp.name
      BY <1>7 DEF NameTaken
    <2> QED
      BY <1>1, <1>2, <1>3, <1>5, <1>7, <2>1
  <1> QED
    BY <1>4, <1>6, <1>7 DEF AddsUser

(* An accepted registration adds one row and one acceptance that match.     *)
LEMMA ProcessRegResponseIInv ==
    ASSUME IInv, NEW c, NEW m, ResponseTyped(m), ProcessRegResponse(c, m)
    PROVE  IInv'
  <1> DEFINE row == [cred |-> m.cred, user |-> rp.user, rp |-> rp.rpId, count |-> m.count]
             acc == Acceptance("REG", m, rp.user)
  <1>1. /\ rp.state = "REG_REQUEST_SENT" /\ ~CredentialTaken(m.cred)
        /\ AddsUser /\ creds' = creds \cup {row} /\ accepted' = accepted \cup {acc}
        /\ rp' = [rp EXCEPT !.state = "REG_SUCCESS", !.chal = 0]
        /\ UNCHANGED <<fresh, episode>>
    BY DEF ProcessRegResponse
  <1>2. m.cred \in Nat /\ m.count \in Nat
    BY DEF ResponseTyped, IInv, Remembered, ProcessRegResponse
  <1>3. /\ rp \in RpData /\ rp.rpId \in Hosts /\ rp.kep = episode /\ rp.user < fresh
        /\ rp.user \in Nat /\ rp.chal \in Nat /\ rp.chal < fresh /\ fresh \in Nat /\ fresh > 0
        /\ episode \in 1 .. MaxEpisodes /\ rp.db # "closed"
    BY <1>1 DEF IInv, RpTypeOK, RpData, FilledIn, Remembered, ClosedHandleUnused
  <1>4. /\ row.cred = m.cred /\ row.user = rp.user /\ row.rp = rp.rpId /\ row \in CredRows
        /\ acc.episode = episode /\ acc.kind = "REG" /\ acc.chal = rp.chal /\ acc.cred = m.cred
        /\ acc.user = rp.user
        /\ acc \in [episode : 1 .. MaxEpisodes, kind : {"REG", "AUTH"},
                    chal : Nat, cred : Nat, user : Nat]
    BY <1>2, <1>3 DEF CredRows, Acceptance
  <1> HIDE DEF row, acc
  <1>5. /\ rp' \in RpData /\ rp'.state = "REG_SUCCESS" /\ rp'.chal = 0 /\ rp'.user = rp.user
        /\ rp'.rpId = rp.rpId /\ rp'.kep = rp.kep /\ rp'.db = rp.db
    BY <1>1, <1>3 DEF RpData, ServerStates
  <1>6. /\ users \subseteq users' /\ users' \subseteq UserRows
        /\ \A u \in users' : 0 < u.id /\ u.id < fresh
        /\ \A u, v \in users' : u.id = v.id \/ u.name = v.name => u = v
        /\ ReadFaults \/ \E u \in users' : u.id = rp.user
    BY <1>1, WithUserKeepsUnique DEF AddsUser
  <1>7. RpTypeOK'
    BY <1>1, <1>4, <1>5, <1>6 DEF IInv, RpTypeOK
  <1>8. Remembered'
    BY <1>1, <1>3, <1>4, <1>5, <1>6 DEF IInv, Remembered
  <1>9. FilledIn' /\ ClosedHandleUnused' /\ AssertsHold' /\ SnapshotsCurrent'
    BY <1>1, <1>3, <1>5 DEF FilledIn, ClosedHandleUnused, AssertsHold, SnapshotsCurrent
  <1>10. AcceptedBefore'
    BY <1>1, <1>3, <1>4, <1>5 DEF IInv, AcceptedBefore, Outstanding
  <1>11. DatabaseConsistent'
    <2>1. \A r \in creds : r.cred # m.cred
      BY <1>1 DEF CredentialTaken
    <2> QED
      BY <1>1, <1>4, <1>6, <2>1 DEF IInv, DatabaseConsistent, OwnersExist
  <1>12. AcceptedOnce'
    <2>1. \A x \in accepted : x.chal # acc.chal /\ x.episode # acc.episode
      BY <1>1, <1>4 DEF IInv, AcceptedBefore, Outstanding
    <2> QED
      BY <1>1, <2>1 DEF IInv, AcceptedOnce
  <1>13. LoginsAreEnrolled'
    BY <1>1, <1>4 DEF IInv, LoginsAreEnrolled
  <1> QED
    BY <1>7, <1>8, <1>9, <1>10, <1>11, <1>12, <1>13 DEF IInv

(* A new server process keeps nothing but what is in the tables.           *)
LEMMA NextProcessIInv ==
    ASSUME IInv, NextProcess, UNCHANGED <<fresh, creds, accepted>>,
           users \subseteq users', users' \subseteq UserRows,
           \A u \in users' : 0 < u.id /\ u.id < fresh,
           \A u, v \in users' : u.id = v.id \/ u.name = v.name => u = v
    PROVE  IInv'
  <1>1. /\ episode \in 1 .. MaxEpisodes /\ MaxEpisodes \in Nat /\ episode < MaxEpisodes
        /\ episode' = episode + 1
    BY RelyingPartyAssumption DEF NextProcess, IInv, RpTypeOK
  <1>2. rp' = [state |-> "NO_DATA", ceremony |-> "UNDEFINED", rpId |-> Null, kep |-> 0,
               key |-> NoKey, user |-> 0, name |-> Null, chal |-> 0, allow |-> {},
               db |-> "open"]
    BY DEF NextProcess, Blank
  <1>3. /\ rp' \in RpData /\ rp'.state = "NO_DATA" /\ rp'.chal = 0 /\ rp'.user = 0
        /\ rp'.db = "open"
    BY <1>2 DEF RpData, ServerStates, Ceremonies, GcmKeys, NoKey, GcmKey
  <1>4. RpTypeOK'
    BY <1>1, <1>3 DEF IInv, RpTypeOK
  <1>5. Remembered' /\ FilledIn'
    BY <1>3 DEF IInv, Remembered, FilledIn
  <1>6. AcceptedBefore'
    <2>1. \A x \in accepted : x.episode \in Nat /\ x.episode =< episode
      BY DEF IInv, RpTypeOK, AcceptedBefore
    <2> QED
      BY <1>1, <1>3, <2>1 DEF AcceptedBefore, Outstanding
  <1>7. DatabaseConsistent' /\ AcceptedOnce' /\ LoginsAreEnrolled'
    BY DEF IInv, DatabaseConsistent, OwnersExist, AcceptedOnce, LoginsAreEnrolled
  <1>8. ClosedHandleUnused' /\ AssertsHold' /\ SnapshotsCurrent'
    BY <1>3 DEF ClosedHandleUnused, AssertsHold, SnapshotsCurrent
  <1> QED
    BY <1>4, <1>5, <1>6, <1>7, <1>8 DEF IInv

(* add_creds fails half way or before it has begun: the tables stay        *)
(* consistent, and the handle that is closed is not used again.            *)
LEMMA FailAddCredsIInv ==
    ASSUME IInv, NEW c, NEW m, FailAddCreds(c, m)
    PROVE  IInv'
  <1>1. /\ rp.state = "REG_REQUEST_SENT" /\ UNCHANGED <<fresh, creds, accepted>>
        /\ AddsUser \/ users' = users
    BY DEF FailAddCreds
  <1>2. /\ users \subseteq users' /\ users' \subseteq UserRows
        /\ \A u \in users' : 0 < u.id /\ u.id < fresh
        /\ \A u, v \in users' : u.id = v.id \/ u.name = v.name => u = v
    BY <1>1, WithUserKeepsUnique
  <1>3. CASE NextProcess
    BY <1>1, <1>2, <1>3, NextProcessIInv
  <1>4. CASE rp' = [rp EXCEPT !.state = "REG_FAILURE", !.db = "closed"] /\ UNCHANGED episode
    <2>1. /\ rp \in RpData /\ rp.rpId \in Hosts /\ rp.kep = episode
          /\ \A x \in accepted : x.episode # episode
      BY <1>1 DEF IInv, RpTypeOK, FilledIn, AcceptedBefore
    <2>2. /\ rp' \in RpData /\ rp'.state = "REG_FAILURE" /\ rp'.chal = rp.chal
          /\ rp'.user = rp.user /\ rp'.rpId = rp.rpId /\ rp'.kep = rp.kep
      BY <1>4, <2>1 DEF RpData, ServerStates
    <2>3. RpTypeOK'
      BY <1>1, <1>2, <1>4, <2>2 DEF IInv, RpTypeOK
    <2>4. Remembered' /\ FilledIn' /\ AcceptedBefore'
      BY <1>1, <1>2, <1>4, <2>1, <2>2 DEF IInv, Remembered, FilledIn, AcceptedBefore, Outstanding
    <2>5. DatabaseConsistent' /\ AcceptedOnce' /\ LoginsAreEnrolled'
      BY <1>1, <1>2 DEF IInv, DatabaseConsistent, OwnersExist, AcceptedOnce, LoginsAreEnrolled
    <2>6. ClosedHandleUnused' /\ AssertsHold' /\ SnapshotsCurrent'
      BY <2>2 DEF ClosedHandleUnused, AssertsHold, SnapshotsCurrent
    <2> QED
      BY <2>3, <2>4, <2>5, <2>6 DEF IInv
  <1> QED
    BY <1>3, <1>4 DEF FailAddCreds

(* A restart of the server process keeps the invariant.                     *)
LEMMA RestartServerIInv ==
    ASSUME IInv, RestartServer
    PROVE  IInv'
  <1>1. /\ users \subseteq UserRows /\ \A u \in users : 0 < u.id /\ u.id < fresh
        /\ \A u, v \in users : u.id = v.id \/ u.name = v.name => u = v
    BY DEF IInv, RpTypeOK, Remembered, DatabaseConsistent
  <1> QED
    BY <1>1, NextProcessIInv DEF RestartServer

(* The refusals of a response end the ceremony.                            *)
LEMMA RefusedResponseIInv ==
    ASSUME IInv, NEW c, NEW m,
           \/ RejectRegResponse(c, m) \/ FailUpdateSignCount(c, m)
           \/ RejectAuthResponse(c, m) \/ RejectUnknownCredential(c, m) \/ RejectStoredKey(c, m)
    PROVE  IInv'
  <1>1. /\ Outstanding(rp.state) /\ UNCHANGED <<fresh, episode, users, creds, accepted>>
        /\ \E s \in {"REG_FAILURE", "AUTH_FAILURE"}, d \in {"closed", rp.db} :
             rp' = [rp EXCEPT !.state = s, !.db = d]
    <2>1. CASE RejectRegResponse(c, m)
      <3>1. rp' = [rp EXCEPT !.state = "REG_FAILURE", !.db = rp.db]
        BY <2>1 DEF RejectRegResponse, IInv, RpTypeOK, RpData
      <3> QED
        BY <2>1, <3>1 DEF RejectRegResponse, Outstanding
    <2>2. CASE FailUpdateSignCount(c, m)
      BY <2>2, Zenon DEF FailUpdateSignCount, Outstanding
    <2>3. CASE RejectAuthResponse(c, m)
      <3>1. rp' = [rp EXCEPT !.state = "AUTH_FAILURE", !.db = rp.db]
        BY <2>3 DEF RejectAuthResponse, IInv, RpTypeOK, RpData
      <3> QED
        BY <2>3, <3>1 DEF RejectAuthResponse, Outstanding
    <2>4. CASE RejectUnknownCredential(c, m)
      BY <2>4, Zenon DEF RejectUnknownCredential, Outstanding
    <2>5. CASE RejectStoredKey(c, m)
      BY <2>5, Zenon DEF RejectStoredKey, Outstanding
    <2> QED
      BY <2>1, <2>2, <2>3, <2>4, <2>5
  <1>2. /\ rp \in RpData /\ rp.rpId \in Hosts /\ rp.kep = episode
        /\ fresh \in Nat /\ rp.chal < fresh /\ rp.user < fresh
    BY <1>1 DEF IInv, RpTypeOK, FilledIn, Remembered, Outstanding
  <1>3. /\ rp' \in RpData /\ rp'.state \in {"REG_FAILURE", "AUTH_FAILURE"}
        /\ rp'.chal = rp.chal /\ rp'.user = rp.user /\ rp'.rpId = rp.rpId /\ rp'.kep = rp.kep
    BY <1>1, <1>2 DEF RpData, ServerStates
  <1> QED
    BY <1>1, <1>2, <1>3, ComesToRest DEF AtRest, Outstanding

(* What an accepted login makes of table credentials: one row has its      *)
(* counter raised, and the others stay.                                    *)
LEMMA LoginRaisesOneCounter ==
    ASSUME IInv, NEW c, NEW m, ResponseTyped(m), ProcessAuthResponse(c, m)
    PROVE  \E row \in creds :
             LET raised == [row EXCEPT !.count = m.count]
             IN  /\ row.cred = m.cred /\ m.count > row.count
                 /\ raised \in CredRows
                 /\ raised.cred = row.cred /\ raised.user = row.user /\ raised.rp = row.rp
                 /\ raised.count = m.count
                 /\ creds' = (creds \ {row}) \cup {raised}
                 /\ accepted' = accepted \cup {Acceptance("AUTH", m, row.user)}
  <1>1. PICK u \in Owners(m) : \E row \in CredentialRows(u, m.cred) :
            /\ AuthResponseVerifies(m, row)
            /\ creds' = {IF r.cred = m.cred THEN [r EXCEPT !.count = m.count] ELSE r : r \in creds}
            /\ accepted' = accepted \cup {Acceptance("AUTH", m, u)}
    BY DEF ProcessAuthResponse
  <1>2. PICK row \in creds :
            /\ row.cred = m.cred /\ row.user = u /\ m.count > row.count
            /\ creds' = {IF r.cred = m.cred THEN [r EXCEPT !.count = m.count] ELSE r : r \in creds}
            /\ accepted' = accepted \cup {Acceptance("AUTH", m, row.user)}
    BY <1>1 DEF CredentialRows, AuthResponseVerifies
  <1>3. m.count \in Nat /\ row \in CredRows
    BY <1>2 DEF ResponseTyped, IInv, RpTypeOK, Remembered, ProcessAuthResponse
  <1> DEFINE raised == [row EXCEPT !.count = m.count]
  <1>4. /\ raised \in CredRows
        /\ raised.cred = row.cred /\ raised.user = row.user /\ raised.rp = row.rp
        /\ raised.count = m.count
    BY <1>3 DEF CredRows
  <1>5. \A r \in creds : r.cred = m.cred <=> r = row
    BY <1>2 DEF IInv, DatabaseConsistent
  <1>6. creds' = {IF r = row THEN raised ELSE r : r \in creds}
    BY <1>2, <1>5
  <1>7. creds' = (creds \ {row}) \cup {raised}
    <2> HIDE DEF raised
    <2> QED
      BY <1>2, <1>6
  <1> QED
    BY <1>2, <1>4, <1>7

(* An accepted login keeps every row and its owner.                         *)
LEMMA ProcessAuthResponseIInv ==
    ASSUME IInv, NEW c, NEW m, ResponseTyped(m), ProcessAuthResponse(c, m)
    PROVE  IInv'
  <1>1. PICK row \in creds, raised \in CredRows :
            /\ row.cred = m.cred
            /\ raised.cred = row.cred /\ raised.user = row.user /\ raised.rp = row.rp
            /\ creds' = (creds \ {row}) \cup {raised}
            /\ accepted' = accepted \cup {Acceptance("AUTH", m, row.user)}
    BY LoginRaisesOneCounter, ZenonT(40)
  <1> DEFINE acc == Acceptance("AUTH", m, row.user)
  <1>2. /\ rp.state = "AUTH_REQUEST_SENT" /\ rp' = [rp EXCEPT !.state = "AUTH_SUCCESS"]
        /\ UNCHANGED <<fresh, episode, users>>
    BY DEF ProcessAuthResponse
  <1>3. /\ rp \in RpData /\ rp.rpId \in Hosts /\ rp.kep = episode /\ rp.chal \in Nat
        /\ rp.chal < fresh /\ episode \in 1 .. MaxEpisodes /\ rp.db # "closed"
        /\ creds \subseteq CredRows
    BY <1>2 DEF IInv, RpTypeOK, RpData, FilledIn, Remembered, ClosedHandleUnused
  <1>4. /\ acc.episode = episode /\ acc.chal = rp.chal /\ acc.kind = "AUTH"
        /\ acc.cred = row.cred /\ acc.user = row.user
        /\ acc \in [episode : 1 .. MaxEpisodes, kind : {"REG", "AUTH"},
                    chal : Nat, cred : Nat, user : Nat]
    BY <1>1, <1>3 DEF Acceptance, CredRows
  <1>5. accepted' = accepted \cup {acc}
    BY <1>1
  <1> HIDE DEF acc
  <1>6. /\ rp' \in RpData /\ rp'.state = "AUTH_SUCCESS" /\ rp'.chal = rp.chal
        /\ rp'.user = rp.user /\ rp'.rpId = rp.rpId /\ rp'.kep = rp.kep /\ rp'.db = rp.db
    BY <1>2, <1>3 DEF RpData, ServerStates
  <1>7. RpTypeOK'
    BY <1>1, <1>2, <1>3, <1>4, <1>5, <1>6 DEF IInv, RpTypeOK
  <1>8. Remembered'
    BY <1>2, <1>3, <1>4, <1>5, <1>6 DEF IInv, Remembered
  <1>9. FilledIn' /\ ClosedHandleUnused' /\ AssertsHold' /\ SnapshotsCurrent'
    BY <1>2, <1>3, <1>6 DEF FilledIn, ClosedHandleUnused, AssertsHold, SnapshotsCurrent
  <1>10. AcceptedBefore'
    BY <1>2, <1>3, <1>4, <1>5, <1>6 DEF IInv, AcceptedBefore, Outstanding
  <1>11. DatabaseConsistent'
    BY <1>1, <1>2 DEF IInv, DatabaseConsistent, OwnersExist
  <1>12. AcceptedOnce'
    <2>1. \A x \in accepted : x.chal # acc.chal /\ x.episode # acc.episode
      BY <1>2, <1>4 DEF IInv, AcceptedBefore, Outstanding
    <2> QED
      BY <1>5, <2>1 DEF IInv, AcceptedOnce
  <1>13. LoginsAreEnrolled'
    <2>1. \A r \in creds : \E s \in creds' : s.cred = r.cred /\ s.user = r.user
      BY <1>1
    <2>2. \A s \in creds' : \E r \in creds : s.cred = r.cred /\ s.user = r.user
      BY <1>1
    <2>3. \A x \in accepted : \E r \in creds' : r.cred = x.cred /\ r.user = x.user
      BY <2>1 DEF IInv, LoginsAreEnrolled
    <2>4. \E r \in creds' : r.cred = acc.cred /\ r.user = acc.user
      BY <1>1, <1>4
    <2>5. \A s \in creds' : \E x \in accepted :
             x.kind = "REG" /\ x.cred = s.cred /\ x.user = s.user
      BY <2>2 DEF IInv, LoginsAreEnrolled
    <2> QED
      BY <1>5, <2>3, <2>4, <2>5 DEF LoginsAreEnrolled
  <1> QED
    BY <1>7, <1>8, <1>9, <1>10, <1>11, <1>12, <1>13 DEF IInv

(* The server's callback on a Certificate keeps the invariant.              *)
LEMMA ParseCertificateIInv ==
    ASSUME IInv, NEW c, NEW m, ResponseTyped(m), ParseCertificate(c, m)
    PROVE  IInv'
  <1>1. CASE AcceptPlainCertificate(c, m)
    BY <1>1, Idle DEF AcceptPlainCertificate, IInv, Remembered
  <1> QED
    BY <1>1, RefusedIInv, ProcessRegResponseIInv, RefusedResponseIInv, FailAddCredsIInv,
       ProcessAuthResponseIInv DEF ParseCertificate

-----------------------------------------------------------------------------
(* The theorems.                                                           *)

(* Every step keeps the invariant.                                         *)
LEMMA NextIInv == IInv /\ [RpNext]_serverVars => IInv'
  <1> SUFFICES ASSUME IInv, [RpNext]_serverVars
               PROVE  IInv'
    OBVIOUS
  <1>1. CASE UNCHANGED serverVars
    BY <1>1, Idle DEF serverVars, IInv, Remembered
  <1>2. ASSUME NEW c \in Clients, Hello(c)
        PROVE  IInv'
    BY <1>2, ParseClientHelloIInv, HelloTypes DEF Hello, IInv, Remembered
  <1>3. ASSUME NEW c \in Clients, AddCertificateRequest(c)
        PROVE  IInv'
    BY <1>3, AddCertificateRequestIInv
  <1>4. ASSUME NEW c \in Clients, Certificate(c)
        PROVE  IInv'
    BY <1>4, ParseCertificateIInv, ResponseTypes DEF Certificate, IInv, Remembered
  <1>5. ASSUME NEW c \in Clients, Drop(c) /\ UNCHANGED rpVars
        PROVE  IInv'
    BY <1>5, Idle DEF Drop, IInv, Remembered
  <1>6. CASE RestartServer
    BY <1>6, RestartServerIInv
  <1> QED
    BY <1>1, <1>2, <1>3, <1>4, <1>5, <1>6 DEF RpNext

(* IInv holds in every state the server reaches, whatever the clients      *)
(* send, on however many connections, and however often it restarts.       *)
THEOREM InductiveInvariant == RpSpec => []IInv
  BY InitIInv, NextIInv, PTL DEF RpSpec

(* rp_data, the two tables and the history keep their shape.               *)
THEOREM TypeCorrect == RpSpec => []RpTypeOK
  BY InductiveInvariant, PTL DEF IInv

(* Ids, names and credential ids stay unique and every credential has an   *)
(* owner unless a SELECT fails, although add_creds is no transaction.      *)
THEOREM DatabaseStaysConsistent == RpSpec => []DatabaseConsistent
  BY InductiveInvariant, PTL DEF IInv

(* No callback uses the database handle after an error path has closed it. *)
THEOREM ClosedHandleNotUsed == RpSpec => []ClosedHandleUnused
  BY InductiveInvariant, PTL DEF IInv

(* No accepted challenge is accepted a second time, and a server process   *)
(* accepts one ceremony.                                                   *)
THEOREM NoReplay == RpSpec => []AcceptedOnce
  BY InductiveInvariant, PTL DEF IInv

(* A login is for a credential that the same user has enrolled.            *)
THEOREM NoLoginWithoutEnrolment == RpSpec => []LoginsAreEnrolled
  BY InductiveInvariant, PTL DEF IInv

(* The callbacks' assertions and unchecked uses are in order.              *)
THEOREM AssertionsHold == RpSpec => []AssertsHold
  BY InductiveInvariant, PTL DEF IInv

(* User id and allow list are still right when the response arrives,       *)
(* unless a SELECT has failed.                                             *)
THEOREM SnapshotsStayCurrent == RpSpec => []SnapshotsCurrent
  BY InductiveInvariant, PTL DEF IInv

-----------------------------------------------------------------------------
(* Action property and refinement.                                         *)

(* No row is lost, given to somebody else, or set back.                     *)
RowsKept ==
    \A r \in creds : \E s \in creds' :
      s.cred = r.cred /\ s.user = r.user /\ s.rp = r.rp /\ s.count >= r.count

(* That holds of a step that leaves the rows alone.                         *)
LEMMA SameRowsKept ==
    ASSUME IInv, UNCHANGED creds
    PROVE  RowsKept
  <1>1. \A r \in creds : r.count \in Nat
    BY DEF IInv, RpTypeOK, CredRows
  <1> QED
    BY <1>1 DEF RowsKept

(* A ClientHello does not touch credentials and history ...                 *)
LEMMA HelloKeepsTables ==
    ASSUME NEW c, NEW m, ParseClientHello(c, m)
    PROVE  UNCHANGED <<users, creds, accepted>>
  BY DEF ParseClientHello, ParseNoIndication, ProcessPreIndication,
     ProcessRegIndication, RejectRegIndication, ProcessAuthIndicationDiscoverable,
     ProcessAuthIndicationServerSide, RejectAuthIndicationServerSide, RefuseIndication, rpVars

(* ... nor does a CertificateRequest.                                       *)
LEMMA RequestKeepsTables ==
    ASSUME NEW c, AddCertificateRequest(c)
    PROVE  UNCHANGED <<users, creds, accepted>>
  BY DEF AddCertificateRequest, SendNothing, CreatePreResponse, CreateRegRequest,
     FailRegRequest, CreateAuthRequestDiscoverable, CreateAuthRequestServerSide,
     FailAuthRequest, RefuseCertificateRequest, rpVars

(* What a Certificate can do to the credentials and to the history.         *)
LEMMA ResponseChangesCreds ==
    ASSUME NEW c, NEW m, ParseCertificate(c, m)
    PROVE  \/ UNCHANGED <<creds, accepted>>
           \/ ProcessRegResponse(c, m) \/ ProcessAuthResponse(c, m)
  BY DEF ParseCertificate, RejectRegResponse, FailAddCreds, FailUpdateSignCount,
     RejectAuthResponse, RejectUnknownCredential, RejectStoredKey, RefuseCertificate, AcceptPlainCertificate,
     rpVars

(* A Certificate loses no row.                                              *)
LEMMA ResponseKeepsRows ==
    ASSUME IInv, NEW c, NEW m, ResponseTyped(m), ParseCertificate(c, m)
    PROVE  RowsKept
  <1>1. \A r \in creds : r.count \in Nat
    BY DEF IInv, RpTypeOK, CredRows
  <1>2. CASE UNCHANGED creds
    BY <1>2, SameRowsKept
  <1>3. CASE ProcessRegResponse(c, m)
    BY <1>1, <1>3 DEF ProcessRegResponse, RowsKept
  <1>4. CASE ProcessAuthResponse(c, m)
    <2>1. PICK row \in creds, raised \in CredRows :
              /\ raised.cred = row.cred /\ raised.user = row.user /\ raised.rp = row.rp
              /\ raised.count > row.count
              /\ creds' = (creds \ {row}) \cup {raised}
      BY <1>4, LoginRaisesOneCounter
    <2> QED
      BY <1>1, <2>1 DEF CredRows, RowsKept
  <1> QED
    BY <1>2, <1>3, <1>4, ResponseChangesCreds

(* No step loses a credential, gives it to somebody else or lowers its     *)
(* signature counter.                                                      *)
LEMMA StepKeepsCounters ==
    ASSUME IInv, [RpNext]_serverVars
    PROVE  RowsKept
  <1>1. CASE UNCHANGED serverVars
    BY <1>1, SameRowsKept DEF serverVars, rpVars
  <1>2. CASE \E c \in Clients : Hello(c)
    BY <1>2, SameRowsKept, HelloKeepsTables DEF Hello
  <1>3. CASE \E c \in Clients : AddCertificateRequest(c)
    BY <1>3, SameRowsKept, RequestKeepsTables
  <1>4. CASE \E c \in Clients : Certificate(c)
    BY <1>4, ResponseKeepsRows, ResponseTypes DEF Certificate, IInv, Remembered
  <1>5. CASE RestartServer \/ UNCHANGED rpVars
    BY <1>5, SameRowsKept DEF RestartServer, rpVars
  <1> QED
    BY <1>1, <1>2, <1>3, <1>4, <1>5 DEF RpNext

(* Credential rows persist and their signature counters never go down.      *)
THEOREM CountersNeverDecrease == RpSpec => SignCountNeverDecreases
  BY StepKeepsCounters, InductiveInvariant, PTL DEF RpSpec, SignCountNeverDecreases, RowsKept

-----------------------------------------------------------------------------
(* The refinement.                                                         *)

Spent == {x.chal : x \in accepted}

(* A step that keeps tables and history and neither sends a request nor    *)
(* ends one is a stutter of the service; one that ends a request withdraws *)
(* the challenge.                                                          *)
LEMMA Quiet ==
    ASSUME UNCHANGED <<creds, accepted>>, ~Outstanding(rp'.state)
    PROVE  Service!Withdraw \/ UNCHANGED Service!vars
  BY DEF Service!Withdraw, Service!vars, Outstanding

(* A request that is sent issues a challenge nobody has seen.              *)
LEMMA RequestIssues ==
    ASSUME IInv, UNCHANGED <<creds, accepted>>, Outstanding(rp'.state), rp'.chal = fresh
    PROVE  Service!Issue
  <1>1. fresh \in Nat \ {0} /\ \A x \in accepted : x.chal # fresh
    BY DEF IInv, RpTypeOK, Remembered
  <1> QED
    BY <1>1 DEF Service!Issue, Outstanding

(* A registration that is accepted is an Enrol step of the service.         *)
LEMMA RegistrationEnrols ==
    ASSUME IInv, NEW c, NEW m, ResponseTyped(m), ProcessRegResponse(c, m)
    PROVE  Service!Enrol
  <1> DEFINE row == [cred |-> m.cred, user |-> rp.user, rp |-> rp.rpId, count |-> m.count]
             acc == Acceptance("REG", m, rp.user)
  <1>1. /\ rp.state = "REG_REQUEST_SENT" /\ ~CredentialTaken(m.cred)
        /\ creds' = creds \cup {row} /\ accepted' = accepted \cup {acc}
        /\ rp' = [rp EXCEPT !.state = "REG_SUCCESS", !.chal = 0]
    BY DEF ProcessRegResponse
  <1>2. acc.chal = rp.chal /\ row.cred = m.cred
    BY DEF Acceptance
  <1> HIDE DEF row, acc
  <1>3. rp.chal # 0 /\ \A x \in accepted : x.chal # rp.chal
    BY <1>1 DEF IInv, AssertsHold, AcceptedBefore, Outstanding
  <1>4. rp'.state = "REG_SUCCESS"
    BY <1>1 DEF IInv, RpTypeOK, RpData
  <1>5. Spent' = Spent \cup {rp.chal}
    BY <1>1, <1>2 DEF Spent
  <1>6. Service!Spend
    BY <1>1, <1>3, <1>4, <1>5 DEF Service!Spend, Outstanding, Spent
  <1>7. \A r \in creds : r.cred # row.cred
    BY <1>1, <1>2 DEF CredentialTaken
  <1> QED
    BY <1>1, <1>6, <1>7 DEF Service!Enrol

(* A login that is accepted is a Login step of the service.                 *)
LEMMA AuthenticationLogsIn ==
    ASSUME IInv, NEW c, NEW m, ResponseTyped(m), ProcessAuthResponse(c, m)
    PROVE  Service!Login
  <1>1. /\ rp.state = "AUTH_REQUEST_SENT" /\ rp' = [rp EXCEPT !.state = "AUTH_SUCCESS"]
    BY DEF ProcessAuthResponse
  <1>2. PICK row \in creds :
            LET raised == [row EXCEPT !.count = m.count]
            IN  /\ m.count > row.count /\ raised.count = m.count
                /\ creds' = (creds \ {row}) \cup {raised}
                /\ accepted' = accepted \cup {Acceptance("AUTH", m, row.user)}
    BY LoginRaisesOneCounter, ZenonT(40)
  <1> DEFINE raised == [row EXCEPT !.count = m.count]
             acc == Acceptance("AUTH", m, row.user)
  <1>3. acc.chal = rp.chal
    BY DEF Acceptance
  <1>4. raised \in creds' /\ raised = [row EXCEPT !.count = raised.count]
    BY <1>2
  <1> HIDE DEF acc
  <1>5. rp.chal # 0 /\ \A x \in accepted : x.chal # rp.chal
    BY <1>1 DEF IInv, AssertsHold, AcceptedBefore, Outstanding
  <1>6. rp'.state = "AUTH_SUCCESS"
    BY <1>1 DEF IInv, RpTypeOK, RpData
  <1>7. Spent' = Spent \cup {rp.chal}
    BY <1>2, <1>3 DEF Spent, acc
  <1>8. Service!Spend
    BY <1>1, <1>5, <1>6, <1>7 DEF Service!Spend, Outstanding, Spent
  <1> QED
    BY <1>2, <1>4, <1>8 DEF Service!Login

(* A message that is refused at once changes nothing the service shows.     *)
LEMMA RefusedStutters ==
    ASSUME IInv, NEW c, NEW m, RefuseIndication(c, m) \/ RefuseCertificate(c, m)
    PROVE  Service!Withdraw \/ UNCHANGED Service!vars
  <1>1. rp' \in GetRpData /\ UNCHANGED <<creds, accepted>>
    BY DEF RefuseIndication, RefuseCertificate
  <1>2. rp' = rp \/ rp'.state = "INITIAL"
    BY <1>1, GetRpDataReturns
  <1>3. CASE UNCHANGED rp
    BY <1>1, <1>3 DEF Service!vars
  <1> QED
    BY <1>1, <1>2, <1>3, Quiet DEF Outstanding

(* No ClientHello changes what the service shows.                           *)
LEMMA HelloStutters ==
    ASSUME IInv, NEW c, NEW m, HelloTyped(m), ParseClientHello(c, m)
    PROVE  Service!Withdraw \/ UNCHANGED Service!vars
  <1>2. UNCHANGED <<creds, accepted>>
    BY DEF ParseClientHello, ParseNoIndication, ProcessPreIndication,
       ProcessRegIndication, RejectRegIndication, ProcessAuthIndicationDiscoverable,
       ProcessAuthIndicationServerSide, RejectAuthIndicationServerSide, RefuseIndication, rpVars
  <1>3. rp \in RpData
    BY DEF IInv, RpTypeOK
  <1>4. CASE ParseNoIndication(c, m)
    BY <1>4 DEF ParseNoIndication, rpVars, Service!vars
  <1>5. CASE ProcessPreIndication(c, m) \/ ProcessAuthIndicationDiscoverable(c, m)
    <2>1. PICK d \in GetRpData :
              \/ rp' = [d EXCEPT !.state = "PRE_INDICATION_RECEIVED"]
              \/ rp' = [d EXCEPT !.state = "AUTH_INDICATION_DISCOVERABLE_RECEIVED",
                                 !.ceremony = "AUTH_DISCOVERABLE"]
      BY <1>5 DEF ProcessPreIndication, ProcessAuthIndicationDiscoverable
    <2>2. ~Outstanding(rp'.state)
      BY <2>1, GetRpDataReturns DEF RpData, Outstanding
    <2> QED
      BY <1>2, <2>2, Quiet
  <1>6. CASE ProcessRegIndication(c, m) \/ ProcessAuthIndicationServerSide(c, m)
    <2>1. rp'.state \in {"REG_INDICATION_RECEIVED", "AUTH_INDICATION_SERVER_SIDE_RECEIVED"}
      BY <1>3, <1>6 DEF ProcessRegIndication, ProcessAuthIndicationServerSide, RpData
    <2> QED
      BY <1>2, <2>1, Quiet DEF Outstanding
  <1>7. CASE RejectRegIndication(c, m) \/ RejectAuthIndicationServerSide(c, m)
    <2>1. rp'.state = "PRE_RESPONSE_SENT"
      BY <1>3, <1>7 DEF RejectRegIndication, RejectAuthIndicationServerSide, RpData
    <2> QED
      BY <1>2, <2>1, Quiet DEF Outstanding
  <1>8. CASE RefuseIndication(c, m)
    BY <1>8, RefusedStutters
  <1> QED
    BY <1>4, <1>5, <1>6, <1>7, <1>8 DEF ParseClientHello

(* A CertificateRequest issues a challenge or changes nothing.              *)
LEMMA RequestStep ==
    ASSUME IInv, NEW c, AddCertificateRequest(c)
    PROVE  Service!Issue \/ Service!Withdraw \/ UNCHANGED Service!vars
  <1>1. rp \in RpData
    BY DEF IInv, RpTypeOK
  <1>2. CASE SendNothing(c) \/ RefuseCertificateRequest(c)
    BY <1>2 DEF SendNothing, RefuseCertificateRequest, rpVars, Service!vars
  <1>3. CASE CreatePreResponse(c) \/ FailRegRequest(c) \/ FailAuthRequest(c)
    <2>1. ~Outstanding(rp'.state) /\ UNCHANGED <<creds, accepted>>
      <3>1. CASE CreatePreResponse(c)
        BY <1>1, <3>1 DEF CreatePreResponse, RpData, Outstanding
      <3>2. CASE FailRegRequest(c)
        BY <1>1, <3>2 DEF FailRegRequest, RpData, Outstanding
      <3>3. CASE FailAuthRequest(c)
        BY <1>1, <3>3 DEF FailAuthRequest, RpData, Outstanding
      <3> QED
        BY <1>3, <3>1, <3>2, <3>3
    <2> QED
      BY <2>1, Quiet
  <1>4. CASE CreateRegRequest(c) \/ CreateAuthRequestDiscoverable(c)
             \/ CreateAuthRequestServerSide(c)
    <2>1. Outstanding(rp'.state) /\ rp'.chal = fresh /\ UNCHANGED <<creds, accepted>>
      BY <1>1, <1>4 DEF CreateRegRequest, CreateAuthRequestDiscoverable,
         CreateAuthRequestServerSide, RpData, Outstanding
    <2> QED
      BY <2>1, RequestIssues
  <1> QED
    BY <1>2, <1>3, <1>4 DEF AddCertificateRequest

(* A restart withdraws the outstanding challenge, if there is one.          *)
LEMMA NextProcessWithdraws ==
    ASSUME NextProcess, UNCHANGED <<creds, accepted>>
    PROVE  Service!Withdraw \/ UNCHANGED Service!vars
  <1>1. rp'.state = "NO_DATA"
    BY DEF NextProcess, Blank
  <1> QED
    BY <1>1, Quiet DEF Outstanding

(* A Certificate enrols, logs in, withdraws or changes nothing.             *)
LEMMA ResponseStep ==
    ASSUME IInv, NEW c, NEW m, ResponseTyped(m), ParseCertificate(c, m)
    PROVE  Service!Next \/ UNCHANGED Service!vars
  <1>1. rp \in RpData
    BY DEF IInv, RpTypeOK
  <1>2. CASE RefuseCertificate(c, m) \/ AcceptPlainCertificate(c, m)
    BY <1>2, RefusedStutters DEF AcceptPlainCertificate, rpVars, Service!vars, Service!Next
  <1>3. CASE \/ RejectRegResponse(c, m) \/ FailUpdateSignCount(c, m)
             \/ RejectAuthResponse(c, m) \/ RejectUnknownCredential(c, m) \/ RejectStoredKey(c, m)
    <2>1. ~Outstanding(rp'.state) /\ UNCHANGED <<creds, accepted>>
      BY <1>1, <1>3 DEF RejectRegResponse, FailUpdateSignCount, RejectAuthResponse,
         RejectUnknownCredential, RejectStoredKey, RpData, Outstanding
    <2> QED
      BY <2>1, Quiet DEF Service!Next
  <1>4. CASE FailAddCreds(c, m)
    <2>1. CASE NextProcess
      BY <1>4, <2>1, NextProcessWithdraws DEF FailAddCreds, Service!Next
    <2>2. CASE rp' = [rp EXCEPT !.state = "REG_FAILURE", !.db = "closed"]
      <3>1. ~Outstanding(rp'.state)
        BY <1>1, <2>2 DEF RpData, Outstanding
      <3> QED
        BY <1>4, <3>1, Quiet DEF FailAddCreds, Service!Next
    <2> QED
      BY <1>4, <2>1, <2>2 DEF FailAddCreds
  <1>5. CASE ProcessRegResponse(c, m)
    BY <1>5, RegistrationEnrols DEF Service!Next
  <1>6. CASE ProcessAuthResponse(c, m)
    BY <1>6, AuthenticationLogsIn DEF Service!Next
  <1> QED
    BY <1>2, <1>3, <1>4, <1>5, <1>6 DEF ParseCertificate

(* Every step of the server is a step of the service, or stutters.          *)
LEMMA ServiceStep == IInv /\ [RpNext]_serverVars => [Service!Next]_(Service!vars)
  <1> SUFFICES ASSUME IInv, [RpNext]_serverVars
               PROVE  Service!Next \/ UNCHANGED Service!vars
    OBVIOUS
  <1>1. CASE UNCHANGED serverVars \/ \E c \in Clients : Drop(c) /\ UNCHANGED rpVars
    BY <1>1 DEF serverVars, rpVars, Service!vars
  <1>2. CASE \E c \in Clients : Hello(c)
    BY <1>2, HelloStutters, HelloTypes DEF Hello, Service!Next, IInv, Remembered
  <1>3. CASE \E c \in Clients : AddCertificateRequest(c)
    BY <1>3, RequestStep DEF Service!Next
  <1>4. CASE \E c \in Clients : Certificate(c)
    BY <1>4, ResponseStep, ResponseTypes DEF Certificate, IInv, Remembered
  <1>5. CASE RestartServer
    BY <1>5, NextProcessWithdraws DEF RestartServer, Service!Next
  <1> QED
    BY <1>1, <1>2, <1>3, <1>4, <1>5 DEF RpNext

(* The server starts as the service does.                                   *)
LEMMA ServiceInit == RpStart => Service!Init
  BY DEF RpStart, RpInit, Blank, Outstanding, Service!Init

(* The server, with its callbacks, shared state, failures and restarts,    *)
(* implements the account service.                                         *)
THEOREM Implements == RpSpec => ImplementsAccountService
  BY ServiceInit, ServiceStep, InductiveInvariant, PTL
     DEF RpSpec, ImplementsAccountService, Service!Spec

-----------------------------------------------------------------------------
(***************************************************************************)
(* The client against every server.                                        *)
(***************************************************************************)
(* The shape of one client's ud_data, as UdTypeOK has it.                  *)
UdRecord ==
    [state : ClientStates, ceremony : Ceremonies, name : Names \cup {Null},
     ticket : Tickets \cup {Null}, host : Hosts, eph : Nat, key : GcmKeys, chal : Nat,
     rpId : Hosts \cup {Null}, user : Nat, exclude : SUBSET Nat, allow : SUBSET Nat,
     cred : Nat, uses : Nat]

(* The clients other than c stay as they are.                              *)
OthersStay(c) ==
    /\ ud' = [ud EXCEPT ![c] = ud'[c]]
    /\ conn' = [conn EXCEPT ![c] = conn'[c]]

(* What a step of client c has to do to keep the invariant.                *)
LEMMA StepOf ==
    ASSUME UdIInv, NEW c \in Clients, OthersStay(c),
           ud'[c] \in UdRecord, fresh' \in Nat, launches' \in 0 .. MaxLaunches,
           dev' \in [Devices -> SUBSET DeviceCreds],
           ud'[c].uses = 0 \/ (ud'[c].uses = 1 /\ Done(c)')
    PROVE  UdIInv'
  <1>1. UdTypeOK'
    BY DEF UdIInv, UdTypeOK, UdRecord, OthersStay
  <1>2. conn' = [x \in Clients |-> conn'[x]]
    BY DEF UdIInv, OthersStay
  <1>3. ASSUME NEW x \in Clients
        PROVE  ud'[x].uses = 0 \/ (ud'[x].uses = 1 /\ Done(x)')
    <2>1. CASE x = c
      BY <2>1
    <2>2. CASE x # c
      <3>1. ud'[x] = ud[x] /\ conn'[x] = conn[x]
        BY <2>2 DEF UdIInv, UdTypeOK, OthersStay
      <3> QED
        BY <3>1 DEF UdIInv, Done
    <2> QED
      BY <2>1, <2>2
  <1> QED
    BY <1>1, <1>2, <1>3 DEF UdIInv

(* Sending a message changes the connection of one client.                 *)
LEMMA SendChanges ==
    ASSUME UdIInv, NEW c \in Clients, NEW phase, NEW msg, Send(c, phase, msg)
    PROVE  /\ conn' = [conn EXCEPT ![c] = conn'[c]]
           /\ conn'[c].phase = phase
  BY DEF UdIInv, Send

(* What the invariant says of one client.                                  *)
LEMMA OneClient ==
    ASSUME UdIInv, NEW c \in Clients
    PROVE  /\ ud[c] \in UdRecord /\ launches \in 0 .. MaxLaunches /\ fresh \in Nat
           /\ dev \in [Devices -> SUBSET DeviceCreds]
           /\ ud[c].uses = 0 \/ (ud[c].uses = 1 /\ Done(c))
           /\ \A r : [ud EXCEPT ![c] = r][c] = r
           /\ ud = [ud EXCEPT ![c] = ud[c]]
  BY DEF UdIInv, UdTypeOK, UdRecord

(* The initial state.                                                      *)
LEMMA InitUdIInv == UdStart => UdIInv
  <1> SUFFICES ASSUME UdStart
               PROVE  UdIInv
    OBVIOUS
  <1>1. fresh \in Nat /\ conn = [c \in Clients |-> conn[c]]
    BY DEF UdStart, TlsInit
  <1>2. (CHOOSE h \in Hosts : TRUE) \in Hosts
    BY UserDeviceAssumption
  <1>3. ud \in [Clients -> UdRecord] /\ \A c \in Clients : ud[c].uses = 0
    BY <1>2 DEF UdStart, UdInit, UdRecord, Program, ClientStates, Ceremonies, GcmKeys, NoKey,
                GcmKey
  <1> QED
    BY <1>1, <1>3, UserDeviceAssumption DEF UdStart, UdInit, UdIInv, UdTypeOK, UdRecord

-----------------------------------------------------------------------------
(* One lemma per action.                                                   *)

(* A launch replaces the program by one that has used nothing.             *)
LEMMA LaunchUdIInv ==
    ASSUME UdIInv, NEW c \in Clients, NEW o \in LaunchOptions, Launch(c, o)
    PROVE  UdIInv'
  <1>1. o \in LaunchRecords
    BY UserDeviceAssumption
  <1>2. ud' = [ud EXCEPT ![c] = Program(InitialState(o.mode), InitialCeremony(o.mode),
                                        o.name, o.ticket, o.host)]
    BY DEF Launch
  <1>3. /\ InitialState(o.mode) \in ClientStates
        /\ InitialCeremony(o.mode) \in Ceremonies
    BY <1>1 DEF LaunchRecords, InitialState, InitialCeremony, ClientStates, Ceremonies
  <1>4. ud'[c] = Program(InitialState(o.mode), InitialCeremony(o.mode), o.name, o.ticket, o.host)
    BY <1>2, OneClient
  <1>5. ud'[c] \in UdRecord /\ ud'[c].uses = 0
    BY <1>1, <1>3, <1>4 DEF Program, UdRecord, LaunchRecords, GcmKeys, NoKey, GcmKey
  <1>6. OthersStay(c)
    BY <1>2, <1>4 DEF OthersStay, Launch, UdIInv
  <1>7. launches' \in 0 .. MaxLaunches
    BY OneClient, UserDeviceAssumption DEF Launch
  <1> QED
    BY <1>5, <1>6, <1>7, StepOf, OneClient DEF Launch

(* A ClientHello is sent only in states that have used nothing.            *)
LEMMA ClientHelloUdIInv ==
    ASSUME UdIInv, NEW c \in Clients, ClientHello(c)
    PROVE  UdIInv'
  <1>0. /\ {"NO_EXTENSION", "PRE_INDICATION_SENT", "REG_INDICATION_SENT",
            "AUTH_INDICATION_SERVER_SIDE_SENT", "AUTH_INDICATION_DISCOVERABLE_SENT"}
              \subseteq ClientStates
    BY DEF ClientStates
  <1>1. \E msg : \E state \in ClientStates : SendHello(c, msg, state)
    <2>1. CASE SendPlainHello(c)
      BY <1>0, <2>1 DEF SendPlainHello
    <2>2. CASE SendPreIndication(c)
      BY <1>0, <2>2 DEF SendPreIndication
    <2>3. CASE SendRegIndication(c)
      BY <1>0, <2>3 DEF SendRegIndication
    <2>4. CASE SendAuthIndicationServerSide(c)
      BY <1>0, <2>4 DEF SendAuthIndicationServerSide
    <2>5. CASE SendAuthIndicationDiscoverable(c)
      BY <1>0, <2>5 DEF SendAuthIndicationDiscoverable
    <2> QED
      BY <2>1, <2>2, <2>3, <2>4, <2>5 DEF ClientHello
  <1>2. ud[c].uses = 0
    BY OneClient DEF ClientHello, SendPlainHello, SendPreIndication, SendRegIndication,
           SendAuthIndicationServerSide, SendAuthIndicationDiscoverable, Done
  <1> PICK msg : \E state \in ClientStates : SendHello(c, msg, state)
    BY <1>1
  <1> PICK state \in ClientStates : SendHello(c, msg, state)
    OBVIOUS
  <1>3. ud' = [ud EXCEPT ![c] = [ud[c] EXCEPT !.state = state]]
    BY DEF SendHello
  <1>4. ud'[c] = [ud[c] EXCEPT !.state = state]
    BY <1>3, OneClient
  <1>5. ud'[c] \in UdRecord /\ ud'[c].uses = 0
    BY <1>2, <1>4, OneClient DEF UdRecord
  <1>6. OthersStay(c)
    BY <1>3, <1>4, SendChanges DEF OthersStay, SendHello
  <1> QED
    BY <1>5, <1>6, StepOf, OneClient DEF SendHello

(* A step that changes the connection only, not into the handshake.        *)
LEMMA ConnectionOnly ==
    ASSUME UdIInv, NEW c \in Clients, UNCHANGED <<fresh, udVars>>,
           NEW phase, NEW msg, Send(c, phase, msg),
           phase \in {"open", "failed"} \/ ud[c].uses = 0
    PROVE  UdIInv'
  <1>1. OthersStay(c)
    BY SendChanges, OneClient DEF OthersStay, udVars
  <1>2. ud'[c].uses = 0 \/ (ud'[c].uses = 1 /\ Done(c)')
    BY SendChanges, OneClient DEF Done, udVars
  <1> QED
    BY <1>1, <1>2, StepOf, OneClient DEF udVars

(* A client with nothing to indicate fails to connect.                     *)
LEMMA RefuseHelloUdIInv ==
    ASSUME UdIInv, NEW c \in Clients, RefuseHello(c)
    PROVE  UdIInv'
  BY ConnectionOnly DEF RefuseHello, Alert

(* The server accepts or refuses the client's flight.                      *)
LEMMA FinishUdIInv ==
    ASSUME UdIInv, NEW c \in Clients, Finish(c)
    PROVE  UdIInv'
  BY ConnectionOnly DEF Finish, Alert

(* The connection breaks.                                                  *)
LEMMA DropUdIInv ==
    ASSUME UdIInv, NEW c \in Clients, Drop(c), UNCHANGED udVars
    PROVE  UdIInv'
  BY ConnectionOnly DEF Drop, Alert

(* The fields the handlers read out of a request have their types: all     *)
(* that the invariant of the client asks of what servers send.             *)
RequestTyped(m) ==
    /\ m.type = "PRE_RESPONSE" => m.eph \in Nat /\ m.key \in GcmKeys
    /\ m.type = "REG_REQUEST" =>
         m.chal \in Nat /\ m.rpId \in Hosts /\ m.user \in Nat /\ m.exclude \in SUBSET Nat
    /\ m.type = "AUTH_REQUEST" =>
         m.chal \in Nat /\ m.rpId \in Hosts \cup {Null} /\ m.allow \in SUBSET Nat

(* So it is in every request a server can send.                            *)
LEMMA RequestTypes ==
    ASSUME NEW m \in RequestPackets
    PROVE  RequestTyped(m)
  <1> USE DEF RequestTyped
  <1>1. CASE m \in {NoExt, Malformed}
    BY <1>1 DEF NoExt, Malformed
  <1>2. CASE m \in {PreResponse(i, k) : i \in Ids, k \in ServerKeys}
    BY <1>2, AnyServerAssumption DEF PreResponse
  <1>3. CASE m \in {RegRequest(i, h, k, n, u, x) :
                       i \in Ids, h \in Hosts, k \in ServerKeys, n \in Names, u \in Ids,
                       x \in SUBSET SentCreds}
    <2>1. PICK i \in Ids, h \in Hosts, k \in ServerKeys, n \in Names, u \in Ids,
               x \in SUBSET SentCreds : m = RegRequest(i, h, k, n, u, x)
      BY <1>3, SMTT(30)
    <2>2. i \in Nat /\ u \in Nat /\ x \in SUBSET Nat
      BY AnyServerAssumption
    <2> QED
      BY <2>1, <2>2 DEF RegRequest
  <1>4. CASE m \in {AuthRequest(i, h, k, x) :
                       i \in Ids, h \in Hosts \cup {Null}, k \in ServerKeys \cup {NoKey},
                       x \in SUBSET SentCreds}
    <2>1. PICK i \in Ids, h \in Hosts \cup {Null}, k \in ServerKeys \cup {NoKey},
               x \in SUBSET SentCreds : m = AuthRequest(i, h, k, x)
      BY <1>4, SMTT(30)
    <2>2. i \in Nat /\ x \in SUBSET Nat
      BY AnyServerAssumption
    <2> QED
      BY <2>1, <2>2 DEF AuthRequest
  <1> QED
    BY <1>1, <1>2, <1>3, <1>4, SMTT(30) DEF RequestPackets

(* A step that changes the record of a client that has used nothing, and   *)
(* uses nothing.                                                           *)
LEMMA UnusedStays ==
    ASSUME UdIInv, NEW c \in Clients, UNCHANGED <<fresh, dev, launches>>,
           NEW phase, NEW msg, Send(c, phase, msg),
           NEW r \in UdRecord, ud' = [ud EXCEPT ![c] = r], r.uses = 0
    PROVE  UdIInv'
  <1>1. ud'[c] = r
    BY OneClient
  <1>2. OthersStay(c)
    BY <1>1, SendChanges DEF OthersStay
  <1> QED
    BY <1>1, <1>2, StepOf, OneClient

(* A request that arrives before anything has been used.                   *)
LEMMA ParseCertificateRequestUdIInv ==
    ASSUME UdIInv, NEW c \in Clients, ud[c].uses = 0, NEW m, RequestTyped(m),
           ParseCertificateRequest(c, m)
    PROVE  UdIInv'
  <1>1. ud[c].uses = 0 /\ ud[c] \in UdRecord
    BY OneClient
  <1>3. CASE IgnoreRequest(c, m)
    BY <1>1, <1>3, ConnectionOnly DEF IgnoreRequest
  <1>4. CASE ProcessPreResponse(c, m)
    <2> DEFINE r == [ud[c] EXCEPT !.state = "PRE_RESPONSE_RECEIVED", !.eph = m.eph, !.key = m.key]
    <2>1. r \in UdRecord /\ r.uses = 0
      BY <1>1, <1>4 DEF RequestTyped, ProcessPreResponse, UdRecord, ClientStates
    <2>2. ud' = [ud EXCEPT ![c] = r]
      BY <1>4 DEF ProcessPreResponse
    <2> QED
      BY <1>4, <2>1, <2>2, UnusedStays DEF ProcessPreResponse
  <1>5. CASE ProcessRegRequest(c, m)
    <2> DEFINE r == [ud[c] EXCEPT !.state = "REG_REQUEST_RECEIVED", !.chal = m.chal,
                                  !.rpId = m.rpId, !.user = m.user, !.exclude = m.exclude]
    <2>1. r \in UdRecord /\ r.uses = 0
      BY <1>1, <1>5 DEF RequestTyped, ProcessRegRequest, UdRecord, ClientStates
    <2>2. ud' = [ud EXCEPT ![c] = r]
      BY <1>5 DEF ProcessRegRequest
    <2> QED
      BY <1>5, <2>1, <2>2, UnusedStays DEF ProcessRegRequest
  <1>6. CASE ProcessAuthRequest(c, m)
    <2> DEFINE r == [ud[c] EXCEPT !.state = "AUTH_REQUEST_RECEIVED", !.chal = m.chal,
                                  !.rpId = RpIdAfter(c, m), !.allow = m.allow]
    <2>1. r \in UdRecord /\ r.uses = 0
      BY <1>1, <1>6, ZenonT(40) DEF RequestTyped, ProcessAuthRequest, UdRecord, ClientStates, RpIdAfter
    <2>2. ud' = [ud EXCEPT ![c] = r]
      BY <1>6 DEF ProcessAuthRequest
    <2> QED
      BY <1>6, <2>1, <2>2, UnusedStays DEF ProcessAuthRequest
  <1>7. CASE RejectAuthRequest(c, m)
    <2> DEFINE r == [ud[c] EXCEPT !.chal = m.chal, !.rpId = RpIdAfter(c, m)]
    <2>1. r \in UdRecord /\ r.uses = 0
      BY <1>1, <1>7, ZenonT(40) DEF RequestTyped, RejectAuthRequest, UdRecord, RpIdAfter
    <2>2. ud' = [ud EXCEPT ![c] = r]
      BY <1>7 DEF RejectAuthRequest
    <2> QED
      BY <1>7, <2>1, <2>2, UnusedStays DEF RejectAuthRequest, Alert
  <1>8. CASE RefuseRequest(c, m)
    BY <1>1, <1>8, ConnectionOnly DEF RefuseRequest, Alert
  <1> QED
    BY <1>3, <1>4, <1>5, <1>6, <1>7, <1>8 DEF ParseCertificateRequest

(* A CertificateRequest arrives in a handshake, so nothing has been used.  *)
LEMMA CertificateRequestUdIInv ==
    ASSUME UdIInv, NEW c \in Clients, CertificateRequest(c)
    PROVE  UdIInv'
  <1>1. ud[c].uses = 0
    BY OneClient DEF CertificateRequest, Done
  <1> QED
    BY <1>1, RequestTypes, ParseCertificateRequestUdIInv DEF CertificateRequest

-----------------------------------------------------------------------------
(* The authenticators.                                                     *)

DevTypeOK == dev \in [Devices -> SUBSET DeviceCreds]

(* New on an authenticator: what may be there after a step and was not.    *)
OnlyNewAt(d, rpId) ==
    \A e \in Devices : \A k \in dev'[e] \ dev[e] : e = d /\ k.rp = rpId

(* Making a credential adds one for the RP id to one authenticator.        *)
LEMMA MakeCredentialAdds ==
    ASSUME DevTypeOK, NEW d \in Devices, NEW cred \in Nat, NEW user \in Nat,
           NEW rpId \in Hosts, NEW rk \in BOOLEAN, NEW exclude,
           MakeCredential(d, cred, user, rpId, rk, exclude)
    PROVE  DevTypeOK' /\ OnlyNewAt(d, rpId)
  <1> DEFINE new == [cred |-> cred, user |-> user, rp |-> rpId, rk |-> rk, count |-> 0]
             kept == {k \in dev[d] : ~(rk /\ k.rk /\ k.rp = rpId /\ k.user = user)}
  <1>1. dev' = [dev EXCEPT ![d] = kept \cup {new}]
    BY DEF MakeCredential
  <1>2. new \in DeviceCreds /\ new.rp = rpId
    BY DEF DeviceCreds
  <1>3. kept \subseteq dev[d]
    OBVIOUS
  <1> HIDE DEF new, kept
  <1>4. DevTypeOK'
    BY <1>1, <1>2, <1>3 DEF DevTypeOK
  <1>5. \A e \in Devices : dev'[e] = IF e = d THEN kept \cup {new} ELSE dev[e]
    BY <1>1 DEF DevTypeOK
  <1> QED
    BY <1>2, <1>3, <1>4, <1>5 DEF OnlyNewAt

(* An assertion counts up one credential of the authenticator.             *)
LEMMA CountUpKeeps ==
    ASSUME DevTypeOK, NEW d \in Devices, NEW k \in dev[d], CountUp(d, k)
    PROVE  DevTypeOK' /\ OnlyNewAt(d, k.rp)
  <1> DEFINE new == [k EXCEPT !.count = k.count + 1]
  <1>1. dev' = [dev EXCEPT ![d] = (dev[d] \ {k}) \cup {new}]
    BY DEF CountUp
  <1>2. k \in DeviceCreds
    BY DEF DevTypeOK
  <1>3. new \in DeviceCreds /\ new.rp = k.rp
    BY <1>2 DEF DeviceCreds
  <1> HIDE DEF new
  <1>4. DevTypeOK'
    BY <1>1, <1>3 DEF DevTypeOK
  <1>5. \A e \in Devices : dev'[e] = IF e = d THEN (dev[d] \ {k}) \cup {new} ELSE dev[e]
    BY <1>1 DEF DevTypeOK
  <1> QED
    BY <1>3, <1>4, <1>5 DEF OnlyNewAt

(* The RP id that is used is a host.                                       *)
LEMMA RpIdUsedIsHost ==
    ASSUME UdIInv, NEW c \in Clients
    PROVE  RpIdUsed(c) \in Hosts
  BY OneClient DEF RpIdUsed, UdRecord

(* A step that uses an authenticator: what the three actions have in common.*)
Uses(c, r) ==
    /\ ud' = [ud EXCEPT ![c] = r]
    /\ r \in UdRecord
    /\ r.uses = ud[c].uses + 1
    /\ r.state \in {"REG_REQUEST_RECEIVED", "REG_RESPONSE_SENT",
                    "AUTH_REQUEST_RECEIVED", "AUTH_RESPONSE_SENT"}
    /\ RpIdValid(c)
    /\ \E d \in Attached[c] : OnlyNewAt(d, RpIdUsed(c))
    /\ DevTypeOK'
    /\ fresh' \in Nat /\ UNCHANGED launches
    /\ \E msg : Send(c, "cert", msg) \/ Send(c, "failed", msg)

(* A registration that is answered uses an authenticator.                  *)
LEMMA CreateRegResponseUses ==
    ASSUME UdIInv, NEW c \in Clients, CreateRegResponse(c)
    PROVE  \E r : Uses(c, r)
  <1> DEFINE r == [ud[c] EXCEPT !.state = "REG_RESPONSE_SENT", !.rpId = RpIdUsed(c),
                                !.cred = fresh, !.uses = ud[c].uses + 1]
  <1>1. /\ ud[c] \in UdRecord /\ RpIdUsed(c) \in Hosts /\ fresh \in Nat /\ DevTypeOK
        /\ fresh' \in Nat /\ Attached[c] \subseteq Devices
    BY OneClient, RpIdUsedIsHost, UserDeviceAssumption DEF CreateRegResponse, DevTypeOK
  <1>2. r \in UdRecord /\ r.uses = ud[c].uses + 1 /\ r.state = "REG_RESPONSE_SENT"
    <2>1. ud[c].uses + 1 \in Nat /\ "REG_RESPONSE_SENT" \in ClientStates
      BY <1>1 DEF UdRecord, ClientStates
    <2> QED
      BY <1>1, <2>1 DEF UdRecord
  <1>3. ud' = [ud EXCEPT ![c] = r]
    BY DEF CreateRegResponse
  <1>4. PICK d \in Attached[c] :
            MakeCredential(d, fresh, ud[c].user, RpIdUsed(c), Discoverable, ud[c].exclude)
    BY DEF CreateRegResponse
  <1>5. ud[c].user \in Nat /\ Discoverable \in BOOLEAN
    BY <1>1 DEF UdRecord, Discoverable
  <1>6. DevTypeOK' /\ OnlyNewAt(d, RpIdUsed(c))
    BY <1>1, <1>4, <1>5, MakeCredentialAdds
  <1>7. \E msg : Send(c, "cert", msg)
    BY DEF CreateRegResponse
  <1> HIDE DEF r
  <1> QED
    BY <1>1, <1>2, <1>3, <1>6, <1>7 DEF Uses, CreateRegResponse

(* So does one whose packet cannot be built.                               *)
LEMMA FailRegResponseUses ==
    ASSUME UdIInv, NEW c \in Clients, FailRegResponse(c)
    PROVE  \E r : Uses(c, r)
  <1> DEFINE r == [ud[c] EXCEPT !.rpId = RpIdUsed(c), !.cred = fresh, !.uses = ud[c].uses + 1]
  <1>1. /\ ud[c] \in UdRecord /\ RpIdUsed(c) \in Hosts /\ fresh \in Nat /\ DevTypeOK
        /\ fresh' \in Nat /\ Attached[c] \subseteq Devices
    BY OneClient, RpIdUsedIsHost, UserDeviceAssumption DEF FailRegResponse, DevTypeOK
  <1>2. r \in UdRecord /\ r.uses = ud[c].uses + 1 /\ r.state = "REG_REQUEST_RECEIVED"
    <2>1. ud[c].uses + 1 \in Nat /\ ud[c].state = "REG_REQUEST_RECEIVED"
      BY <1>1 DEF UdRecord, FailRegResponse
    <2> QED
      BY <1>1, <2>1 DEF UdRecord
  <1>3. ud' = [ud EXCEPT ![c] = r]
    BY DEF FailRegResponse
  <1>4. PICK d \in Attached[c] :
            MakeCredential(d, fresh, ud[c].user, RpIdUsed(c), Discoverable, ud[c].exclude)
    BY DEF FailRegResponse
  <1>5. ud[c].user \in Nat /\ Discoverable \in BOOLEAN
    BY <1>1 DEF UdRecord, Discoverable
  <1>6. DevTypeOK' /\ OnlyNewAt(d, RpIdUsed(c))
    BY <1>1, <1>4, <1>5, MakeCredentialAdds
  <1> HIDE DEF r
  <1> QED
    BY <1>1, <1>2, <1>3, <1>6 DEF Uses, FailRegResponse, Alert

(* And so does a login.                                                    *)
LEMMA CreateAuthResponseUses ==
    ASSUME UdIInv, NEW c \in Clients, CreateAuthResponse(c)
    PROVE  \E r : Uses(c, r)
  <1>1. /\ ud[c] \in UdRecord /\ RpIdUsed(c) \in Hosts /\ fresh \in Nat /\ DevTypeOK
        /\ Attached[c] \subseteq Devices /\ RpIdValid(c) /\ UNCHANGED <<fresh, launches>>
    BY OneClient, RpIdUsedIsHost, UserDeviceAssumption DEF CreateAuthResponse, DevTypeOK
  <1>2. PICK d \in Attached[c] : \E k \in Assertable(d, c, RpIdUsed(c)) :
          /\ CountUp(d, k)
          /\ \E uv \in AssertUv, handle \in Handles(c, k) :
               /\ Send(c, "cert", AuthResponse(k.cred, ud[c].chal, ud[c].host, RpIdUsed(c),
                                               uv, k.count + 1, handle, TRUE))
               /\ ud' = [ud EXCEPT ![c].state = "AUTH_RESPONSE_SENT", ![c].rpId = RpIdUsed(c),
                                   ![c].user = handle, ![c].cred = k.cred,
                                   ![c].uses = ud[c].uses + 1]
    BY DEF CreateAuthResponse
  <1>3. PICK k \in Assertable(d, c, RpIdUsed(c)) :
          /\ CountUp(d, k)
          /\ \E uv \in AssertUv, handle \in Handles(c, k) :
               /\ Send(c, "cert", AuthResponse(k.cred, ud[c].chal, ud[c].host, RpIdUsed(c),
                                               uv, k.count + 1, handle, TRUE))
               /\ ud' = [ud EXCEPT ![c].state = "AUTH_RESPONSE_SENT", ![c].rpId = RpIdUsed(c),
                                   ![c].user = handle, ![c].cred = k.cred,
                                   ![c].uses = ud[c].uses + 1]
    BY <1>2
  <1>4. PICK handle \in Handles(c, k) :
          ud' = [ud EXCEPT ![c].state = "AUTH_RESPONSE_SENT", ![c].rpId = RpIdUsed(c),
                           ![c].user = handle, ![c].cred = k.cred, ![c].uses = ud[c].uses + 1]
    BY <1>3
  <1>5. \E msg : Send(c, "cert", msg)
    BY <1>3
  <1>6. k \in dev[d] /\ k.rp = RpIdUsed(c) /\ k \in DeviceCreds
    BY <1>1 DEF Assertable, DevTypeOK
  <1>7. k.cred \in Nat /\ handle \in Nat
    BY <1>6 DEF Handles, DeviceCreds
  <1> DEFINE r == [ud[c] EXCEPT !.state = "AUTH_RESPONSE_SENT", !.rpId = RpIdUsed(c),
                                !.user = handle, !.cred = k.cred, !.uses = ud[c].uses + 1]
  <1>8. r \in UdRecord /\ r.uses = ud[c].uses + 1 /\ r.state = "AUTH_RESPONSE_SENT"
    <2>1. ud[c].uses + 1 \in Nat /\ "AUTH_RESPONSE_SENT" \in ClientStates
      BY <1>1 DEF UdRecord, ClientStates
    <2> QED
      BY <1>1, <1>7, <2>1 DEF UdRecord
  <1>9. ud' = [ud EXCEPT ![c] = r]
    BY <1>4
  <1>10. DevTypeOK' /\ OnlyNewAt(d, RpIdUsed(c))
    BY <1>1, <1>3, <1>6, CountUpKeeps
  <1> HIDE DEF r
  <1> QED
    BY <1>1, <1>5, <1>8, <1>9, <1>10 DEF Uses

(* And one that run_ctap does not take.                                    *)
LEMMA FailAuthResponseUses ==
    ASSUME UdIInv, NEW c \in Clients, FailAuthResponse(c)
    PROVE  \E r : Uses(c, r)
  <1>1. /\ ud[c] \in UdRecord /\ RpIdUsed(c) \in Hosts /\ fresh \in Nat /\ DevTypeOK
        /\ Attached[c] \subseteq Devices /\ RpIdValid(c) /\ UNCHANGED <<fresh, launches>>
    BY OneClient, RpIdUsedIsHost, UserDeviceAssumption DEF FailAuthResponse, DevTypeOK
  <1>2. PICK d \in Attached[c] : \E k \in Assertable(d, c, RpIdUsed(c)) :
          /\ CountUp(d, k)
          /\ \E handle \in Handles(c, k) \cup {ud[c].user} :
               ud' = [ud EXCEPT ![c].rpId = RpIdUsed(c), ![c].user = handle, ![c].cred = k.cred,
                                ![c].uses = ud[c].uses + 1]
    BY DEF FailAuthResponse
  <1>3. PICK k \in Assertable(d, c, RpIdUsed(c)) :
          /\ CountUp(d, k)
          /\ \E handle \in Handles(c, k) \cup {ud[c].user} :
               ud' = [ud EXCEPT ![c].rpId = RpIdUsed(c), ![c].user = handle, ![c].cred = k.cred,
                                ![c].uses = ud[c].uses + 1]
    BY <1>2
  <1>4. PICK handle \in Handles(c, k) \cup {ud[c].user} :
          ud' = [ud EXCEPT ![c].rpId = RpIdUsed(c), ![c].user = handle, ![c].cred = k.cred,
                           ![c].uses = ud[c].uses + 1]
    BY <1>3
  <1>5. k \in dev[d] /\ k.rp = RpIdUsed(c) /\ k \in DeviceCreds
    BY <1>1 DEF Assertable, DevTypeOK
  <1>6. k.cred \in Nat /\ handle \in Nat
    BY <1>1, <1>5 DEF Handles, DeviceCreds, UdRecord
  <1> DEFINE r == [ud[c] EXCEPT !.rpId = RpIdUsed(c), !.user = handle, !.cred = k.cred,
                                !.uses = ud[c].uses + 1]
  <1>7. r \in UdRecord /\ r.uses = ud[c].uses + 1 /\ r.state = "AUTH_REQUEST_RECEIVED"
    <2>1. ud[c].uses + 1 \in Nat /\ ud[c].state = "AUTH_REQUEST_RECEIVED"
      BY <1>1 DEF UdRecord, FailAuthResponse
    <2> QED
      BY <1>1, <1>6, <2>1 DEF UdRecord
  <1>8. ud' = [ud EXCEPT ![c] = r]
    BY <1>4
  <1>9. DevTypeOK' /\ OnlyNewAt(d, RpIdUsed(c))
    BY <1>1, <1>3, <1>5, CountUpKeeps
  <1>10. Send(c, "failed", NoExt)
    BY DEF FailAuthResponse, Alert
  <1> HIDE DEF r
  <1> QED
    BY <1>1, <1>7, <1>8, <1>9, <1>10 DEF Uses

(* Using an authenticator ends the program's ceremony.                     *)
LEMMA UsesUdIInv ==
    ASSUME UdIInv, NEW c \in Clients, ud[c].uses = 0, NEW r, Uses(c, r)
    PROVE  UdIInv'
  <1>1. ud'[c] = r
    BY OneClient DEF Uses
  <1>2. PICK msg : Send(c, "cert", msg) \/ Send(c, "failed", msg)
    BY DEF Uses
  <1>3. conn' = [conn EXCEPT ![c] = conn'[c]] /\ conn'[c].phase \in {"cert", "failed"}
    BY <1>2, SendChanges
  <1>4. OthersStay(c)
    BY <1>1, <1>3 DEF OthersStay, Uses
  <1>5. ud'[c].uses = 1 /\ Done(c)'
    BY <1>1, <1>3 DEF Uses, Done
  <1> QED
    BY <1>1, <1>4, <1>5, StepOf, OneClient DEF Uses, DevTypeOK

(* The client's answer: the only callback that uses an authenticator.      *)
LEMMA AddCertificateUdIInv ==
    ASSUME UdIInv, NEW c \in Clients, AddCertificate(c)
    PROVE  UdIInv'
  <1>1. ud[c].uses = 0 /\ ud[c] \in UdRecord
    BY OneClient DEF AddCertificate, SendNoResponse, CreateRegResponse, FailRegResponse,
           CreateAuthResponse, FailAuthResponse, FailResponse, Done
  <1>2. CASE SendNoResponse(c)
    BY <1>1, <1>2, ConnectionOnly DEF SendNoResponse
  <1>3. CASE CreateRegResponse(c)
    BY <1>1, <1>3, CreateRegResponseUses, UsesUdIInv
  <1>4. CASE FailRegResponse(c)
    BY <1>1, <1>4, FailRegResponseUses, UsesUdIInv
  <1>5. CASE CreateAuthResponse(c)
    BY <1>1, <1>5, CreateAuthResponseUses, UsesUdIInv
  <1>6. CASE FailResponse(c)
    <2> DEFINE r == [ud[c] EXCEPT !.rpId = RpIdUsed(c)]
    <2>1. r \in UdRecord /\ r.uses = 0
      BY <1>1, RpIdUsedIsHost DEF UdRecord
    <2>2. ud' = [ud EXCEPT ![c] = r]
      BY <1>6 DEF FailResponse
    <2> QED
      BY <1>6, <2>1, <2>2, UnusedStays DEF FailResponse, Alert
  <1>7. CASE FailAuthResponse(c)
    BY <1>1, <1>7, FailAuthResponseUses, UsesUdIInv
  <1> QED
    BY <1>2, <1>3, <1>4, <1>5, <1>6, <1>7 DEF AddCertificate

-----------------------------------------------------------------------------
(* The theorems.                                                           *)

(* Every step keeps the invariant.                                         *)
LEMMA NextUdIInv == UdIInv /\ [UdNext]_clientVars => UdIInv'
  <1> SUFFICES ASSUME UdIInv, [UdNext]_clientVars
               PROVE  UdIInv'
    OBVIOUS
  <1>1. CASE UNCHANGED clientVars
    BY <1>1 DEF clientVars, udVars, UdIInv, UdTypeOK, Done
  <1>2. CASE UdNext
    BY <1>2, LaunchUdIInv, ClientHelloUdIInv, RefuseHelloUdIInv, CertificateRequestUdIInv,
       AddCertificateUdIInv, FinishUdIInv, DropUdIInv DEF UdNext
  <1> QED
    BY <1>1, <1>2

(* The client keeps its inductive invariant against every server (the      *)
(* callbacks of fidossl.c with ud.c).                                      *)
THEOREM ClientInvariant == UdSpec => []UdIInv
  BY InitUdIInv, NextUdIInv, PTL DEF UdSpec

(* ud_data and the authenticators keep their types.                        *)
THEOREM ClientTypeCorrect == UdSpec => []UdTypeOK
  <1>1. UdIInv => UdTypeOK
    BY DEF UdIInv
  <1> QED
    BY <1>1, ClientInvariant, PTL

(* However often a program connects and whatever the servers answer, the   *)
(* user touches the authenticator for one operation (run_ctap).            *)
THEOREM TouchedOnce == UdSpec => []OneOperationPerLaunch
  <1>1. UdIInv => OneOperationPerLaunch
    BY DEF UdIInv, OneOperationPerLaunch
  <1> QED
    BY <1>1, ClientInvariant, PTL

(* What one step may change on the authenticators.                         *)
Scoped ==
    \A d \in Devices : \A k \in dev'[d] \ dev[d] :
       \E c \in Clients : d \in Attached[c] /\ k.rp \in ValidFor[ud[c].host]
                           /\ ud'[c].uses = ud[c].uses + 1

(* A step that uses an authenticator uses it for a valid RP id.            *)
LEMMA UsesScoped ==
    ASSUME UdIInv, NEW c \in Clients, NEW r, Uses(c, r)
    PROVE  Scoped
  <1>1. ud'[c] = r
    BY OneClient DEF Uses
  <1> QED
    BY <1>1 DEF Uses, OnlyNewAt, Scoped, RpIdValid

(* Every step does, or leaves the authenticators alone.                    *)
LEMMA NextScoped ==
    ASSUME UdIInv, UdNext
    PROVE  Scoped
  <1>1. CASE UNCHANGED dev
    BY <1>1 DEF Scoped
  <1>2. CASE \E c \in Clients :
                \/ CreateRegResponse(c) \/ FailRegResponse(c)
                \/ CreateAuthResponse(c) \/ FailAuthResponse(c)
    BY <1>2, CreateRegResponseUses, FailRegResponseUses, CreateAuthResponseUses,
       FailAuthResponseUses, UsesScoped
  <1>3. CASE \E c \in Clients : AddCertificate(c)
    BY <1>1, <1>2, <1>3 DEF AddCertificate, SendNoResponse, FailResponse, udVars
  <1>4. CASE \E c \in Clients, o \in LaunchOptions : Launch(c, o)
    BY <1>1, <1>4 DEF Launch
  <1>5. CASE \E c \in Clients : ClientHello(c)
    BY <1>1, <1>5 DEF ClientHello, SendPlainHello, SendPreIndication, SendRegIndication,
       SendAuthIndicationServerSide, SendAuthIndicationDiscoverable, SendHello
  <1>6. CASE \E c \in Clients : CertificateRequest(c)
    BY <1>1, <1>6 DEF CertificateRequest, ParseCertificateRequest, IgnoreRequest,
       ProcessPreResponse, ProcessRegRequest, ProcessAuthRequest, RejectAuthRequest,
       RefuseRequest, udVars
  <1>7. CASE \E c \in Clients : RefuseHello(c) \/ Finish(c) \/ (Drop(c) /\ UNCHANGED udVars)
    BY <1>1, <1>7 DEF RefuseHello, Finish, udVars
  <1> QED
    BY <1>3, <1>4, <1>5, <1>6, <1>7 DEF UdNext

(* The authenticators are used only for RP ids that are valid for the host *)
(* the user asked for (validate_rp_id), whatever RP id a server sends.     *)
THEOREM UsedInScope == UdSpec => ScopedToHost
  <1>1. UdIInv /\ [UdNext]_clientVars => [Scoped]_clientVars
    BY NextScoped
  <1> QED
    BY <1>1, ClientInvariant, PTL DEF UdSpec, ScopedToHost, Scoped

=============================================================================
