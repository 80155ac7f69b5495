----------------------- MODULE SharedDatabaseProofs -----------------------
(***************************************************************************)
(* Theorems about any number of server processes on one database, for all  *)
(* sets of processes, devices and names.                                   *)
(***************************************************************************)
EXTENDS SharedDatabase, SequenceTheorems, TLAPS

USE SharedDatabaseAssumption

-----------------------------------------------------------------------------
(* What an action does to the processes: it replaces the record of one.    *)

ProcStep(w, r) == r \in Procs /\ proc' = [proc EXCEPT ![w] = r]

(* The other processes keep their records.                                 *)
LEMMA ProcAfter ==
    ASSUME SharedTypeOK, NEW w \in Workers, NEW r, ProcStep(w, r)
    PROVE  /\ proc' \in [Workers -> Procs]
           /\ proc'[w] = r
           /\ \A v \in Workers : v # w => proc'[v] = proc[v]
BY DEF ProcStep, SharedTypeOK

(* What the type invariant says of one process.                            *)
LEMMA ProcRecord ==
    ASSUME SharedTypeOK, NEW w \in Workers
    PROVE  proc[w] \in Records /\ Named(proc[w])
BY DEF SharedTypeOK, Procs

(* A process that has just been started is well-typed.                     *)
LEMMA StartedType == Started \in Procs
<1>1. Started \in Records
  BY DEF Started, Records, Steps, Statements
<1>2. Named(Started)
  BY DEF Started, Named
<1>. QED
  BY <1>1, <1>2 DEF Procs

(* Most statements leave tables, devices and histories as they are, and    *)
(* the process without a response that could still be accepted.            *)
QuietSteps == {"idle", "waiting", "get_user_id", "get_credential_descriptors",
               "success", "failure"}

QuietProc(w) ==
    \E r : /\ ProcStep(w, r)
           /\ r.pc \in QuietSteps
           /\ r.cred \in {0, proc[w].cred}

Quiet(w) ==
    /\ QuietProc(w)
    /\ fresh' \in {fresh, fresh + 1}
    /\ restarts' \in 0 .. MaxRestarts
    /\ UNCHANGED <<users, creds, dev, enrolled, logins>>

(* Refusing a response is quiet.                                           *)
LEMMA QuietFailure ==
    ASSUME SharedTypeOK, NEW w \in Workers,
           proc' = [proc EXCEPT ![w].pc = "failure"]
    PROVE  QuietProc(w)
<1>. DEFINE r == [proc[w] EXCEPT !.pc = "failure"]
<1>1. /\ r \in Records
      /\ r.kind = proc[w].kind /\ r.name = proc[w].name
      /\ r.pc = "failure" /\ r.cred = proc[w].cred
  BY ProcRecord DEF SharedTypeOK, Records, Steps, Statements
<1>9. r \in Procs
  BY <1>1, ProcRecord DEF Procs, Named
<1>2. proc' = [proc EXCEPT ![w] = r]
  BY DEF SharedTypeOK
<1>. HIDE DEF r
<1>. QED
  BY <1>9, <1>1, <1>2 DEF QuietProc, ProcStep, QuietSteps

(* So is starting over.                                                    *)
LEMMA QuietStarted ==
    ASSUME SharedTypeOK, NEW w \in Workers, proc' = [proc EXCEPT ![w] = Started]
    PROVE  QuietProc(w)
<1>1. Started.pc = "idle" /\ Started.cred = 0
  BY DEF Started
<1>. QED
  BY <1>1, StartedType DEF QuietProc, ProcStep, QuietSteps

(* A crash or shutdown of one process is quiet.                            *)
LEMMA RestartQuiet ==
    ASSUME SharedTypeOK, NEW w \in Workers, Restart(w)
    PROVE  Quiet(w)
<1>1. QuietProc(w)
  BY QuietStarted DEF Restart
<1>2. restarts' \in 0 .. MaxRestarts
  BY DEF Restart, SharedTypeOK
<1>. QED
  BY <1>1, <1>2 DEF Restart, Quiet, tables

(* So is process_indication.                                               *)
LEMMA IndicationQuiet ==
    ASSUME SharedTypeOK, NEW w \in Workers, Indication(w)
    PROVE  Quiet(w)
<1>1. ASSUME NEW n \in Names, NEW k \in {"REG", "AUTH"},
             proc' = [proc EXCEPT ![w].pc = "get_user_id", ![w].kind = k, ![w].name = n]
      PROVE  QuietProc(w)
  <2>. DEFINE r == [proc[w] EXCEPT !.pc = "get_user_id", !.kind = k, !.name = n]
  <2>1. /\ r \in Records
        /\ r.kind = k /\ r.name = n
        /\ r.pc = "get_user_id" /\ r.cred = proc[w].cred
    BY ProcRecord DEF SharedTypeOK, Records, Steps, Statements
  <2>9. r \in Procs
    BY <2>1, ProcRecord DEF Procs, Named
  <2>2. proc' = [proc EXCEPT ![w] = r]
    BY <1>1 DEF SharedTypeOK
  <2>. HIDE DEF r
  <2>. QED
    BY <2>9, <2>1, <2>2 DEF QuietProc, ProcStep, QuietSteps
<1>2. ASSUME proc' = [proc EXCEPT ![w].pc = "waiting", ![w].kind = "AUTH"]
      PROVE  QuietProc(w)
  <2>. DEFINE r == [proc[w] EXCEPT !.pc = "waiting", !.kind = "AUTH"]
  <2>1. /\ r \in Records
        /\ r.kind = "AUTH" /\ r.name = proc[w].name
        /\ r.pc = "waiting" /\ r.cred = proc[w].cred
    BY ProcRecord DEF SharedTypeOK, Records, Steps, Statements
  <2>9. r \in Procs
    BY <2>1, ProcRecord DEF Procs, Named
  <2>2. proc' = [proc EXCEPT ![w] = r]
    BY <1>2 DEF SharedTypeOK
  <2>. HIDE DEF r
  <2>. QED
    BY <2>9, <2>1, <2>2 DEF QuietProc, ProcStep, QuietSteps
<1>3. QuietProc(w)
  BY <1>1, <1>2 DEF Indication
<1>. QED
  BY <1>3 DEF Indication, Quiet, tables, SharedTypeOK

(* So is get_user_id where it finds the name.                              *)
LEMMA GetUserIdQuiet ==
    ASSUME SharedTypeOK, NEW w \in Workers, GetUserId(w)
    PROVE  Quiet(w)
<1>1. PICK id \in IdsOf(proc[w].name) :
         proc' = [proc EXCEPT ![w].pc = "get_credential_descriptors", ![w].user = id]
  BY DEF GetUserId
<1>2. id \in Nat
  BY DEF IdsOf, SharedTypeOK
<1>. DEFINE r == [proc[w] EXCEPT !.pc = "get_credential_descriptors", !.user = id]
<1>3. /\ r \in Records
      /\ r.kind = proc[w].kind /\ r.name = proc[w].name
      /\ r.pc = "get_credential_descriptors" /\ r.cred = proc[w].cred
  BY <1>2, ProcRecord DEF SharedTypeOK, Records, Steps, Statements
<1>9. r \in Procs
  BY <1>3, ProcRecord DEF Procs, Named
<1>4. proc' = [proc EXCEPT ![w] = r]
  BY <1>1 DEF SharedTypeOK
<1>. HIDE DEF r
<1>5. QuietProc(w)
  BY <1>9, <1>3, <1>4 DEF QuietProc, ProcStep, QuietSteps
<1>. QED
  BY <1>5 DEF GetUserId, Quiet, tables, SharedTypeOK

(* And where it does not, except that it may draw an id.                   *)
LEMMA GetNoUserIdQuiet ==
    ASSUME SharedTypeOK, NEW w \in Workers, GetNoUserId(w)
    PROVE  Quiet(w)
<1>1. CASE proc' = [proc EXCEPT ![w].pc = "get_credential_descriptors", ![w].user = fresh]
  <2>. DEFINE r == [proc[w] EXCEPT !.pc = "get_credential_descriptors", !.user = fresh]
  <2>1. /\ r \in Records
        /\ r.kind = proc[w].kind /\ r.name = proc[w].name
        /\ r.pc = "get_credential_descriptors" /\ r.cred = proc[w].cred
    BY ProcRecord DEF SharedTypeOK, Records, Steps, Statements
  <2>9. r \in Procs
    BY <2>1, ProcRecord DEF Procs, Named
  <2>2. proc' = [proc EXCEPT ![w] = r]
    BY <1>1 DEF SharedTypeOK
  <2>. HIDE DEF r
  <2>. QED
    BY <2>9, <2>1, <2>2 DEF QuietProc, ProcStep, QuietSteps, GetNoUserId, Quiet, tables, SharedTypeOK
<1>2. CASE proc' = [proc EXCEPT ![w] = Started]
  BY <1>2, QuietStarted DEF GetNoUserId, Quiet, tables, SharedTypeOK
<1>. QED
  BY <1>1, <1>2 DEF GetNoUserId

(* Reading the exclude or the allow list is quiet.                         *)
LEMMA DescriptorsQuiet ==
    ASSUME SharedTypeOK, NEW w \in Workers, GetCredentialDescriptors(w)
    PROVE  Quiet(w)
<1>1. PICK list \in SUBSET CredentialsOf(proc[w].user) :
         proc' = [proc EXCEPT ![w].pc = "waiting", ![w].list = list]
  BY DEF GetCredentialDescriptors
<1>2. list \subseteq Nat
  BY DEF CredentialsOf, SharedTypeOK
<1>. DEFINE r == [proc[w] EXCEPT !.pc = "waiting", !.list = list]
<1>3. /\ r \in Records
      /\ r.kind = proc[w].kind /\ r.name = proc[w].name
      /\ r.pc = "waiting" /\ r.cred = proc[w].cred
  BY <1>2, ProcRecord DEF SharedTypeOK, Records, Steps, Statements
<1>9. r \in Procs
  BY <1>3, ProcRecord DEF Procs, Named
<1>4. proc' = [proc EXCEPT ![w] = r]
  BY <1>1 DEF SharedTypeOK
<1>. HIDE DEF r
<1>5. QuietProc(w)
  BY <1>9, <1>3, <1>4 DEF QuietProc, ProcStep, QuietSteps
<1>. QED
  BY <1>5 DEF GetCredentialDescriptors, Quiet, tables, SharedTypeOK

(* So is its failure.                                                      *)
LEMMA FailDescriptorsQuiet ==
    ASSUME SharedTypeOK, NEW w \in Workers, FailDescriptors(w)
    PROVE  Quiet(w)
<1>. DEFINE r == [proc[w] EXCEPT !.pc = "get_user_id"]
<1>1. /\ r \in Records
      /\ r.kind = proc[w].kind /\ r.name = proc[w].name
      /\ r.pc = "get_user_id" /\ r.cred = proc[w].cred
  BY ProcRecord DEF SharedTypeOK, Records, Steps, Statements
<1>9. r \in Procs
  BY <1>1, ProcRecord DEF Procs, Named, FailDescriptors
<1>2. proc' = [proc EXCEPT ![w] = r]
  BY DEF SharedTypeOK, FailDescriptors
<1>. HIDE DEF r
<1>. QED
  BY <1>9, <1>1, <1>2 DEF QuietProc, ProcStep, QuietSteps, FailDescriptors, Quiet, tables, SharedTypeOK

(* So is every other statement that is refused.                            *)
LEMMA FailuresQuiet ==
    ASSUME SharedTypeOK, NEW w \in Workers,
           FailInsertUser(w) \/ FailInsertCredential(w) \/ GetNoCredential(w)
             \/ FailUpdateSignCount(w)
    PROVE  Quiet(w)
<1>1. proc' = [proc EXCEPT ![w].pc = "failure"]
  BY DEF FailInsertUser, FailInsertCredential, GetNoCredential, FailUpdateSignCount
<1>2. UNCHANGED <<users, creds, dev, fresh, restarts, enrolled, logins>>
  BY DEF FailInsertUser, FailInsertCredential, GetNoCredential, FailUpdateSignCount, tables
<1>. QED
  BY <1>1, <1>2, QuietFailure DEF Quiet, SharedTypeOK

-----------------------------------------------------------------------------
(* The statements and the authenticator operations that are not quiet.     *)

(* SELECT of add_creds: the process goes on, to the INSERT of the user     *)
(* only if there is none.                                                  *)
LEMMA SelectUserEffect ==
    ASSUME SharedTypeOK, NEW w \in Workers, SelectUser(w)
    PROVE  /\ proc[w].pc = "select_user"
           /\ UNCHANGED <<users, creds, dev, fresh, restarts, enrolled, logins>>
           /\ \E r : /\ ProcStep(w, r)
                     /\ r.pc \in {"insert_credential", "insert_user"}
                     /\ r.pc = "insert_credential" /\ ~Busy => UserKnown(proc[w].user)
                     /\ r.user = proc[w].user /\ r.cred = proc[w].cred
                     /\ r.count = proc[w].count
<1>1. ASSUME NEW pc \in {"insert_credential", "insert_user"},
             pc = "insert_credential" /\ ~Busy => UserKnown(proc[w].user),
             proc' = [proc EXCEPT ![w].pc = pc]
      PROVE  \E r : /\ ProcStep(w, r)
                    /\ r.pc \in {"insert_credential", "insert_user"}
                    /\ r.pc = "insert_credential" /\ ~Busy => UserKnown(proc[w].user)
                    /\ r.user = proc[w].user /\ r.cred = proc[w].cred
                    /\ r.count = proc[w].count
  <2>. DEFINE r == [proc[w] EXCEPT !.pc = pc]
  <2>1. /\ r \in Records
        /\ r.kind = proc[w].kind /\ r.name = proc[w].name
        /\ r.pc = pc /\ r.user = proc[w].user /\ r.cred = proc[w].cred /\ r.count = proc[w].count
    BY ProcRecord DEF SharedTypeOK, Records, Steps, Statements
  <2>9. r \in Procs
    BY <2>1, ProcRecord DEF Procs, Named, SelectUser
  <2>2. proc' = [proc EXCEPT ![w] = r]
    BY <1>1 DEF SharedTypeOK
  <2>. HIDE DEF r
  <2>. QED
    BY <2>9, <2>1, <2>2, <1>1 DEF ProcStep
<1>. QED
  BY <1>1 DEF SelectUser, tables

(* INSERT of the user: a row with new keys.                                *)
LEMMA InsertUserEffect ==
    ASSUME SharedTypeOK, NEW w \in Workers, InsertUser(w)
    PROVE  /\ proc[w].pc = "insert_user"
           /\ ~UserConflict(w)
           /\ users' = users \cup {[id |-> proc[w].user, name |-> proc[w].name]}
           /\ UNCHANGED <<creds, dev, fresh, restarts, enrolled, logins>>
           /\ \E r : /\ ProcStep(w, r)
                     /\ r.pc = "insert_credential"
                     /\ r.user = proc[w].user /\ r.cred = proc[w].cred
                     /\ r.count = proc[w].count
<1>. DEFINE r == [proc[w] EXCEPT !.pc = "insert_credential"]
<1>1. /\ r \in Records
      /\ r.kind = proc[w].kind /\ r.name = proc[w].name
      /\ r.pc = "insert_credential" /\ r.user = proc[w].user /\ r.cred = proc[w].cred /\ r.count = proc[w].count
  BY ProcRecord DEF SharedTypeOK, Records, Steps, Statements
<1>9. r \in Procs
  BY <1>1, ProcRecord DEF Procs, Named
<1>2. proc' = [proc EXCEPT ![w] = r]
  BY DEF SharedTypeOK, InsertUser
<1>. HIDE DEF r
<1>. QED
  BY <1>9, <1>1, <1>2 DEF ProcStep, InsertUser

(* INSERT of the credential: a row with a new key, and the end of the      *)
(* registration.                                                           *)
LEMMA InsertCredentialEffect ==
    ASSUME SharedTypeOK, NEW w \in Workers, InsertCredential(w)
    PROVE  /\ proc[w].pc = "insert_credential"
           /\ ~CredentialConflict(w)
           /\ creds' = creds \cup {[cred |-> proc[w].cred, user |-> proc[w].user,
                                    count |-> proc[w].count]}
           /\ enrolled' = enrolled \cup {[cred |-> proc[w].cred, count |-> proc[w].count]}
           /\ UNCHANGED <<users, dev, fresh, restarts, logins>>
           /\ \E r : ProcStep(w, r) /\ r.pc = "success" /\ r.cred = proc[w].cred
<1>. DEFINE r == [proc[w] EXCEPT !.pc = "success"]
<1>1. /\ r \in Records
      /\ r.kind = proc[w].kind /\ r.name = proc[w].name
      /\ r.pc = "success" /\ r.cred = proc[w].cred
  BY ProcRecord DEF SharedTypeOK, Records, Steps, Statements
<1>9. r \in Procs
  BY <1>1, ProcRecord DEF Procs, Named
<1>2. proc' = [proc EXCEPT ![w] = r]
  BY DEF SharedTypeOK, InsertCredential
<1>. HIDE DEF r
<1>. QED
  BY <1>9, <1>1, <1>2 DEF ProcStep, InsertCredential

(* get_credential and verify_authdata: the row read is remembered, and its *)
(* counter is lower when the process goes on.                              *)
LEMMA GetCredentialEffect ==
    ASSUME SharedTypeOK, NEW w \in Workers, GetCredential(w)
    PROVE  /\ proc[w].pc = "get_credential"
           /\ UNCHANGED <<users, creds, dev, fresh, restarts, enrolled, logins>>
           /\ \E r, row : /\ ProcStep(w, r)
                          /\ row \in creds /\ row.cred = proc[w].cred
                          /\ r.read = row.count
                          /\ \/ r.pc = "update_sign_count" /\ proc[w].count > row.count
                             \/ r.pc = "failure"
                          /\ r.cred = proc[w].cred /\ r.count = proc[w].count
<1>1. PICK row \in RowsOf(w) :
         proc' = [proc EXCEPT ![w].read = row.count,
                    ![w].pc = IF CountVerifies(w, row) THEN "update_sign_count" ELSE "failure"]
  BY DEF GetCredential
<1>2. row \in creds /\ row.cred = proc[w].cred /\ row.count \in Nat
  BY DEF RowsOf, SharedTypeOK
<1>. DEFINE pc == IF CountVerifies(w, row) THEN "update_sign_count" ELSE "failure"
<1>. DEFINE r == [proc[w] EXCEPT !.read = row.count, !.pc = pc]
<1>3. pc \in {"update_sign_count", "failure"}
      /\ (pc = "update_sign_count" => proc[w].count > row.count)
  BY DEF CountVerifies
<1>4. proc' = [proc EXCEPT ![w].read = row.count, ![w].pc = pc]
  BY <1>1
<1>. HIDE DEF pc
<1>5. /\ r \in Records
      /\ r.kind = proc[w].kind /\ r.name = proc[w].name
      /\ r.pc = pc /\ r.read = row.count /\ r.cred = proc[w].cred /\ r.count = proc[w].count
  BY <1>2, <1>3, ProcRecord DEF SharedTypeOK, Records, Steps, Statements
<1>9. r \in Procs
  BY <1>3, <1>5, ProcRecord DEF Procs, Named
<1>6. proc' = [proc EXCEPT ![w] = r]
  BY <1>4 DEF SharedTypeOK
<1>. HIDE DEF r
<1>. QED
  BY <1>9, <1>2, <1>3, <1>5, <1>6 DEF ProcStep, GetCredential, tables

(* update_sign_count: the counter of the response, whatever the row holds. *)
LEMMA UpdateSignCountEffect ==
    ASSUME SharedTypeOK, NEW w \in Workers, UpdateSignCount(w)
    PROVE  /\ proc[w].pc = "update_sign_count"
           /\ creds' = WithCount(proc[w].cred, proc[w].count)
           /\ logins' = Append(logins, [cred |-> proc[w].cred, count |-> proc[w].count])
           /\ UNCHANGED <<users, dev, fresh, restarts, enrolled>>
           /\ \E r : ProcStep(w, r) /\ r.pc = "success" /\ r.cred = proc[w].cred
<1>. DEFINE r == [proc[w] EXCEPT !.pc = "success"]
<1>1. /\ r \in Records
      /\ r.kind = proc[w].kind /\ r.name = proc[w].name
      /\ r.pc = "success" /\ r.cred = proc[w].cred
  BY ProcRecord DEF SharedTypeOK, Records, Steps, Statements
<1>9. r \in Procs
  BY <1>1, ProcRecord DEF Procs, Named
<1>2. proc' = [proc EXCEPT ![w] = r]
  BY DEF SharedTypeOK, UpdateSignCount
<1>. HIDE DEF r
<1>. QED
  BY <1>9, <1>1, <1>2 DEF ProcStep, UpdateSignCount

(* The authenticator makes a credential with an id of its own.             *)
LEMMA MakeCredentialEffect ==
    ASSUME SharedTypeOK, NEW w \in Workers, NEW d \in Devices, MakeCredential(w, d)
    PROVE  /\ dev' = [dev EXCEPT ![d].keys = @ \cup {[cred |-> fresh, user |-> proc[w].user]}]
           /\ fresh' = fresh + 1
           /\ UNCHANGED <<users, creds, restarts, enrolled, logins>>
           /\ \E r : /\ ProcStep(w, r)
                     /\ r.pc = "select_user" /\ r.cred = fresh /\ r.count = dev[d].count
<1>. DEFINE r == [proc[w] EXCEPT !.pc = "select_user", !.cred = fresh, !.count = dev[d].count]
<1>1. dev[d].count \in Nat /\ fresh \in Nat
  BY DEF SharedTypeOK
<1>2. /\ r \in Records
      /\ r.kind = proc[w].kind /\ r.name = proc[w].name
      /\ r.pc = "select_user" /\ r.cred = fresh /\ r.count = dev[d].count
  BY <1>1, ProcRecord DEF SharedTypeOK, Records, Steps, Statements
<1>9. r \in Procs
  BY <1>2, ProcRecord DEF Procs, Named, MakeCredential
<1>3. proc' = [proc EXCEPT ![w] = r]
  BY DEF SharedTypeOK, MakeCredential
<1>. HIDE DEF r
<1>. QED
  BY <1>9, <1>2, <1>3 DEF ProcStep, MakeCredential, tables

(* The authenticator counts up and answers with the new counter.           *)
LEMMA GetAssertionEffect ==
    ASSUME SharedTypeOK, NEW w \in Workers, NEW d \in Devices, GetAssertion(w, d)
    PROVE  /\ dev' = [dev EXCEPT ![d].count = @ + 1]
           /\ UNCHANGED <<users, creds, fresh, restarts, enrolled, logins>>
           /\ \E r : /\ ProcStep(w, r)
                     /\ r.pc = "get_credential" /\ r.cred \in KeysOf(d)
                     /\ r.count = dev[d].count + 1
<1>1. PICK k \in dev[d].keys :
         proc' = [proc EXCEPT ![w].pc = "get_credential", ![w].cred = k.cred,
                    ![w].user = IF proc[w].name = Null THEN k.user ELSE @,
                    ![w].count = dev[d].count + 1]
  BY DEF GetAssertion
<1>2. k.cred \in Nat /\ k.user \in Nat /\ dev[d].count \in Nat /\ k.cred \in KeysOf(d)
  BY DEF SharedTypeOK, KeysOf
<1>. DEFINE user == IF proc[w].name = Null THEN k.user ELSE proc[w].user
<1>. DEFINE n == dev[d].count + 1
<1>3. user \in Nat /\ n \in Nat
  BY <1>2, ProcRecord DEF Records
<1>4. proc' = [proc EXCEPT ![w].pc = "get_credential", ![w].cred = k.cred,
                 ![w].user = user, ![w].count = n]
  BY <1>1 DEF SharedTypeOK
<1>5. n = dev[d].count + 1
  OBVIOUS
<1>. HIDE DEF user, n
<1>. DEFINE r == [proc[w] EXCEPT !.pc = "get_credential", !.cred = k.cred,
                    !.user = user, !.count = n]
<1>6. /\ r \in Records
      /\ r.kind = proc[w].kind /\ r.name = proc[w].name
      /\ r.pc = "get_credential" /\ r.cred = k.cred /\ r.count = n
  BY <1>2, <1>3, ProcRecord DEF SharedTypeOK, Records, Steps, Statements
<1>9. r \in Procs
  BY <1>6, ProcRecord DEF Procs, Named
<1>7. proc' = [proc EXCEPT ![w] = r]
  BY <1>4 DEF SharedTypeOK
<1>. HIDE DEF r
<1>. QED
  BY <1>9, <1>2, <1>5, <1>6, <1>7 DEF ProcStep, GetAssertion, tables

-----------------------------------------------------------------------------
(* The inductive step, action by action.                                   *)

(* A quiet step disturbs nothing: it starts no response.                   *)
LEMMA QuietPreserves ==
    ASSUME SharedInv, NEW w \in Workers, Quiet(w)
    PROVE  SharedInv'
<1>1. PICK r : ProcStep(w, r) /\ r.pc \in QuietSteps /\ r.cred \in {0, proc[w].cred}
  BY DEF Quiet, QuietProc
<1>2. /\ proc' \in [Workers -> Procs]
      /\ proc'[w] = r
      /\ \A v \in Workers : v # w => proc'[v] = proc[v]
  BY <1>1, ProcAfter DEF SharedInv
<1>3. /\ fresh' \in {fresh, fresh + 1}
      /\ restarts' \in 0 .. MaxRestarts
      /\ UNCHANGED <<users, creds, dev, enrolled, logins>>
  BY DEF Quiet
<1>4. \A d \in Devices : KeysOf(d)' = KeysOf(d)
  BY <1>3 DEF KeysOf
<1>5. r.pc \notin {"select_user", "insert_user", "insert_credential",
                   "get_credential", "update_sign_count"}
  BY <1>1 DEF QuietSteps
<1>6. SharedTypeOK'
  BY <1>2, <1>3 DEF SharedInv, SharedTypeOK
<1>7. TablesConsistent'
  BY <1>3 DEF SharedInv, TablesConsistent, UniqueUsers, UniqueCredentials, Owned, UserKnown
<1>8. UserBeforeCredential'
  BY <1>2, <1>3, <1>5 DEF SharedInv, UserBeforeCredential, UserKnown
<1>9. FreshCredentials'
  <2>1. fresh \in Nat \ {0} /\ fresh' >= fresh /\ proc[w].cred < fresh /\ r.cred < fresh
    BY <1>1, <1>3 DEF SharedInv, SharedTypeOK, FreshCredentials
  <2>2. \A row \in creds' : row.cred < fresh'
    BY <1>3, <2>1 DEF SharedInv, SharedTypeOK, FreshCredentials
  <2>3. \A v \in Workers : proc'[v].cred < fresh'
    <3>1. \A v \in Workers : proc[v].cred \in Nat
      BY ProcRecord DEF SharedInv, Records
    <3>2. fresh' \in Nat /\ r.cred \in Nat
      BY <1>1, <1>3, <3>1, <2>1
    <3>3. \A v \in Workers : proc[v].cred < fresh
      BY DEF SharedInv, FreshCredentials
    <3>. QED
      BY <1>2, <2>1, <3>1, <3>2, <3>3
  <2>4. \A d \in Devices : \A c \in KeysOf(d)' : c < fresh'
    <3>1. \A d \in Devices : KeysOf(d) \subseteq Nat
      BY DEF SharedInv, SharedTypeOK, KeysOf
    <3>. QED
      BY <1>4, <1>3, <2>1, <3>1 DEF SharedInv, FreshCredentials
  <2>. QED
    BY <2>2, <2>3, <2>4 DEF FreshCredentials
<1>10. OneHolder'
  BY <1>4 DEF SharedInv, OneHolder
<1>11. NoneAhead'
  BY <1>2, <1>3, <1>4, <1>5 DEF SharedInv, NoneAhead, Responding
<1>12. AssertionsDiffer'
  BY <1>2, <1>3, <1>4, <1>5 DEF SharedInv, AssertionsDiffer, Asserting
<1>13. DeviceAhead' /\ NoAssertionTwice'
  BY <1>3, <1>4 DEF SharedInv, DeviceAhead, NoAssertionTwice
<1>14. CountsAboveEnrolment'
  BY <1>2, <1>3, <1>5 DEF SharedInv, CountsAboveEnrolment, AboveEnrolment
<1>. QED
  BY <1>6, <1>7, <1>8, <1>9, <1>10, <1>11, <1>12, <1>13, <1>14 DEF SharedInv

(* add_creds until the credential is inserted: the response stays what it  *)
(* is, the credentials and the devices too.                                *)
LEMMA BeforeInsertPreserves ==
    ASSUME SharedInv, NEW w \in Workers, NEW r, ProcStep(w, r), Responding(w),
           r.pc \in {"insert_user", "insert_credential"},
           r.cred = proc[w].cred, r.count = proc[w].count,
           UNCHANGED <<creds, dev, fresh, restarts, enrolled, logins>>
    PROVE  /\ FreshCredentials' /\ OneHolder' /\ NoneAhead' /\ AssertionsDiffer'
           /\ DeviceAhead' /\ NoAssertionTwice' /\ CountsAboveEnrolment'
<1>1. /\ proc' \in [Workers -> Procs]
      /\ proc'[w] = r
      /\ \A v \in Workers : v # w => proc'[v] = proc[v]
  BY ProcAfter DEF SharedInv
<1>2. \A d \in Devices : KeysOf(d)' = KeysOf(d)
  BY DEF KeysOf
<1>3. FreshCredentials' /\ OneHolder'
  BY <1>1, <1>2 DEF SharedInv, FreshCredentials, OneHolder
<1>4. NoneAhead'
  BY <1>1, <1>2 DEF SharedInv, NoneAhead, Responding
<1>5. AssertionsDiffer'
  BY <1>1, <1>2 DEF SharedInv, AssertionsDiffer, Asserting
<1>6. DeviceAhead' /\ NoAssertionTwice'
  BY <1>2 DEF SharedInv, DeviceAhead, NoAssertionTwice
<1>7. CountsAboveEnrolment'
  BY <1>1 DEF SharedInv, CountsAboveEnrolment, AboveEnrolment
<1>. QED
  BY <1>3, <1>4, <1>5, <1>6, <1>7

(* SELECT finds the user or leads to its INSERT.                           *)
LEMMA SelectUserPreserves ==
    ASSUME SharedInv, NEW w \in Workers, SelectUser(w)
    PROVE  SharedInv'
<1>1. PICK r : /\ ProcStep(w, r)
               /\ r.pc \in {"insert_credential", "insert_user"}
               /\ r.pc = "insert_credential" /\ ~Busy => UserKnown(proc[w].user)
               /\ r.user = proc[w].user /\ r.cred = proc[w].cred
               /\ r.count = proc[w].count
  BY SelectUserEffect DEF SharedInv
<1>2. /\ proc[w].pc = "select_user"
      /\ UNCHANGED <<users, creds, dev, fresh, restarts, enrolled, logins>>
  BY SelectUserEffect DEF SharedInv
<1>3. /\ proc' \in [Workers -> Procs]
      /\ proc'[w] = r
      /\ \A v \in Workers : v # w => proc'[v] = proc[v]
  BY <1>1, ProcAfter DEF SharedInv
<1>4. SharedTypeOK'
  BY <1>2, <1>3 DEF SharedInv, SharedTypeOK
<1>5. TablesConsistent'
  BY <1>2 DEF SharedInv, TablesConsistent, UniqueUsers, UniqueCredentials, Owned, UserKnown
<1>6. UserBeforeCredential'
  BY <1>1, <1>2, <1>3 DEF SharedInv, UserBeforeCredential, UserKnown
<1>7. Responding(w)
  BY <1>2 DEF Responding
<1>. QED
  BY <1>1, <1>2, <1>4, <1>5, <1>6, <1>7, BeforeInsertPreserves DEF SharedInv

(* UserConflict keeps the keys of table users unique.                      *)
LEMMA InsertUserPreserves ==
    ASSUME SharedInv, NEW w \in Workers, InsertUser(w)
    PROVE  SharedInv'
<1>1. PICK r : /\ ProcStep(w, r)
               /\ r.pc = "insert_credential"
               /\ r.user = proc[w].user /\ r.cred = proc[w].cred
               /\ r.count = proc[w].count
  BY InsertUserEffect DEF SharedInv
<1>2. /\ proc[w].pc = "insert_user"
      /\ ~UserConflict(w)
      /\ users' = users \cup {[id |-> proc[w].user, name |-> proc[w].name]}
      /\ UNCHANGED <<creds, dev, fresh, restarts, enrolled, logins>>
  BY InsertUserEffect DEF SharedInv
<1>3. /\ proc' \in [Workers -> Procs]
      /\ proc'[w] = r
      /\ \A v \in Workers : v # w => proc'[v] = proc[v]
  BY <1>1, ProcAfter DEF SharedInv
<1>4. proc[w].user \in Nat /\ proc[w].name \in Names
  BY <1>2, ProcRecord DEF SharedInv, Records, Named
<1>5. SharedTypeOK'
  <2>1. users' \subseteq [id : Nat, name : Names]
    BY <1>2, <1>4 DEF SharedInv, SharedTypeOK
  <2>. QED
    BY <2>1, <1>2, <1>3 DEF SharedInv, SharedTypeOK
<1>6. TablesConsistent'
  <2>1. \A u \in users : u.id # proc[w].user /\ u.name # proc[w].name
    BY <1>2 DEF UserConflict, UserKnown, IdsOf
  <2>2. UniqueUsers'
    BY <1>2, <2>1 DEF SharedInv, TablesConsistent, UniqueUsers
  <2>3. UniqueCredentials' /\ (~Busy => Owned')
    BY <1>2 DEF SharedInv, TablesConsistent, UniqueCredentials, Owned, UserKnown
  <2>. QED
    BY <2>2, <2>3 DEF TablesConsistent
<1>7. UserBeforeCredential'
  <2>1. \A u \in users : u \in users'
    BY <1>2
  <2>2. \E u \in users' : u.id = proc'[w].user
    <3>. DEFINE new == [id |-> proc[w].user, name |-> proc[w].name]
    <3>1. new \in users' /\ new.id = proc'[w].user
      BY <1>1, <1>2, <1>3
    <3>. QED
      BY <3>1
  <2>3. ASSUME NEW v \in Workers, ~Busy, v # w, proc'[v].pc = "insert_credential"
        PROVE  \E u \in users' : u.id = proc'[v].user
    <3>1. UserKnown(proc[v].user) /\ proc'[v] = proc[v]
      BY <1>3, <2>3 DEF SharedInv, UserBeforeCredential
    <3>. QED
      BY <3>1, <2>1 DEF UserKnown
  <2>. QED
    BY <2>2, <2>3 DEF UserBeforeCredential, UserKnown
<1>8. Responding(w)
  BY <1>2 DEF Responding
<1>. QED
  BY <1>1, <1>2, <1>5, <1>6, <1>7, <1>8, BeforeInsertPreserves DEF SharedInv

(* CredentialConflict keeps credential ids unique, and the counter of the  *)
(* row is not ahead of its device.                                         *)
LEMMA InsertCredentialPreserves ==
    ASSUME SharedInv, NEW w \in Workers, InsertCredential(w)
    PROVE  SharedInv'
<1>. DEFINE new == [cred |-> proc[w].cred, user |-> proc[w].user, count |-> proc[w].count]
            ent == [cred |-> proc[w].cred, count |-> proc[w].count]
<1>1. PICK r : ProcStep(w, r) /\ r.pc = "success" /\ r.cred = proc[w].cred
  BY InsertCredentialEffect DEF SharedInv
<1>2. /\ proc[w].pc = "insert_credential"
      /\ ~CredentialConflict(w)
      /\ creds' = creds \cup {new}
      /\ enrolled' = enrolled \cup {ent}
      /\ UNCHANGED <<users, dev, fresh, restarts, logins>>
  BY InsertCredentialEffect DEF SharedInv
<1>3. /\ proc' \in [Workers -> Procs]
      /\ proc'[w] = r
      /\ \A v \in Workers : v # w => proc'[v] = proc[v]
  BY <1>1, ProcAfter DEF SharedInv
<1>4. proc[w].user \in Nat /\ proc[w].cred \in Nat /\ proc[w].count \in Nat
  BY ProcRecord DEF SharedInv, Records
<1>5. /\ new \in [cred : Nat, user : Nat, count : Nat]
      /\ new.cred = proc[w].cred /\ new.user = proc[w].user /\ new.count = proc[w].count
      /\ ent \in [cred : Nat, count : Nat]
      /\ ent.cred = proc[w].cred /\ ent.count = proc[w].count
  BY <1>4
<1>. HIDE DEF new, ent
<1>6. \A d \in Devices : KeysOf(d)' = KeysOf(d)
  BY <1>2 DEF KeysOf
<1>7. SharedTypeOK'
  BY <1>2, <1>3, <1>5 DEF SharedInv, SharedTypeOK
<1>8. TablesConsistent'
  <2>1. UniqueUsers'
    BY <1>2 DEF SharedInv, TablesConsistent, UniqueUsers
  <2>2. UniqueCredentials'
    BY <1>2, <1>5 DEF SharedInv, TablesConsistent, UniqueCredentials, CredentialConflict
  <2>3. ASSUME ~Busy PROVE Owned'
    BY <1>2, <1>5, <2>3
       DEF SharedInv, TablesConsistent, Owned, UserKnown, UserBeforeCredential
  <2>. QED
    BY <2>1, <2>2, <2>3 DEF TablesConsistent
<1>9. UserBeforeCredential'
  BY <1>1, <1>2, <1>3 DEF SharedInv, UserBeforeCredential, UserKnown
<1>10. FreshCredentials' /\ OneHolder'
  BY <1>1, <1>2, <1>3, <1>5, <1>6 DEF SharedInv, FreshCredentials, OneHolder
<1>11. NoneAhead'
  BY <1>1, <1>2, <1>3, <1>6 DEF SharedInv, NoneAhead, Responding
<1>12. AssertionsDiffer'
  BY <1>1, <1>2, <1>3, <1>6 DEF SharedInv, AssertionsDiffer, Asserting
<1>13. DeviceAhead' /\ NoAssertionTwice'
  BY <1>2, <1>5, <1>6 DEF SharedInv, DeviceAhead, NoAssertionTwice, NoneAhead, Responding
<1>14. CountsAboveEnrolment'
  <2>1. enrolled \subseteq enrolled'
    BY <1>2
  <2>2. \E f \in enrolled' : f.cred = new.cred /\ f.count =< new.count
    BY <1>2, <1>4, <1>5
  <2>3. \A row \in creds' : \E f \in enrolled' : f.cred = row.cred /\ f.count =< row.count
    BY <1>2, <2>1, <2>2 DEF SharedInv, CountsAboveEnrolment, AboveEnrolment
  <2>4. ASSUME NEW v \in Workers, proc'[v].pc = "update_sign_count"
        PROVE  /\ proc'[v].read < proc'[v].count
               /\ \E f \in enrolled' : f.cred = proc'[v].cred /\ f.count =< proc'[v].read
    <3>1. proc'[v] = proc[v]
      BY <1>1, <1>3, <2>4
    <3>. QED
      BY <2>4, <3>1, <1>2 DEF SharedInv, CountsAboveEnrolment, AboveEnrolment
  <2>. QED
    BY <2>3, <2>4 DEF CountsAboveEnrolment, AboveEnrolment
<1>. QED
  BY <1>7, <1>8, <1>9, <1>10, <1>11, <1>12, <1>13, <1>14 DEF SharedInv

(* The counter read is below that of the response.                         *)
LEMMA GetCredentialPreserves ==
    ASSUME SharedInv, NEW w \in Workers, GetCredential(w)
    PROVE  SharedInv'
<1>1. PICK r, row : /\ ProcStep(w, r)
                    /\ row \in creds /\ row.cred = proc[w].cred
                    /\ r.read = row.count
                    /\ \/ r.pc = "update_sign_count" /\ proc[w].count > row.count
                       \/ r.pc = "failure"
                    /\ r.cred = proc[w].cred /\ r.count = proc[w].count
  BY GetCredentialEffect DEF SharedInv
<1>2. /\ proc[w].pc = "get_credential"
      /\ UNCHANGED <<users, creds, dev, fresh, restarts, enrolled, logins>>
  BY GetCredentialEffect DEF SharedInv
<1>3. /\ proc' \in [Workers -> Procs]
      /\ proc'[w] = r
      /\ \A v \in Workers : v # w => proc'[v] = proc[v]
  BY <1>1, ProcAfter DEF SharedInv
<1>4. \A d \in Devices : KeysOf(d)' = KeysOf(d)
  BY <1>2 DEF KeysOf
<1>5. SharedTypeOK'
  BY <1>2, <1>3 DEF SharedInv, SharedTypeOK
<1>6. TablesConsistent'
  BY <1>2 DEF SharedInv, TablesConsistent, UniqueUsers, UniqueCredentials, Owned, UserKnown
<1>7. UserBeforeCredential'
  BY <1>1, <1>2, <1>3 DEF SharedInv, UserBeforeCredential, UserKnown
<1>8. FreshCredentials' /\ OneHolder'
  BY <1>1, <1>2, <1>3, <1>4 DEF SharedInv, FreshCredentials, OneHolder
<1>9. NoneAhead'
  BY <1>1, <1>2, <1>3, <1>4 DEF SharedInv, NoneAhead, Responding
<1>10. AssertionsDiffer'
  BY <1>1, <1>2, <1>3, <1>4 DEF SharedInv, AssertionsDiffer, Asserting
<1>11. DeviceAhead' /\ NoAssertionTwice'
  BY <1>2, <1>4 DEF SharedInv, DeviceAhead, NoAssertionTwice
<1>12. CountsAboveEnrolment'
  <2>1. proc[w].count \in Nat /\ row.count \in Nat
    BY <1>1, ProcRecord DEF SharedInv, Records, SharedTypeOK
  <2>. QED
    BY <1>1, <1>2, <1>3, <2>1 DEF SharedInv, CountsAboveEnrolment, AboveEnrolment
<1>. QED
  BY <1>5, <1>6, <1>7, <1>8, <1>9, <1>10, <1>11, <1>12 DEF SharedInv

(* The UPDATE of update_sign_count gives every row another counter at most. *)
LEMMA WithCountRows ==
    ASSUME SharedTypeOK, NEW c \in Nat, NEW n \in Nat
    PROVE  /\ WithCount(c, n) \subseteq [cred : Nat, user : Nat, count : Nat]
           /\ \A s \in WithCount(c, n) : \E row \in creds :
                 /\ s.cred = row.cred /\ s.user = row.user
                 /\ s.count = IF row.cred = c THEN n ELSE row.count
                 /\ s = IF row.cred = c THEN [row EXCEPT !.count = n] ELSE row
<1>1. ASSUME NEW s \in WithCount(c, n)
      PROVE  /\ s \in [cred : Nat, user : Nat, count : Nat]
             /\ \E row \in creds :
                   /\ s.cred = row.cred /\ s.user = row.user
                   /\ s.count = IF row.cred = c THEN n ELSE row.count
                   /\ s = IF row.cred = c THEN [row EXCEPT !.count = n] ELSE row
  <2>1. PICK row \in creds : s = IF row.cred = c THEN [row EXCEPT !.count = n] ELSE row
    BY <1>1 DEF WithCount
  <2>2. row \in [cred : Nat, user : Nat, count : Nat]
    BY DEF SharedTypeOK
  <2>3. /\ s \in [cred : Nat, user : Nat, count : Nat]
        /\ s.cred = row.cred /\ s.user = row.user
        /\ s.count = IF row.cred = c THEN n ELSE row.count
    BY <2>1, <2>2
  <2>. QED
    BY <2>1, <2>3
<1>. QED
  BY <1>1

(* The accepted assertion is none that was accepted before.                *)
LEMMA UpdateSignCountPreserves ==
    ASSUME SharedInv, NEW w \in Workers, UpdateSignCount(w)
    PROVE  SharedInv'
<1>. DEFINE c == proc[w].cred
            n == proc[w].count
            new == [cred |-> c, count |-> n]
<1>1. PICK r : ProcStep(w, r) /\ r.pc = "success" /\ r.cred = c
  BY UpdateSignCountEffect DEF SharedInv
<1>2. /\ proc[w].pc = "update_sign_count"
      /\ creds' = WithCount(c, n)
      /\ logins' = Append(logins, new)
      /\ UNCHANGED <<users, dev, fresh, restarts, enrolled>>
  BY UpdateSignCountEffect DEF SharedInv
<1>3. /\ proc' \in [Workers -> Procs]
      /\ proc'[w] = r
      /\ \A v \in Workers : v # w => proc'[v] = proc[v]
  BY <1>1, ProcAfter DEF SharedInv
<1>4. c \in Nat /\ n \in Nat
  BY ProcRecord DEF SharedInv, Records
<1>5. c = proc[w].cred /\ n = proc[w].count
  OBVIOUS
<1>6. new \in [cred : Nat, count : Nat] /\ new.cred = c /\ new.count = n
  BY <1>4
<1>. HIDE DEF c, n, new
<1>7. SharedTypeOK
  BY DEF SharedInv
<1>8. /\ creds' \subseteq [cred : Nat, user : Nat, count : Nat]
      /\ \A s \in creds' : \E row \in creds :
            /\ s.cred = row.cred /\ s.user = row.user
            /\ s.count = IF row.cred = c THEN n ELSE row.count
            /\ s = IF row.cred = c THEN [row EXCEPT !.count = n] ELSE row
  BY <1>2, <1>4, <1>7, WithCountRows
<1>9. \A d \in Devices : KeysOf(d)' = KeysOf(d)
  BY <1>2 DEF KeysOf
<1>10. /\ DOMAIN logins' = 1 .. Len(logins) + 1
       /\ DOMAIN logins = 1 .. Len(logins) /\ Len(logins) \in Nat
       /\ \A i \in DOMAIN logins : logins'[i] = logins[i]
       /\ logins'[Len(logins) + 1] = new
       /\ logins' \in Seq([cred : Nat, count : Nat])
  <2>1. logins \in Seq([cred : Nat, count : Nat])
    BY <1>7 DEF SharedTypeOK
  <2>2. /\ DOMAIN logins = 1 .. Len(logins) /\ Len(logins) \in Nat
        /\ logins' \in Seq([cred : Nat, count : Nat])
        /\ Len(logins') = Len(logins) + 1
        /\ \A i \in 1 .. Len(logins) : logins'[i] = logins[i]
        /\ logins'[Len(logins) + 1] = new
    BY <1>2, <1>6, <2>1
  <2>. QED
    BY <2>2
<1>11. \A i \in DOMAIN logins' :
         \/ i \in DOMAIN logins /\ logins'[i] = logins[i]
         \/ i = Len(logins) + 1 /\ logins'[i] = new
  BY <1>10
<1>12. SharedTypeOK'
  BY <1>2, <1>3, <1>7, <1>8, <1>10 DEF SharedTypeOK
<1>13. TablesConsistent'
  <2>1. UniqueUsers'
    BY <1>2 DEF SharedInv, TablesConsistent, UniqueUsers
  <2>2. UniqueCredentials'
    BY <1>8 DEF SharedInv, TablesConsistent, UniqueCredentials
  <2>3. ASSUME ~Busy PROVE Owned'
    BY <1>2, <1>8, <2>3 DEF SharedInv, TablesConsistent, Owned, UserKnown
  <2>. QED
    BY <2>1, <2>2, <2>3 DEF TablesConsistent
<1>14. UserBeforeCredential'
  BY <1>1, <1>2, <1>3 DEF SharedInv, UserBeforeCredential, UserKnown
<1>15. FreshCredentials' /\ OneHolder'
  <2>1. \A row \in creds' : row.cred < fresh'
    BY <1>2, <1>8 DEF SharedInv, FreshCredentials
  <2>. QED
    BY <1>1, <1>2, <1>3, <1>5, <1>9, <2>1 DEF SharedInv, FreshCredentials, OneHolder
<1>16. NoneAhead'
  <2>1. ASSUME ~Clones, NEW d \in Devices, NEW v \in Workers,
               Responding(v)', (proc[v].cred \in KeysOf(d))'
        PROVE  proc'[v].count =< dev'[d].count
    BY <1>1, <1>2, <1>3, <1>9, <2>1 DEF SharedInv, NoneAhead, Responding
  <2>2. ASSUME ~Clones, NEW d \in Devices, NEW i \in DOMAIN logins',
               (logins[i].cred \in KeysOf(d))'
        PROVE  logins'[i].count =< dev'[d].count
    BY <1>2, <1>5, <1>6, <1>9, <1>11, <2>2 DEF SharedInv, NoneAhead, Responding
  <2>. QED
    BY <2>1, <2>2 DEF NoneAhead
<1>17. AssertionsDiffer'
  <2>. SUFFICES ASSUME ~Clones PROVE AssertionsDiffer'
    BY DEF AssertionsDiffer
  <2>1. \A v \in Workers : Asserting(v)' => Asserting(v) /\ v # w /\ proc'[v] = proc[v]
    BY <1>1, <1>3 DEF Asserting
  <2>2. Asserting(w)
    BY <1>2 DEF Asserting
  <2>3. ASSUME NEW v \in Workers, Asserting(v)', NEW i \in DOMAIN logins'
        PROVE  ~(logins'[i].cred = proc'[v].cred /\ logins'[i].count = proc'[v].count)
    BY <1>5, <1>6, <1>11, <2>1, <2>2, <2>3 DEF SharedInv, AssertionsDiffer
  <2>4. \A i \in DOMAIN logins' : \E d \in Devices : logins'[i].cred \in KeysOf(d)'
    BY <1>5, <1>6, <1>9, <1>11, <2>2 DEF SharedInv, AssertionsDiffer
  <2>5. \A v \in Workers : Asserting(v)' => \E d \in Devices : proc'[v].cred \in KeysOf(d)'
    BY <1>9, <2>1 DEF SharedInv, AssertionsDiffer
  <2>6. \A u, v \in Workers : Asserting(u)' /\ Asserting(v)' /\ proc'[u].cred = proc'[v].cred
                                /\ proc'[u].count = proc'[v].count => u = v
    BY <2>1 DEF SharedInv, AssertionsDiffer
  <2>. QED
    BY <2>3, <2>4, <2>5, <2>6 DEF AssertionsDiffer
<1>18. DeviceAhead'
  <2>1. ASSUME ~Clones, NEW d \in Devices, NEW s \in creds', s.cred \in KeysOf(d)
        PROVE  s.count =< dev[d].count
    <3>1. PICK row \in creds : /\ s.cred = row.cred
                               /\ s.count = IF row.cred = c THEN n ELSE row.count
      BY <1>8
    <3>2. CASE row.cred = c
      BY <1>2, <1>5, <2>1, <3>1, <3>2 DEF SharedInv, NoneAhead, Responding
    <3>3. CASE row.cred # c
      BY <2>1, <3>1, <3>3 DEF SharedInv, DeviceAhead
    <3>. QED
      BY <3>2, <3>3
  <2>. QED
    BY <1>2, <1>9, <2>1 DEF DeviceAhead
<1>19. NoAssertionTwice'
  <2>1. ASSUME ~Clones, NEW i \in DOMAIN logins
        PROVE  logins[i] # new
    BY <1>2, <1>5, <1>6, <2>1 DEF SharedInv, AssertionsDiffer, Asserting
  <2>. QED
    BY <1>11, <2>1 DEF SharedInv, NoAssertionTwice
<1>20. CountsAboveEnrolment'
  <2>1. \E f \in enrolled : f.cred = c /\ f.count =< n
    <3>1. PICK f \in enrolled : f.cred = c /\ f.count =< proc[w].read
      BY <1>2, <1>5 DEF SharedInv, CountsAboveEnrolment, AboveEnrolment
    <3>2. proc[w].read < n /\ proc[w].read \in Nat /\ f.count \in Nat
      BY <1>2, <1>5, <1>7, ProcRecord
         DEF SharedInv, CountsAboveEnrolment, SharedTypeOK, Records
    <3>. QED
      BY <1>4, <3>1, <3>2
  <2>2. \A s \in creds' : \E f \in enrolled' : f.cred = s.cred /\ f.count =< s.count
    BY <1>2, <1>8, <2>1 DEF SharedInv, CountsAboveEnrolment, AboveEnrolment
  <2>3. \A v \in Workers : proc'[v].pc = "update_sign_count" => proc'[v] = proc[v]
    BY <1>1, <1>3
  <2>. QED
    BY <1>2, <2>2, <2>3 DEF SharedInv, CountsAboveEnrolment, AboveEnrolment
<1>. QED
  BY <1>12, <1>13, <1>14, <1>15, <1>16, <1>17, <1>18, <1>19, <1>20 DEF SharedInv

(* A new credential has one holder.                                        *)
LEMMA MakeCredentialPreserves ==
    ASSUME SharedInv, NEW w \in Workers, NEW d \in Devices, MakeCredential(w, d)
    PROVE  SharedInv'
<1>. DEFINE key == [cred |-> fresh, user |-> proc[w].user]
<1>1. PICK r : /\ ProcStep(w, r)
               /\ r.pc = "select_user" /\ r.cred = fresh /\ r.count = dev[d].count
  BY MakeCredentialEffect DEF SharedInv
<1>2. /\ dev' = [dev EXCEPT ![d].keys = @ \cup {key}]
      /\ fresh' = fresh + 1
      /\ UNCHANGED <<users, creds, restarts, enrolled, logins>>
  BY MakeCredentialEffect DEF SharedInv
<1>3. /\ proc' \in [Workers -> Procs]
      /\ proc'[w] = r
      /\ \A v \in Workers : v # w => proc'[v] = proc[v]
  BY <1>1, ProcAfter DEF SharedInv
<1>4. SharedTypeOK /\ proc[w].user \in Nat /\ fresh \in Nat \ {0}
  BY ProcRecord DEF SharedInv, SharedTypeOK, Records
<1>5. key \in [cred : Nat, user : Nat] /\ key.cred = fresh
  BY <1>4
<1>. HIDE DEF key
<1>6. /\ dev' \in [Devices -> [keys : SUBSET [cred : Nat, user : Nat], count : Nat]]
      /\ \A e \in Devices : dev'[e].count = dev[e].count
      /\ dev'[d].keys = dev[d].keys \cup {key}
      /\ \A e \in Devices : e # d => dev'[e].keys = dev[e].keys
  BY <1>2, <1>4, <1>5 DEF SharedTypeOK
<1>7. /\ KeysOf(d)' = KeysOf(d) \cup {fresh}
      /\ \A e \in Devices : e # d => KeysOf(e)' = KeysOf(e)
  BY <1>5, <1>6 DEF KeysOf
<1>8. /\ \A row \in creds : row.cred < fresh /\ row.cred \in Nat
      /\ \A v \in Workers : proc[v].cred < fresh /\ proc[v].cred \in Nat
      /\ \A e \in Devices : \A c \in KeysOf(e) : c < fresh /\ c \in Nat
  BY ProcRecord DEF SharedInv, SharedTypeOK, Records, FreshCredentials, KeysOf
<1>9. SharedTypeOK'
  BY <1>2, <1>3, <1>4, <1>6 DEF SharedTypeOK
<1>10. TablesConsistent'
  BY <1>2 DEF SharedInv, TablesConsistent, UniqueUsers, UniqueCredentials, Owned, UserKnown
<1>11. UserBeforeCredential'
  BY <1>1, <1>2, <1>3 DEF SharedInv, UserBeforeCredential, UserKnown
<1>12. FreshCredentials'
  <2>1. \A v \in Workers : proc'[v].cred < fresh'
    BY <1>1, <1>2, <1>3, <1>4, <1>8
  <2>2. \A e \in Devices : \A c \in KeysOf(e)' : c < fresh'
    BY <1>2, <1>4, <1>7, <1>8
  <2>3. \A row \in creds' : row.cred < fresh'
    BY <1>2, <1>4, <1>8
  <2>. QED
    BY <2>1, <2>2, <2>3 DEF FreshCredentials
<1>13. OneHolder'
  <2>1. \A e \in Devices : fresh \notin KeysOf(e)
    BY <1>4, <1>8
  <2>. QED
    BY <1>7, <2>1 DEF SharedInv, OneHolder
<1>14. ASSUME NEW c, c < fresh, c \in Nat, NEW e \in Devices, c \in KeysOf(e)'
       PROVE  c \in KeysOf(e)
  BY <1>4, <1>7, <1>14
<1>15. ASSUME ~Clones, NEW i \in DOMAIN logins
       PROVE  logins[i].cred < fresh /\ logins[i].cred \in Nat
  BY <1>8, <1>15 DEF SharedInv, AssertionsDiffer
<1>16. NoneAhead'
  <2>1. ASSUME ~Clones, NEW e \in Devices, NEW v \in Workers,
               Responding(v)', (proc[v].cred \in KeysOf(e))'
        PROVE  proc'[v].count =< dev'[e].count
    <3>1. CASE v = w
      <4>1. e = d
        BY <1>1, <1>3, <1>4, <1>7, <1>8, <2>1, <3>1
      <4>2. dev[d].count \in Nat
        BY <1>4 DEF SharedTypeOK
      <4>. QED
        BY <1>1, <1>3, <1>6, <3>1, <4>1, <4>2
    <3>2. CASE v # w
      <4>1. proc'[v] = proc[v] /\ Responding(v) /\ proc[v].cred \in KeysOf(e)
        BY <1>3, <1>8, <1>14, <2>1, <3>2 DEF Responding
      <4>. QED
        BY <1>6, <2>1, <4>1 DEF SharedInv, NoneAhead
    <3>. QED
      BY <3>1, <3>2
  <2>2. ASSUME ~Clones, NEW e \in Devices, NEW i \in DOMAIN logins,
               (logins[i].cred \in KeysOf(e))'
        PROVE  logins[i].count =< dev'[e].count
    <3>1. logins[i].cred \in KeysOf(e)
      BY <1>2, <1>14, <1>15, <2>2
    <3>. QED
      BY <1>6, <2>2, <3>1 DEF SharedInv, NoneAhead
  <2>. QED
    BY <1>2, <2>1, <2>2 DEF NoneAhead
<1>17. AssertionsDiffer'
  <2>1. \A v \in Workers : Asserting(v)' => Asserting(v) /\ v # w /\ proc'[v] = proc[v]
    BY <1>1, <1>3 DEF Asserting
  <2>2. \A e \in Devices : KeysOf(e) \subseteq KeysOf(e)'
    BY <1>7
  <2>. QED
    BY <1>2, <2>1, <2>2 DEF SharedInv, AssertionsDiffer
<1>18. DeviceAhead'
  BY <1>2, <1>6, <1>8, <1>14 DEF SharedInv, DeviceAhead
<1>19. NoAssertionTwice'
  BY <1>2 DEF SharedInv, NoAssertionTwice
<1>20. CountsAboveEnrolment'
  BY <1>1, <1>2, <1>3 DEF SharedInv, CountsAboveEnrolment, AboveEnrolment
<1>. QED
  BY <1>9, <1>10, <1>11, <1>12, <1>13, <1>16, <1>17, <1>18, <1>19, <1>20 DEF SharedInv

(* The fields of an accepted login are numbers.                            *)
LEMMA LoginFields ==
    ASSUME SharedTypeOK, NEW i \in DOMAIN logins
    PROVE  logins[i].cred \in Nat /\ logins[i].count \in Nat
<1>1. logins \in Seq([cred : Nat, count : Nat])
  BY DEF SharedTypeOK
<1>. DEFINE S == [cred : Nat, count : Nat]
<1>2. logins \in Seq(S) /\ i \in 1 .. Len(logins)
  BY <1>1
<1>. HIDE DEF S
<1>3. logins[i] \in S
  BY <1>2, ElementOfSeq
<1>. QED
  BY <1>3 DEF S

(* The new assertion is ahead of all others of its credential.             *)
LEMMA GetAssertionPreserves ==
    ASSUME SharedInv, NEW w \in Workers, NEW d \in Devices, GetAssertion(w, d)
    PROVE  SharedInv'
<1>1. PICK r : /\ ProcStep(w, r)
               /\ r.pc = "get_credential" /\ r.cred \in KeysOf(d)
               /\ r.count = dev[d].count + 1
  BY GetAssertionEffect DEF SharedInv
<1>2. /\ dev' = [dev EXCEPT ![d].count = @ + 1]
      /\ UNCHANGED <<users, creds, fresh, restarts, enrolled, logins>>
  BY GetAssertionEffect DEF SharedInv
<1>3. /\ proc' \in [Workers -> Procs]
      /\ proc'[w] = r
      /\ \A v \in Workers : v # w => proc'[v] = proc[v]
  BY <1>1, ProcAfter DEF SharedInv
<1>4. SharedTypeOK
  BY DEF SharedInv
<1>5. /\ dev' \in [Devices -> [keys : SUBSET [cred : Nat, user : Nat], count : Nat]]
      /\ \A e \in Devices : dev'[e].keys = dev[e].keys
      /\ dev'[d].count = dev[d].count + 1
      /\ \A e \in Devices : e # d => dev'[e].count = dev[e].count
  BY <1>2, <1>4 DEF SharedTypeOK
<1>6. \A e \in Devices : KeysOf(e)' = KeysOf(e)
  BY <1>5 DEF KeysOf
<1>7. \A e \in Devices : dev[e].count \in Nat /\ dev[e].count =< dev'[e].count
  <2>1. \A e \in Devices : dev[e].count \in Nat
    BY <1>4 DEF SharedTypeOK
  <2>. QED
    BY <1>5, <2>1
<1>8. SharedTypeOK'
  BY <1>2, <1>3, <1>4, <1>5 DEF SharedTypeOK
<1>9. TablesConsistent'
  BY <1>2 DEF SharedInv, TablesConsistent, UniqueUsers, UniqueCredentials, Owned, UserKnown
<1>10. UserBeforeCredential'
  BY <1>1, <1>2, <1>3 DEF SharedInv, UserBeforeCredential, UserKnown
<1>11. FreshCredentials' /\ OneHolder'
  BY <1>1, <1>2, <1>3, <1>6 DEF SharedInv, FreshCredentials, OneHolder
<1>12. NoneAhead'
  <2>1. ASSUME ~Clones, NEW e \in Devices, NEW v \in Workers,
               Responding(v)', (proc[v].cred \in KeysOf(e))'
        PROVE  proc'[v].count =< dev'[e].count
    <3>1. CASE v = w
      BY <1>1, <1>3, <1>5, <1>6, <1>7, <2>1, <3>1 DEF SharedInv, OneHolder
    <3>2. CASE v # w
      <4>1. proc[v].count =< dev[e].count /\ proc'[v] = proc[v]
        BY <1>3, <1>6, <2>1, <3>2 DEF SharedInv, NoneAhead, Responding
      <4>2. proc[v].count \in Nat /\ dev'[e].count \in Nat
        BY <1>4, <1>5, ProcRecord DEF Records
      <4>. QED
        BY <1>7, <4>1, <4>2
    <3>. QED
      BY <3>1, <3>2
  <2>2. ASSUME ~Clones, NEW e \in Devices, NEW i \in DOMAIN logins,
               (logins[i].cred \in KeysOf(e))'
        PROVE  logins[i].count =< dev'[e].count
    <3>1. logins[i].count =< dev[e].count
      BY <1>2, <1>6, <2>2 DEF SharedInv, NoneAhead
    <3>2. logins[i].count \in Nat /\ dev'[e].count \in Nat
      BY <1>4, <1>5, LoginFields
    <3>. QED
      BY <1>7, <3>1, <3>2
  <2>. QED
    BY <1>2, <2>1, <2>2 DEF NoneAhead
<1>13. AssertionsDiffer'
  <2>. SUFFICES ASSUME ~Clones PROVE AssertionsDiffer'
    BY DEF AssertionsDiffer
  <2>1. /\ \A v \in Workers : v # w => proc'[v] = proc[v] /\ (Asserting(v)' <=> Asserting(v))
        /\ \A v \in Workers : Asserting(v) => Responding(v)
    BY <1>3 DEF Asserting, Responding
  <2>2. \A i \in DOMAIN logins : logins[i].cred = r.cred => logins[i].count # r.count
    <3>1. \A i \in DOMAIN logins : logins[i].cred = r.cred => logins[i].count =< dev[d].count
      BY <1>1 DEF SharedInv, NoneAhead
    <3>2. \A i \in DOMAIN logins : logins[i].count \in Nat
      BY <1>4, LoginFields
    <3>. QED
      BY <1>1, <1>7, <3>1, <3>2
  <2>3. \A v \in Workers : v # w /\ Asserting(v) /\ proc[v].cred = r.cred => proc[v].count # r.count
    <3>1. \A v \in Workers : Asserting(v) /\ proc[v].cred = r.cred => proc[v].count =< dev[d].count
      BY <1>1, <2>1 DEF SharedInv, NoneAhead
    <3>2. \A v \in Workers : proc[v].count \in Nat
      BY <1>4, ProcRecord DEF Records
    <3>. QED
      BY <1>1, <1>7, <3>1, <3>2
  <2>4. \A v \in Workers : Asserting(v)' =>
          /\ \E e \in Devices : proc'[v].cred \in KeysOf(e)'
          /\ \A i \in DOMAIN logins' :
                ~(logins'[i].cred = proc'[v].cred /\ logins'[i].count = proc'[v].count)
    BY <1>1, <1>2, <1>3, <1>6, <2>1, <2>2 DEF SharedInv, AssertionsDiffer
  <2>5. \A u, v \in Workers :
          Asserting(u)' /\ Asserting(v)' /\ proc'[u].cred = proc'[v].cred
            /\ proc'[u].count = proc'[v].count => u = v
    BY <1>3, <2>1, <2>3 DEF SharedInv, AssertionsDiffer
  <2>6. \A i \in DOMAIN logins' : \E e \in Devices : logins'[i].cred \in KeysOf(e)'
    BY <1>2, <1>6 DEF SharedInv, AssertionsDiffer
  <2>. QED
    BY <2>4, <2>5, <2>6 DEF AssertionsDiffer
<1>14. DeviceAhead'
  <2>1. \A row \in creds : row.count \in Nat
    BY <1>4 DEF SharedTypeOK
  <2>2. \A e \in Devices : dev'[e].count \in Nat
    BY <1>5
  <2>. QED
    BY <1>2, <1>6, <1>7, <2>1, <2>2 DEF SharedInv, DeviceAhead
<1>15. NoAssertionTwice'
  BY <1>2 DEF SharedInv, NoAssertionTwice
<1>16. CountsAboveEnrolment'
  BY <1>1, <1>2, <1>3 DEF SharedInv, CountsAboveEnrolment, AboveEnrolment
<1>. QED
  BY <1>8, <1>9, <1>10, <1>11, <1>12, <1>13, <1>14, <1>15, <1>16 DEF SharedInv

(* A copied device leaves what does not depend on counters.                *)
LEMMA ClonePreserves ==
    ASSUME SharedInv, NEW d \in Devices, NEW e \in Devices, Clone(d, e)
    PROVE  SharedInv'
<1>1. /\ Clones
      /\ dev' = [dev EXCEPT ![e] = dev[d]]
      /\ UNCHANGED <<users, creds, proc, fresh, restarts, enrolled, logins>>
  BY DEF Clone, tables
<1>2. SharedTypeOK'
  BY <1>1 DEF SharedInv, SharedTypeOK
<1>3. TablesConsistent' /\ UserBeforeCredential'
  BY <1>1 DEF SharedInv, TablesConsistent, UniqueUsers, UniqueCredentials, Owned, UserKnown,
              UserBeforeCredential
<1>4. FreshCredentials'
  <2>1. \A f \in Devices : dev'[f].keys \in {dev[f].keys, dev[d].keys}
    BY <1>1 DEF SharedInv, SharedTypeOK
  <2>. QED
    BY <1>1, <2>1 DEF SharedInv, FreshCredentials, KeysOf
<1>5. OneHolder' /\ NoneAhead' /\ AssertionsDiffer' /\ DeviceAhead' /\ NoAssertionTwice'
  BY <1>1 DEF OneHolder, NoneAhead, AssertionsDiffer, DeviceAhead, NoAssertionTwice
<1>6. CountsAboveEnrolment'
  BY <1>1 DEF SharedInv, CountsAboveEnrolment, AboveEnrolment
<1>. QED
  BY <1>2, <1>3, <1>4, <1>5, <1>6 DEF SharedInv

(* A step that changes nothing.                                            *)
LEMMA StutterPreserves ==
    ASSUME SharedInv, UNCHANGED sharedVars
    PROVE  SharedInv'
<1>1. UNCHANGED <<users, creds, proc, dev, fresh, restarts, enrolled, logins>>
  BY DEF sharedVars
<1>2. SharedTypeOK' /\ TablesConsistent' /\ UserBeforeCredential' /\ FreshCredentials'
  BY <1>1 DEF SharedInv, SharedTypeOK, TablesConsistent, UniqueUsers, UniqueCredentials, Owned,
              UserKnown, UserBeforeCredential, FreshCredentials, KeysOf
<1>3. OneHolder' /\ NoneAhead' /\ AssertionsDiffer' /\ DeviceAhead' /\ NoAssertionTwice'
  BY <1>1 DEF SharedInv, OneHolder, NoneAhead, AssertionsDiffer, DeviceAhead, NoAssertionTwice,
              KeysOf, Responding, Asserting
<1>4. CountsAboveEnrolment'
  BY <1>1 DEF SharedInv, CountsAboveEnrolment, AboveEnrolment
<1>. QED
  BY <1>2, <1>3, <1>4 DEF SharedInv

-----------------------------------------------------------------------------
(* It holds of empty tables.                                               *)
LEMMA SharedInvInit == SharedInit => SharedInv
<1>. SUFFICES ASSUME SharedInit PROVE SharedInv
  OBVIOUS
<1>1. \A w \in Workers : proc[w] = Started
  BY DEF SharedInit
<1>2. Started.pc = "idle" /\ Started.cred = 0
  BY DEF Started
<1>3. \A d \in Devices : dev[d].keys = {} /\ dev[d].count = 0
  BY DEF SharedInit
<1>4. \A d \in Devices : KeysOf(d) = {}
  BY <1>3 DEF KeysOf
<1>5. SharedTypeOK
  <2>1. proc \in [Workers -> Procs]
    BY StartedType DEF SharedInit
  <2>2. <<>> \in Seq([cred : Nat, count : Nat])
    OBVIOUS
  <2>3. 0 \in 0 .. MaxRestarts
    BY SharedDatabaseAssumption DEF SharedDatabaseAssumption
  <2>. QED
    BY <2>1, <2>2, <2>3 DEF SharedInit, SharedTypeOK
<1>6. DOMAIN logins = {}
  BY DEF SharedInit
<1>7. TablesConsistent /\ UserBeforeCredential /\ FreshCredentials
  BY <1>1, <1>2, <1>4 DEF SharedInit, TablesConsistent, UniqueUsers, UniqueCredentials, Owned,
                          UserBeforeCredential, FreshCredentials
<1>8. OneHolder /\ NoneAhead /\ AssertionsDiffer
  BY <1>1, <1>2, <1>4, <1>6 DEF OneHolder, NoneAhead, AssertionsDiffer, Asserting, Responding
<1>9. DeviceAhead /\ NoAssertionTwice /\ CountsAboveEnrolment
  BY <1>1, <1>2, <1>4, <1>6 DEF SharedInit, DeviceAhead, NoAssertionTwice, CountsAboveEnrolment
<1>. QED
  BY <1>5, <1>7, <1>8, <1>9 DEF SharedInv

(* Every statement, crash and operation of a device keeps it.              *)
LEMMA SharedInvStep == SharedInv /\ [SharedNext]_sharedVars => SharedInv'
<1>. SUFFICES ASSUME SharedInv, [SharedNext]_sharedVars PROVE SharedInv'
  OBVIOUS
<1>. SharedTypeOK
  BY DEF SharedInv
<1>1. ASSUME NEW w \in Workers, Restart(w) \/ Indication(w) PROVE SharedInv'
  BY <1>1, RestartQuiet, IndicationQuiet, QuietPreserves
<1>2. ASSUME NEW w \in Workers, Statement(w) PROVE SharedInv'
  <2>1. CASE GetUserId(w) \/ GetNoUserId(w) \/ GetCredentialDescriptors(w) \/ FailDescriptors(w)
    BY <2>1, GetUserIdQuiet, GetNoUserIdQuiet, DescriptorsQuiet, FailDescriptorsQuiet,
       QuietPreserves
  <2>2. CASE FailInsertUser(w) \/ FailInsertCredential(w) \/ GetNoCredential(w)
               \/ FailUpdateSignCount(w)
    BY <2>2, FailuresQuiet, QuietPreserves
  <2>3. CASE SelectUser(w)
    BY <2>3, SelectUserPreserves
  <2>4. CASE InsertUser(w)
    BY <2>4, InsertUserPreserves
  <2>5. CASE InsertCredential(w)
    BY <2>5, InsertCredentialPreserves
  <2>6. CASE GetCredential(w)
    BY <2>6, GetCredentialPreserves
  <2>7. CASE UpdateSignCount(w)
    BY <2>7, UpdateSignCountPreserves
  <2>. QED
    BY <1>2, <2>1, <2>2, <2>3, <2>4, <2>5, <2>6, <2>7 DEF Statement
<1>3. ASSUME NEW w \in Workers, NEW d \in Devices, MakeCredential(w, d) PROVE SharedInv'
  BY <1>3, MakeCredentialPreserves
<1>4. ASSUME NEW w \in Workers, NEW d \in Devices, GetAssertion(w, d) PROVE SharedInv'
  BY <1>4, GetAssertionPreserves
<1>5. ASSUME NEW d \in Devices, NEW e \in Devices, Clone(d, e) PROVE SharedInv'
  BY <1>5, ClonePreserves
<1>6. CASE UNCHANGED sharedVars
  BY <1>6, StutterPreserves
<1>. QED
  BY <1>1, <1>2, <1>3, <1>4, <1>5, <1>6 DEF SharedNext

-----------------------------------------------------------------------------
(* The invariant holds however many processes share the database, wherever *)
(* they crash, and whether or not SQLite refuses statements.               *)
THEOREM SharedInvariant == SharedSpec => []SharedInv
<1>. QED
  BY SharedInvInit, SharedInvStep, PTL DEF SharedSpec

(* The tables, the processes and the devices keep their shape.             *)
THEOREM SharedTypes == SharedSpec => []SharedTypeOK
<1>1. SharedInv => SharedTypeOK
  BY DEF SharedInv
<1>. QED
  BY <1>1, SharedInvariant, PTL

(* Unique keys, and every credential with its user (add_creds).            *)
THEOREM TablesStayConsistent == SharedSpec => []TablesConsistent
<1>1. SharedInv => TablesConsistent
  BY DEF SharedInv
<1>. QED
  BY <1>1, SharedInvariant, PTL

(* No race between processes has an assertion accepted twice               *)
(* (process_auth_response, update_sign_count).                             *)
THEOREM AssertionsAcceptedOnce == SharedSpec => []NoAssertionTwice
<1>1. SharedInv => NoAssertionTwice
  BY DEF SharedInv
<1>. QED
  BY <1>1, SharedInvariant, PTL

(* No race leaves a stored counter the device has yet to reach.            *)
THEOREM DevicesStayAhead == SharedSpec => []DeviceAhead
<1>1. SharedInv => DeviceAhead
  BY DEF SharedInv
<1>. QED
  BY <1>1, SharedInvariant, PTL

-----------------------------------------------------------------------------
(* Which steps change a table: the two INSERTs and the UPDATE.             *)
LEMMA TableSteps ==
    ASSUME SharedInv, [SharedNext]_sharedVars
    PROVE  \/ UNCHANGED <<users, creds, enrolled>>
           \/ \E w \in Workers : InsertUser(w) \/ InsertCredential(w) \/ UpdateSignCount(w)
<1>. SharedTypeOK
  BY DEF SharedInv
<1>1. ASSUME NEW w \in Workers, Quiet(w) PROVE UNCHANGED <<users, creds, enrolled>>
  BY <1>1 DEF Quiet
<1>2. ASSUME NEW w \in Workers, Restart(w) \/ Indication(w) \/ GetUserId(w) \/ GetNoUserId(w)
               \/ GetCredentialDescriptors(w) \/ FailDescriptors(w)
      PROVE  Quiet(w)
  BY <1>2, RestartQuiet, IndicationQuiet, GetUserIdQuiet, GetNoUserIdQuiet, DescriptorsQuiet,
     FailDescriptorsQuiet
<1>3. ASSUME NEW w \in Workers, FailInsertUser(w) \/ FailInsertCredential(w)
               \/ GetNoCredential(w) \/ FailUpdateSignCount(w)
      PROVE  Quiet(w)
  BY <1>3, FailuresQuiet
<1>4. ASSUME NEW w \in Workers, SelectUser(w) \/ GetCredential(w)
      PROVE  UNCHANGED <<users, creds, enrolled>>
  BY <1>4 DEF SelectUser, GetCredential, tables
<1>5. ASSUME NEW w \in Workers, NEW d \in Devices, MakeCredential(w, d) \/ GetAssertion(w, d)
      PROVE  UNCHANGED <<users, creds, enrolled>>
  BY <1>5 DEF MakeCredential, GetAssertion, tables
<1>6. ASSUME NEW d \in Devices, NEW e \in Devices, Clone(d, e)
      PROVE  UNCHANGED <<users, creds, enrolled>>
  BY <1>6 DEF Clone, tables
<1>7. CASE UNCHANGED sharedVars
  BY <1>7 DEF sharedVars
<1>. QED
  BY <1>1, <1>2, <1>3, <1>4, <1>5, <1>6, <1>7 DEF SharedNext, Statement

(* The one row update_sign_count changes, if it is there.                  *)
LEMMA UpdatedRow ==
    ASSUME SharedInv, NEW w \in Workers, UpdateSignCount(w)
    PROVE  \/ creds' = creds
           \/ \E row \in creds, s \in creds' :
                /\ row.cred = proc[w].cred
                /\ s = [row EXCEPT !.count = proc[w].count]
                /\ s.count = proc[w].count /\ s.user = row.user
                /\ creds' = (creds \ {row}) \cup {s}
<1>1. creds' = WithCount(proc[w].cred, proc[w].count)
  BY DEF UpdateSignCount
<1>2. CASE \A row \in creds : row.cred # proc[w].cred
  BY <1>1, <1>2 DEF WithCount
<1>3. CASE \E row \in creds : row.cred = proc[w].cred
  <2>1. PICK row \in creds : row.cred = proc[w].cred
    BY <1>3
  <2>2. \A q \in creds : q.cred = proc[w].cred => q = row
    BY <2>1 DEF SharedInv, TablesConsistent, UniqueCredentials
  <2>. DEFINE s == [row EXCEPT !.count = proc[w].count]
  <2>3. s.count = proc[w].count /\ s.user = row.user
    BY DEF SharedInv, SharedTypeOK
  <2>4. creds' = (creds \ {row}) \cup {s}
    BY <1>1, <2>1, <2>2 DEF WithCount
  <2>. QED
    BY <2>1, <2>3, <2>4
<1>. QED
  BY <1>2, <1>3

(* A stored counter goes down only when another process has written it     *)
(* since this one compared.                                                *)
THEOREM LoweringIsARace == SharedSpec => LoweredOnlyByRace
<1>. DEFINE Lowered ==
       \A r \in creds : \A s \in creds' : s.cred = r.cred /\ s.count < r.count =>
          \E w \in Workers : /\ proc[w].pc = "update_sign_count"
                             /\ proc[w].cred = r.cred
                             /\ proc[w].read < r.count
<1>1. ASSUME SharedInv, [SharedNext]_sharedVars PROVE Lowered
  <2>. SUFFICES ASSUME NEW r \in creds, NEW s \in creds', s.cred = r.cred, s.count < r.count
                PROVE  \E w \in Workers : /\ proc[w].pc = "update_sign_count"
                                          /\ proc[w].cred = r.cred
                                          /\ proc[w].read < r.count
    OBVIOUS
  <2>1. r.count \in Nat /\ (s \in creds => s = r)
    BY <1>1 DEF SharedInv, SharedTypeOK, TablesConsistent, UniqueCredentials
  <2>2. s \notin creds
    BY <2>1
  <2>3. ASSUME NEW w \in Workers, InsertCredential(w) PROVE FALSE
    BY <2>2, <2>3 DEF InsertCredential, CredentialConflict
  <2>4. ASSUME NEW w \in Workers, UpdateSignCount(w)
        PROVE  /\ proc[w].pc = "update_sign_count"
               /\ proc[w].cred = r.cred
               /\ proc[w].read < r.count
    <3>1. PICK row \in creds, t \in creds' :
            /\ row.cred = proc[w].cred
            /\ t.count = proc[w].count
            /\ creds' = (creds \ {row}) \cup {t}
      BY <1>1, <2>2, <2>4, UpdatedRow
    <3>2. s = t /\ s.count = proc[w].count
      BY <2>2, <3>1
    <3>3. proc[w].pc = "update_sign_count" /\ proc[w].read < proc[w].count
      BY <1>1, <2>4 DEF UpdateSignCount, SharedInv, CountsAboveEnrolment
    <3>4. proc[w].read \in Nat /\ proc[w].count \in Nat
      BY <1>1, ProcRecord DEF SharedInv, Records
    <3>5. r.cred = proc[w].cred
      <4>1. \A q \in creds' : \E p \in creds :
              q.cred = p.cred /\ (p.cred # proc[w].cred => q = p)
        <5>1. proc[w].cred \in Nat /\ proc[w].count \in Nat /\ SharedTypeOK
          BY <1>1, ProcRecord DEF SharedInv, Records
        <5>2. creds' = WithCount(proc[w].cred, proc[w].count)
          BY <2>4 DEF UpdateSignCount
        <5>. QED
          BY <5>1, <5>2, WithCountRows
      <4>. QED
        BY <2>2, <4>1
    <3>. QED
      BY <2>1, <3>2, <3>3, <3>4, <3>5
  <2>5. ASSUME NEW w \in Workers, InsertUser(w) PROVE FALSE
    BY <2>2, <2>5 DEF InsertUser
  <2>. QED
    BY <1>1, <2>2, <2>3, <2>4, <2>5, TableSteps
<1>2. SharedInv /\ [SharedNext]_sharedVars => [Lowered]_sharedVars
  BY <1>1
<1>. QED
  BY <1>2, SharedInvariant, PTL DEF SharedSpec, LoweredOnlyByRace

-----------------------------------------------------------------------------
(* The statements implement the store.                                     *)
Accounts == {u \in users : \E r \in creds : r.user = u.id}

(* A user without a credential is no account yet.                          *)
LEMMA InsertUserStutters ==
    ASSUME SharedInv, ~Busy, NEW w \in Workers, InsertUser(w)
    PROVE  Accounts' = Accounts /\ creds' = creds /\ enrolled' = enrolled
<1>. DEFINE new == [id |-> proc[w].user, name |-> proc[w].name]
<1>1. users' = users \cup {new} /\ creds' = creds /\ enrolled' = enrolled
  BY DEF InsertUser
<1>2. new.id = proc[w].user
  OBVIOUS
<1>3. \A u \in users : u.id # new.id
  BY <1>2 DEF InsertUser, UserConflict, UserKnown
<1>4. \A r \in creds : r.user # new.id
  BY <1>3 DEF SharedInv, TablesConsistent, Owned, UserKnown
<1>. HIDE DEF new
<1>. QED
  BY <1>1, <1>4 DEF Accounts

(* The INSERT of the credential is the enrolment.                          *)
LEMMA InsertCredentialEnrols ==
    ASSUME SharedInv, ~Busy, NEW w \in Workers, InsertCredential(w)
    PROVE  Store!Enrol
<1>. DEFINE new == [cred |-> proc[w].cred, user |-> proc[w].user, count |-> proc[w].count]
<1>1. /\ proc[w].pc = "insert_credential"
      /\ creds' = creds \cup {new}
      /\ enrolled' = enrolled \cup {[cred |-> new.cred, count |-> new.count]}
      /\ users' = users
      /\ \A r \in creds : r.cred # new.cred
      /\ new.user = proc[w].user
  BY DEF InsertCredential, CredentialConflict
<1>. HIDE DEF new
<1>2. PICK u \in users : u.id = new.user
  BY <1>1 DEF SharedInv, UserBeforeCredential, UserKnown
<1>3. \A v, v2 \in users : v.id = v2.id \/ v.name = v2.name => v = v2
  BY DEF SharedInv, TablesConsistent, UniqueUsers
<1>4. Accounts' = Accounts \cup {u}
  BY <1>1, <1>2, <1>3 DEF Accounts
<1>5. u \in Accounts \/ \A b \in Accounts : b.id # u.id /\ b.name # u.name
  BY <1>2, <1>3 DEF Accounts
<1>6. u \in Accounts' /\ new \in creds'
  BY <1>1, <1>4
<1>. QED
  BY <1>1, <1>2, <1>4, <1>5, <1>6 DEF Store!Enrol, Accounts

(* An UPDATE that changes the row is the login.                            *)
LEMMA UpdateSignCountLogsIn ==
    ASSUME SharedInv, NEW w \in Workers, UpdateSignCount(w), creds' # creds
    PROVE  Store!Login
<1>1. PICK row \in creds, s \in creds' :
         /\ row.cred = proc[w].cred
         /\ s = [row EXCEPT !.count = proc[w].count]
         /\ s.count = proc[w].count /\ s.user = row.user
         /\ creds' = (creds \ {row}) \cup {s}
  BY UpdatedRow
<1>2. users' = users /\ enrolled' = enrolled /\ proc[w].pc = "update_sign_count"
  BY DEF UpdateSignCount
<1>3. \E f \in enrolled : f.cred = row.cred /\ f.count < s.count
  <2>1. PICK f \in enrolled : f.cred = proc[w].cred /\ f.count =< proc[w].read
    BY <1>2 DEF SharedInv, CountsAboveEnrolment, AboveEnrolment
  <2>2. /\ proc[w].read < proc[w].count
        /\ proc[w].read \in Nat /\ proc[w].count \in Nat /\ f.count \in Nat
    BY <1>2, ProcRecord DEF SharedInv, CountsAboveEnrolment, SharedTypeOK, Records
  <2>. QED
    BY <1>1, <2>1, <2>2
<1>4. Accounts' = Accounts
  BY <1>1, <1>2 DEF Accounts
<1>5. s = [row EXCEPT !.count = s.count]
  BY <1>1
<1>. QED
  BY <1>1, <1>2, <1>3, <1>4, <1>5 DEF Store!Login, Accounts

(* While SQLite refuses no statement, the statements of any number of      *)
(* processes, crashing where they like, implement the store.               *)
THEOREM StatementsImplementStore ==
    ASSUME ~Busy
    PROVE  SharedSpec => ImplementsStore
<1>1. SharedInit => Store!Init
  BY DEF SharedInit, Store!Init
<1>2. SharedInv /\ [SharedNext]_sharedVars => [Store!Next]_(Store!storeVars)
  <2>. SUFFICES ASSUME SharedInv, [SharedNext]_sharedVars
                PROVE  Store!Next \/ UNCHANGED <<Accounts, creds, enrolled>>
    BY DEF Store!storeVars, Accounts
  <2>1. CASE UNCHANGED <<users, creds, enrolled>>
    BY <2>1 DEF Accounts
  <2>2. ASSUME NEW w \in Workers, InsertUser(w)
        PROVE  UNCHANGED <<Accounts, creds, enrolled>>
    BY <2>2, InsertUserStutters
  <2>3. ASSUME NEW w \in Workers, InsertCredential(w) PROVE Store!Next
    BY <2>3, InsertCredentialEnrols DEF Store!Next
  <2>4. ASSUME NEW w \in Workers, UpdateSignCount(w)
        PROVE  Store!Next \/ UNCHANGED <<Accounts, creds, enrolled>>
    <3>1. CASE creds' = creds
      BY <2>4, <3>1 DEF UpdateSignCount, Accounts
    <3>2. CASE creds' # creds
      BY <2>4, <3>2, UpdateSignCountLogsIn DEF Store!Next
    <3>. QED
      BY <3>1, <3>2
  <2>. QED
    BY <2>1, <2>2, <2>3, <2>4, TableSteps
<1>. QED
  BY <1>1, <1>2, SharedInvariant, PTL DEF SharedSpec, ImplementsStore, Store!Spec


-----------------------------------------------------------------------------
(* Why the server refuses an honest device.                                *)

EnrolSteps == {"select_user", "insert_user", "insert_credential"}
AssertSteps == {"get_credential", "update_sign_count"}

(* Process record p works for a registration under the id p.user.          *)
Claims(p) ==
    \/ p.pc \in EnrolSteps
    \/ p.kind = "REG" /\ p.pc \in {"get_credential_descriptors", "waiting"}

(* An id drawn for an unknown name is known to one process until its row   *)
(* is inserted, and a user row is only inserted for an id without one.     *)
IdsApart ==
    /\ \A u \in users : u.id < fresh
    /\ \A w \in Workers : Claims(proc[w]) => proc[w].user < fresh
    /\ \A w \in Workers : proc[w].pc = "insert_user" => ~UserKnown(proc[w].user)
    /\ \A v, w \in Workers :
         Claims(proc[v]) /\ Claims(proc[w]) /\ proc[v].user = proc[w].user
           /\ ~UserKnown(proc[w].user) => v = w

(* A new credential is known to one process until its row is inserted.     *)
CredentialsApart ==
    /\ \A w \in Workers : proc[w].pc \in EnrolSteps => ~CredentialConflict(w)
    /\ \A v, w \in Workers :
         proc[v].pc \in EnrolSteps /\ proc[w].pc \in EnrolSteps /\ proc[v].cred = proc[w].cred
           => v = w

(* A stored counter is that of the enrolment or of an accepted login.      *)
CountsFrom ==
    \A r \in creds :
      \/ \E f \in enrolled : f.cred = r.cred /\ f.count = r.count
      \/ \E i \in DOMAIN logins : logins[i].cred = r.cred /\ logins[i].count = r.count

(* An assertion counts further than the enrolment of its credential, one   *)
(* that is under way included.                                             *)
EnrolledBefore ==
    /\ \A f \in enrolled : f.cred < fresh
    /\ ~Clones =>
         /\ \A f \in enrolled, d \in Devices : f.cred \in KeysOf(d) => f.count =< dev[d].count
         /\ \A w \in Workers : proc[w].pc \in AssertSteps =>
              \A f \in enrolled : f.cred = proc[w].cred => f.count < proc[w].count
         /\ \A v, w \in Workers :
              proc[v].pc \in EnrolSteps /\ proc[w].pc \in AssertSteps /\ proc[v].cred = proc[w].cred
                => proc[v].count < proc[w].count

KindsFit == \A w \in Workers : proc[w].pc \in AssertSteps => proc[w].kind = "AUTH"

HonestInv == IdsApart /\ CredentialsApart /\ CountsFrom /\ EnrolledBefore /\ KindsFit

-----------------------------------------------------------------------------
(* It is inductive beside SharedInv.                                       *)

(* The id w works under after a step is its own still, in the table, or    *)
(* newly drawn.                                                            *)
KeepsId(w) ==
    Claims(proc'[w]) =>
      \/ Claims(proc[w]) /\ proc'[w].user = proc[w].user
      \/ UserKnown(proc'[w].user)
      \/ proc'[w].user = fresh /\ fresh' = fresh + 1

(* A step that leaves the tables alone keeps the ids apart.                *)
LEMMA KeptIdsApart ==
    ASSUME SharedTypeOK, IdsApart, NEW w \in Workers, NEW r, ProcStep(w, r), KeepsId(w),
           UNCHANGED users, fresh' \in {fresh, fresh + 1},
           r.pc = "insert_user" => ~UserKnown(r.user)
    PROVE  IdsApart'
<1>1. fresh \in Nat /\ proc'[w] = r /\ \A v \in Workers : v # w => proc'[v] = proc[v]
  BY ProcAfter DEF SharedTypeOK
<1>3. \A u \in users : u.id \in Nat /\ u.id < fresh
  BY DEF IdsApart, SharedTypeOK
<1>4. \A v \in Workers : Claims(proc[v]) => proc[v].user \in Nat /\ proc[v].user < fresh
  BY ProcRecord DEF IdsApart, Records
<1>5. \A id : UserKnown(id) => id \in Nat /\ id < fresh
  BY <1>3 DEF UserKnown
<1>6. Claims(proc'[w]) => proc'[w].user < fresh'
  BY <1>1, <1>4, <1>5 DEF KeepsId
<1>7. \A v \in Workers : Claims(proc'[v]) => proc'[v].user < fresh'
  BY <1>1, <1>4, <1>6
<1>8. ASSUME NEW v \in Workers, NEW x \in Workers, Claims(proc'[v]), Claims(proc'[x]),
             proc'[v].user = proc'[x].user, ~UserKnown(proc'[x].user)
      PROVE  v = x
  BY <1>1, <1>4, <1>8 DEF KeepsId, IdsApart
<1>9. \A v \in Workers : proc'[v].pc = "insert_user" => ~UserKnown(proc'[v].user)
  BY <1>1 DEF IdsApart
<1>. QED
  BY <1>1, <1>3, <1>7, <1>8, <1>9 DEF IdsApart, Claims, UserKnown

(* So does one that starts no response keep the rest.                      *)
LEMMA QuietHonest ==
    ASSUME SharedInv, HonestInv, NEW w \in Workers, Quiet(w), KeepsId(w)
    PROVE  HonestInv'
<1>1. PICK r : ProcStep(w, r) /\ r.pc \in QuietSteps
  BY DEF Quiet, QuietProc
<1>2. /\ UNCHANGED <<users, creds, dev, enrolled, logins>> /\ fresh' \in {fresh, fresh + 1}
      /\ SharedTypeOK /\ fresh \in Nat
  BY DEF Quiet, SharedInv, SharedTypeOK
<1>3. /\ proc'[w] = r /\ \A v \in Workers : v # w => proc'[v] = proc[v]
      /\ r.pc \notin EnrolSteps \cup AssertSteps /\ r.pc # "insert_user"
  BY <1>1, <1>2, ProcAfter DEF QuietSteps, EnrolSteps, AssertSteps
<1>4. IdsApart'
  BY <1>1, <1>2, <1>3, KeptIdsApart DEF HonestInv
<1>5. CredentialsApart'
  BY <1>2, <1>3 DEF HonestInv, CredentialsApart, CredentialConflict
<1>6. CountsFrom'
  BY <1>2 DEF HonestInv, CountsFrom
<1>7. EnrolledBefore'
  <2>1. \A f \in enrolled : f.cred \in Nat
    BY <1>2 DEF SharedTypeOK
  <2>. QED
    BY <1>2, <1>3, <2>1 DEF HonestInv, EnrolledBefore, KeysOf
<1>8. KindsFit'
  BY <1>3 DEF HonestInv, KindsFit
<1>. QED
  BY <1>4, <1>5, <1>6, <1>7, <1>8 DEF HonestInv

(* The quiet actions keep the ids.                                         *)
LEMMA QuietKeepsId ==
    ASSUME SharedTypeOK, NEW w \in Workers,
           \/ Restart(w) \/ Indication(w) \/ GetUserId(w) \/ GetNoUserId(w)
           \/ GetCredentialDescriptors(w) \/ FailDescriptors(w) \/ FailInsertUser(w)
           \/ FailInsertCredential(w) \/ GetNoCredential(w) \/ FailUpdateSignCount(w)
    PROVE  Quiet(w) /\ KeepsId(w)
<1>1. Quiet(w)
  BY RestartQuiet, IndicationQuiet, GetUserIdQuiet, GetNoUserIdQuiet, DescriptorsQuiet,
     FailDescriptorsQuiet, FailuresQuiet
<1>0. SUFFICES KeepsId(w)
  BY <1>1
<1>2. proc[w] \in Records /\ proc \in [Workers -> Procs]
  BY ProcRecord DEF SharedTypeOK
<1>3. CASE Restart(w)
  BY <1>2, <1>3 DEF Restart, KeepsId, Claims, Started, EnrolSteps
<1>4. CASE Indication(w)
  <2>1. \/ proc'[w].pc = "get_user_id"
        \/ proc'[w].pc = "waiting" /\ proc'[w].kind = "AUTH"
    BY <1>2, <1>4 DEF Indication, Records
  <2>. QED
    BY <2>1 DEF KeepsId, Claims, EnrolSteps
<1>5. CASE GetUserId(w)
  <2>1. PICK id \in IdsOf(proc[w].name) :
           proc' = [proc EXCEPT ![w].pc = "get_credential_descriptors", ![w].user = id]
    BY <1>5 DEF GetUserId
  <2>2. proc'[w].user = id /\ UserKnown(id)
    BY <1>2, <2>1 DEF Records, IdsOf, UserKnown
  <2>. QED
    BY <2>2 DEF KeepsId
<1>6. CASE GetNoUserId(w)
  <2>1. CASE /\ proc' = [proc EXCEPT ![w].pc = "get_credential_descriptors", ![w].user = fresh]
             /\ fresh' = fresh + 1
    BY <1>2, <2>1 DEF KeepsId, Records
  <2>2. CASE proc' = [proc EXCEPT ![w] = Started]
    BY <1>2, <2>2 DEF KeepsId, Claims, Started, EnrolSteps
  <2>. QED
    BY <1>6, <2>1, <2>2 DEF GetNoUserId
<1>7. CASE GetCredentialDescriptors(w)
  <2>1. PICK list :
           proc' = [proc EXCEPT ![w].pc = "waiting", ![w].list = list]
    BY <1>7 DEF GetCredentialDescriptors
  <2>2. /\ proc'[w].user = proc[w].user /\ proc'[w].kind = proc[w].kind
        /\ proc'[w].pc = "waiting" /\ proc[w].pc = "get_credential_descriptors"
    BY <1>2, <1>7, <2>1 DEF Records, GetCredentialDescriptors
  <2>. QED
    BY <2>2 DEF KeepsId, Claims, EnrolSteps
<1>8. CASE \/ FailDescriptors(w) \/ FailInsertUser(w) \/ FailInsertCredential(w)
           \/ GetNoCredential(w) \/ FailUpdateSignCount(w)
  <2>1. proc'[w].pc \in {"get_user_id", "failure"}
    BY <1>2, <1>8 DEF FailDescriptors, FailInsertUser, FailInsertCredential, GetNoCredential,
       FailUpdateSignCount, Records
  <2>. QED
    BY <2>1 DEF KeepsId, Claims, EnrolSteps
<1>. QED
  BY <1>3, <1>4, <1>5, <1>6, <1>7, <1>8


(* A step within one response: its credential, its count and its user stay.*)
LEMMA ResponseGoesOn ==
    ASSUME SharedInv, HonestInv, NEW w \in Workers, NEW r, ProcStep(w, r),
           UNCHANGED <<users, creds, dev, enrolled, logins, fresh>>,
           \/ /\ proc[w].pc \in EnrolSteps /\ r.user = proc[w].user
              /\ r.pc \in EnrolSteps /\ (r.pc = "insert_user" => ~UserKnown(r.user))
           \/ /\ proc[w].pc \in AssertSteps /\ r.kind = proc[w].kind
              /\ r.pc \in AssertSteps \cup {"failure"},
           r.cred = proc[w].cred /\ r.count = proc[w].count
    PROVE  HonestInv'
<1>1. SharedTypeOK /\ fresh \in Nat
  BY DEF SharedInv, SharedTypeOK
<1>2. proc'[w] = r /\ \A v \in Workers : v # w => proc'[v] = proc[v]
  BY <1>1, ProcAfter
<1>3. /\ r.pc \in EnrolSteps => proc[w].pc \in EnrolSteps
      /\ r.pc \in AssertSteps => proc[w].pc \in AssertSteps /\ r.kind = proc[w].kind
  BY DEF EnrolSteps, AssertSteps
<1>4. IdsApart'
  <2>1. KeepsId(w) /\ (r.pc = "insert_user" => ~UserKnown(r.user))
    BY <1>2 DEF KeepsId, Claims, EnrolSteps, AssertSteps
  <2>. QED
    BY <1>1, <2>1, KeptIdsApart DEF HonestInv
<1>5. CredentialsApart'
  BY <1>2, <1>3 DEF HonestInv, CredentialsApart, CredentialConflict
<1>6. CountsFrom'
  BY DEF HonestInv, CountsFrom
<1>7. EnrolledBefore'
  BY <1>2, <1>3 DEF HonestInv, EnrolledBefore, KeysOf
<1>8. KindsFit'
  BY <1>2, <1>3 DEF HonestInv, KindsFit
<1>. QED
  BY <1>4, <1>5, <1>6, <1>7, <1>8 DEF HonestInv

(* SELECT of add_creds, and get_credential.                                *)
LEMMA SelectHonest ==
    ASSUME SharedInv, HonestInv, NEW w \in Workers, SelectUser(w) \/ GetCredential(w)
    PROVE  HonestInv'
<1>1. SharedTypeOK /\ proc[w] \in Records /\ Named(proc[w])
  BY ProcRecord DEF SharedInv
<1>2. UNCHANGED <<users, creds, dev, enrolled, logins, fresh>>
  BY DEF SelectUser, GetCredential, tables
<1>3. CASE SelectUser(w)
  <2>1. PICK pc \in {"insert_credential", "insert_user"} :
          /\ proc' = [proc EXCEPT ![w].pc = pc] /\ proc[w].pc = "select_user"
          /\ pc = "insert_user" => ~UserKnown(proc[w].user)
    BY <1>3 DEF SelectUser
  <2>. DEFINE r == [proc[w] EXCEPT !.pc = pc]
  <2>2. /\ r \in Records /\ r.pc = pc /\ r.name = proc[w].name /\ r.kind = proc[w].kind
        /\ r.user = proc[w].user /\ r.cred = proc[w].cred /\ r.count = proc[w].count
    BY <1>1 DEF Records, Steps, Statements
  <2>3. proc' = [proc EXCEPT ![w] = r]
    BY <1>1, <2>1 DEF SharedTypeOK
  <2>4. r \in Procs
    BY <1>1, <2>1, <2>2 DEF Procs, Named
  <2>. HIDE DEF r
  <2>5. ProcStep(w, r)
    BY <2>3, <2>4 DEF ProcStep
  <2>6. r.pc \in EnrolSteps /\ proc[w].pc \in EnrolSteps
    BY <2>1, <2>2 DEF EnrolSteps
  <2>. QED
    BY <1>2, <2>1, <2>2, <2>5, <2>6, ResponseGoesOn
<1>4. CASE GetCredential(w)
  <2>1. PICK row \in RowsOf(w) :
          proc' = [proc EXCEPT ![w].read = row.count,
                     ![w].pc = IF CountVerifies(w, row) THEN "update_sign_count" ELSE "failure"]
    BY <1>4 DEF GetCredential
  <2>. DEFINE pc == IF CountVerifies(w, row) THEN "update_sign_count" ELSE "failure"
  <2>2. /\ pc \in {"update_sign_count", "failure"} /\ row.count \in Nat
        /\ proc' = [proc EXCEPT ![w].read = row.count, ![w].pc = pc]
        /\ proc[w].pc = "get_credential"
    BY <1>1, <1>4, <2>1 DEF RowsOf, SharedTypeOK, GetCredential
  <2>. HIDE DEF pc
  <2>. DEFINE r == [proc[w] EXCEPT !.read = row.count, !.pc = pc]
  <2>3. /\ r \in Records /\ r.pc = pc /\ r.name = proc[w].name /\ r.kind = proc[w].kind
        /\ r.user = proc[w].user /\ r.cred = proc[w].cred /\ r.count = proc[w].count
    BY <1>1, <2>2 DEF Records, Steps, Statements
  <2>4. proc' = [proc EXCEPT ![w] = r]
    BY <1>1, <2>2 DEF SharedTypeOK
  <2>5. r \in Procs
    BY <1>1, <2>2, <2>3 DEF Procs, Named
  <2>. HIDE DEF r
  <2>6. ProcStep(w, r)
    BY <2>4, <2>5 DEF ProcStep
  <2>7. proc[w].pc \in AssertSteps /\ r.pc \in AssertSteps \cup {"failure"}
    BY <2>2, <2>3 DEF AssertSteps
  <2>. QED
    BY <1>2, <2>3, <2>6, <2>7, ResponseGoesOn
<1>. QED
  BY <1>3, <1>4

(* The user row goes to nobody else's id.                                  *)
LEMMA InsertUserHonest ==
    ASSUME SharedInv, HonestInv, NEW w \in Workers, InsertUser(w)
    PROVE  HonestInv'
<1>1. SharedTypeOK /\ fresh \in Nat
  BY DEF SharedInv, SharedTypeOK
<1>2. /\ proc[w].pc = "insert_user" /\ UNCHANGED <<creds, dev, fresh, restarts, enrolled, logins>>
      /\ users' = users \cup {[id |-> proc[w].user, name |-> proc[w].name]}
      /\ ~UserKnown(proc[w].user)
  BY <1>1, InsertUserEffect DEF HonestInv, IdsApart
<1>3. PICK r : /\ ProcStep(w, r) /\ r.pc = "insert_credential"
               /\ r.user = proc[w].user /\ r.cred = proc[w].cred /\ r.count = proc[w].count
  BY <1>1, InsertUserEffect
<1>4. proc'[w] = r /\ \A v \in Workers : v # w => proc'[v] = proc[v]
  BY <1>1, <1>3, ProcAfter
<1>5. /\ r.pc \in EnrolSteps /\ proc[w].pc \in EnrolSteps /\ r.pc \notin AssertSteps
      /\ Claims(proc[w]) /\ Claims(r) /\ r.pc # "insert_user"
  BY <1>2, <1>3 DEF EnrolSteps, AssertSteps, Claims
<1>6. \A id : (\E u \in users' : u.id = id) <=> UserKnown(id) \/ id = proc[w].user
  <2>. DEFINE row == [id |-> proc[w].user, name |-> proc[w].name]
  <2>1. row.id = proc[w].user /\ users' = users \cup {row}
    BY <1>2
  <2>. HIDE DEF row
  <2>. QED
    BY <2>1 DEF UserKnown
<1>7. IdsApart'
  <2>1. /\ \A u \in users' : u.id < fresh'
        /\ \A v \in Workers : Claims(proc'[v]) => proc'[v].user < fresh'
    BY <1>2, <1>3, <1>4, <1>5 DEF HonestInv, IdsApart
  <2>2. ASSUME NEW v \in Workers, proc'[v].pc = "insert_user"
        PROVE  ~\E u \in users' : u.id = proc'[v].user
    <3>1. v # w /\ proc[v].pc = "insert_user" /\ proc'[v].user = proc[v].user
      BY <1>4, <1>5, <2>2
    <3>2. ~UserKnown(proc[v].user) /\ Claims(proc[v])
      BY <3>1 DEF HonestInv, IdsApart, Claims, EnrolSteps
    <3>3. proc[v].user # proc[w].user
      BY <1>2, <1>5, <3>1, <3>2 DEF HonestInv, IdsApart
    <3>. QED
      BY <1>6, <3>1, <3>2, <3>3
  <2>3. ASSUME NEW v \in Workers, NEW x \in Workers, Claims(proc'[v]), Claims(proc'[x]),
               proc'[v].user = proc'[x].user, ~\E u \in users' : u.id = proc'[x].user
        PROVE  v = x
    BY <1>3, <1>4, <1>5, <1>6, <2>3 DEF HonestInv, IdsApart
  <2>. QED
    BY <2>1, <2>2, <2>3 DEF IdsApart, Claims, UserKnown
<1>8. CredentialsApart'
  BY <1>2, <1>3, <1>4, <1>5 DEF HonestInv, CredentialsApart, CredentialConflict
<1>9. CountsFrom'
  BY <1>2 DEF HonestInv, CountsFrom
<1>10. EnrolledBefore'
  BY <1>2, <1>3, <1>4, <1>5 DEF HonestInv, EnrolledBefore, KeysOf
<1>11. KindsFit'
  BY <1>4, <1>5 DEF HonestInv, KindsFit
<1>. QED
  BY <1>7, <1>8, <1>9, <1>10, <1>11 DEF HonestInv

(* The credential row is the enrolment its counter comes from.             *)
LEMMA InsertCredentialHonest ==
    ASSUME SharedInv, HonestInv, NEW w \in Workers, InsertCredential(w)
    PROVE  HonestInv'
<1>1. SharedTypeOK /\ fresh \in Nat /\ proc[w] \in Records
  BY ProcRecord DEF SharedInv, SharedTypeOK
<1>2. /\ proc[w].pc = "insert_credential" /\ UNCHANGED <<users, dev, fresh, restarts, logins>>
      /\ creds' = creds \cup {[cred |-> proc[w].cred, user |-> proc[w].user,
                               count |-> proc[w].count]}
      /\ enrolled' = enrolled \cup {[cred |-> proc[w].cred, count |-> proc[w].count]}
  BY <1>1, InsertCredentialEffect
<1>3. PICK r : ProcStep(w, r) /\ r.pc = "success"
  BY <1>1, InsertCredentialEffect
<1>4. proc'[w] = r /\ \A v \in Workers : v # w => proc'[v] = proc[v]
  BY <1>1, <1>3, ProcAfter
<1>5. /\ r.pc \notin EnrolSteps \cup AssertSteps \cup {"insert_user"} /\ ~Claims(r)
      /\ proc[w].pc \in EnrolSteps
  BY <1>2, <1>3 DEF EnrolSteps, AssertSteps, Claims
<1>6. IdsApart'
  <2>1. KeepsId(w)
    BY <1>4, <1>5 DEF KeepsId
  <2>. QED
    BY <1>1, <1>2, <1>3, <1>5, <2>1, KeptIdsApart DEF HonestInv
<1>7. CredentialsApart'
  BY <1>2, <1>4, <1>5 DEF HonestInv, CredentialsApart, CredentialConflict
<1>8. CountsFrom'
  <2>. DEFINE row == [cred |-> proc[w].cred, user |-> proc[w].user, count |-> proc[w].count]
              f == [cred |-> proc[w].cred, count |-> proc[w].count]
  <2>1. /\ creds' = creds \cup {row} /\ enrolled' = enrolled \cup {f}
        /\ row.cred = f.cred /\ row.count = f.count
    BY <1>2
  <2>. HIDE DEF row, f
  <2>. QED
    BY <1>2, <2>1 DEF HonestInv, CountsFrom
<1>9. EnrolledBefore'
  <2>1. proc[w].cred < fresh
    BY DEF SharedInv, FreshCredentials
  <2>2. ASSUME ~Clones, NEW d \in Devices, proc[w].cred \in KeysOf(d)
        PROVE  proc[w].count =< dev[d].count
    BY <1>2, <2>2 DEF SharedInv, NoneAhead, Responding
  <2>3. \A d \in Devices : KeysOf(d)' = KeysOf(d)
    BY <1>2 DEF KeysOf
  <2>. QED
    BY <1>2, <1>4, <1>5, <2>1, <2>2, <2>3 DEF HonestInv, EnrolledBefore
<1>10. KindsFit'
  BY <1>4, <1>5 DEF HonestInv, KindsFit
<1>. QED
  BY <1>6, <1>7, <1>8, <1>9, <1>10 DEF HonestInv


(* The UPDATE stores the counter of the login it ends.                     *)
LEMMA UpdateSignCountHonest ==
    ASSUME SharedInv, HonestInv, NEW w \in Workers, UpdateSignCount(w)
    PROVE  HonestInv'
<1>1. SharedTypeOK /\ fresh \in Nat /\ proc[w] \in Records
  BY ProcRecord DEF SharedInv, SharedTypeOK
<1>2. /\ proc[w].pc = "update_sign_count" /\ UNCHANGED <<users, dev, fresh, restarts, enrolled>>
      /\ creds' = WithCount(proc[w].cred, proc[w].count)
      /\ logins' = Append(logins, [cred |-> proc[w].cred, count |-> proc[w].count])
  BY <1>1, UpdateSignCountEffect
<1>3. PICK r : ProcStep(w, r) /\ r.pc = "success"
  BY <1>1, UpdateSignCountEffect
<1>4. proc'[w] = r /\ \A v \in Workers : v # w => proc'[v] = proc[v]
  BY <1>1, <1>3, ProcAfter
<1>5. /\ r.pc \notin EnrolSteps \cup AssertSteps \cup {"insert_user"} /\ ~Claims(r)
      /\ proc[w].cred \in Nat /\ proc[w].count \in Nat
  BY <1>1, <1>3 DEF EnrolSteps, AssertSteps, Claims, Records
<1>6. IdsApart'
  <2>1. KeepsId(w)
    BY <1>4, <1>5 DEF KeepsId
  <2>. QED
    BY <1>1, <1>2, <1>3, <1>5, <2>1, KeptIdsApart DEF HonestInv
<1>7. \A s \in creds' : \E row \in creds :
        s.cred = row.cred /\ s.count = IF row.cred = proc[w].cred THEN proc[w].count ELSE row.count
  BY <1>1, <1>2, <1>5, WithCountRows
<1>8. CredentialsApart'
  BY <1>4, <1>5, <1>7 DEF HonestInv, CredentialsApart, CredentialConflict
<1>9. CountsFrom'
  <2>. DEFINE e == [cred |-> proc[w].cred, count |-> proc[w].count]
              n == Len(logins) + 1
  <2>1. logins \in Seq([cred : Nat, count : Nat]) /\ Len(logins) \in Nat
    BY <1>1 DEF SharedTypeOK
  <2>2. e.cred = proc[w].cred /\ e.count = proc[w].count /\ logins' = Append(logins, e)
        /\ e \in [cred : Nat, count : Nat]
    BY <1>2, <1>5
  <2>. HIDE DEF e
  <2>3. /\ n \in DOMAIN logins' /\ logins'[n] = e
        /\ \A i \in DOMAIN logins : i \in DOMAIN logins' /\ logins'[i] = logins[i]
    BY <2>1, <2>2
  <2>4. ASSUME NEW s \in creds'
        PROVE  \/ \E f \in enrolled : f.cred = s.cred /\ f.count = s.count
               \/ \E i \in DOMAIN logins' : logins'[i].cred = s.cred /\ logins'[i].count = s.count
    <3>1. PICK row \in creds :
            /\ s.cred = row.cred
            /\ s.count = IF row.cred = proc[w].cred THEN proc[w].count ELSE row.count
      BY <1>7
    <3>2. CASE row.cred = proc[w].cred
      BY <2>2, <2>3, <3>1, <3>2
    <3>3. CASE row.cred # proc[w].cred
      BY <2>3, <3>1, <3>3 DEF HonestInv, CountsFrom
    <3>. QED
      BY <3>2, <3>3
  <2>. QED
    BY <1>2, <2>4 DEF CountsFrom
<1>10. EnrolledBefore'
  BY <1>2, <1>4, <1>5 DEF HonestInv, EnrolledBefore, KeysOf
<1>11. KindsFit'
  BY <1>4, <1>5 DEF HonestInv, KindsFit
<1>. QED
  BY <1>6, <1>8, <1>9, <1>10, <1>11 DEF HonestInv

(* A new credential has a new id.                                          *)
LEMMA MakeCredentialHonest ==
    ASSUME SharedInv, HonestInv, NEW w \in Workers, NEW d \in Devices, MakeCredential(w, d)
    PROVE  HonestInv'
<1>1. /\ SharedTypeOK /\ fresh \in Nat /\ proc[w] \in Records /\ dev[d].count \in Nat
      /\ proc \in [Workers -> Procs]
  BY ProcRecord DEF SharedInv, SharedTypeOK
<1>2. /\ dev' = [dev EXCEPT ![d].keys = @ \cup {[cred |-> fresh, user |-> proc[w].user]}]
      /\ fresh' = fresh + 1 /\ UNCHANGED <<users, creds, restarts, enrolled, logins>>
      /\ proc[w].pc = "waiting" /\ proc[w].kind = "REG"
  BY <1>1, MakeCredentialEffect DEF MakeCredential
<1>3. PICK r : /\ ProcStep(w, r)
               /\ r.pc = "select_user" /\ r.cred = fresh /\ r.count = dev[d].count
  BY <1>1, MakeCredentialEffect
<1>4. proc'[w] = r /\ \A v \in Workers : v # w => proc'[v] = proc[v]
  BY <1>1, <1>3, ProcAfter
<1>5. r.user = proc[w].user
  BY <1>1, <1>4 DEF MakeCredential, Records
<1>6. r.pc \in EnrolSteps /\ r.pc \notin AssertSteps /\ r.pc # "insert_user" /\ Claims(proc[w])
  BY <1>2, <1>3 DEF EnrolSteps, AssertSteps, Claims
<1>7. IdsApart'
  <2>1. KeepsId(w)
    BY <1>4, <1>5, <1>6 DEF KeepsId
  <2>. QED
    BY <1>1, <1>2, <1>3, <1>6, <2>1, KeptIdsApart DEF HonestInv
<1>8. /\ \A e \in Devices : KeysOf(e)' \subseteq KeysOf(e) \cup {fresh}
      /\ \A e \in Devices : dev'[e].count = dev[e].count
  BY <1>1, <1>2 DEF KeysOf, SharedTypeOK
<1>9. /\ \A q \in creds : q.cred # fresh
      /\ \A v \in Workers : proc[v].cred # fresh
      /\ \A f \in enrolled : f.cred \in Nat /\ f.cred < fresh
  BY <1>1 DEF SharedInv, FreshCredentials, HonestInv, EnrolledBefore, SharedTypeOK
<1>10. CredentialsApart'
  BY <1>2, <1>3, <1>4, <1>6, <1>9 DEF HonestInv, CredentialsApart, CredentialConflict
<1>11. CountsFrom'
  BY <1>2 DEF HonestInv, CountsFrom
<1>12. EnrolledBefore'
  BY <1>1, <1>2, <1>3, <1>4, <1>6, <1>8, <1>9 DEF HonestInv, EnrolledBefore
<1>13. KindsFit'
  BY <1>4, <1>6 DEF HonestInv, KindsFit
<1>. QED
  BY <1>7, <1>10, <1>11, <1>12, <1>13 DEF HonestInv

(* An assertion counts the device up.                                      *)
LEMMA GetAssertionHonest ==
    ASSUME SharedInv, HonestInv, NEW w \in Workers, NEW d \in Devices, GetAssertion(w, d)
    PROVE  HonestInv'
<1>1. /\ SharedTypeOK /\ fresh \in Nat /\ proc[w] \in Records
      /\ proc \in [Workers -> Procs]
  BY ProcRecord DEF SharedInv, SharedTypeOK
<1>2. /\ dev' = [dev EXCEPT ![d].count = @ + 1]
      /\ UNCHANGED <<users, creds, fresh, restarts, enrolled, logins>>
      /\ proc[w].pc = "waiting" /\ proc[w].kind = "AUTH"
  BY <1>1, GetAssertionEffect DEF GetAssertion
<1>3. PICK r : /\ ProcStep(w, r)
               /\ r.pc = "get_credential" /\ r.cred \in KeysOf(d) /\ r.count = dev[d].count + 1
  BY <1>1, GetAssertionEffect
<1>4. proc'[w] = r /\ \A v \in Workers : v # w => proc'[v] = proc[v]
  BY <1>1, <1>3, ProcAfter
<1>5. r.kind = "AUTH"
  <2>1. PICK k :
          proc' = [proc EXCEPT ![w].pc = "get_credential", ![w].cred = k.cred,
                     ![w].user = IF proc[w].name = Null THEN k.user ELSE @,
                     ![w].count = dev[d].count + 1]
    BY DEF GetAssertion
  <2>. QED
    BY <1>1, <1>2, <1>4, <2>1 DEF Records
<1>6. r.pc \notin EnrolSteps \cup {"insert_user"} /\ r.pc \in AssertSteps /\ ~Claims(r)
  BY <1>3 DEF EnrolSteps, AssertSteps, Claims
<1>7. IdsApart'
  <2>1. KeepsId(w)
    BY <1>4, <1>6 DEF KeepsId
  <2>. QED
    BY <1>1, <1>2, <1>3, <1>6, <2>1, KeptIdsApart DEF HonestInv
<1>8. \A e \in Devices : /\ KeysOf(e)' = KeysOf(e)
                         /\ dev[e].count \in Nat /\ dev'[e].count \in Nat
                         /\ dev'[e].count >= dev[e].count
  BY <1>1, <1>2 DEF KeysOf, SharedTypeOK
<1>9. CredentialsApart'
  BY <1>2, <1>4, <1>6 DEF HonestInv, CredentialsApart, CredentialConflict
<1>10. CountsFrom'
  BY <1>2 DEF HonestInv, CountsFrom
<1>11. EnrolledBefore'
  <2>1. \A f \in enrolled : f.cred \in Nat /\ f.count \in Nat
    BY <1>1 DEF SharedTypeOK
  <2>2. \A v \in Workers : proc[v].count \in Nat
    BY <1>1, ProcRecord DEF Records
  <2>3. ASSUME ~Clones, NEW f \in enrolled, NEW e \in Devices, f.cred \in KeysOf(e)
        PROVE  f.count =< dev'[e].count
    BY <1>8, <2>1, <2>3 DEF HonestInv, EnrolledBefore
  <2>4. ASSUME ~Clones, NEW f \in enrolled, f.cred = r.cred
        PROVE  f.count < r.count
    BY <1>3, <1>8, <2>1, <2>4 DEF HonestInv, EnrolledBefore
  <2>5. ASSUME ~Clones, NEW v \in Workers, proc[v].pc \in EnrolSteps, proc[v].cred = r.cred
        PROVE  proc[v].count < r.count
    BY <1>3, <1>8, <2>2, <2>5 DEF SharedInv, NoneAhead, Responding, EnrolSteps
  <2>. QED
    BY <1>2, <1>4, <1>6, <1>8, <2>3, <2>4, <2>5 DEF HonestInv, EnrolledBefore
<1>12. KindsFit'
  BY <1>4, <1>5 DEF HonestInv, KindsFit
<1>. QED
  BY <1>7, <1>9, <1>10, <1>11, <1>12 DEF HonestInv

(* The property does not speak of copied devices: of them only the ids and *)
(* the counters of the tables are left to keep.                            *)
LEMMA CloneHonest ==
    ASSUME SharedInv, HonestInv, NEW d \in Devices, NEW e \in Devices, Clone(d, e)
    PROVE  HonestInv'
<1>1. Clones /\ UNCHANGED <<users, creds, proc, fresh, enrolled, logins>>
  BY DEF Clone, tables
<1>2. IdsApart' /\ CredentialsApart' /\ CountsFrom' /\ KindsFit'
  BY <1>1 DEF HonestInv, IdsApart, UserKnown, CredentialsApart, CredentialConflict, CountsFrom,
              KindsFit
<1>3. EnrolledBefore'
  BY <1>1 DEF HonestInv, EnrolledBefore
<1>. QED
  BY <1>2, <1>3 DEF HonestInv

(* At the start there is no response, no row and no login.                 *)
LEMMA HonestInit == SharedInit => HonestInv
<1>. SUFFICES ASSUME SharedInit PROVE HonestInv
  OBVIOUS
<1>1. \A w \in Workers : proc[w].pc = "idle"
  BY DEF SharedInit, Started
<1>2. users = {} /\ creds = {} /\ enrolled = {}
  BY DEF SharedInit
<1>3. \A w \in Workers : ~Claims(proc[w]) /\ proc[w].pc \notin EnrolSteps \cup AssertSteps
  BY <1>1 DEF Claims, EnrolSteps, AssertSteps
<1>. QED
  BY <1>1, <1>2, <1>3 DEF HonestInv, IdsApart, CredentialsApart, CountsFrom, EnrolledBefore, KindsFit

(* Every step keeps it.                                                    *)
LEMMA HonestStep == SharedInv /\ HonestInv /\ [SharedNext]_sharedVars => HonestInv'
<1>. SUFFICES ASSUME SharedInv, HonestInv, [SharedNext]_sharedVars PROVE HonestInv'
  OBVIOUS
<1>. SharedTypeOK
  BY DEF SharedInv
<1>1. ASSUME NEW w \in Workers, Restart(w) \/ Indication(w) PROVE HonestInv'
  BY <1>1, QuietKeepsId, QuietHonest
<1>2. ASSUME NEW w \in Workers, Statement(w) PROVE HonestInv'
  <2>1. CASE GetUserId(w) \/ GetNoUserId(w) \/ GetCredentialDescriptors(w) \/ FailDescriptors(w)
    BY <2>1, QuietKeepsId, QuietHonest
  <2>2. CASE FailInsertUser(w) \/ FailInsertCredential(w) \/ GetNoCredential(w)
               \/ FailUpdateSignCount(w)
    BY <2>2, QuietKeepsId, QuietHonest
  <2>3. CASE SelectUser(w) \/ GetCredential(w)
    BY <2>3, SelectHonest
  <2>4. CASE InsertUser(w)
    BY <2>4, InsertUserHonest
  <2>5. CASE InsertCredential(w)
    BY <2>5, InsertCredentialHonest
  <2>6. CASE UpdateSignCount(w)
    BY <2>6, UpdateSignCountHonest
  <2>. QED
    BY <1>2, <2>1, <2>2, <2>3, <2>4, <2>5, <2>6 DEF Statement
<1>3. ASSUME NEW w \in Workers, NEW d \in Devices, MakeCredential(w, d) PROVE HonestInv'
  BY <1>3, MakeCredentialHonest
<1>4. ASSUME NEW w \in Workers, NEW d \in Devices, GetAssertion(w, d) PROVE HonestInv'
  BY <1>4, GetAssertionHonest
<1>5. ASSUME NEW d \in Devices, NEW e \in Devices, Clone(d, e) PROVE HonestInv'
  BY <1>5, CloneHonest
<1>6. CASE UNCHANGED sharedVars
  <2>1. UNCHANGED <<users, creds, proc, dev, fresh, enrolled, logins>>
    BY <1>6 DEF sharedVars
  <2>. QED
    BY <2>1 DEF HonestInv, IdsApart, UserKnown, CredentialsApart, CredentialConflict, CountsFrom,
                EnrolledBefore, KindsFit, KeysOf
<1>. QED
  BY <1>1, <1>2, <1>3, <1>4, <1>5, <1>6 DEF SharedNext

-----------------------------------------------------------------------------
(* Of the steps of the processes only four refuse a response, if no        *)
(* statement does: two of them find a conflict, one no row, and one a      *)
(* counter that is not below the one of the response.                      *)
LEMMA FailingSteps ==
    ASSUME SharedTypeOK, ~Busy, SharedNext, NEW w \in Workers,
           proc[w].pc # "failure", proc'[w].pc = "failure"
    PROVE  \/ proc[w].pc = "insert_user" /\ UserConflict(w)
           \/ proc[w].pc = "insert_credential" /\ CredentialConflict(w)
           \/ proc[w].pc = "get_credential" /\ RowsOf(w) = {}
           \/ /\ proc[w].pc = "get_credential"
              /\ \E row \in RowsOf(w) : ~CountVerifies(w, row)
<1>1. proc[w] \in Records /\ proc \in [Workers -> Procs]
  BY ProcRecord DEF SharedTypeOK
<1>. DEFINE Goal == \/ proc[w].pc = "insert_user" /\ UserConflict(w)
                    \/ proc[w].pc = "insert_credential" /\ CredentialConflict(w)
                    \/ proc[w].pc = "get_credential" /\ RowsOf(w) = {}
                    \/ /\ proc[w].pc = "get_credential"
                       /\ \E row \in RowsOf(w) : ~CountVerifies(w, row)
<1>3. ASSUME NEW v \in Workers, Restart(v) \/ Indication(v) PROVE Goal
  BY <1>1, <1>3 DEF Restart, Indication, Started, Records
<1>4. ASSUME NEW v \in Workers, Statement(v) PROVE Goal
  <2>1. CASE GetUserId(v) \/ GetNoUserId(v) \/ GetCredentialDescriptors(v) \/ FailDescriptors(v)
    BY <1>1, <2>1 DEF GetUserId, GetNoUserId, GetCredentialDescriptors, FailDescriptors, Started,
                      Records
  <2>2. CASE SelectUser(v) \/ InsertUser(v) \/ InsertCredential(v) \/ UpdateSignCount(v)
    BY <1>1, <2>2 DEF SelectUser, InsertUser, InsertCredential, UpdateSignCount, Records
  <2>3. CASE FailInsertUser(v) \/ FailInsertCredential(v) \/ GetNoCredential(v)
    BY <1>1, <2>3 DEF FailInsertUser, FailInsertCredential, GetNoCredential, Records
  <2>4. CASE GetCredential(v)
    BY <1>1, <2>4 DEF GetCredential, Records
  <2>5. CASE FailUpdateSignCount(v)
    BY <2>5 DEF FailUpdateSignCount
  <2>. QED
    BY <1>4, <2>1, <2>2, <2>3, <2>4, <2>5 DEF Statement
<1>5. ASSUME NEW v \in Workers, NEW d \in Devices, MakeCredential(v, d) \/ GetAssertion(v, d)
      PROVE  Goal
  <2>1. proc'[v].pc \in {"select_user", "get_credential"}
    <3>1. proc[v] \in Records
      BY ProcRecord
    <3>2. CASE MakeCredential(v, d)
      BY <1>1, <3>1, <3>2 DEF MakeCredential, Records
    <3>3. CASE GetAssertion(v, d)
      <4>1. PICK k :
              proc' = [proc EXCEPT ![v].pc = "get_credential", ![v].cred = k.cred,
                         ![v].user = IF proc[v].name = Null THEN k.user ELSE @,
                         ![v].count = dev[d].count + 1]
        BY <3>3 DEF GetAssertion
      <4>. QED
        BY <1>1, <3>1, <4>1 DEF Records
    <3>. QED
      BY <1>5, <3>2, <3>3
  <2>2. \A x \in Workers : x # v => proc'[x] = proc[x]
    BY <1>1, <1>5 DEF MakeCredential, GetAssertion
  <2>. QED
    BY <2>1, <2>2
<1>6. ASSUME NEW d \in Devices, NEW e \in Devices, Clone(d, e) PROVE Goal
  BY <1>6 DEF Clone
<1>. QED
  BY <1>3, <1>4, <1>5, <1>6 DEF SharedNext

(* However many processes run, an honest device is refused because of a    *)
(* concurrent registration of the name, a credential that was never stored *)
(* or a later assertion, and for nothing else: not by its own enrolment,   *)
(* nor by a conflict of the ids add_creds inserts.                         *)
THEOREM DevicesRefusedForCause == SharedSpec => DeviceRefusedForCause
<1>. DEFINE Cause(w) ==
       \/ \E u \in users : u.name = proc[w].name /\ u.id # proc[w].user
       \/ proc[w].kind = "AUTH" /\ RowsOf(w) = {}
       \/ \E i \in DOMAIN logins :
             logins[i].cred = proc[w].cred /\ logins[i].count > proc[w].count
     Refusals == ~Busy /\ ~Clones =>
         \A w \in Workers : proc[w].pc # "failure" /\ proc'[w].pc = "failure" => Cause(w)
<1>1. ASSUME SharedInv, HonestInv, [SharedNext]_sharedVars PROVE [Refusals]_sharedVars
  <2>. SUFFICES ASSUME SharedNext, ~Busy, ~Clones, NEW w \in Workers,
                       proc[w].pc # "failure", proc'[w].pc = "failure"
                PROVE  Cause(w)
    BY <1>1
  <2>0. SharedTypeOK /\ proc[w] \in Records
    BY <1>1, ProcRecord DEF SharedInv
  <2>1. CASE proc[w].pc = "insert_user" /\ UserConflict(w)
    <3>1. ~UserKnown(proc[w].user)
      BY <1>1, <2>1 DEF HonestInv, IdsApart
    <3>2. PICK u \in users : u.name = proc[w].name
      BY <2>1, <3>1 DEF UserConflict, IdsOf
    <3>3. u.id # proc[w].user
      BY <3>1, <3>2 DEF UserKnown
    <3>. QED
      BY <3>2, <3>3
  <2>2. CASE proc[w].pc = "insert_credential" /\ CredentialConflict(w)
    BY <1>1, <2>2 DEF HonestInv, CredentialsApart, EnrolSteps
  <2>3. CASE proc[w].pc = "get_credential" /\ RowsOf(w) = {}
    BY <1>1, <2>3 DEF HonestInv, KindsFit, AssertSteps
  <2>4. CASE /\ proc[w].pc = "get_credential"
             /\ \E row \in RowsOf(w) : ~CountVerifies(w, row)
    <3>1. PICK row \in RowsOf(w) : ~CountVerifies(w, row)
      BY <2>4
    <3>2. /\ row \in creds /\ row.cred = proc[w].cred /\ ~(proc[w].count > row.count)
          /\ row.count \in Nat /\ proc[w].count \in Nat
      BY <2>0, <3>1 DEF RowsOf, CountVerifies, SharedTypeOK, Records
    <3>3. ASSUME NEW f \in enrolled, f.cred = row.cred, f.count = row.count PROVE FALSE
      BY <1>1, <2>4, <3>2, <3>3 DEF HonestInv, EnrolledBefore, AssertSteps
    <3>4. PICK i \in DOMAIN logins : logins[i].cred = row.cred /\ logins[i].count = row.count
      BY <1>1, <3>2, <3>3 DEF HonestInv, CountsFrom
    <3>5. logins[i].count # proc[w].count
      BY <1>1, <2>4, <3>2, <3>4 DEF SharedInv, AssertionsDiffer, Asserting
    <3>. QED
      BY <3>2, <3>4, <3>5
  <2>. QED
    BY <2>0, <2>1, <2>2, <2>3, <2>4, FailingSteps
<1>2. SharedInv /\ HonestInv /\ [SharedNext]_sharedVars => [Refusals]_sharedVars
  BY <1>1
<1>. QED
  BY <1>2, HonestInit, HonestStep, SharedInvariant, PTL DEF SharedSpec, DeviceRefusedForCause

=============================================================================
