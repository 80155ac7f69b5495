--------------------------- MODULE SharedDatabase ---------------------------
(***************************************************************************)
(* Several server processes on one database file.  Each keeps an rp_data   *)
(* of its own, all of them open "fido2.db" (init_rp), and no transaction   *)
(* spans two statements of persistence.c.  So the unit of this module is   *)
(* one SQL statement: the program counter of a process names the function  *)
(* of persistence.c that runs next, and a process may crash and be started *)
(* again between any two of them.  The packets and the handshake are those *)
(* of RelyingParty.tla and are left out here.                              *)
(***************************************************************************)
EXTENDS Naturals, FiniteSets, Sequences

CONSTANTS
    Workers,        \* server processes that run at a time
    Devices,        \* authenticators
    Names,          \* user names
    Null,           \* no name
    Busy,           \* TRUE: a statement may be refused, with SQLITE_BUSY say
    Clones,         \* TRUE: an authenticator may be copied
    MaxRestarts,   \* bound: restarts in a behaviour
    MaxOperations,  \* bound: the counter of an authenticator
    MaxRandom       \* bound: random ids

ASSUME SharedDatabaseAssumption ==
    /\ Null \notin Names
    /\ {Busy, Clones} \subseteq BOOLEAN
    /\ {MaxRestarts, MaxOperations, MaxRandom} \subseteq Nat

VARIABLES
    users,      \* table users
    creds,      \* table credentials
    proc,       \* per process: the rp_data fields that hold what was read
    dev,        \* per authenticator: its credentials and its counter
    fresh,      \* the next random id
    restarts,   \* how often a process has been started again
    enrolled,   \* history: the counter each credential was enrolled with
    logins      \* history: the accepted logins, in the order of their UPDATEs

tables == <<users, creds>>
sharedVars == <<users, creds, proc, dev, fresh, restarts, enrolled, logins>>

(* "waiting": the request is on its way; "success", "failure": the states  *)
(* of rp_data no packet leaves.                                            *)
Statements ==
    {"get_user_id", "get_credential_descriptors", "select_user", "insert_user",
     "insert_credential", "get_credential", "update_sign_count"}

Steps == Statements \cup {"idle", "waiting", "success", "failure"}

Records ==
    [pc : Steps, kind : {"NONE", "REG", "AUTH"}, name : Names \cup {Null}, user : Nat,
     list : SUBSET Nat, cred : Nat, count : Nat, read : Nat]

(* A registration and a lookup have a name.                                *)
Named(p) ==
    p.kind = "REG" \/ p.pc \in {"get_user_id", "select_user", "insert_user"}
        => p.name \in Names

Procs == {p \in Records : Named(p)}

Started ==
    [pc |-> "idle", kind |-> "NONE", name |-> Null, user |-> 0, list |-> {},
     cred |-> 0, count |-> 0, read |-> 0]

(* The process ends, by a crash or a shutdown, and another one is started. *)
Restart(w) ==
    /\ restarts < MaxRestarts
    /\ restarts' = restarts + 1
    /\ proc' = [proc EXCEPT ![w] = Started]
    /\ UNCHANGED <<tables, dev, fresh, enrolled, logins>>

(* process_indication: for a registration it stores the name, for a login  *)
(* with server-side credentials it looks up the name first, for one with   *)
(* discoverable credentials it asks for nothing.                           *)
Indication(w) ==
    /\ proc[w].pc = "idle"
    /\ \/ \E name \in Names, kind \in {"REG", "AUTH"} :
            proc' = [proc EXCEPT ![w].pc = "get_user_id", ![w].kind = kind, ![w].name = name]
       \/ proc' = [proc EXCEPT ![w].pc = "waiting", ![w].kind = "AUTH"]
    /\ UNCHANGED <<tables, dev, fresh, restarts, enrolled, logins>>

-----------------------------------------------------------------------------
(* The statements that come before a request.                              *)

(* get_user_id: the query.                                                 *)
IdsOf(name) == {u.id : u \in {v \in users : v.name = name}}

(* get_user_id finds the name.                                             *)
GetUserId(w) ==
    /\ proc[w].pc = "get_user_id"
    /\ \E id \in IdsOf(proc[w].name) :
         proc' = [proc EXCEPT ![w].pc = "get_credential_descriptors", ![w].user = id]
    /\ UNCHANGED <<tables, dev, fresh, restarts, enrolled, logins>>

(* It reports -1, for an unknown name or an error: a registration goes on  *)
(* with a random id, a login is refused and the process can start over.    *)
GetNoUserId(w) ==
    /\ proc[w].pc = "get_user_id"
    /\ IdsOf(proc[w].name) = {} \/ Busy
    /\ \/ /\ proc[w].kind = "REG"
          /\ fresh < MaxRandom
          /\ proc' = [proc EXCEPT ![w].pc = "get_credential_descriptors", ![w].user = fresh]
          /\ fresh' = fresh + 1
       \/ /\ proc[w].kind = "AUTH"
          /\ proc' = [proc EXCEPT ![w] = Started]
          /\ UNCHANGED fresh
    /\ UNCHANGED <<tables, dev, restarts, enrolled, logins>>

(* get_credential_descriptors: the query.                                  *)
CredentialsOf(id) == {r.cred : r \in {s \in creds : s.user = id}}

(* The exclude or the allow list.  An error ends the list early; an empty  *)
(* allow list is refused, and asked for again by the next handshake.       *)
GetCredentialDescriptors(w) ==
    /\ proc[w].pc = "get_credential_descriptors"
    /\ \E list \in SUBSET CredentialsOf(proc[w].user) :
         /\ list = CredentialsOf(proc[w].user) \/ Busy
         /\ proc[w].kind = "AUTH" => list # {}
         /\ proc' = [proc EXCEPT ![w].pc = "waiting", ![w].list = list]
    /\ UNCHANGED <<tables, dev, fresh, restarts, enrolled, logins>>

(* The statement cannot be prepared: create_reg_request gives up, and is   *)
(* called again from its beginning by the next handshake.                  *)
FailDescriptors(w) ==
    /\ proc[w].pc = "get_credential_descriptors"
    /\ proc[w].kind = "REG"
    /\ Busy
    /\ proc' = [proc EXCEPT ![w].pc = "get_user_id"]
    /\ UNCHANGED <<tables, dev, fresh, restarts, enrolled, logins>>

-----------------------------------------------------------------------------
(* The authenticators.  A device counts its operations, holds credentials  *)
(* with the id of their user, and makes none when it knows an excluded one. *)

MakeCredential(w, d) ==
    /\ proc[w].pc = "waiting"
    /\ proc[w].kind = "REG"
    /\ fresh < MaxRandom
    /\ \A k \in dev[d].keys : k.cred \notin proc[w].list
    /\ dev' = [dev EXCEPT ![d].keys = @ \cup {[cred |-> fresh, user |-> proc[w].user]}]
    /\ proc' = [proc EXCEPT ![w].pc = "select_user", ![w].cred = fresh,
                            ![w].count = dev[d].count]
    /\ fresh' = fresh + 1
    /\ UNCHANGED <<tables, restarts, enrolled, logins>>

(* Without an allow list the device chooses, and names the user.           *)
GetAssertion(w, d) ==
    /\ proc[w].pc = "waiting"
    /\ proc[w].kind = "AUTH"
    /\ dev[d].count < MaxOperations
    /\ \E k \in dev[d].keys :
         /\ proc[w].name # Null => k.cred \in proc[w].list
         /\ proc' = [proc EXCEPT ![w].pc = "get_credential", ![w].cred = k.cred,
                                 ![w].user = IF proc[w].name = Null THEN k.user ELSE @,
                                 ![w].count = dev[d].count + 1]
    /\ dev' = [dev EXCEPT ![d].count = @ + 1]
    /\ UNCHANGED <<tables, fresh, restarts, enrolled, logins>>

(* What the counter is there to reveal.                                    *)
Clone(d, e) ==
    /\ Clones
    /\ d # e
    /\ dev' = [dev EXCEPT ![e] = dev[d]]
    /\ UNCHANGED <<tables, proc, fresh, restarts, enrolled, logins>>

-----------------------------------------------------------------------------
(* add_creds.                                                              *)

UserKnown(id) == \E u \in users : u.id = id

(* Mutant of SelectUser: the user is taken for known.                      *)
SelectUserAssumed(w) ==
    /\ proc[w].pc = "select_user"
    /\ proc' = [proc EXCEPT ![w].pc = "insert_credential"]
    /\ UNCHANGED <<tables, dev, fresh, restarts, enrolled, logins>>

(* SELECT: only "no row" leads to the INSERT of the user.                  *)
SelectUser(w) ==
    /\ proc[w].pc = "select_user"
    /\ \/ /\ UserKnown(proc[w].user) \/ Busy
          /\ proc' = [proc EXCEPT ![w].pc = "insert_credential"]
       \/ /\ ~UserKnown(proc[w].user)
          /\ proc' = [proc EXCEPT ![w].pc = "insert_user"]
    /\ UNCHANGED <<tables, dev, fresh, restarts, enrolled, logins>>

(* Mutant of UserConflict: user_name is not UNIQUE.                        *)
UserConflictById(w) == UserKnown(proc[w].user)

(* user_id is the PRIMARY KEY of the table, user_name is UNIQUE.           *)
UserConflict(w) == UserKnown(proc[w].user) \/ IdsOf(proc[w].name) # {}

InsertUser(w) ==
    /\ proc[w].pc = "insert_user"
    /\ ~UserConflict(w)
    /\ users' = users \cup {[id |-> proc[w].user, name |-> proc[w].name]}
    /\ proc' = [proc EXCEPT ![w].pc = "insert_credential"]
    /\ UNCHANGED <<creds, dev, fresh, restarts, enrolled, logins>>

FailInsertUser(w) ==
    /\ proc[w].pc = "insert_user"
    /\ UserConflict(w) \/ Busy
    /\ proc' = [proc EXCEPT ![w].pc = "failure"]
    /\ UNCHANGED <<tables, dev, fresh, restarts, enrolled, logins>>

CredentialConflict(w) == \E r \in creds : r.cred = proc[w].cred

InsertCredential(w) ==
    /\ proc[w].pc = "insert_credential"
    /\ ~CredentialConflict(w)
    /\ creds' = creds \cup {[cred |-> proc[w].cred, user |-> proc[w].user,
                             count |-> proc[w].count]}
    /\ enrolled' = enrolled \cup {[cred |-> proc[w].cred, count |-> proc[w].count]}
    /\ proc' = [proc EXCEPT ![w].pc = "success"]
    /\ UNCHANGED <<users, dev, fresh, restarts, logins>>

FailInsertCredential(w) ==
    /\ proc[w].pc = "insert_credential"
    /\ CredentialConflict(w) \/ Busy
    /\ proc' = [proc EXCEPT ![w].pc = "failure"]
    /\ UNCHANGED <<tables, dev, fresh, restarts, enrolled, logins>>

-----------------------------------------------------------------------------
(* process_auth_response: get_credential, verify_authdata, and the update. *)

RowsOf(w) == {r \in creds : r.user = proc[w].user /\ r.cred = proc[w].cred}

(* Mutants of CountVerifies: no check, off by one.                         *)
CountVerifiesNot(w, row) == TRUE

CountVerifiesOffByOne(w, row) == proc[w].count > row.count + 1

(* verify_authdata *)
CountVerifies(w, row) == proc[w].count > row.count

(* The row is read and the counter compared with it.                       *)
GetCredential(w) ==
    /\ proc[w].pc = "get_credential"
    /\ \E row \in RowsOf(w) :
         proc' = [proc EXCEPT ![w].read = row.count,
                    ![w].pc = IF CountVerifies(w, row) THEN "update_sign_count" ELSE "failure"]
    /\ UNCHANGED <<tables, dev, fresh, restarts, enrolled, logins>>

GetNoCredential(w) ==
    /\ proc[w].pc = "get_credential"
    /\ RowsOf(w) = {} \/ Busy
    /\ proc' = [proc EXCEPT ![w].pc = "failure"]
    /\ UNCHANGED <<tables, dev, fresh, restarts, enrolled, logins>>

WithCount(cred, n) == {IF r.cred = cred THEN [r EXCEPT !.count = n] ELSE r : r \in creds}

(* Mutants of UpdateSignCount: the response stays pending, off by one.     *)
UpdateSignCountAgain(w) ==
    /\ proc[w].pc = "update_sign_count"
    /\ creds' = WithCount(proc[w].cred, proc[w].count)
    /\ logins' = Append(logins, [cred |-> proc[w].cred, count |-> proc[w].count])
    /\ UNCHANGED <<users, proc, dev, fresh, restarts, enrolled>>

UpdateSignCountPlusOne(w) ==
    /\ proc[w].pc = "update_sign_count"
    /\ creds' = WithCount(proc[w].cred, proc[w].count + 1)
    /\ proc' = [proc EXCEPT ![w].pc = "success"]
    /\ UNCHANGED <<users, dev, fresh, restarts, enrolled, logins>>

(* UPDATE ... WHERE cred_id = ?: whatever the row holds by now.            *)
UpdateSignCount(w) ==
    /\ proc[w].pc = "update_sign_count"
    /\ creds' = WithCount(proc[w].cred, proc[w].count)
    /\ logins' = Append(logins, [cred |-> proc[w].cred, count |-> proc[w].count])
    /\ proc' = [proc EXCEPT ![w].pc = "success"]
    /\ UNCHANGED <<users, dev, fresh, restarts, enrolled>>

FailUpdateSignCount(w) ==
    /\ proc[w].pc = "update_sign_count"
    /\ Busy
    /\ proc' = [proc EXCEPT ![w].pc = "failure"]
    /\ UNCHANGED <<tables, dev, fresh, restarts, enrolled, logins>>

-----------------------------------------------------------------------------
SharedInit ==
    /\ users = {} /\ creds = {}
    /\ proc = [w \in Workers |-> Started]
    /\ dev = [d \in Devices |-> [keys |-> {}, count |-> 0]]
    /\ fresh = 1
    /\ restarts = 0
    /\ enrolled = {} /\ logins = <<>>

Statement(w) ==
    \/ GetUserId(w) \/ GetNoUserId(w) \/ GetCredentialDescriptors(w) \/ FailDescriptors(w)
    \/ SelectUser(w) \/ InsertUser(w) \/ FailInsertUser(w)
    \/ InsertCredential(w) \/ FailInsertCredential(w)
    \/ GetCredential(w) \/ GetNoCredential(w) \/ UpdateSignCount(w) \/ FailUpdateSignCount(w)

SharedNext ==
    \/ \E w \in Workers :
         \/ Restart(w) \/ Indication(w) \/ Statement(w)
         \/ \E d \in Devices : MakeCredential(w, d) \/ GetAssertion(w, d)
    \/ \E d, e \in Devices : Clone(d, e)

SharedSpec == SharedInit /\ [][SharedNext]_sharedVars

-----------------------------------------------------------------------------
(* Properties.                                                             *)

KeysOf(d) == {k.cred : k \in dev[d].keys}

(* The shape of the tables, the processes, the devices and the histories.  *)
SharedTypeOK ==
    /\ users \subseteq [id : Nat, name : Names]
    /\ creds \subseteq [cred : Nat, user : Nat, count : Nat]
    /\ proc \in [Workers -> Procs]
    /\ dev \in [Devices -> [keys : SUBSET [cred : Nat, user : Nat], count : Nat]]
    /\ fresh \in Nat \ {0}
    /\ restarts \in 0 .. MaxRestarts
    /\ enrolled \subseteq [cred : Nat, count : Nat]
    /\ logins \in Seq([cred : Nat, count : Nat])

UniqueUsers == \A u, v \in users : u.id = v.id \/ u.name = v.name => u = v

UniqueCredentials == \A r, s \in creds : r.cred = s.cred => r = s

Owned == \A r \in creds : UserKnown(r.user)

(* However the statements of several processes interleave and wherever one *)
(* of them crashes, the keys of the two tables stay unique; and unless     *)
(* SQLite refuses a statement, every credential has its user (add_creds).  *)
TablesConsistent == UniqueUsers /\ UniqueCredentials /\ (~Busy => Owned)

(* Several processes: as long as no device is copied, no assertion is      *)
(* accepted twice, in whatever order their statements run.                 *)
NoAssertionTwice ==
    ~Clones => \A i, j \in DOMAIN logins : logins[i] = logins[j] => i = j

(* Nor does a race lock a user out: a stored counter never exceeds that of *)
(* the device, so that its next assertion will verify.                     *)
DeviceAhead ==
    ~Clones => \A d \in Devices : \A r \in creds :
                  r.cred \in KeysOf(d) => r.count =< dev[d].count

(* process_reg_response and process_auth_response refuse an honest device  *)
(* for a cause only: the name went to a concurrent registration, the       *)
(* credential was never stored, or a later assertion has overtaken it.     *)
DeviceRefusedForCause ==
    [][~Busy /\ ~Clones =>
         \A w \in Workers : proc[w].pc # "failure" /\ proc'[w].pc = "failure" =>
            \/ \E u \in users : u.name = proc[w].name /\ u.id # proc[w].user
            \/ proc[w].kind = "AUTH" /\ RowsOf(w) = {}
            \/ \E i \in DOMAIN logins :
                  logins[i].cred = proc[w].cred /\ logins[i].count > proc[w].count]_sharedVars

(* A counter is lowered only by a process that compared with a value that  *)
(* another one has replaced since (process_auth_response reads the row and *)
(* update_sign_count writes it in two statements).                         *)
LoweredOnlyByRace ==
    [][\A r \in creds : \A s \in creds' : s.cred = r.cred /\ s.count < r.count =>
          \E w \in Workers : /\ proc[w].pc = "update_sign_count"
                             /\ proc[w].cred = r.cred
                             /\ proc[w].read < r.count]_sharedVars

-----------------------------------------------------------------------------
(* The inductive invariant behind the properties above.                    *)

(* What add_creds has found or inserted is there when it goes on.          *)
UserBeforeCredential ==
    ~Busy => \A w \in Workers :
                proc[w].pc = "insert_credential" => UserKnown(proc[w].user)

FreshCredentials ==
    /\ \A r \in creds : r.cred < fresh
    /\ \A w \in Workers : proc[w].cred < fresh
    /\ \A d \in Devices : \A c \in KeysOf(d) : c < fresh

OneHolder ==
    ~Clones => \A d, e \in Devices : KeysOf(d) \cap KeysOf(e) # {} => d = e

(* a response is under way, a new credential's or an assertion             *)
Responding(w) ==
    proc[w].pc \in {"select_user", "insert_user", "insert_credential",
                    "get_credential", "update_sign_count"}
Asserting(w) == proc[w].pc \in {"get_credential", "update_sign_count"}

(* No response and no accepted login is ahead of its device.               *)
NoneAhead ==
    ~Clones => \A d \in Devices :
        /\ \A w \in Workers : Responding(w) /\ proc[w].cred \in KeysOf(d)
                                  => proc[w].count =< dev[d].count
        /\ \A i \in DOMAIN logins : logins[i].cred \in KeysOf(d)
                                       => logins[i].count =< dev[d].count

(* The assertions under way differ from each other and from those accepted. *)
AssertionsDiffer ==
    ~Clones =>
        /\ \A w \in Workers : Asserting(w) =>
              /\ \E d \in Devices : proc[w].cred \in KeysOf(d)
              /\ \A i \in DOMAIN logins :
                    ~(logins[i].cred = proc[w].cred /\ logins[i].count = proc[w].count)
        /\ \A v, w \in Workers :
              Asserting(v) /\ Asserting(w) /\ proc[v].cred = proc[w].cred
                /\ proc[v].count = proc[w].count => v = w
        /\ \A i \in DOMAIN logins : \E d \in Devices : logins[i].cred \in KeysOf(d)

(* No counter falls below the one its credential was enrolled with.        *)
AboveEnrolment(cred, n) == \E f \in enrolled : f.cred = cred /\ f.count =< n

CountsAboveEnrolment ==
    /\ \A r \in creds : AboveEnrolment(r.cred, r.count)
    /\ \A w \in Workers : proc[w].pc = "update_sign_count" =>
          /\ proc[w].read < proc[w].count
          /\ AboveEnrolment(proc[w].cred, proc[w].read)

(* Everything the proofs about several processes rest on.                  *)
SharedInv ==
    /\ SharedTypeOK /\ TablesConsistent /\ UserBeforeCredential
    /\ FreshCredentials /\ OneHolder /\ NoneAhead /\ AssertionsDiffer
    /\ DeviceAhead /\ NoAssertionTwice /\ CountsAboveEnrolment

-----------------------------------------------------------------------------
(* Users without a credential, which a crash between the two INSERTs of    *)
(* add_creds leaves behind, are no accounts: nobody can log in as one, and *)
(* a later registration under the name finishes the work.                  *)
Store == INSTANCE CredentialStore
    WITH accounts <- {u \in users : \E r \in creds : r.user = u.id},
         rows <- creds, floor <- enrolled

(* The statements of any number of processes, crashes between them         *)
(* included, implement the store in which an account appears with its      *)
(* first credential in one step, as long as no statement is refused.       *)
ImplementsStore == Store!Spec

=============================================================================
