--------------------------- MODULE CredentialStore ---------------------------
(***************************************************************************)
(* What the two tables of persistence.c are meant to be: an account and    *)
(* its credentials.  An account comes into being together with its first   *)
(* credential, in one step; names, ids and credential ids are unique; a    *)
(* login moves the counter of one credential, and never down to what it    *)
(* was at the enrolment or below.                                          *)
(***************************************************************************)
EXTENDS Naturals

VARIABLES
    accounts,  \* [id, name]: the users that can log in
    rows,      \* [cred, user, count]: the credentials
    floor      \* [cred, count]: the counters the credentials were enrolled with

storeVars == <<accounts, rows, floor>>

Init == accounts = {} /\ rows = {} /\ floor = {}

(* A further credential of an account, or an account with its first one.   *)
Enrol ==
    \E account \in accounts', row \in rows' :
        /\ row.user = account.id
        /\ \A r \in rows : r.cred # row.cred
        /\ account \in accounts
             \/ \A b \in accounts : b.id # account.id /\ b.name # account.name
        /\ accounts' = accounts \cup {account}
        /\ rows' = rows \cup {row}
        /\ floor' = floor \cup {[cred |-> row.cred, count |-> row.count]}

Login ==
    \E row \in rows, row2 \in rows' :
        /\ row2 = [row EXCEPT !.count = row2.count]
        /\ \E f \in floor : f.cred = row.cred /\ f.count < row2.count
        /\ rows' = (rows \ {row}) \cup {row2}
        /\ UNCHANGED <<accounts, floor>>

Next == Enrol \/ Login

Spec == Init /\ [][Next]_storeVars

=============================================================================
