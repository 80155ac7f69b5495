--------------------------- MODULE AccountService ---------------------------
(***************************************************************************)
(* What a relying party promises, with no handshake, packets or processes: *)
(* a challenge-response service over a table of credentials.  Every change *)
(* of the table spends the challenge that is pending; a spent challenge is *)
(* never pending again; enrolment adds one new credential id, and a login  *)
(* raises the signature counter of one credential and changes nothing else.*)
(***************************************************************************)
EXTENDS Naturals

VARIABLES
    rows,      \* the credentials: records with fields cred, user, rp, count
    pending,   \* the challenge that is waiting for its response, or 0
    spent      \* the challenges that have been answered

vars == <<rows, pending, spent>>

Init == rows = {} /\ pending = 0 /\ spent = {}

(* A new challenge replaces the pending one, if there is one.              *)
Issue ==
    /\ pending' \in Nat \ {0}
    /\ pending' \notin spent
    /\ UNCHANGED <<rows, spent>>

Withdraw == pending' = 0 /\ UNCHANGED <<rows, spent>>

Spend ==
    /\ pending # 0
    /\ pending \notin spent
    /\ spent' = spent \cup {pending}
    /\ pending' = 0

Enrol ==
    /\ Spend
    /\ \E row \in rows' :
         /\ rows' = rows \cup {row}
         /\ \A r \in rows : r.cred # row.cred

Login ==
    /\ Spend
    /\ \E row \in rows, row2 \in rows' :
         /\ row2 = [row EXCEPT !.count = row2.count]
         /\ row2.count > row.count
         /\ rows' = (rows \ {row}) \cup {row2}

Next == Issue \/ Withdraw \/ Enrol \/ Login

Spec == Init /\ [][Next]_vars

=============================================================================
