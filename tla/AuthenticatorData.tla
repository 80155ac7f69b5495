------------------------- MODULE AuthenticatorData --------------------------
(***************************************************************************)
(* The authenticator data as rp.c reads them (parse_authdata,              *)
(* parse_cose_key, verify_authdata), and the life of the signature counter *)
(* they carry: unsigned and four bytes long in the device and on the wire, *)
(* a signed int in struct authdata, in struct credential and in the table. *)
(*                                                                         *)
(* One credential, its authenticator, and a copy of the authenticator that *)
(* the counter is there to notice.                                         *)
(***************************************************************************)
EXTENDS Integers, Sequences

CONSTANTS
    Base,        \* values of one counter byte: 256 in the code
    Devices,     \* authenticators that hold the credential
    Owner,       \* the one that has made it; the others are copies
    MaxLogins    \* bound: logins in a behaviour, accepted or not

ASSUME CounterAssumption ==
    /\ Base \in Nat \ {0, 1} /\ Base % 2 = 0
    /\ MaxLogins \in Nat
    /\ Owner \in Devices

VARIABLES
    dev,       \* dev[d]: the counter of d and whether d has the credential
    row,       \* the row of table credentials, or NoRow
    last,      \* the last login: its number, its counter and the server's verdict
    accepted   \* history: the counters of the registration and the accepted logins

counterVars == <<dev, row, last, accepted>>

Wrap == Base * Base * Base * Base

(* A 32-bit value in an int: what sigcount in an int variable, and the     *)
(* shift of a byte into the sign bit, give in the builds there are.        *)
Signed(n) == IF n < Wrap \div 2 THEN n ELSE n - Wrap

-----------------------------------------------------------------------------
(* The authenticator, behind libfido2.  Its data are the flags, the four   *)
(* bytes of the counter and what follows these: the credential and its     *)
(* COSE key (AT) and the extension outputs (ED).                           *)

(* The COSE labels of an ES256 key: kty, alg, crv, x and y.                *)
CoseKey(x, y) ==
    [label \in {1, 3, -1, -2, -3} |->
       CASE label = 1 -> 2 [] label = 3 -> -7 [] label = -1 -> 1
         [] label = -2 -> x [] label = -3 -> y]

KeyPair == CoseKey("x", "y")

CounterBytes(n) ==
    LET three == n \div Base
        two == three \div Base
    IN  <<two \div Base, two % Base, three % Base, n % Base>>

AuthData(n, registers, extends) ==
    [flags |-> (IF registers THEN {"AT"} ELSE {}) \cup (IF extends THEN {"ED"} ELSE {}),
     count |-> CounterBytes(n),
     rest |-> (IF registers THEN <<"id", KeyPair>> ELSE <<>>)
              \o (IF extends THEN <<"outputs">> ELSE <<>>)]

-----------------------------------------------------------------------------
(* parse_authdata                                                          *)

(* Mutant of SignCount: the bytes are taken in the order of the host.      *)
SignCountSwapped(b) == Signed(((b[4] * Base + b[3]) * Base + b[2]) * Base + b[1])

SignCount(b) == Signed(((b[1] * Base + b[2]) * Base + b[3]) * Base + b[4])

(* With AT all that follows the credential id is taken for the key, the    *)
(* extension outputs too; without AT nothing may be left.                  *)
WellFormed(ad) == "AT" \in ad.flags \/ ad.rest = <<>>

PubkeyBytes(ad) == SubSeq(ad.rest, 2, Len(ad.rest))

(* parse_cose_key: the first CBOR item has to be a map of the known labels *)
(* with the supported values; what follows the map is not looked at.       *)
ParsesCoseKey(bytes) ==
    LET map == bytes[1]
    IN  /\ DOMAIN map \subseteq {1, 3, -1, -2, -3}
        /\ map[1] = 2 /\ map[3] = -7 /\ map[-1] = 1

Point(bytes) == <<bytes[1][-2], bytes[1][-3]>>

(* Mutant of Increased: the same counter will do.                          *)
IncreasedOrEqual(count, stored) == count >= stored

(* verify_authdata, mode AUTHENTICATE                                      *)
Increased(count, stored) == count > stored

-----------------------------------------------------------------------------
NoRow == [pubkey |-> <<>>, count |-> 0]

NoLogin == [no |-> 0, verdict |-> "none", count |-> 0, extends |-> FALSE]

Increment(n) == (n + 1) % Wrap

(* process_reg_response, from the verified credential to add_creds.        *)
Enrol ==
    \E extends \in BOOLEAN :
      LET n == Increment(dev[Owner].count)
          ad == AuthData(n, TRUE, extends)
      IN  /\ row = NoRow
          /\ WellFormed(ad)
          /\ dev' = [dev EXCEPT ![Owner] = [count |-> n, holds |-> TRUE]]
          /\ row' = [pubkey |-> PubkeyBytes(ad), count |-> Signed(n)]
          /\ accepted' = {n}
          /\ UNCHANGED last

(* process_auth_response, from parse_authdata to update_sign_count.        *)
Login(d) ==
    \E extends \in BOOLEAN :
      LET n == Increment(dev[d].count)
          ad == AuthData(n, FALSE, extends)
          ok == /\ WellFormed(ad)
                /\ Increased(SignCount(ad.count), row.count)
                /\ ParsesCoseKey(row.pubkey)
                /\ Point(row.pubkey) = <<"x", "y">>
      IN  /\ dev[d].holds /\ row # NoRow
          /\ last.no < MaxLogins
          /\ dev' = [dev EXCEPT ![d].count = n]
          /\ last' = [no |-> last.no + 1, verdict |-> IF ok THEN "accepted" ELSE "refused",
                      count |-> n, extends |-> extends]
          /\ row' = IF ok THEN [row EXCEPT !.count = SignCount(ad.count)] ELSE row
          /\ accepted' = IF ok THEN accepted \cup {n} ELSE accepted

(* The authenticator counts the signatures for all its credentials.        *)
UseElsewhere(d) ==
    /\ dev[d].holds
    /\ dev' = [dev EXCEPT ![d].count = Increment(@)]
    /\ UNCHANGED <<row, last, accepted>>

(* Somebody copies the authenticator, counter and all.                     *)
Copy(d) ==
    /\ dev[Owner].holds /\ ~dev[d].holds
    /\ dev' = [dev EXCEPT ![d] = dev[Owner]]
    /\ UNCHANGED <<row, last, accepted>>

CounterStart ==
    /\ \E n \in 0 .. Wrap - 1 :
         dev = [d \in Devices |-> [count |-> IF d = Owner THEN n ELSE 0, holds |-> FALSE]]
    /\ row = NoRow
    /\ last = NoLogin
    /\ accepted = {}

CounterNext ==
    \/ Enrol
    \/ \E d \in Devices : Login(d) \/ UseElsewhere(d) \/ Copy(d)

CounterSpec == CounterStart /\ [][CounterNext]_counterVars

-----------------------------------------------------------------------------
(* A counter is good for one ceremony: whatever the authenticator, its      *)
(* copies and the overflow of the four bytes do, no accepted login carries  *)
(* the counter of the registration or of a login that was accepted before   *)
(* (verify_authdata, update_sign_count).                                    *)
NoCounterTwice ==
    [][last' # last /\ last'.verdict = "accepted" => last'.count \notin accepted]_counterVars

Copied == \E d \in Devices \ {Owner} : dev[d].holds

Highest == last' # last /\ \A n \in accepted : n < last'.count

(* An authenticator nobody has copied is never locked out while its        *)
(* counter is below 2^31 and has not run over: not by its use elsewhere,   *)
(* nor by extension outputs in its registration, which are stored behind   *)
(* its key.  Extension outputs in a login are refused (parse_authdata).    *)
OwnerIsServed ==
    [][Highest /\ ~Copied /\ last'.count < Wrap \div 2 =>
         last'.verdict = "accepted" \/ last'.extends]_counterVars

=============================================================================
