--------------------------- MODULE SealingHistory ---------------------------
(***************************************************************************)
(* What the two sides encrypt.  aes_gcm_encrypt gets its key from          *)
(* derive_gcm_key and its IV from get_message_iv, which knows nothing but  *)
(* the type of the packet: this module watches FidoSystem.tla and keeps    *)
(* every field the running system has sealed.                              *)
(***************************************************************************)
EXTENDS FidoSystem

VARIABLE sealed    \* history: the (key, IV, plaintext) of every encryption

(* get_message_iv: one constant for each packet with an encrypted field.   *)
MessageIv(type) ==
    CASE type = "REG_INDICATION" -> "messagetype3"
      [] type = "REG_REQUEST" -> "messagetype4"
      [] type = "AUTH_INDICATION_SERVER_SIDE" -> "messagetype7"
      [] type = "AUTH_REQUEST" -> "messagetype8"

Sealing(m, name, ticket, user, ids) ==
    {[key |-> m.key, iv |-> MessageIv(m.type),
      name |-> name, ticket |-> ticket, user |-> user, ids |-> ids]}

(* The encryption behind the encrypted field of a packet.  An              *)
(* authentication request without an allow list has none.                  *)
SealingOf(m) ==
    CASE m.type = "REG_INDICATION" -> Sealing(m, m.name, m.ticket, 0, {})
      [] m.type = "REG_REQUEST" -> Sealing(m, m.name, Null, m.user, m.exclude)
      [] m.type = "AUTH_INDICATION_SERVER_SIDE" -> Sealing(m, m.name, Null, 0, {})
      [] m.type = "AUTH_REQUEST" /\ m.key # NoKey -> Sealing(m, Null, Null, 0, m.allow)
      [] OTHER -> {}

SealingInit == Init /\ sealed = {}

(* A packet is built, and sealed, when it is put on its connection.        *)
SealingNext ==
    /\ Next
    /\ sealed' = sealed \cup
         UNION {SealingOf(conn'[c].msg) : c \in {d \in Clients : conn'[d] # conn[d]}}

SealingSpec == SealingInit /\ [][SealingNext]_<<vars, sealed>>
FairSealingSpec == SealingSpec /\ Fairness

(* common.c:72: "The iv has to be unique for every encryption".  A key is  *)
(* handed out in a pre-response and kept in memory on both sides, programs *)
(* are stopped and started, connections break, and the server answers      *)
(* whichever connection comes next: still no key encrypts two different    *)
(* fields under the IV of one packet type.                                 *)
IvUniquePerKey ==
    \A x, y \in sealed : x.key = y.key /\ x.iv = y.iv => x = y

=============================================================================
