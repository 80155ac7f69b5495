----------------------------- MODULE UserNames -----------------------------
(***************************************************************************)
(* A user name on its way.  The client pads the name its user gave         *)
(* (bit_padding), the server removes the padding (remove_bit_padding), and *)
(* in a registration pads it again for the request, in which the client    *)
(* compares it with what the user gave.  A later login looks it up.        *)
(* Encryption and packets around the padded name are left out.             *)
(***************************************************************************)
EXTENDS Integers, Sequences

CONSTANTS
    Width,          \* bytes of a padded name: 256
    Typed,          \* names users give to the client program, C strings of any length
    Empty           \* no name yet

Byte == 0..255
Marker == 128       \* 0x80

ASSUME UserNamesAssumption ==
    /\ Width \in Nat /\ Width >= 2
    /\ Typed \subseteq Seq(1..255)
    /\ Empty \notin Seq(Byte)

VARIABLES
    run,            \* how far the current run is
    typed,          \* name given for this run
    padded,           \* padded name in flight, a function on 1..Width
    name,           \* data->user_name of the server
    table           \* names in the table users

namesVars == <<run, typed, padded, name, table>>

(* a C string ends at its first zero byte *)
CString(s) ==
    IF \E i \in DOMAIN s : s[i] = 0
    THEN LET end == CHOOSE i \in DOMAIN s : s[i] = 0 /\ \A j \in 1..(i - 1) : s[j] # 0
         IN  [k \in 1..(end - 1) |-> s[k]]
    ELSE s

Paddable(s) == Len(s) \in 1..(Width - 1)

BitPadding(s) ==
    [i \in 1..Width |-> IF i <= Len(s) THEN s[i] ELSE IF i = Len(s) + 1 THEN Marker ELSE 0]

(* a scan that starts at the other end stops at the first marker *)
MarkerAtFirst(p) == {i \in 2..Width : p[i] = Marker /\ \A j \in 1..(i - 1) : p[j] # Marker}

(* positions of the marker: all zeros after it, at least one byte before it *)
MarkerAt(p) == {i \in 2..Width : p[i] = Marker /\ \A j \in (i + 1)..Width : p[j] = 0}

RemoveBitPadding(p) == {[k \in 1..(i - 1) |-> p[k]] : i \in MarkerAt(p)}

NamesStart ==
    /\ run = "idle"
    /\ typed = Empty /\ padded = Empty /\ name = Empty
    /\ table = {}

(* create_reg_indication and create_auth_indication_server_side *)
Indicate(s, ceremony) ==
    /\ run = "idle"
    /\ typed' = s
    /\ IF Paddable(s) THEN run' = ceremony /\ padded' = BitPadding(s)
                      ELSE run' = "refused" /\ UNCHANGED padded
    /\ UNCHANGED <<name, table>>

(* get_user_id looks the name up; the run goes on as known or as unknown *)
ReceiveName(known, unknown) ==
    /\ IF RemoveBitPadding(padded) = {}
       THEN run' = "failed" /\ UNCHANGED name
       ELSE \E s \in RemoveBitPadding(padded) :
                /\ name' = s
                /\ run' = IF CString(s) \in table THEN known ELSE unknown
    /\ UNCHANGED <<typed, padded, table>>

(* process_indication, the branches of registration and login *)
ReceiveRegistration == run = "registers" /\ ReceiveName("indicated", "indicated")
ReceiveLogin == run = "logs in" /\ ReceiveName("known", "unknown")

(* create_reg_request *)
Request ==
    /\ run = "indicated"
    /\ IF Paddable(CString(name))
       THEN run' = "requested" /\ padded' = BitPadding(CString(name))
       ELSE run' = "failed" /\ UNCHANGED padded
    /\ UNCHANGED <<typed, name, table>>

(* process_reg_request compares, process_reg_response adds the row *)
Confirm ==
    /\ run = "requested"
    /\ IF typed \in RemoveBitPadding(padded)
       THEN run' = "enrolled" /\ table' = table \cup {CString(name)}
       ELSE run' = "mismatch" /\ UNCHANGED table
    /\ UNCHANGED <<typed, padded, name>>

(* the next run of the two programs *)
Again ==
    /\ run \in {"refused", "failed", "mismatch", "enrolled", "known", "unknown"}
    /\ run' = "idle"
    /\ typed' = Empty /\ padded' = Empty /\ name' = Empty
    /\ UNCHANGED table

NamesNext ==
    \/ \E s \in Typed, ceremony \in {"registers", "logs in"} : Indicate(s, ceremony)
    \/ ReceiveRegistration
    \/ ReceiveLogin
    \/ Request
    \/ Confirm
    \/ Again

NamesSpec == NamesStart /\ [][NamesNext]_namesVars

-----------------------------------------------------------------------------
(* The server has the name the user gave, byte for byte, and sends it back *)
(* so: no name, with bytes like the marker in it or 255 bytes long, is cut *)
(* or refused on the way (bit_padding, remove_bit_padding).                *)
NameArrives ==
    /\ run \in {"indicated", "requested", "enrolled", "known", "unknown"} => name = typed
    /\ run \notin {"failed", "mismatch"}

(* A login finds the row of exactly the name it was given: one that was    *)
(* enrolled under it, and no other's (get_user_id).                        *)
OwnAccount ==
    /\ run = "known" => typed \in table
    /\ run = "unknown" => typed \notin table

=============================================================================
