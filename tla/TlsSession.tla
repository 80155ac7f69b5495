----------------------------- MODULE TlsSession -----------------------------
(***************************************************************************)
(* The part of a TLS 1.3 handshake that carries the FIDO extension, as     *)
(* OpenSSL drives it through the four callbacks of fidossl.c:              *)
(*                                                                         *)
(*   idle --ClientHello--> hello --parse_cb--> parsed --add_cb-->          *)
(*   request (CertificateRequest) --client parse_cb--> asked               *)
(*   --client add_cb--> cert (Certificate) --parse_cb--> open              *)
(*                                                                         *)
(* A callback that returns -1 aborts the handshake with an alert: failed.  *)
(* One client connection at a time exists per client, and all of them are  *)
(* accepted on one SSL_CTX of the server.  Callbacks of different          *)
(* connections interleave; each callback runs alone.                       *)
(***************************************************************************)
EXTENDS FidoTypes

CONSTANTS
    Clients,
    MaxRandom    \* bound: no handshake begins once this many values are drawn

ASSUME MaxRandomAssumption == MaxRandom \in Nat

VARIABLES
    conn,    \* conn[c]: the phase of c's handshake and the message in flight
    fresh    \* the next value create_random_bytes draws

Phases == {"idle", "hello", "parsed", "request", "asked", "cert", "open", "failed"}

Send(c, phase, msg) == conn' = [conn EXCEPT ![c] = [phase |-> phase, msg |-> msg]]

(* A callback returned -1 and set *al.                                     *)
Alert(c) == Send(c, "failed", NoExt)

(* The server process is gone: every handshake and connection is broken.   *)
BreakAll ==
    conn' = [c \in Clients |-> IF conn[c].phase = "idle" THEN conn[c]
                                ELSE [phase |-> "failed", msg |-> NoExt]]

(* A client may start a handshake: it has no connection, or it has shut    *)
(* the last one down, or it was refused.                                   *)
CanConnect(c) == conn[c].phase \in {"idle", "open", "failed"} /\ fresh =< MaxRandom

(* The connection breaks, or the client closes it before it is complete.   *)
Drop(c) ==
    /\ conn[c].phase \notin {"idle", "open", "failed"}
    /\ Alert(c)
    /\ UNCHANGED fresh

TlsInit ==
    /\ conn = [c \in Clients |-> [phase |-> "idle", msg |-> NoExt]]
    /\ fresh = 1

=============================================================================
