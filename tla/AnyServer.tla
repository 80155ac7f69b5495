------------------------------ MODULE AnyServer ------------------------------
(***************************************************************************)
(* The client against servers that send what they like: any packet that    *)
(* can be put together from the values in Ids, at any handshake, with or   *)
(* without the extension.  Challenges are not empty.                       *)
(***************************************************************************)
EXTENDS UserDevice

CONSTANTS
    Ids,        \* random values a server sends: challenges, user and ephemeral ids
    ServerKeys, \* keys it sends and seals with
    SentCreds   \* credential ids it puts into its lists

ASSUME AnyServerAssumption ==
    /\ Ids \subseteq Nat \ {0}
    /\ ServerKeys \subseteq GcmKeys
    /\ SentCreds \subseteq Nat

(* What cbor_parse can make of the extension of a CertificateRequest.      *)
RequestPackets ==
    {NoExt, Malformed}
      \cup {PreResponse(i, k) : i \in Ids, k \in ServerKeys}
      \cup {RegRequest(i, h, k, n, u, x) :
                i \in Ids, h \in Hosts, k \in ServerKeys, n \in Names, u \in Ids,
                x \in SUBSET SentCreds}
      \cup {AuthRequest(i, h, k, x) :
                i \in Ids, h \in Hosts \cup {Null}, k \in ServerKeys \cup {NoKey},
                x \in SUBSET SentCreds}

(* The server's flight arrives and is parsed.                              *)
CertificateRequest(c) ==
    /\ conn[c].phase = "hello"
    /\ \E m \in RequestPackets : ParseCertificateRequest(c, m)

(* The server accepts the client's Certificate or refuses it.              *)
Finish(c) ==
    /\ conn[c].phase = "cert"
    /\ Send(c, "open", NoExt) \/ Alert(c)
    /\ UNCHANGED <<fresh, udVars>>

UdNext ==
    \/ \E c \in Clients, o \in LaunchOptions : Launch(c, o)
    \/ \E c \in Clients : ClientHello(c)
    \/ \E c \in Clients : RefuseHello(c)
    \/ \E c \in Clients : CertificateRequest(c)
    \/ \E c \in Clients : AddCertificate(c)
    \/ \E c \in Clients : Finish(c)
    \/ \E c \in Clients : Drop(c) /\ UNCHANGED udVars

UdStart == TlsInit /\ UdInit

UdSpec == UdStart /\ [][UdNext]_clientVars

-----------------------------------------------------------------------------
(* A program that has used the authenticator is past its request, and past *)
(* the handshake that carried it: it has no packet left to send.           *)
Done(c) ==
    /\ ud[c].state \in {"REG_REQUEST_RECEIVED", "REG_RESPONSE_SENT",
                       "AUTH_REQUEST_RECEIVED", "AUTH_RESPONSE_SENT"}
    /\ conn[c].phase \in {"cert", "open", "failed"}

(* The inductive invariant of the client: an authenticator operation ends  *)
(* the program's ceremony, also where it succeeds and the packet is lost   *)
(* or cannot be built (run_ctap, fidossl_client_add_cb).                   *)
UdIInv ==
    /\ UdTypeOK
    /\ fresh \in Nat
    /\ conn = [c \in Clients |-> conn[c]]
    /\ \A c \in Clients : ud[c].uses = 0 \/ (ud[c].uses = 1 /\ Done(c))

=============================================================================
