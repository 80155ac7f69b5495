------------------------------ MODULE FidoTypes ------------------------------
(***************************************************************************)
(* The vocabulary of the FIDO TLS extension: protocol states, ceremonies,  *)
(* client options and the nine packets of types.h / serialize.c.           *)
(*                                                                         *)
(* Random byte strings (ephemeral user ids, challenges, user ids,          *)
(* credential ids) are natural numbers that never repeat; 0 is the NULL    *)
(* pointer.  A GCM key is HMAC(k_ep, eph_user_id), so it is the pair of    *)
(* the two; an encrypted field is modelled by its plaintext together with  *)
(* the key it was sealed with, and it opens under an equal key only.       *)
(***************************************************************************)
EXTENDS Naturals, FiniteSets

CONSTANTS
    Names,     \* user names (a display name is also used as the user name)
    Tickets,   \* enrolment tickets
    Hosts,     \* host names, which are also the candidate RP ids
    Null,      \* the NULL pointer in a field of names, tickets or hosts
    UserVerification,  \* server options that travel in its requests:
    ResidentKey        \* "REQUIRED", "PREFERRED" or "DISCOURAGED"

ASSUME NullAssumption == Null \notin Names \cup Tickets \cup Hosts

ASSUME OptionsAssumption ==
    {UserVerification, ResidentKey} \subseteq {"REQUIRED", "PREFERRED", "DISCOURAGED"}

(* types.h: enum ceremony_mode. *)
Ceremonies == {"UNDEFINED", "REGISTRATION", "AUTH_SERVER_SIDE", "AUTH_DISCOVERABLE"}

(* types.h: the members of enum fido_state that rp.c and the server        *)
(* callbacks use.  NO_DATA: get_rp_data has not built an rp_data yet.      *)
ServerStates ==
    {"NO_DATA", "INITIAL", "PRE_INDICATION_RECEIVED", "PRE_RESPONSE_SENT",
     "REG_INDICATION_RECEIVED", "REG_REQUEST_SENT", "REG_SUCCESS", "REG_FAILURE",
     "AUTH_INDICATION_DISCOVERABLE_RECEIVED", "AUTH_INDICATION_SERVER_SIDE_RECEIVED",
     "AUTH_REQUEST_SENT", "AUTH_SUCCESS", "AUTH_FAILURE"}

(* types.h: the members of enum fido_state that ud.c and the client        *)
(* callbacks use.  OFF: the client program is not running.  NO_EXTENSION:  *)
(* a TLS client that never registered the FIDO extension.                  *)
ClientStates ==
    {"OFF", "NO_EXTENSION", "REG_INITIAL", "AUTH_INITIAL_SERVER_SIDE",
     "AUTH_INITIAL_DISCOVERABLE", "PRE_INDICATION_SENT", "PRE_RESPONSE_RECEIVED",
     "REG_INDICATION_SENT", "REG_REQUEST_RECEIVED", "REG_RESPONSE_SENT",
     "AUTH_INDICATION_SERVER_SIDE_SENT", "AUTH_INDICATION_DISCOVERABLE_SENT",
     "AUTH_REQUEST_RECEIVED", "AUTH_RESPONSE_SENT"}

(* derive_gcm_key: HMAC over the ephemeral user id with the episode key.   *)
GcmKeys == [kep : Nat, eph : Nat]
GcmKey(kep, eph) == [kep |-> kep, eph |-> eph]
NoKey == GcmKey(0, 0)

-----------------------------------------------------------------------------
(* Packets.  NoExt stands for a handshake message without the extension.   *)
NoExt == [type |-> "NO_EXT"]

PreIndication == [type |-> "PRE_INDICATION"]

PreResponse(eph, key) == [type |-> "PRE_RESPONSE", eph |-> eph, key |-> key]

RegIndication(eph, key, name, ticket) ==
    [type |-> "REG_INDICATION", eph |-> eph, key |-> key, name |-> name, ticket |-> ticket]

RegRequest(chal, rpId, key, name, user, exclude) ==
    [type |-> "REG_REQUEST", chal |-> chal, rpId |-> rpId, key |-> key,
     name |-> name, user |-> user, exclude |-> exclude]

(* origin: the host in the client data.  rpId, uv and count: what the      *)
(* authenticator data says.  valid: all that is checked besides (attestation *)
(* format and signature, client data type, crossOrigin) is as it should be. *)
RegResponse(cred, chal, origin, rpId, uv, count, valid) ==
    [type |-> "REG_RESPONSE", cred |-> cred, chal |-> chal, origin |-> origin,
     rpId |-> rpId, uv |-> uv, count |-> count, valid |-> valid]

AuthIndicationDiscoverable == [type |-> "AUTH_INDICATION_DISCOVERABLE"]

AuthIndicationServerSide(eph, key, name) ==
    [type |-> "AUTH_INDICATION_SERVER_SIDE", eph |-> eph, key |-> key, name |-> name]

(* key = NoKey: the encrypted allow list is absent.                        *)
AuthRequest(chal, rpId, key, allow) ==
    [type |-> "AUTH_REQUEST", chal |-> chal, rpId |-> rpId, key |-> key, allow |-> allow]

(* handle = 0: the authenticator returned no user handle.                  *)
AuthResponse(cred, chal, origin, rpId, uv, count, handle, valid) ==
    [type |-> "AUTH_RESPONSE", cred |-> cred, chal |-> chal, origin |-> origin,
     rpId |-> rpId, uv |-> uv, count |-> count, handle |-> handle, valid |-> valid]

(* A packet that cbor_parse or get_packet_type rejects.                    *)
Malformed == [type |-> "MALFORMED"]

=============================================================================
