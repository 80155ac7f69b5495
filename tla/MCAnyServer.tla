----------------------------- MODULE MCAnyServer -----------------------------
(* The client against arbitrary servers, for TLC.                           *)
EXTENDS AnyServer

CONSTANTS a, b, c1, key, ticket, login, example, evil

(* login is a host of the domain example; evil is somebody else's.          *)
MCValidFor ==
    [h \in Hosts |-> IF h = login THEN {login, example} ELSE {h}]

MCAttached == [c \in Clients |-> Devices]

Option(mode, name, t, host) == [mode |-> mode, name |-> name, ticket |-> t, host |-> host]

MCLaunchOptions ==
    {Option("REGISTER", a, ticket, login), Option("AUTHENTICATE_SERVER_SIDE", a, Null, login),
     Option("AUTHENTICATE_DISCOVERABLE", Null, Null, login), Option("PLAIN", Null, Null, login),
     Option("AUTHENTICATE_DISCOVERABLE", Null, Null, evil)}

MCServerKeys == {GcmKey(1, 1), GcmKey(1, 2)}
=============================================================================
