---------------------------- MODULE MCFidoSystem ----------------------------
(* The whole system, for TLC.                                               *)
EXTENDS FidoSystem

CONSTANTS a, b, c1, c2, key1, key2, good, bad, login, example

(* login is a host of the registrable domain example.                       *)
MCValidFor == [h \in Hosts |-> IF h = login THEN {login, example} ELSE {h}]

(* key1 is carried from one client to the other, key2 stays at c2.          *)
MCAttached == [c \in Clients |-> IF c = c1 THEN {key1} ELSE Devices]

Option(mode, name, t, host) == [mode |-> mode, name |-> name, ticket |-> t, host |-> host]

AllCeremonies(name) ==
    {Option("REGISTER", name, good, login), Option("AUTHENTICATE_SERVER_SIDE", name, Null, login),
     Option("AUTHENTICATE_DISCOVERABLE", Null, Null, login)}

Plain == Option("PLAIN", Null, Null, login)

MCEverything ==
    AllCeremonies(a) \cup {Plain, Option("REGISTER", b, good, login),
                           Option("REGISTER", b, bad, login)}
MCOneName == AllCeremonies(a)
MCOneNameAndPlain == AllCeremonies(a) \cup {Plain}
MCWithPlain == {Plain, Option("REGISTER", a, good, login)}
=============================================================================
