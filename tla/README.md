# A TLA+ model of fidoSSL

fidoSSL puts a FIDO2 registration or authentication into a TLS 1.3 handshake: a custom extension in
ClientHello, CertificateRequest and Certificate carries nine kinds of packets between a *relying
party* (`src/rp.c`, in the server) and a *user device* (`src/ud.c`, in the client), and OpenSSL
drives both through the four callbacks of `src/fidossl.c`. These modules model that protocol engine,
the tables it keeps, the packets as they are encoded, and the conversions around them. TLC checks
them on small instances; TLAPS proves the safety of the whole system, of each side against any peer, of
several servers on one database, and most of the conversions, for all instances. Paths below are relative to the repository.

Contents: [parts](#the-system) · [hard behaviours](#what-is-hard) · [modules](#modules) ·
[runs](#runs) · [fairness](#fairness) · [proofs](#proofs) · [where code and comments
disagree](#where-the-code-and-its-comments-disagree) · [not modelled](#not-modelled) · [plan](#plan)

## The system

| part | state it keeps | operations | correct when |
|---|---|---|---|
| relying party, `src/rp.c` | one `struct rp_data` per `SSL_CTX`: state, ceremony, episode key `k_ep`, GCM key, challenge, user name and id, allow list, database handle | `init_rp`, `process_indication`, `create_pre_response`, `create_reg_request`, `create_auth_request`, `process_reg_response`, `process_auth_response` | no login without enrolment, no replay, counters only grow, no assert fails, no closed handle is used |
| user device, `src/ud.c` | one `struct ud_data` per client program: state, ephemeral user id, GCM key, challenge, RP id, exclude and allow list, credential | `init_ud`, `create_reg_indication`, `create_auth_indication_server_side`, `process_pre_response`, `process_reg_request`, `process_auth_request`, `create_reg_response`, `create_auth_response`, `run_ctap` | the authenticator is used once per run, only for RP ids valid for the host |
| callbacks, `src/fidossl.c` | none; they set the state of `rp_data` and `ud_data` | client and server `add_cb`, `parse_cb` | every handshake ends; a completed one means what the application takes it for |
| persistence, `src/persistence.c` | the tables `users` and `credentials` | `init_db`, `get_user_id`, `get_credential`, `get_credential_descriptors`, `add_creds`, `update_sign_count` | names, user ids and credential ids are unique, every credential has its owner |
| packets, `src/serialize.c`, `src/types.h` | none | `cbor_build`, `cbor_parse`, `get_packet_type` | what is parsed is what was built |
| cryptography, `src/common.c` | none | AES-GCM, HMAC key derivation, random bytes, bit padding, IV by message type | a sealed field opens under its own key only |
| base64, `src/encoding.c`; logging, `src/debug.c` | none | conversions, output | conversions are inverse |
| authenticator (libfido2, external) | credentials and counters | make credential, get assertion | one discoverable credential per account |
| TLS (OpenSSL, external), `test/client.c`, `test/server.c` | connections | handshake, alert, shutdown | |

How they meet. A registration takes two handshakes on the same client `SSL_CTX`, as in
`test/client.c`:

    handshake 1   ClientHello: PreIndication       CertificateRequest: PreResponse(eph, key)
                  Certificate without extension    -> established, ceremony not done
    handshake 2   ClientHello: RegIndication       CertificateRequest: RegRequest(challenge, ...)
                  Certificate: RegResponse         -> established = registered

A login with server-side credentials does the same with AuthIndicationServerSide, AuthRequest and
AuthResponse; one with discoverable credentials needs a single handshake. `key` is
`HMAC(k_ep, eph)`: the server does not remember it between the two handshakes, it derives it again
from the ephemeral id in the indication (`derive_gcm_key`). It seals user name and ticket, the
exclude list and the allow list.

The server finds its `rp_data` through the `SSL_CTX` (`get_rp_data`), not through the connection.
**All connections of a server share one state machine**, whose success and failure states no packet
leaves: one server process completes at most one ceremony (README: "Restart the demonstration server
for each new run"). The two tables outlive it.

## What is hard

`PROJECT.json` lists each hazard at its line. The ones the properties were written for:

* **Sharing.** Two clients, or a client without the extension, interleave on one `rp_data`. A
  request built for one connection is checked against a response on another; the callback that adds
  the extension to a CertificateRequest looks at the shared state only.
* **Stores before checks.** The derived key is stored before the ticket is checked, challenge and
  user id before the request is built, challenge and RP id before the allow list is opened.
* **State read early and used late.** User id and allow list are read with the request and used with
  the response.
* **Partial failure.** `add_creds` commits the user before the credential. No caller tells an error
  of a SELECT from its end. Some error paths close the database and keep the pointer, one frees a
  literal. The credential exists on the authenticator before the server knows of it.
* **Crash and restart.** A new process draws a new `k_ep` and finds the old tables.
* **Several processes on one file.** Every server opens `fido2.db`; no transaction spans two
  statements, so two registrations or two logins meet in the middle of each other.
* **Capacity.** An account grows with every registration, and all its credential ids travel in
  buffers of fixed size, one of which is shared with the user's names.
* **Encodings.** Optional fields under numeric keys that differ between maps, keys a newer peer adds,
  padding with a marker that may be a byte of the data, an IV made from the packet type, RP ids
  compared character by character from the end.
* **Lost connections.** A client that loses its connection after its indication has no packet for
  its state; the server stays where it was.
* **Counters at their boundary.** A counter has to be strictly greater than the stored one; it is
  unsigned on the wire and signed in the server.

## Modules

| module | stands for | state |
|---|---|---|
| `FidoTypes` | states, ceremonies and packets of `types.h` and `serialize.c` | – |
| `TlsSession` | the order of callbacks in a handshake, alerts, broken connections | `conn`, `fresh` |
| `RelyingParty` | `rp.c`, the server callbacks, `persistence.c` | `rp`, `episode`, `users`, `creds`, history `accepted` |
| `UserDevice` | `ud.c`, the client callbacks, the authenticators | `ud`, `dev`, `launches` |
| `AnyClient` | RelyingParty with clients that send any packet; the refinement and the inductive invariant | – |
| `AnyServer` | UserDevice with servers that send any packet; the inductive invariant | – |
| `FidoSystem` | RelyingParty and UserDevice over the same connections | – |
| `AccountService` | abstract specification: challenge-response over a table of credentials | `rows`, `pending`, `spent` |
| `SharedDatabase` | `persistence.c`, one SQL statement at a time, run by several server processes | `users`, `creds`, `proc`, `dev`, histories `enrolled`, `logins` |
| `CredentialStore` | abstract specification: accounts that appear with their first credential, counters | `accounts`, `rows`, `floor` |
| `Packets` | `serialize.c`: building and parsing every packet, encrypted array and attestation object (operators) | – |
| `Iteration`, `OptionMap` | a loop over a sequence; the loops of the parsers over maps of optional values. Parameterised by what the loop does with an item, and proved about | – |
| `Wire` | one packet built, extended by a newer peer, parsed | `sent`, `wire`, `extended`, `got` |
| `Enrolments` | an account that grows, with the sizes of all fields and buffers | `ids`, `made`, `excluded`, `offered` |
| `SealingHistory` | `FidoSystem` with every encryption it does | `sealed` |
| `UserNames` | bit padding of names on their way to the table and back | `run`, `typed`, `padded`, `name`, `table` |
| `AuthenticatorData` | `parse_authdata`, `parse_cose_key`, the counter of a device, its copy and the row | `dev`, `row`, `last`, `accepted` |
| `Encodings` | `encoding.c` and its two users | `kind`, `stage`, `bytes`, `text`, `result` |
| `RpIds` | the RP id rule of `ud.c` on characters | `host`, `rpId`, `used`, `verdict` |
| `PartiesProofs` | theorems about `AnyClient` (the server's side) and `AnyServer` (the client's), with one lemma per callback | – |
| `SystemInvariant` | the inductive invariant of `FidoSystem` | – |
| `FidoSystemProofs`, `SealingHistoryProofs` | theorems about the system, from the lemmas of the two sides | – |
| `SharedDatabaseProofs` | theorems about `SharedDatabase` | – |
| `PacketsProofs` | theorems about `Wire` and `Enrolments`, on what they share of `Packets` | – |
| `ConversionsProofs` | theorems about `RpIds`, `Encodings`, `AuthenticatorData` and `UserNames` | – |
| `MCAnyClient`, `MCAnyServer`, `MCFidoSystem`, `MCSealingHistory`, `MCSharedDatabase` | instances for TLC | – |
| `MCConversions` | instance for TLC of the six conversions: one of them at a time, the others at rest | `subject` |

`FidoSystem` composes `RelyingParty` and `UserDevice`; `SealingHistory` adds a history to it;
`Wire` and `Enrolments` are two uses of `Packets`. The others stand alone: each looks at one thing
`FidoSystem` abstracts from, at the granularity at which it can go wrong.

**One action is one run of a callback on one connection**, from the packet to the return value:
`ProcessRegIndication` is the branch of `process_indication` that stores name and ceremony;
`RejectRegIndication` the same branch with a packet that does not open or a wrong ticket, which
stores the key and aborts; `RefuseIndication` the default branches. Actions that read a packet take
it as the parameter `m`, so `AnyClient` can feed them every packet and `FidoSystem` the one in
flight. `Alert` is a callback that returned -1.

Correspondences worth knowing:

* Random strings (challenge, ephemeral id, user id, credential id) are numbers drawn from the counter
  `fresh`; 0 is the NULL pointer. `MaxRandom` stops new handshakes, not the ones under way.
* A GCM key is the record `[kep, eph]` it is derived from. A sealed field carries its key, and
  `aes_gcm_decrypt` succeeds when the two are equal (`Opens`, `RegRequestOpens`, `AllowListOpens`).
* `rp.state = "NO_DATA"`: the process runs, `get_rp_data` has built nothing yet. `GetRpData` is what
  the call returns: the shared record, or a new one with the configured RP id. It is a set because
  `ServerIds` may hold several RP ids to start with.
* `rp.db` is `"closed"` where the code has called `sqlite3_close` and kept `data->db`.
* `valid` in a response stands for all that is checked besides challenge, origin, RP id, flags and
  counter: attestation format and signature, client data type, `crossOrigin`. An honest client sends
  TRUE, `AnyClient` either.
* `FailAddCreds` has the outcomes of the undefined `free` of a literal: the process goes on in
  `REG_FAILURE`, or aborts and is restarted. Either with or without the user row.
* `WriteFaults` lets INSERT and UPDATE fail; `ReadFaults` lets a SELECT end in an error, with what the
  callers make of it: a shorter list (`Lists`), a new id for a known name (`UserIdFor`), a user taken
  for present (`AddsUser`), a credential taken for unknown (`RejectUnknownCredential`).
* `MaxExclude` and `MaxAllow` are how many credential ids fit into the buffers of `serialize.c`: 1000
  bytes each, of which the exclude list shares 512 with the padded names. How many that is depends on
  the ids. In `MCTwoConnections` they are long, an allow list has room for one and an exclude list for
  none, so `FailRegRequest` is reached; lists with one and two ids are in the runs of the whole system.
* `Orphans` lets an attestation object exceed the buffer of `run_ctap`: the credential is made, the
  handshake aborted (`FailRegResponse`). An assertion, too, may be counted by the device and then not be
  taken by `run_ctap` (`FailAuthResponse`): a user handle of a wrong length, a part that is missing.
* `RejectStoredKey` is the error path for a row whose key `parse_cose_key` does not read. Like that for an
  unknown credential it closes the database, and the process ends in `AUTH_FAILURE`.
* The counter of a new credential is 0 and each assertion adds one, as authenticators do; responses
  in `AnyClient` carry any counter.

In the modules of this list's second half:

* `SharedDatabase`: the program counter `pc` of a process names the function of `persistence.c` that
  runs next. An action is one `sqlite3_step` with the C code up to the next one; what the code keeps
  in between (`user`, `list`, `read`, ...) is in the record of the process. `Busy` lets any statement
  be refused, with what its caller makes of it. `Clones` lets a device be copied. One difference
  from `RelyingParty`: a process is started again from any step, not only between callbacks.
* `Packets`: a string is a value with a length, a CBOR item a record with its type and its elements.
  `size` is the number of bytes of the encoding, so `Encode` fails where the encoder runs out of
  buffer. Building and parsing return a set of at most one result; the empty set is -1. The loops
  over maps read item by item (`ReadItem` of `OptionMap`), so a key whose value is not skipped shifts all that
  follows, as in the code.
* `Enrolments`: one action is a whole ceremony. Sizes are those of the code: 256 bytes for a padded
  name, 64 for a user id, 16 for the tag, 77 for a COSE key. `made` is the last credential of the
  authenticator, with its id and the length of its certificate; `ids` gets it when the response arrives
  and `StorableId` (`rp.c:1243`, at most 1023 bytes) takes the id.
* `AuthenticatorData`: four bytes with `Base` values each; 2 in the runs (the counter has four bits,
  the sign is the highest), 256 in the code, arbitrary even in the proofs.
* `UserNames`: `Width` is 256 in the code, 3 in the run, arbitrary in the proofs.
* `RpIds`: the code works on characters, the properties on labels.

Each module's deliberately broken variants (`InitRpOldKey`, `DescriptorsNone`, ...) are mutants: a
property is kept only if a mutant of the code breaks it. `PROJECT.json` pairs them.

## Runs

`tlc -config MCSystem.cfg MCFidoSystem`, and so on. All bounds are constants of the cfg.

| run | question | bounds | states |
|---|---|---|---|
| `MCTwoConnections` | the server against any packets: inductive invariant, what follows from it, refinement of `AccountService` | 2 connections, 2 names, 2 tickets, 2 hosts, 3 processes (enrol, log in, log in), counters 0 and 1, writes fail, no room for an exclude list | 26 721 |
| `MCAnyServer` | the client against any server | 2 launches, 3 hosts, any requests over two keys | 1 341 |
| `MCSystem` | what a completed handshake means | 2 clients, 2 authenticators (one carried between them), 4 launches, 3 processes, lost connections, failing writes, oversized attestations | 2.8 million |
| `MCFaults` | handshakes end, no key seals two fields under one IV, one credential per device | the same with credentials that are not discoverable, plain clients and room for one excluded credential, 3 launches | 186 000 |
| `MCAnswers` | why real clients are refused, that a prepared one succeeds | 2 clients, one of which loses connections, 3 launches, 3 processes | 67 000 |
| `MCWorkers` | tables, counters and the refinement of `CredentialStore`, several processes | 2 processes at a time, 3 restarts, 2 names, 1 device, counters to 3, 6 random ids | 3.0 million |
| `MCBusyDatabase` | what is left when any statement may be refused and a device is copied | 2 processes, 1 restart, 1 name, 2 devices | 605 000 |
| `MCConversions` | names, packets, capacity, counters, base64, RP ids | see below | 2.7 million |
| `MCPlainClient`, `MCSuffixRpId`, `MCOwners`, `MCUnknownKeys` | four promises of comments that the code breaks | | violated |

`MCConversions` is one run of six modules that share no state. The initial state picks the subject:

| subject | inputs | states |
|---|---|---|
| `UserNames` | width 3, all names up to that over a marker byte and another | 2 752 |
| `Wire` | every type, every subset of optional fields, 0 to 2 extensions, one unknown key at either end of the map with four kinds of value | 24 000 |
| `Enrolments` | ids of 48, 128, 255, 579 and 1024 bytes, certificates of 300, 1081 and 1082, client data of 400, names of 253 | 3 778 |
| `AuthenticatorData` | a counter of 4 bits through the sign bit and the overflow, a device and a copy, 2 logins | 2.7 million |
| `Encodings` | 1 to 5 bytes out of four | 8 184 |
| `RpIds` | names of up to 3 out of 4 labels, one the end of another, one in upper case | 14 280 |

Why the bounds are enough. A ceremony needs two handshakes and draws at most three values; the state
machine is linear, so what can go wrong between connections goes wrong with two. Three processes give
an enrolment and two logins, the shortest history in which a counter, a challenge or a key of an
earlier process could come back. Three or four launches let a user enrol, enrol again (the exclude
list), lose an answer in between and log in. Connections of `AnyClient` are interchangeable, and
`MCTwoConnections`, which checks safety only, uses them as a symmetry set; the runs with liveness have
none. Two processes are enough for a race of two statements; three
restarts let either of them crash and a third registration or login follow. A padding, an encoding
and a suffix rule are decided by lengths around a boundary, which the small widths contain, and are
proved for all of them. `Enrolments` has no bound: the exclude list ends the growth. Its lengths are
boundaries: 579 is the longest id that never locks an account, 1024 the first the server refuses, and
with an id of 255 bytes a certificate of 1081 just fits and one of 1082 does not. Failing SELECTs are
part of the proofs and of the run that finds the credential without an owner; in the other runs of
`RelyingParty` they are off, because properties there need them off. So no run catches an exclude or an
allow list cut short by an error; `MCBusyDatabase` shows what holds in spite of refused statements. Runs
switch deadlock checking off because the system may really stop: the bounds are used up, nobody launches a client, or a packet has been read.

What the properties say:

* `HandshakeMeansCeremony` — a handshake that completes after the client has answered means that its
  credential is stored under its name, or its login accepted for the challenge it signed.
* `RequestIsOutstanding` — while a client works on a request, that request is the one the shared
  `rp_data` waits for. It holds *because* the states accept nothing else in between, which is also
  why other clients are refused.
* `TicketGuardsEnrolment` — a new row belongs to a client with the server's ticket (README: keys are
  only enrolled with a valid ticket), although ticket and credential arrive separately through
  shared state.
* `EnrolledCredentialsUsable`, `OneCredentialPerAuthenticator` — exclude list, replacement of
  discoverable credentials and counters of device and table fit together, whatever is lost or fails.
* `RefusedForCause` — real clients are refused only for an origin that is not the RP id itself, or
  for a credential whose registration never completed (an orphan on the device).
* `AcceptedOnce`, `LoginsAreEnrolled`, `AssertsHold`, `ClosedHandleUnused`, `SnapshotsCurrent`,
  `DatabaseConsistent`, `SignCountNeverDecreases` — the server's safety against any client.
* `ScopedToHost`, `OneOperationPerLaunch`, `ClientAssertsHold` — the client's, the first two against
  any server.
* `PreparedCeremonySucceeds`, `HandshakesEnd` — liveness.
* `TablesConsistent`, `ImplementsStore` — several processes: keys stay unique, and whatever
  interleaves or crashes looks like atomic enrolments and logins. A user row without a credential is
  no account; a later registration under the name finishes it.
* `NoAssertionTwice`, `DeviceAhead`, `LoweredOnlyByRace` — what the race between reading and writing a
  counter cannot do: accept an assertion twice or lock a user out. It can lower a counter, and only
  then.
* `DeviceRefusedForCause` — an honest device is refused only when its name went to somebody else, its
  credential was never stored, or a later assertion was accepted first.
* `RoundTrip`, `RegRequestExtensible` — builder and parser agree on all optional fields; the
  registration request may grow.
* `LoginPossible`, `ExcludeComplete` — a registration that goes through leaves an account
  whose allow list fits; the device has seen all ids. The exclude list, which
  shares its buffer with the names, is full first: that is what keeps a login possible. Seven ids of
  64 bytes fit.
* `StoredIffItFits` — a credential that has been made gets its row exactly when the response fits the 2000
  bytes of `cbor_build` and its id the 1023 the server takes. What exceeds either is lost: the
  authenticator keeps a credential no row knows (`Orphans` in `FidoSystem`). With client data of 400 bytes that
  begins at a certificate of 1290 bytes for an id of 48, and of 1082 for an id of 255.
* `IvUniquePerKey` — common.c:72 asks for it; it holds because a key comes with a fresh ephemeral id and
  no state is left twice with the same key.
* `NameArrives`, `BytesArrive`, `PaddingFits`, `ValidIffRegistrable` — the conversions do what their
  users take for granted.
* `NoCounterTwice`, `OwnerIsServed` — no counter counts twice, not even through the overflow; the owner
  of a device nobody has copied is served while the counter is below the sign bit, extension outputs
  in its registration notwithstanding. Extension outputs in a login are refused.

Two premises of `PreparedCeremonySucceeds` deserve a word. `Prepared` asks that a discoverable login
finds nothing but enrolled credentials on its devices: an orphan may be chosen and is refused. `Alone`
asks that no other client is in the middle of something, not that none has ever been: orphans, rows
and counters of others may be there. And the conclusion allows for a user who does not touch the
device, stops the program, starts another one or restarts the server.

## Fairness

`FairSpec` assumes weak fairness of `Handshake(c)` (OpenSSL runs the next callback of a handshake that
has begun; each callback runs to its end) and of `Connect(c)` (a launched client program calls
`SSL_connect`, twice if need be, as `test/client.c` does). The disjunction as a whole is fair, not its
branches: which answer an authenticator gives, and whether SQLite reports an error, stays free.
Nothing is assumed of `Start`, `Reconnect`, `Lose` and `Restart`. `MCAnswers` promises
success to the client whose connections hold, while the other one loses its own, and lets no write
fail; `MCFaults` checks that handshakes end with all of these on.

## Proofs

`PartiesProofs` proves about `AnyClient`, for every value of the constants that meets the named
assumptions (sets of clients, names, tickets, hosts, credential ids and counters of any size, any
bounds, faults on or off):

| theorem | property |
|---|---|
| `InductiveInvariant` | `IInv` |
| `TypeCorrect` | `RpTypeOK` |
| `DatabaseStaysConsistent` | `DatabaseConsistent` |
| `ClosedHandleNotUsed` | `ClosedHandleUnused` |
| `NoReplay` | `AcceptedOnce` |
| `NoLoginWithoutEnrolment` | `LoginsAreEnrolled` |
| `AssertionsHold` | `AssertsHold` |
| `SnapshotsStayCurrent` | `SnapshotsCurrent` |
| `CountersNeverDecrease` | `SignCountNeverDecreases` |
| `Implements` | `ImplementsAccountService`, i.e. `RpSpec => Service!Spec` |

Assumptions: `NullAssumption`, `OptionsAssumption`, `MaxRandomAssumption`,
`RelyingPartyAssumption` (the ticket is a ticket, RP ids are hosts, bounds are numbers),
`AnyClientAssumption` (ids and counters are numbers). TLC evaluates all of them in the runs.

The argument. None of the properties is inductive alone: nothing in `AcceptedOnce` says that the
outstanding challenge is new. `IInv` adds three parts.

* `Remembered`: every number the server holds is below `fresh`. So the challenge and the user id
  drawn by `CreateRegRequest` differ from everything accepted or stored.
* `FilledIn`: what each state of `rp_data` has set: a name before a registration request, an RP id
  and the key of this process in every state but `NO_DATA`.
* `AcceptedBefore`: an acceptance puts its process into a success state, and an outstanding
  challenge has not been accepted. Success states are left by a restart only; so within a process
  there is no second acceptance, and across processes the challenge is new.

Uniqueness of rows needs `UserIdFor` (the id of the name, or a new one), `WithUser`/`NameTaken` (the
keys of table `users`) and `CredentialTaken`. `SnapshotsCurrent` is inductive because no row changes
while a request is outstanding: the only writer is the response that ends it. With `ReadFaults` the
premise "the id of the name" is gone, and so are `OwnersExist` and `SnapshotsCurrent`; uniqueness
stays, and the proof covers both cases.

There is one lemma per action, grouped through `KeepsTables`, `ComesToRest` and `TablesUnchanged`,
which say once what most handlers leave alone. `Implements` maps the challenge of an outstanding
request to `pending` and the accepted ones to `spent`, and shows each action to be `Issue`,
`Withdraw`, `Enrol`, `Login` or a stutter. `IInv` is needed there to show that an enrolled id is new
and that raising a counter changes exactly one row.

It does the same for the client against any server (`AnyServer`):

| theorem | property |
|---|---|
| `ClientInvariant` | `UdIInv` |
| `ClientTypeCorrect` | `UdTypeOK` |
| `TouchedOnce` | `OneOperationPerLaunch` |
| `UsedInScope` | `ScopedToHost` |

It rests on `UserDeviceAssumption` (there is a host, every host is valid for itself, options are
option records, with a name and a ticket where `init_ud` asks for them), `AnyServerAssumption` and those of the shared modules. `OneOperationPerLaunch` is
not inductive: it has to be known that a program which has used its authenticator never gets to
"asked" again. `UdIInv` says so (`Done`): its state is one for which the ClientHello callback has
nothing to send, and its connection is past the CertificateRequest, also where the credential was
made, or the assertion counted, and no packet could be built. `Uses` is what the four actions that touch a
device (`CreateRegResponse`, `FailRegResponse`, `CreateAuthResponse`, `FailAuthResponse`) have in
common; invariant and scope are proved from it once.

`FidoSystemProofs` is about real clients and the real server over any number of connections,
authenticators and launches, with lost connections, restarts, failing writes and plain clients:

| theorem | property | assumes |
|---|---|---|
| `SystemInductive` | `SystemInv` | |
| `HandshakesMeanCeremonies` | `HandshakeMeansCeremony` | `~ReadFaults` |
| `LoginsMeanLogins` | its half about logins | |
| `RequestStaysOutstanding` | `RequestIsOutstanding` | |
| `ClientAssertionsHold` | `ClientAssertsHold` | |
| `CredentialsStayUsable` | `EnrolledCredentialsUsable` | `~ReadFaults` |
| `OneCredentialEach` | `OneCredentialPerAuthenticator` | `~ReadFaults` |
| `EnrolmentNeedsTicket` | `TicketGuardsEnrolment` | `~ReadFaults` |
| `TicketNeeded` | its half about the ticket | |
| `RefusalsHaveCause` | `RefusedForCause` | `~ReadFaults`, `~WriteFaults`, attestation `DIRECT` |
| `ServerSafe`, `SystemTouchedOnce` | the invariants of the two sides, in the system | |
| `SystemImplements` | `ImplementsAccountService` | |
| `SystemKeepsCounters`, `SystemUsesInScope` | `SignCountNeverDecreases`, `ScopedToHost` | |

No assumption is made about `ReadFaults` where the table leaves it out. Where it is there, the code
needs it: after a SELECT that ends in an error `add_creds` skips the user row and reports success
(`persistence.c:46`), and a new id is drawn for a known name, so the exclude list of that account is
empty. `RefusedForCause` also needs writes that succeed, and the one attestation format
`process_reg_response` accepts. These are the values the runs of these properties have.

The argument. `SystemInv` starts from what the two sides keep against anyone, `IInv` and `UdIInv`. That
an authentic peer sends what they allow is not enough: the properties relate a client to the one
`rp_data` that all connections write. The parts that do:

* `EachClientFits`: state, phase of the handshake and message in flight of a client belong together, so
  that what arrives at the server is known from the program that sent it.
* `OneRequest`, `CeremonyFits`: at most one connection carries a request or its answer, and challenge, RP
  id, key, user and lists in it are those of `rp_data`. It is inductive because an indication is taken
  in `INITIAL` and `PRE_RESPONSE_SENT` only: a second one finds a state it is refused in.
* `KeysApart`, `KeyOwner`: an ephemeral id is drawn once and given to one client; so the key that opens an
  indication tells which program sent it. This carries the ticket from the packet that brings it to the
  packet that enrols (`EnrolmentNeedsTicket`).
* `DeviceIds`, `AnswersMade`: a credential is on one authenticator, and the one in a response is still on
  it, with that counter, although connections break between the two.
* `DevicesAgree`, `CeremonyMeant`: what is to be shown.

`NextSystemInv` takes the steps by the side that runs: `ServerHello`, `ServerFlight`,
`ServerCertificate`, `ClientStep`, broken connections and restarts. What a callback does to its own side
comes from the lemmas of `PartiesProofs`; what is new is what it leaves of
the other side. The parameters of `AnyClient` and `AnyServer`, which come along, play no part in it.

`SealingHistoryProofs` proves `KeysSealOnce`, i.e. `IvUniquePerKey`, beside `SystemInv`. A client seals
once with its key because it forgets `PRE_RESPONSE_RECEIVED` when it does (`ReceivedUnused`) and no key
that has sealed is offered again (`OfferedUnused`); the server seals once per process, and with a key of
this process' `k_ep` (`RequestSealsOnce`). The two sides' IVs differ by their packet type.

`SharedDatabaseProofs` is about any number of processes, devices and names:

| theorem | property |
|---|---|
| `SharedInvariant` | `SharedInv` |
| `SharedTypes` | `SharedTypeOK` |
| `TablesStayConsistent` | `TablesConsistent` |
| `AssertionsAcceptedOnce` | `NoAssertionTwice` |
| `DevicesStayAhead` | `DeviceAhead` |
| `LoweringIsARace` | `LoweredOnlyByRace` |
| `DevicesRefusedForCause` | `DeviceRefusedForCause` |
| `StatementsImplementStore` (assumes `~Busy`) | `ImplementsStore`, i.e. `SharedSpec => Store!Spec` |

`SharedInv` says what each process may believe while others write: what `add_creds` has found or
inserted is there when it goes on (`UserBeforeCredential`; no statement deletes a user); credential ids
are below `fresh` (`FreshCredentials`); no response and no login is ahead of its device (`NoneAhead`),
whose credentials it holds alone (`OneHolder`); assertions under way differ from each other and from
those accepted (`AssertionsDiffer`); and counters do not fall below that of the enrolment
(`CountsAboveEnrolment`). Most statements change nothing but their own process, in a way no conjunct
depends on: they are `Quiet`, and one lemma covers them; each of the others has a lemma for what it
does and one for what it preserves. The refinement maps `accounts` to the users with a credential, so the INSERT of a user
stutters and the INSERT of the credential is `Enrol`; the UPDATE is `Login`, which needs
`CountsAboveEnrolment`.

`DevicesRefusedForCause` needs more, `HonestInv`: ids and credentials drawn by one process are no other's
until their row is there (`IdsApart`, `CredentialsApart`), so `add_creds` meets no conflict but the name;
a stored counter is that of the enrolment or of an accepted login (`CountsFrom`), and an assertion counts
further than its enrolment, also than one whose INSERT is still to come (`EnrolledBefore`). So a counter
that is refused was overtaken.

The conversions (`ConversionsProofs`):

| theorem | says |
|---|---|
| `PaddingIsInvertible`; `NamesArrive` (`NameArrives`), `LoginsFindTheirOwn` (`OwnAccount`) | for every width and every names: the last byte that is not zero is the marker |
| `CounterIsRead`; `CountersAreUsedOnce` (`NoCounterTwice`) | for every base: the row is at least every accepted counter, and reading the bytes as a signed number is injective |
| `OwnersAreServed` (`OwnerIsServed`) | for every base: the row holds an accepted counter and a key that is read whatever follows it (`RowIsOurs`); the proof does not use that there is no copy |
| `Base64RoundTrip`, `Base64urlRoundTrip`; `EncodingsArrive` (`BytesArrive`) | for all bytes and lengths: group by group, then the cut and restored padding |
| `RestoredPaddingFits` (`PaddingFits`) | for all lengths: what is cut off is what `len % 4` makes room for |
| `CharactersDecideLabels`; `RpIdsValidIffRegistrable` (`ValidIffRegistrable`) | for all names and sets of public suffixes: the comparison of characters decides as the rule on labels |

Names and packets have any number of parts, so the last line and what follows need induction. The
prover takes no operator as an argument of a theorem; `Iteration` therefore states induction for a set in
the place of a predicate (`InductionOnNat`, `InductionOnSeq`, from the well-foundedness of `<`), and the
loops of the code as instances of one function over the index. Two facts carry everything else: a loop
takes one item more by one step (`IterateAppend`), and a loop over `s \o t` goes on with `t` where it was
after `s` (`IterateConcat`). `OptionMap` adds that a key and its value behind other pairs are read as
that pair (`PairIsRead`). These are lemmas: they say nothing of the code until a module puts the code's
loop in the place of the parameter.

* `CharactersDecideLabels`. `ud.c:230` looks at one character, the one before where the RP id would begin
  in the host name, and compares the rest. A dot is in no label, so the last dot of a text tells where
  its last label begins, and by induction a text ends with a dot and the text of a name exactly if the
  labels end with that name. tolower leaves dots alone, so it can be done before or after the cut.

The packets (`PacketsProofs`):

| theorem | property | assumes |
|---|---|---|
| `WireRoundTrip` | `RoundTrip` | |
| `WireRegRequestExtensible` | `RegRequestExtensible` | |
| `EnrolmentsExcludeComplete` | `ExcludeComplete` | |
| `EnrolmentsStoredIffItFits` | `StoredIffItFits` | |
| `EnrolmentsLoginPossible` | `LoginPossible` | no credential ids of 580 to 1023 bytes (`LoginsFit`) |

* `Wire`. Its assumption `WireAssumption` gives the packets the types of `types.h` (any combination of
  optional fields, any number of algorithms and extensions) and the lengths the parsers accept. Each optional
  field is a pair or nothing; reading the pairs in the order they were built sets the fields one after the other, and
  `WireInv` says that the item on the wire is that of the packet, or that with one pair more, in front or
  at the end. That pair changes nothing, because the default case of the registration request skips key and
  value. No such theorem holds of the authentication packets (`MCUnknownKeys`).
* `ExcludeComplete` needs no bound: `cbor_build_reg_request_encrypted_data` does not cut a list that is too
  long, its container fails to close and the request is not built (`TableInv` says that the lists hold
  ids that are not empty, which the parser asks for).
* `LoginPossible` needs `LoginInv`: the list of an account never outgrows the 1000 bytes of
  `cbor_build_allowed_credentials`. Exclude list and allow list are the same array, but the former shares its
  1000 bytes with two names of 256 bytes, a user id of 64 and their heads, 585 bytes in all. So a
  registration that was possible began with a list of at most 415 bytes, and one entry more, of an id of n bytes, adds
  at most 1 + 2 + 3 + n. That is where 579 comes from: with a longer id an account could be enrolled that
  never logs in again. Ids of 580 to 1023 bytes, which `rp.c:1243` accepts, are therefore excluded; longer ones
  are refused and never get into a list. Authenticators of today have ids of 16 to 255 bytes or so.
* `StoredIffItFits` assumes nothing of the lengths. A credential is made only when the request has arrived, so
  what is left is the response: `CredentialArrives` follows the sizes from the authenticator data through the
  attestation object (250 bytes, the certificate, the id, and the heads of the two byte strings) into the
  packet, and shows each step to succeed or fail by the limit `ResponseFits` states. The buffer of the object itself (4048) and
  the limits of the parsers are larger and never decide. `RegisterStores` adds the server's limit on the id, and
  `TableInv`, that ids are numbered as they come, tells the new credential from those in the table.

The bounds are sharp: with ids of 15 and 580 bytes TLC finds an account (23 short ids, then a long one) that
cannot log in, and `MCConversions` has credentials on both sides of each limit of `StoredIffItFits`.

The named assumptions of these modules are `SharedDatabaseAssumption`, `UserNamesAssumption`,
`CounterAssumption`, `EncodingsAssumption`, `RpIdsAssumption` (names are sequences of at least one label,
labels strings of bytes other than zero and the dot), `WireAssumption` and `EnrolmentsAssumption` (lengths are numbers, ids and certificates not empty).

`RpTypeOK`, `UdTypeOK`, `SharedTypeOK` and `OwnAccount` (a login finds the row of exactly the name it was
given) are in no run of their own: the first three are conjuncts of the invariants the runs check, the
last follows from the invariant behind `NameArrives`.

`SystemInv`, `SealingInv`, `HonestInv`, `RowIsOurs`, `WireInv`, `TableInv` and `LoginInv` are in no run
either: the runs check what follows from them. TLC finds no violation of `SystemInv` on the instances of
`MCAnswers` and `MCSystem`, of `SealingInv` on that of `MCFaults`, of `HonestInv` on those of `MCWorkers` and
`MCBusyDatabase`, nor of the last three on that of `MCConversions`.

Only model-checked: `HandshakesEnd` and `PreparedCeremonySucceeds`, liveness with ENABLED in its
fairness. Every other property the passing runs check is a theorem.

## Where the code and its comments disagree

* **Plain clients** (`fidossl.c:234-235`, `:275`). "No FIDO data for this connection. This means that the
  client does not support the fido extension. This is not an error." Once any FIDO client has begun a ceremony, a plain client's handshake meets
  the default branch and is aborted. `MCPlainClient`.
* **RP ids that are a suffix of the host** (`ud.c:250-253`, `rp.c:537`). The client accepts them, the
  server that sent one refuses the answer, after the credential has been made. `MCSuffixRpId`.
* **A credential without an owner** (`persistence.c:46`, `:245`). `add_creds` takes every outcome of
  its SELECT but `SQLITE_DONE` for a user that exists; foreign keys are never switched on. When that
  SELECT is refused (no busy timeout is set), the credential is stored, its user is not, and the
  registration is reported as a success. `MCOwners`.
* **Graceful with unknown keys** (`serialize.c:773-776`, `:867-869`). The key is passed over, its value is
  not: it is taken for the next key. The registration request does it right. `MCUnknownKeys`.

Three more disagreements show in the models without a run of their own:

* **Bigger than the stored count** (`rp.c:627`, `:640`, `:1418`). Two processes that have both compared
  with the old row may write in either order; the stored counter goes down. `LoweredOnlyByRace` says
  that nothing else lowers it.
* **Bigger, as an int** (`rp.c:253`). A counter of 2^31 is negative and refused, as are all that follow
  until it has wrapped and passed the stored one. Hence the premise of `OwnerIsServed`.
* **A map if there are optional parameters** (`serialize.c:1518-1520`). The authentication response
  always declares five elements; without optional fields `Build` has no result. `run_ctap` never
  leaves the credential id out, so no client sends one.

## Not modelled

* Bytes that are no CBOR: a peer's packet is a tree of items or `Malformed`. tinyCBOR, OpenSSL,
  libfido2, libpsl and SQLite are external, modelled from their use.
* `cred_id_exists` and `get_public_key`, which nobody calls; `debug.c`; the unit tests and scripts.
* Handshakes on several threads of one process. Nothing in `rp.c` locks; the model lets callbacks of
  different connections interleave, each running alone, as in an event loop.
* Failing allocations, options for which `init_rp` or `init_ud` return NULL, and a second `SSL_CTX`.
  The callbacks mostly dereference NULL there.
* A server configured without a ticket. TLS session resumption, which would skip the CertificateRequest.
* Discovery of devices and the PIN dialogue: a failure of `run_ctap` is `FailResponse`, or one of the
  two that come after the device has acted.
* Devices that do not count (always 0): they register and can never log in (`rp.c:630`). Devices here count.

## Plan

Done, in this order: `FidoTypes`, `TlsSession`, `RelyingParty` with `AnyClient`, `UserDevice` with
`AnyServer`, `FidoSystem`, `AccountService`, `PartiesProofs`; `SharedDatabase` with `CredentialStore` and
`SharedDatabaseProofs`; `Packets`, `Wire`, `Enrolments`; `UserNames`, `SealingHistory`, `AuthenticatorData`,
`Encodings`, `RpIds` and the proofs about three of them.

Then `SystemInvariant`, `FidoSystemProofs` and `SealingHistoryProofs`, and what was left of
`SharedDatabaseProofs` and of counters and base64.

Last, `Iteration` and `OptionMap`, with which the packets and the names of hosts lost their recursive
operators, and the proofs about them: `PacketsProofs`, and `RpIds` in `ConversionsProofs`.

Worth doing next:

1. How far the system theorems go with failing SELECTs, weaker forms of the four that assume none.
2. Failing initialisation, a server without a ticket, a second `SSL_CTX`.
3. The dialogue with the authenticator (search, PIN, retries) step by step.
