# At-Scale Debug daemon: TLA+ specifications

This directory holds TLA+ models of the At-Scale Debug (ASD) daemon, the program
on a BMC that lets one remote client at a time debug the host through JTAG, I2C,
I3C, SPP and a set of pins. The models are written from the C sources of the
repository (`server/` and `target/`). TLC checks them on small instances. TLAPS
proves every invariant and every action property those runs check, and the
refinement of the abstract specification, for every value of the constants:
every size of the session table, every packet, every bus table, every number of
devices and events. Liveness is left to TLC.

`PROJECT.json` lists, for each definition, the source lines it stands for, and
the hazards of the code with the properties that watch them.

    tlc -workers 2 -config Server.cfg MCAsdServer     a run
    tlapm AsdServerProofs.tla                         the proofs of a module

## 1. The system

| Component | Source | State | Operations |
|---|---|---|---|
| Request loop | `server/asd_main.c` | `poll_fds` (local), static `p_extconn`, `is_connected`, `last_activity_time` | `request_processing_loop`, `process_new_client`, `process_all_client_messages`, `process_client_message`, `ensure_client_authenticated`, `on_client_connect`, `on_client_disconnect`, `close_connection`, `check_idle_timeout` |
| Session table | `server/session.c` | slots (socket, deadline, authenticated, data pending), `n_authenticated_id` | open, close, close all, close expired, authentication complete, lookups, `session_getfds` |
| External network | `server/ext_network.c`, `ext_tcp.c`, `ext_tls.c` | sockets, SSL objects | accept, close, recv, send |
| Authentication | `server/auth_pam.c`, `auth_none.c` | ring of three time stamps, end of the lockout | `authpam_client_handshake` |
| Message framing | `target/asd_msg.c` (`asd_msg_read`) | read state, index, size of the data | one call per readable socket |
| Message layer life cycle | `target/asd_msg.c`, `asd_target_api.c` | the one instance, its handlers, `handlers_initialized` | `asd_msg_init`, initialisation by the first message, `asd_msg_free`, descriptors |
| JTAG messages and handler | `target/asd_msg.c`, `jtag_handler.c` | packet position, response size; per chain: TAP state, scan state, padding | `process_jtag_message`, `determine_shift_end_state`, `JTAG_shift`, `JTAG_set_tap_state`, `JTAG_wait_cycles`, ... |
| I2C, I3C | `target/asd_msg.c`, `i2c_handler.c`, `i3c_handler.c`, `i2c_msg_builder.c` | default bus, descriptors and file locks of the handlers, ownership of the I3C buses, queued transfers, response | `process_i2c_messages`: bus select, clock, reads and writes; `dev_flock` |
| SPP | `target/asd_msg.c`, `spp_handler.c`, `i3c_debug_handler.c` | open devices, handshakes and data outstanding, bulk mode, static bulk response | `process_spp_message`, `asd_msg_check_spp_ibi`, `send_bpk_event`, `asd_msg_event` |
| Target handler | `target/target_handler.c`, `gpio.c` | lines, event configuration, `platform_reset` | initialise, events, write, event configuration, wait for PRDY |
| D-Bus helper | `target/dbus_helper.c` | connection, `power_state` | power signals, power calls, I3C ownership, platform configuration |
| Configuration, logging | `server/config.c`, `logging.c` | set at start-up | |

**How they interact.** The daemon is one thread. Each iteration of
`request_processing_loop` checks the idle timeout, copies the pin descriptors of
the message layer, polls the listening socket, the pins and all sessions, admits
at most one new client, closes the sessions that ran out of time to
authenticate, serves one message of every readable session (a handshake, or
`asd_msg_read` for the authenticated one) and reports the pin events. The
message layer reads through a hook that uses the static `p_extconn`. Over TLS a
client has to pass PAM; without encryption it is authenticated at once. The
first client to authenticate creates the message layer; its first debug message
initialises the handlers; its disconnection frees all of it.

**What is hard.** There is no second thread; the concurrency is between the
loop, which works off snapshots, and the clients and the clock, which act at
every blocking call. Descriptors in `poll_fds` are closed and re-used while the
snapshot is worked off. Pin descriptors are copied before the clients are served
and used after. Disconnection frees several handlers and may report a failure
half way, and its callers act on that status. Messages arrive in pieces or
several to a piece, and TLS hides bytes from `poll()`. Lockout and expiry are
driven by time but noticed only at some points of the loop. A JTAG scan may be
split over commands and messages, its end is known only by looking ahead over
commands whose operands may look like commands, and the driver may fail between
any two calls. A message may change the bus, and with it the lock, while
transfers are queued, and other programs of the BMC hold the same locks. SPP
devices raise events at any time, which are read in three places and packed into
a response that outlives the message. Pins move while their events are handled.
The full list is under `hazards` in `PROJECT.json`.

**What makes each component correct.**
- *Request loop*: one owner of the target at a time, which keeps it against
  everybody else; the loop always comes round; dead, expired and idle clients
  are let go; a stop leaves nothing behind.
- *Session table and network*: flag and index of the authenticated session
  agree; the open sockets are those in the table.
- *Message layer life cycle*: it exists for the owner only and never outlives it.
- *Authentication*: the ring measures the window exactly; a bounded number of
  passwords is tried; no lockout without a cause.
- *Framing*: the reader keeps the frame, does not wait for the rest of a message,
  and handles every complete one.
- *JTAG*: the handler knows the TAP; a scan is padded once on either side; an
  answered message had all its commands executed.
- *I2C, I3C*: a transfer goes to the bus the client selected, under its lock;
  no lock survives its message and none is waited for while another is held;
  answers are complete and in order. (Section 5 says where I3C buses have less.)
- *SPP*: no event is lost, doubled or overtaken, whoever reads it; a message is
  answered once and its bulk response is closed; nothing is written past a buffer.
- *Target handler, D-Bus*: when its events are handled, the client knows the
  level of a pin and the power; each PRDY counts once; pins are released with
  the client.

## 2. The modules

| Module | Models | State and actions |
|---|---|---|
| `ExtNet` | accept, close and receive of the network layer, and the remote clients | `open`, `rx`, `eof`, `backlog`; client actions connect, send, hang up |
| `Session` | `session.c` | `sockfd`, `t_auth_tout`, `b_authenticated`, `n_authenticated_id`; one operator per function |
| `AsdTarget` | the life cycle of the message layer as the server sees it | `instance`, handler states `target` and `vprobe`, the copied pin descriptors `pins` |
| `AsdServer` | `asd_main.c`, composing the three above | `pc` marks the blocking calls of an iteration; one action per outcome of a step |
| `DebugAccess` | abstract specification: who owns the target, is it attached, is the hardware driven | `Acquire`, `Drive`, `Detach` |
| `AuthPam` | `authpam_client_handshake` over time | ring, lockout, last reply; two history variables tally attempts |
| `MsgRead` | `asd_msg_read` with the TLS and TCP receive functions under it | byte positions, not bytes; a client composes messages and writes them in arbitrary pieces |
| `JtagScan` | `process_jtag_message`, `determine_shift_end_state`, `jtag_handler.c` | the packet is a sequence of real command bytes; one action per kind of command; the TAPs behind the driver are `hw` |
| `BusMsg` | I2C messages: `process_message`, `process_i2c_messages`, `dev_flock`, the I2C and I3C handlers | `dev` is the default bus with what the handlers have open, locked and own; `other` the buses other programs have locked; one action per command, `LOCK_EX` in two steps |
| `SppMsg` | SPP messages and events: `process_spp_message`, the waits, `send_bpk_event`, `spp_handler.c`, `i3c_debug_handler.c` | `spp` is the handler with the bulk response, `ibis` the events devices have raised, `wait` the wait in progress; one action per command, per round of a wait and per event |
| `TargetPins` | `target_handler.c` with gpiod lines, and the power state of `dbus_helper.c` | `held`, `asserted`, `queue` of the lines, `cfg`, `dbus`, and `seen`, what the client was told; taking an event and handling it are two steps |
| `AsdServerProofs`, `AuthPamProofs`, `MsgReadProofs`, `JtagScanProofs`, `BusMsgProofs`, `SppMsgProofs`, `TargetPinsProofs` | the theorems about the module they extend | |
| `FiniteRecursion` | induction, recursive functions, folds and sums, as facts the other proofs cite | |
| `MC...` | instances for TLC | symmetry of descriptors; packets; bus tables; events and signals |

Definitions keep the names of the functions they model. Every definition whose
name is followed by a comment beginning with "Mutation" is a deliberate error
used to make sure that a property can fail; no specification uses it.

Splitting of `AsdServer`: an action ends where the thread blocks or where a
client could see a difference (`poll`, `accept`, a handshake, `recv`). What the
code does between two such points is one action, together with the closing and
freeing it triggers.

Abstractions that matter:
- A client's bytes are counted, not kept, in `AsdServer`; their framing is the
  subject of `MsgRead`, their content of `JtagScan`.
- Of the handlers of the message layer, `AsdTarget` keeps the target and the
  remote-probe handler, the two whose state decides the result of
  `asd_msg_free`. Memory exhaustion is not modelled.
- Time is counted in ticks; a deadline is the number of ticks left. The wall
  clock does not jump.
- `b_data_pending` appears only in `MsgRead`, where it has its one effect.
- PAM answers with any of its results.
- `accept()` that fails leaves its connection queued; a connection that fails in
  the TLS handshake, or finds no slot, has a socket that has to be closed again.
- `MsgRead` has the wire in pieces: a TLS record, or what arrived of it so far.
  `SSL_read` waits for the rest of a record. The call of `asd_msg_read` that
  follows the handshake is made without `poll()`; every other one follows a
  `poll()` that saw bytes. A wait over TLS ends after three seconds, and with it
  the session; over TCP it does not end.
- A JTAG driver call that fails leaves the TAP where it was. Data shifted is
  reduced to the order of prefix, data and postfix. `hw` is in the state `Lost`
  when no code of the daemon could know it: on a chain that was not reset when
  the next client took over, or after the multiplexer pin was written directly.
- `BusMsg` keeps of a transfer its length, of the devices on an I3C bus one
  descriptor. A lock is held until it is released or its descriptor closed. The
  bus field of an I2C handler is never set before its first use; it may name any
  bus. Entries of the bus table of type SPP are never found by `bus_type`, which
  searches the first part of the table only; the SPP branches of `dev_flock` and
  `do_bus_select_command` are therefore left out.
- `SppMsg` keeps of an event its kind, device and length, of an answer the bytes
  it takes. An event is raised only where the daemon looks at events. What a
  command makes a device do is left out: devices raise events whenever they like.
  `poll()` reports a device when it has an event; a descriptor in error
  (`POLLERR`, `POLLHUP`) is not modelled.
- `TargetPins` assumes that a client takes the pins it is not told of at the
  start to be as they are. `stuck` are lines that are requested and that no
  handler releases any more, `refused` outputs the driver would not make inputs.
  A handler is initialised once, so that its inputs with a descriptor are the
  ones it holds. The power and reset buttons are calls that change
  nothing in the daemon, and so is reading a pin. A pulse on PRDY is one event.
- Three rules the code states or assumes about JTAG clients are recorded in
  `lapsed` when broken: go on with a scan if the last message ended in Shift
  (`check_shift_state_bundle_start`), wait only in a stable state (comment of
  `JTAG_wait_cycles`), and do not ask for Shift in the middle of a scan.
  Properties that depend on them say so.

## 3. The runs

| Run | Question | Result |
|---|---|---|
| `server` | Do the table, the sockets, the target and the owner stay consistent under every interleaving, and is `DebugAccess` implemented? | holds, 584,000 states |
| `server_live` | Does the loop come round, are connections answered, dead peers noticed, a quiet target released, expired sessions closed by traffic? | holds, 105,000 states |
| `auth_pam` | Is the ring of time stamps an exact window; are guesses bounded; are lockouts justified? | holds, 25,000 states |
| `msg` | However the stream is cut and clients replace each other, does the reader keep the frame, wait only before its first byte, leave nothing unhandled but what TLS holds? | holds, 709,000 states |
| `jtag` | TAP tracked, scans padded once, messages answered only if every command was executed? | holds, 970,000 states |
| `bus` | Are transfers made on the selected bus under its lock, are locks released, do messages end, are answers complete? | holds, 385,000 states |
| `spp` | Is every event read delivered once and in order, every message answered once, the bulk response closed, the PRDY trail read, and does every message end? | holds, 889,000 states |
| `pins` | Does the client end up with the true levels, does each PRDY count once, are the lines released? | holds, 3.1 million states |
| `pin_cycle` | "This cycle will check and report all pin events before checking the requests on the network." | violated |
| `bus_lock` | "Release lock on previous bus and lock selected bus if required." | violated |
| `spp_full` | "Send bulk response if buffer is full": responses stay within their buffers | violated |
| `power_signal` | "Focus in CurrentPowerState messages only" | violated |

Properties are commented where they are defined. Every property of a passing run
has a mutant of the code it is about that breaks it.

**Bounds, and why they are enough.**
- `server`: three slots and four descriptors, so that one session can be the
  owner, one wait and one be new while a fourth connection is accepted and
  refused, and a descriptor is re-used at once. One
  waiting connection and one unread message per socket: the loop looks only at
  whether there is one. `AuthExpire` and `IdleTimeout` are one tick, so both
  expire at any point relative to everything else. Both values of `encrypted`
  and of every failing call.
- `server_live`: two of each and no symmetry; a third slot adds another client
  of a kind that is already there.
- `auth_pam`: the ring has its real size 3; window and lockout are three ticks,
  time runs long enough for a lockout, its end and another one, and up to four
  attempts fall in one tick, one more than the ring holds.
- `msg`: a header of three bytes and a buffer of two, so both can be cut in the
  middle; sizes from 0 to one above the limit; two messages, so that one can lie
  whole in a TLS record behind the end of the other; records that arrive whole or
  in two parts; two connections one after another, and an `asd_msg_free` that
  fails at any point.
- `jtag`: messages of up to four commands, each command also on its own, so
  longer sequences arise over several messages; operands are chosen to look like
  the command for Pause-DR; the last command may be cut short; two scan chains
  and a chain number that does not exist; a response buffer of five bytes, so
  that it overflows with three status reads or a mixture. `Followed` checks and
  does not follow states after a client broke a rule, and keeps the inactive
  chain to reset, Shift-DR or lost.

- `bus`: three tables, all of which the usage text of the daemon allows: two I2C
  buses, two I3C buses, and one I2C bus with two I3C buses; any bus the default
  one; in the first two also a number in no table. Three commands, so that a
  message can select, transfer, and select again; over several messages of a
  client the default bus and what is open vary further. A response that two
  answers fill; every driver, ownership and lock failure. `bus_lock` has
  the I2C buses alone, to show what happens without I3C.
- `spp`: two devices of which either may be missing; three commands, so that a
  bulk command can be followed by two sends of which the second waits; two
  events of three kinds or failures to read one; a bulk response that the second
  event finds full. `poll()` may fail at any wait, and a client may ask for an
  answer of any length. Two clients can follow each other. `spp_full` has one
  device and a receive of four bytes.
- `pins`: the platform reset and one more pin, three moves of the hardware in any
  session or between sessions; any one line lost with each attempt to initialise,
  be it never requested or left requested, and any output the driver refuses to
  take back; the power state alone in a signal, last in it, or missing.

Deadlock is not checked: the daemon may stop (a failing poll ends it), and the
counters of the instances run out.

**Fairness** (`FairSpec`). `WF(ServerStep)`: the thread runs whenever it can.
`SF(AcceptReturns)`: `accept()` may fail and leave the connection queued, but
not for ever. `SF(PollReturns)`: the clock does not outrun the
thread. The idle timeout is at least a minute and is reset when it strikes, and
the iteration after that polls within microseconds; with ticks alone the idle
step could be taken for ever instead. `WF(Tick)`: time
passes. Nothing is assumed of the clients: they may stay silent for ever. Over
TLS every receive has a timeout, so a read always returns; this is why
`server_live` is about TLS. Over TCP the receive after a handshake may wait for
ever for a client that sends nothing (`RecvReturns` is not enabled).

`BusMsg`: `WF(Command)`, the loop over the commands of a message runs on;
`SF(FlockDone)`, `SF(RelockDone)`: a lock that is free again and again is
obtained, as the kernel queues waiters; `WF(OtherUnlocks)`: other programs do not
keep a lock for ever, without which no message need end. `SppMsg`:
`WF(Command)` and `WF(Waiting)`, the thread runs on and `poll()` returns at its
timeout; that it fails is not counted on. Devices may stay silent for ever; they
raise finitely many events, and their descriptors are never in error: either
would keep the daemon in the wait.

## 4. The proofs

Constants are arbitrary within the assumptions named in the modules. Most say no
more than what kind of thing a constant is (`MaxSessions` positive, timeouts
natural, `NoFd` not a descriptor, a packet a sequence of bytes that is not
empty). Those that relate constants are true of the constants in the code:
`LockoutAssumption` (the lockout is at least as long as the period, both 60
seconds in `auth_pam.h`), `EventsFit` (an event, at most 255 bytes, or 512 where
it could not be read, fits a message of 3000) and, in `BusMsgAssumption`, that
the answer to one transfer fits a response. Two theorems about the power need a
further hypothesis, which they state (`StateLast`, below). Some constants are bounds on the
environment (`MaxMsgs`, `MaxCmds`, `MaxEvents`, `MaxMoves`, `MaxTime`,
`MaxPerTick`, `MaxConns`); the theorems hold for all their values.

Each module of proofs has an inductive invariant, a lemma for each action or
group of actions that keeps it, `Invariance` that puts them together, and one
theorem for each property of the run. The properties alone are not inductive;
what has to be added is the argument for why the code is right.

**Request loop** (`AsdServerProofs`). `IInv` joins

- `TableInv`: types of network and table, `OneAuthenticated`, `SocketsAccounted`;
- types of the target and of the loop's variables;
- `TargetHasOwner`, `ReadsFromOwner`, `CleanExit`.

None of them is inductive alone. Closing a session keeps `OneAuthenticated` only
if a descriptor is in one slot (`SocketsAccounted`); `SocketsAccounted` needs
accept to return a descriptor that is not open; `TargetHasOwner` needs the flag
and the index to agree, so that the session closed with the instance is the
owner's; `ReadsFromOwner` needs that no other action runs between the assignment
of `p_extconn` and the read; `CleanExit` needs `TargetHasOwner`, because exit
frees the target only if there is an owner. There is one lemma per group of
actions (`TopKeepsInv`, `AdmissionKeepsInv`, `ServeKeepsInv`, `ReadKeepsInv`,
`PinsKeepInv`, `EnvironmentKeepsInv`), resting on lemmas about the operations of
the table. `TypeCorrect`, `MutualExclusion`, `NoSocketLeaks`,
`TargetBelongsToOwner` and `ExitIsClean` follow.

`PollEntriesFresh` needs `PollInv`: before `accept` each entry of `poll_fds` is the
descriptor of its slot, and at the top of the loop and at the pins there is none.
Without that, `accept` could put a new client in a slot whose entry is another
connection's descriptor.

The steps are then sorted: those that leave owner and target alone, those that
let the target go, the one that authenticates, and the owner's message.
`OwnerIsKept` (`Spec => OwnerKeepsSession`) and `ImplementsAccess`
(`Spec => AccessRefined`, the refinement of `DebugAccess`) follow from `IInv` and
that classification.

**Authentication** (`AuthPamProofs`). That the ring counts the attempts of the
period (`RingIsWindow`) does not survive the passing of time: `Window` says it of
every shorter period that ends now as well. It holds because the entry that is
overwritten is the oldest (`Stamped`, and the lemma on the oldest entry of a
ring). For `GuessBound` the attempts have to be known when a lockout ends:
`LockoutOK` says that during a lockout all recent attempts were made by the time
it was started last, so that, the lockout being no shorter than the period, none
is left at its end. Here sums over the clock's range occur; `FiniteRecursion` has the
facts about them.

**Framing** (`MsgReadProofs`). `Flowing`: the position of the reader, the bytes TLS
has decrypted and the pieces in the socket add up to what was written (`Cuts`
states this of a sequence of pieces by its boundaries). `InFrame`: the reader
stands as far behind the start of the current message as its state and index
say. `Stopped` is what a reader leaves that gave its client up; it leaves the
index where it was. The lemmas follow `asd_msg_read` through the read hooks, the
header and the data. Behind its first byte a read is made only where there is
something to read, which is why `WaitsOnlyAtStart` holds; before it, a call finds
nothing only if it was not polled for, or was polled for a part of a record.

**JTAG** (`JtagScanProofs`). `ScanInv`: as long as the client kept the rules and
nothing failed, only the active chain is in the middle of a scan, its TAP is in
Shift with the prefix, if any, and data driven, and the next command is a scan,
the `TAP_STATE` command that breaks a rule, or cut short. This is what
`determine_shift_end_state` is for, and it rests on lemmas about the look-ahead:
`PeekFinds`, `DetermineFinds`, and `SkipFinds` for the bytes it passes over.
`Accounted`: the commands executed are exactly those that begin before the next
one, and the response is as long as their answers together, or the next command
is cut short. The theorems `TapIsTracked`, `ScansArePadded` and `AnswersAreFull`
hold for every packet of bytes and every number of chains, without the
constraint `Followed` of the run.

**I2C and I3C** (`BusMsgProofs`). `Dev`: what is locked is the bus of an open
descriptor, of the type of its handler. `Flushed`: transfers sent went out on
the bus selected last, under its lock. `Accounted`: the numbers of the transfers
answered and queued follow each other. `Work` collects what holds while a
message is processed, `Asked` what a lock is requested for, `Owned` that the bus
selected last is locked when the next command is looked at, `Free` that no I2C
lock is held outside the loop unless the default bus is an I3C bus. `dev.moved`
records that the client has selected another bus from or to I3C; until then
default bus, selected bus and the handler's open bus are of one kind
(`Together`), which is what makes the unlock at the end of a message the unlock
of the bus that is locked. The theorems hold for every table; what they exempt,
an I3C bus as the default one and a client that has moved, is in the properties,
and fails there as section 5 says.

**SPP** (`SppMsgProofs`). `Outside` is about the devices, `Sound` about the handler
and the bulk response, `At` about the place in the message. The core is `Kept`:
for each device and each kind of delivery, the events sent followed by those
packed are the events read. It holds in every state of a connected client
in which no buffer was overrun and no bulk response wiped. With `Halfway` (a
message in bulk mode has been answered once, any other not yet) this gives
`NoEventIsLost`, `NoneLeftOpen` and `OneAnswer`; `PrdyIsFollowed` is an action
property and follows from the same invariant.

**Pins and power** (`TargetPinsProofs`). `PrdyCounted`: each pulse on PRDY was
reported, ended a wait, is queued, or is in hand. `PinsKnown`: the client knows
the level of a pin that has no event queued or in hand. `PinsAreReleased`
rests on `deinitialize_gpios` going through every line that is requested, so that
a pin driven without a client is one that was refused. `PowerKnown` says of the
power and the signals that have not been processed what `PinsKnown` says of the
pins; it supposes that a signal that names the power state names it last (`StateLast`). The run
`power_signal` shows what happens otherwise; `PinsAreReported` is the part of
`LevelsAreReported` that needs no such hypothesis.

**Data** (`FiniteRecursion`). Induction over numbers, downwards, over sequences and
over finite sets is stated with a set or a function where the libraries have an
operator, since the provers can instantiate the former only. From it follow that
recursive functions, the folds of the community modules and sums over sets exist
and satisfy their equations. Where a definition used `SelectSeq`, of which the
provers know nothing, the model has a fold (`Stream` in `SppMsg`).

**Checked by TLC only**: liveness, which is out of the prover's reach:
`LoopReturns`, `ConnectorAnswered`, `DeadPeerReleased`, `QuietReleasesTarget` and
`ExpiredClosedByTraffic` of the request loop, and `MessageEnds` of `BusMsg` and of
`SppMsg`; and the four properties that are violated, of which `PowerTracked` is
proved under `StateLast` (`PowerIsTracked`).

## 5. Findings and observations

The four violated properties are described under `findings` in `PROJECT.json`
with the line they quote. Further disagreements are stated as properties in the
modules, without a run of their own; each fails in the instance of its module:

- `IdleTimeoutEndsSession` (`AsdServer`): `close_connection` closes the session
  only if `on_client_disconnect` succeeded, which it does not if a handler was
  never initialised. The handlers are freed and the session stays authenticated.
  `server/asd_main.c:545-546`: "If no transactions within the idle timeout ASD
  will end the session."
- `SurvivesWithoutJtag` (`AsdServer`): such a session has no handlers. If it
  sends a message while `enable_spp` is set, every failure is passed over until
  the target handler is used through NULL (`target/asd_msg.c:819`). 775:
  "i3c_dbg is enabled, continue without JTAG support."
- `RefusalJustified` (`AsdServer`): a new client looks for a slot before the
  expired sessions are closed. `server/session.c:35-36`: "Don't allow an
  unauthenticated connection to hold a session open preventing access for other
  users."
- `BusyReported` (`AuthPam`): `session_get_authenticated_conn(NULL)` is always
  an error, so `AUTH_HANDSHAKE_BUSY` is never sent. `server/auth_pam.c:437-438`:
  "if session_get_authenticated_conn returns ST_ERR, then there is no current
  session, which is what we want."
- `AllHandled` (`MsgRead`): the second of two messages in one TLS record waits
  until the client writes again. The tests announce twenty messages in flight
  (`target/tests/asd_msg_tests.c:783-786`).
- `EndStateNamed` (`JtagScan`): the operand of the last command of a packet may
  be taken for the second TAP state. `target/asd_msg.c:2636-2637`: "In hardware
  mode, we must peek ahead for the next tap state to determine the end state".

Observed while modelling, and in the models as the code has it:

- With two I3C buses (`-c 0,1,2,3` in the usage text), the lock for the selected
  bus is taken on the descriptors of the one before, which are then closed: the
  transfers run without a lock. If the ownership of the bus cannot be read when a
  message ends, its I3C lock is kept.
- With I2C and I3C buses in one table, `do_read_write` goes by the type of the
  default bus: after a select of a bus of the other kind the transfers go to the
  default bus, whose lock was dropped. With an I3C bus as the default one the
  unlock at the end of a message is that of the I3C handler, and the I2C bus that
  was selected stays locked. And there `i2c_initialize` fails, since it selects
  the default bus, unless the bus field that was never set names that bus by
  chance.
- The first read after authentication is not polled for. A TLS client that sends
  nothing for three seconds is dropped; over TCP the daemon waits for it for ever,
  and with it every other client and the pins.
- If `asd_msg_free` fails when a client is to be let go, the session and its
  stream go on and the reader starts again in the middle of a message.
- An input whose descriptor cannot be got after it was requested
  (`target/target_handler.c:902-909`) stays requested: nobody can request it
  again, this daemon included. An output that cannot be requested as an input
  (1127-1135) stays driven after the client is gone.
- `poll()` failing in the wait for a handshake, as it does when a signal comes, is
  taken for a timeout: the command is sent although the handshake may be there.
- The wait for a handshake restarts its timeout with every round and has no limit
  of its own. A device descriptor in error makes `poll()` return at once, and
  `target_event` pass over it (`target/target_handler.c:1232-1235`): the wait
  spins.
- The answer to an SPP send-and-receive is as long as the client asked for, also
  where nothing was read into it.
- A bus that failed to open once stays in the handler's bus field; selecting it
  again succeeds and every transfer fails.
- Transfers queued before a bus select go to the new bus. If a select fails, what
  was answered so far is sent, and sent again with the end of the message;
  transfers queued before a failing select at the end of a message are dropped.
- A second SPP_BULK in a message wipes the events packed so far. If its answer
  fails, the bulk response stays open, for the next client too.
- Bulk responses, once asked for, are never switched off again: "If bulk send is
  not being enabled, then bulk response shall be disabled"
  (`target/asd_msg.c:687-688`).
- Devices are polled up to their number, so that one behind a gap is never heard.
- `REMOTE_SPP_CONFIG_CMD` closes every device; `target/spp_handler.c:589` has it
  called before they are opened, which nothing enforces.
- An event that the driver fails to give is passed on as whatever its buffer of
  512 bytes holds.
- An SPP message is not answered at all if SPP is not enabled.
- Reading the PRDY pin does not discard events of a gpiod line, as
  `target/target_handler.c:1564-1565` means it to.
- `platform_reset` is static: a wait that met a reset makes the first wait of the
  next client return at once.
- When an XDP appears, the status that is to shut everything down
  (`target/asd_msg.c:3386-3388`) is overwritten by that of sending the event.
- A power state in transition is off when it is read and on when it is signalled.

Observed without a line that promises otherwise:

- `is_connected` is one flag for all clients; any event of any client resets the
  idle time of the owner.
- An attempt to authenticate during a lockout starts the lockout afresh.
- A pin failure found on descriptors of a previous owner disconnects the current
  one.
- The agent configuration changes the JTAG mode the look-ahead uses, while the
  handler keeps the mode it was initialised with.
- `process_message` answers a failing message with an error; it does not drop
  the client. A failing JTAG message may leave the TAP in Shift.
- Several operations of `asd_msg_init` fail without the function reporting it.

## 6. Not modelled

Command line and logging, certificates and ciphers, sending, the clock frequency
of JTAG, the legacy JTAG driver and the deprecated sysfs lines, multi-chain
selection (its bytes are read and ignored), platform configuration over D-Bus,
the calls that switch the power, `target_wait_sync`, the agent control messages
that only answer, memory exhaustion in `asd_msg_init`, and the stand-alone test
tools `jtag_test` and `i3c_dbg_test`. The initialisation of the handlers by the
first message is modelled per handler (`AsdTarget`, `JtagScan`, `BusMsg`,
`SppMsg`, `TargetPins`) and not as one sequence.

## 7. Plan

Built in this order: session table and network, request loop, life cycle of the
message layer, abstract access, authentication, framing, JTAG, buses, SPP, pins
and power; then the proofs, in the same order. Next:

1. The life cycle of all handlers inside `asd_msg_init`, first message and
   `asd_msg_free` as one sequence, with allocation failures, refining `AsdTarget`.
2. Abstract specifications of single components in the manner of `DebugAccess`,
   with the refinement proved: of the framing, a reader that takes one message
   after the other; of SPP, one stream of events per device.
