------------------------------- MODULE BusMsg -------------------------------
(***************************************************************************)
(* I2C messages: process_message locks the default bus, runs               *)
(* process_i2c_messages (target/asd_msg.c) over the commands of the        *)
(* message and unlocks the bus that is the default one by then.  Reads and *)
(* writes are queued in a builder and carried out together; a bus select   *)
(* in between changes the bus and its lock through the I2C and I3C         *)
(* handlers (target/i2c_handler.c, target/i3c_handler.c).                  *)
(*                                                                         *)
(* The locks are flock()s on device files, which other programs of the BMC *)
(* take as well, so that LOCK_EX waits.  What a transfer carries is left   *)
(* out but for its length, which the response buffer depends on.  The      *)
(* device files of the devices on one I3C bus are kept as one.             *)
(***************************************************************************)
EXTENDS Integers, Sequences, SequencesExt

CONSTANTS
    Buses,       \* bus numbers a client may name
    NoBus,       \* any other value of the handlers' bus field
    Tables,      \* bus_config tables: type of each bus
    Lens,        \* lengths of a read or write
    MaxDataSize, \* MAX_DATA_SIZE, of the response
    MaxCmds,     \* bound: commands of a message
    MayFail      \* drivers and the ownership service may refuse

ASSUME BusMsgAssumption ==
    /\ NoBus \notin Buses
    /\ Tables \subseteq [Buses -> {"i2c", "i3c", "none"}]
    /\ Lens \subseteq Nat
    /\ MaxDataSize \in Nat /\ \A l \in Lens : l + 2 <= MaxDataSize
    /\ MaxCmds \in Nat \ {0}
    /\ MayFail \in BOOLEAN

VARIABLES
    table, \* buscfg.bus_config_map and bus_config_type
    dev,   \* the default buses, and what the handlers have open and locked
    other, \* buses locked by other programs
    pc,    \* where process_message is
    sel,   \* the bus a LOCK_EX in progress is for
    req    \* the message in progress, or the one processed last

vars == <<table, dev, other, pc, sel, req>>

\* The outcomes of a call that may fail.
Ok == IF MayFail THEN BOOLEAN ELSE {TRUE}

\* Device state with no handler made.  conf is the bus the daemon was given as
\* the default one, dflt buscfg.default_bus.  held is what the kernel has locked
\* for this program; locked says it did so through the handler's descriptor.
\* moved is history: the client has selected another bus, from or to I3C.
NoDev(bus) ==
    [conf |-> bus, dflt |-> bus, held |-> {}, token |-> FALSE, moved |-> FALSE,
     i2c |-> [bus |-> NoBus, open |-> FALSE, locked |-> FALSE],
     i3c |-> [bus |-> NoBus, open |-> FALSE, locked |-> FALSE]]

\* No message yet.  want is the bus the client selected last in this message;
\* refused, back and flush are history: a select failed, a select came back to
\* the default bus, and where the last flush went.
NoReq ==
    [cmds |-> 0, last |-> FALSE, ops |-> 0, queued |-> <<>>, resp |-> <<>>,
     cnt |-> 0, sent |-> <<>>, want |-> NoBus, refused |-> FALSE, back |-> FALSE,
     end |-> "none", flush |-> [on |-> NoBus, want |-> NoBus, held |-> FALSE]]

bus_type(b) == IF b \in Buses THEN table[b] ELSE "none"
Enabled(type) == \E b \in Buses : table[b] = type

(***************************************************************************)
(* Handlers.  An operator yields the results the code may have: the device *)
(* state and whether the status is ST_OK.                                  *)
(***************************************************************************)
Result(d, ok) == [dev |-> d, ok |-> ok]
Then(results, Op(_)) == UNION {IF r.ok THEN Op(r.dev) ELSE {r} : r \in results}

\* Closing a descriptor drops the lock taken through it.
Closed(d, h) ==
    [d EXCEPT ![h].open = FALSE, ![h].locked = FALSE,
              !.held = IF d[h].locked THEN @ \ {d[h].bus} ELSE @]

\* Mutation: the handle is forgotten and not closed.
i2c_close_leaking(d) == [d EXCEPT !.i2c.open = FALSE, !.i2c.locked = FALSE]

i2c_close_driver(d) == Closed(d, "i2c")

i2c_open_driver(d, b) ==
    {Result([d EXCEPT !.i2c = [bus |-> b, open |-> ok, locked |-> FALSE]], ok) : ok \in Ok}

\* i2c_bus_flock up to flock(): another bus is opened whatever the table says.
i2c_flock_open(d, b) ==
    IF b # d.i2c.bus THEN i2c_open_driver(i2c_close_driver(d), b) ELSE {Result(d, TRUE)}

\* Mutation: the bus is opened again even if it is open.
i2c_bus_select_reopening(d, b) ==
    IF ~Enabled("i2c") \/ table[b] # "i2c" THEN {Result(d, FALSE)}
    ELSE Then(i2c_open_driver(i2c_close_driver(d), b),
              LAMBDA e : {Result([e EXCEPT !.dflt = b], TRUE)})

\* A bus that is open already is not made the default one.
i2c_bus_select(d, b) ==
    IF ~Enabled("i2c") THEN {Result(d, FALSE)}
    ELSE IF b = d.i2c.bus THEN {Result(d, TRUE)}
    ELSE IF table[b] = "i2c"
         THEN Then(i2c_open_driver(i2c_close_driver(d), b),
                   LAMBDA e : {Result([e EXCEPT !.dflt = b], TRUE)})
    ELSE {Result(d, FALSE)}

i3c_close_device_drivers(d) == Closed(d, "i3c")

\* The SPD map may lack the bus, which leaves the handler as it is, or none
\* of its devices may open.
i3c_open_device_drivers(d, b) ==
    {Result([d EXCEPT !.i3c = [bus |-> b, open |-> ok, locked |-> FALSE]], ok) : ok \in Ok}
      \cup (IF MayFail THEN {Result(d, FALSE)} ELSE {})

\* i3c_bus_flock up to flock(): the first call asks for the ownership of the
\* buses, gives it back if the devices do not open, and every call makes
\* sure of it.  A bus other than b that is open stays open.
i3c_flock_open(d, b) ==
    LET owned == IF d.token THEN {Result(d, TRUE)}
                 ELSE {Result([r.dev EXCEPT !.token = r.ok], r.ok) :
                          r \in i3c_open_device_drivers(d, b)}
                        \cup (IF MayFail THEN {Result(d, FALSE)} ELSE {})
    IN  Then(owned, LAMBDA e : {Result(e, ok) : ok \in Ok})

i3c_bus_select(d, b) ==
    IF ~Enabled("i3c") THEN {Result(d, FALSE)}
    ELSE IF b = d.i3c.bus
         THEN IF d.i3c.open THEN {Result(d, TRUE)} ELSE i3c_open_device_drivers(d, b)
    ELSE IF table[b] = "i3c"
         THEN Then(i3c_open_device_drivers(i3c_close_device_drivers(d), b),
                   LAMBDA e : {Result([e EXCEPT !.dflt = b], TRUE)})
    ELSE {Result(d, FALSE)}

(***************************************************************************)
(* dev_flock.  LOCK_UN never waits; LOCK_EX is taken in two steps, of      *)
(* which FlockDone waits.                                                  *)
(***************************************************************************)
flock_open(d, b) ==
    CASE bus_type(b) = "i2c" -> i2c_flock_open(d, b)
      [] bus_type(b) = "i3c" -> i3c_flock_open(d, b)
      [] OTHER -> {Result(d, FALSE)}

Unlocked(d, h) ==
    [d EXCEPT ![h].locked = FALSE, !.held = IF d[h].locked THEN @ \ {d[h].bus} ELSE @]

\* LOCK_UN: I2C fails without a descriptor, I3C skips what is not open.
dev_unlock(d, b) ==
    Then(flock_open(d, b),
         LAMBDA e : LET h == bus_type(b)
                    IN  {Result(Unlocked(e, h), h = "i3c" \/ e.i2c.open)})

\* LOCK_EX on the descriptors of handler h.
Locked(d, h) == [d EXCEPT ![h].locked = TRUE, !.held = @ \cup {d[h].bus}]

\* flock(LOCK_EX) returns, unless a signal interrupts it: at once with an
\* error on a descriptor that is not open, or when nobody, this program
\* included, holds the lock through another descriptor.
flock_exclusive(d, b) ==
    LET h == bus_type(b)
    IN  IF ~d[h].open THEN {Result(d, h = "i3c")}
        ELSE IF d[h].locked \/ d[h].bus \notin (other \cup d.held)
        THEN {Result(Locked(d, h), TRUE)} ELSE {}

handler_bus_select(d, b) ==
    CASE bus_type(b) = "i2c" -> i2c_bus_select(d, b)
      [] bus_type(b) = "i3c" -> i3c_bus_select(d, b)
      [] OTHER -> {Result(d, FALSE)}

(***************************************************************************)
(* Responses.                                                              *)
(***************************************************************************)
\* The bus do_read_write works on: the open one of the handler that the
\* default bus belongs to, whatever bus that is.
WorkedOn(d) ==
    LET h == bus_type(d.dflt)
    IN  IF h \in {"i2c", "i3c"} /\ d[h].open THEN d[h].bus ELSE NoBus

\* Mutation: the response starts afresh in the buffer, and the count does not.
AnswerUncounted(r, m) ==
    LET full == m.len + r.cnt + 2 > MaxDataSize
    IN  [r EXCEPT !.sent = IF full THEN @ \o r.resp ELSE @,
                  !.resp = Append(@, m.id),
                  !.cnt = (IF full THEN 0 ELSE @) + 2 + (IF m.read THEN m.len ELSE 0)]

\* Mutation: the buffer is taken for large enough.
AnswerUnchecked(r, m) ==
    [r EXCEPT !.resp = Append(@, m.id), !.cnt = @ + 2 + (IF m.read THEN m.len ELSE 0)]

\* One round of build_responses: a full buffer is sent with the continuation
\* bit and started afresh.
Answer(r, m) ==
    LET full == m.len + r.cnt + 2 > MaxDataSize
    IN  [r EXCEPT !.sent = IF full THEN @ \o r.resp ELSE @,
                  !.resp = IF full THEN <<m.id>> ELSE Append(@, m.id),
                  !.cnt = (IF full THEN 0 ELSE @) + 2 + (IF m.read THEN m.len ELSE 0)]

build_responses(r) == FoldLeft(Answer, [r EXCEPT !.queued = <<>>], r.queued)

\* do_read_write and what follows it; a transfer that fails is answered with
\* a NAK.
Flush(d, r) ==
    LET b == WorkedOn(d)
    IN  [build_responses(r) EXCEPT !.flush = [on |-> b, want |-> r.want, held |-> b \in d.held]]

\* Mutation: only a message that was processed to its end is unlocked.
FinishEarly(d, r, ok) ==
    /\ IF ok THEN \E u \in dev_unlock(d, d.dflt) : dev' = u.dev ELSE dev' = d
    /\ req' = [r EXCEPT !.end = IF ok THEN "ok" ELSE "err",
                        !.sent = IF ok THEN @ \o r.resp ELSE @]
    /\ pc' = "idle"
    /\ sel' = NoBus

\* The message is answered and the bus that is the default one by now is
\* unlocked.
Finish(d, r, ok) ==
    /\ \E u \in dev_unlock(d, d.dflt) : dev' = u.dev
    /\ req' = [r EXCEPT !.end = IF ok THEN "ok" ELSE "err",
                        !.sent = IF ok THEN @ \o r.resp ELSE @]
    /\ pc' = "idle"
    /\ sel' = NoBus

GoOn(d, r) ==
    /\ dev' = d
    /\ req' = r
    /\ pc' = "loop"
    /\ sel' = NoBus

\* The end of an iteration of the loop that did not fail: what is queued is
\* flushed when the message is at its end or a stop was asked for.
Iterated(d, r, stop) ==
    LET f == IF r.queued # <<>> /\ (r.last \/ stop) THEN Flush(d, r) ELSE r
    IN  IF r.last THEN Finish(d, f, TRUE) ELSE GoOn(d, f)

\* A bus select failed: what the response holds is sent with an error, and
\* the loop goes on past the flush.
SelectRefused(d, r) ==
    LET f == [r EXCEPT !.sent = @ \o r.resp, !.refused = TRUE]
    IN  IF r.last THEN Finish(d, f, TRUE) ELSE GoOn(d, f)

(***************************************************************************)
(* Actions.                                                                *)
(***************************************************************************)
\* A command is taken off the message; last says that nothing follows it.
Taken(last) == [req EXCEPT !.cmds = @ + 1, !.last = last]

\* The client's first debug message, set_config_defaults having put the default
\* bus back: i2c_initialize selects it on a handler whose bus field was never
\* set, i3c_initialize only clears it.  (A bus that failed to open when an
\* earlier message tried is in the field by now and passes for open, as does a
\* bus the field names by chance, one of I3C too.)
Initialize ==
    /\ pc = "down"
    /\ \E garbage \in Buses \cup {NoBus} :
         LET made == [NoDev(dev.conf) EXCEPT !.i2c.bus = garbage]
         IN  \E r \in IF Enabled("i2c") THEN i2c_bus_select(made, made.dflt) ELSE {Result(made, TRUE)} :
               /\ r.ok
               /\ dev' = r.dev
    /\ pc' = "idle"
    /\ UNCHANGED <<table, other, sel, req>>

\* asd_msg_free: the devices are closed and the ownership given back.
Deinitialize ==
    /\ pc = "idle"
    /\ LET closed == i3c_close_device_drivers(i2c_close_driver(dev))
       IN  dev' = [NoDev(dev.conf) EXCEPT !.held = closed.held]
    /\ pc' = "down"
    /\ req' = NoReq
    /\ UNCHANGED <<table, other, sel>>

\* A message arrives: the lock of the default bus is asked for.
process_message ==
    /\ pc = "idle"
    /\ \E r \in flock_open(dev, dev.dflt) :
         /\ dev' = r.dev
         /\ pc' = IF r.ok THEN "lock" ELSE "idle"
         /\ sel' = IF r.ok THEN dev.dflt ELSE NoBus
         /\ req' = [NoReq EXCEPT !.want = dev.dflt, !.end = IF r.ok THEN "none" ELSE "err"]
    /\ UNCHANGED <<table, other>>

\* The lock of the default bus is obtained or refused.
FlockDone ==
    /\ pc = "lock"
    /\ \E r \in flock_exclusive(dev, sel) :
         /\ dev' = r.dev
         /\ pc' = IF r.ok THEN "loop" ELSE "idle"
         /\ req' = [req EXCEPT !.end = IF r.ok THEN @ ELSE "err"]
    /\ sel' = NoBus
    /\ UNCHANGED <<table, other>>

\* A signal ends the wait: what an I3C handler has locked is unlocked.
Interrupted ==
    /\ MayFail
    /\ pc \in {"lock", "relock"}
    /\ LET d == IF bus_type(sel) = "i3c" THEN Unlocked(dev, "i3c") ELSE dev
       IN  IF pc = "relock" THEN SelectRefused(d, req)
           ELSE /\ dev' = d
                /\ pc' = "idle"
                /\ req' = [req EXCEPT !.end = "err"]
                /\ sel' = NoBus
    /\ UNCHANGED <<table, other>>

\* do_read_command, do_write_command
Transfer(read, len, stop, last) ==
    LET id == req.ops + 1
    IN  /\ pc = "loop"
        /\ Iterated(dev, [Taken(last) EXCEPT !.ops = id,
                              !.queued = Append(@, [id |-> id, read |-> read, len |-> len])], stop)
        /\ UNCHANGED <<table, other>>

\* do_set_sclk_command
SetSclk(last) ==
    /\ pc = "loop"
    /\ IF bus_type(dev.dflt) # "none" THEN Iterated(dev, Taken(last), FALSE)
       ELSE Finish(dev, Taken(last), FALSE)
    /\ UNCHANGED <<table, other>>

\* An unknown command, a command cut short, or no memory for a transfer or
\* its answer: the rest of the message is dropped.
BadCommand(last) ==
    /\ pc = "loop"
    /\ Finish(dev, Taken(last), FALSE)
    /\ UNCHANGED <<table, other>>

\* The second half of do_bus_select_command.
Selected(d, r, b) ==
    \E s \in handler_bus_select(d, b) :
      IF s.ok THEN Iterated(s.dev, [r EXCEPT !.want = b], FALSE)
      ELSE SelectRefused(s.dev, r)

\* do_bus_select_command for the default bus: no lock changes hands.
SelectDefault(last) ==
    /\ pc = "loop"
    /\ Selected(dev, [Taken(last) EXCEPT !.back = @ \/ req.want # dev.dflt], dev.dflt)
    /\ UNCHANGED <<table, other>>

\* ... and without a bus number, at the end of the message.
SelectCutShort ==
    /\ pc = "loop"
    /\ SelectRefused(dev, Taken(TRUE))
    /\ UNCHANGED <<table, other>>

Moving(d, b) == [d EXCEPT !.moved = @ \/ bus_type(d.dflt) = "i3c" \/ bus_type(b) = "i3c"]

\* ... and for another one, up to the wait for its lock.  A failure to unlock
\* the default bus is reported and nothing else.
SelectOther(b, last) ==
    /\ pc = "loop"
    /\ b # dev.dflt
    /\ \E u \in dev_unlock(Moving(dev, b), dev.dflt) : \E r \in flock_open(u.dev, b) :
         IF r.ok THEN /\ dev' = r.dev /\ req' = Taken(last) /\ pc' = "relock" /\ sel' = b
         ELSE SelectRefused(r.dev, Taken(last))
    /\ UNCHANGED <<table, other>>

\* ... and from there on.
RelockDone ==
    /\ pc = "relock"
    /\ \E r \in flock_exclusive(dev, sel) :
         IF r.ok THEN Selected(r.dev, req, sel) ELSE SelectRefused(r.dev, req)
    /\ UNCHANGED <<table, other>>

\* Other programs (external) take and drop the locks; they hold none for ever.
OtherLocks(b) ==
    /\ b \notin other \cup dev.held
    /\ other' = other \cup {b}
    /\ UNCHANGED <<table, dev, pc, sel, req>>

OtherUnlocks(b) ==
    /\ b \in other
    /\ other' = other \ {b}
    /\ UNCHANGED <<table, dev, pc, sel, req>>

\* Bound: the last command a message may have says so.
Lasts == IF req.cmds + 1 < MaxCmds THEN BOOLEAN ELSE {TRUE}

Command ==
    \/ \E last \in Lasts :
         \/ \E read \in BOOLEAN, len \in Lens, stop \in BOOLEAN : Transfer(read, len, stop, last)
         \/ SetSclk(last)
         \/ BadCommand(last)
         \/ SelectDefault(last)
         \/ \E b \in Buses : SelectOther(b, last)
    \/ SelectCutShort

Init ==
    /\ table \in Tables
    /\ \E b \in Buses : dev = NoDev(b)
    /\ other = {}
    /\ pc = "down"
    /\ sel = NoBus
    /\ req = NoReq

Next ==
    \/ Initialize
    \/ Deinitialize
    \/ process_message
    \/ FlockDone
    \/ Interrupted
    \/ Command
    \/ RelockDone
    \/ \E b \in Buses : OtherLocks(b) \/ OtherUnlocks(b)

\* The loop over the commands runs to its end; a lock other programs keep
\* giving back is obtained in the end.
Fairness ==
    /\ WF_vars(Command)
    /\ SF_vars(FlockDone)
    /\ SF_vars(RelockDone)
    /\ \A b \in Buses : WF_vars(OtherUnlocks(b))

Spec == Init /\ [][Next]_vars /\ Fairness
-----------------------------------------------------------------------------
Handle == [bus : Buses \cup {NoBus}, open : BOOLEAN, locked : BOOLEAN]

\* The response never outgrows its buffer, and a lock is held through an open
\* descriptor of the bus it is for.
TypeOK ==
    /\ table \in Tables
    /\ dev \in [conf : Buses, dflt : Buses, held : SUBSET Buses, token : BOOLEAN, moved : BOOLEAN,
                i2c : Handle, i3c : Handle]
    /\ \A h \in {"i2c", "i3c"} : dev[h].locked => dev[h].open /\ dev[h].bus \in dev.held
    /\ other \subseteq Buses \ dev.held
    /\ pc \in {"down", "idle", "lock", "loop", "relock"}
    /\ sel \in Buses \cup {NoBus}
    /\ req.cnt \in 0..MaxDataSize
    /\ req.cmds \in 0..MaxCmds

\* Outside the loop over the commands, and so between messages and whenever
\* the daemon waits for a lock, it holds the lock of no I2C bus: it neither
\* keeps other programs out for ever nor waits for them while it does.  That is
\* so while the default bus is an I2C bus; with an I3C bus as the default one
\* the lock of an I2C bus that was selected outlives the message, since the
\* unlock is that of the I3C handler.  (An I3C lock outlives its message if the
\* default bus is another one by then, or if the ownership cannot be confirmed
\* when it is to be dropped.)
HoldsNothingOutside ==
    pc # "loop" =>
      \A b \in dev.held : table[b] = "i3c" \/ bus_type(dev.dflt) = "i3c"

\* Queued reads and writes go to the bus the client selected last, under its
\* lock, in a message in which no select failed and none went back to the
\* default bus; for a client that never selected another bus from or to I3C.
\* (The lock for another I3C bus is taken on the descriptors of the old one,
\* which the select closes; and a select between I2C and I3C leaves the
\* transfers with the default bus, whose lock it has dropped.)
TransfersLocked ==
    req.flush.on # NoBus /\ ~req.refused /\ ~req.back /\ ~dev.moved
      => req.flush.held /\ req.flush.on = req.flush.want

\* A message that was processed to its end, without a select that failed, has
\* one answer for each of its reads and writes, in their order, over as many
\* responses as it takes.
AnswersComplete ==
    req.end = "ok" /\ ~req.refused => req.sent = [i \in 1..req.ops |-> i]

\* Every message comes to an end: the daemon never waits for a lock that it
\* holds itself through a descriptor it has lost.
MessageEnds == pc \in {"lock", "loop", "relock"} ~> pc = "idle"

\* "Release lock on previous bus and lock selected bus if required."
\* (do_bus_select_command): if no select failed, a transfer is made under the
\* lock of the bus it goes to.
SelectedBusLocked == req.flush.on # NoBus /\ ~req.refused => req.flush.held
=============================================================================
