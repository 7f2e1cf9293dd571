------------------------------- MODULE SppMsg -------------------------------
(***************************************************************************)
(* SPP messages (process_spp_message, target/asd_msg.c) and the events the *)
(* i3c-debug devices raise meanwhile (target/spp_handler.c,                *)
(* target/i3c_debug_handler.c).                                            *)
(*                                                                         *)
(* A device answers a send with a handshake event and, if the send was an  *)
(* auto command, with a data event.  A send to a device whose handshake is *)
(* outstanding waits in asd_msg_check_spp_ibi, which reads the events of   *)
(* all devices and passes them on.  After an SPP_BULK command handshake    *)
(* and data events are not sent one by one but packed into one response,   *)
(* which is sent when it is full and at the end of the message.            *)
(*                                                                         *)
(* Of an event its kind and its length are kept; of a command its device   *)
(* and the room its answer takes.                                          *)
(***************************************************************************)
EXTENDS Integers, Sequences, FiniteSets, FiniteSetsExt, SequencesExt

CONSTANTS
    MaxDevices,  \* MAX_SPP_BUS_DEVICES
    Ibis,        \* what events devices raise: records of kind and size
    MaxDataSize, \* MAX_DATA_SIZE, of a message
    IbiMaxCount, \* SPP_BULK_RESPONSE_IBI_MAX_COUNT
    RxLen,       \* the bytes spp_receive always reads into the answer: 255
    OpcodeLen,   \* the bytes an opcode always reads into the answer: 32
    EventBuffer, \* size of the buffer events are read into
    MaxMsgs,     \* bound: messages
    MaxCmds,     \* bound: commands of a message
    MaxEvents    \* bound: events raised, and failures to read one

Devices == 0..(MaxDevices - 1)
Kinds == {"shake", "data", "prdy", "other"}

ASSUME SppAssumption ==
    /\ MaxDevices \in Nat \ {0}
    /\ Ibis \subseteq [kind : Kinds, size : Nat]
    /\ {MaxDataSize, IbiMaxCount, RxLen, OpcodeLen, EventBuffer, MaxMsgs, MaxCmds, MaxEvents} \subseteq Nat
    /\ IbiMaxCount > 0

\* An event takes up one message: BUFFER_SIZE_MAX is 255 and the buffer 512
\* bytes, MAX_DATA_SIZE is 3000.
ASSUME EventsFit ==
    /\ \A i \in Ibis : i.size + 2 <= MaxDataSize
    /\ EventBuffer + 2 <= MaxDataSize

VARIABLES
    open,   \* devices the handler has opened
    enable, \* spp.bulk_response_enable
    peer,   \* the client's connection works
    ibis,   \* events a device has raised and nobody has read, for each device
    raised, \* number of events raised, and of failures to read one
    spp,    \* threshold_status, bulk_autocmd_count, bulk_mode, the bulk response
    pc,     \* where process_message is
    msg,    \* the message in progress
    wait,   \* the wait for a handshake in progress
    log     \* history: number of messages, events read for, and sent to, this client, whether a
            \* buffer was overrun and whether a bulk response was cleared

vars == <<open, enable, peer, ibis, raised, spp, pc, msg, wait, log>>

\* SPPHandler.  The bulk response is not the handler's and outlives it.
NewHandler(s) ==
    [s EXCEPT !.thr = [d \in Devices |-> FALSE], !.auto = [d \in Devices |-> 0], !.bulk = FALSE]

NoMsg ==
    [cmds |-> 0, kind |-> "none", addr |-> 0, last |-> FALSE, cnt |-> 0, bulkaddr |-> 0, answers |-> 0]

NoWait == [addr |-> 0, what |-> "none", ready |-> {}, keep |-> FALSE, stale |-> "other", then |-> "none"]
NoLog == [msgs |-> 0, read |-> <<>>, sent |-> <<>>, over |-> FALSE, again |-> FALSE]

\* target_get_spp_fds and target_event count to spp_device_count, which is
\* the number of open devices and not the number of the last one.
Polled == {d \in open : d < Cardinality(open)}

(***************************************************************************)
(* Events.                                                                 *)
(***************************************************************************)
check_spp_auto_cmd_event(e) == e.kind \in {"shake", "data"}
check_spp_prdy_event(e) == e.kind = "prdy"

\* What reading event e changes in the handler.
i3c_ibi_handler(s, e) ==
    CASE e.kind = "shake" -> [s EXCEPT !.thr[e.dev] = FALSE]
      [] e.kind = "data" /\ s.bulk /\ s.auto[e.dev] > 0 -> [s EXCEPT !.auto[e.dev] = @ - 1]
      [] OTHER -> s

\* send_response refuses a message longer than MAX_DATA_SIZE.
send_response(size) == peer /\ size <= MaxDataSize

\* Operators that send events map a pair of spp and log to another one and
\* the status.
State(s, l, ok) == [spp |-> s, log |-> l, ok |-> ok]

send_bulk_bpk_event(s, l) ==
    LET ok == send_response(s.count)
    IN  State(s, [l EXCEPT !.sent = IF ok THEN @ \o s.packed ELSE @], ok)

\* The bulk response is started afresh: two bytes are its header.
Restarted(s) == [s EXCEPT !.count = 2, !.packed = <<>>]

\* The event is put into the bulk response, its length and device before it.
Saved(s, e) == [s EXCEPT !.count = @ + 2 + e.size, !.packed = Append(@, e)]

\* Mutation: only the bytes are counted.
FullBytes(s, e) == s.count + e.size >= MaxDataSize

Full(s, e) == s.count + e.size >= MaxDataSize \/ Len(s.packed) = IbiMaxCount

Pack(s, l, e) ==
    LET f == IF Full(s, e) THEN send_bulk_bpk_event(s, l) ELSE State(s, l, TRUE)
        t == Saved(IF Full(s, e) THEN Restarted(s) ELSE s, e)
    IN  State(t, [f.log EXCEPT !.over = @ \/ t.count > MaxDataSize], f.ok)

\* Mutation: an event that finds the response full is sent on its own.
send_bpk_event_past(s, l, e) ==
    IF enable /\ check_spp_auto_cmd_event(e) /\ s.count > 0 /\ ~Full(s, e) THEN Pack(s, l, e)
    ELSE LET ok == send_response(e.size + 2)
         IN  State(s, [l EXCEPT !.sent = IF ok THEN Append(@, e) ELSE @], ok)

\* An event goes into the bulk response if there is one, else to the client.
send_bpk_event(s, l, e) ==
    IF enable /\ check_spp_auto_cmd_event(e) /\ s.count > 0 THEN Pack(s, l, e)
    ELSE LET ok == send_response(e.size + 2)
         IN  State(s, [l EXCEPT !.sent = IF ok THEN Append(@, e) ELSE @], ok)

\* An event is read: the oldest one of the device, or, when the driver fails
\* to give it, whatever the buffer holds, at the buffer's length.
Reads(d, stale) ==
    {[e |-> Head(ibis[d]), fault |-> FALSE]}
      \cup (IF raised < MaxEvents
            THEN {[e |-> [id |-> 0, dev |-> d, kind |-> stale, size |-> EventBuffer], fault |-> TRUE]}
            ELSE {})

Consumed(r) ==
    /\ ibis' = IF r.fault THEN ibis ELSE [ibis EXCEPT ![r.e.dev] = Tail(@)]
    /\ raised' = IF r.fault THEN raised + 1 ELSE raised

\* target_event, and sending what it gives.
Passed(r) ==
    LET s == IF r.fault THEN spp ELSE i3c_ibi_handler(spp, r.e)
        l == IF r.fault THEN log ELSE [log EXCEPT !.read = Append(@, r.e)]
    IN  send_bpk_event(s, l, r.e)

(***************************************************************************)
(* Steps of process_spp_message.                                           *)
(***************************************************************************)
\* process_message is done; a message that failed is answered with an error.
Return(s, m, l, ok) ==
    /\ spp' = s
    /\ msg' = [NoMsg EXCEPT !.cmds = 1, !.answers = m.answers + (IF ~ok /\ peer THEN 1 ELSE 0)]
    /\ pc' = "idle"
    /\ wait' = NoWait
    /\ log' = l

GoTo(s, m, l, next) ==
    /\ spp' = s
    /\ msg' = m
    /\ pc' = next
    /\ wait' = NoWait
    /\ log' = l

\* asd_msg_check_spp_ibi (what = "thr") and asd_msg_check_spp_ibi_data are
\* called if there is something to wait for; their status is not looked at.
Await(s, m, l, what, d, next) ==
    IF IF what = "thr" THEN s.thr[d] ELSE s.auto[d] > 0
    THEN /\ pc' = "wait"
         /\ wait' = [NoWait EXCEPT !.addr = d, !.what = what, !.then = next]
         /\ spp' = s
         /\ msg' = m
         /\ log' = l
    ELSE GoTo(s, m, l, next)

\* Mutation: a command that fails in bulk mode fails the message.
EndLoopReporting(s, m, l, ok) ==
    IF s.bulk /\ ok THEN Await(s, m, l, "thr", m.bulkaddr, "tail")
    ELSE LET sent == ok /\ send_response(m.cnt)
         IN  Return([s EXCEPT !.count = 0, !.packed = <<>>, !.bulk = FALSE],
                    [m EXCEPT !.answers = @ + (IF sent THEN 1 ELSE 0)], l, sent)

\* The loop over the commands is left.  In bulk mode the response is out, and
\* the status is forgotten; else the message is answered if it did not fail.
EndLoop(s, m, l, ok) ==
    IF s.bulk THEN Await(s, [NoMsg EXCEPT !.cmds = 1, !.bulkaddr = m.bulkaddr,
                                          !.answers = m.answers], l, "thr", m.bulkaddr, "tail")
    ELSE LET sent == ok /\ send_response(m.cnt)
         IN  Return(s, [m EXCEPT !.answers = @ + (IF sent THEN 1 ELSE 0)], l, sent)

\* A command is done and its answer takes n bytes; the code wrote as far as
\* top into the buffer.
Answered(s, m, n, top, ok) ==
    LET done == [m EXCEPT !.cnt = @ + n]
        l == [log EXCEPT !.over = @ \/ m.cnt + top > MaxDataSize]
    IN  IF m.last \/ ~ok THEN EndLoop(s, done, l, ok)
        ELSE GoTo(s, [done EXCEPT !.kind = "none", !.addr = 0], l, "cmd")

\* Commands.  The loop gives up when the response is full.
Taken(kind, d, last) ==
    [msg EXCEPT !.cmds = @ + 1, !.kind = kind, !.addr = d, !.last = last,
                !.bulkaddr = IF spp.bulk /\ kind # "plain" /\ d \in Devices THEN d ELSE @]

FullResponse ==
    /\ pc = "cmd"
    /\ msg.cnt >= MaxDataSize
    /\ EndLoop(spp, msg, log, FALSE)
    /\ UNCHANGED <<open, enable, peer, ibis, raised>>

Ready == pc = "cmd" /\ msg.cnt < MaxDataSize

\* SPP_SEND, SPP_SEND_CMD and SPP_SEND_RECEIVE_CMD up to the transfer.
Select(kind, d, last) ==
    /\ Ready
    /\ IF d \in open THEN Await(spp, Taken(kind, d, last), log, "thr", d, "send")
       ELSE EndLoop(spp, Taken(kind, d, last), log, FALSE)
    /\ UNCHANGED <<open, enable, peer, ibis, raised>>

\* spp_send notes that a handshake is due before it writes; one of no bytes
\* is refused before that.
spp_send(ok, empty) ==
    LET d == msg.addr
        s == [spp EXCEPT !.thr[d] = TRUE, !.auto[d] = IF spp.bulk THEN (@ + 1) % 256 ELSE @]
    IN  Answered(IF empty THEN spp ELSE s, msg, 4, 4, ok /\ ~empty)

\* SPP_SEND_RECEIVE_CMD: the answer is as long as the client asked for, be it
\* what an opcode read or bytes that were never written (any length from
\* MaxDataSize up is refused).
spp_send_receive_cmd(ok) ==
    \E n \in 0..MaxDataSize, written \in {0, OpcodeLen} :
      IF msg.cnt + 7 + n > MaxDataSize THEN EndLoop(spp, msg, log, FALSE)
      ELSE Answered(spp, msg, IF ok THEN 7 + n ELSE 7, 7 + written, ok)

Transfer ==
    /\ pc = "send"
    /\ \E ok \in BOOLEAN :
         \/ msg.kind = "send" /\ \E empty \in BOOLEAN : spp_send(ok, empty)
         \/ msg.kind = "cmd" /\ Answered(spp, msg, 5, 5, ok)
         \/ msg.kind = "xfer" /\ spp_send_receive_cmd(ok)
    /\ UNCHANGED <<open, enable, peer, ibis, raised>>

\* SPP_RECEIVE: a failure is answered with no bytes and is not an error.
Receive(d, last) ==
    /\ Ready
    /\ IF d \in open
       THEN \E n \in 0..RxLen : Answered(spp, Taken("plain", d, last), 4 + n, 4 + RxLen, TRUE)
       ELSE EndLoop(spp, Taken("plain", d, last), log, FALSE)
    /\ UNCHANGED <<open, enable, peer, ibis, raised>>

\* SPP_SET_SIM_DATA_CMD does nothing but answer; a configuration command is
\* skipped.
IdleCommand(n, last) ==
    /\ Ready
    /\ Answered(spp, Taken("plain", 0, last), n, n, TRUE)
    /\ UNCHANGED <<open, enable, peer, ibis, raised>>

\* An unknown command, one that is cut short, after its device or before, or
\* one whose device is out of range.
BadCommand(d) ==
    /\ Ready
    /\ EndLoop(spp, Taken("bad", d, TRUE), log, FALSE)
    /\ UNCHANGED <<open, enable, peer, ibis, raised>>

\* SPP_BULK: the bulk response is wiped (an event of it becomes event 0), and
\* what was answered so far is sent.
Bulk(last) ==
    /\ Ready
    /\ LET m == [Taken("plain", 0, last) EXCEPT !.cnt = @ + 2]
           s == [spp EXCEPT !.packed = [i \in DOMAIN spp.packed |-> [spp.packed[i] EXCEPT !.id = 0]]]
           l == [log EXCEPT !.over = @ \/ m.cnt > MaxDataSize, !.again = @ \/ spp.bulk]
       IN  IF send_response(m.cnt)
           THEN LET a == [m EXCEPT !.answers = @ + 1]
                    b == [Restarted(s) EXCEPT !.bulk = TRUE]
                IN  IF last THEN EndLoop(b, a, l, TRUE)
                    ELSE GoTo(b, [a EXCEPT !.kind = "none"], l, "cmd")
           ELSE Return(s, m, l, FALSE)
    /\ UNCHANGED <<open, enable, peer, ibis, raised>>

(***************************************************************************)
(* The wait: rounds of poll() and of reading one event from every device   *)
(* that was ready, in the order of their numbers.  A device is ready when  *)
(* it has an event: that its descriptor is in error is not modelled.       *)
(***************************************************************************)
Poll ==
    /\ pc = "wait"
    /\ wait.ready = {}
    /\ LET ready == {d \in Polled : ibis[d] # <<>>}
       IN  /\ ready # {}
           /\ wait' = [wait EXCEPT !.ready = ready]
    /\ UNCHANGED <<open, enable, peer, ibis, raised, spp, pc, msg, log>>

\* Mutation: poll() waits without a limit.
TimesOutNever == FALSE /\ UNCHANGED vars

TimesOut ==
    /\ pc = "wait"
    /\ wait.ready = {}
    /\ \A d \in Polled : ibis[d] = <<>>
    /\ GoTo(spp, msg, log, wait.then)
    /\ UNCHANGED <<open, enable, peer, ibis, raised>>

\* poll() fails, as it does when a signal comes: that is taken for a timeout.
PollFails ==
    /\ pc = "wait"
    /\ wait.ready = {}
    /\ GoTo(spp, msg, log, wait.then)
    /\ UNCHANGED <<open, enable, peer, ibis, raised>>

\* What is waited for is there.
Settled(s) == IF wait.what = "thr" THEN ~s.thr[wait.addr] ELSE s.auto[wait.addr] = 0

\* Mutation: a PRDY is forgotten with the next event.
KeepsOnce(e) == check_spp_prdy_event(e)

\* After a PRDY the wait goes on to the last event.
Keeps(e) == wait.keep \/ check_spp_prdy_event(e)

asd_msg_check_spp_ibi ==
    /\ pc = "wait"
    /\ wait.ready # {}
    /\ LET d == Min(wait.ready)
       IN  \E r \in Reads(d, wait.stale) :
             LET p == Passed(r)
             IN  /\ Consumed(r)
                 /\ IF ~p.ok \/ (Settled(p.spp) /\ ~Keeps(r.e))
                    THEN GoTo(p.spp, msg, p.log, wait.then)
                    ELSE /\ wait' = [wait EXCEPT !.ready = @ \ {d}, !.keep = Keeps(r.e),
                                                 !.stale = r.e.kind]
                         /\ spp' = p.spp
                         /\ log' = p.log
                         /\ UNCHANGED <<pc, msg>>
    /\ UNCHANGED <<open, enable, peer>>

\* The end of a bulk message: the data of the last device is waited for, ...
TailWait ==
    /\ pc = "tail"
    /\ Await(spp, msg, log, "auto", msg.bulkaddr, "settle")
    /\ UNCHANGED <<open, enable, peer, ibis, raised>>

\* Mutation: the response stays open for the next events.
ClosedOpen(s) == [s EXCEPT !.packed = <<>>, !.bulk = FALSE]

Closed(s) == [s EXCEPT !.count = 0, !.packed = <<>>, !.bulk = FALSE]

\* ... and the bulk response is sent and closed.
Settle ==
    /\ pc = "settle"
    /\ LET r == send_bulk_bpk_event(spp, log)
       IN  Return(Closed(r.spp), msg, r.log, r.ok)
    /\ UNCHANGED <<open, enable, peer, ibis, raised>>

(***************************************************************************)
(* Around the messages.                                                    *)
(***************************************************************************)
\* A message of the client: bulk_mode is cleared.
process_spp_message ==
    /\ pc = "idle"
    /\ peer
    /\ log.msgs < MaxMsgs
    /\ GoTo([spp EXCEPT !.bulk = FALSE], NoMsg, [log EXCEPT !.msgs = @ + 1], "cmd")
    /\ UNCHANGED <<open, enable, peer, ibis, raised>>

\* asd_msg_event for a device, between messages.  Its buffer is empty at
\* first.
asd_msg_event(d) ==
    /\ pc = "idle"
    /\ d \in Polled
    /\ ibis[d] # <<>>
    /\ \E r \in Reads(d, "other") :
         LET p == Passed(r)
         IN  /\ Consumed(r)
             /\ spp' = p.spp
             /\ log' = p.log
    /\ UNCHANGED <<open, enable, peer, pc, msg, wait>>

\* AGENT_CONFIGURATION_CMD asking for bulk responses.
EnableBulk ==
    /\ pc \in {"down", "idle"}
    /\ peer
    /\ enable' = TRUE
    /\ UNCHANGED <<open, peer, ibis, raised, spp, pc, msg, wait, log>>

\* REMOTE_SPP_CONFIG_CMD: spp_bus_get_device_map leaves every device closed.
spp_bus_get_device_map ==
    /\ pc \in {"down", "idle"}
    /\ peer
    /\ open' = {}
    /\ UNCHANGED <<enable, peer, ibis, raised, spp, pc, msg, wait, log>>

\* The client's first debug message: spp_initialize opens what devices there
\* are and selects the first one.  That it fails is reported and nothing else.
spp_initialize ==
    /\ pc = "down"
    /\ peer
    /\ open' \in SUBSET Devices
    /\ spp' = NewHandler(spp)
    /\ pc' = "idle"
    /\ UNCHANGED <<enable, peer, ibis, raised, msg, wait, log>>

\* The connection breaks.
PeerLeaves ==
    /\ peer
    /\ peer' = FALSE
    /\ UNCHANGED <<open, enable, ibis, raised, spp, pc, msg, wait, log>>

\* The client is gone: asd_msg_free sends every device a last command and
\* closes it.  Another client comes.
asd_msg_free ==
    /\ pc \in {"idle", "down"}
    /\ ~peer
    /\ open' = {}
    /\ peer' = TRUE
    /\ pc' = "down"
    /\ msg' = NoMsg
    /\ log' = [log EXCEPT !.read = <<>>, !.sent = <<>>]
    /\ ibis' \in {ibis, [d \in Devices |-> <<>>]}
    /\ UNCHANGED <<enable, raised, spp, wait>>

\* A device (external) raises an event.  Events are looked at only where the
\* daemon polls: one raised anywhere else is as good as raised there.
Raise(d, i) ==
    /\ pc \in {"idle", "wait"} /\ wait.ready = {}
    /\ raised < MaxEvents
    /\ raised' = raised + 1
    /\ ibis' = [ibis EXCEPT ![d] = Append(@, [id |-> raised + 1, dev |-> d,
                                              kind |-> i.kind, size |-> i.size])]
    /\ UNCHANGED <<open, enable, peer, spp, pc, msg, wait, log>>

\* Bound: the last command a message may have says so.
Lasts == IF msg.cmds + 1 < MaxCmds THEN BOOLEAN ELSE {TRUE}

Command ==
    \/ FullResponse
    \/ \E last \in Lasts :
         \/ \E kind \in {"send", "cmd", "xfer"}, d \in Devices : Select(kind, d, last)
         \/ \E d \in Devices : Receive(d, last)
         \/ \E n \in {0, 2} : IdleCommand(n, last)
         \/ Bulk(last)
    \/ \E d \in 0..MaxDevices : BadCommand(d)
    \/ Transfer
    \/ TailWait
    \/ Settle

Waiting == Poll \/ TimesOut \/ asd_msg_check_spp_ibi

Init ==
    /\ open = {}
    /\ enable = FALSE
    /\ peer = TRUE
    /\ ibis = [d \in Devices |-> <<>>]
    /\ raised = 0
    /\ spp = [thr |-> [d \in Devices |-> FALSE], auto |-> [d \in Devices |-> 0],
              bulk |-> FALSE, count |-> 0, packed |-> <<>>]
    /\ pc = "down"
    /\ msg = NoMsg
    /\ wait = NoWait
    /\ log = NoLog

Next ==
    \/ Command
    \/ Waiting
    \/ PollFails
    \/ process_spp_message
    \/ \E d \in Devices : asd_msg_event(d)
    \/ EnableBulk
    \/ spp_bus_get_device_map
    \/ spp_initialize
    \/ PeerLeaves
    \/ asd_msg_free
    \/ \E d \in Devices, i \in Ibis : Raise(d, i)

\* The loops of process_spp_message and of the wait run to their ends.
Spec == Init /\ [][Next]_vars /\ WF_vars(Command) /\ WF_vars(Waiting)
-----------------------------------------------------------------------------
TypeOK ==
    /\ open \subseteq Devices
    /\ enable \in BOOLEAN /\ peer \in BOOLEAN
    /\ raised \in 0..MaxEvents
    /\ spp.thr \in [Devices -> BOOLEAN]
    /\ spp.auto \in [Devices -> 0..255]
    /\ Len(spp.packed) <= IbiMaxCount
    /\ pc \in {"down", "idle", "cmd", "send", "wait", "tail", "settle"}
    /\ wait.ready \subseteq {d \in Polled : ibis[d] # <<>>}
    /\ pc = "wait" <=> wait.what # "none"
    /\ wait.keep => pc = "wait"

\* The client's events: those of one device that may be packed keep their
\* order, and so do the others.
Stream(events, d, auto) ==
    FoldLeft(LAMBDA s, e : IF e.id > 0 /\ e.dev = d /\ check_spp_auto_cmd_event(e) = auto
                           THEN Append(s, e) ELSE s,
             <<>>, events)

\* Every event that was read, by whichever of the three readers, is with the
\* client or in the bulk response, once and in the order it was raised in.
\* (Not once a second SPP_BULK cleared the response, a message outgrew its
\* buffer, or the client is gone.)
EventsKept ==
    peer /\ ~log.over /\ ~log.again =>
      \A d \in Devices, auto \in BOOLEAN :
        Stream(log.sent \o spp.packed, d, auto) = Stream(log.read, d, auto)

\* Between messages no bulk response is left open: else the next client's
\* handshakes would be held back.  (Two SPP_BULK commands in a message leave
\* one if the second cannot be answered.)
BulkClosed ==
    pc \in {"idle", "down"} /\ ~log.again => spp.count = 0 /\ spp.packed = <<>>

\* A message is answered once, whatever waits, failures of commands and
\* events came in between.
AnsweredOnce ==
    pc = "idle" /\ peer /\ msg.cmds > 0 /\ ~log.over /\ ~log.again => msg.answers = 1

\* A wait that has met a PRDY does not go back to sending while events are
\* left unread, unless poll() itself fails.
PrdyTrailRead ==
    [][wait.keep /\ pc' # "wait" /\ peer /\ ~log'.over =>
         (\A d \in Polled : ibis[d] = <<>>) \/ PollFails]_vars

\* Every message is processed to its end: no wait lasts longer than the
\* devices go on raising events.  (A wait has no limit of its own.  Each round
\* starts the timeout anew, so events without end keep it for ever, and so
\* does a descriptor in error: the first are MaxEvents here and the second is
\* not modelled.)
MessageEnds == pc = "cmd" ~> pc = "idle"

\* Nothing is written past the end of the response or of the bulk response.
ResponsesFit == ~log.over
=============================================================================
