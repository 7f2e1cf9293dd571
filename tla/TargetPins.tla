----------------------------- MODULE TargetPins -----------------------------
(***************************************************************************)
(* The target handler (target/target_handler.c) as far as pins are         *)
(* concerned, and the power state it gets over D-Bus                       *)
(* (target/dbus_helper.c).                                                 *)
(*                                                                         *)
(* Lines are gpiod lines: the kernel queues an event for every edge a line *)
(* was requested for, and a descriptor is readable while events are        *)
(* queued.  An event says that a pin moved; what the client is told is the *)
(* level read afterwards, which may have moved again.  All levels are      *)
(* logical: TRUE is asserted.                                              *)
(*                                                                         *)
(* The power-good signal of the CPU comes over D-Bus, as it does unless    *)
(* the platform configuration overrides it; a pin overridden to be a line  *)
(* is one of LevelPins.                                                    *)
(***************************************************************************)
EXTENDS Integers, Sequences, FiniteSets, SequencesExt

CONSTANTS
    LevelPins, \* inputs whose level is reported: PLTRST, PWRGD2, PWRGD3
    Signals,   \* the properties a D-Bus signal names, in their order
    MaxLost,   \* bound: lines that are lost in one session
    MaxMoves   \* bound: what the hardware does

Inputs == LevelPins \cup {"PRDY", "XDP"}
Outputs == {"PREQ", "DEBUG_EN"}
Lines == Inputs \cup Outputs

ASSUME PinsAssumption ==
    /\ "PLTRST" \in LevelPins
    /\ LevelPins \cap {"PRDY", "XDP", "PREQ", "DEBUG_EN"} = {}
    /\ \A s \in Signals : \A i \in DOMAIN s : s[i] \in {"state", "other"}
    /\ MaxLost \in Nat
    /\ MaxMoves \in Nat

VARIABLES
    handler,  \* "none", "made" (TargetHandler) or "up" (target_initialize)
    stuck,    \* inputs that stay requested although the handler gave them up
    held,     \* lines the handler has requested: those of type PIN_GPIOD
    asserted, \* outputs that are driven to their active level
    refused,  \* history: outputs left driven by a failing request_input
    queue,    \* events the kernel holds, for each input
    level,    \* of the pins
    cfg,      \* event_cfg
    dbus,     \* power_state, and the signals that wait in the connection
    power,    \* of the chassis
    seen,     \* what the client was told last of the pins and of the power
    prdy,     \* history: PRDY pulses since the line was requested
    hasty,    \* platform_reset of target_wait_PRDY
    pc,       \* where target_event or target_wait_PRDY is
    moves     \* number of things the hardware did

vars == <<handler, stuck, held, asserted, refused, queue, level, cfg, dbus, power, seen, prdy, hasty, pc, moves>>
hardware == <<level, power, moves>>

NoCfg == [break_all |-> FALSE, reset_break |-> FALSE, report_PRDY |-> FALSE]
NoPrdy == [raised |-> 0, reported |-> 0, waited |-> 0]
Idle == [at |-> "idle", pin |-> "none"]
Failed == [at |-> "failed", pin |-> "none"]

\* gpio.read and gpio.write of a line fail once initialize_gpios has made it
\* PIN_NONE.
Works(l) == l \in held

(***************************************************************************)
(* Life cycle.                                                             *)
(***************************************************************************)
\* A client was authenticated.
TargetHandler ==
    /\ handler = "none"
    /\ handler' = "made"
    /\ cfg' = NoCfg
    /\ UNCHANGED <<stuck, held, asserted, refused, queue, dbus, seen, prdy, hasty, pc, hardware>>

\* Mutation: only the connection is given up.
InitFailedKeeping(l) ==
    /\ held' = Lines \ l
    /\ asserted' = (asserted \cap l) \cup ({"DEBUG_EN"} \ l)
    /\ pc' = Failed
    /\ UNCHANGED <<handler, refused, queue, dbus, seen, prdy>>

\* deinitialize_gpios for the lines that were requested, some of them driven:
\* each is released, requested as an input, and given back with its chip.
\* Where that request fails the pin stays as it is driven.
deinitialize_gpios(lines, driven) ==
    \E r \in SUBSET (driven \cap lines) :
      /\ held' = {}
      /\ asserted' = (driven \ lines) \cup r
      /\ refused' = (refused \ lines) \cup r

\* Debug enable may have been asserted by then.  The message that asked for
\* the initialisation fails, and with it the session.
InitFailed(l) ==
    /\ \E d \in SUBSET ({"DEBUG_EN"} \ l) :
         deinitialize_gpios(Lines \ l, (asserted \cap l) \cup d)
    /\ pc' = Failed
    /\ UNCHANGED <<handler, queue, dbus, seen, prdy>>

\* Debug enable is asserted, the power state read and the client told of it
\* and of PWRGD2; how it takes the other pins to be is how they are.  PREQ is
\* requested with its inactive level.
InitDone(l) ==
    /\ handler' = "up"
    /\ held' = Lines \ l
    /\ asserted' = (asserted \cap l) \cup {"DEBUG_EN"}
    /\ refused' = refused \cap l
    /\ UNCHANGED pc
    /\ queue' = [p \in Inputs |-> 0]
    /\ dbus' = [state |-> power, signals |-> <<>>]
    /\ seen' = [pin |-> level, power |-> power]
    /\ prdy' = NoPrdy

\* initialize_gpios makes the lines of l PIN_NONE: those that could not be
\* requested, among them all that are requested already, and inputs that were
\* requested but have no descriptor, which nobody releases any more.
initialize_gpios(l) ==
    /\ stuck \subseteq l
    /\ Cardinality(l) <= MaxLost
    /\ \E s \in SUBSET (l \cap Inputs) : stuck' = stuck \cup s

\* The client's first debug message.  XDP has to be readable, debug enable writable.
target_initialize ==
    /\ handler = "made"
    /\ pc = Idle
    /\ \E l \in SUBSET Lines :
         /\ initialize_gpios(l)
         /\ \/ {"XDP", "DEBUG_EN"} \cap l = {} /\ InitDone(l)
            \/ InitFailed(l)
    /\ UNCHANGED <<cfg, hasty, hardware>>

\* asd_msg_free.  A handler that is not initialised has no lines.
target_deinitialize ==
    /\ handler # "none"
    /\ pc.at \in {"idle", "failed"}
    /\ handler' = "none"
    /\ IF handler = "up" THEN deinitialize_gpios(held, asserted)
       ELSE UNCHANGED <<held, asserted, refused>>
    /\ pc' = Idle
    /\ UNCHANGED <<stuck, queue, cfg, dbus, seen, prdy, hasty, hardware>>

(***************************************************************************)
(* Events.                                                                 *)
(***************************************************************************)
Resting == handler = "up" /\ pc = Idle

\* The lines target_get_fds gives to poll(): PRDY only if it is asked for.  A
\* handler is initialised once, so its inputs with an fd other than -1 are the
\* ones it has requested.
target_get_fds == {p \in Inputs \cap held : p = "PRDY" => cfg.report_PRDY}

\* target_event for a line that is ready: one event is taken off its queue.
\* That may fail, which ends the session.
target_clear_gpio_event(p) ==
    /\ Resting
    /\ p \in target_get_fds
    /\ queue[p] > 0
    /\ \/ queue' = [queue EXCEPT ![p] = @ - 1] /\ pc' = [at |-> "handle", pin |-> p]
       \/ UNCHANGED queue /\ pc' = Failed
    /\ UNCHANGED <<handler, stuck, held, asserted, refused, cfg, dbus, seen, prdy, hasty, hardware>>

\* PREQ is asserted; a write that fails ends the session.
AssertPreq(next) ==
    \/ Works("PREQ") /\ asserted' = asserted \cup {"PREQ"} /\ pc' = next
    \/ UNCHANGED asserted /\ pc' = Failed

\* on_power2_event, on_power3_event and on_platform_reset_event: the level is
\* read, and reported if nothing fails.
on_level_event(p) ==
    /\ pc = [at |-> "handle", pin |-> p]
    /\ IF p = "PLTRST" /\ ~level[p] /\ cfg.reset_break THEN AssertPreq(Idle)
       ELSE UNCHANGED asserted /\ pc' \in {Idle, Failed}
    /\ seen' = IF pc' = Failed THEN seen ELSE [seen EXCEPT !.pin[p] = level[p]]
    /\ UNCHANGED <<handler, stuck, held, refused, queue, cfg, dbus, prdy, hasty, hardware>>

on_prdy_event ==
    /\ pc = [at |-> "handle", pin |-> "PRDY"]
    /\ IF cfg.break_all
       THEN AssertPreq(IF cfg.reset_break THEN Idle ELSE [at |-> "pulse", pin |-> "PREQ"])
       ELSE UNCHANGED asserted /\ pc' = Idle
    /\ prdy' = IF pc'.at = "idle" THEN [prdy EXCEPT !.reported = @ + 1] ELSE prdy
    /\ UNCHANGED <<handler, stuck, held, refused, queue, cfg, dbus, seen, hasty, hardware>>

\* ... and with BreakAll alone PREQ is released after 10 ms, before the event
\* is reported.
ReleasePreq ==
    /\ pc.at = "pulse"
    /\ \/ /\ asserted' = asserted \ {"PREQ"}
          /\ pc' = Idle
          /\ prdy' = [prdy EXCEPT !.reported = @ + 1]
       \/ UNCHANGED <<asserted, prdy>> /\ pc' = Failed
    /\ UNCHANGED <<handler, stuck, held, refused, queue, cfg, dbus, seen, hasty, hardware>>

\* The client is sent an error, and then the event; the status that would
\* end the session is overwritten by that of sending the event.
on_xdp_present_event ==
    /\ pc = [at |-> "handle", pin |-> "XDP"]
    /\ pc' = Idle
    /\ UNCHANGED <<handler, stuck, held, asserted, refused, queue, cfg, dbus, seen, prdy, hasty, hardware>>

\* match_callback: the loop over the properties keeps reading names into the
\* string it has put the state into, which is then compared with Off.
match_callback(state, s) ==
    IF ~Contains(s.props, "state") THEN state
    ELSE IF Last(s.props) = "state" THEN s.state
    ELSE TRUE

\* dbus_process_event handles every signal there is; only a state that is
\* another one in the end is reported.  If sd_bus_process fails on the way,
\* nothing is, and the session ends.
dbus_process_event ==
    /\ Resting
    /\ dbus.signals # <<>>
    /\ \/ LET state == FoldLeft(match_callback, dbus.state, dbus.signals)
          IN  /\ dbus' = [state |-> state, signals |-> <<>>]
              /\ seen' = IF state # dbus.state THEN [seen EXCEPT !.power = state] ELSE seen
              /\ UNCHANGED pc
       \/ /\ \E n \in 0..Len(dbus.signals) :
               dbus' = [state |-> FoldLeft(match_callback, dbus.state, SubSeq(dbus.signals, 1, n)),
                        signals |-> SubSeq(dbus.signals, n + 1, Len(dbus.signals))]
          /\ pc' = Failed
          /\ UNCHANGED seen
    /\ UNCHANGED <<handler, stuck, held, asserted, refused, queue, cfg, prdy, hasty, hardware>>

(***************************************************************************)
(* Commands of the client.                                                 *)
(***************************************************************************)
\* target_write_event_config.  The read that is to get rid of outstanding
\* PRDYs does not take events off the queue of a gpiod line.
target_write_event_config ==
    /\ Resting
    /\ \E f \in DOMAIN cfg, on \in BOOLEAN : cfg' = [cfg EXCEPT ![f] = on]
    /\ UNCHANGED <<handler, stuck, held, asserted, refused, queue, dbus, seen, prdy, hasty, pc, hardware>>

\* target_write of an output pin.
target_write ==
    /\ Resting
    /\ Works("PREQ")
    /\ \E on \in BOOLEAN : asserted' = IF on THEN asserted \cup {"PREQ"} ELSE asserted \ {"PREQ"}
    /\ UNCHANGED <<handler, stuck, held, refused, queue, cfg, dbus, seen, prdy, hasty, pc, hardware>>

\* Mutation: the event that ends the wait stays on the queue.
WaitEndsKeeping ==
    /\ prdy' = [prdy EXCEPT !.waited = @ + (IF queue["PRDY"] > 0 THEN 1 ELSE 0)]
    /\ UNCHANGED queue

\* poll() of target_wait_PRDY has returned: an event is taken off the queue,
\* or there was none, or taking it failed.
WaitEnds ==
    \/ /\ queue["PRDY"] > 0
       /\ queue' = [queue EXCEPT !["PRDY"] = @ - 1]
       /\ prdy' = [prdy EXCEPT !.waited = @ + 1]
    \/ UNCHANGED <<queue, prdy>>

\* target_wait_PRDY: waits, unless the wait before it has met a platform
\* reset.
target_wait_PRDY ==
    /\ Resting
    /\ ~hasty
    /\ pc' = [at |-> "wait", pin |-> "PRDY"]
    /\ UNCHANGED <<handler, stuck, held, asserted, refused, queue, cfg, dbus, seen, prdy, hasty, hardware>>

WaitReturns ==
    /\ \/ pc.at = "wait"
       \/ Resting /\ hasty
    /\ IF Works("PRDY") THEN WaitEnds ELSE UNCHANGED <<queue, prdy>>
    /\ hasty' = IF Works("PLTRST") THEN level["PLTRST"] ELSE hasty
    /\ pc' = Idle
    /\ UNCHANGED <<handler, stuck, held, asserted, refused, cfg, dbus, seen, hardware>>

(***************************************************************************)
(* The hardware (external).                                                *)
(***************************************************************************)
\* Mutation: a line is requested for one of its edges.
EdgesOne(p, to) == to

\* The edges lines are requested for: both, and one of those of PRDY.
Edges(p, to) == p # "PRDY" \/ to

Queued(p, to) ==
    queue' = IF Works(p) /\ Edges(p, to) THEN [queue EXCEPT ![p] = @ + 1] ELSE queue

Moves == moves < MaxMoves /\ moves' = moves + 1

PinMoves(p) ==
    /\ Moves
    /\ level' = [level EXCEPT ![p] = ~@]
    /\ Queued(p, ~level[p])
    /\ UNCHANGED <<handler, stuck, held, asserted, refused, cfg, dbus, power, seen, prdy, hasty, pc>>

\* A pulse on PRDY, or an XDP is plugged or pulled.
PinPulses(p) ==
    /\ Moves
    /\ Queued(p, TRUE)
    /\ prdy' = IF p = "PRDY" /\ Works(p) THEN [prdy EXCEPT !.raised = @ + 1] ELSE prdy
    /\ UNCHANGED <<handler, stuck, held, asserted, refused, level, cfg, dbus, power, seen, hasty, pc>>

\* The chassis is switched on or off, or another of its properties changes.
ChassisChanges(props) ==
    /\ Moves
    /\ power' = IF Contains(props, "state") THEN ~power ELSE power
    /\ dbus' = IF handler = "up"
               THEN [dbus EXCEPT !.signals = Append(@, [state |-> power', props |-> props])]
               ELSE dbus
    /\ UNCHANGED <<handler, stuck, held, asserted, refused, queue, level, cfg, seen, prdy, hasty, pc>>

Init ==
    /\ handler = "none"
    /\ stuck = {}
    /\ held = {}
    /\ asserted = {}
    /\ refused = {}
    /\ queue = [p \in Inputs |-> 0]
    /\ level \in [LevelPins -> BOOLEAN]
    /\ cfg = NoCfg
    /\ power \in BOOLEAN
    /\ dbus = [state |-> power, signals |-> <<>>]
    /\ seen = [pin |-> level, power |-> power]
    /\ prdy = NoPrdy
    /\ hasty = FALSE
    /\ pc = Idle
    /\ moves = 0

Next ==
    \/ TargetHandler
    \/ target_initialize
    \/ target_deinitialize
    \/ \E p \in Inputs : target_clear_gpio_event(p)
    \/ \E p \in LevelPins : on_level_event(p)
    \/ on_prdy_event
    \/ ReleasePreq
    \/ on_xdp_present_event
    \/ dbus_process_event
    \/ target_write_event_config
    \/ target_write
    \/ target_wait_PRDY
    \/ WaitReturns
    \/ \E p \in LevelPins : PinMoves(p)
    \/ \E p \in {"PRDY", "XDP"} : PinPulses(p)
    \/ \E s \in Signals : ChassisChanges(s)

Spec == Init /\ [][Next]_vars
-----------------------------------------------------------------------------
\* A pin whose events have all been handled is as the client was told last,
\* however often it moved between an event and the reading of its level; and
\* so is the power once every signal has been processed.
LevelsReported ==
    Resting =>
      /\ \A p \in LevelPins \cap held : queue[p] = 0 => seen.pin[p] = level[p]
      /\ dbus.signals = <<>> => seen.power = power

\* Every PRDY pulse is reported or ends a wait, and does so once.
PrdyOnce ==
    handler = "up" /\ pc.at # "failed" =>
      prdy.raised = prdy.reported + prdy.waited + queue["PRDY"]
                      + (IF pc = [at |-> "handle", pin |-> "PRDY"] \/ pc.at = "pulse" THEN 1 ELSE 0)

\* While no client debugs, no line of a handler is held, and PREQ and debug
\* enable are driven only if the driver itself refused to make an input of
\* them: deinitialize_gpios has seen to every line, whatever asserted it last,
\* a failed initialisation included.  (An input whose descriptor could not be
\* got is no line of the handler any more, and stays requested.)
PinsReleased ==
    /\ handler # "up" => held = {}
    /\ asserted \subseteq held \cup refused

\* The power the handler has noted is that of the chassis once every signal
\* has been processed.
PowerTracked ==
    handler = "up" /\ dbus.signals = <<>> => dbus.state = power
=============================================================================
