------------------------------ MODULE JtagScan ------------------------------
(***************************************************************************)
(* JTAG messages: process_jtag_message (target/asd_msg.c) takes one        *)
(* command after the other off a packet of bytes, and the JTAG handler     *)
(* (target/jtag_handler.c) turns scans into calls of the JTAG driver that  *)
(* add the padding of the scan chain before the first and after the last   *)
(* bits of a scan.  Where a scan ends is known only by looking ahead in    *)
(* the packet for the command, in hardware mode for the two commands, that *)
(* follow it.                                                              *)
(*                                                                         *)
(* Bytes are the numbers the protocol uses, so an operand may look like a  *)
(* command.  What a scan shifts is abstracted to the order of prefix, data *)
(* and postfix.  The driver and the TAPs behind it (hw) are external: a    *)
(* call that fails leaves the TAP where it was.  Multi-chain selection,    *)
(* which the code reads and ignores, is left out.                          *)
(***************************************************************************)
EXTENDS Integers, Sequences, Functions

CONSTANTS
    MaxScanChains, \* MAX_SCAN_CHAINS
    MaxDataSize,   \* MAX_DATA_SIZE, of the response
    Packets,       \* packets a client may send
    MayFail        \* driver and pin calls may fail

ASSUME JtagScanAssumption ==
    /\ MaxScanChains \in Nat \ {0}
    /\ MaxDataSize \in Nat \ {0}
    /\ Packets \subseteq Seq(0..255)
    /\ <<>> \notin Packets
    /\ MayFail \in BOOLEAN

Chain == 0..(MaxScanChains - 1)

\* enum jtag_states, as the TAP_STATE commands number them.
TapState == 0..15
tlr == 0
rti == 1
sel_dr == 2
shf_dr == 4
ex1_dr == 5
pau_dr == 6
shf_ir == 11
pau_ir == 13
Shift == {shf_dr, shf_ir}
Stable == {rti, pau_dr, pau_ir}

\* A TAP whose state nobody knows: the handler was made afresh without it
\* being reset.
Lost == -1

\* The commands of a packet (include/asd_common.h).
TAP_STATE == 32..47
WRITE_SCAN == 64..127
READ_SCAN == 128..191
READ_WRITE_SCAN == 192..255
READ_STATUS == 8..15
WRITE_PINS == 7
WAIT_CYCLES == {16, 17}
TAP_RESET == 20
\* DR_PREFIX, DR_POSTFIX, IR_PREFIX, IR_POSTFIX
PADDING == 2..5
\* WRITE_EVENT_CONFIG, JTAG_FREQ, PRDY_TIMEOUT, WAIT_PRDY, CLEAR_TIMEOUT,
\* WAIT_SYNC: nothing they do reaches a scan chain.
CONFIG == {0, 1, 6, 18, 19, 25}
SCAN == WRITE_SCAN \cup READ_SCAN \cup READ_WRITE_SCAN

VARIABLES
    hardware_mode, \* asd_cfg.jtag.mode is JTAG_DRIVER_MODE_HARDWARE
    initialized,   \* the handlers are initialised for the current client
    sw_mode,       \* the mode the handler was initialised with
    chains,        \* chains[c]: tap, scan and padding of JTAG_Chain_State
    active,        \* active_chain
    packet,        \* the message being processed; <<>> between messages
    used,          \* bytes taken off it
    response_cnt,  \* bytes of the response so far
    hw,            \* hw[c]: state the TAP of chain c really is in, or Lost
    line,          \* line[c]: driven since that TAP entered Shift; not
                   \* followed once a driver call failed
    finished,      \* history: all that was driven, when a step leaves Shift
    executed,      \* history: where the executed commands of packet start
    lapsed,        \* history: the client broke a rule the code relies on
    faulted        \* history: a driver call failed

msgVars == <<packet, used, response_cnt, executed>>
handlerVars == <<hardware_mode, initialized, sw_mode, chains, active>>
hwVars == <<hw, line, finished>>
historyVars == <<lapsed, faulted>>
vars == <<msgVars, handlerVars, hwVars, historyVars>>

-----------------------------------------------------------------------------
(* The packet. *)

\* get_scan_length: a length of zero stands for 64 bits.
num_of_bits(cmd) == IF cmd % 64 = 0 THEN 64 ELSE cmd % 64
num_of_bytes(cmd) == (num_of_bits(cmd) + 7) \div 8

\* Bytes of operands a command has.
Operands(cmd) ==
    CASE cmd \in {4, 5} -> 2
      [] cmd = 25 -> 4
      [] cmd \in 0..17 \ {4, 5} -> 1
      [] cmd \in WRITE_SCAN \cup READ_WRITE_SCAN -> num_of_bytes(cmd)
      [] OTHER -> 0

\* Bytes of the response a command is answered with.
ResponseSize(cmd) ==
    CASE cmd \in READ_STATUS -> 2
      [] cmd \in READ_SCAN \cup READ_WRITE_SCAN -> 1 + num_of_bytes(cmd)
      [] OTHER -> 0

\* The next command, or -1 when the packet is used up.
Cmd == IF used < Len(packet) THEN packet[used + 1] ELSE -1

\* get_packet_data gets all the operands of the next command.
Complete == used + 1 + Operands(Cmd) <= Len(packet)

\* The first operand of the next command.
Data == packet[used + 2]

Tap == chains[active].tap

-----------------------------------------------------------------------------
(* determine_shift_end_state. *)

\* Operand bytes of the commands the look-ahead expects between two TAP_STATE
\* commands; 0 for all others.
LookOperands(cmd) ==
    CASE cmd \in {0, 1, 2, 3} \cup WAIT_CYCLES -> 1
      [] cmd \in {4, 5} -> 2
      [] OTHER -> 0

\* The loop of hardware mode, begun after p bytes: where it stopped (at) and
\* which byte next_cmd2_ptr points to (ptr, 0 for NULL).
PeekSecond(start) ==
    LET n(p) == LookOperands(packet[p + 1])
        peek[p \in 0..Len(packet)] ==
            IF p = Len(packet) THEN [at |-> p, ptr |-> 0]
            ELSE IF n(p) = 0 THEN [at |-> p + 1, ptr |-> p + 1]
            ELSE IF p + 1 + n(p) > Len(packet) THEN [at |-> p + 1, ptr |-> 0]
            ELSE IF p + 1 + n(p) = Len(packet) THEN [at |-> Len(packet), ptr |-> p + 2]
            ELSE peek[p + 1 + n(p)]
    IN  peek[start]

\* The end state two TAP_STATE commands in a row ask for.
TwoTapStates(first, second) ==
    IF second \in Stable THEN second
    ELSE IF first = ex1_dr /\ second = sel_dr THEN rti
    ELSE first

\* Mutation: only the first byte that was peeked is given back.
determine_shift_end_state_keeps(scans, u) ==
    LET next == packet[u + 1]
        look == PeekSecond(u + 1)
    IN  CASE u = Len(packet) -> [ok |-> TRUE, end |-> Tap, used |-> u]
          [] u < Len(packet) /\ next \in TAP_STATE ->
               [ok   |-> TRUE,
                end  |-> IF /\ hardware_mode
                            /\ look.ptr # 0
                            /\ packet[look.ptr] \in TAP_STATE
                         THEN TwoTapStates(next % 16, packet[look.ptr] % 16)
                         ELSE next % 16,
                used |-> IF hardware_mode THEN look.at - 1 ELSE u]
          [] OTHER -> [ok |-> next \in scans, end |-> Tap, used |-> u]

\* For a scan of the kind scans whose operands end at u.  The bytes peeked are
\* given back, except those of a second command that is cut short by the end
\* of the packet.
determine_shift_end_state(scans, u) ==
    LET next == packet[u + 1]
        look == PeekSecond(u + 1)
    IN  CASE u = Len(packet) -> [ok |-> TRUE, end |-> Tap, used |-> u]
          [] u < Len(packet) /\ next \in TAP_STATE ->
               [ok   |-> TRUE,
                end  |-> IF /\ hardware_mode
                            /\ look.ptr # 0
                            /\ packet[look.ptr] \in TAP_STATE
                         THEN TwoTapStates(next % 16, packet[look.ptr] % 16)
                         ELSE next % 16,
                used |-> IF hardware_mode /\ look.ptr = 0
                         THEN look.at - 1 ELSE u]
          [] OTHER -> [ok |-> next \in scans, end |-> Tap, used |-> u]

-----------------------------------------------------------------------------
(* JTAG_shift. *)

\* The padding of a chain: two registers have some before and behind them.
Kinds == {"dr", "ir"}
Sides == {"pre", "post"}

Kind == IF Tap = shf_ir THEN "ir" ELSE "dr"

\* Mutation: every shift of a scan drives the prefix.
SegmentsAlwaysPre(end) ==
    LET padding == chains[active].padding[Kind]
    IN  (IF padding["pre"] > 0 THEN <<"pre">> ELSE <<>>)
          \o <<"data">>
          \o (IF end # Tap /\ padding["post"] > 0 THEN <<"post">> ELSE <<>>)

\* What one call of JTAG_shift drives: the prefix if the scan begins with it,
\* the postfix if the scan ends with it.
Segments(end) ==
    LET padding == chains[active].padding[Kind]
    IN  (IF chains[active].scan = "Done" /\ padding["pre"] > 0
         THEN <<"pre">> ELSE <<>>)
          \o <<"data">>
          \o (IF end # Tap /\ padding["post"] > 0 THEN <<"post">> ELSE <<>>)

\* Data that follows data is one run of data.
Merge(driven, segments) ==
    IF driven # <<>> /\ driven[Len(driven)] = "data" /\ segments[1] = "data"
    THEN driven \o Tail(segments) ELSE driven \o segments

\* The TAP of the active chain is driven; it was in Shift already, or the
\* driver, in hardware mode, takes it there first.
Driven(segments) ==
    Merge(IF hw[active] = Tap THEN line[active] ELSE <<>>, segments)

\* JTAG_shift returns ST_OK.
ShiftDone(end) ==
    LET driven == IF hw[active] = Lost \/ faulted THEN <<>>
                  ELSE Driven(Segments(end))
    IN  /\ Tap \in Shift
        /\ chains' = [chains EXCEPT
                        ![active].tap = end,
                        ![active].scan = IF end = Tap THEN "Run" ELSE "Done"]
        /\ hw' = [hw EXCEPT ![active] = IF @ = Lost THEN Lost ELSE end]
        /\ line' = [line EXCEPT ![active] = IF end = Tap THEN driven ELSE <<>>]
        /\ finished' = IF end = Tap THEN <<>> ELSE driven
        /\ UNCHANGED historyVars

\* A driver call of JTAG_shift fails, in software mode possibly after the first
\* n segments were driven.  scan_state has changed already.  What was driven is
\* not followed any further.
ShiftFails(end, n) ==
    LET segments == Segments(end)
        closes == end # Tap /\ (~sw_mode \/ chains[active].padding[Kind]["post"] > 0)
    IN  /\ MayFail
        /\ Tap \in Shift
        /\ n < Len(segments)
        /\ ~sw_mode => n = 0
        /\ chains' = [chains EXCEPT
                        ![active].scan =
                          IF closes /\ ~(sw_mode /\ segments[n + 1] = "pre")
                          THEN "Done" ELSE "Run"]
        /\ line' = [c \in Chain |-> <<>>]
        /\ finished' = <<>>
        /\ faulted' = TRUE
        /\ UNCHANGED <<hw, lapsed>>

-----------------------------------------------------------------------------
(* JTAG_set_tap_state and JTAG_wait_cycles. *)

\* Mutation: the TAP state is recorded although the driver failed.
SetTapStateEager(s, ok) ==
    LET asked == sw_mode \/ s = tlr
        moves == asked /\ ok /\ s # hw[active] /\ (s = tlr \/ hw[active] # Lost)
    IN  /\ ok \/ (asked /\ MayFail)
        /\ chains' = [chains EXCEPT ![active].tap = s]
        /\ hw' = IF moves THEN [hw EXCEPT ![active] = s] ELSE hw
        /\ line' = IF ~ok THEN [c \in Chain |-> <<>>]
                   ELSE IF moves THEN [line EXCEPT ![active] = <<>>] ELSE line
        /\ finished' = IF moves THEN line[active] ELSE <<>>
        /\ faulted' = (faulted \/ ~ok)

\* In hardware mode the driver is asked for a reset only.  A reset finds the
\* TAP wherever it is.
SetTapState(s, ok) ==
    LET asked == sw_mode \/ s = tlr
        moves == asked /\ ok /\ s # hw[active] /\ (s = tlr \/ hw[active] # Lost)
    IN  /\ ok \/ (asked /\ MayFail)
        /\ chains' = IF ok THEN [chains EXCEPT ![active].tap = s] ELSE chains
        /\ hw' = IF moves THEN [hw EXCEPT ![active] = s] ELSE hw
        /\ line' = IF ~ok THEN [c \in Chain |-> <<>>]
                   ELSE IF moves THEN [line EXCEPT ![active] = <<>>] ELSE line
        /\ finished' = IF moves THEN line[active] ELSE <<>>
        /\ faulted' = (faulted \/ ~ok)

\* One clock of the TAP with TMS low.
Clock(s) ==
    CASE s \in {tlr, rti, 8, 15} -> rti
      [] s \in {2, 9} -> s + 1
      [] s \in {3, 4, 7} -> shf_dr
      [] s \in {10, 11, 14} -> shf_ir
      [] s \in {5, 6} -> pau_dr
      [] s \in {12, 13} -> pau_ir
      [] s = Lost -> Lost

\* The TAP after n clocks; it comes to rest after two.
Clocks(s, n) == IF n = 1 THEN Clock(s) ELSE Clock(Clock(s))

-----------------------------------------------------------------------------
(* Between messages. *)

FreshChain == [tap |-> tlr, scan |-> "Done",
               padding |-> [k \in Kinds |-> [side \in Sides |-> 0]]]

Init ==
    /\ hardware_mode = FALSE
    /\ initialized = FALSE
    /\ sw_mode = TRUE
    /\ chains = [c \in Chain |-> FreshChain]
    /\ active = 0
    /\ packet = <<>>
    /\ used = 0
    /\ response_cnt = 0
    /\ executed = {}
    /\ hw = [c \in Chain |-> tlr]
    /\ line = [c \in Chain |-> <<>>]
    /\ finished = <<>>
    /\ lapsed = FALSE
    /\ faulted = FALSE

\* AGENT_CONFIG_TYPE_JTAG_SETTINGS, at any time: it changes the configuration
\* and not a handler that is initialised.
AgentConfig(mode) ==
    /\ packet = <<>>
    /\ hardware_mode' = mode
    /\ finished' = <<>>
    /\ UNCHANGED <<msgVars, initialized, sw_mode, chains, active, hw, line,
                   historyVars>>

\* The client leaves and another one takes over: JTAGHandler, and at the first
\* message JTAG_initialize, which resets the TAP of the active chain only.  If
\* that fails no JTAG message is processed, as before it.
JTAG_initialize ==
    /\ packet = <<>>
    /\ initialized' = TRUE
    /\ sw_mode' = ~hardware_mode
    /\ chains' = [c \in Chain |-> FreshChain]
    /\ active' = 0
    /\ hw' = [c \in Chain |-> IF c = 0 \/ hw[c] = tlr THEN tlr ELSE Lost]
    /\ line' = [c \in Chain |-> <<>>]
    /\ finished' = <<>>
    /\ lapsed' = FALSE
    /\ faulted' = FALSE
    /\ UNCHANGED <<msgVars, hardware_mode>>

\* A message that finds the TAP in Shift has to go on with a scan; if not, an
\* error is logged and nothing else happens.
check_shift_state_bundle_start(p) == Tap \in Shift => p[1] \in SCAN

\* process_jtag_message begins.
Receive(p) ==
    /\ packet = <<>>
    /\ initialized
    /\ packet' = p
    /\ used' = 0
    /\ response_cnt' = 0
    /\ executed' = {}
    /\ finished' = <<>>
    /\ lapsed' = (lapsed \/ ~check_shift_state_bundle_start(p))
    /\ UNCHANGED <<handlerVars, hw, line, faulted>>

-----------------------------------------------------------------------------
(* The commands of a message. *)

\* On to the command after u bytes; bytes of response were written.
Proceed(u, bytes) ==
    /\ used' = u
    /\ response_cnt' = response_cnt + bytes
    /\ executed' = executed \cup {used}
    /\ UNCHANGED packet

\* The loop is left, and an error message is sent.
Refuse ==
    /\ packet' = <<>>
    /\ used' = 0
    /\ response_cnt' = 0
    /\ executed' = {}

NoShift == finished' = <<>> /\ UNCHANGED <<hw, line>>

After == used + 1 + Operands(Cmd)

\* A short packet, an unknown command or a call into the target that fails.
BadCommand ==
    /\ packet # <<>>
    /\ used < Len(packet)
    /\ \/ ~Complete
       \/ Cmd \in {21, 22, 23, 24, 26, 27, 28, 29, 30, 31} \cup 48..63
       \/ MayFail /\ Cmd \in CONFIG \cup READ_STATUS \cup WAIT_CYCLES \cup {WRITE_PINS}
    /\ Refuse
    /\ NoShift
    /\ UNCHANGED <<handlerVars, historyVars>>

\* A command that touches no scan chain.
OtherCommand ==
    /\ Cmd \in CONFIG
    /\ Complete
    /\ Proceed(After, 0)
    /\ NoShift
    /\ UNCHANGED <<handlerVars, historyVars>>

\* At most DRMAXPADSIZE or IRMAXPADSIZE bits.
ValidPadding(kind, value) == value <= (IF kind = "dr" THEN 250 ELSE 2000)

JTAG_set_padding(kind, side, value) ==
    chains' = IF ValidPadding(kind, value)
              THEN [chains EXCEPT ![active].padding[kind][side] = value]
              ELSE chains

\* write_cfg of a padding.  The protocol's prefix is the handler's postfix and
\* the other way round.
SetPadding ==
    LET kind == IF Cmd \in {2, 3} THEN "dr" ELSE "ir"
        side == IF Cmd \in {2, 4} THEN "post" ELSE "pre"
        value == IF kind = "dr" THEN Data ELSE Data + 256 * packet[used + 3]
    IN  /\ Cmd \in PADDING
        /\ Complete
        /\ IF ValidPadding(kind, value) THEN Proceed(After, 0) ELSE Refuse
        /\ JTAG_set_padding(kind, side, value)
        /\ NoShift
        /\ UNCHANGED <<hardware_mode, initialized, sw_mode, active, historyVars>>

\* After the reset button is asserted the wait commands that follow are skipped
\* (SKIP_WAIT_CYCLES_DURING_RESET), two bytes at a time; -1 if one is left over.
SkipWaits(start) ==
    LET skip[p \in 0..Len(packet)] ==
            IF p = Len(packet) THEN p
            ELSE IF p + 2 > Len(packet) THEN -1
            ELSE IF packet[p + 1] # 16 THEN p
            ELSE skip[p + 2]
    IN  skip[start]

\* WRITE_PINS on a pin: PWRGOOD and PRDY cannot be written.
WritePin ==
    LET pin == Data % 128
        next == IF pin = 2 /\ Data >= 128 THEN SkipWaits(After) ELSE After
    IN  /\ Cmd = WRITE_PINS
        /\ Complete
        /\ pin < 64 /\ pin # 7
        /\ IF pin \in {1, 2, 3, 4, 5} /\ next # -1
           THEN /\ used' = next
                /\ executed' = executed \cup
                     {p \in used..(next - 1) : (p - used) % 2 = 0}
                /\ UNCHANGED <<packet, response_cnt>>
           ELSE Refuse
        /\ NoShift
        /\ UNCHANGED <<handlerVars, historyVars>>

\* WRITE_PINS on PIN_TCK_MUX_SELECT: the multiplexer moves and the active chain
\* does not, so nobody knows any more what reaches which TAP.
WriteMuxPin ==
    /\ Cmd = WRITE_PINS
    /\ Complete
    /\ Data % 128 = 7
    /\ Proceed(After, 0)
    /\ hw' = [c \in Chain |-> Lost]
    /\ line' = [c \in Chain |-> <<>>]
    /\ finished' = <<>>
    /\ lapsed' = TRUE
    /\ UNCHANGED <<handlerVars, faulted>>

\* The TCK multiplexer and the active chain; what was driven on a chain stays
\* with it.
asd_write_set_active_chain_event(chain) ==
    /\ active' = chain
    /\ UNCHANGED chains

\* WRITE_PINS with SCAN_CHAIN_SELECT.
SelectChain ==
    LET chain == Data % 16
    IN  /\ Cmd = WRITE_PINS
        /\ Complete
        /\ Data % 128 >= 64
        /\ IF chain \in Chain
           THEN asd_write_set_active_chain_event(chain) /\ Proceed(After, 0)
           ELSE Refuse /\ UNCHANGED <<active, chains>>
        /\ NoShift
        /\ UNCHANGED <<hardware_mode, initialized, sw_mode, historyVars>>

\* Mutation: the bytes to come are not counted in.
FitsNow(bytes) ==
    response_cnt < MaxDataSize

\* The response still has room for the bytes to come.
Fits(bytes) ==
    response_cnt + bytes <= MaxDataSize

ReadStatus ==
    /\ Cmd \in READ_STATUS
    /\ Complete
    /\ IF Fits(2) THEN Proceed(After, 2) ELSE Refuse
    /\ NoShift
    /\ UNCHANGED <<handlerVars, historyVars>>

\* "It is the responsibility of the caller" that the TAP is at rest.
JTAG_wait_cycles(number_of_cycles) ==
    hw' = [hw EXCEPT ![active] = Clocks(@, number_of_cycles)]

\* Zero stands for 256 cycles.
WaitCycles ==
    /\ Cmd \in WAIT_CYCLES
    /\ Complete
    /\ Proceed(After, 0)
    /\ JTAG_wait_cycles(IF Data = 0 THEN 256 ELSE Data)
    /\ lapsed' = (lapsed \/ Tap \notin Stable)
    /\ finished' = <<>>
    /\ UNCHANGED <<handlerVars, line, faulted>>

\* TAP_RESET or a TAP_STATE command.  To ask for the Shift state in the middle
\* of a scan is a lapse: the scan that came before took it for its end.
TapCommand ==
    LET s == IF Cmd = TAP_RESET THEN tlr ELSE Cmd % 16
    IN  /\ Cmd \in TAP_STATE \cup {TAP_RESET}
        /\ \E ok \in BOOLEAN :
             /\ SetTapState(s, ok)
             /\ IF ok THEN Proceed(After, 0) ELSE Refuse
        /\ lapsed' = (lapsed \/ (s \in Shift /\ s = Tap
                                   /\ chains[active].scan = "Run"))
        /\ UNCHANGED <<hardware_mode, initialized, sw_mode, active>>

KindOfScan(cmd) ==
    CASE cmd \in WRITE_SCAN -> WRITE_SCAN
      [] cmd \in READ_SCAN -> READ_SCAN
      [] cmd \in READ_WRITE_SCAN -> READ_WRITE_SCAN

\* A scan that is refused before it reaches the driver: no room for the
\* response, an unexpected command behind it, or a TAP that is not in Shift.
ScanRefused ==
    /\ Cmd \in SCAN
    /\ Complete
    /\ \/ ~Fits(ResponseSize(Cmd))
       \/ ~determine_shift_end_state(KindOfScan(Cmd), After).ok
       \/ Tap \notin Shift
    /\ Refuse
    /\ NoShift
    /\ UNCHANGED <<handlerVars, historyVars>>

Scan ==
    LET look == determine_shift_end_state(KindOfScan(Cmd), After)
    IN  /\ Cmd \in SCAN
        /\ Complete
        /\ Fits(ResponseSize(Cmd))
        /\ look.ok
        /\ \/ /\ ShiftDone(look.end)
              /\ Proceed(look.used, ResponseSize(Cmd))
           \/ /\ \E n \in 0..2 : ShiftFails(look.end, n)
              /\ Refuse
        /\ UNCHANGED <<hardware_mode, initialized, sw_mode, active>>

\* Every command is done: the response is sent.
Answer ==
    /\ packet # <<>>
    /\ used = Len(packet)
    /\ Refuse
    /\ NoShift
    /\ UNCHANGED <<handlerVars, historyVars>>

Next ==
    \/ \E mode \in BOOLEAN : AgentConfig(mode)
    \/ JTAG_initialize
    \/ \E p \in Packets : Receive(p)
    \/ BadCommand
    \/ OtherCommand
    \/ SetPadding
    \/ WritePin
    \/ WriteMuxPin
    \/ SelectChain
    \/ ReadStatus
    \/ WaitCycles
    \/ TapCommand
    \/ ScanRefused
    \/ Scan
    \/ Answer

Spec == Init /\ [][Next]_vars

-----------------------------------------------------------------------------
(* Properties. *)

\* Every variable keeps to its range; in particular the packet is never read
\* past its end and the response never outgrows MAX_DATA_SIZE.
TypeOK ==
    /\ hardware_mode \in BOOLEAN /\ initialized \in BOOLEAN /\ sw_mode \in BOOLEAN
    /\ chains \in [Chain -> [tap : TapState, scan : {"Done", "Run"},
                             padding : [Kinds -> [Sides -> Nat]]]]
    /\ active \in Chain
    /\ packet \in Packets \cup {<<>>}
    /\ used \in 0..Len(packet)
    /\ response_cnt \in 0..MaxDataSize
    /\ hw \in [Chain -> TapState \cup {Lost}]
    /\ line \in [Chain -> Seq({"pre", "data", "post"})]
    /\ finished \in Seq({"pre", "data", "post"})
    /\ executed \subseteq 0..(Len(packet) - 1)
    /\ lapsed \in BOOLEAN /\ faulted \in BOOLEAN

\* In software mode the handler knows the state of the TAP it works on, after
\* driver failures too, as long as the client waits only where the TAP rests.
\* The TAP of another chain than the first may be lost to the next client.
TapTracked ==
    sw_mode /\ ~lapsed =>
        \A c \in Chain : hw[c] = chains[c].tap \/ (c # 0 /\ hw[c] = Lost)

\* Every scan drives the prefix of its chain once, its data, and the postfix
\* once, in this order, however it is split into commands and messages, as
\* long as the client goes on with a scan where it left off in Shift (the
\* condition of check_shift_state_bundle_start) and the driver works.
PaddedScan ==
    [][finished' # <<>> /\ ~lapsed' /\ ~faulted' =>
         LET padding == chains[active].padding[Kind]
         IN  finished' = (IF padding["pre"] > 0 THEN <<"pre">> ELSE <<>>)
                           \o <<"data">>
                           \o (IF padding["post"] > 0 THEN <<"post">> ELSE <<>>)]_vars

\* Where the commands of a packet start, from the one at u on.
StartsFrom(p, u) ==
    LET start[v \in 0..Len(p)] ==
            IF v = Len(p) THEN {}
            ELSE {v} \cup (IF v + 1 + Operands(p[v + 1]) > Len(p) THEN {}
                           ELSE start[v + 1 + Operands(p[v + 1])])
    IN  start[u]

Starts(p) == StartsFrom(p, 0)

\* The bytes of response to the command that starts at u.
ResponseTo(p) == [u \in 0..(Len(p) - 1) |-> ResponseSize(p[u + 1])]

\* A message that is answered had each of its commands executed, none skipped
\* or taken for an operand by a look-ahead that was not undone, and has a
\* response of the size they add up to.
AnswerComplete ==
    [][Answer => /\ executed = Starts(packet)
                 /\ response_cnt =
                      SumFunctionOnSet(ResponseTo(packet), Starts(packet))]_vars

-----------------------------------------------------------------------------
(* What the repository says of the look-ahead, where the code does otherwise.*)

\* asd_msg.c: "In hardware mode, we must peek ahead for the next tap state to
\* determine the end state".  A scan ends where a TAP_STATE command of the
\* packet says, or at rest in run-test/idle.
EndStateNamed ==
    [][Scan /\ hw'[active] # hw[active] =>
         hw'[active] \in {rti, chains[active].tap} \cup
            {packet[u + 1] % 16 : u \in {v \in Starts(packet) :
                                           packet[v + 1] \in TAP_STATE}}]_vars
=============================================================================
