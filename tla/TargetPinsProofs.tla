-------------------------- MODULE TargetPinsProofs --------------------------
(***************************************************************************)
(* Proofs about TargetPins, for any level pins, any number of moves of the *)
(* hardware and any interleaving of its moves with events, commands and    *)
(* sessions.                                                               *)
(*                                                                         *)
(* The invariant of the pins says of a pin with no event left, and none in *)
(* hand, that the client knows its level.  The invariant of the power says *)
(* what processing the signals that wait would make of the state noted: it *)
(* needs signals that name the state last, the run PowerSignal has one     *)
(* that does not.                                                          *)
(***************************************************************************)
EXTENDS TargetPins, FiniteRecursion

Handle(p) == [at |-> "handle", pin |-> p]
Pulse == [at |-> "pulse", pin |-> "PREQ"]
Wait == [at |-> "wait", pin |-> "PRDY"]

Places == {Idle, Failed, Pulse, Wait} \cup {Handle(p) : p \in Inputs}

Counts == [raised : Nat, reported : Nat, waited : Nat]

Types ==
    /\ handler \in {"none", "made", "up"}
    /\ held \subseteq Lines
    /\ queue \in [Inputs -> Nat]
    /\ level \in [LevelPins -> BOOLEAN]
    /\ prdy \in Counts
    /\ pc \in Places
    /\ pc \notin {Idle, Failed} => handler = "up"

\* PRDY pulses that are counted once: reported, waited for, queued or in hand.
PrdyCounted ==
    handler = "up" /\ pc # Failed =>
      prdy.raised = prdy.reported + prdy.waited + queue["PRDY"]
                      + (IF pc = Handle("PRDY") \/ pc = Pulse THEN 1 ELSE 0)

\* Pins with no event left and none in hand.
PinsKnown ==
    /\ seen = [pin |-> seen.pin, power |-> seen.power]
    /\ seen.pin \in [LevelPins -> BOOLEAN]
    /\ handler = "up" /\ pc # Failed =>
         \A p \in LevelPins \cap held :
           queue[p] = 0 /\ pc # Handle(p) => seen.pin[p] = level[p]

-----------------------------------------------------------------------------
(* Places. *)

\* The places are different, and told apart as the code does.
LEMMA PlacesDiffer ==
    /\ Idle # Failed /\ Idle # Pulse /\ Idle # Wait /\ Failed # Pulse /\ Failed # Wait /\ Pulse # Wait
    /\ \A p : Handle(p) # Idle /\ Handle(p) # Failed /\ Handle(p) # Pulse /\ Handle(p) # Wait
    /\ \A p, q : Handle(p) = Handle(q) => p = q
    /\ \A x \in Places : /\ x.at = "failed" <=> x = Failed
                         /\ x.at = "idle" <=> x = Idle
                         /\ x.at = "pulse" <=> x = Pulse
                         /\ x.at = "wait" <=> x = Wait
  BY DEF Idle, Failed, Pulse, Wait, Handle, Places

\* The pins whose level is reported are inputs, and not PRDY.
LEMMA LevelInputs ==
    /\ LevelPins \subseteq Inputs
    /\ \A p \in LevelPins : p # "PRDY" /\ p # "XDP" /\ p # "PREQ" /\ p # "DEBUG_EN"
    /\ "PRDY" \in Inputs /\ "XDP" \in Inputs /\ "PREQ" \in Lines /\ "DEBUG_EN" \in Lines
  BY PinsAssumption DEF Inputs, Outputs, Lines

-----------------------------------------------------------------------------
(* The inductive invariant of the pins. *)

Inv == Types /\ PinsReleased /\ PrdyCounted /\ PinsKnown

\* No handler, nothing held.
LEMMA InitInv ==
    ASSUME Init
    PROVE  Inv
  <1>1. Types
    BY DEF Init, Types, Counts, NoPrdy, Places, Lines
  <1>2. PinsReleased /\ PrdyCounted
    BY DEF Init, PinsReleased, PrdyCounted
  <1>3. PinsKnown
    BY DEF Init, PinsKnown
  <1> QED
    BY <1>1, <1>2, <1>3 DEF Inv

\* A client was authenticated: nothing is requested yet.
LEMMA HandlerKeepsInv ==
    ASSUME Inv, TargetHandler
    PROVE  Inv'
  <1>0. Types /\ PinsReleased /\ PrdyCounted /\ PinsKnown
    BY DEF Inv
  <1>1. Types'
    BY <1>0, PlacesDiffer, LevelInputs DEF Types, TargetHandler, hardware
  <1>2. PinsReleased'
    BY <1>0, PlacesDiffer, LevelInputs DEF Types, PinsReleased, TargetHandler, hardware
  <1>3. PrdyCounted'
    BY <1>0, PlacesDiffer, LevelInputs DEF Types, PinsReleased, PrdyCounted, TargetHandler, hardware
  <1>4. PinsKnown'
    BY <1>0, PlacesDiffer, LevelInputs DEF Types, PinsReleased, PinsKnown, TargetHandler, hardware
  <1> QED
    BY <1>1, <1>2, <1>3, <1>4 DEF Inv

\* target_initialize, failed or not.
LEMMA InitializeKeepsInv ==
    ASSUME Inv, target_initialize
    PROVE  Inv'
  <1>0. Types /\ PinsReleased /\ PrdyCounted /\ PinsKnown
    BY DEF Inv
  <1>1. Types'
    BY <1>0, PlacesDiffer, LevelInputs DEF Types, Places, target_initialize, hardware, InitDone,
       InitFailed, deinitialize_gpios, initialize_gpios, Lines, NoPrdy, Counts
  <1>2. PinsReleased'
    BY <1>0, PlacesDiffer, LevelInputs DEF Types, PinsReleased, target_initialize, hardware,
       InitDone, InitFailed, deinitialize_gpios, initialize_gpios, Lines, NoPrdy, Counts
  <1>3. PrdyCounted'
    BY <1>0, PlacesDiffer, LevelInputs DEF Types, PinsReleased, PrdyCounted, target_initialize,
       hardware, InitDone, InitFailed, deinitialize_gpios, initialize_gpios, Lines, NoPrdy, Counts
  <1>4. PinsKnown'
    BY <1>0, PlacesDiffer, LevelInputs DEF Types, PinsReleased, PinsKnown, target_initialize,
       hardware, InitDone, InitFailed, deinitialize_gpios, initialize_gpios, Lines, NoPrdy, Counts
  <1> QED
    BY <1>1, <1>2, <1>3, <1>4 DEF Inv

\* target_deinitialize gives everything back.
LEMMA DeinitializeKeepsInv ==
    ASSUME Inv, target_deinitialize
    PROVE  Inv'
  <1>0. Types /\ PinsReleased /\ PrdyCounted /\ PinsKnown
    BY DEF Inv
  <1>1. Types'
    BY <1>0, PlacesDiffer, LevelInputs DEF Types, target_deinitialize, deinitialize_gpios,
       hardware, Places
  <1>2. PinsReleased'
    BY <1>0, PlacesDiffer, LevelInputs DEF Types, PinsReleased, target_deinitialize,
       deinitialize_gpios, hardware, Places
  <1>3. PrdyCounted'
    BY <1>0, PlacesDiffer, LevelInputs DEF Types, PinsReleased, PrdyCounted,
       target_deinitialize, deinitialize_gpios, hardware, Places
  <1>4. PinsKnown'
    BY <1>0, PlacesDiffer, LevelInputs DEF Types, PinsReleased, PinsKnown, target_deinitialize,
       deinitialize_gpios, hardware, Places
  <1> QED
    BY <1>1, <1>2, <1>3, <1>4 DEF Inv

\* An event is taken in hand.
LEMMA ClearEventKeepsInv ==
    ASSUME Inv, NEW p \in Inputs, target_clear_gpio_event(p)
    PROVE  Inv'
  <1>0. Types /\ PinsReleased /\ PrdyCounted /\ PinsKnown
    BY DEF Inv
  <1>1. /\ handler = "up" /\ pc = Idle /\ p \in held /\ queue[p] > 0
        /\ UNCHANGED <<handler, held, asserted, refused, seen, prdy, level>>
    BY DEF target_clear_gpio_event, Resting, target_get_fds, hardware
  <1>2. CASE queue' = [queue EXCEPT ![p] = @ - 1] /\ pc' = Handle(p)
    <2>1. /\ queue' \in [Inputs -> Nat] /\ queue'[p] = queue[p] - 1
          /\ \A q \in Inputs \ {p} : queue'[q] = queue[q]
      BY <1>0, <1>1, <1>2 DEF Types
    <2>2. Types'
      BY <1>0, <1>1, <1>2, <2>1 DEF Types, Places
    <2>3. PinsReleased'
      BY <1>0, <1>1 DEF PinsReleased
    <2>4. PrdyCounted'
      <3>1. prdy.raised = prdy.reported + prdy.waited + queue["PRDY"] + 0
        BY <1>0, <1>1, PlacesDiffer DEF PrdyCounted
      <3>2. prdy.raised \in Nat /\ prdy.reported \in Nat /\ prdy.waited \in Nat /\ queue["PRDY"] \in Nat
        BY <1>0, LevelInputs DEF Types, Counts
      <3>3. CASE p = "PRDY"
        BY <1>1, <1>2, <2>1, <3>1, <3>2, <3>3 DEF PrdyCounted
      <3>4. CASE p # "PRDY"
        <4>1. queue'["PRDY"] = queue["PRDY"] /\ pc' # Handle("PRDY") /\ pc' # Pulse
          BY <1>2, <2>1, <3>4, LevelInputs, PlacesDiffer
        <4> QED
          BY <1>1, <3>1, <4>1 DEF PrdyCounted
      <3> QED
        BY <3>3, <3>4
    <2>5. PinsKnown'
      <3>1. ASSUME NEW q \in LevelPins \cap held, queue'[q] = 0, pc' # Handle(q)
            PROVE  seen.pin[q] = level[q]
        <4>1. q # p /\ q \in Inputs
          BY <1>2, <3>1, LevelInputs
        <4> QED
          BY <1>0, <1>1, <2>1, <3>1, <4>1, PlacesDiffer DEF PinsKnown
      <3> QED
        BY <1>0, <1>1, <3>1 DEF PinsKnown
    <2> QED
      BY <2>2, <2>3, <2>4, <2>5 DEF Inv
  <1>3. CASE queue' = queue /\ pc' = Failed
    BY <1>0, <1>1, <1>3 DEF Inv, Types, Places, PinsReleased, PrdyCounted, PinsKnown
  <1> QED
    BY <1>2, <1>3 DEF target_clear_gpio_event, Handle

\* A level is read and reported.
LEMMA LevelEventKeepsInv ==
    ASSUME Inv, NEW p \in LevelPins, on_level_event(p)
    PROVE  Inv'
  <1>0. Types /\ PinsReleased /\ PrdyCounted /\ PinsKnown
    BY DEF Inv
  <1>1. Types'
    BY <1>0, PlacesDiffer, LevelInputs DEF Types, on_level_event, hardware, AssertPreq, Works,
       Handle, Places
  <1>2. PinsReleased'
    BY <1>0, PlacesDiffer, LevelInputs DEF Types, PinsReleased, on_level_event, hardware,
       AssertPreq, Works, Handle, Places
  <1>3. PrdyCounted'
    BY <1>0, PlacesDiffer, LevelInputs DEF Types, PinsReleased, PrdyCounted, on_level_event,
       hardware, AssertPreq, Works, Handle, Places
  <1>4. PinsKnown'
    BY <1>0, PlacesDiffer, LevelInputs DEF Types, PinsReleased, PinsKnown, on_level_event,
       hardware, AssertPreq, Works, Handle, Places
  <1> QED
    BY <1>1, <1>2, <1>3, <1>4 DEF Inv

\* A PRDY is reported, or answered with PREQ first.
LEMMA PrdyEventKeepsInv ==
    ASSUME Inv, on_prdy_event
    PROVE  Inv'
  <1>0. Types /\ PinsReleased /\ PrdyCounted /\ PinsKnown
    BY DEF Inv
  <1>1. Types'
    BY <1>0, PlacesDiffer, LevelInputs DEF Types, on_prdy_event, hardware, AssertPreq, Works,
       Pulse, Handle, Counts, Places
  <1>2. PinsReleased'
    BY <1>0, PlacesDiffer, LevelInputs DEF Types, PinsReleased, on_prdy_event, hardware,
       AssertPreq, Works, Pulse, Handle, Counts, Places
  <1>3. PrdyCounted'
    BY <1>0, PlacesDiffer, LevelInputs DEF Types, PinsReleased, PrdyCounted, on_prdy_event,
       hardware, AssertPreq, Works, Pulse, Handle, Counts, Places
  <1>4. PinsKnown'
    BY <1>0, PlacesDiffer, LevelInputs DEF Types, PinsReleased, PinsKnown, on_prdy_event,
       hardware, AssertPreq, Works, Pulse, Handle, Counts, Places
  <1> QED
    BY <1>1, <1>2, <1>3, <1>4 DEF Inv

\* PREQ is released and the PRDY reported.
LEMMA ReleaseKeepsInv ==
    ASSUME Inv, ReleasePreq
    PROVE  Inv'
  <1>0. Types /\ PinsReleased /\ PrdyCounted /\ PinsKnown
    BY DEF Inv
  <1>1. Types'
    BY <1>0, PlacesDiffer, LevelInputs DEF Types, ReleasePreq, hardware, Counts, Places
  <1>2. PinsReleased'
    BY <1>0, PlacesDiffer, LevelInputs DEF Types, PinsReleased, ReleasePreq, hardware, Counts, Places
  <1>3. PrdyCounted'
    BY <1>0, PlacesDiffer, LevelInputs DEF Types, PinsReleased, PrdyCounted, ReleasePreq,
       hardware, Counts, Places
  <1>4. PinsKnown'
    BY <1>0, PlacesDiffer, LevelInputs DEF Types, PinsReleased, PinsKnown, ReleasePreq,
       hardware, Counts, Places
  <1> QED
    BY <1>1, <1>2, <1>3, <1>4 DEF Inv

\* XDP events change nothing.
LEMMA XdpEventKeepsInv ==
    ASSUME Inv, on_xdp_present_event
    PROVE  Inv'
  <1>0. Types /\ PinsReleased /\ PrdyCounted /\ PinsKnown
    BY DEF Inv
  <1>1. Types'
    BY <1>0, PlacesDiffer, LevelInputs DEF Types, on_xdp_present_event, hardware, Handle, Places
  <1>2. PinsReleased'
    BY <1>0, PlacesDiffer, LevelInputs DEF Types, PinsReleased, on_xdp_present_event, hardware,
       Handle, Places
  <1>3. PrdyCounted'
    BY <1>0, PlacesDiffer, LevelInputs DEF Types, PinsReleased, PrdyCounted,
       on_xdp_present_event, hardware, Handle, Places
  <1>4. PinsKnown'
    BY <1>0, PlacesDiffer, LevelInputs DEF Types, PinsReleased, PinsKnown, on_xdp_present_event,
       hardware, Handle, Places
  <1> QED
    BY <1>1, <1>2, <1>3, <1>4 DEF Inv

\* A signal touches no pin.
LEMMA DbusKeepsInv ==
    ASSUME Inv, dbus_process_event
    PROVE  Inv'
  <1>0. Types /\ PinsReleased /\ PrdyCounted /\ PinsKnown
    BY DEF Inv
  <1>1. Types'
    BY <1>0, PlacesDiffer, LevelInputs DEF Types, dbus_process_event, hardware, Resting, Places
  <1>2. PinsReleased'
    BY <1>0, PlacesDiffer, LevelInputs DEF Types, PinsReleased, dbus_process_event, hardware,
       Resting, Places
  <1>3. PrdyCounted'
    BY <1>0, PlacesDiffer, LevelInputs DEF Types, PinsReleased, PrdyCounted, dbus_process_event,
       hardware, Resting, Places
  <1>4. PinsKnown'
    BY <1>0, PlacesDiffer, LevelInputs DEF Types, PinsReleased, PinsKnown, dbus_process_event,
       hardware, Resting, Places
  <1> QED
    BY <1>1, <1>2, <1>3, <1>4 DEF Inv

\* Nor does the event configuration.
LEMMA ConfigKeepsInv ==
    ASSUME Inv, target_write_event_config
    PROVE  Inv'
  <1>0. Types /\ PinsReleased /\ PrdyCounted /\ PinsKnown
    BY DEF Inv
  <1>1. Types'
    BY <1>0, PlacesDiffer, LevelInputs DEF Types, target_write_event_config, hardware, Resting
  <1>2. PinsReleased'
    BY <1>0, PlacesDiffer, LevelInputs DEF Types, PinsReleased, target_write_event_config,
       hardware, Resting
  <1>3. PrdyCounted'
    BY <1>0, PlacesDiffer, LevelInputs DEF Types, PinsReleased, PrdyCounted,
       target_write_event_config, hardware, Resting
  <1>4. PinsKnown'
    BY <1>0, PlacesDiffer, LevelInputs DEF Types, PinsReleased, PinsKnown,
       target_write_event_config, hardware, Resting
  <1> QED
    BY <1>1, <1>2, <1>3, <1>4 DEF Inv

\* PREQ is written by the client.
LEMMA WriteKeepsInv ==
    ASSUME Inv, target_write
    PROVE  Inv'
  <1>0. Types /\ PinsReleased /\ PrdyCounted /\ PinsKnown
    BY DEF Inv
  <1>1. Types'
    BY <1>0, PlacesDiffer, LevelInputs DEF Types, target_write, hardware, Resting, Works
  <1>2. PinsReleased'
    BY <1>0, PlacesDiffer, LevelInputs DEF Types, PinsReleased, target_write, hardware, Resting, Works
  <1>3. PrdyCounted'
    BY <1>0, PlacesDiffer, LevelInputs DEF Types, PinsReleased, PrdyCounted, target_write,
       hardware, Resting, Works
  <1>4. PinsKnown'
    BY <1>0, PlacesDiffer, LevelInputs DEF Types, PinsReleased, PinsKnown, target_write,
       hardware, Resting, Works
  <1> QED
    BY <1>1, <1>2, <1>3, <1>4 DEF Inv

\* A wait begins.
LEMMA WaitKeepsInv ==
    ASSUME Inv, target_wait_PRDY
    PROVE  Inv'
  <1>0. Types /\ PinsReleased /\ PrdyCounted /\ PinsKnown
    BY DEF Inv
  <1>1. Types'
    BY <1>0, PlacesDiffer, LevelInputs DEF Types, target_wait_PRDY, hardware, Resting, Wait, Places
  <1>2. PinsReleased'
    BY <1>0, PlacesDiffer, LevelInputs DEF Types, PinsReleased, target_wait_PRDY, hardware,
       Resting, Wait, Places
  <1>3. PrdyCounted'
    BY <1>0, PlacesDiffer, LevelInputs DEF Types, PinsReleased, PrdyCounted, target_wait_PRDY,
       hardware, Resting, Wait, Places
  <1>4. PinsKnown'
    BY <1>0, PlacesDiffer, LevelInputs DEF Types, PinsReleased, PinsKnown, target_wait_PRDY,
       hardware, Resting, Wait, Places
  <1> QED
    BY <1>1, <1>2, <1>3, <1>4 DEF Inv

\* A wait ends, with a PRDY or without.
LEMMA WaitReturnsKeepsInv ==
    ASSUME Inv, WaitReturns
    PROVE  Inv'
  <1>0. Types /\ PinsReleased /\ PrdyCounted /\ PinsKnown
    BY DEF Inv
  <1>1. Types'
    BY <1>0, PlacesDiffer, LevelInputs DEF Types, WaitReturns, hardware, Resting, Works,
       WaitEnds, Counts, Places
  <1>2. PinsReleased'
    BY <1>0, PlacesDiffer, LevelInputs DEF Types, PinsReleased, WaitReturns, hardware, Resting,
       Works, WaitEnds, Counts, Places
  <1>3. PrdyCounted'
    BY <1>0, PlacesDiffer, LevelInputs DEF Types, PinsReleased, PrdyCounted, WaitReturns,
       hardware, Resting, Works, WaitEnds, Counts, Places
  <1>4. PinsKnown'
    BY <1>0, PlacesDiffer, LevelInputs DEF Types, PinsReleased, PinsKnown, WaitReturns,
       hardware, Resting, Works, WaitEnds, Counts, Places
  <1> QED
    BY <1>1, <1>2, <1>3, <1>4 DEF Inv

\* A level pin moves.
LEMMA MoveKeepsInv ==
    ASSUME Inv, NEW p \in LevelPins, PinMoves(p)
    PROVE  Inv'
  <1>0. Types /\ PinsReleased /\ PrdyCounted /\ PinsKnown
    BY DEF Inv
  <1>1. Types'
    BY <1>0, PlacesDiffer, LevelInputs DEF Types, PinMoves, hardware, Moves, Queued, Works, Edges
  <1>2. PinsReleased'
    BY <1>0, PlacesDiffer, LevelInputs DEF Types, PinsReleased, PinMoves, hardware, Moves,
       Queued, Works, Edges
  <1>3. PrdyCounted'
    BY <1>0, PlacesDiffer, LevelInputs DEF Types, PinsReleased, PrdyCounted, PinMoves, hardware,
       Moves, Queued, Works, Edges
  <1>4. PinsKnown'
    BY <1>0, PlacesDiffer, LevelInputs DEF Types, PinsReleased, PinsKnown, PinMoves, hardware,
       Moves, Queued, Works, Edges
  <1> QED
    BY <1>1, <1>2, <1>3, <1>4 DEF Inv

\* PRDY or XDP pulses.
LEMMA PulseKeepsInv ==
    ASSUME Inv, NEW p \in {"PRDY", "XDP"}, PinPulses(p)
    PROVE  Inv'
  <1>0. Types /\ PinsReleased /\ PrdyCounted /\ PinsKnown
    BY DEF Inv
  <1>1. Types'
    BY <1>0, PlacesDiffer, LevelInputs DEF Types, PinPulses, hardware, Moves, Queued, Works,
       Edges, Counts
  <1>2. PinsReleased'
    BY <1>0, PlacesDiffer, LevelInputs DEF Types, PinsReleased, PinPulses, hardware, Moves,
       Queued, Works, Edges, Counts
  <1>3. PrdyCounted'
    BY <1>0, PlacesDiffer, LevelInputs DEF Types, PinsReleased, PrdyCounted, PinPulses,
       hardware, Moves, Queued, Works, Edges, Counts
  <1>4. PinsKnown'
    BY <1>0, PlacesDiffer, LevelInputs DEF Types, PinsReleased, PinsKnown, PinPulses, hardware,
       Moves, Queued, Works, Edges, Counts
  <1> QED
    BY <1>1, <1>2, <1>3, <1>4 DEF Inv

\* The chassis changes.
LEMMA ChassisKeepsInv ==
    ASSUME Inv, NEW s \in Signals, ChassisChanges(s)
    PROVE  Inv'
  <1>0. Types /\ PinsReleased /\ PrdyCounted /\ PinsKnown
    BY DEF Inv
  <1>1. Types'
    BY <1>0, PlacesDiffer, LevelInputs DEF Types, ChassisChanges, hardware, Moves
  <1>2. PinsReleased'
    BY <1>0, PlacesDiffer, LevelInputs DEF Types, PinsReleased, ChassisChanges, hardware, Moves
  <1>3. PrdyCounted'
    BY <1>0, PlacesDiffer, LevelInputs DEF Types, PinsReleased, PrdyCounted, ChassisChanges,
       hardware, Moves
  <1>4. PinsKnown'
    BY <1>0, PlacesDiffer, LevelInputs DEF Types, PinsReleased, PinsKnown, ChassisChanges,
       hardware, Moves
  <1> QED
    BY <1>1, <1>2, <1>3, <1>4 DEF Inv

\* Every step keeps what is said of the pins.
LEMMA NextKeepsInv == Inv /\ [Next]_vars => Inv'
  <1> SUFFICES ASSUME Inv, [Next]_vars PROVE Inv'
    OBVIOUS
  <1>1. CASE TargetHandler
    BY <1>1, HandlerKeepsInv
  <1>2. CASE target_initialize
    BY <1>2, InitializeKeepsInv
  <1>3. CASE target_deinitialize
    BY <1>3, DeinitializeKeepsInv
  <1>4. ASSUME NEW p \in Inputs, target_clear_gpio_event(p) PROVE Inv'
    BY <1>4, ClearEventKeepsInv
  <1>5. ASSUME NEW p \in LevelPins, on_level_event(p) PROVE Inv'
    BY <1>5, LevelEventKeepsInv
  <1>6. CASE on_prdy_event
    BY <1>6, PrdyEventKeepsInv
  <1>7. CASE ReleasePreq
    BY <1>7, ReleaseKeepsInv
  <1>8. CASE on_xdp_present_event
    BY <1>8, XdpEventKeepsInv
  <1>9. CASE dbus_process_event
    BY <1>9, DbusKeepsInv
  <1>10. CASE target_write_event_config
    BY <1>10, ConfigKeepsInv
  <1>11. CASE target_write
    BY <1>11, WriteKeepsInv
  <1>12. CASE target_wait_PRDY
    BY <1>12, WaitKeepsInv
  <1>13. CASE WaitReturns
    BY <1>13, WaitReturnsKeepsInv
  <1>14. ASSUME NEW p \in LevelPins, PinMoves(p) PROVE Inv'
    BY <1>14, MoveKeepsInv
  <1>15. ASSUME NEW p \in {"PRDY", "XDP"}, PinPulses(p) PROVE Inv'
    BY <1>15, PulseKeepsInv
  <1>16. ASSUME NEW s \in Signals, ChassisChanges(s) PROVE Inv'
    BY <1>16, ChassisKeepsInv
  <1>17. CASE UNCHANGED vars
    BY <1>17 DEF vars, Inv, Types, PinsReleased, PrdyCounted, PinsKnown
  <1> QED
    BY <1>1, <1>2, <1>3, <1>4, <1>5, <1>6, <1>7, <1>8, <1>9, <1>10, <1>11, <1>12, <1>13,
       <1>14, <1>15, <1>16, <1>17 DEF Next

\* What is said of the pins holds in every session.
THEOREM PinInvariance == Spec => []Inv
  BY InitInv, NextKeepsInv, PTL DEF Spec

\* While no client debugs, no line of a handler is held, and PREQ and debug
\* enable are driven only where the driver refused to make inputs of them
\* (deinitialize_gpios, target_initialize, target_deinitialize).
THEOREM PinsAreReleased == Spec => []PinsReleased
  <1>1. Inv => PinsReleased
    BY DEF Inv
  <1> QED
    BY <1>1, PinInvariance, PTL

\* Every PRDY pulse is reported (on_prdy_event) or ends a wait
\* (target_wait_PRDY), and does so once.
THEOREM PrdyIsCountedOnce == Spec => []PrdyOnce
  <1>1. Inv => PrdyOnce
    <2>1. Inv => (pc.at = "failed" <=> pc = Failed) /\ (pc.at = "pulse" <=> pc = Pulse)
      BY PlacesDiffer DEF Inv, Types
    <2> QED
      BY <2>1 DEF Inv, PrdyCounted, PrdyOnce, Handle
  <1> QED
    BY <1>1, PinInvariance, PTL

-----------------------------------------------------------------------------
(* Signals. *)

Signal == [state : BOOLEAN, props : Signals]

\* A signal that names the state names it last.
StateLast == \A s \in Signals : Contains(s, "state") => Last(s) = "state"

\* Processing the signals makes "to" of the state "from".
Leads(from, signals, to) ==
    \E g \in [0..Len(signals) -> BOOLEAN] :
        /\ g[0] = from
        /\ g[Len(signals)] = to
        /\ \A i \in 1..Len(signals) : g[i] = match_callback(g[i - 1], signals[i])

\* match_callback yields a state.
LEMMA CallbackType ==
    ASSUME NEW v \in BOOLEAN, NEW s \in Signal
    PROVE  match_callback(v, s) \in BOOLEAN
  <1>1. s.state \in BOOLEAN
    BY DEF Signal
  <1> QED
    BY <1>1 DEF match_callback

\* The fold of dbus_process_event is what match_callback makes of the signals
\* one after the other.
LEMMA FoldSignals ==
    ASSUME NEW from \in BOOLEAN, NEW signals \in Seq(Signal), NEW to, Leads(from, signals, to)
    PROVE  FoldLeft(match_callback, from, signals) = to
  <1> DEFINE n == Len(signals)
             D == 1..n
             Def(f) == [s \in SUBSET D |->
                          IF s = {} THEN from
                          ELSE match_callback(f[s \ {Greatest(s)}], signals[Greatest(s)])]
             iter == CHOOSE f : f = Def(f)
             h == [i \in D |-> [v \in BOOLEAN |-> match_callback(v, signals[i])]]
  <1>0. n \in Nat /\ DOMAIN signals = D /\ \A i \in D : signals[i] \in Signal
    OBVIOUS
  <1>1. FoldLeft(match_callback, from, signals) = iter[D]
    BY <1>0 DEF FoldLeft, MapThenFoldSet, Max, Greatest
  <1>2. h \in [D -> [BOOLEAN -> BOOLEAN]]
    BY <1>0, CallbackType
  <1>3. \A s \in SUBSET D : s # {} => Greatest(s) \in s /\ Greatest(s) \in D
    BY <1>0, GreatestNumber
  <1>4. \E f : f = Def(f)
    <2>1. FoldExists(n, BOOLEAN, from, h)
      <3> HIDE DEF h, n
      <3> QED
        BY <1>0, <1>2, FoldRecursion
    <2>2. PICK f \in [SUBSET D -> BOOLEAN] :
            \A s \in SUBSET D :
               f[s] = IF s = {} THEN from ELSE h[Greatest(s)][f[s \ {Greatest(s)}]]
      <3> HIDE DEF h, n
      <3> QED
        BY <2>1 DEF FoldExists
    <2>3. ASSUME NEW s \in SUBSET D, s # {}
          PROVE  h[Greatest(s)][f[s \ {Greatest(s)}]]
                   = match_callback(f[s \ {Greatest(s)}], signals[Greatest(s)])
      <3>1. Greatest(s) \in D /\ f[s \ {Greatest(s)}] \in BOOLEAN
        BY <1>3, <2>3
      <3> QED
        BY <3>1
    <2>4. f = Def(f)
      <3> HIDE DEF h, D
      <3> QED
        BY <2>2, <2>3
    <2> QED
      BY <2>4
  <1>5. iter = Def(iter)
    <2> HIDE DEF Def
    <2> QED
      BY <1>4
  <1> HIDE DEF iter
  <1>6. IsFold(iter, n, BOOLEAN, from, h)
    <2>1. \A s \in SUBSET D : Def(iter)[s] = IF s = {} THEN from
              ELSE match_callback(iter[s \ {Greatest(s)}], signals[Greatest(s)])
      OBVIOUS
    <2> HIDE DEF Def
    <2>2. iter[{}] = from
      BY <1>5, <2>1
    <2>3. ASSUME NEW s \in SUBSET D, s # {}, iter[s \ {Greatest(s)}] \in BOOLEAN
          PROVE  iter[s] = h[Greatest(s)][iter[s \ {Greatest(s)}]]
      <3>1. iter[s] = match_callback(iter[s \ {Greatest(s)}], signals[Greatest(s)])
        BY <1>5, <2>1, <2>3
      <3>2. h[Greatest(s)][iter[s \ {Greatest(s)}]]
              = match_callback(iter[s \ {Greatest(s)}], signals[Greatest(s)])
        BY <1>3, <2>3
      <3> QED
        BY <3>1, <3>2
    <2> HIDE DEF h, n
    <2> QED
      BY <2>2, <2>3 DEF IsFold
  <1> HIDE DEF Def
  <1>7. PICK g \in [0..n -> BOOLEAN] :
          /\ g[0] = from
          /\ g[n] = to
          /\ \A i \in 1..n : g[i] = match_callback(g[i - 1], signals[i])
    BY DEF Leads
  <1>8. IsRun(g, n, BOOLEAN, from, h)
    <2>1. ASSUME NEW i \in 1..n
          PROVE  g[i] = h[i][g[i - 1]]
      <3>1. g[i - 1] \in BOOLEAN
        BY <1>0
      <3>2. h[i][g[i - 1]] = match_callback(g[i - 1], signals[i])
        BY <3>1
      <3> QED
        BY <1>7, <3>2
    <2> HIDE DEF h, n
    <2> QED
      BY <1>7, <2>1 DEF IsRun
  <1> HIDE DEF h, n
  <1>9. iter[1..n] = g[n]
    BY <1>0, <1>6, <1>8, FoldIsRun
  <1> QED
    BY <1>1, <1>7, <1>9

\* No signal changes nothing.
LEMMA LeadsNowhere ==
    ASSUME NEW v \in BOOLEAN
    PROVE  <<>> \in Seq(Signal) /\ Leads(v, <<>>, v)
  <1> DEFINE g == [i \in 0..0 |-> v]
  <1>1. Len(<<>>) = 0 /\ g \in [0..0 -> BOOLEAN] /\ g[0] = v
    OBVIOUS
  <1> HIDE DEF g
  <1> QED
    BY <1>1 DEF Leads

\* With nothing to process the state stays.
LEMMA LeadsOfNone ==
    ASSUME NEW from, NEW to, Leads(from, <<>>, to)
    PROVE  from = to
  <1>1. Len(<<>>) = 0
    OBVIOUS
  <1> QED
    BY <1>1 DEF Leads

\* Another signal arrives.
LEMMA LeadsOn ==
    ASSUME NEW from, NEW signals \in Seq(Signal), NEW to, Leads(from, signals, to), NEW s \in Signal
    PROVE  /\ Append(signals, s) \in Seq(Signal)
           /\ Leads(from, Append(signals, s), match_callback(to, s))
  <1>1. PICK g \in [0..Len(signals) -> BOOLEAN] :
          /\ g[0] = from
          /\ g[Len(signals)] = to
          /\ \A i \in 1..Len(signals) : g[i] = match_callback(g[i - 1], signals[i])
    BY DEF Leads
  <1> DEFINE more == Append(signals, s)
             end == match_callback(to, s)
             k == [i \in 0..Len(more) |-> IF i <= Len(signals) THEN g[i] ELSE end]
  <1>2. /\ Len(signals) \in Nat /\ more \in Seq(Signal) /\ Len(more) = Len(signals) + 1
        /\ \A i \in 1..Len(signals) : more[i] = signals[i]
        /\ more[Len(signals) + 1] = s
    OBVIOUS
  <1>3. to \in BOOLEAN
    BY <1>1, <1>2
  <1>4. end \in BOOLEAN
    BY <1>3, CallbackType
  <1> HIDE DEF more
  <1>5. k \in [0..Len(more) -> BOOLEAN] /\ k[0] = from /\ k[Len(more)] = end
    <2> HIDE DEF end
    <2> QED
      BY <1>1, <1>2, <1>4
  <1>6. ASSUME NEW i \in 1..Len(more)
        PROVE  k[i] = match_callback(k[i - 1], more[i])
    <2>1. CASE i \in 1..Len(signals)
      <3>1. k[i] = g[i] /\ k[i - 1] = g[i - 1] /\ more[i] = signals[i]
        BY <1>2, <2>1
      <3> QED
        BY <1>1, <2>1, <3>1
    <2>2. CASE i \notin 1..Len(signals)
      <3>1. i = Len(more) /\ i = Len(signals) + 1 /\ i - 1 = Len(signals) /\ i - 1 \in 0..Len(more)
        BY <1>2, <2>2
      <3>2. k[i - 1] = to /\ more[i] = s
        BY <1>1, <1>2, <3>1
      <3> QED
        BY <1>5, <3>1, <3>2
    <2> QED
      BY <2>1, <2>2
  <1> HIDE DEF k
  <1>7. Leads(from, more, end)
    <2> HIDE DEF end
    <2> QED
      BY <1>5, <1>6 DEF Leads
  <1> QED
    BY <1>2, <1>7 DEF more

-----------------------------------------------------------------------------
(* The inductive invariant of the power. *)

\* The client knows the state noted, and the signals that wait lead from it to
\* the state of the chassis.
PowerKnown ==
    /\ power \in BOOLEAN
    /\ seen = [pin |-> seen.pin, power |-> seen.power]
    /\ dbus = [state |-> dbus.state, signals |-> dbus.signals]
    /\ dbus.state \in BOOLEAN
    /\ dbus.signals \in Seq(Signal)
    /\ handler = "up" => /\ pc # Failed => seen.power = dbus.state
                         /\ Leads(dbus.state, dbus.signals, power)

\* The state is that of the chassis when the daemon starts.
LEMMA InitPower ==
    ASSUME Init
    PROVE  PowerKnown
  BY LeadsNowhere DEF Init, PowerKnown

\* target_initialize reads the state.
LEMMA InitializePower ==
    ASSUME PowerKnown, target_initialize
    PROVE  PowerKnown'
  <1>1. power' = power /\ power \in BOOLEAN
    BY DEF target_initialize, hardware, PowerKnown
  <1>2. CASE \E l \in SUBSET Lines : InitDone(l)
    <2>1. /\ dbus' = [state |-> power, signals |-> <<>>]
          /\ seen' = [pin |-> level, power |-> power]
      BY <1>2 DEF InitDone
    <2> QED
      BY <1>1, <2>1, LeadsNowhere DEF PowerKnown
  <1>3. CASE \E l \in SUBSET Lines : InitFailed(l)
    BY <1>1, <1>3 DEF InitFailed, PowerKnown
  <1> QED
    BY <1>2, <1>3 DEF target_initialize

\* Some of the signals are processed: the others lead on from where they led.
LEMMA LeadsSplit ==
    ASSUME NEW from, NEW signals \in Seq(Signal), NEW to, Leads(from, signals, to),
           NEW n \in 0..Len(signals)
    PROVE  LET done == SubSeq(signals, 1, n)
               left == SubSeq(signals, n + 1, Len(signals))
           IN  /\ done \in Seq(Signal) /\ left \in Seq(Signal)
               /\ \E mid \in BOOLEAN : Leads(from, done, mid) /\ Leads(mid, left, to)
  <1> DEFINE done == SubSeq(signals, 1, n)
             left == SubSeq(signals, n + 1, Len(signals))
  <1>1. PICK g \in [0..Len(signals) -> BOOLEAN] :
          /\ g[0] = from
          /\ g[Len(signals)] = to
          /\ \A i \in 1..Len(signals) : g[i] = match_callback(g[i - 1], signals[i])
    BY DEF Leads
  <1>2. /\ Len(signals) \in Nat /\ n \in Nat /\ n <= Len(signals)
        /\ done \in Seq(Signal) /\ Len(done) = n
        /\ \A i \in 1..n : done[i] = signals[i]
        /\ left \in Seq(Signal) /\ Len(left) = Len(signals) - n
        /\ \A i \in 1..Len(left) : left[i] = signals[n + i]
    OBVIOUS
  <1> HIDE DEF done, left
  <1>3. g[n] \in BOOLEAN
    BY <1>2
  <1>4. Leads(from, done, g[n])
    <2> DEFINE a == [i \in 0..Len(done) |-> g[i]]
    <2>1. a \in [0..Len(done) -> BOOLEAN] /\ a[0] = from /\ a[Len(done)] = g[n]
      BY <1>1, <1>2
    <2>2. ASSUME NEW i \in 1..Len(done)
          PROVE  a[i] = match_callback(a[i - 1], done[i])
      <3>1. a[i] = g[i] /\ a[i - 1] = g[i - 1] /\ done[i] = signals[i] /\ i \in 1..Len(signals)
        BY <1>2
      <3> QED
        BY <1>1, <3>1
    <2> HIDE DEF a
    <2> QED
      BY <2>1, <2>2 DEF Leads
  <1>5. Leads(g[n], left, to)
    <2> DEFINE b == [i \in 0..Len(left) |-> g[n + i]]
    <2>1. b \in [0..Len(left) -> BOOLEAN] /\ b[0] = g[n] /\ b[Len(left)] = to
      BY <1>1, <1>2
    <2>2. ASSUME NEW i \in 1..Len(left)
          PROVE  b[i] = match_callback(b[i - 1], left[i])
      <3>1. /\ b[i] = g[n + i] /\ b[i - 1] = g[n + (i - 1)] /\ n + (i - 1) = (n + i) - 1
            /\ left[i] = signals[n + i] /\ n + i \in 1..Len(signals)
        BY <1>2
      <3> QED
        BY <1>1, <3>1
    <2> HIDE DEF b
    <2> QED
      BY <2>1, <2>2 DEF Leads
  <1> QED
    BY <1>2, <1>3, <1>4, <1>5 DEF done, left

\* sd_bus_process fails on the way: what was processed is noted, and the rest
\* still leads to the state of the chassis.
LEMMA DbusFailsPower ==
    ASSUME PowerKnown, handler = "up", UNCHANGED <<handler, power, seen>>, pc' = Failed,
           NEW n \in 0..Len(dbus.signals),
           dbus' = [state |-> FoldLeft(match_callback, dbus.state, SubSeq(dbus.signals, 1, n)),
                    signals |-> SubSeq(dbus.signals, n + 1, Len(dbus.signals))]
    PROVE  PowerKnown'
  <1> DEFINE done == SubSeq(dbus.signals, 1, n)
             left == SubSeq(dbus.signals, n + 1, Len(dbus.signals))
  <1>1. /\ dbus.state \in BOOLEAN /\ dbus.signals \in Seq(Signal)
        /\ Leads(dbus.state, dbus.signals, power)
    BY DEF PowerKnown
  <1>2. done \in Seq(Signal) /\ left \in Seq(Signal)
    BY <1>1, LeadsSplit
  <1>3. PICK mid \in BOOLEAN : Leads(dbus.state, done, mid) /\ Leads(mid, left, power)
    BY <1>1, LeadsSplit
  <1> HIDE DEF done, left
  <1>4. FoldLeft(match_callback, dbus.state, done) = mid
    BY <1>1, <1>2, <1>3, FoldSignals
  <1>5. dbus' = [state |-> mid, signals |-> left]
    BY <1>4 DEF done, left
  <1>6. dbus'.state = mid /\ dbus'.signals = left /\ power' = power
    BY <1>5
  <1>7. Leads(dbus'.state, dbus'.signals, power')
    BY <1>3, <1>6
  <1> QED
    BY <1>1, <1>2, <1>5, <1>6, <1>7 DEF PowerKnown

\* Every signal that waits is processed, or processing fails.
LEMMA DbusPower ==
    ASSUME PowerKnown, dbus_process_event
    PROVE  PowerKnown'
  <1>1. /\ handler = "up" /\ dbus.state \in BOOLEAN /\ dbus.signals \in Seq(Signal)
        /\ seen.power = dbus.state /\ Leads(dbus.state, dbus.signals, power)
        /\ power \in BOOLEAN /\ seen = [pin |-> seen.pin, power |-> seen.power]
    BY PlacesDiffer DEF dbus_process_event, Resting, PowerKnown
  <1>2. FoldLeft(match_callback, dbus.state, dbus.signals) = power
    BY <1>1, FoldSignals
  <1>3. UNCHANGED <<handler, power>>
    BY DEF dbus_process_event, hardware
  <1>4. CASE /\ dbus' = [state |-> power, signals |-> <<>>]
             /\ seen' = IF power # dbus.state THEN [seen EXCEPT !.power = power] ELSE seen
    <2>1. seen' = [pin |-> seen'.pin, power |-> seen'.power] /\ seen'.power = power
      BY <1>1, <1>4
    <2> QED
      BY <1>1, <1>3, <1>4, <2>1, LeadsNowhere DEF PowerKnown
  <1>5. CASE /\ \E n \in 0..Len(dbus.signals) :
                  dbus' = [state |-> FoldLeft(match_callback, dbus.state, SubSeq(dbus.signals, 1, n)),
                           signals |-> SubSeq(dbus.signals, n + 1, Len(dbus.signals))]
             /\ pc' = Failed
             /\ UNCHANGED seen
    BY <1>1, <1>3, <1>5, DbusFailsPower
  <1> QED
    BY <1>2, <1>4, <1>5 DEF dbus_process_event

\* A signal that names the state last leads to the new state.
LEMMA ChassisPower ==
    ASSUME StateLast, PowerKnown, NEW props \in Signals, ChassisChanges(props)
    PROVE  PowerKnown'
  <1> DEFINE s == [state |-> power', props |-> props]
  <1>1. power' = (IF Contains(props, "state") THEN ~power ELSE power) /\ power \in BOOLEAN
    BY DEF ChassisChanges, PowerKnown
  <1>2. power' \in BOOLEAN
    BY <1>1
  <1>3. s \in Signal
    BY <1>2 DEF Signal
  <1>4. match_callback(power, s) = power'
    BY <1>1 DEF match_callback, StateLast
  <1>5. UNCHANGED <<handler, seen, pc>>
    BY DEF ChassisChanges
  <1>6. CASE handler = "up"
    <2>1. dbus' = [dbus EXCEPT !.signals = Append(@, s)]
      BY <1>6 DEF ChassisChanges
    <2> HIDE DEF s
    <2>2. /\ dbus.signals \in Seq(Signal) /\ Leads(dbus.state, dbus.signals, power)
          /\ dbus = [state |-> dbus.state, signals |-> dbus.signals]
          /\ pc # Failed => seen.power = dbus.state
          /\ dbus.state \in BOOLEAN
          /\ seen = [pin |-> seen.pin, power |-> seen.power]
      BY <1>6 DEF PowerKnown
    <2>3. /\ Append(dbus.signals, s) \in Seq(Signal)
          /\ Leads(dbus.state, Append(dbus.signals, s), match_callback(power, s))
      BY <1>3, <2>2, LeadsOn
    <2>4. dbus' = [state |-> dbus.state, signals |-> Append(dbus.signals, s)]
      BY <2>1, <2>2
    <2> QED
      BY <1>2, <1>4, <1>5, <2>2, <2>3, <2>4 DEF PowerKnown
  <1>7. CASE handler # "up"
    BY <1>2, <1>5, <1>7 DEF ChassisChanges, PowerKnown
  <1> QED
    BY <1>6, <1>7

\* Every other step leaves state, signals and power alone, and the handler
\* uninitialised where it was.
LEMMA OthersPower ==
    ASSUME PowerKnown, UNCHANGED <<dbus, power>>,
           handler' = "up" => handler = "up" /\ (pc = Failed => pc' = Failed),
           seen' = [pin |-> seen'.pin, power |-> seen.power]
    PROVE  PowerKnown'
  BY DEF PowerKnown

\* Every step keeps what is said of the power.
LEMMA NextPower ==
    ASSUME StateLast, Inv, PowerKnown, [Next]_vars
    PROVE  PowerKnown'
  <1>0. seen = [pin |-> seen.pin, power |-> seen.power]
    BY DEF PowerKnown
  <1>1. CASE target_initialize
    BY <1>1, InitializePower
  <1>2. CASE dbus_process_event
    BY <1>2, DbusPower
  <1>3. ASSUME NEW s \in Signals, ChassisChanges(s) PROVE PowerKnown'
    BY <1>3, ChassisPower
  <1>4. CASE TargetHandler \/ target_deinitialize
    BY <1>0, <1>4, OthersPower DEF TargetHandler, target_deinitialize, hardware
  <1>5. ASSUME NEW p \in Inputs, target_clear_gpio_event(p) PROVE PowerKnown'
    BY <1>0, <1>5, OthersPower, PlacesDiffer DEF target_clear_gpio_event, Resting, hardware
  <1>6. ASSUME NEW p \in LevelPins, on_level_event(p) PROVE PowerKnown'
    <2>1. seen' = [pin |-> seen'.pin, power |-> seen.power]
      BY <1>0, <1>6 DEF on_level_event
    <2> QED
      BY <1>6, <2>1, OthersPower, PlacesDiffer, LevelInputs DEF on_level_event, hardware, Handle
  <1>7. CASE on_prdy_event \/ ReleasePreq \/ on_xdp_present_event
    BY <1>0, <1>7, OthersPower, PlacesDiffer DEF Failed, on_prdy_event, ReleasePreq,
       on_xdp_present_event, hardware
  <1>8. CASE target_write_event_config \/ target_write
    BY <1>0, <1>8, OthersPower, PlacesDiffer DEF Resting, target_write_event_config,
       target_write, hardware
  <1>9. CASE target_wait_PRDY \/ WaitReturns
    BY <1>0, <1>9, OthersPower, PlacesDiffer DEF Failed, Idle, Resting, target_wait_PRDY,
       WaitReturns, hardware
  <1>10. ASSUME NEW p \in LevelPins, PinMoves(p) PROVE PowerKnown'
    BY <1>0, <1>10, OthersPower DEF PinMoves
  <1>11. ASSUME NEW p \in {"PRDY", "XDP"}, PinPulses(p) PROVE PowerKnown'
    BY <1>0, <1>11, OthersPower DEF PinPulses
  <1>12. CASE UNCHANGED vars
    BY <1>0, <1>12, OthersPower DEF vars
  <1> QED
    BY <1>1, <1>2, <1>3, <1>4, <1>5, <1>6, <1>7, <1>8, <1>9, <1>10, <1>11, <1>12 DEF Next

\* What is said of the power holds if signals name the state last.
THEOREM PowerInvariance ==
    ASSUME StateLast
    PROVE  Spec => [](Inv /\ PowerKnown)
  <1>1. Init => Inv /\ PowerKnown
    BY InitInv, InitPower
  <1>2. Inv /\ PowerKnown /\ [Next]_vars => (Inv /\ PowerKnown)'
    BY NextKeepsInv, NextPower
  <1> QED
    BY <1>1, <1>2, PTL DEF Spec

\* A pin whose events have all been handled, and the power once every signal
\* has been processed, are as the client was told last, if signals name the
\* state last: otherwise match_callback loses it.
THEOREM LevelsAreReported ==
    ASSUME StateLast
    PROVE  Spec => []LevelsReported
  <1>1. Inv /\ PowerKnown => LevelsReported
    <2> SUFFICES ASSUME Inv, PowerKnown, Resting PROVE LevelsReported
      BY DEF LevelsReported
    <2>1. handler = "up" /\ pc = Idle
      BY DEF Resting
    <2>2. \A p \in LevelPins \cap held : queue[p] = 0 => seen.pin[p] = level[p]
      BY <2>1, PlacesDiffer DEF Inv, PinsKnown
    <2>3. dbus.signals = <<>> => seen.power = power
      BY <2>1, LeadsOfNone, PlacesDiffer DEF PowerKnown
    <2> QED
      BY <2>2, <2>3 DEF LevelsReported
  <1> QED
    BY <1>1, PowerInvariance, PTL

\* Without that assumption the pins are still reported as they are.
THEOREM PinsAreReported ==
    Spec => [](Resting =>
                 \A p \in LevelPins \cap held : queue[p] = 0 => seen.pin[p] = level[p])
  <1>1. Inv => (Resting =>
                 \A p \in LevelPins \cap held : queue[p] = 0 => seen.pin[p] = level[p])
    BY PlacesDiffer DEF Resting, Inv, PinsKnown
  <1> QED
    BY <1>1, PinInvariance, PTL

\* The state match_callback leaves in power_state is that of the chassis, if
\* signals name the state last.
THEOREM PowerIsTracked ==
    ASSUME StateLast
    PROVE  Spec => []PowerTracked
  <1>1. Inv /\ PowerKnown => PowerTracked
    BY LeadsOfNone DEF PowerKnown, PowerTracked
  <1> QED
    BY <1>1, PowerInvariance, PTL
=============================================================================
