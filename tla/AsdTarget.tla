----------------------------- MODULE AsdTarget -----------------------------
(***************************************************************************)
(* The life of the target side as the daemon sees it through               *)
(* asd_api_target_init / _deinit / _ioctl (target/asd_target_api.c and     *)
(* target/asd_msg.c): the single message instance, the handlers it owns    *)
(* and the pin descriptors the main loop took from the target handler.     *)
(*                                                                         *)
(* Of the six handlers only the target handler and the remote probe        *)
(* handler are kept: asd_msg_free reports failure exactly when one of      *)
(* those two was created but never initialised, or when the hardware       *)
(* refuses; the other four fail only with the hardware.                    *)
(***************************************************************************)
EXTENDS Integers

VARIABLES
    instance,             \* the static pointer "instance" is set
    target,               \* msg_state.target_handler
    vprobe,               \* msg_state.vprobe_handler
    handlers_initialized, \* msg_state.handlers_initialized
    pins                  \* the main loop's copy of the pin descriptors

targetVars == <<instance, target, vprobe, handlers_initialized, pins>>

\* NULL, created, or created and initialised.
HandlerState == {"null", "made", "init"}

\* No descriptor, descriptors of the current target handler, or descriptors
\* of a target handler that has been freed since they were copied.
PinState == {"none", "live", "stale"}

TargetTypeOK ==
    /\ instance \in BOOLEAN
    /\ target \in HandlerState
    /\ vprobe \in HandlerState
    /\ handlers_initialized \in BOOLEAN
    /\ pins \in PinState

TargetInit ==
    /\ instance = FALSE
    /\ target = "null"
    /\ vprobe = "null"
    /\ handlers_initialized = FALSE
    /\ pins = "none"

\* asd_msg_init with handlers that could all be created; a second instance
\* is refused.
asd_msg_init ==
    /\ ~instance
    /\ instance' = TRUE
    /\ target' = "made"
    /\ vprobe' = "made"
    /\ handlers_initialized' = FALSE
    /\ UNCHANGED pins

\* Mutation: asd_msg_free returns at the first handler that refuses, and the
\* instance stays.
asd_msg_free_early_return ==
    LET clean == instance /\ target = "init" /\ vprobe = "init"
    IN  /\ instance' = (instance /\ ~clean)
        /\ target' = IF clean THEN "null" ELSE target
        /\ vprobe' = IF clean THEN "null" ELSE vprobe
        /\ pins' = IF clean /\ pins = "live" THEN "stale" ELSE pins
        /\ UNCHANGED handlers_initialized

\* asd_msg_free: every handler is freed whatever the de-initialisers return;
\* handlers_initialized is not cleared.  Freeing the target handler closes
\* the descriptors the main loop may still hold.
asd_msg_free ==
    /\ instance' = FALSE
    /\ target' = IF instance THEN "null" ELSE target
    /\ vprobe' = IF instance THEN "null" ELSE vprobe
    /\ pins' = IF instance /\ pins = "live" THEN "stale" ELSE pins
    /\ UNCHANGED handlers_initialized

\* The statuses asd_msg_free may return (TRUE is ST_OK).  target_deinitialize
\* and vProbe_deinitialize refuse a handler that is not initialised.
FreeResults ==
    IF instance /\ target = "init" /\ vprobe = "init" THEN BOOLEAN ELSE {FALSE}

\* What one successful asd_msg_read does to the handlers: nothing (part of a
\* message, or a message that needs no initialisation), the remote probe
\* query, or the first message that is not agent control.
asd_msg_read ==
    /\ UNCHANGED <<instance, pins>>
    /\ \/ UNCHANGED <<target, vprobe, handlers_initialized>>
       \/ /\ vprobe = "made"
          /\ vprobe' = "init"
          /\ UNCHANGED <<target, handlers_initialized>>
       \/ /\ target = "made"
          /\ ~handlers_initialized
          /\ target' = "init"
          /\ handlers_initialized' = TRUE
          /\ UNCHANGED vprobe

\* IOCTL_TARGET_GET_PIN_FDS: no descriptor unless the target handler is
\* initialised and the last header received was not agent control.
asd_msg_get_fds ==
    /\ pins' \in (IF target = "init" THEN {"none", "live"} ELSE {"none"})
    /\ UNCHANGED <<instance, target, vprobe, handlers_initialized>>

\* The iteration ends, and with it the scope of the copied descriptors.
drop_fds ==
    /\ pins' = "none"
    /\ UNCHANGED <<instance, target, vprobe, handlers_initialized>>
=============================================================================
