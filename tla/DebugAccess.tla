---------------------------- MODULE DebugAccess ----------------------------
(***************************************************************************)
(* What the daemon promises about access to the debugged target, with      *)
(* nothing of sockets, slots, polling or time: one client at a time owns   *)
(* the target; it gets it only when nobody has it and no handler of an     *)
(* earlier owner is left; the debug hardware is driven only while the      *)
(* owner is attached; and an owner that went idle may be detached while it *)
(* still blocks everybody else.                                            *)
(***************************************************************************)
CONSTANTS
    Client,   \* possible owners
    Nobody    \* no owner

VARIABLES
    owner,    \* the client that owns the target, or Nobody
    attached, \* the message layer exists on behalf of the owner
    driven    \* debug hardware is initialised

accessVars == <<owner, attached, driven>>

AccessInit ==
    /\ owner = Nobody
    /\ attached = FALSE
    /\ driven = FALSE

Acquire(c) ==
    /\ owner = Nobody
    /\ ~attached
    /\ ~driven
    /\ owner' = c
    /\ attached' = TRUE
    /\ UNCHANGED driven

\* The owner's first real debug message.
Drive ==
    /\ owner # Nobody
    /\ attached
    /\ ~driven
    /\ driven' = TRUE
    /\ UNCHANGED <<owner, attached>>

\* The hardware is let go; the owner may or may not be released with it.
Detach ==
    /\ owner # Nobody
    /\ attached' = FALSE
    /\ driven' = FALSE
    /\ owner' \in {owner, Nobody}

AccessNext == (\E c \in Client : Acquire(c)) \/ Drive \/ Detach

AccessSpec == AccessInit /\ [][AccessNext]_accessVars
=============================================================================
