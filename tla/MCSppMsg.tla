------------------------------ MODULE MCSppMsg ------------------------------
(***************************************************************************)
(* Model-checking instance of SppMsg: two devices, of which either may be  *)
(* missing, and a bulk response that a second event finds full.            *)
(***************************************************************************)
EXTENDS SppMsg

MCIbis ==
    {[kind |-> "shake", size |-> 2], [kind |-> "data", size |-> 5], [kind |-> "prdy", size |-> 2]}
=============================================================================
