---------------------------- MODULE MCTargetPins ----------------------------
(***************************************************************************)
(* Model-checking instance of TargetPins: the platform reset and one more  *)
(* pin, and signals that name the power state alone, last, or not at all;  *)
(* or, in MCSignals2, before another property.                             *)
(***************************************************************************)
EXTENDS TargetPins

MCSignals == {<<"state">>, <<"other", "state">>, <<"other">>}
MCSignals2 == {<<"state", "other">>}
=============================================================================
