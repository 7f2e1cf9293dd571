---------------------------- MODULE MCMsgRead ------------------------------
(***************************************************************************)
(* Model-checking instance of MsgRead; the constants are in the .cfg files.*)
(***************************************************************************)
EXTENDS MsgRead
=============================================================================
