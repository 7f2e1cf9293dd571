---------------------------- MODULE MCAuthPam ------------------------------
(***************************************************************************)
(* Model-checking instance of AuthPam; the constants are in the .cfg files.*)
(***************************************************************************)
EXTENDS AuthPam
=============================================================================
