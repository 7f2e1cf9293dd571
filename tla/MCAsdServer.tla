---------------------------- MODULE MCAsdServer ----------------------------
(***************************************************************************)
(* Model-checking instance of AsdServer: the constants are given in the    *)
(* .cfg files; this module adds the symmetry of the descriptors, which no  *)
(* definition of the specification tells apart.                            *)
(***************************************************************************)
EXTENDS AsdServer, TLC

FdSymmetry == Permutations(Fd)
=============================================================================
