---------------------------- MODULE MCOpenFiles ----------------------------
(***************************************************************************)
(* The instances of OpenFiles that TLC checks.                             *)
(***************************************************************************)
EXTENDS OpenFiles, TLC

CONSTANTS c1, c2

Callers == Permutations(Caller)
=============================================================================
