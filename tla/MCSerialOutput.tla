--------------------------- MODULE MCSerialOutput ---------------------------
(* The instance of SerialOutput that TLC checks: COM1, the console, and COM2, *)
(* and two contexts that print.                                               *)
EXTENDS SerialOutput, TLC

CONSTANTS com1, com2, task, handler

MCPort == {com1, com2}

MCContext == {task, handler}

\* What holds for one context holds for the other.
MCSymmetry == Permutations(MCContext)
=============================================================================
