----------------------------- MODULE MCTerminal -----------------------------
(* The instance of Terminal that TLC checks.                               *)
EXTENDS Terminal

CONSTANTS ttya, ttyb, a, b

MCTTY == {ttya, ttyb}
MCChar == {a, b}

\* ttya is COM1, IRQ 4; ttyb is COM2, IRQ 3.
MCAbove(t, u) == t = ttyb /\ u = ttya

\* Nothing compares characters: one that differs from the others shows order.
MCKeys(n) == IF n = 1 THEN {b} ELSE {a}
=============================================================================
