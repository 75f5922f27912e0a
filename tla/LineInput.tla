----------------------------- MODULE LineInput -----------------------------
(***************************************************************************)
(* What a terminal promises a program that reads it: the characters typed  *)
(* are edited on a line, a carriage return puts the line on a queue, and a *)
(* read takes what is queued.  A line holds the last LineCap characters    *)
(* and the queue the last QueueCap ones.  Raw bytes skip the line.         *)
(***************************************************************************)
EXTENDS Integers, Sequences

CONSTANTS TTY, Byte, NUL, LineCap, QueueCap

VARIABLES
  line,     \* the line being edited at each terminal
  pending,  \* what each terminal has queued for its reader
  got       \* the text taken from each terminal last

vars == <<line, pending, got>>

(* The last n elements of s.                                               *)
Recent(s, n) == IF Len(s) <= n THEN s ELSE SubSeq(s, Len(s) - n + 1, Len(s))

Init ==
  /\ line = [t \in TTY |-> <<>>]
  /\ pending = [t \in TTY |-> <<>>]
  /\ got = [t \in TTY |-> <<>>]

Type(t, c) ==
  /\ line' = [line EXCEPT ![t] = Recent(Append(@, c), LineCap)]
  /\ UNCHANGED <<pending, got>>

Erase(t) ==
  /\ line[t] # <<>>
  /\ line' = [line EXCEPT ![t] = SubSeq(@, 1, Len(@) - 1)]
  /\ UNCHANGED <<pending, got>>

Enter(t) ==
  /\ pending' = [pending EXCEPT ![t] = Recent(@ \o line[t], QueueCap)]
  /\ line' = [line EXCEPT ![t] = <<>>]
  /\ UNCHANGED got

Byte1(t, b) ==
  /\ pending' = [pending EXCEPT ![t] = Recent(Append(@, b), QueueCap)]
  /\ UNCHANGED <<line, got>>

(* A read takes the n bytes before the first NUL, and the NUL, or all.     *)
Read(t) ==
  \E n \in 0..Len(pending[t]) :
    /\ \A i \in 1..n : pending[t][i] # NUL
    /\ n < Len(pending[t]) => pending[t][n + 1] = NUL
    /\ pending' = [pending EXCEPT ![t] = SubSeq(@, n + 2, Len(@))]
    /\ got' = IF n = 0 THEN got
              ELSE [got EXCEPT ![t] = SubSeq(pending[t], 1, n)]
    /\ UNCHANGED line

Next ==
  \E t \in TTY :
    \/ \E b \in Byte : Type(t, b) \/ Byte1(t, b)
    \/ Erase(t)
    \/ Enter(t)
    \/ Read(t)

Spec == Init /\ [][Next]_vars
=============================================================================
