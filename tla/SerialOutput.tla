---------------------------- MODULE SerialOutput ----------------------------
(***************************************************************************)
(* The way of a printed character to the wire: printf or a write to the    *)
(* terminal's file puts it into the output ring of the console's terminal  *)
(* (drivers/tty/tty.c), a flush copies that ring to the ring of the serial *)
(* port (drivers/serial/serial.c) and empties it into the UART.  The       *)
(* serial interrupts use the same port rings to echo what is typed.        *)
(*                                                                         *)
(* Nothing locks the rings.  A Context is a strand of execution that can   *)
(* be in the middle of a print: the shell's task, a command that an        *)
(* interrupt runs, the handler of a key or of a control character, which   *)
(* print too, a system call.  They come in between each other in any       *)
(* order; a print with interrupts off is one that no one came between.     *)
(* Only the echo of a typed character is a single step.  Two that are in   *)
(* the middle of the same operation are a race on a ring: raced records it *)
(* and the outcome is not followed.                                        *)
(*                                                                         *)
(* Printed bytes are the numbers 1, 2, ... in the order of printing and    *)
(* echoed ones are negative, so a byte that is lost, doubled or overtaken  *)
(* shows.  The input rings are counted only: nobody reads them.            *)
(***************************************************************************)
EXTENDS Integers, Sequences, FiniteSets

CONSTANTS
  Port,          \* the serial ports init_serial found
  Console,       \* the port of the current terminal
  NoPort,        \* interrupted_serial_device before any interrupt
  Context,       \* the strands of execution that print
  OutSize,       \* bytes of a port's output ring: 4096
  InSize,        \* bytes of a port's input ring: 4096
  TtySize,       \* bytes of a terminal's output ring: 1024
  MaxPrinted,    \* bound on the bytes printed
  MaxTyped       \* bound on the characters typed

(***************************************************************************)
(* The sizes are those that register_comm passes: the port's ring holds    *)
(* what four contexts leave there, each in the middle of emptying it, and  *)
(* an echo.                                                                *)
(***************************************************************************)
ASSUME SerialAssumption ==
  /\ Console \in Port /\ NoPort \notin Port
  /\ OutSize \in Nat /\ InSize \in Nat \ {0} /\ TtySize \in Nat \ {0, 1}
  /\ IsFiniteSet(Context) /\ Context # {}
  /\ Cardinality(Context) * (TtySize - 1) + 1 < OutSize
  /\ MaxPrinted \in Nat /\ MaxTyped \in Nat

VARIABLES
  ring,         \* ring[p]: the output ring of port p, oldest byte first
  inb,          \* inb[p]: how many bytes the input ring of p holds
  interrupted,  \* interrupted_serial_device
  tty,          \* the output ring of the console's terminal
  start,        \* its outb_read
  copied,       \* how many bytes of tty the flush in progress has passed on
  byte,         \* the byte that has left one ring and is not in the other
  plan,         \* plan[c]: what the print call of context c still does
  pc,           \* pc[c]: where in an operation on a ring c is, or "no"
  sent,         \* history: sent[p]: what went to the UART of p
  entered,      \* history: entered[p]: what was put into the ring of p
  passed,       \* history: the printed bytes put into the console's ring
  printed,      \* history: how many bytes were put into the terminal's ring
  flushes,      \* history: printed at the last two flushes, newest first
  lost,         \* history: a ring was full and dropped bytes
  raced,        \* history: two contexts met in the middle of an operation
  typed         \* how many characters were typed

portVars == <<ring, inb, interrupted, sent, entered, typed>>
ttyVars == <<tty, start, passed, printed, flushes>>
vars == <<portVars, ttyVars, copied, byte, plan, pc, lost, raced>>

\* init_serial and tty_init: empty rings.
Init ==
  /\ ring = [p \in Port |-> <<>>]
  /\ inb = [p \in Port |-> 0]
  /\ interrupted = NoPort
  /\ tty = <<>> /\ start = 0 /\ copied = 0 /\ byte = 0
  /\ plan = [c \in Context |-> <<>>] /\ pc = [c \in Context |-> "no"]
  /\ sent = [p \in Port |-> <<>>]
  /\ entered = [p \in Port |-> <<>>] /\ passed = <<>>
  /\ printed = 0 /\ flushes = <<0, 0>>
  /\ lost = FALSE /\ raced = FALSE /\ typed = 0

-----------------------------------------------------------------------------
(***************************************************************************)
(* In the middle of an operation.  On the terminal's ring: the character   *)
(* is stored and outb_write not moved ("put"), or the text is on its way   *)
(* to the port and outb_read not moved ("copy", "store").  On the port's   *)
(* ring: write_outb has begun ("store"), or read_outb is done and the byte *)
(* is not on the wire ("send").  Another context that begins an operation  *)
(* on the same ring then overwrites the character, sends the text twice    *)
(* and leaves outb_read behind it, or overtakes the byte.                  *)
(***************************************************************************)
InTty(c) == pc[c] \in {"put", "copy", "store"}
InRing(c) == pc[c] \in {"store", "send"}

MeetsInTty(c) == \E d \in Context \ {c} : InTty(d)
MeetsInRing(c) == \E d \in Context \ {c} : InRing(d)

Turns(c, to) == pc' = [pc EXCEPT ![c] = to]

(***************************************************************************)
(* Printing.  printf flushes after every character, a write to the         *)
(* terminal's file does not; line_discipline_translate makes a carriage    *)
(* return and a line feed of a newline, and tty_write_outb flushes after   *)
(* the carriage return.                                                    *)
(***************************************************************************)
Translation(newline) ==
  IF newline THEN <<"put", "flush", "put">> ELSE <<"put">>

Printf(c, newline, now) ==
  /\ plan[c] = <<>> /\ pc[c] = "no"
  /\ printed < MaxPrinted
  /\ plan' = [plan EXCEPT ![c] =
       Translation(newline) \o (IF now THEN <<"flush">> ELSE <<>>)]
  /\ UNCHANGED <<portVars, ttyVars, copied, byte, pc, lost, raced>>

Does(c, what) == plan[c] # <<>> /\ Head(plan[c]) = what /\ pc[c] = "no"

\* tty_write_outb stores the character ...
PutByte(c) ==
  /\ Does(c, "put")
  /\ printed < MaxPrinted
  /\ plan' = [plan EXCEPT ![c] = Tail(@)]
  /\ Turns(c, "put")
  /\ raced' = (raced \/ MeetsInTty(c))
  /\ UNCHANGED <<portVars, ttyVars, copied, byte, lost>>

\* ... and moves outb_write: a ring of n bytes keeps the last n - 1.
TtyWriteOutb(c) ==
  LET full == Len(tty) = TtySize - 1
  IN /\ pc[c] = "put"
     /\ tty' = (IF full THEN Tail(tty) ELSE tty) \o <<printed + 1>>
     /\ start' = IF full THEN (start + 1) % TtySize ELSE start
     /\ lost' = (lost \/ full)
     /\ printed' = printed + 1
     /\ Turns(c, "no")
     /\ UNCHANGED <<portVars, copied, byte, plan, passed, flushes, raced>>

\* The bytes of the ring that lie before its end.
UpToEnd ==
  IF start + Len(tty) <= TtySize THEN Len(tty) ELSE TtySize - start

\* _tty_flush of an empty ring returns at once.
FlushNothing(c) ==
  /\ Does(c, "flush") /\ tty = <<>>
  /\ plan' = [plan EXCEPT ![c] = Tail(@)]
  /\ flushes' = <<printed, flushes[1]>>
  /\ UNCHANGED <<portVars, tty, start, copied, byte, pc, passed, printed, lost, raced>>

\* _tty_flush calls device_write with what lies before the end of the ring.
TtyFlush(c) ==
  /\ Does(c, "flush") /\ tty # <<>>
  /\ plan' = [plan EXCEPT ![c] = Tail(@)]
  /\ Turns(c, "copy")
  /\ raced' = (raced \/ MeetsInTty(c))
  /\ UNCHANGED <<portVars, ttyVars, copied, byte, lost>>

-----------------------------------------------------------------------------
(***************************************************************************)
(* write_outb on the console's port, in two steps: the index moves, then   *)
(* the byte is there.  A ring that is full looks empty; SERIAL_OF_HANDLER  *)
(* flushes and discards the rings of the last port that interrupted, which *)
(* sends nothing of a ring that looks empty.                               *)
(***************************************************************************)
CopyByte(c) ==
  /\ pc[c] = "copy" /\ copied < UpToEnd
  /\ byte' = tty[copied + 1]
  /\ Turns(c, "store")
  /\ raced' = (raced \/ MeetsInRing(c))
  /\ UNCHANGED <<portVars, ttyVars, copied, plan, lost>>

Full(s) == Len(s) >= OutSize

StoreByte(c) ==
  LET stored == Append(ring[Console], byte)
      other == Full(stored) /\ interrupted \notin {NoPort, Console}
  IN /\ pc[c] = "store"
     /\ ring' = [p \in Port |->
          IF p = Console THEN (IF Full(stored) THEN <<>> ELSE stored)
          ELSE IF other /\ p = interrupted THEN <<>> ELSE ring[p]]
     /\ sent' = IF other THEN [sent EXCEPT ![interrupted] = @ \o ring[interrupted]]
                         ELSE sent
     /\ inb' = IF Full(stored) /\ interrupted # NoPort
                 THEN [inb EXCEPT ![interrupted] = 0] ELSE inb
     /\ entered' = [entered EXCEPT ![Console] = Append(@, byte)]
     /\ passed' = Append(passed, byte)
     /\ copied' = copied + 1
     /\ lost' = (lost \/ Full(stored))
     /\ Turns(c, "copy")
     /\ UNCHANGED <<interrupted, tty, start, byte, plan, printed, flushes, raced, typed>>

\* A _tty_flush that moves outb_read by one too few.
CopyEndsShort(c) ==
  /\ pc[c] = "copy" /\ copied = UpToEnd
  /\ tty' = SubSeq(tty, copied, Len(tty))
  /\ start' = (start + copied - 1) % TtySize
  /\ copied' = 0
  /\ flushes' = <<printed, flushes[1]>>
  /\ Turns(c, "drain")
  /\ UNCHANGED <<portVars, byte, plan, passed, printed, lost, raced>>

\* A _tty_flush that takes the port for no serial one and leaves its ring full.
CopyEndsUnsent(c) ==
  /\ pc[c] = "copy" /\ copied = UpToEnd
  /\ tty' = SubSeq(tty, copied + 1, Len(tty))
  /\ start' = (start + copied) % TtySize
  /\ copied' = 0
  /\ flushes' = <<printed, flushes[1]>>
  /\ Turns(c, "no")
  /\ UNCHANGED <<portVars, byte, plan, passed, printed, lost, raced>>

(***************************************************************************)
(* device_write returns, outb_read moves behind what was passed on, and    *)
(* SERIAL_FLUSH_TX follows.  The rest of a text that wraps around the ring *)
(* waits for the next flush.                                               *)
(***************************************************************************)
CopyEnds(c) ==
  /\ pc[c] = "copy" /\ copied = UpToEnd
  /\ tty' = SubSeq(tty, copied + 1, Len(tty))
  /\ start' = (start + copied) % TtySize
  /\ copied' = 0
  /\ flushes' = <<printed, flushes[1]>>
  /\ Turns(c, "drain")
  /\ UNCHANGED <<portVars, byte, plan, passed, printed, lost, raced>>

\* read_outb and write_serial, the two halves of the loop of _serial_flush.
TakeByte(c) ==
  /\ pc[c] = "drain" /\ ring[Console] # <<>>
  /\ byte' = Head(ring[Console])
  /\ ring' = [ring EXCEPT ![Console] = Tail(@)]
  /\ Turns(c, "send")
  /\ raced' = (raced \/ MeetsInRing(c))
  /\ UNCHANGED <<inb, interrupted, sent, entered, typed, ttyVars, copied, plan, lost>>

SendByte(c) ==
  /\ pc[c] = "send"
  /\ sent' = [sent EXCEPT ![Console] = Append(@, byte)]
  /\ Turns(c, "drain")
  /\ UNCHANGED <<ring, inb, interrupted, entered, typed, ttyVars, copied, byte, plan,
                 lost, raced>>

DrainEnds(c) ==
  /\ pc[c] = "drain" /\ ring[Console] = <<>>
  /\ Turns(c, "no")
  /\ raced' = (raced \/ MeetsInRing(c))
  /\ UNCHANGED <<portVars, ttyVars, copied, byte, plan, lost>>

-----------------------------------------------------------------------------
\* An overflow that throws the port's output away before it is flushed.
OutAfterOverflowDiscarded(p, echo) ==
  LET over == inb[p] + 1 = InSize
      flushed == over \/ echo # <<>>
  IN /\ ring' = [ring EXCEPT ![p] = IF flushed THEN <<>> ELSE @]
     /\ sent' = [sent EXCEPT ![p] = IF over THEN @ \o echo
                                    ELSE IF flushed THEN @ \o ring[p] \o echo ELSE @]
     /\ entered' = [entered EXCEPT ![p] = @ \o echo]

(***************************************************************************)
(* What a character typed at p does to the output of p: the overflow of    *)
(* the input ring, if this is the byte that fills it, flushes the output   *)
(* before it is discarded; then echo_cb writes the echo and flushes.       *)
(***************************************************************************)
OutAfter(p, echo) ==
  LET flushed == inb[p] + 1 = InSize \/ echo # <<>>
  IN /\ ring' = [ring EXCEPT ![p] = IF flushed THEN <<>> ELSE @]
     /\ sent' = [sent EXCEPT ![p] = IF flushed THEN @ \o ring[p] \o echo ELSE @]
     /\ entered' = [entered EXCEPT ![p] = @ \o echo]

(***************************************************************************)
(* COM1_HANDLER and COM2_HANDLER up to the end of the echo, which control  *)
(* characters and a terminal with its echo off do not have.  What the      *)
(* character's action prints (ld_htab and its like), and the command that  *)
(* a carriage return runs, are prints of a context.                        *)
(***************************************************************************)
Receive(p, echo) ==
  /\ typed < MaxTyped
  /\ typed' = typed + 1
  /\ interrupted' = p
  /\ inb' = [inb EXCEPT ![p] = (@ + 1) % InSize]
  /\ OutAfter(p, echo)
  /\ raced' = (raced \/ (p = Console /\ \E d \in Context : InRing(d)))
  /\ UNCHANGED <<ttyVars, copied, byte, plan, pc, lost>>

Typed(p) == Receive(p, <<-(typed + 1)>>) \/ Receive(p, <<>>)

Prints(c) ==
  \/ \E newline, now \in BOOLEAN : Printf(c, newline, now)
  \/ PutByte(c) \/ TtyWriteOutb(c) \/ FlushNothing(c) \/ TtyFlush(c)
  \/ CopyByte(c) \/ StoreByte(c) \/ CopyEnds(c)
  \/ TakeByte(c) \/ SendByte(c) \/ DrainEnds(c)

Next ==
  /\ ~raced
  /\ \/ \E c \in Context : Prints(c)
     \/ \E p \in Port : Typed(p)

Spec == Init /\ [][Next]_vars

-----------------------------------------------------------------------------
(* Types: rings keep one slot free, indices stay inside.                    *)
TypeOK ==
  /\ \A p \in Port : Len(ring[p]) < OutSize /\ inb[p] \in 0..(InSize - 1)
  /\ interrupted \in Port \cup {NoPort}
  /\ Len(tty) < TtySize /\ start \in 0..(TtySize - 1) /\ copied \in 0..Len(tty)
  /\ \A c \in Context : pc[c] \in {"no", "put", "copy", "store", "drain", "send"}
  /\ printed \in Nat /\ typed \in 0..MaxTyped
  /\ lost \in BOOLEAN /\ raced \in BOOLEAN

\* Bytes that left the console's ring and are not on the wire yet.
InHand(p) ==
  IF p = Console /\ \E c \in Context : pc[c] = "send" THEN <<byte>> ELSE <<>>

(* Every byte put into the ring of a port goes out once and in order, however *)
(* prints come in the middle of each other's flushes and interrupts of both   *)
(* ports echo and overflow between their bytes: a port's ring is never filled *)
(* by what those prints leave there, and the discard of an input overflow     *)
(* finds an output ring already flushed.                                      *)
PortKeepsBytes ==
  \A p \in Port : ~(p = Console /\ raced) =>
    entered[p] = sent[p] \o InHand(p) \o ring[p]

\* What was printed and has not been dropped, in the order of its way.
PrintedSoFar == passed \o SubSeq(tty, copied + 1, Len(tty))

(* What is printed reaches the console's port in the order of printing, and   *)
(* without a gap unless the terminal's ring was overrun by text that was not  *)
(* flushed: a text that wraps around the ring is passed on in two pieces,     *)
(* never twice and never in the wrong order.                                  *)
TerminalKeepsOrder ==
  /\ \A i, j \in DOMAIN PrintedSoFar : i < j => PrintedSoFar[i] < PrintedSoFar[j]
  /\ ~lost => Len(PrintedSoFar) = printed

(* After two flushes a text is on the wire: whatever waits in a ring once all *)
(* calls are over was printed after the last flush but one.                   *)
TwoFlushesBringItOut ==
  (\A c \in Context : plan[c] = <<>> /\ pc[c] = "no") =>
    /\ ring[Console] = <<>>
    /\ \A i \in DOMAIN tty : tty[i] > flushes[2]

(* What a printer relies on (tty_write_outb, _tty_flush): its text reaches    *)
(* the port in order, once, and with the second flush at the latest, also     *)
(* when a command or a handler prints in the middle of its flush, as long as  *)
(* no two of them meet in the middle of the same operation on a ring.         *)
TextComesOut ==
  TypeOK /\ (~raced => TerminalKeepsOrder /\ TwoFlushesBringItOut)
=============================================================================
