------------------------------ MODULE Terminal ------------------------------
(***************************************************************************)
(* The way of a typed character to a shell command: the serial interrupt   *)
(* gives it to tty_read_cb, the line discipline edits the line in a ring   *)
(* of LineSize characters, a carriage return copies the line to the        *)
(* terminal's input ring, and the shell's tty_signal_handler, run for      *)
(* every subscription of the terminal, reads the terminal named devno.     *)
(*                                                                         *)
(* All of it runs in the serial interrupt, with interrupts off until a     *)
(* command takes and releases the scheduler lock, which turns them on for  *)
(* the rest of the walk.  The serial interrupt stays in service until the  *)
(* walk is over: meanwhile only a terminal whose line has a higher         *)
(* priority can interrupt (COM2 is IRQ 3, COM1 is IRQ 4), so the walks     *)
(* over the subscribers nest.  One read of the input ring is a step, and   *)
(* the command it gave is another; torn records the reads in which another *)
(* interrupt could have come between two bytes.  The screen (echo, prompts,*)
(* the text the control characters print) is left out, and nobody uses the *)
(* PS/2 keyboard, whose handler acknowledges a serial interrupt too early  *)
(* (KeyboardInt_Handler, then pic_eoi).                                    *)
(***************************************************************************)
EXTENDS Integers, Sequences

CONSTANTS
  TTY,       \* the terminals that register_comm creates
  NoTTY,     \* devno before the shell runs, or a name that is no terminal's
  Char,      \* characters the line discipline inserts
  Above(_, _), \* Above(t, u): the interrupt of t has priority over u's
  NUL,       \* the byte 0, which only raw mode lets into the input ring
  Junk,      \* whatever a read outside the line's buffer returns
  LineSize,  \* characters of the line's buffer: 1024
  InSize,    \* characters of a terminal's input ring: 1024
  RawTTY,    \* bound on the terminals whose modes programs set
  Keys(_),   \* bound: Keys(n) may be typed after n characters
  MaxTyped,  \* bound on the characters typed, erased ones included
  MaxSubs    \* bound on the subscriptions at a terminal

ASSUME TerminalAssumption ==
  /\ LineSize \in Nat /\ LineSize > 2
  /\ InSize \in Nat \ {0}
  /\ MaxTyped \in Nat /\ MaxSubs \in Nat \ {0}
  /\ NoTTY \notin TTY
  /\ NUL \notin Char
  /\ Junk \notin Char \cup {NUL}
  /\ \A t \in TTY : ~Above(t, t)
  /\ \A t, u, v \in TTY : Above(t, u) /\ Above(u, v) => Above(t, v)

VARIABLES
  buffer,      \* buffer[t]: the line's ring
  head, tail,  \* head[t], tail[t]: where its text starts and ends
  raw,         \* raw[t]: the line discipline passes bytes on unedited
  inb,         \* inb[t]: the input ring's contents, oldest first
  subs,        \* subs[t]: how often tty_signal_handler is subscribed
  devno,       \* the terminal the shell reads
  walks,       \* the walks over terminals' subscribers, the innermost last
  got,         \* got[t]: the text the shell took from t last
  cut,         \* cut[t]: the last read of t stopped at a NUL
  damaged,     \* a character was stored outside a line's buffer
  crossed,     \* history: a line of t has gone past the end of its buffer
  torn,        \* history: text of t was read while interrupts were on
  typed        \* how many characters were typed

lineVars  == <<buffer, head, tail, damaged, crossed>>
shellVars == <<subs, devno, got, cut>>
vars == <<buffer, head, tail, raw, inb, subs, devno, walks, got, cut,
          damaged, crossed, torn, typed>>

InBuffer == 0..(LineSize - 1)
Byte == Char \cup {NUL}

(* The remainder of C, which has the sign of the dividend.                 *)
Rem(a, n) == IF a >= 0 THEN a % n ELSE -((-a) % n)

Init ==
  /\ buffer = [t \in TTY |-> [i \in InBuffer |-> Junk]]
  /\ head = [t \in TTY |-> 0]
  /\ tail = [t \in TTY |-> 0]
  /\ raw = [t \in TTY |-> FALSE]
  /\ inb = [t \in TTY |-> <<>>]
  /\ subs = [t \in TTY |-> 0]
  /\ devno = NoTTY
  /\ walks = <<>>
  /\ got = [t \in TTY |-> <<>>]
  /\ cut = [t \in TTY |-> FALSE]
  /\ damaged = FALSE
  /\ crossed = [t \in TTY |-> FALSE]
  /\ torn = [t \in TTY |-> FALSE]
  /\ typed = 0

(***************************************************************************)
(* The input ring: tty_write_inb drops the oldest character when the ring  *)
(* is full, and a ring of n bytes holds n - 1.                             *)
(***************************************************************************)
Recent(s, n) == IF Len(s) <= n THEN s ELSE SubSeq(s, Len(s) - n + 1, Len(s))

WriteInb(t, text) == inb' = [inb EXCEPT ![t] = Recent(@ \o text, InSize - 1)]

(* The innermost walk.                                                     *)
Top == walks[Len(walks)]

(* A character of t interrupts: the processor is not in a serial interrupt *)
(* or in a command of a terminal of lower priority that turned interrupts  *)
(* on.                                                                     *)
Interrupts(t) ==
  walks # <<>> => Top.open /\ Above(t, Top.tty)

(* tty_run_subscribers: left counts the subscribers still to be called,    *)
(* run says that the one being called has read a command and has not run   *)
(* it yet, open that interrupts are on again, and flush that the walk is   *)
(* part of a flush of the line.                                            *)
StartWalk(t, flush) ==
  walks' = Append(walks, [tty |-> t, left |-> subs[t], run |-> FALSE,
                          open |-> FALSE, flush |-> flush])

(***************************************************************************)
(* The line discipline in canonical mode.  Control characters other than   *)
(* these only print.                                                       *)
(***************************************************************************)
(* The line is no longer one run of the buffer: it goes on at the start,   *)
(* or its end is before the start.                                         *)
Crosses(from, to) == to < 0 \/ (0 < to /\ to < from)

line_discipline_insert(t, c) ==
  LET next == Rem(tail[t] + 1, LineSize)
  IN  /\ buffer' = IF tail[t] \in InBuffer
                     THEN [buffer EXCEPT ![t][tail[t]] = c] ELSE buffer
      /\ damaged' = (damaged \/ tail[t] \notin InBuffer)
      /\ tail' = [tail EXCEPT ![t] = next]
      /\ head' = [head EXCEPT ![t] =
                    IF next = @ THEN Rem(@ + 1, LineSize) ELSE @]
      /\ crossed' = [crossed EXCEPT ![t] = @ \/ Crosses(head'[t], next)]

Insert(t, c) ==
  /\ Interrupts(t)
  /\ ~raw[t]
  /\ typed < MaxTyped /\ c \in Keys(typed)
  /\ line_discipline_insert(t, c)
  /\ typed' = typed + 1
  /\ UNCHANGED <<raw, inb, walks, shellVars, torn>>

(* DEL or backspace.                                                       *)
line_discipline_delete_last(t) ==
  LET last == Rem(tail[t] - 1, LineSize)
  IN  /\ Interrupts(t)
      /\ ~raw[t]
      /\ tail[t] # head[t]
      /\ tail' = [tail EXCEPT ![t] = last]
      /\ crossed' = [crossed EXCEPT ![t] = @ \/ Crosses(head[t], last)]
      /\ UNCHANGED <<buffer, head, damaged, raw, inb, walks, shellVars, torn, typed>>

(* A flush of one character more than the line has.                        *)
FlushedTextOneMore(t) ==
  [i \in 1..(Rem(tail[t] - head[t] + LineSize, LineSize) + 1) |->
     IF head[t] + i - 1 \in InBuffer THEN buffer[t][head[t] + i - 1] ELSE Junk]

(* The bytes that &buffer[head] and a length give to flush_cb: they are    *)
(* taken one after the other and do not wrap at the end of the buffer.     *)
FlushedText(t) ==
  LET size == Rem(tail[t] - head[t] + LineSize, LineSize)
  IN  [i \in 1..size |-> IF head[t] + i - 1 \in InBuffer
                           THEN buffer[t][head[t] + i - 1] ELSE Junk]

(* A flush that leaves the line in the buffer.                             *)
FlushKeepsLine(t) ==
  /\ Interrupts(t)
  /\ ~raw[t]
  /\ WriteInb(t, FlushedText(t))
  /\ StartWalk(t, FALSE)
  /\ UNCHANGED <<lineVars, raw, shellVars, torn, typed>>

(* A carriage return.  head moves up when the walk is over (WalkReturns).  *)
line_discipline_force_flush(t) ==
  /\ Interrupts(t)
  /\ ~raw[t]
  /\ WriteInb(t, FlushedText(t))
  /\ StartWalk(t, TRUE)
  /\ UNCHANGED <<lineVars, raw, shellVars, torn, typed>>

(* In raw mode every byte goes to the input ring by itself.                *)
RawByte(t, b) ==
  /\ Interrupts(t)
  /\ raw[t]
  /\ typed < MaxTyped /\ b \in Keys(typed) \cup {NUL}
  /\ WriteInb(t, <<b>>)
  /\ StartWalk(t, FALSE)
  /\ typed' = typed + 1
  /\ UNCHANGED <<lineVars, raw, shellVars, torn>>

(* tty_set_raw passes the address of one byte and _tty_modes reads an int  *)
(* there: a 0 may arrive as another value, so a request for canonical mode *)
(* may set raw mode.  The line being edited stays in the buffer.  A task   *)
(* calls it, with interrupts on, or the shell's ioctl command.             *)
_tty_modes(t, value) ==
  /\ walks # <<>> => Top.open \/ Top.run
  /\ \E read \in {value, TRUE} : raw' = [raw EXCEPT ![t] = read]
  /\ UNCHANGED <<lineVars, inb, walks, shellVars, torn, typed>>

(***************************************************************************)
(* The shell.                                                              *)
(***************************************************************************)
(* run_shell subscribes to the current terminal once.                      *)
run_shell(t) ==
  /\ walks = <<>>
  /\ devno = NoTTY
  /\ \A u \in TTY : subs[u] = 0
  /\ devno' = t
  /\ subs' = [subs EXCEPT ![t] = 1]
  /\ UNCHANGED <<lineVars, raw, inb, walks, got, cut, torn, typed>>

(* _tty_read stops after a NUL byte.                                       *)
NulAt(s) == {i \in 1..Len(s) : s[i] = NUL}
CutAt(s) == CHOOSE i \in NulAt(s) : \A j \in NulAt(s) : i <= j
Taken(s) == IF NulAt(s) = {} THEN s ELSE SubSeq(s, 1, CutAt(s) - 1)
Left(s)  == IF NulAt(s) = {} THEN <<>> ELSE SubSeq(s, CutAt(s) + 1, Len(s))

(* device_read(devno, ...): the text the handler reads.                    *)
ReadText == IF devno \in TTY THEN Taken(inb[devno]) ELSE <<>>

TakeText ==
  IF devno \in TTY
    THEN /\ inb' = [inb EXCEPT ![devno] = Left(@)]
         /\ got' = [got EXCEPT ![devno] =
                      IF ReadText = <<>> THEN @ ELSE ReadText]
         /\ cut' = [cut EXCEPT ![devno] = NulAt(inb[devno]) # {}]
         /\ torn' = [torn EXCEPT ![devno] = @ \/ (Top.open /\ ReadText # <<>>)]
    ELSE UNCHANGED <<inb, got, cut, torn>>

(* A walk that stays at its subscriber.                                    *)
WalkStays(ws, open) ==
  walks' = [ws EXCEPT ![Len(ws)].run = FALSE, ![Len(ws)].open = open]

(* The innermost of the walks ws goes on to the next subscriber.           *)
WalkOn(ws, open) ==
  walks' = [ws EXCEPT ![Len(ws)].left = @ - 1, ![Len(ws)].run = FALSE,
                      ![Len(ws)].open = open]

(* A call of the handler reads; without a command it is over.              *)
tty_signal_handler ==
  /\ walks # <<>>
  /\ Top.left > 0
  /\ ~Top.run
  /\ TakeText
  /\ IF ReadText = <<>> THEN WalkOn(walks, Top.open)
     ELSE walks' = [walks EXCEPT ![Len(walks)].run = TRUE]
  /\ UNCHANGED <<lineVars, raw, subs, devno, typed>>

(* A subscriber added at the end of t's list lies ahead of every walk that *)
(* is in it.                                                               *)
Lengthened(t) ==
  [i \in 1..Len(walks) |->
     IF walks[i].tty = t THEN [walks[i] EXCEPT !.left = @ + 1] ELSE walks[i]]

(* An attach that puts the new subscriber first in the list.               *)
attachInFront(t) ==
  /\ devno' = t
  /\ subs' = IF t \in TTY THEN [subs EXCEPT ![t] = @ + 1] ELSE subs
  /\ WalkOn(walks, TRUE)

(* attach names a terminal, or nothing that exists, and subscribes to it.  *)
(* The subscription to the old one stays.  set_current_tty takes and       *)
(* releases the scheduler lock.                                            *)
attach(t) ==
  /\ t \in TTY => subs[t] < MaxSubs
  /\ devno' = t
  /\ subs' = IF t \in TTY THEN [subs EXCEPT ![t] = @ + 1] ELSE subs
  /\ WalkOn(Lengthened(t), TRUE)

(* The command runs and the handler returns.  Of the commands that reach a *)
(* terminal, ioctl is modelled as far as it sets the modes (_tty_modes);   *)
(* readd of a terminal, which takes characters from its input ring, and an *)
(* ioctl that subscribes an address are not.  Some of the others use the   *)
(* scheduler.                                                              *)
RunCommand ==
  /\ walks # <<>>
  /\ Top.run
  /\ \/ \E t \in TTY \cup {NoTTY} : attach(t)
     \/ \E lock \in BOOLEAN :
          WalkOn(walks, Top.open \/ lock) /\ UNCHANGED <<devno, subs>>
  /\ UNCHANGED <<lineVars, raw, inb, got, cut, torn, typed>>

(* No subscriber is left: the interrupt is over, and the line if this was  *)
(* the walk of a flush.                                                    *)
WalkReturns ==
  /\ walks # <<>>
  /\ Top.left = 0
  /\ walks' = SubSeq(walks, 1, Len(walks) - 1)
  /\ head' = IF Top.flush THEN [head EXCEPT ![Top.tty] = tail[Top.tty]] ELSE head
  /\ UNCHANGED <<buffer, tail, damaged, crossed, raw, inb, shellVars, torn, typed>>

(* A step of the serial interrupt of t, between its walk's start and end.  *)
WalkStep(t) ==
  /\ walks # <<>>
  /\ Top.tty = t
  /\ tty_signal_handler \/ RunCommand \/ WalkReturns

Next ==
  \/ \E t \in TTY :
       \/ \E c \in Char : Insert(t, c)
       \/ line_discipline_delete_last(t)
       \/ line_discipline_force_flush(t)
       \/ \E b \in Byte : RawByte(t, b)
       \/ t \in RawTTY /\ \E value \in BOOLEAN : _tty_modes(t, value)
       \/ run_shell(t)
  \/ tty_signal_handler
  \/ RunCommand
  \/ WalkReturns

(* The processor takes steps of an interrupted walk between interrupts.    *)
Spec == Init /\ [][Next]_vars /\ \A t \in TTY : SF_vars(WalkStep(t))

-----------------------------------------------------------------------------
(* The line as line_discipline_delete_last's commented-out trace prints    *)
(* it: from head to tail, modulo the size of the buffer.  A line that is   *)
(* being flushed has been given away.                                      *)
Line(t) == [i \in 1..((tail[t] - head[t]) % LineSize) |->
              buffer[t][(head[t] + i - 1) % LineSize]]

Flushing(t) == \E i \in 1..Len(walks) : walks[i].tty = t /\ walks[i].flush

Unsettled(t) == crossed[t] \/ torn[t]

Input == INSTANCE LineInput WITH
           line <- [t \in TTY |-> IF Unsettled(t) \/ Flushing(t) THEN <<>> ELSE Line(t)],
           pending <- [t \in TTY |-> IF Unsettled(t) THEN <<>> ELSE inb[t]],
           got <- [t \in TTY |-> IF Unsettled(t) THEN <<>> ELSE got[t]],
           LineCap <- LineSize - 1, QueueCap <- InSize - 1

(* The shell is given the lines typed at a terminal, edited, in order and  *)
(* each once, until a line goes past the end of its buffer or text is read *)
(* while interrupts are on, and whatever happens at the other terminals    *)
(* (line_discipline.c, tty_write_inb, _tty_read, tty_signal_handler).      *)
TerminalGivesLines ==
  Input!Init /\ [][Input!Next \/ \E t \in TTY : Unsettled(t)' # Unsettled(t)]_(Input!vars)

(* A byte that was not typed arrives at a terminal, or is stored outside   *)
(* its buffer, only when its line went past the end of the buffer: with a  *)
(* character more in a line that begins behind the start of the buffer and *)
(* fills it to the end, or the deletion of the last one of such a line; no *)
(* other sequence of lines, erasures and returns does it, however often    *)
(* the ring is gone around (line_discipline_insert,                        *)
(* line_discipline_delete_last, line_discipline_force_flush).              *)
OnlyTypedBytesArrive ==
  /\ \A t \in TTY : ~crossed[t] => \A i \in 1..Len(inb[t]) : inb[t][i] # Junk
  /\ damaged => \E t \in TTY : crossed[t]

(* When the subscribers of the terminal that the shell reads have run, its *)
(* input ring is empty, unless a read stopped at a NUL: a second           *)
(* subscription, an attach in the middle of the walk or a nested walk      *)
(* leaves no command behind (tty_run_subscribers, attach,                  *)
(* tty_signal_handler).                                                    *)
ServedTerminalIsEmpty ==
  [][ (/\ Len(walks') < Len(walks)
       /\ devno' = Top.tty
       /\ ~cut[Top.tty])
      => inb'[Top.tty] = <<>> ]_vars

(* The walks over the subscribers end although the handler may append to   *)
(* the list it is called from and be interrupted by another terminal       *)
(* (tty_run_subscribers, attach).                                          *)
WalksEnd == walks # <<>> ~> walks = <<>>
=============================================================================
