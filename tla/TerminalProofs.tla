--------------------------- MODULE TerminalProofs ---------------------------
(***************************************************************************)
(* What a terminal delivers, for all sizes, terminals, characters and      *)
(* interrupt priorities: only typed bytes, and the lines its user typed,   *)
(* as long as no line goes past the end of its buffer; and that no command *)
(* waits unread once the subscribers have run.                             *)
(***************************************************************************)
EXTENDS Terminal, SequenceTheorems, WellFoundedInduction, TLAPS

(* Where the text of a line ends that is one run of the buffer: the tail   *)
(* of a line that fills its buffer up to the end is back at 0.             *)
End(h, t) == IF t < h THEN LineSize ELSE t

Whole(h, t) == h \in InBuffer /\ t \in InBuffer /\ (t < h => t = 0)

Typed(b, h, e) == \A i \in h..(e - 1) : b[i] \in Char

(* A line that has not gone past the end of its buffer is one run of typed *)
(* characters, and nothing else has come into its terminal's input ring.   *)
LineInv ==
  /\ buffer \in [TTY -> [InBuffer -> Char \cup {Junk}]]
  /\ head \in [TTY -> Int] /\ tail \in [TTY -> Int]
  /\ inb \in [TTY -> Seq(Byte \cup {Junk})]
  /\ crossed \in [TTY -> BOOLEAN]
  /\ \A t \in TTY : ~crossed[t] =>
       /\ Whole(head[t], tail[t])
       /\ Typed(buffer[t], head[t], End(head[t], tail[t]))
       /\ inb[t] \in Seq(Byte)
  /\ damaged => \E t \in TTY : crossed[t]

LEMMA SizeFacts ==
  /\ LineSize \in Nat /\ LineSize > 2
  /\ InBuffer = 0..(LineSize - 1)
  /\ Char \subseteq Byte /\ Junk \notin Byte
BY TerminalAssumption DEF InBuffer, Byte

(* The remainders of the line discipline.                                  *)
LEMMA RemFacts ==
  /\ \A a \in Int : Rem(a, LineSize) \in Int
  /\ \A d \in InBuffer : Rem(d, LineSize) = d /\ Rem(d + LineSize, LineSize) = d
  /\ Rem(LineSize, LineSize) = 0 /\ Rem(-1, LineSize) = -1
<1> USE SizeFacts
<1>1. \A a \in Int : Rem(a, LineSize) \in Int
  BY DEF Rem
<1>2. ASSUME NEW d \in InBuffer
      PROVE  Rem(d, LineSize) = d /\ Rem(d + LineSize, LineSize) = d
  <2>1. d % LineSize = d
    OBVIOUS
  <2>2. (d + LineSize) % LineSize = d
    OBVIOUS
  <2> QED
    BY <2>1, <2>2 DEF Rem
<1>3. LineSize % LineSize = 0 /\ 1 % LineSize = 1
  OBVIOUS
<1>4. Rem(LineSize, LineSize) = 0 /\ Rem(-1, LineSize) = -1
  BY <1>3 DEF Rem
<1> QED
  BY <1>1, <1>2, <1>4

-----------------------------------------------------------------------------
(* The first NUL, if there is one.                                         *)
LEMMA CutIsFirst ==
  ASSUME NEW S, NEW s \in Seq(S), NulAt(s) # {}
  PROVE  /\ CutAt(s) \in 1..Len(s)
         /\ s[CutAt(s)] = NUL
         /\ \A i \in 1..(CutAt(s) - 1) : s[i] # NUL
<1>1. NulAt(s) \subseteq Nat
  BY DEF NulAt
<1>2. \E i \in NulAt(s) : \A j \in NulAt(s) : <<j, i>> \notin OpToRel(<, Nat)
  BY <1>1, NatLessThanWellFounded, WFMin, Zenon
<1>3. PICK i \in NulAt(s) : \A j \in NulAt(s) : ~(j < i)
  BY <1>1, <1>2 DEF OpToRel
<1>4. \A j \in NulAt(s) : i <= j
  BY <1>1, <1>3
<1>5. CutAt(s) \in NulAt(s) /\ \A j \in NulAt(s) : CutAt(s) <= j
  BY <1>4 DEF CutAt
<1> QED
  BY <1>5 DEF NulAt

(* A read that stops at a NUL leaves a suffix of the ring.                 *)
LEMMA LeftIsSeq ==
  ASSUME NEW S, NEW s \in Seq(S)
  PROVE  Left(s) \in Seq(S)
<1>1. CASE NulAt(s) = {}
  BY <1>1 DEF Left
<1>2. CASE NulAt(s) # {}
  <2>1. CutAt(s) \in 1..Len(s)
    BY <1>2, CutIsFirst
  <2>2. CutAt(s) + 1 \in Int /\ Len(s) \in Int
    BY <2>1
  <2>3. \A k \in (CutAt(s) + 1)..Len(s) : s[k] \in S
    BY <2>1
  <2> QED
    BY <1>2, <2>2, <2>3, SubSeqProperties DEF Left
<1> QED
  BY <1>1, <1>2

(* The input ring keeps a suffix.                                          *)
LEMMA RecentIsSeq ==
  ASSUME NEW S, NEW s \in Seq(S), NEW n \in Nat
  PROVE  Recent(s, n) \in Seq(S)
<1>1. CASE Len(s) <= n
  BY <1>1 DEF Recent
<1>2. CASE ~(Len(s) <= n)
  <2>1. Len(s) - n + 1 \in Int /\ Len(s) \in Int
    OBVIOUS
  <2>2. \A k \in (Len(s) - n + 1)..Len(s) : s[k] \in S
    BY <1>2
  <2> QED
    BY <1>2, <2>1, <2>2, SubSeqProperties DEF Recent
<1> QED
  BY <1>1, <1>2

(* What is put into a ring is in it, and nothing else is new.              *)
LEMMA WriteInbIsSeq ==
  ASSUME LineInv, NEW t \in TTY, NEW S, inb[t] \in Seq(S), NEW text \in Seq(S),
         WriteInb(t, text)
  PROVE  /\ inb'[t] \in Seq(S) /\ DOMAIN inb' = TTY
         /\ \A u \in TTY : u # t => inb'[u] = inb[u]
<1>1. inb[t] \o text \in Seq(S)
  BY ConcatProperties
<1>2. InSize - 1 \in Nat
  BY TerminalAssumption
<1>3. Recent(inb[t] \o text, InSize - 1) \in Seq(S)
  BY <1>1, <1>2, RecentIsSeq
<1> QED
  BY <1>3 DEF WriteInb, LineInv

-----------------------------------------------------------------------------
(* The text of a run of the buffer.                                        *)
Text(b, h, e) == [i \in 1..(e - h) |-> b[h + i - 1]]

LEMMA TextIsSeq ==
  ASSUME NEW b, NEW h \in Nat, NEW e \in Nat, h <= e, Typed(b, h, e)
  PROVE  Text(b, h, e) \in Seq(Byte) /\ Len(Text(b, h, e)) = e - h
<1>1. \A i \in 1..(e - h) : b[h + i - 1] \in Byte
  <2> SUFFICES ASSUME NEW i \in 1..(e - h) PROVE b[h + i - 1] \in Byte
    OBVIOUS
  <2>1. h + i - 1 \in h..(e - 1)
    OBVIOUS
  <2> QED
    BY <2>1 DEF Typed, Byte
<1>2. e - h \in Nat
  OBVIOUS
<1> QED
  BY <1>1, <1>2 DEF Text

(* Where a line that is one run ends.                                      *)
LEMMA EndFacts ==
  ASSUME NEW h, NEW t, Whole(h, t)
  PROVE  /\ h \in Nat /\ t \in Nat /\ End(h, t) \in Nat
         /\ h <= End(h, t) /\ End(h, t) <= LineSize /\ End(h, t) - h < LineSize
         /\ h < LineSize /\ t < LineSize
<1> USE SizeFacts
<1>1. h \in 0..(LineSize - 1) /\ t \in 0..(LineSize - 1) /\ (t < h => t = 0)
  BY DEF Whole
<1> QED
  BY <1>1 DEF End

(* The line, and what a carriage return flushes of it, is its run.         *)
LEMMA LineIsText ==
  ASSUME NEW b, NEW h, NEW t, Whole(h, t)
  PROVE  \A l :
           \/ l = [i \in 1..((t - h) % LineSize) |-> b[(h + i - 1) % LineSize]]
           \/ l = [i \in 1..Rem(t - h + LineSize, LineSize) |->
                    IF h + i - 1 \in InBuffer THEN b[h + i - 1] ELSE Junk]
           => l = Text(b, h, End(h, t))
<1> DEFINE e == End(h, t)
<1> USE SizeFacts
<1>1. /\ h \in Nat /\ t \in Nat /\ e \in Nat /\ h <= e /\ e <= LineSize
      /\ e - h < LineSize /\ (t < h => t = 0) /\ h < LineSize /\ t < LineSize
  BY EndFacts DEF Whole
<1>2. (t - h) % LineSize = e - h /\ Rem(t - h + LineSize, LineSize) = e - h
  <2>1. CASE t < h
    <3>1. t = 0 /\ e = LineSize /\ h > 0
      BY <1>1, <2>1 DEF End
    <3>2. e - h \in InBuffer /\ t - h + LineSize = e - h
      BY <1>1, <3>1
    <3>3. (t - h) % LineSize = e - h
      BY <1>1, <3>1
    <3> QED
      BY <3>2, <3>3, RemFacts
  <2>2. CASE ~(t < h)
    <3>1. e = t
      BY <2>2 DEF End
    <3>2. t - h \in InBuffer /\ (t - h) % LineSize = t - h
      BY <1>1, <2>2
    <3> QED
      BY <3>1, <3>2, RemFacts
  <2> QED
    BY <2>1, <2>2
<1>3. ASSUME NEW i \in 1..(e - h)
      PROVE  h + i - 1 \in InBuffer /\ (h + i - 1) % LineSize = h + i - 1
  <2>1. h + i - 1 \in 0..(LineSize - 1)
    BY <1>1
  <2> QED
    BY <2>1
<1> HIDE DEF e
<1>4. [i \in 1..((t - h) % LineSize) |-> b[(h + i - 1) % LineSize]] = Text(b, h, e)
  BY <1>2, <1>3 DEF Text
<1>5. [i \in 1..Rem(t - h + LineSize, LineSize) |->
         IF h + i - 1 \in InBuffer THEN b[h + i - 1] ELSE Junk] = Text(b, h, e)
  BY <1>2, <1>3 DEF Text
<1> QED
  BY <1>4, <1>5, Zenon DEF e

(* What a line that is one run gives to the terminal was typed.            *)
LEMMA FlushedTextIsSeq ==
  ASSUME LineInv, NEW t \in TTY
  PROVE  /\ FlushedText(t) \in Seq(Byte \cup {Junk})
         /\ ~crossed[t] => FlushedText(t) \in Seq(Byte)
<1> DEFINE size == Rem(tail[t] - head[t] + LineSize, LineSize)
<1>1. /\ buffer[t] \in [InBuffer -> Char \cup {Junk}]
      /\ head[t] \in Int /\ tail[t] \in Int
  BY DEF LineInv
<1>2. size \in Int
  <2>1. tail[t] - head[t] + LineSize \in Int
    BY <1>1, SizeFacts
  <2> QED
    BY <2>1, RemFacts
<1> HIDE DEF size
<1>3. \A i \in 1..size :
        (IF head[t] + i - 1 \in InBuffer THEN buffer[t][head[t] + i - 1] ELSE Junk)
          \in Byte \cup {Junk}
  BY <1>1, SizeFacts
<1>4. [i \in 1..size |-> IF head[t] + i - 1 \in InBuffer
                           THEN buffer[t][head[t] + i - 1] ELSE Junk]
        \in Seq(Byte \cup {Junk})
  <2>1. CASE size \in Nat
    BY <1>3, <2>1
  <2>2. CASE ~(size \in Nat)
    <3>1. 1..size = 1..0
      BY <1>2, <2>2
    <3>2. [i \in 1..size |-> IF head[t] + i - 1 \in InBuffer
                               THEN buffer[t][head[t] + i - 1] ELSE Junk]
            \in [1..0 -> Byte \cup {Junk}]
      BY <1>3, <3>1
    <3> QED
      BY <3>2, SeqDef
  <2> QED
    BY <2>1, <2>2
<1>5. ASSUME ~crossed[t]
      PROVE  FlushedText(t) \in Seq(Byte)
  <2>1. /\ Whole(head[t], tail[t])
        /\ Typed(buffer[t], head[t], End(head[t], tail[t]))
    BY <1>5 DEF LineInv
  <2>2. PICK b, h, k : b = buffer[t] /\ h = head[t] /\ k = tail[t]
    OBVIOUS
  <2>3. FlushedText(t) = [i \in 1..Rem(k - h + LineSize, LineSize) |->
                            IF h + i - 1 \in InBuffer THEN b[h + i - 1] ELSE Junk]
    BY <2>2 DEF FlushedText
  <2>4. Whole(h, k) /\ Typed(b, h, End(h, k))
    BY <2>1, <2>2
  <2>5. FlushedText(t) = Text(b, h, End(h, k))
    BY <2>3, <2>4, LineIsText
  <2> QED
    BY <2>4, <2>5, EndFacts, TextIsSeq
<1> QED
  BY <1>4, <1>5 DEF FlushedText, size

(* An inserted character prolongs a run up to the end of the buffer, drops *)
(* the first character of a run that has the buffer to itself, or crosses  *)
(* its end.                                                                *)
LEMMA InsertCases ==
  ASSUME LineInv, NEW t \in TTY, NEW c \in Char, line_discipline_insert(t, c),
         ~crossed'[t]
  PROVE  LET h == head[t]
             e == End(h, tail[t])
         IN /\ ~crossed[t] /\ tail[t] \in InBuffer /\ e = tail[t]
            /\ buffer' = [buffer EXCEPT ![t][e] = c]
            /\ Whole(head'[t], tail'[t])
            /\ End(head'[t], tail'[t]) = e + 1
            /\ head'[t] = IF e + 1 - h = LineSize THEN h + 1 ELSE h
            /\ e + 1 - h = LineSize => h = 0
<1> USE SizeFacts
<1> DEFINE h == head[t]
           tl == tail[t]
           next == Rem(tl + 1, LineSize)
<1>1. /\ tail'[t] = next
      /\ head'[t] = IF next = h THEN Rem(h + 1, LineSize) ELSE h
      /\ crossed'[t] = (crossed[t] \/ Crosses(head'[t], next))
  BY DEF line_discipline_insert, LineInv
<1>2. ~crossed[t] /\ ~Crosses(head'[t], next)
  BY <1>1
<1>3. /\ h \in Nat /\ tl \in Nat /\ h < LineSize /\ tl < LineSize /\ (tl < h => tl = 0)
      /\ tl \in InBuffer
  BY <1>2, EndFacts DEF LineInv, Whole
<1>4. buffer' = [buffer EXCEPT ![t][tl] = c]
  BY <1>3 DEF line_discipline_insert
<1>5. tl + 1 < LineSize => next = tl + 1
  BY <1>3, RemFacts
<1>6. tl + 1 = LineSize => next = 0
  BY <1>3, RemFacts
<1>7. Rem(1, LineSize) = 1 /\ Rem(2, LineSize) = 2
  BY RemFacts
<1>8. ~(tl < h)
  <2> SUFFICES ASSUME tl < h PROVE FALSE
    OBVIOUS
  <2>1. next = 1 /\ tl = 0
    BY <1>3, <1>5
  <2>2. head'[t] = IF h = 1 THEN 2 ELSE h
    BY <1>1, <1>7, <2>1
  <2> QED
    BY <1>2, <1>3, <2>1, <2>2 DEF Crosses
<1>9. End(h, tl) = tl
  BY <1>8 DEF End
<1>10. CASE tl + 1 < LineSize
  <2>1. head'[t] = h /\ tail'[t] = tl + 1
    BY <1>1, <1>3, <1>5, <1>8, <1>10
  <2> QED
    BY <1>2, <1>3, <1>4, <1>8, <1>9, <1>10, <2>1 DEF Whole, End
<1>11. CASE tl + 1 = LineSize
  <2>1. tail'[t] = 0 /\ head'[t] = IF h = 0 THEN 1 ELSE h
    BY <1>1, <1>6, <1>7, <1>11
  <2> QED
    BY <1>2, <1>3, <1>4, <1>8, <1>9, <1>11, <2>1 DEF Whole, End
<1> QED
  BY <1>3, <1>10, <1>11

-----------------------------------------------------------------------------
LEMMA InitLineInv == Init => LineInv
<1> SUFFICES ASSUME Init PROVE LineInv
  OBVIOUS
<1> USE SizeFacts
<1>1. buffer \in [TTY -> [InBuffer -> Char \cup {Junk}]]
  BY DEF Init
<1>2. /\ head \in [TTY -> Int] /\ tail \in [TTY -> Int] /\ crossed \in [TTY -> BOOLEAN]
      /\ ~damaged
  BY DEF Init
<1>3. <<>> \in Seq(Byte) /\ <<>> \in Seq(Byte \cup {Junk})
  OBVIOUS
<1>4. inb \in [TTY -> Seq(Byte \cup {Junk})]
  BY <1>3 DEF Init
<1>5. ASSUME NEW t \in TTY
      PROVE  /\ Whole(head[t], tail[t])
             /\ Typed(buffer[t], head[t], End(head[t], tail[t]))
             /\ inb[t] \in Seq(Byte)
  <2>1. head[t] = 0 /\ tail[t] = 0 /\ inb[t] = <<>>
    BY <1>5 DEF Init
  <2>2. End(0, 0) = 0 /\ Whole(0, 0)
    BY DEF End, Whole
  <2> QED
    BY <1>3, <2>1, <2>2 DEF Typed
<1> QED
  BY <1>1, <1>2, <1>4, <1>5 DEF LineInv

(* What a step must show of the terminals whose line stays one run.        *)
LEMMA InsertLineInv ==
  ASSUME LineInv, NEW t \in TTY, NEW c \in Char, Insert(t, c)
  PROVE  LineInv'
<1> USE SizeFacts
<1>1. line_discipline_insert(t, c) /\ inb' = inb
  BY DEF Insert
<1>2. buffer' \in [TTY -> [InBuffer -> Char \cup {Junk}]]
  <2>1. CASE tail[t] \in InBuffer
    <3>1. buffer' = [buffer EXCEPT ![t][tail[t]] = c]
      BY <1>1, <2>1 DEF line_discipline_insert
    <3> QED
      BY <2>1, <3>1 DEF LineInv
  <2>2. CASE tail[t] \notin InBuffer
    BY <1>1, <2>2 DEF LineInv, line_discipline_insert
  <2> QED
    BY <2>1, <2>2
<1>3. /\ head' \in [TTY -> Int] /\ tail' \in [TTY -> Int]
      /\ \A u \in TTY : u # t => head'[u] = head[u] /\ tail'[u] = tail[u]
                                 /\ buffer'[u] = buffer[u]
  <2>1. head[t] \in Int /\ tail[t] \in Int
    BY DEF LineInv
  <2>2. head[t] + 1 \in Int /\ tail[t] + 1 \in Int
    BY <2>1
  <2>3. Rem(tail[t] + 1, LineSize) \in Int /\ Rem(head[t] + 1, LineSize) \in Int
    BY <2>2, RemFacts
  <2> QED
    BY <1>1, <2>1, <2>3 DEF LineInv, line_discipline_insert
<1>4. /\ crossed' \in [TTY -> BOOLEAN]
      /\ \A u \in TTY : u # t => crossed'[u] = crossed[u]
      /\ crossed[t] => crossed'[t]
  BY <1>1 DEF LineInv, line_discipline_insert, Crosses
<1>5. ASSUME ~crossed'[t]
      PROVE  /\ Whole(head'[t], tail'[t])
             /\ Typed(buffer'[t], head'[t], End(head'[t], tail'[t]))
             /\ inb'[t] \in Seq(Byte)
  <2>1. PICK h, e : h = head[t] /\ e = End(h, tail[t])
    OBVIOUS
  <2>2. /\ ~crossed[t] /\ tail[t] \in InBuffer /\ e = tail[t]
        /\ buffer' = [buffer EXCEPT ![t][e] = c]
        /\ Whole(head'[t], tail'[t])
        /\ End(head'[t], tail'[t]) = e + 1
        /\ head'[t] = IF e + 1 - h = LineSize THEN h + 1 ELSE h
    BY <1>1, <1>5, <2>1, InsertCases
  <2>3. Whole(h, tail[t]) /\ Typed(buffer[t], h, e) /\ inb'[t] \in Seq(Byte)
    BY <1>1, <2>1, <2>2 DEF LineInv
  <2>4. h \in Nat /\ e \in Nat /\ e < LineSize
    BY <2>2, <2>3, EndFacts
  <2>5. ASSUME NEW i \in head'[t]..e
        PROVE  buffer'[t][i] \in Char
    <3>1. i = e \/ i \in h..(e - 1)
      BY <2>2, <2>4
    <3>2. \A j \in InBuffer : buffer'[t][j] = IF j = e THEN c ELSE buffer[t][j]
      BY <2>2 DEF LineInv
    <3>3. i \in InBuffer
      BY <2>4, <3>1
    <3> QED
      BY <2>3, <3>1, <3>2, <3>3 DEF Typed
  <2>6. e + 1 - 1 = e
    BY <2>4
  <2> QED
    BY <2>2, <2>3, <2>5, <2>6 DEF Typed
<1>6. damaged' => \E u \in TTY : crossed'[u]
  <2>1. CASE tail[t] \in InBuffer
    <3>1. damaged' <=> damaged
      BY <1>1, <2>1 DEF line_discipline_insert
    <3> QED
      BY <1>4, <3>1 DEF LineInv
  <2>2. CASE tail[t] \notin InBuffer
    <3>1. crossed[t]
      BY <2>2 DEF LineInv, Whole
    <3> QED
      BY <1>4, <3>1
  <2> QED
    BY <2>1, <2>2
<1> QED
  BY <1>1, <1>2, <1>3, <1>4, <1>5, <1>6 DEF LineInv

(* A deletion shortens a run from its end, or crosses the start.           *)
LEMMA DeleteCases ==
  ASSUME LineInv, NEW t \in TTY, line_discipline_delete_last(t), ~crossed'[t]
  PROVE  /\ ~crossed[t] /\ Whole(head[t], tail'[t])
         /\ tail'[t] = tail[t] - 1 /\ head[t] <= tail[t] - 1
         /\ End(head[t], tail[t]) = tail[t] /\ End(head[t], tail'[t]) = tail[t] - 1
<1> USE SizeFacts
<1> DEFINE h == head[t]
           tl == tail[t]
           last == Rem(tl - 1, LineSize)
<1>1. /\ tl # h /\ tail'[t] = last
      /\ crossed'[t] = (crossed[t] \/ Crosses(h, last))
  BY DEF line_discipline_delete_last, LineInv
<1>2. ~crossed[t] /\ ~Crosses(h, last)
  BY <1>1
<1>3. h \in 0..(LineSize - 1) /\ tl \in 0..(LineSize - 1) /\ (tl < h => tl = 0)
  BY <1>2 DEF LineInv, Whole
<1>4. tl # 0
  <2> SUFFICES ASSUME tl = 0 PROVE FALSE
    OBVIOUS
  <2>1. last = -1
    BY RemFacts
  <2> QED
    BY <1>2, <2>1 DEF Crosses
<1>5. tl - 1 \in InBuffer
  BY <1>3, <1>4
<1>6. last = tl - 1
  BY <1>5, RemFacts
<1> QED
  BY <1>1, <1>2, <1>3, <1>4, <1>5, <1>6 DEF Whole, End

LEMMA DeleteLineInv ==
  ASSUME LineInv, NEW t \in TTY, line_discipline_delete_last(t)
  PROVE  LineInv'
<1> USE SizeFacts
<1>1. /\ buffer' = buffer /\ head' = head /\ damaged' = damaged /\ inb' = inb
      /\ tail' = [tail EXCEPT ![t] = Rem(tail[t] - 1, LineSize)]
  BY DEF line_discipline_delete_last
<1>2. tail' \in [TTY -> Int]
  <2>1. tail[t] - 1 \in Int
    BY DEF LineInv
  <2>2. Rem(tail[t] - 1, LineSize) \in Int
    BY <2>1, RemFacts
  <2> QED
    BY <1>1, <2>2 DEF LineInv
<1>3. /\ crossed' \in [TTY -> BOOLEAN]
      /\ \A u \in TTY : u # t => crossed'[u] = crossed[u]
      /\ crossed[t] => crossed'[t]
  BY DEF LineInv, line_discipline_delete_last, Crosses
<1>4. ASSUME ~crossed'[t]
      PROVE  /\ Whole(head'[t], tail'[t])
             /\ Typed(buffer'[t], head'[t], End(head'[t], tail'[t]))
             /\ inb'[t] \in Seq(Byte)
  <2>1. /\ ~crossed[t] /\ Whole(head[t], tail'[t])
        /\ End(head[t], tail[t]) = tail[t] /\ End(head[t], tail'[t]) = tail[t] - 1
    BY <1>4, DeleteCases
  <2>2. Typed(buffer[t], head[t], tail[t]) /\ inb[t] \in Seq(Byte)
        /\ tail[t] \in Int /\ head[t] \in Int
    BY <2>1 DEF LineInv
  <2>3. Typed(buffer[t], head[t], tail[t] - 1)
    BY <2>2 DEF Typed
  <2> QED
    BY <1>1, <2>1, <2>2, <2>3
<1>5. damaged' => \E u \in TTY : crossed'[u]
  BY <1>1, <1>3 DEF LineInv
<1> QED
  BY <1>1, <1>2, <1>3, <1>4, <1>5 DEF LineInv

(* A text that goes into a ring was typed if the line was one run.         *)
LEMMA RingLineInv ==
  ASSUME LineInv, NEW t \in TTY, NEW text \in Seq(Byte \cup {Junk}),
         ~crossed[t] => text \in Seq(Byte), WriteInb(t, text), UNCHANGED lineVars
  PROVE  LineInv'
<1>1. /\ inb'[t] \in Seq(Byte \cup {Junk}) /\ DOMAIN inb' = TTY
      /\ \A u \in TTY : u # t => inb'[u] = inb[u]
  <2>1. inb[t] \in Seq(Byte \cup {Junk})
    BY DEF LineInv
  <2> QED
    BY <2>1, WriteInbIsSeq
<1>2. ~crossed[t] => inb'[t] \in Seq(Byte)
  <2> SUFFICES ASSUME ~crossed[t] PROVE inb'[t] \in Seq(Byte)
    OBVIOUS
  <2>1. inb[t] \in Seq(Byte)
    BY DEF LineInv
  <2> QED
    BY <2>1, WriteInbIsSeq
<1>3. inb' \in [TTY -> Seq(Byte \cup {Junk})]
  <2>1. inb' = [inb EXCEPT ![t] = inb'[t]]
    BY DEF WriteInb, LineInv
  <2> QED
    BY <1>1, <2>1 DEF LineInv
<1> QED
  BY <1>1, <1>2, <1>3 DEF LineInv, lineVars

LEMMA NextLineInv ==
  ASSUME LineInv, [Next]_vars
  PROVE  LineInv'
<1>1. ASSUME NEW t \in TTY, line_discipline_force_flush(t)
      PROVE  LineInv'
  BY <1>1, FlushedTextIsSeq, RingLineInv DEF line_discipline_force_flush
<1>2. ASSUME NEW t \in TTY, NEW b \in Byte, RawByte(t, b)
      PROVE  LineInv'
  <2>1. <<b>> \in Seq(Byte) /\ <<b>> \in Seq(Byte \cup {Junk})
    OBVIOUS
  <2> QED
    BY <1>2, <2>1, RingLineInv DEF RawByte
<1>3. CASE UNCHANGED <<lineVars, inb>>
  BY <1>3 DEF LineInv, lineVars
<1>4. ASSUME NEW t \in TTY, NEW value \in BOOLEAN, _tty_modes(t, value)
      PROVE  LineInv'
  BY <1>3, <1>4 DEF _tty_modes
<1>5. ASSUME NEW t \in TTY, run_shell(t)
      PROVE  LineInv'
  BY <1>3, <1>5 DEF run_shell
<1>6. CASE tty_signal_handler
  <2>1. TakeText /\ UNCHANGED lineVars
    BY <1>6 DEF tty_signal_handler
  <2>2. CASE devno \in TTY
    <3>1. inb' = [inb EXCEPT ![devno] = Left(inb[devno])]
      BY <2>1, <2>2 DEF TakeText
    <3>2. /\ Left(inb[devno]) \in Seq(Byte \cup {Junk})
          /\ ~crossed[devno] => Left(inb[devno]) \in Seq(Byte)
      BY <2>2, LeftIsSeq DEF LineInv
    <3>3. inb' \in [TTY -> Seq(Byte \cup {Junk})]
      BY <2>2, <3>1, <3>2 DEF LineInv
    <3>4. \A t \in TTY : ~crossed[t] => inb'[t] \in Seq(Byte)
      BY <2>2, <3>1, <3>2 DEF LineInv
    <3> QED
      BY <2>1, <3>3, <3>4 DEF LineInv, lineVars
  <2>3. CASE devno \notin TTY
    BY <1>3, <2>1, <2>3 DEF TakeText
  <2> QED
    BY <2>2, <2>3
<1>7. CASE RunCommand
  BY <1>3, <1>7 DEF RunCommand
<1>8. CASE WalkReturns
  <2>1. UNCHANGED <<buffer, tail, damaged, crossed, inb>>
    BY <1>8 DEF WalkReturns
  <2>2. head' = head \/ head' = [head EXCEPT ![Top.tty] = tail[Top.tty]]
    BY <1>8 DEF WalkReturns
  <2>3. ASSUME NEW t \in TTY
        PROVE  head'[t] \in Int /\ (head'[t] = head[t] \/ head'[t] = tail[t])
    BY <2>2 DEF LineInv
  <2>4. head' \in [TTY -> Int]
    BY <2>2, <2>3 DEF LineInv
  <2>5. ASSUME NEW t \in TTY, ~crossed[t]
        PROVE  /\ Whole(head'[t], tail[t])
               /\ Typed(buffer[t], head'[t], End(head'[t], tail[t]))
    <3>1. CASE head'[t] = head[t]
      BY <2>5, <3>1 DEF LineInv
    <3>2. CASE head'[t] = tail[t]
      <4>1. tail[t] \in InBuffer /\ tail[t] \in Int
        BY <2>5 DEF LineInv, Whole
      <4>2. Whole(tail[t], tail[t]) /\ End(tail[t], tail[t]) = tail[t]
        BY <4>1 DEF Whole, End
      <4>3. Typed(buffer[t], tail[t], tail[t])
        BY <4>1 DEF Typed
      <4> QED
        BY <3>2, <4>2, <4>3
    <3> QED
      BY <2>3, <3>1, <3>2
  <2> QED
    BY <2>1, <2>4, <2>5 DEF LineInv
<1>9. CASE UNCHANGED vars
  BY <1>3, <1>9 DEF vars, lineVars
<1> QED
  BY <1>1, <1>2, <1>4, <1>5, <1>6, <1>7, <1>8, <1>9, InsertLineInv, DeleteLineInv DEF Next

(* A byte that was not typed arrives at a terminal, or is stored outside   *)
(* its buffer, only after a line went past the end of its buffer, for all  *)
(* terminals, characters and sizes and however often the ring is gone      *)
(* around (line_discipline_insert, line_discipline_delete_last,            *)
(* line_discipline_force_flush).                                           *)
THEOREM TypedBytesArrive == Spec => []OnlyTypedBytesArrive
<1>1. LineInv => OnlyTypedBytesArrive
  <2> SUFFICES ASSUME LineInv PROVE OnlyTypedBytesArrive
    OBVIOUS
  <2>1. Junk \notin Byte
    BY SizeFacts
  <2>2. ASSUME NEW t \in TTY, ~crossed[t], NEW i \in 1..Len(inb[t])
        PROVE  inb[t][i] # Junk
    <3>1. inb[t] \in Seq(Byte)
      BY <2>2 DEF LineInv
    <3> QED
      BY <2>1, <3>1
  <2> QED
    BY <2>2 DEF OnlyTypedBytesArrive, LineInv
<1>2. LineInv /\ [Next]_vars => LineInv'
  BY NextLineInv
<1> QED
  BY <1>1, <1>2, InitLineInv, PTL DEF Spec

-----------------------------------------------------------------------------
(***************************************************************************)
(* What waits in the ring of the terminal that the shell reads has a read  *)
(* to come in every walk over that terminal's subscribers, or in one       *)
(* nested in it.                                                           *)
(***************************************************************************)
Walk == [tty : TTY, left : Nat, run : BOOLEAN, open : BOOLEAN, flush : BOOLEAN]

WalkShapes ==
  /\ walks \in Seq(Walk)
  /\ \A i \in 1..Len(walks) : walks[i].run => walks[i].left > 0
  /\ subs \in [TTY -> Nat] /\ devno \in TTY \cup {NoTTY}
  /\ devno \in TTY => subs[devno] > 0
  /\ DOMAIN inb = TTY /\ DOMAIN cut = TTY

\* The walk w calls the handler again, after the call that is running.
ReadsAgain(w) == w.left > IF w.run THEN 1 ELSE 0

Unread == devno \in TTY /\ ~cut[devno] /\ inb[devno] # <<>>

ReadIsToCome ==
  Unread => \A i \in 1..Len(walks) : walks[i].tty = devno =>
              \E j \in i..Len(walks) : walks[j].tty = devno /\ ReadsAgain(walks[j])

WalkInv == WalkShapes /\ ReadIsToCome

\* A step inside the innermost walk.
SameWalks ==
  /\ Len(walks') = Len(walks)
  /\ \A i \in 1..Len(walks) : walks'[i].tty = walks[i].tty
                             /\ walks'[i].flush = walks[i].flush

\* The fields of a walk that change.
LEMMA SetLeft ==
  \A w, a, l, r, p, f, x :
    w = [tty |-> a, left |-> l, run |-> r, open |-> p, flush |-> f] =>
      [w EXCEPT !.left = x] = [tty |-> a, left |-> x, run |-> r, open |-> p, flush |-> f]
OBVIOUS

LEMMA SetRunOpen ==
  \A w, a, l, r, p, f, x :
    w = [tty |-> a, left |-> l, run |-> r, open |-> p, flush |-> f] =>
      /\ [w EXCEPT !.run = x] = [tty |-> a, left |-> l, run |-> x, open |-> p, flush |-> f]
      /\ [w EXCEPT !.open = x] = [tty |-> a, left |-> l, run |-> r, open |-> x, flush |-> f]
OBVIOUS

\* A walk that goes on to its next subscriber.
LEMMA WalkOnFields ==
  ASSUME NEW ws \in Seq(Walk), ws # <<>>, ws[Len(ws)].left > 0, NEW o \in BOOLEAN,
         WalkOn(ws, o)
  PROVE  /\ walks' \in Seq(Walk) /\ Len(walks') = Len(ws)
         /\ \A i \in 1..Len(ws) : i # Len(ws) => walks'[i] = ws[i]
         /\ walks'[Len(ws)].tty = ws[Len(ws)].tty
         /\ walks'[Len(ws)].left = ws[Len(ws)].left - 1
         /\ walks'[Len(ws)].run = FALSE
         /\ walks'[Len(ws)].flush = ws[Len(ws)].flush
<1>1. Len(ws) \in 1..Len(ws) /\ ws[Len(ws)] \in Walk /\ Len(ws) \in Nat
  <2>1. Len(ws) \in Nat /\ Len(ws) # 0
    OBVIOUS
  <2> QED
    BY <2>1, ElementOfSeq
<1>2. PICK n, w : n = Len(ws) /\ w = ws[Len(ws)]
  OBVIOUS
<1> DEFINE v == [tty |-> w.tty, left |-> w.left - 1, run |-> FALSE, open |-> o,
                flush |-> w.flush]
<1>3. v \in Walk
  BY <1>1, <1>2 DEF Walk
<1>4. walks' = [ws EXCEPT ![n] = v]
  <2>1. w = [tty |-> w.tty, left |-> w.left, run |-> w.run, open |-> w.open, flush |-> w.flush]
    BY <1>1, <1>2 DEF Walk
  <2>2. PICK ws1, ws2, w1, w2 :
          /\ ws1 = [ws EXCEPT ![n].left = @ - 1] /\ ws2 = [ws1 EXCEPT ![n].run = FALSE]
          /\ w1 = [w EXCEPT !.left = @ - 1] /\ w2 = [w1 EXCEPT !.run = FALSE]
    OBVIOUS
  <2>3. walks' = [ws2 EXCEPT ![n].open = o]
    BY <1>2, <2>2 DEF WalkOn
  <2>4. n \in DOMAIN ws /\ DOMAIN ws1 = DOMAIN ws /\ DOMAIN ws2 = DOMAIN ws
    BY <1>1, <1>2, <2>2
  <2>5. ws1 = [ws EXCEPT ![n] = w1] /\ ws1[n] = w1
    BY <1>2, <2>2, <2>4
  <2>6. ws2 = [ws EXCEPT ![n] = w2] /\ ws2[n] = w2
    BY <2>2, <2>4, <2>5
  <2>7. walks' = [ws EXCEPT ![n] = [w2 EXCEPT !.open = o]]
    BY <2>3, <2>4, <2>6
  <2>8. w1 = [tty |-> w.tty, left |-> w.left - 1, run |-> w.run, open |-> w.open, flush |-> w.flush]
    BY <2>1, <2>2, SetLeft
  <2>9. w2 = [tty |-> w.tty, left |-> w.left - 1, run |-> FALSE, open |-> w.open, flush |-> w.flush]
    BY <2>2, <2>8, SetRunOpen
  <2>10. [w2 EXCEPT !.open = o] = v
    <3>1. PICK a, l, r, x, f : a = w.tty /\ l = w.left - 1 /\ r = FALSE /\ x = o
                             /\ f = w.flush
      OBVIOUS
    <3>2. w2 = [tty |-> a, left |-> l, run |-> r, open |-> w.open, flush |-> f]
      BY <2>9, <3>1, Zenon
    <3>3. [w2 EXCEPT !.open = x] = [tty |-> a, left |-> l, run |-> r, open |-> x, flush |-> f]
      BY <3>2, SetRunOpen
    <3> QED
      BY <3>1, <3>3, Zenon
  <2> QED
    BY <2>7, <2>10
<1> HIDE DEF v
<1>5. /\ walks' \in Seq(Walk) /\ Len(walks') = Len(ws)
      /\ \A i \in 1..Len(ws) : i # n => walks'[i] = ws[i]
      /\ walks'[n] = v
  BY <1>1, <1>2, <1>3, <1>4, ExceptSeq
<1> QED
  BY <1>2, <1>5 DEF v

\* A new subscriber lies ahead of every walk over its list.
LEMMA LengthenedFields ==
  ASSUME walks \in Seq(Walk), NEW t
  PROVE  /\ Lengthened(t) \in Seq(Walk) /\ Len(Lengthened(t)) = Len(walks)
         /\ \A i \in 1..Len(walks) :
              /\ Lengthened(t)[i].tty = walks[i].tty
              /\ Lengthened(t)[i].run = walks[i].run
              /\ Lengthened(t)[i].flush = walks[i].flush
              /\ Lengthened(t)[i].left =
                   IF walks[i].tty = t THEN walks[i].left + 1 ELSE walks[i].left
<1>1. ASSUME NEW i \in 1..Len(walks)
      PROVE  /\ Lengthened(t)[i] \in Walk
             /\ Lengthened(t)[i].tty = walks[i].tty
             /\ Lengthened(t)[i].run = walks[i].run
             /\ Lengthened(t)[i].flush = walks[i].flush
             /\ Lengthened(t)[i].left =
                  IF walks[i].tty = t THEN walks[i].left + 1 ELSE walks[i].left
  <2>1. walks[i] \in Walk
    BY ElementOfSeq
  <2>2. PICK w \in Walk : w = walks[i]
    BY <2>1
  <2>3. Lengthened(t)[i] = IF w.tty = t THEN [w EXCEPT !.left = @ + 1] ELSE w
    BY <2>2 DEF Lengthened
  <2>4. PICK v : v = [w EXCEPT !.left = @ + 1]
    OBVIOUS
  <2>5. v \in Walk /\ v.tty = w.tty /\ v.run = w.run /\ v.left = w.left + 1
        /\ v.flush = w.flush
    <3>1. w = [tty |-> w.tty, left |-> w.left, run |-> w.run, open |-> w.open, flush |-> w.flush]
      BY DEF Walk
    <3>2. v = [tty |-> w.tty, left |-> w.left + 1, run |-> w.run, open |-> w.open, flush |-> w.flush]
      BY <2>4, <3>1, SetLeft
    <3>3. w.tty \in TTY /\ w.left \in Nat /\ w.run \in BOOLEAN /\ w.open \in BOOLEAN
          /\ w.flush \in BOOLEAN
      BY DEF Walk
    <3>4. v \in Walk
      BY <3>2, <3>3 DEF Walk
    <3> QED
      BY <3>2, <3>4
  <2> QED
    BY <2>2, <2>3, <2>4, <2>5
<1>2. Len(walks) \in Nat /\ DOMAIN Lengthened(t) = 1..Len(walks)
  BY DEF Lengthened
<1>3. Lengthened(t) \in [1..Len(walks) -> Walk]
  BY <1>1 DEF Lengthened
<1>4. Lengthened(t) \in Seq(Walk) /\ Len(Lengthened(t)) = Len(walks)
  BY <1>2, <1>3, LenProperties
<1> QED
  BY <1>1, <1>4

\* A walk that starts reads, when it is the one the shell waits for.
LEMMA StartWalkStep ==
  ASSUME WalkInv, NEW t \in TTY, NEW text, NEW flush \in BOOLEAN,
         WriteInb(t, text), StartWalk(t, flush), UNCHANGED shellVars
  PROVE  WalkInv'
<1>1. PICK w : w = [tty |-> t, left |-> subs[t], run |-> FALSE, open |-> FALSE,
                   flush |-> flush]
  OBVIOUS
<1>2. w \in Walk /\ w.tty = t /\ w.left = subs[t] /\ w.run = FALSE
  BY <1>1 DEF WalkInv, WalkShapes, Walk
<1>3. walks \in Seq(Walk) /\ walks' = Append(walks, w)
  BY <1>1 DEF WalkInv, WalkShapes, StartWalk
<1>4. /\ walks' \in Seq(Walk) /\ Len(walks') = Len(walks) + 1 /\ Len(walks) \in Nat
      /\ \A i \in 1..Len(walks) : walks'[i] = walks[i]
      /\ walks'[Len(walks) + 1] = w
  BY <1>2, <1>3, AppendProperties
<1>5. /\ DOMAIN inb' = TTY /\ DOMAIN cut' = TTY
      /\ devno' = devno /\ subs' = subs /\ cut' = cut
      /\ \A u \in TTY : u # t => inb'[u] = inb[u]
  BY DEF WalkInv, WalkShapes, WriteInb, shellVars
<1>6. WalkShapes'
  <2>1. \A i \in 1..Len(walks') : walks'[i].run => walks'[i].left > 0
    <3> TAKE i \in 1..Len(walks')
    <3>1. CASE i \in 1..Len(walks)
      BY <1>4, <3>1 DEF WalkInv, WalkShapes
    <3>2. CASE i = Len(walks) + 1
      BY <1>2, <1>4, <3>2
    <3> QED
      BY <1>4, <3>1, <3>2
  <2> QED
    BY <1>4, <1>5, <2>1 DEF WalkInv, WalkShapes
<1>7. ReadIsToCome'
  <2>1. SUFFICES ASSUME Unread', NEW i \in 1..Len(walks'), walks'[i].tty = devno'
                 PROVE  \E j \in i..Len(walks') :
                          walks'[j].tty = devno' /\ ReadsAgain(walks'[j])
    BY DEF ReadIsToCome
  <2>2. CASE devno = t
    <3>1. subs[t] > 0
      BY <2>2 DEF WalkInv, WalkShapes
    <3>2. ReadsAgain(w)
      BY <1>2, <3>1 DEF ReadsAgain
    <3>3. Len(walks) + 1 \in i..Len(walks')
      BY <1>4
    <3> QED
      BY <1>2, <1>4, <1>5, <2>2, <3>2, <3>3
  <2>3. CASE devno # t
    <3>1. Unread
      BY <1>5, <2>1, <2>3 DEF Unread
    <3>2. i \in 1..Len(walks) /\ walks[i].tty = devno
      BY <1>2, <1>4, <1>5, <2>1, <2>3
    <3>3. PICK j \in i..Len(walks) : walks[j].tty = devno /\ ReadsAgain(walks[j])
      BY <3>1, <3>2 DEF WalkInv, ReadIsToCome
    <3>4. j \in i..Len(walks') /\ walks'[j] = walks[j]
      BY <1>4, <3>2, <3>3
    <3> QED
      BY <1>5, <3>3, <3>4
  <2> QED
    BY <2>2, <2>3
<1> QED
  BY <1>6, <1>7 DEF WalkInv

\* The innermost walk.
LEMMA TopIsAWalk ==
  ASSUME WalkShapes, walks # <<>>
  PROVE  /\ Len(walks) \in 1..Len(walks) /\ Len(walks) \in Nat
         /\ Top = walks[Len(walks)] /\ Top \in Walk
         /\ Top.tty \in TTY /\ Top.left \in Nat /\ Top.run \in BOOLEAN
         /\ Top.open \in BOOLEAN /\ (Top.run => Top.left > 0)
<1>1. walks \in Seq(Walk) /\ Len(walks) \in Nat /\ Len(walks) # 0
  BY DEF WalkShapes
<1>2. Len(walks) \in 1..Len(walks)
  BY <1>1
<1>3. walks[Len(walks)] \in Walk
  BY <1>1, <1>2, ElementOfSeq
<1>4. walks[Len(walks)].run => walks[Len(walks)].left > 0
  BY <1>2 DEF WalkShapes
<1>5. \A w \in Walk : w.tty \in TTY /\ w.left \in Nat /\ w.run \in BOOLEAN /\ w.open \in BOOLEAN
  BY DEF Walk
<1> QED
  BY <1>1, <1>2, <1>3, <1>4, <1>5, Zenon DEF Top

\* A read empties the ring of the terminal that the shell reads, or is cut.
LEMMA HandlerStep ==
  ASSUME WalkInv, tty_signal_handler
  PROVE  WalkInv' /\ SameWalks
<1>0. WalkShapes
  BY DEF WalkInv
<1>1. /\ walks # <<>> /\ Top.left > 0 /\ ~Top.run /\ TakeText
      /\ subs' = subs /\ devno' = devno
  BY DEF tty_signal_handler
<1>2. /\ Len(walks) \in 1..Len(walks) /\ Top = walks[Len(walks)] /\ Top \in Walk
      /\ Top.open \in BOOLEAN /\ walks \in Seq(Walk) /\ Len(walks) \in Nat
  <2>1. walks \in Seq(Walk)
    BY <1>0 DEF WalkShapes
  <2> QED
    BY <1>0, <1>1, <2>1, TopIsAWalk, Zenon
<1>3. /\ walks' \in Seq(Walk) /\ Len(walks') = Len(walks)
      /\ \A i \in 1..Len(walks) : i # Len(walks) => walks'[i] = walks[i]
      /\ walks'[Len(walks)].run => walks'[Len(walks)].left > 0
      /\ walks'[Len(walks)].tty = walks[Len(walks)].tty
      /\ walks'[Len(walks)].flush = walks[Len(walks)].flush
  <2>1. CASE ReadText = <<>>
    <3>1. WalkOn(walks, Top.open)
      BY <2>1 DEF tty_signal_handler
    <3>2. walks[Len(walks)].left > 0
      BY <1>1, <1>2
    <3>3. /\ walks' \in Seq(Walk) /\ Len(walks') = Len(walks)
          /\ \A i \in 1..Len(walks) : i # Len(walks) => walks'[i] = walks[i]
          /\ walks'[Len(walks)].run = FALSE
          /\ walks'[Len(walks)].tty = walks[Len(walks)].tty
          /\ walks'[Len(walks)].flush = walks[Len(walks)].flush
      BY <1>1, <1>2, <3>1, <3>2, WalkOnFields
    <3> QED
      BY <3>3
  <2>2. CASE ReadText # <<>>
    <3>1. walks' = [walks EXCEPT ![Len(walks)].run = TRUE]
      BY <2>2 DEF tty_signal_handler
    <3>2. PICK n, w : n = Len(walks) /\ w = walks[n]
      OBVIOUS
    <3>3. PICK v : v = [w EXCEPT !.run = TRUE]
      OBVIOUS
    <3>4. w \in Walk /\ w.left > 0
      BY <1>1, <1>2, <3>2
    <3>5. v = [tty |-> w.tty, left |-> w.left, run |-> TRUE, open |-> w.open, flush |-> w.flush]
      <4>1. w = [tty |-> w.tty, left |-> w.left, run |-> w.run, open |-> w.open, flush |-> w.flush]
        BY <3>4 DEF Walk
      <4> QED
        BY <3>3, <4>1, SetRunOpen
    <3>6. v \in Walk /\ v.left > 0 /\ v.tty = w.tty /\ v.flush = w.flush
      <4>1. w.tty \in TTY /\ w.left \in Nat /\ w.open \in BOOLEAN /\ w.flush \in BOOLEAN
        BY <3>4 DEF Walk
      <4> QED
        BY <3>4, <3>5, <4>1 DEF Walk
    <3>7. walks' = [walks EXCEPT ![n] = v]
      BY <1>2, <3>1, <3>2, <3>3
    <3>8. /\ walks' \in Seq(Walk) /\ Len(walks') = Len(walks)
          /\ \A i \in 1..Len(walks) : i # n => walks'[i] = walks[i]
          /\ walks'[n] = v
      BY <1>2, <3>2, <3>6, <3>7, ExceptSeq
    <3> QED
      BY <3>2, <3>6, <3>8
  <2> QED
    BY <2>1, <2>2
<1>4. DOMAIN inb' = TTY /\ DOMAIN cut' = TTY
  BY <1>0, <1>1 DEF WalkShapes, TakeText
<1>5. WalkShapes'
  <2>1. \A i \in 1..Len(walks') : walks'[i].run => walks'[i].left > 0
    BY <1>0, <1>2, <1>3 DEF WalkShapes
  <2> QED
    BY <1>0, <1>1, <1>3, <1>4, <2>1 DEF WalkShapes
<1>6. ~Unread'
  <2>1. SUFFICES ASSUME devno \in TTY PROVE ~Unread'
    BY <1>1 DEF Unread
  <2>2. /\ inb'[devno] = Left(inb[devno]) /\ cut'[devno] = (NulAt(inb[devno]) # {})
    BY <1>0, <1>1, <2>1 DEF WalkShapes, TakeText
  <2>3. NulAt(inb[devno]) = {} => Left(inb[devno]) = <<>>
    BY DEF Left
  <2> QED
    BY <1>1, <2>2, <2>3 DEF Unread
<1> QED
  BY <1>3, <1>5, <1>6 DEF WalkInv, ReadIsToCome, SameWalks

\* A command that attaches adds a read to every walk of the new terminal; the
\* others leave the reads as they were.
LEMMA CommandStep ==
  ASSUME WalkInv, RunCommand
  PROVE  WalkInv' /\ SameWalks
<1>0. WalkShapes
  BY DEF WalkInv
<1>1. walks # <<>> /\ Top.run /\ inb' = inb /\ cut' = cut
  BY DEF RunCommand
<1>2. /\ Len(walks) \in 1..Len(walks) /\ Top = walks[Len(walks)] /\ Len(walks) \in Nat
      /\ Top.left > 0 /\ Top.left \in Nat /\ walks \in Seq(Walk) /\ Top.open \in BOOLEAN
  <2>1. walks \in Seq(Walk)
    BY <1>0 DEF WalkShapes
  <2> QED
    BY <1>0, <1>1, <2>1, TopIsAWalk, Zenon
<1>3. ASSUME NEW t \in TTY \cup {NoTTY}, attach(t)
      PROVE  WalkInv' /\ SameWalks
  <2>1. /\ devno' = t /\ WalkOn(Lengthened(t), TRUE)
        /\ subs' = IF t \in TTY THEN [subs EXCEPT ![t] = @ + 1] ELSE subs
    BY <1>3 DEF attach
  <2>2. PICK ws : ws = Lengthened(t)
    OBVIOUS
  <2>3. /\ ws \in Seq(Walk) /\ Len(ws) = Len(walks)
        /\ \A i \in 1..Len(walks) :
             /\ ws[i].tty = walks[i].tty /\ ws[i].run = walks[i].run
             /\ ws[i].flush = walks[i].flush
             /\ ws[i].left = IF walks[i].tty = t THEN walks[i].left + 1 ELSE walks[i].left
    BY <1>2, <2>2, LengthenedFields
  <2>4. ws # <<>> /\ ws[Len(ws)].left > 0
    BY <1>2, <2>3
  <2>5. /\ walks' \in Seq(Walk) /\ Len(walks') = Len(walks)
        /\ \A i \in 1..Len(walks) : i # Len(walks) => walks'[i] = ws[i]
        /\ walks'[Len(walks)].tty = ws[Len(walks)].tty
        /\ walks'[Len(walks)].left = ws[Len(walks)].left - 1
        /\ walks'[Len(walks)].run = FALSE
        /\ walks'[Len(walks)].flush = ws[Len(walks)].flush
    BY <2>1, <2>2, <2>3, <2>4, WalkOnFields
  <2>6. ASSUME NEW i \in 1..Len(walks)
        PROVE  /\ walks'[i].tty = walks[i].tty /\ walks'[i].flush = walks[i].flush
               /\ walks'[i].run => walks'[i].left > 0
               /\ walks[i].tty = t => ReadsAgain(walks'[i])
    <3>1. /\ walks[i] \in Walk /\ walks[i].left \in Nat
          /\ walks[i].run => walks[i].left > 0
      <4>1. walks[i] \in Walk
        BY <1>2, ElementOfSeq
      <4> QED
        BY <1>0, <4>1 DEF Walk, WalkShapes
    <3>2. /\ ws[i].tty = walks[i].tty /\ ws[i].run = walks[i].run
          /\ ws[i].flush = walks[i].flush
          /\ walks[i].tty = t => ws[i].left = walks[i].left + 1
          /\ walks[i].tty # t => ws[i].left = walks[i].left
      BY <2>3
    <3>3. CASE i = Len(walks)
      <4>1. /\ walks'[i].tty = walks[i].tty /\ walks'[i].run = FALSE
            /\ walks'[i].flush = walks[i].flush
            /\ walks'[i].left = ws[i].left - 1 /\ walks[i].left > 0
        BY <1>2, <2>5, <3>2, <3>3
      <4> QED
        BY <3>1, <3>2, <4>1 DEF ReadsAgain
    <3>4. CASE i # Len(walks)
      <4>1. walks'[i] = ws[i]
        BY <2>5, <3>4
      <4>2. ws[i].run => ws[i].left > 0
        BY <3>1, <3>2
      <4>3. walks[i].tty = t => ReadsAgain(ws[i])
        <5>1. CASE walks[i].run
          BY <3>1, <3>2, <5>1 DEF ReadsAgain
        <5>2. CASE ~walks[i].run
          BY <3>1, <3>2, <5>2 DEF ReadsAgain
        <5> QED
          BY <5>1, <5>2
      <4> QED
        BY <3>2, <4>1, <4>2, <4>3
    <3> QED
      BY <3>3, <3>4
  <2>7. WalkShapes'
    <3>1. subs' \in [TTY -> Nat] /\ (devno' \in TTY => subs'[devno'] > 0)
      BY <1>0, <2>1 DEF WalkShapes
    <3>2. \A i \in 1..Len(walks') : walks'[i].run => walks'[i].left > 0
      BY <2>5, <2>6
    <3> QED
      BY <1>0, <1>1, <2>1, <2>5, <3>1, <3>2 DEF WalkShapes
  <2>8. ReadIsToCome'
    <3>1. SUFFICES ASSUME NEW i \in 1..Len(walks'), walks'[i].tty = t
                   PROVE  \E j \in i..Len(walks') :
                            walks'[j].tty = t /\ ReadsAgain(walks'[j])
      BY <2>1 DEF ReadIsToCome
    <3>2. i \in 1..Len(walks) /\ i \in i..Len(walks')
      BY <1>2, <2>5
    <3> QED
      BY <2>6, <3>1, <3>2
  <2> QED
    BY <2>5, <2>6, <2>7, <2>8 DEF WalkInv, SameWalks
<1>4. ASSUME NEW lock \in BOOLEAN, WalkOn(walks, Top.open \/ lock), UNCHANGED <<devno, subs>>
      PROVE  WalkInv' /\ SameWalks
  <2>1. (Top.open \/ lock) \in BOOLEAN
    BY Zenon
  <2>2. walks[Len(walks)].left > 0
    BY <1>2
  <2>3. /\ walks' \in Seq(Walk) /\ Len(walks') = Len(walks)
        /\ \A i \in 1..Len(walks) : i # Len(walks) => walks'[i] = walks[i]
        /\ walks'[Len(walks)].tty = walks[Len(walks)].tty
        /\ walks'[Len(walks)].left = walks[Len(walks)].left - 1
        /\ walks'[Len(walks)].run = FALSE
        /\ walks'[Len(walks)].flush = walks[Len(walks)].flush
    BY <1>1, <1>2, <1>4, <2>1, <2>2, WalkOnFields
  <2>4. ASSUME NEW i \in 1..Len(walks)
        PROVE  /\ walks'[i].tty = walks[i].tty /\ walks'[i].flush = walks[i].flush
               /\ walks'[i].run => walks'[i].left > 0
               /\ ReadsAgain(walks[i]) => ReadsAgain(walks'[i])
    <3>1. CASE i = Len(walks)
      <4>1. walks[i].run /\ walks[i].left \in Nat
        BY <1>1, <1>2, <3>1
      <4>2. walks'[i].run = FALSE /\ walks'[i].left = walks[i].left - 1
        BY <2>3, <3>1
      <4>3. ReadsAgain(walks[i]) => walks[i].left > 1
        BY <4>1 DEF ReadsAgain
      <4>4. walks'[i].left > 0 => ReadsAgain(walks'[i])
        BY <4>2 DEF ReadsAgain
      <4> QED
        BY <2>3, <3>1, <4>1, <4>2, <4>3, <4>4
    <3>2. CASE i # Len(walks)
      BY <1>0, <2>3, <3>2 DEF WalkShapes
    <3> QED
      BY <3>1, <3>2
  <2>5. WalkShapes'
    <3>1. \A i \in 1..Len(walks') : walks'[i].run => walks'[i].left > 0
      BY <2>3, <2>4
    <3> QED
      BY <1>0, <1>1, <1>4, <2>3, <3>1 DEF WalkShapes
  <2>6. ReadIsToCome'
    <3>1. SUFFICES ASSUME Unread, NEW i \in 1..Len(walks), walks'[i].tty = devno
                   PROVE  \E j \in i..Len(walks) :
                            walks'[j].tty = devno /\ ReadsAgain(walks'[j])
      BY <1>1, <1>4, <2>3 DEF ReadIsToCome, Unread
    <3>2. PICK j \in i..Len(walks) : walks[j].tty = devno /\ ReadsAgain(walks[j])
      BY <2>4, <3>1 DEF WalkInv, ReadIsToCome
    <3>3. j \in 1..Len(walks)
      BY <1>2, <3>1
    <3> QED
      BY <2>4, <3>2, <3>3
  <2> QED
    BY <2>3, <2>4, <2>5, <2>6 DEF WalkInv, SameWalks
<1> QED
  BY <1>3, <1>4 DEF RunCommand

\* A walk that is over had no read to come.
LEMMA ReturnStep ==
  ASSUME WalkInv, WalkReturns
  PROVE  /\ WalkInv' /\ Len(walks') = Len(walks) - 1
         /\ devno' = devno /\ inb' = inb
         /\ devno = Top.tty /\ ~cut[Top.tty] => inb[Top.tty] = <<>>
<1>0. WalkShapes
  BY DEF WalkInv
<1>1. /\ walks # <<>> /\ Top.left = 0 /\ walks' = SubSeq(walks, 1, Len(walks) - 1)
      /\ UNCHANGED <<inb, subs, devno, cut>>
  BY DEF WalkReturns, shellVars
<1>2. PICK n \in Nat : n = Len(walks) - 1 /\ n + 1 = Len(walks)
  <2>1. Len(walks) \in Nat /\ Len(walks) - 1 \in Nat
    BY <1>0, <1>1, TopIsAWalk
  <2> QED
    BY <2>1
<1>3. /\ Top = walks[n + 1] /\ ~Top.run /\ walks \in Seq(Walk) /\ Top.tty \in TTY
      /\ ~ReadsAgain(Top)
  <2>1. Top = walks[Len(walks)] /\ (Top.run => Top.left > 0) /\ Top.tty \in TTY
    BY <1>0, <1>1, TopIsAWalk, Zenon
  <2>2. ~Top.run
    BY <1>1, <2>1
  <2> QED
    BY <1>0, <1>1, <1>2, <2>1, <2>2 DEF WalkShapes, ReadsAgain
<1>4. /\ walks' \in Seq(Walk) /\ Len(walks') = n
      /\ \A i \in 1..n : walks'[i] = walks[i]
  <2>1. \A i \in 1..n : walks[i] \in Walk
    BY <1>2, <1>3, ElementOfSeq
  <2> QED
    BY <1>1, <1>2, <2>1, SubSeqProperties
<1>5. WalkShapes'
  <2>1. \A i \in 1..n : walks'[i].run => walks'[i].left > 0
    BY <1>0, <1>2, <1>4 DEF WalkShapes
  <2> QED
    BY <1>0, <1>1, <1>4, <2>1 DEF WalkShapes
<1>6. ReadIsToCome'
  <2>1. SUFFICES ASSUME Unread, NEW i \in 1..n, walks[i].tty = devno
                 PROVE  \E j \in i..n : walks'[j].tty = devno /\ ReadsAgain(walks'[j])
    <3>1. (Unread' <=> Unread) /\ devno' = devno
      BY <1>1 DEF Unread
    <3> QED
      BY <1>4, <3>1 DEF ReadIsToCome
  <2>2. PICK j \in i..Len(walks) : walks[j].tty = devno /\ ReadsAgain(walks[j])
    BY <1>2, <2>1 DEF WalkInv, ReadIsToCome
  <2>3. j # n + 1
    BY <1>3, <2>2
  <2>4. j \in i..n /\ j \in 1..n
    BY <1>2, <2>1, <2>2, <2>3
  <2> QED
    BY <1>4, <2>2, <2>4
<1>7. ASSUME devno = Top.tty, ~cut[Top.tty], inb[Top.tty] # <<>>
      PROVE  FALSE
  <2>1. Unread /\ n + 1 \in 1..Len(walks) /\ walks[n + 1].tty = devno
    BY <1>2, <1>3, <1>7 DEF Unread
  <2>2. PICK j \in (n + 1)..Len(walks) : walks[j].tty = devno /\ ReadsAgain(walks[j])
    BY <2>1 DEF WalkInv, ReadIsToCome
  <2>3. j = n + 1
    BY <1>2, <2>2
  <2> QED
    BY <1>3, <2>2, <2>3
<1> QED
  BY <1>1, <1>2, <1>4, <1>5, <1>6, <1>7 DEF WalkInv

\* The steps that leave the walks, the rings and the subscriptions alone.
LEMMA SameWalksKeep ==
  ASSUME WalkInv, UNCHANGED <<walks, subs, devno, inb, cut>>
  PROVE  WalkInv'
<1>1. WalkShapes' /\ (Unread' <=> Unread)
  BY DEF WalkInv, WalkShapes, Unread
<1>2. ReadIsToCome'
  BY <1>1 DEF WalkInv, ReadIsToCome
<1> QED
  BY <1>1, <1>2 DEF WalkInv

\* Every step keeps WalkInv, and none but the end of a walk makes the stack of
\* walks shorter.
LEMMA NextWalkInv ==
  ASSUME WalkInv, [Next]_vars
  PROVE  /\ WalkInv'
         /\ WalkReturns \/ ~(Len(walks') < Len(walks))
<1>0. walks \in Seq(Walk) /\ Len(walks) \in Nat
  BY DEF WalkInv, WalkShapes
<1>1. ASSUME NEW t \in TTY, NEW c \in Char, Insert(t, c)
      PROVE  WalkInv' /\ ~(Len(walks') < Len(walks))
  BY <1>0, <1>1, SameWalksKeep DEF Insert, shellVars
<1>2. ASSUME NEW t \in TTY, line_discipline_delete_last(t)
      PROVE  WalkInv' /\ ~(Len(walks') < Len(walks))
  BY <1>0, <1>2, SameWalksKeep DEF line_discipline_delete_last, shellVars
<1>3. ASSUME NEW t \in TTY, NEW flush, StartWalk(t, flush)
      PROVE  ~(Len(walks') < Len(walks))
  BY <1>0, <1>3 DEF StartWalk
<1>4. ASSUME NEW t \in TTY, line_discipline_force_flush(t)
      PROVE  WalkInv' /\ ~(Len(walks') < Len(walks))
  BY <1>3, <1>4, StartWalkStep DEF line_discipline_force_flush
<1>5. ASSUME NEW t \in TTY, NEW b \in Byte, RawByte(t, b)
      PROVE  WalkInv' /\ ~(Len(walks') < Len(walks))
  BY <1>3, <1>5, StartWalkStep DEF RawByte
<1>6. ASSUME NEW t \in TTY, NEW value \in BOOLEAN, _tty_modes(t, value)
      PROVE  WalkInv' /\ ~(Len(walks') < Len(walks))
  BY <1>0, <1>6, SameWalksKeep DEF _tty_modes, shellVars
<1>7. ASSUME NEW t \in TTY, run_shell(t)
      PROVE  WalkInv' /\ ~(Len(walks') < Len(walks))
  <2>1. /\ walks = <<>> /\ walks' = <<>> /\ devno' = t
        /\ subs' = [subs EXCEPT ![t] = 1] /\ inb' = inb /\ cut' = cut
    BY <1>7 DEF run_shell
  <2>2. WalkShapes'
    BY <1>7, <2>1 DEF WalkInv, WalkShapes
  <2>3. ReadIsToCome'
    BY <2>1 DEF ReadIsToCome
  <2> QED
    BY <2>1, <2>2, <2>3 DEF WalkInv
<1>8. CASE tty_signal_handler
  BY <1>0, <1>8, HandlerStep DEF SameWalks
<1>9. CASE RunCommand
  BY <1>0, <1>9, CommandStep DEF SameWalks
<1>10. CASE WalkReturns
  BY <1>10, ReturnStep
<1>11. CASE UNCHANGED vars
  BY <1>0, <1>11, SameWalksKeep DEF vars
<1> QED
  BY <1>1, <1>2, <1>4, <1>5, <1>6, <1>7, <1>8, <1>9, <1>10, <1>11 DEF Next

(* When the subscribers of the terminal that the shell reads have run, its *)
(* input ring is empty unless a read stopped at a NUL, for all terminals,  *)
(* priorities, ring sizes and numbers of characters: however the walks     *)
(* nest, an attach brings a further read to every walk it concerns         *)
(* (tty_run_subscribers, attach, tty_signal_handler).                      *)
THEOREM ServedTerminalsAreEmpty == Spec => ServedTerminalIsEmpty
<1>1. Init => WalkInv
  <2> SUFFICES ASSUME Init PROVE WalkInv
    OBVIOUS
  <2>1. WalkShapes
    BY TerminalAssumption DEF Init, WalkShapes
  <2>2. ReadIsToCome
    BY DEF Init, ReadIsToCome
  <2> QED
    BY <2>1, <2>2 DEF WalkInv
<1>2. WalkInv /\ [Next]_vars => WalkInv'
  BY NextWalkInv
<1>3. WalkInv /\ [Next]_vars =>
        [(Len(walks') < Len(walks) /\ devno' = Top.tty /\ ~cut[Top.tty])
           => inb'[Top.tty] = <<>>]_vars
  BY NextWalkInv, ReturnStep
<1> QED
  BY <1>1, <1>2, <1>3, PTL DEF Spec, ServedTerminalIsEmpty

-----------------------------------------------------------------------------
(***************************************************************************)
(* The promise of LineInput.  A terminal whose subscribers are being run   *)
(* cannot interrupt, so a line that is being flushed stays as it is.       *)
(***************************************************************************)
WalksNest ==
  \A i, j \in 1..Len(walks) : i < j => Above(walks[j].tty, walks[i].tty)

LinesInv ==
  /\ LineInv /\ WalkInv /\ WalksNest
  /\ got = [t \in TTY |-> got[t]]
  /\ torn \in [TTY -> BOOLEAN]

LEMMA InterruptsAreAbove ==
  ASSUME WalkInv, WalksNest, NEW t \in TTY, Interrupts(t)
  PROVE  /\ \A i \in 1..Len(walks) : Above(t, walks[i].tty)
         /\ ~Flushing(t)
<1>0. WalkShapes /\ walks \in Seq(Walk)
  BY DEF WalkInv, WalkShapes
<1>1. ASSUME NEW i \in 1..Len(walks)
      PROVE  Above(t, walks[i].tty)
  <2>1. walks # <<>> /\ Len(walks) \in Nat
    BY <1>0
  <2>2. Top = walks[Len(walks)] /\ Above(t, Top.tty) /\ Top.tty \in TTY
    BY <1>0, <2>1, TopIsAWalk DEF Interrupts
  <2>3. CASE i = Len(walks)
    BY <2>2, <2>3
  <2>4. CASE i # Len(walks)
    <3>1. i < Len(walks) /\ Len(walks) \in 1..Len(walks)
      BY <2>1, <2>4
    <3>2. Above(Top.tty, walks[i].tty)
      BY <2>2, <3>1 DEF WalksNest
    <3>3. walks[i].tty \in TTY
      <4>1. walks[i] \in Walk
        BY <1>0, ElementOfSeq
      <4> QED
        BY <4>1 DEF Walk
    <3> QED
      BY <2>2, <3>2, <3>3, TerminalAssumption
  <2> QED
    BY <2>3, <2>4
<1>2. ~Flushing(t)
  BY <1>1, TerminalAssumption DEF Flushing
<1> QED
  BY <1>1, <1>2

(* A walk that starts lies above the others.                               *)
LEMMA StartNests ==
  ASSUME LinesInv, NEW t \in TTY, NEW flush \in BOOLEAN, Interrupts(t),
         StartWalk(t, flush)
  PROVE  /\ WalksNest'
         /\ \A u \in TTY : Flushing(u)' <=> Flushing(u) \/ (u = t /\ flush)
<1>1. PICK w : w = [tty |-> t, left |-> subs[t], run |-> FALSE, open |-> FALSE,
                    flush |-> flush]
  OBVIOUS
<1>2. w \in Walk /\ w.tty = t /\ w.flush = flush
  BY <1>1 DEF LinesInv, WalkInv, WalkShapes, Walk
<1>3. walks \in Seq(Walk) /\ walks' = Append(walks, w)
  BY <1>1 DEF LinesInv, WalkInv, WalkShapes, StartWalk
<1>4. /\ Len(walks') = Len(walks) + 1 /\ Len(walks) \in Nat
      /\ \A i \in 1..Len(walks) : walks'[i] = walks[i]
      /\ walks'[Len(walks) + 1] = w
  BY <1>2, <1>3, AppendProperties
<1>5. \A i \in 1..Len(walks) : Above(t, walks[i].tty)
  BY InterruptsAreAbove DEF LinesInv
<1>6. WalksNest'
  <2> SUFFICES ASSUME NEW i \in 1..Len(walks'), NEW j \in 1..Len(walks'), i < j
               PROVE  Above(walks'[j].tty, walks'[i].tty)
    BY DEF WalksNest
  <2>1. i \in 1..Len(walks) /\ walks'[i] = walks[i]
    BY <1>4
  <2>2. CASE j = Len(walks) + 1
    BY <1>2, <1>4, <1>5, <2>1, <2>2
  <2>3. CASE j # Len(walks) + 1
    <3>1. j \in 1..Len(walks) /\ walks'[j] = walks[j]
      BY <1>4, <2>3
    <3> QED
      BY <2>1, <3>1 DEF LinesInv, WalksNest
  <2> QED
    BY <2>2, <2>3
<1>7. ASSUME NEW u \in TTY
      PROVE  Flushing(u)' <=> Flushing(u) \/ (u = t /\ flush)
  <2>1. ASSUME Flushing(u)'
        PROVE  Flushing(u) \/ (u = t /\ flush)
    <3>1. PICK i \in 1..Len(walks') : walks'[i].tty = u /\ walks'[i].flush
      BY <2>1 DEF Flushing
    <3>2. CASE i = Len(walks) + 1
      BY <1>2, <1>4, <3>1, <3>2
    <3>3. CASE i # Len(walks) + 1
      <4>1. i \in 1..Len(walks) /\ walks'[i] = walks[i]
        BY <1>4, <3>3
      <4> QED
        BY <3>1, <4>1 DEF Flushing
    <3> QED
      BY <3>2, <3>3
  <2>2. ASSUME Flushing(u)
        PROVE  Flushing(u)'
    <3>1. PICK i \in 1..Len(walks) : walks[i].tty = u /\ walks[i].flush
      BY <2>2 DEF Flushing
    <3>2. i \in 1..Len(walks') /\ walks'[i] = walks[i]
      BY <1>4
    <3> QED
      BY <3>1, <3>2 DEF Flushing
  <2>3. ASSUME u = t, flush
        PROVE  Flushing(u)'
    <3>1. Len(walks) + 1 \in 1..Len(walks')
      BY <1>4
    <3> QED
      BY <1>2, <1>4, <2>3, <3>1 DEF Flushing
  <2> QED
    BY <2>1, <2>2, <2>3
<1> QED
  BY <1>6, <1>7

(* The steps inside a walk, or outside all of them.                        *)
LEMMA SameWalksNest ==
  ASSUME LinesInv, SameWalks \/ UNCHANGED walks
  PROVE  /\ WalksNest'
         /\ \A u \in TTY : Flushing(u)' <=> Flushing(u)
<1>1. CASE SameWalks
  BY <1>1 DEF LinesInv, SameWalks, WalksNest, Flushing
<1>2. CASE UNCHANGED walks
  BY <1>2 DEF LinesInv, WalksNest, Flushing
<1> QED
  BY <1>1, <1>2

(* A walk that returns.                                                    *)
LEMMA ReturnNests ==
  ASSUME LinesInv, WalkReturns
  PROVE  /\ WalksNest'
         /\ \A u \in TTY : Flushing(u)' => Flushing(u)
         /\ \A u \in TTY : Flushing(u) => Flushing(u)' \/ (u = Top.tty /\ Top.flush)
<1>0. WalkShapes /\ walks # <<>> /\ walks' = SubSeq(walks, 1, Len(walks) - 1)
  BY DEF LinesInv, WalkInv, WalkReturns
<1>1. Len(walks) \in Nat /\ Len(walks) \in 1..Len(walks) /\ Top = walks[Len(walks)]
      /\ walks \in Seq(Walk)
  BY <1>0, TopIsAWalk DEF WalkShapes
<1>2. PICK n \in Nat : n = Len(walks) - 1 /\ n + 1 = Len(walks)
  BY <1>1
<1>3. Len(walks') = n /\ \A i \in 1..n : walks'[i] = walks[i]
  <2>1. \A i \in 1..n : walks[i] \in Walk
    BY <1>1, <1>2, ElementOfSeq
  <2> QED
    BY <1>0, <1>1, <1>2, <2>1, SubSeqProperties
<1>4. WalksNest'
  BY <1>2, <1>3 DEF LinesInv, WalksNest
<1>5. ASSUME NEW u \in TTY, Flushing(u)'
      PROVE  Flushing(u)
  BY <1>2, <1>3, <1>5 DEF Flushing
<1>6. ASSUME NEW u \in TTY, Flushing(u)
      PROVE  Flushing(u)' \/ (u = Top.tty /\ Top.flush)
  <2>1. PICK i \in 1..Len(walks) : walks[i].tty = u /\ walks[i].flush
    BY <1>6 DEF Flushing
  <2>2. CASE i = n + 1
    BY <1>1, <1>2, <2>1, <2>2
  <2>3. CASE i # n + 1
    <3>1. i \in 1..n
      BY <1>2, <2>3
    <3> QED
      BY <1>3, <2>1, <3>1 DEF Flushing
  <2> QED
    BY <2>2, <2>3
<1> QED
  BY <1>4, <1>5, <1>6

LEMMA InitLinesInv == Init => LinesInv
<1> SUFFICES ASSUME Init PROVE LinesInv
  OBVIOUS
<1>1. WalkInv
  <2>1. WalkShapes
    BY TerminalAssumption DEF Init, WalkShapes
  <2>2. ReadIsToCome
    BY DEF Init, ReadIsToCome
  <2> QED
    BY <2>1, <2>2 DEF WalkInv
<1>2. WalksNest
  BY DEF Init, WalksNest
<1>3. got = [t \in TTY |-> got[t]] /\ torn \in [TTY -> BOOLEAN]
  BY DEF Init
<1> QED
  BY <1>1, <1>2, <1>3, InitLineInv DEF LinesInv

LEMMA NextLinesInv ==
  ASSUME LinesInv, [Next]_vars
  PROVE  LinesInv'
<1>1. LineInv' /\ WalkInv'
  BY NextLineInv, NextWalkInv DEF LinesInv
<1>2. got' = [t \in TTY |-> got'[t]] /\ torn' \in [TTY -> BOOLEAN]
  <2>1. CASE tty_signal_handler
    <3>1. CASE devno \in TTY
      <4>1. /\ got' = [got EXCEPT ![devno] = IF ReadText = <<>> THEN got[devno] ELSE ReadText]
            /\ torn' = [torn EXCEPT ![devno] = @ \/ (Top.open /\ ReadText # <<>>)]
        BY <2>1, <3>1 DEF tty_signal_handler, TakeText
      <4> QED
        BY <3>1, <4>1 DEF LinesInv
    <3>2. CASE devno \notin TTY
      BY <2>1, <3>2 DEF tty_signal_handler, TakeText, LinesInv
    <3> QED
      BY <3>1, <3>2
  <2>2. CASE ~tty_signal_handler
    <3>1. got' = got /\ torn' = torn
      BY <2>2 DEF Next, vars, Insert, line_discipline_delete_last,
           line_discipline_force_flush, RawByte, _tty_modes, run_shell,
           RunCommand, WalkReturns, shellVars
    <3> QED
      BY <3>1 DEF LinesInv
  <2> QED
    BY <2>1, <2>2
<1>3. WalksNest'
  <2>1. ASSUME NEW t \in TTY, line_discipline_force_flush(t)
        PROVE  WalksNest'
    BY <2>1, StartNests DEF line_discipline_force_flush
  <2>2. ASSUME NEW t \in TTY, NEW b \in Byte, RawByte(t, b)
        PROVE  WalksNest'
    BY <2>2, StartNests DEF RawByte
  <2>3. CASE tty_signal_handler \/ RunCommand
    BY <2>3, HandlerStep, CommandStep, SameWalksNest DEF LinesInv
  <2>4. CASE WalkReturns
    BY <2>4, ReturnNests
  <2>5. ASSUME NEW t \in TTY, run_shell(t)
        PROVE  WalksNest'
    BY <2>5, SameWalksNest DEF run_shell
  <2>6. CASE \/ UNCHANGED vars
             \/ \E t \in TTY : \/ \E c \in Char : Insert(t, c)
                               \/ line_discipline_delete_last(t)
                               \/ \E value \in BOOLEAN : _tty_modes(t, value)
    BY <2>6, SameWalksNest DEF vars, Insert, line_discipline_delete_last, _tty_modes
  <2> QED
    BY <2>1, <2>2, <2>3, <2>4, <2>5, <2>6 DEF Next
<1> QED
  BY <1>1, <1>2, <1>3 DEF LinesInv

-----------------------------------------------------------------------------
(* The buffer b2 is b with the character c stored at e.                     *)
Stored(b, b2, h, e, c) == b2[e] = c /\ \A i \in h..(e - 1) : b2[i] = b[i]

LEMMA AppendToText ==
  ASSUME NEW b, NEW b2, NEW h \in Nat, NEW e \in Nat, h <= e, Typed(b, h, e),
         NEW c \in Char, Stored(b, b2, h, e, c)
  PROVE  Text(b2, h, e + 1) = Append(Text(b, h, e), c) /\ Typed(b2, h, e + 1)
<1> USE DEF Stored
<1>1. Text(b, h, e) \in Seq(Byte) /\ Len(Text(b, h, e)) = e - h
  BY TextIsSeq
<1>2. Typed(b2, h, e + 1)
  <2> SUFFICES ASSUME NEW i \in h..e PROVE b2[i] \in Char
    BY DEF Typed
  <2>1. i = e \/ i \in h..(e - 1)
    OBVIOUS
  <2> QED
    BY <2>1 DEF Typed
<1>3. Text(b2, h, e + 1) \in Seq(Byte) /\ Len(Text(b2, h, e + 1)) = e + 1 - h
  BY <1>2, TextIsSeq
<1>4. c \in Byte
  BY DEF Byte
<1>5. /\ Append(Text(b, h, e), c) \in Seq(Byte)
      /\ Len(Append(Text(b, h, e), c)) = e - h + 1
      /\ \A i \in 1..(e - h) : Append(Text(b, h, e), c)[i] = Text(b, h, e)[i]
      /\ Append(Text(b, h, e), c)[e - h + 1] = c
  BY <1>1, <1>4, AppendProperties
<1>6. ASSUME NEW i \in 1..(e + 1 - h)
      PROVE  Text(b2, h, e + 1)[i] = Append(Text(b, h, e), c)[i]
  <2>1. Text(b2, h, e + 1)[i] = b2[h + i - 1]
    BY DEF Text
  <2>2. CASE i \in 1..(e - h)
    <3>1. h + i - 1 \in h..(e - 1)
      BY <2>2
    <3>2. Text(b, h, e)[i] = b[h + i - 1]
      BY <2>2 DEF Text
    <3>3. b2[h + i - 1] = b[h + i - 1]
      BY <3>1
    <3>4. Append(Text(b, h, e), c)[i] = Text(b, h, e)[i]
      BY <1>5, <2>2
    <3> QED
      BY <2>1, <3>2, <3>3, <3>4
  <2>3. CASE i = e - h + 1
    <3>1. h + i - 1 = e
      BY <2>3
    <3> QED
      BY <1>5, <2>1, <2>3, <3>1
  <2>4. i \in 1..(e - h) \/ i = e - h + 1
    OBVIOUS
  <2> QED
    BY <2>2, <2>3, <2>4
<1>7. e + 1 - h = e - h + 1
  OBVIOUS
<1>8. Text(b2, h, e + 1) = Append(Text(b, h, e), c)
  BY <1>3, <1>5, <1>6, <1>7, SeqEqual
<1> QED
  BY <1>2, <1>8

LEMMA ShortenText ==
  ASSUME NEW b, NEW h \in Nat, NEW e \in Nat, h < e, Typed(b, h, e)
  PROVE  /\ Text(b, h, e - 1) = SubSeq(Text(b, h, e), 1, Len(Text(b, h, e)) - 1)
         /\ Text(b, h, e) # <<>>
<1>1. Text(b, h, e) \in Seq(Byte) /\ Len(Text(b, h, e)) = e - h
  BY TextIsSeq
<1>2. SubSeq(Text(b, h, e), 1, e - h - 1) = [i \in 1..(e - h - 1) |-> Text(b, h, e)[i]]
  BY <1>1
<1>3. \A i \in 1..(e - h - 1) : Text(b, h, e)[i] = b[h + i - 1]
  BY DEF Text
<1>4. e - 1 - h = e - h - 1
  OBVIOUS
<1>5. Text(b, h, e - 1) = [i \in 1..(e - h - 1) |-> Text(b, h, e)[i]]
  BY <1>3, <1>4 DEF Text
<1> QED
  BY <1>1, <1>2, <1>5

LEMMA DropFromText ==
  ASSUME NEW b, NEW h \in Nat, NEW e \in Nat, h < e, Typed(b, h, e)
  PROVE  Text(b, h + 1, e) = SubSeq(Text(b, h, e), 2, Len(Text(b, h, e)))
<1>1. Text(b, h, e) \in Seq(Byte) /\ Len(Text(b, h, e)) = e - h
  BY TextIsSeq
<1>2. SubSeq(Text(b, h, e), 2, e - h) = [i \in 1..(e - h - 1) |-> Text(b, h, e)[i + 1]]
  <2>1. Text(b, h, e) \in Seq(Byte) /\ 2 \in 1..(Len(Text(b, h, e)) + 1)
        /\ e - h \in (2 - 1)..Len(Text(b, h, e))
    BY <1>1
  <2>2. SubSeq(Text(b, h, e), 2, e - h) =
          [i \in 1..(e - h - 2 + 1) |-> Text(b, h, e)[i + 2 - 1]]
    BY <2>1
  <2>3. \A i \in 1..(e - h - 1) : i + 2 - 1 = i + 1
    OBVIOUS
  <2>4. e - h - 2 + 1 = e - h - 1
    OBVIOUS
  <2> QED
    BY <2>2, <2>3, <2>4
<1>3. \A i \in 1..(e - h - 1) : Text(b, h, e)[i + 1] = b[h + 1 + i - 1]
  <2> TAKE i \in 1..(e - h - 1)
  <2>1. i + 1 \in 1..(e - h) /\ h + (i + 1) - 1 = h + 1 + i - 1
    OBVIOUS
  <2> QED
    BY <2>1 DEF Text
<1>4. e - (h + 1) = e - h - 1
  OBVIOUS
<1>5. Text(b, h + 1, e) = [i \in 1..(e - h - 1) |-> Text(b, h, e)[i + 1]]
  BY <1>3, <1>4 DEF Text
<1> QED
  BY <1>1, <1>2, <1>5

(* The line of a terminal, as long as it is one run.                       *)
LEMMA LineOf ==
  ASSUME LineInv, NEW t \in TTY, ~crossed[t],
         NEW b, NEW h, NEW k, b = buffer[t], h = head[t], k = tail[t]
  PROVE  /\ h \in Nat /\ End(h, k) \in Nat /\ h <= End(h, k) /\ End(h, k) - h < LineSize
         /\ Typed(b, h, End(h, k))
         /\ Line(t) = Text(b, h, End(h, k))
         /\ FlushedText(t) = Text(b, h, End(h, k))
<1>1. Whole(h, k) /\ Typed(b, h, End(h, k))
  BY DEF LineInv
<1>2. /\ Line(t) = [i \in 1..((k - h) % LineSize) |-> b[(h + i - 1) % LineSize]]
      /\ FlushedText(t) = [i \in 1..Rem(k - h + LineSize, LineSize) |->
                             IF h + i - 1 \in InBuffer THEN b[h + i - 1] ELSE Junk]
  BY DEF Line, FlushedText
<1>3. Line(t) = Text(b, h, End(h, k)) /\ FlushedText(t) = Text(b, h, End(h, k))
  BY <1>1, <1>2, LineIsText
<1> QED
  BY <1>1, <1>3, EndFacts

LEMMA SameLine ==
  ASSUME NEW t \in TTY, buffer'[t] = buffer[t], head'[t] = head[t], tail'[t] = tail[t]
  PROVE  Line(t)' = Line(t)
BY DEF Line

-----------------------------------------------------------------------------
(* The view of LineInput: the terminals that are unsettled show nothing,   *)
(* and neither does the line that is being flushed.                        *)
Shown(t) == IF Unsettled(t) \/ Flushing(t) THEN <<>> ELSE Line(t)

Lines == [t \in TTY |-> Shown(t)]
Pending == [t \in TTY |-> IF Unsettled(t) THEN <<>> ELSE inb[t]]
Got == [t \in TTY |-> IF Unsettled(t) THEN <<>> ELSE got[t]]

Settling == \E t \in TTY : Unsettled(t)' # Unsettled(t)

LEMMA SettledStays ==
  ASSUME ~Settling, NEW t \in TTY
  PROVE  Unsettled(t)' = Unsettled(t)
BY DEF Settling

(* A character is typed at the end of the line.                            *)
LEMMA InsertTypes ==
  ASSUME LinesInv, NEW t \in TTY, NEW c \in Char, Insert(t, c), ~Settling,
         ~Unsettled(t)
  PROVE  Lines' = [Lines EXCEPT ![t] = Input!Recent(Append(@, c), LineSize - 1)]
<1> USE SizeFacts
<1>1. /\ line_discipline_insert(t, c)
      /\ LineInv /\ walks' = walks /\ Interrupts(t)
  BY DEF Insert, LinesInv
<1>2. ~crossed[t] /\ ~crossed'[t]
  BY SettledStays DEF Unsettled
<1>3. ~Flushing(t) /\ \A u \in TTY : Flushing(u)' <=> Flushing(u)
  BY <1>1, InterruptsAreAbove, SameWalksNest DEF LinesInv
<1>4. PICK h, k, e : h = head[t] /\ k = tail[t] /\ e = End(h, k)
  OBVIOUS
<1>5. /\ tail[t] \in InBuffer /\ e = tail[t]
      /\ buffer' = [buffer EXCEPT ![t][e] = c]
      /\ Whole(head'[t], tail'[t])
      /\ End(head'[t], tail'[t]) = e + 1
      /\ head'[t] = IF e + 1 - h = LineSize THEN h + 1 ELSE h
      /\ e + 1 - h = LineSize => h = 0
  BY <1>2, <1>4, InsertCases DEF Insert, LinesInv
<1>6. PICK b, b2 : b = buffer[t] /\ b2 = buffer'[t]
  OBVIOUS
<1>7. /\ h \in Nat /\ e \in Nat /\ h <= e /\ e - h < LineSize /\ e < LineSize
      /\ Typed(b, h, e) /\ Line(t) = Text(b, h, e)
  <2>1. /\ h \in Nat /\ End(h, k) \in Nat /\ h <= End(h, k) /\ End(h, k) - h < LineSize
        /\ Typed(b, h, End(h, k)) /\ Line(t) = Text(b, h, End(h, k))
    BY <1>1, <1>2, <1>4, <1>6, LineOf, Zenon
  <2>2. e < LineSize
    BY <1>5
  <2> QED
    BY <1>4, <2>1, <2>2
<1>8. Stored(b, b2, h, e, c)
  <2>1. \A i \in InBuffer : b2[i] = IF i = e THEN c ELSE b[i]
    BY <1>1, <1>5, <1>6 DEF LineInv
  <2>2. \A i \in h..e : i \in InBuffer
    BY <1>7
  <2> QED
    BY <1>7, <2>1, <2>2 DEF Stored
<1>9. Text(b2, h, e + 1) = Append(Line(t), c) /\ Typed(b2, h, e + 1)
  <2>1. h \in Nat /\ e \in Nat /\ h <= e /\ Typed(b, h, e)
    BY <1>7
  <2>2. Text(b2, h, e + 1) = Append(Text(b, h, e), c) /\ Typed(b2, h, e + 1)
    BY <1>8, <2>1, AppendToText, Zenon
  <2> QED
    BY <1>7, <2>2, Zenon
<1>10. Len(Append(Line(t), c)) = e + 1 - h
  <2>1. PICK n : n = e + 1
    OBVIOUS
  <2>2. h \in Nat /\ n \in Nat /\ h <= n /\ Typed(b2, h, n)
    BY <1>7, <1>9, <2>1
  <2>3. Len(Text(b2, h, n)) = n - h
    BY <2>2, TextIsSeq, Zenon
  <2>4. n - h = e + 1 - h
    BY <1>7, <2>1
  <2>5. Text(b2, h, n) = Append(Line(t), c)
    BY <1>9, <2>1, Zenon
  <2> QED
    BY <2>3, <2>4, <2>5, Zenon
<1>11. LineInv'
  BY InsertLineInv DEF LinesInv
<1>12. Line(t)' = Text(b2, head'[t], e + 1)
  <2>1. PICK h2, k2, l : h2 = head'[t] /\ k2 = tail'[t] /\ l = Line(t)'
    OBVIOUS
  <2>2. l = [i \in 1..((k2 - h2) % LineSize) |-> b2[(h2 + i - 1) % LineSize]]
    BY <1>6, <2>1 DEF Line
  <2>3. Whole(h2, k2) /\ End(h2, k2) = e + 1
    BY <1>5, <2>1
  <2>4. l = Text(b2, h2, End(h2, k2))
    <3>1. Whole(h2, k2)
      BY <2>3
    <3> QED
      BY <2>2, <3>1, LineIsText
  <2> QED
    BY <2>1, <2>3, <2>4
<1>13. Line(t)' = Input!Recent(Append(Line(t), c), LineSize - 1)
  <2>1. CASE e + 1 - h = LineSize
    <3>1. h = 0 /\ h < e + 1 /\ head'[t] = h + 1
      BY <1>5, <1>7, <2>1
    <3>2. Text(b2, h + 1, e + 1) = SubSeq(Text(b2, h, e + 1), 2, Len(Text(b2, h, e + 1)))
      <4>1. h \in Nat /\ e + 1 \in Nat /\ h < e + 1 /\ Typed(b2, h, e + 1)
        BY <1>7, <1>9
      <4> QED
        BY <4>1, DropFromText, Zenon
    <3>3. Len(Append(Line(t), c)) = LineSize /\ LineSize - (LineSize - 1) + 1 = 2
          /\ ~(LineSize <= LineSize - 1)
      BY <1>10, <2>1
    <3>4. Input!Recent(Append(Line(t), c), LineSize - 1)
            = SubSeq(Append(Line(t), c), 2, LineSize)
      BY <3>3 DEF Input!Recent
    <3> QED
      BY <1>9, <1>12, <3>1, <3>2, <3>3, <3>4
  <2>2. CASE e + 1 - h # LineSize
    <3>1. head'[t] = h /\ Len(Append(Line(t), c)) <= LineSize - 1
      BY <1>5, <1>7, <1>10, <2>2
    <3> QED
      BY <1>9, <1>12, <3>1 DEF Input!Recent
  <2> QED
    BY <2>1, <2>2
<1>14. ASSUME NEW u \in TTY, u # t
       PROVE  Shown(u)' = Shown(u)
  <2>1. buffer'[u] = buffer[u] /\ head'[u] = head[u] /\ tail'[u] = tail[u]
    BY <1>1, <1>14 DEF line_discipline_insert, Insert, LineInv
  <2>2. Line(u)' = Line(u) /\ (Unsettled(u)' = Unsettled(u))
    BY <2>1, SameLine, SettledStays
  <2> QED
    BY <1>3, <2>2 DEF Shown
<1>15. Shown(t) = Line(t) /\ Shown(t)' = Line(t)'
  <2>1. ~Unsettled(t)'
    BY SettledStays
  <2> QED
    BY <1>3, <2>1 DEF Shown
<1> QED
  BY <1>13, <1>14, <1>15 DEF Lines

(* An erase takes the last character of the line.                          *)
LEMMA DeleteErases ==
  ASSUME LinesInv, NEW t \in TTY, line_discipline_delete_last(t), ~Settling,
         ~Unsettled(t)
  PROVE  /\ Lines[t] # <<>>
         /\ Lines' = [Lines EXCEPT ![t] = SubSeq(@, 1, Len(@) - 1)]
<1>1. LineInv /\ walks' = walks /\ Interrupts(t) /\ buffer' = buffer /\ head' = head
  BY DEF line_discipline_delete_last, LinesInv
<1>2. ~crossed[t] /\ ~crossed'[t]
  BY SettledStays DEF Unsettled
<1>3. ~Flushing(t) /\ \A u \in TTY : Flushing(u)' <=> Flushing(u)
  BY <1>1, InterruptsAreAbove, SameWalksNest DEF LinesInv
<1>4. PICK b, h, k, e, k2 : /\ b = buffer[t] /\ h = head[t] /\ k = tail[t]
                            /\ e = End(h, k) /\ k2 = tail'[t]
  OBVIOUS
<1>5. /\ Whole(h, k2) /\ k2 = tail[t] - 1 /\ h <= tail[t] - 1
      /\ e = tail[t] /\ End(h, k2) = tail[t] - 1
  BY <1>1, <1>2, <1>4, DeleteCases
<1>6. /\ h \in Nat /\ e \in Nat /\ h <= e
      /\ Typed(b, h, e) /\ Line(t) = Text(b, h, e)
  <2>1. /\ h \in Nat /\ End(h, k) \in Nat /\ h <= End(h, k)
        /\ Typed(b, h, End(h, k)) /\ Line(t) = Text(b, h, End(h, k))
    BY <1>1, <1>2, <1>4, LineOf, Zenon
  <2> QED
    BY <1>4, <2>1
<1>7. Line(t)' = Text(b, h, e - 1)
  <2>0. PICK l : l = Line(t)'
    OBVIOUS
  <2>1. l = [i \in 1..((k2 - h) % LineSize) |-> b[(h + i - 1) % LineSize]]
    BY <1>1, <1>4, <2>0 DEF Line
  <2>2. Whole(h, k2)
    BY <1>5
  <2>3. l = Text(b, h, End(h, k2))
    BY <2>1, <2>2, LineIsText
  <2> QED
    BY <1>5, <2>0, <2>3
<1>8. Line(t)' = SubSeq(Line(t), 1, Len(Line(t)) - 1) /\ Line(t) # <<>>
  <2>1. h < e
    BY <1>5, <1>6
  <2> QED
    BY <1>6, <1>7, <2>1, ShortenText
<1>9. ASSUME NEW u \in TTY, u # t
      PROVE  Shown(u)' = Shown(u)
  <2>1. buffer'[u] = buffer[u] /\ head'[u] = head[u] /\ tail'[u] = tail[u]
    BY <1>1, <1>9 DEF line_discipline_delete_last, LineInv
  <2>2. Line(u)' = Line(u) /\ (Unsettled(u)' = Unsettled(u))
    BY <2>1, SameLine, SettledStays
  <2> QED
    BY <1>3, <2>2 DEF Shown
<1>10. Shown(t) = Line(t) /\ Shown(t)' = Line(t)'
  <2>1. ~Unsettled(t)'
    BY SettledStays
  <2> QED
    BY <1>3, <2>1 DEF Shown
<1> QED
  BY <1>8, <1>9, <1>10 DEF Lines

(* A carriage return moves the line to the queue.                          *)
LEMMA FlushEnters ==
  ASSUME LinesInv, NEW t \in TTY, line_discipline_force_flush(t), ~Settling,
         ~Unsettled(t)
  PROVE  /\ Pending' = [Pending EXCEPT ![t] = Input!Recent(@ \o Lines[t], InSize - 1)]
         /\ Lines' = [Lines EXCEPT ![t] = <<>>]
<1>1. /\ LineInv /\ WriteInb(t, FlushedText(t)) /\ StartWalk(t, TRUE) /\ Interrupts(t)
      /\ UNCHANGED <<buffer, head, tail>>
  BY DEF line_discipline_force_flush, lineVars, LinesInv
<1>2. ~crossed[t]
  BY DEF Unsettled
<1>3. /\ ~Flushing(t) /\ Flushing(t)'
      /\ \A u \in TTY : u # t => (Flushing(u)' <=> Flushing(u))
  BY <1>1, InterruptsAreAbove, StartNests DEF LinesInv
<1>4. FlushedText(t) = Line(t)
  BY <1>1, <1>2, LineOf
<1>5. Lines[t] = Line(t) /\ Pending[t] = inb[t]
  BY <1>3 DEF Lines, Shown, Pending
<1>6. inb' = [inb EXCEPT ![t] = Input!Recent(inb[t] \o Lines[t], InSize - 1)]
  BY <1>1, <1>4, <1>5 DEF WriteInb, Recent, Input!Recent
<1>7. \A u \in TTY : Unsettled(u)' = Unsettled(u)
  BY SettledStays
<1>8. Pending' = [Pending EXCEPT ![t] = Input!Recent(@ \o Lines[t], InSize - 1)]
  <2> DEFINE new == Input!Recent(inb[t] \o Lines[t], InSize - 1)
  <2>1. inb'[t] = new /\ \A u \in TTY : u # t => inb'[u] = inb[u]
    BY <1>1, <1>6 DEF LineInv
  <2> HIDE DEF new
  <2>2. Pending' = [Pending EXCEPT ![t] = new]
    BY <1>7, <2>1 DEF Pending
  <2> QED
    BY <1>5, <2>2 DEF new
<1>9. ASSUME NEW u \in TTY, u # t
      PROVE  Shown(u)' = Shown(u)
  BY <1>1, <1>3, <1>7, <1>9, SameLine DEF Shown
<1>10. Shown(t)' = <<>>
  BY <1>3 DEF Shown
<1> QED
  BY <1>8, <1>9, <1>10 DEF Lines

(* A raw byte goes to the queue.                                           *)
LEMMA RawByteQueues ==
  ASSUME LinesInv, NEW t \in TTY, NEW b \in Byte, RawByte(t, b), ~Settling,
         ~Unsettled(t)
  PROVE  /\ Pending' = [Pending EXCEPT ![t] = Input!Recent(Append(@, b), InSize - 1)]
         /\ Lines' = Lines
<1>1. /\ LineInv /\ WriteInb(t, <<b>>) /\ StartWalk(t, FALSE) /\ Interrupts(t)
      /\ UNCHANGED <<buffer, head, tail>>
  BY DEF RawByte, lineVars, LinesInv
<1>2. \A u \in TTY : (Flushing(u)' <=> Flushing(u)) /\ Unsettled(u)' = Unsettled(u)
  BY <1>1, StartNests, SettledStays
<1>3. inb[t] \o <<b>> = Append(inb[t], b)
  <2>1. inb[t] \in Seq(Byte \cup {Junk})
    BY <1>1 DEF LineInv
  <2> QED
    BY <2>1, AppendIsConcat
<1>4. inb' = [inb EXCEPT ![t] = Input!Recent(Append(inb[t], b), InSize - 1)]
  BY <1>1, <1>3 DEF WriteInb, Recent, Input!Recent
<1>5. Pending' = [Pending EXCEPT ![t] = Input!Recent(Append(@, b), InSize - 1)]
  <2> DEFINE new == Input!Recent(Append(inb[t], b), InSize - 1)
  <2>1. inb'[t] = new /\ \A u \in TTY : u # t => inb'[u] = inb[u]
    BY <1>1, <1>4 DEF LineInv
  <2>2. Pending[t] = inb[t]
    BY DEF Pending
  <2> HIDE DEF new
  <2>3. Pending' = [Pending EXCEPT ![t] = new]
    BY <1>2, <2>1 DEF Pending
  <2> QED
    BY <2>2, <2>3 DEF new
<1>6. ASSUME NEW u \in TTY
      PROVE  Shown(u)' = Shown(u)
  BY <1>1, <1>2, SameLine DEF Shown
<1> QED
  BY <1>5, <1>6 DEF Lines

(* What a terminal that is unsettled does cannot be seen.                  *)
LEMMA UnsettledHidden ==
  ASSUME LinesInv, NEW t \in TTY, ~Settling, Unsettled(t),
         \/ \E c \in Char : Insert(t, c)
         \/ line_discipline_delete_last(t)
         \/ line_discipline_force_flush(t)
         \/ \E b \in Byte : RawByte(t, b)
  PROVE  UNCHANGED <<Lines, Pending, Got>>
<1>0. LineInv
  BY DEF LinesInv
<1>1. \A u \in TTY : Unsettled(u)' = Unsettled(u)
  BY SettledStays
<1>2. \A u \in TTY : u # t => /\ buffer'[u] = buffer[u] /\ head'[u] = head[u]
                              /\ tail'[u] = tail[u] /\ inb'[u] = inb[u]
  BY <1>0 DEF LineInv, Insert, line_discipline_insert, line_discipline_delete_last,
       line_discipline_force_flush, RawByte, WriteInb, lineVars
<1>3. got' = got
  BY DEF Insert, line_discipline_delete_last, line_discipline_force_flush, RawByte,
       shellVars
<1>4. \A u \in TTY : u # t => (Flushing(u)' <=> Flushing(u))
  <2>1. CASE (\E c \in Char : Insert(t, c)) \/ line_discipline_delete_last(t)
    BY <2>1, SameWalksNest DEF Insert, line_discipline_delete_last
  <2>2. CASE line_discipline_force_flush(t)
    BY <2>2, StartNests DEF line_discipline_force_flush
  <2>3. CASE \E b \in Byte : RawByte(t, b)
    BY <2>3, StartNests DEF RawByte
  <2> QED
    BY <2>1, <2>2, <2>3
<1>5. \A u \in TTY : Shown(u)' = Shown(u)
  BY <1>1, <1>2, <1>4, SameLine DEF Shown
<1> QED
  BY <1>1, <1>2, <1>3, <1>5 DEF Lines, Pending, Got

LEMMA ReadSplits ==
  ASSUME NEW S, NEW s \in Seq(S)
  PROVE  \E n \in 0..Len(s) :
           /\ \A i \in 1..n : s[i] # NUL
           /\ n < Len(s) => s[n + 1] = NUL
           /\ Left(s) = SubSeq(s, n + 2, Len(s))
           /\ Taken(s) = SubSeq(s, 1, n)
           /\ Taken(s) = <<>> <=> n = 0
<1>1. ASSUME NEW n \in 0..Len(s), Taken(s) = SubSeq(s, 1, n)
      PROVE  Taken(s) = <<>> <=> n = 0
  <2>1. Len(SubSeq(s, 1, n)) = n
    OBVIOUS
  <2>2. n = 0 => SubSeq(s, 1, n) = <<>>
    OBVIOUS
  <2> QED
    BY <1>1, <2>1, <2>2
<1>2. CASE NulAt(s) = {}
  <2>1. \A i \in 1..Len(s) : s[i] # NUL
    BY <1>2 DEF NulAt
  <2>2. SubSeq(s, Len(s) + 2, Len(s)) = <<>>
    BY SubSeqEmpty
  <2>3. SubSeq(s, 1, Len(s)) = s
    OBVIOUS
  <2>4. Left(s) = SubSeq(s, Len(s) + 2, Len(s)) /\ Taken(s) = SubSeq(s, 1, Len(s))
    BY <1>2, <2>2, <2>3 DEF Left, Taken
  <2>5. Len(s) \in 0..Len(s) /\ ~(Len(s) < Len(s))
    OBVIOUS
  <2> QED
    BY <1>1, <2>1, <2>4, <2>5
<1>3. CASE NulAt(s) # {}
  <2>1. /\ CutAt(s) \in 1..Len(s)
        /\ s[CutAt(s)] = NUL
        /\ \A i \in 1..(CutAt(s) - 1) : s[i] # NUL
    BY <1>3, CutIsFirst
  <2>2. CutAt(s) - 1 \in 0..Len(s) /\ CutAt(s) - 1 + 1 = CutAt(s)
          /\ CutAt(s) - 1 + 2 = CutAt(s) + 1
    BY <2>1
  <2>3. Left(s) = SubSeq(s, CutAt(s) + 1, Len(s)) /\ Taken(s) = SubSeq(s, 1, CutAt(s) - 1)
    BY <1>3 DEF Left, Taken
  <2>4. /\ \A i \in 1..(CutAt(s) - 1) : s[i] # NUL
        /\ CutAt(s) - 1 < Len(s) => s[CutAt(s) - 1 + 1] = NUL
        /\ Left(s) = SubSeq(s, CutAt(s) - 1 + 2, Len(s))
        /\ Taken(s) = SubSeq(s, 1, CutAt(s) - 1)
    BY <2>1, <2>2, <2>3
  <2> QED
    BY <1>1, <2>2, <2>4
<1> QED
  BY <1>2, <1>3

(* A handler that finds its terminal reads it.                             *)
LEMMA HandlerReads ==
  ASSUME LinesInv, tty_signal_handler, ~Settling
  PROVE  \/ Input!Next
         \/ UNCHANGED <<Lines, Pending, Got>>
<1>0. /\ LineInv /\ TakeText /\ UNCHANGED <<buffer, head, tail>>
      /\ got = [t \in TTY |-> got[t]]
  BY DEF LinesInv, tty_signal_handler, lineVars
<1>1. \A u \in TTY : Unsettled(u)' = Unsettled(u)
  BY SettledStays
<1>2. \A u \in TTY : Flushing(u)' <=> Flushing(u)
  BY HandlerStep, SameWalksNest DEF LinesInv
<1>3. \A u \in TTY : Shown(u)' = Shown(u)
  BY <1>0, <1>1, <1>2, SameLine DEF Shown
<1>4. Lines' = Lines
  BY <1>3 DEF Lines
<1>5. CASE devno \notin TTY
  <2>1. inb' = inb /\ got' = got
    BY <1>0, <1>5 DEF TakeText
  <2> QED
    BY <1>1, <1>4, <2>1 DEF Pending, Got
<1>6. CASE devno \in TTY
  <2>1. PICK d, s, left, text : /\ d = devno /\ s = inb[d] /\ left = Left(s)
                                /\ text = Taken(s)
    OBVIOUS
  <2>2. /\ inb'[d] = left /\ \A u \in TTY : u # d => inb'[u] = inb[u]
        /\ got'[d] = IF text = <<>> THEN got[d] ELSE text
        /\ \A u \in TTY : u # d => got'[u] = got[u]
    BY <1>0, <1>6, <2>1 DEF TakeText, ReadText, LineInv
  <2>3. CASE Unsettled(d)
    BY <1>1, <1>4, <1>6, <2>1, <2>2, <2>3 DEF Pending, Got
  <2>4. CASE ~Unsettled(d)
    <3>1. Pending[d] = s /\ Got[d] = got[d] /\ s \in Seq(Byte \cup {Junk}) /\ d \in TTY
      BY <1>0, <1>6, <2>1, <2>4 DEF Pending, Got, LineInv
    <3>2. PICK n \in 0..Len(s) :
            /\ \A i \in 1..n : s[i] # NUL
            /\ n < Len(s) => s[n + 1] = NUL
            /\ left = SubSeq(s, n + 2, Len(s))
            /\ text = SubSeq(s, 1, n)
            /\ text = <<>> <=> n = 0
      BY <2>1, <3>1, ReadSplits
    <3>3. Pending' = [Pending EXCEPT ![d] = left]
      BY <1>1, <2>2, <2>4, <3>1 DEF Pending
    <3>4. Got' = IF n = 0 THEN Got ELSE [Got EXCEPT ![d] = text]
      BY <1>1, <2>2, <2>4, <3>1, <3>2 DEF Got
    <3>5. Input!Read(d)
      <4>1. n \in 0..Len(Pending[d]) /\ Len(Pending[d]) = Len(s)
        BY <3>1
      <4>2. /\ \A i \in 1..n : Pending[d][i] # NUL
            /\ n < Len(Pending[d]) => Pending[d][n + 1] = NUL
            /\ Pending' = [Pending EXCEPT ![d] = SubSeq(@, n + 2, Len(@))]
            /\ Got' = IF n = 0 THEN Got ELSE [Got EXCEPT ![d] = SubSeq(Pending[d], 1, n)]
        BY <3>1, <3>2, <3>3, <3>4
      <4> QED
        BY <1>4, <4>1, <4>2 DEF Input!Read, Pending, Got, Lines, Shown
    <3> QED
      BY <3>1, <3>5 DEF Input!Next
  <2> QED
    BY <2>3, <2>4
<1> QED
  BY <1>5, <1>6

(* A flush that is over has nothing of its line left.                      *)
LEMMA ReturnHidden ==
  ASSUME LinesInv, WalkReturns, ~Settling
  PROVE  UNCHANGED <<Lines, Pending, Got>>
<1>0. LineInv /\ UNCHANGED <<buffer, tail, inb, got>> /\ walks # <<>>
  BY DEF LinesInv, WalkReturns, shellVars
<1>1. \A u \in TTY : Unsettled(u)' = Unsettled(u)
  BY SettledStays
<1>2. ASSUME NEW u \in TTY
      PROVE  Shown(u)' = Shown(u)
  <2>1. CASE u = Top.tty /\ Top.flush
    <3>1. head'[u] = tail[u] /\ tail'[u] = tail[u] /\ tail[u] \in Int
      BY <1>0, <2>1 DEF WalkReturns, LineInv
    <3>2. (tail[u] - tail[u]) % LineSize = 0
      BY <3>1, SizeFacts
    <3>3. Line(u)' = <<>>
      BY <3>1, <3>2 DEF Line
    <3>4. Flushing(u)
      <4>1. Len(walks) \in 1..Len(walks) /\ Top = walks[Len(walks)]
        BY <1>0, TopIsAWalk DEF LinesInv, WalkInv
      <4> QED
        BY <2>1, <4>1 DEF Flushing
    <3> QED
      BY <3>3, <3>4 DEF Shown
  <2>2. CASE ~(u = Top.tty /\ Top.flush)
    <3>1. head'[u] = head[u]
      BY <2>2 DEF WalkReturns, LinesInv, LineInv
    <3>2. Flushing(u)' <=> Flushing(u)
      BY <2>2, ReturnNests
    <3> QED
      BY <1>0, <1>1, <3>1, <3>2, SameLine DEF Shown
  <2> QED
    BY <2>1, <2>2
<1> QED
  BY <1>0, <1>1, <1>2 DEF Lines, Pending, Got

(* Every step of the terminal is a step of the promise or leaves it alone, *)
(* unless it is one that unsettles a terminal.                             *)
LEMMA StepIsInputStep ==
  ASSUME LinesInv, [Next]_vars
  PROVE  [Input!Next \/ Settling]_(Input!vars)
<1> SUFFICES ASSUME ~Settling
             PROVE  Input!Next \/ UNCHANGED <<Lines, Pending, Got>>
  BY DEF Input!vars, Lines, Pending, Got, Shown
<1>1. ASSUME NEW t \in TTY, NEW c \in Char, Insert(t, c), ~Unsettled(t)
      PROVE  Input!Next
  <2>1. c \in Byte
    BY SizeFacts
  <2>2. \A u \in TTY : Unsettled(u)' = Unsettled(u)
    BY SettledStays
  <2>3. UNCHANGED <<Pending, Got>>
    BY <1>1, <2>2 DEF Insert, shellVars, Pending, Got
  <2>4. Lines' = [Lines EXCEPT ![t] = Input!Recent(Append(@, c), LineSize - 1)]
    BY <1>1, InsertTypes
  <2>5. Input!Type(t, c)
    BY <2>3, <2>4 DEF Input!Type, Lines, Shown, Pending, Got
  <2> QED
    BY <2>1, <2>5 DEF Input!Next
<1>2. ASSUME NEW t \in TTY, line_discipline_delete_last(t), ~Unsettled(t)
      PROVE  Input!Next
  <2>1. \A u \in TTY : Unsettled(u)' = Unsettled(u)
    BY SettledStays
  <2>2. UNCHANGED <<Pending, Got>>
    BY <1>2, <2>1 DEF line_discipline_delete_last, shellVars, Pending, Got
  <2>3. Lines[t] # <<>> /\ Lines' = [Lines EXCEPT ![t] = SubSeq(@, 1, Len(@) - 1)]
    BY <1>2, DeleteErases
  <2>4. Input!Erase(t)
    BY <2>2, <2>3 DEF Input!Erase, Lines, Shown, Pending, Got
  <2> QED
    BY <2>4 DEF Input!Next
<1>3. ASSUME NEW t \in TTY, line_discipline_force_flush(t), ~Unsettled(t)
      PROVE  Input!Next
  <2>1. \A u \in TTY : Unsettled(u)' = Unsettled(u)
    BY SettledStays
  <2>2. UNCHANGED Got
    BY <1>3, <2>1 DEF line_discipline_force_flush, shellVars, Got
  <2>3. /\ Pending' = [Pending EXCEPT ![t] = Input!Recent(@ \o Lines[t], InSize - 1)]
        /\ Lines' = [Lines EXCEPT ![t] = <<>>]
    BY <1>3, FlushEnters
  <2>4. Input!Enter(t)
    BY <2>2, <2>3 DEF Input!Enter, Lines, Shown, Pending, Got
  <2> QED
    BY <2>4 DEF Input!Next
<1>4. ASSUME NEW t \in TTY, NEW b \in Byte, RawByte(t, b), ~Unsettled(t)
      PROVE  Input!Next
  <2>1. \A u \in TTY : Unsettled(u)' = Unsettled(u)
    BY SettledStays
  <2>2. UNCHANGED Got
    BY <1>4, <2>1 DEF RawByte, shellVars, Got
  <2>3. /\ Pending' = [Pending EXCEPT ![t] = Input!Recent(Append(@, b), InSize - 1)]
        /\ Lines' = Lines
    BY <1>4, RawByteQueues
  <2>4. Input!Byte1(t, b)
    BY <2>2, <2>3 DEF Input!Byte1, Lines, Shown, Pending, Got
  <2> QED
    BY <2>4 DEF Input!Next
<1>5. CASE \/ \E t \in TTY : \E value \in BOOLEAN : _tty_modes(t, value)
           \/ \E t \in TTY : run_shell(t)
           \/ RunCommand
           \/ UNCHANGED vars
  <2>1. UNCHANGED <<buffer, head, tail, inb, got>>
    BY <1>5 DEF _tty_modes, run_shell, RunCommand, vars, lineVars, shellVars
  <2>2. \A u \in TTY : Unsettled(u)' = Unsettled(u)
    BY SettledStays
  <2>3. \A u \in TTY : Flushing(u)' <=> Flushing(u)
    <3>1. CASE RunCommand
      BY <3>1, CommandStep, SameWalksNest DEF LinesInv
    <3>2. CASE ~RunCommand
      <4>1. UNCHANGED walks
        BY <1>5, <3>2 DEF _tty_modes, run_shell, vars
      <4> QED
        BY <4>1, SameWalksNest
    <3> QED
      BY <3>1, <3>2
  <2>4. \A u \in TTY : Shown(u)' = Shown(u)
    BY <2>1, <2>2, <2>3, SameLine DEF Shown
  <2> QED
    BY <2>1, <2>2, <2>4 DEF Lines, Pending, Got
<1> QED
  BY <1>1, <1>2, <1>3, <1>4, <1>5, HandlerReads, ReturnHidden, UnsettledHidden DEF Next

LEMMA InitIsInputInit ==
  ASSUME Init
  PROVE  Input!Init
<1>1. 0 % LineSize = 0 /\ 0 - 0 = 0
  BY SizeFacts
<1>2. ASSUME NEW t \in TTY
      PROVE  Shown(t) = <<>>
  <2>1. head[t] = 0 /\ tail[t] = 0
    BY DEF Init
  <2>2. Line(t) = <<>>
    BY <1>1, <2>1 DEF Line
  <2> QED
    BY <2>2 DEF Shown
<1>3. Lines = [t \in TTY |-> <<>>] /\ Pending = [t \in TTY |-> <<>>]
      /\ Got = [t \in TTY |-> <<>>]
  BY <1>2 DEF Init, Lines, Pending, Got
<1> QED
  BY <1>3 DEF Input!Init, Lines, Shown, Pending, Got

(* The shell is given the lines typed, edited, in order and each once, for *)
(* all terminals, characters, priorities and ring sizes, and a terminal    *)
(* keeps doing so until one of its lines goes past the end of its buffer   *)
(* or its text is read while interrupts are on (line_discipline.c,         *)
(* tty_write_inb, _tty_read, tty_signal_handler).                          *)
THEOREM TerminalImplementsLines == Spec => TerminalGivesLines
<1>1. Init => LinesInv /\ Input!Init
  BY InitLinesInv, InitIsInputInit
<1>2. LinesInv /\ [Next]_vars => LinesInv'
  BY NextLinesInv
<1>3. LinesInv /\ [Next]_vars =>
        [Input!Next \/ \E t \in TTY : Unsettled(t)' # Unsettled(t)]_(Input!vars)
  BY StepIsInputStep DEF Settling
<1> QED
  BY <1>1, <1>2, <1>3, PTL DEF Spec, TerminalGivesLines
=============================================================================
