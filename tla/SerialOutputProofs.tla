------------------------- MODULE SerialOutputProofs -------------------------
(***************************************************************************)
(* Theorems about SerialOutput, for any ports, contexts and ring sizes in  *)
(* which the port's ring has room for what the contexts leave there.       *)
(***************************************************************************)
EXTENDS SerialOutput, SequenceTheorems, FiniteSetTheorems, TLAPS

-----------------------------------------------------------------------------
(* The inductive invariant. *)

Places == {"no", "put", "copy", "store", "drain", "send"}

Shapes ==
  /\ ring \in [Port -> Seq(Int)]
  /\ sent \in [Port -> Seq(Int)] /\ entered \in [Port -> Seq(Int)]
  /\ inb \in [Port -> 0..(InSize - 1)]
  /\ interrupted \in Port \cup {NoPort}
  /\ tty \in Seq(Int) /\ passed \in Seq(Int) /\ byte \in Int
  /\ start \in 0..(TtySize - 1) /\ copied \in Nat
  /\ plan \in [Context -> Seq({"put", "flush"})] /\ pc \in [Context -> Places]
  /\ printed \in Nat /\ typed \in 0..MaxTyped
  /\ lost \in BOOLEAN /\ raced \in BOOLEAN
  /\ flushes \in Nat \X Nat

Bounds ==
  /\ \A p \in Port : Len(ring[p]) < OutSize
  /\ Len(tty) < TtySize /\ copied <= Len(tty)

\* At most one context is in the middle of an operation on each ring.
Alone ==
  \A c, d \in Context : c # d =>
    ~(InTty(c) /\ InTty(d)) /\ ~(InRing(c) /\ InRing(d))

\* What the flush in progress has passed on, and the byte it is storing.
CopyFits ==
  /\ (\A c \in Context : pc[c] \notin {"copy", "store"}) => copied = 0
  /\ copied <= UpToEnd
  /\ \A c \in Context : pc[c] = "store" =>
       copied < UpToEnd /\ byte = tty[copied + 1]

Draining == {c \in Context : pc[c] \in {"drain", "send"}}

\* The console's ring holds at most a terminal's ring for each context that is
\* emptying it, and what the flush in progress has passed on.
RoomInRing ==
  Len(ring[Console]) <= Cardinality(Draining) * (TtySize - 1) + copied

\* s is strictly increasing and within 1..n.
Rising(s, n) ==
  /\ \A i \in DOMAIN s : s[i] \in 1..n
  /\ \A i, j \in DOMAIN s : i < j => s[i] < s[j]

InOrder ==
  /\ Rising(PrintedSoFar, printed)
  /\ ~lost => Len(PrintedSoFar) = printed

\* What was there at the last flush lies before the end of the terminal's
\* ring: the next flush takes it.
OldLiesBeforeEnd ==
  /\ flushes[2] <= flushes[1] /\ flushes[1] <= printed
  /\ \A i \in DOMAIN tty :
       /\ tty[i] > flushes[2]
       /\ tty[i] <= flushes[1] => start + i <= TtySize

\* What holds until two contexts meet in the middle of an operation.
Followed == Alone /\ CopyFits /\ RoomInRing /\ InOrder /\ OldLiesBeforeEnd

OthersEmpty == \A p \in Port \ {Console} : ring[p] = <<>>

SerialInv ==
  Shapes /\ Bounds /\ OthersEmpty /\ PortKeepsBytes /\ (~raced => Followed)

-----------------------------------------------------------------------------
(* Sequences and numbers. *)

\* The oldest byte of the last piece can go.
LEMMA RisingDrop ==
  ASSUME NEW a \in Seq(Int), NEW b \in Seq(Int), b # <<>>, NEW n \in Nat,
         Rising(a \o b, n)
  PROVE  Rising(a \o Tail(b), n)
<1> DEFINE s == a \o b
           t == a \o Tail(b)
<1>1. /\ Tail(b) \in Seq(Int) /\ Len(Tail(b)) = Len(b) - 1
      /\ \A i \in 1..Len(Tail(b)) : Tail(b)[i] = b[i + 1]
  BY HeadTailProperties
<1>2. /\ s \in Seq(Int) /\ Len(s) = Len(a) + Len(b)
      /\ \A i \in 1..Len(a) : s[i] = a[i]
      /\ \A i \in 1..Len(b) : s[Len(a) + i] = b[i]
  OBVIOUS
<1>3. /\ t \in Seq(Int) /\ Len(t) = Len(a) + Len(b) - 1
      /\ \A i \in 1..Len(a) : t[i] = a[i]
      /\ \A i \in 1..(Len(b) - 1) : t[Len(a) + i] = Tail(b)[i]
  BY <1>1
<1> HIDE DEF s, t
<1> DEFINE at(i) == IF i <= Len(a) THEN i ELSE i + 1
<1>4. /\ Len(a) \in Nat /\ Len(b) \in Nat /\ Len(b) > 0
  OBVIOUS
<1>5. ASSUME NEW i \in 1..Len(t)
      PROVE  at(i) \in 1..Len(s) /\ t[i] = s[at(i)]
  <2>1. CASE i <= Len(a)
    BY <2>1, <1>2, <1>3, <1>4
  <2>2. CASE ~(i <= Len(a))
    <3>1. i - Len(a) \in 1..(Len(b) - 1)
      BY <2>2, <1>3, <1>4
    <3>2. t[i] = Tail(b)[i - Len(a)]
      BY <3>1, <1>3, <1>4, i = Len(a) + (i - Len(a))
    <3>3. Tail(b)[i - Len(a)] = b[i - Len(a) + 1]
      BY <3>1, <1>1
    <3>4. s[i + 1] = b[i - Len(a) + 1]
      <4>1. i - Len(a) + 1 \in 1..Len(b) /\ Len(a) + (i - Len(a) + 1) = i + 1
        BY <3>1, <1>4
      <4>2. s[Len(a) + (i - Len(a) + 1)] = b[i - Len(a) + 1]
        BY <4>1, <1>2, Zenon
      <4> QED
        BY <4>1, <4>2, Zenon
    <3> QED
      BY <2>2, <3>1, <3>2, <3>3, <3>4, <1>2, <1>3, <1>4
  <2> QED
    BY <2>1, <2>2
<1>6. /\ DOMAIN s = 1..Len(s) /\ DOMAIN t = 1..Len(t)
  BY <1>2, <1>3
<1>7. Rising(s, n)
  BY DEF s
<1>8. Rising(t, n)
  <2>1. ASSUME NEW i \in DOMAIN t PROVE t[i] \in 1..n
    BY <1>5, <1>6, <1>7 DEF Rising
  <2>2. ASSUME NEW i \in DOMAIN t, NEW j \in DOMAIN t, i < j PROVE t[i] < t[j]
    <3>1. at(i) < at(j)
      BY <2>2, <1>4, <1>6, <1>3
    <3>2. /\ at(i) \in DOMAIN s /\ at(j) \in DOMAIN s
          /\ t[i] = s[at(i)] /\ t[j] = s[at(j)]
      BY <1>5, <1>6
    <3> HIDE DEF at
    <3> QED
      BY <3>1, <3>2, <1>7 DEF Rising
  <2> QED
    BY <2>1, <2>2 DEF Rising
<1> QED
  BY <1>8 DEF t

\* The next number can come behind.
LEMMA RisingMore ==
  ASSUME NEW s \in Seq(Int), NEW n \in Nat, Rising(s, n)
  PROVE  Rising(s \o <<n + 1>>, n + 1)
<1> DEFINE t == s \o <<n + 1>>
<1>1. /\ t \in Seq(Int) /\ Len(t) = Len(s) + 1 /\ Len(s) \in Nat
      /\ \A i \in 1..Len(s) : t[i] = s[i]
      /\ t[Len(s) + 1] = n + 1
      /\ DOMAIN t = 1..Len(t) /\ DOMAIN s = 1..Len(s)
  OBVIOUS
<1> HIDE DEF t
<1>2. \A i \in 1..Len(s) : s[i] \in 1..n
  BY <1>1 DEF Rising
<1>3. ASSUME NEW i \in DOMAIN t, NEW j \in DOMAIN t, i < j PROVE t[i] < t[j]
  <2>1. CASE j <= Len(s)
    <3>1. i \in 1..Len(s) /\ j \in 1..Len(s)
      BY <1>1, <1>3, <2>1
    <3>2. s[i] < s[j]
      BY <1>1, <1>3, <3>1 DEF Rising
    <3> QED
      BY <1>1, <3>1, <3>2
  <2>2. CASE ~(j <= Len(s))
    BY <1>1, <1>2, <1>3, <2>2
  <2> QED
    BY <2>1, <2>2
<1>4. ASSUME NEW i \in DOMAIN t PROVE t[i] \in 1..(n + 1)
  <2>1. CASE i \in 1..Len(s)
    BY <1>1, <1>2, <2>1
  <2>2. CASE i = Len(s) + 1
    BY <1>1, <2>2
  <2> QED
    BY <1>1, <2>1, <2>2
<1>5. Rising(t, n + 1)
  BY <1>3, <1>4 DEF Rising
<1> QED
  BY <1>5 DEF t

\* A sequence in two pieces.
LEMMA Pieces ==
  ASSUME NEW t \in Seq(Int), NEW k \in 0..Len(t)
  PROVE  /\ SubSeq(t, 1, k) \in Seq(Int) /\ SubSeq(t, k + 1, Len(t)) \in Seq(Int)
         /\ Len(SubSeq(t, 1, k)) = k /\ Len(SubSeq(t, k + 1, Len(t))) = Len(t) - k
         /\ \A i \in 1..(Len(t) - k) : SubSeq(t, k + 1, Len(t))[i] = t[k + i]
         /\ SubSeq(t, 1, k) \o SubSeq(t, k + 1, Len(t)) = t
<1>0. Len(t) \in Nat /\ k \in Int /\ \A i \in 1..Len(t) : t[i] \in Int
  OBVIOUS
<1>1. /\ SubSeq(t, 1, k) \in Seq(Int) /\ SubSeq(t, k + 1, Len(t)) \in Seq(Int)
      /\ Len(SubSeq(t, 1, k)) = k /\ Len(SubSeq(t, k + 1, Len(t))) = Len(t) - k
      /\ \A i \in 1..(Len(t) - k) : SubSeq(t, k + 1, Len(t))[i] = t[k + i]
  <2>1. /\ \A i \in 1..k : t[i] \in Int
        /\ \A i \in (k + 1)..Len(t) : t[i] \in Int
    BY <1>0
  <2>2. /\ SubSeq(t, 1, k) \in Seq(Int)
        /\ Len(SubSeq(t, 1, k)) = IF 1 <= k THEN k - 1 + 1 ELSE 0
    BY <1>0, <2>1, SubSeqProperties
  <2>3. /\ SubSeq(t, k + 1, Len(t)) \in Seq(Int)
        /\ Len(SubSeq(t, k + 1, Len(t))) =
             IF k + 1 <= Len(t) THEN Len(t) - (k + 1) + 1 ELSE 0
        /\ \A i \in 1..(Len(t) - (k + 1) + 1) :
             SubSeq(t, k + 1, Len(t))[i] = t[(k + 1) + i - 1]
    BY <1>0, <2>1, SubSeqProperties
  <2>4. ASSUME NEW i \in 1..(Len(t) - k)
        PROVE  SubSeq(t, k + 1, Len(t))[i] = t[k + i]
    <3>1. i \in 1..(Len(t) - (k + 1) + 1) /\ (k + 1) + i - 1 = k + i
      BY <1>0
    <3> QED
      BY <2>3, <3>1
  <2> QED
    BY <1>0, <2>2, <2>3, <2>4
<1>2. \A i \in 1..k : SubSeq(t, 1, k)[i] = t[i]
  OBVIOUS
<1> DEFINE a == SubSeq(t, 1, k)
           b == SubSeq(t, k + 1, Len(t))
<1>3. a \in Seq(Int) /\ b \in Seq(Int) /\ Len(a) = k /\ Len(b) = Len(t) - k
  BY <1>1
<1>4. /\ \A i \in 1..k : a[i] = t[i]
      /\ \A i \in 1..(Len(t) - k) : b[i] = t[k + i]
  BY <1>1, <1>2
<1> HIDE DEF a, b
<1>5. /\ a \o b \in Seq(Int) /\ Len(a \o b) = Len(t)
      /\ \A i \in 1..Len(t) : (a \o b)[i] = IF i <= k THEN a[i] ELSE b[i - k]
  <2>1. Len(a) + Len(b) = Len(t)
    BY <1>0, <1>3
  <2>2. /\ a \o b \in Seq(Int) /\ Len(a \o b) = Len(a) + Len(b)
        /\ \A i \in 1..(Len(a) + Len(b)) :
             (a \o b)[i] = IF i <= Len(a) THEN a[i] ELSE b[i - Len(a)]
    BY <1>3, ConcatProperties, Zenon
  <2> QED
    BY <1>3, <2>1, <2>2, Zenon
<1>6. \A i \in 1..Len(t) : (a \o b)[i] = t[i]
  <2> TAKE i \in 1..Len(t)
  <2>1. CASE i <= k
    BY <1>4, <1>5, <2>1
  <2>2. CASE ~(i <= k)
    BY <1>4, <1>5, <2>2, i - k \in 1..(Len(t) - k), k + (i - k) = i
  <2> QED
    BY <2>1, <2>2
<1>7. a \o b = t
  BY <1>5, <1>6, SeqEqual
<1> QED
  BY <1>1, <1>7 DEF a, b

\* An index that wraps stays inside.
LEMMA ModRange ==
  ASSUME NEW a \in Nat, NEW n \in Nat \ {0}
  PROVE  a % n \in 0..(n - 1)
OBVIOUS

\* A byte that moves from the ring to the hand, or from there to the wire, and
\* one that joins the ring, do not change the text that they are a part of.
LEMMA Moves ==
  ASSUME NEW s \in Seq(Int), NEW r \in Seq(Int), NEW b \in Int
  PROVE  /\ Append(s \o <<>> \o r, b) = s \o <<>> \o Append(r, b)
         /\ r # <<>> => s \o <<>> \o r = s \o <<Head(r)>> \o Tail(r)
         /\ s \o <<b>> \o r = Append(s, b) \o <<>> \o r
         /\ Append(s \o <<>> \o r, b) = (s \o r \o <<b>>) \o <<>> \o <<>>
<1>0. <<b>> \in Seq(Int)
  OBVIOUS
<1>1. s \o <<>> = s /\ Append(s, b) = s \o <<b>> /\ Append(s, b) \in Seq(Int)
  BY ConcatEmptySeq, AppendIsConcat, AppendProperties
<1>2. Append(s, b) \o <<>> = Append(s, b)
  BY <1>1, ConcatEmptySeq
<1>3. s \o r \in Seq(Int)
  BY ConcatProperties
<1>4. Append(s \o r, b) = s \o r \o <<b>> /\ s \o r \o <<b>> \in Seq(Int)
  BY <1>0, <1>3, AppendIsConcat, ConcatProperties
<1>5. s \o r \o <<b>> = s \o Append(r, b)
  <2>1. Append(r, b) = r \o <<b>>
    BY AppendIsConcat
  <2>2. (s \o r) \o <<b>> = s \o (r \o <<b>>)
    BY <1>0, ConcatAssociative
  <2> QED
    BY <2>1, <2>2
<1>6. (s \o r \o <<b>>) \o <<>> \o <<>> = s \o r \o <<b>>
  <2>1. (s \o r \o <<b>>) \o <<>> = s \o r \o <<b>>
    BY <1>4, ConcatEmptySeq
  <2> QED
    BY <2>1
<1>7. ASSUME r # <<>>
      PROVE  s \o r = s \o <<Head(r)>> \o Tail(r)
  <2>1. Head(r) \in Int /\ Tail(r) \in Seq(Int) /\ <<Head(r)>> \in Seq(Int)
    BY <1>7, HeadTailProperties
  <2>2. r = <<Head(r)>> \o Tail(r)
    BY <1>7, HeadTailProperties, ConcatSimplifications
  <2>3. s \o (<<Head(r)>> \o Tail(r)) = (s \o <<Head(r)>>) \o Tail(r)
    BY <2>1, ConcatAssociative
  <2> QED
    BY <2>2, <2>3
<1> QED
  BY <1>1, <1>2, <1>4, <1>5, <1>6, <1>7, Zenon

\* A sequence and its parts around one of its elements.
LEMMA PieceMoves ==
  ASSUME NEW s \in Seq(Int), NEW t \in Seq(Int), NEW k \in Nat, k < Len(t)
  PROVE  s \o SubSeq(t, k + 1, Len(t)) = Append(s, t[k + 1]) \o SubSeq(t, k + 2, Len(t))
<1> DEFINE r == SubSeq(t, k + 1, Len(t))
           q == SubSeq(t, k + 2, Len(t))
<1>1. Len(t) \in Nat /\ k \in 0..Len(t) /\ k + 1 \in 0..Len(t) /\ t[k + 1] \in Int
  OBVIOUS
<1>2. /\ r \in Seq(Int) /\ Len(r) = Len(t) - k
      /\ \A i \in 1..(Len(t) - k) : r[i] = t[k + i]
  BY <1>1, Pieces
<1>3. /\ SubSeq(t, (k + 1) + 1, Len(t)) \in Seq(Int)
      /\ Len(SubSeq(t, (k + 1) + 1, Len(t))) = Len(t) - (k + 1)
      /\ \A i \in 1..(Len(t) - (k + 1)) :
           SubSeq(t, (k + 1) + 1, Len(t))[i] = t[(k + 1) + i]
  BY <1>1, Pieces
<1>4. (k + 1) + 1 = k + 2
  BY <1>1
<1>5. /\ q \in Seq(Int) /\ Len(q) = Len(t) - (k + 1)
      /\ \A i \in 1..(Len(t) - (k + 1)) : q[i] = t[(k + 1) + i]
  BY <1>3, <1>4
<1> HIDE DEF r, q
<1>6. r # <<>>
  BY <1>1, <1>2
<1>7. Head(r) = t[k + 1]
  BY <1>1, <1>2, <1>6
<1>8. Tail(r) = q
  <2>1. /\ Tail(r) \in Seq(Int) /\ Len(Tail(r)) = Len(r) - 1
        /\ \A i \in 1..Len(Tail(r)) : Tail(r)[i] = r[i + 1]
    BY <1>2, <1>6, HeadTailProperties
  <2>2. Len(Tail(r)) = Len(q)
    BY <1>1, <1>2, <1>5, <2>1
  <2>3. ASSUME NEW i \in 1..Len(q) PROVE Tail(r)[i] = q[i]
    <3>a. i \in 1..(Len(t) - (k + 1)) /\ i \in 1..Len(Tail(r))
      BY <1>5, <2>2
    <3>b. i + 1 \in 1..(Len(t) - k) /\ k + (i + 1) = (k + 1) + i
      BY <1>1, <3>a
    <3>1. i \in 1..(Len(t) - (k + 1)) /\ i + 1 \in 1..(Len(t) - k)
          /\ k + (i + 1) = (k + 1) + i /\ i \in 1..Len(Tail(r))
      BY <3>a, <3>b
    <3> QED
      BY <1>2, <1>5, <2>1, <3>1
  <2> QED
    BY <1>5, <2>1, <2>2, <2>3, SeqEqual
<1>9. /\ s \o <<>> \o r = s \o <<Head(r)>> \o Tail(r)
      /\ s \o <<t[k + 1]>> \o q = Append(s, t[k + 1]) \o <<>> \o q
  BY <1>1, <1>2, <1>5, <1>6, Moves, Zenon
<1>10. s \o <<>> = s /\ Append(s, t[k + 1]) \o <<>> = Append(s, t[k + 1])
  BY <1>1, ConcatEmptySeq, AppendProperties
<1> QED
  BY <1>7, <1>8, <1>9, <1>10 DEF r, q

\* A whole sequence.
LEMMA WholeSeq ==
  ASSUME NEW t \in Seq(Int)
  PROVE  SubSeq(t, 0 + 1, Len(t)) = t
<1>1. Len(t) \in Nat /\ 0 \in 0..Len(t)
  OBVIOUS
<1>2. /\ SubSeq(t, 0 + 1, Len(t)) \in Seq(Int)
      /\ Len(SubSeq(t, 0 + 1, Len(t))) = Len(t) - 0
      /\ \A i \in 1..(Len(t) - 0) : SubSeq(t, 0 + 1, Len(t))[i] = t[0 + i]
  BY <1>1, Pieces
<1> DEFINE r == SubSeq(t, 0 + 1, Len(t))
<1>3. r \in Seq(Int) /\ Len(r) = Len(t) /\ \A i \in 1..Len(t) : r[i] = t[i]
  BY <1>1, <1>2
<1> HIDE DEF r
<1>4. r = t
  BY <1>3, SeqEqual
<1> QED
  BY <1>4 DEF r

\* Products of natural numbers.
LEMMA Products ==
  ASSUME NEW a \in Nat, NEW b \in Nat, NEW n \in Nat
  PROVE  /\ a * n \in Nat /\ (a + 1) * n = a * n + n
         /\ a <= b => a * n <= b * n
<1>1. a * n \in Nat /\ (a + 1) * n = a * n + n
  OBVIOUS
<1>2. ASSUME a <= b PROVE a * n <= b * n
  <2>1. PICK k \in Nat : b = a + k
    BY <1>2, b - a \in Nat, b = a + (b - a)
  <2>2. b * n = a * n + k * n /\ k * n \in Nat
    BY <2>1
  <2> QED
    BY <1>1, <2>2
<1> QED
  BY <1>1, <1>2

-----------------------------------------------------------------------------
(* Places and their changes. *)

\* The part of a text that a flush passes on.
LEMMA UpToEndFits ==
  ASSUME Shapes, Bounds
  PROVE  /\ UpToEnd \in 0..Len(tty)
         /\ UpToEnd < Len(tty) => start + UpToEnd = TtySize
         /\ start + UpToEnd <= TtySize
         /\ (start + UpToEnd) % TtySize = IF start + UpToEnd = TtySize THEN 0
                                          ELSE start + UpToEnd
         /\ tty # <<>> => UpToEnd > 0
<1>1. /\ Len(tty) \in Nat /\ start \in Nat /\ start < TtySize /\ Len(tty) < TtySize
      /\ TtySize \in Nat /\ (tty # <<>> => Len(tty) > 0)
  <2>1. tty \in Seq(Int) /\ start \in 0..(TtySize - 1) /\ Len(tty) < TtySize
    BY DEF Shapes, Bounds
  <2>2. TtySize \in Nat
    BY SerialAssumption
  <2>3. start \in Nat /\ start < TtySize
    BY <2>1, <2>2
  <2>4. Len(tty) \in Nat /\ (tty # <<>> => Len(tty) > 0)
    BY <2>1
  <2> QED
    BY <2>1, <2>2, <2>3, <2>4
<1>2. /\ UpToEnd \in 0..Len(tty)
      /\ UpToEnd < Len(tty) => start + UpToEnd = TtySize
      /\ start + UpToEnd <= TtySize
      /\ tty # <<>> => UpToEnd > 0
  BY <1>1 DEF UpToEnd
<1>3. UpToEnd \in Nat
  BY <1>1, <1>2
<1> QED
  BY <1>1, <1>2, <1>3

\* A context that turns leaves the others where they are.
LEMMA TurnsOne ==
  ASSUME pc \in [Context -> Places], NEW c \in Context, NEW to \in Places, Turns(c, to)
  PROVE  /\ pc' \in [Context -> Places] /\ pc'[c] = to
         /\ \A d \in Context \ {c} : pc'[d] = pc[d]
BY DEF Turns

\* One that begins an operation where no other is leaves them alone.
LEMMA AloneKept ==
  ASSUME pc \in [Context -> Places], Alone, NEW c \in Context, NEW to \in Places,
         Turns(c, to),
         to \in {"put", "copy", "store"} => InTty(c) \/ ~MeetsInTty(c),
         to \in {"store", "send"} => InRing(c) \/ ~MeetsInRing(c)
  PROVE  Alone'
<1>1. /\ pc'[c] = to /\ \A d \in Context \ {c} : pc'[d] = pc[d]
  BY TurnsOne
<1>2. ASSUME NEW d \in Context \ {c}
      PROVE  ~(InTty(c)' /\ InTty(d)') /\ ~(InRing(c)' /\ InRing(d)')
  <2>1. InTty(d)' = InTty(d) /\ InRing(d)' = InRing(d)
    BY <1>1 DEF InTty, InRing
  <2>2. InTty(c)' => to \in {"put", "copy", "store"}
    BY <1>1 DEF InTty
  <2>3. InRing(c)' => to \in {"store", "send"}
    BY <1>1 DEF InRing
  <2>4. ~(InTty(c) /\ InTty(d)) /\ ~(InRing(c) /\ InRing(d))
    BY DEF Alone
  <2>5. /\ ~MeetsInTty(c) => ~InTty(d)
        /\ ~MeetsInRing(c) => ~InRing(d)
    BY DEF MeetsInTty, MeetsInRing
  <2> QED
    BY <2>1, <2>2, <2>3, <2>4, <2>5, Zenon
<1>3. ASSUME NEW d \in Context, NEW e \in Context, d # c, e # c, d # e
      PROVE  ~(InTty(d)' /\ InTty(e)') /\ ~(InRing(d)' /\ InRing(e)')
  <2>1. pc'[d] = pc[d] /\ pc'[e] = pc[e]
    BY <1>1, <1>3
  <2> QED
    BY <1>3, <2>1 DEF Alone, InTty, InRing
<1>4. ASSUME NEW d \in Context, NEW e \in Context, d # e
      PROVE  ~(InTty(d)' /\ InTty(e)') /\ ~(InRing(d)' /\ InRing(e)')
  <2>1. CASE d = c
    BY <1>2, <1>4, <2>1
  <2>2. CASE e = c
    BY <1>2, <1>4, <2>2
  <2>3. CASE d # c /\ e # c
    BY <1>3, <1>4, <2>3
  <2> QED
    BY <2>1, <2>2, <2>3
<1> QED
  BY <1>4 DEF Alone, InTty, InRing

\* How many contexts are emptying the console's ring.
LEMMA DrainingCount ==
  ASSUME pc \in [Context -> Places]
  PROVE  /\ IsFiniteSet(Draining) /\ Cardinality(Draining) \in Nat
         /\ Cardinality(Context) \in Nat
         /\ \A c \in Context : c \notin Draining =>
              Cardinality(Draining) + 1 <= Cardinality(Context)
<1>1. IsFiniteSet(Context) /\ Draining \subseteq Context
  BY SerialAssumption DEF Draining
<1>2. IsFiniteSet(Draining) /\ Cardinality(Draining) \in Nat /\ Cardinality(Context) \in Nat
  BY <1>1, FS_Subset, FS_CardinalityType
<1>3. ASSUME NEW c \in Context, c \notin Draining
      PROVE  Cardinality(Draining) + 1 <= Cardinality(Context)
  <2>1. /\ IsFiniteSet(Context \ {c})
        /\ Cardinality(Context \ {c}) = Cardinality(Context) - 1
    BY <1>1, FS_RemoveElement
  <2>2. Draining \subseteq Context \ {c}
    BY <1>1, <1>3
  <2>3. Cardinality(Draining) <= Cardinality(Context \ {c})
    BY <2>1, <2>2, FS_Subset
  <2>4. Cardinality(Context \ {c}) \in Nat
    BY <2>1, FS_CardinalityType
  <2> QED
    BY <1>2, <2>1, <2>3, <2>4
<1> QED
  BY <1>2, <1>3

\* A context that is not emptying the ring leaves the count as it is, and one
\* that begins to raises it by one.
LEMMA DrainingTurns ==
  ASSUME pc \in [Context -> Places], NEW c \in Context, NEW to \in Places, Turns(c, to)
  PROVE  /\ (pc[c] \in {"drain", "send"} <=> to \in {"drain", "send"}) =>
              Draining' = Draining
         /\ pc[c] \notin {"drain", "send"} /\ to \in {"drain", "send"} =>
              Cardinality(Draining') = Cardinality(Draining) + 1
<1>1. /\ pc'[c] = to /\ \A d \in Context \ {c} : pc'[d] = pc[d]
  BY TurnsOne
<1>2. ASSUME pc[c] \in {"drain", "send"} <=> to \in {"drain", "send"}
      PROVE  Draining' = Draining
  BY <1>1, <1>2 DEF Draining
<1>3. ASSUME pc[c] \notin {"drain", "send"}, to \in {"drain", "send"}
      PROVE  Cardinality(Draining') = Cardinality(Draining) + 1
  <2>1. Draining' = Draining \cup {c} /\ c \notin Draining
    BY <1>1, <1>3 DEF Draining
  <2>2. IsFiniteSet(Draining)
    BY DrainingCount
  <2>3. Cardinality(Draining \cup {c}) = Cardinality(Draining) + 1
    BY <2>1, <2>2, FS_AddElement
  <2> QED
    BY <2>1, <2>3
<1> QED
  BY <1>2, <1>3

\* No flush of the terminal fills the console's ring.
LEMMA NeverFull ==
  ASSUME SerialInv, ~raced, NEW c \in Context, pc[c] = "store"
  PROVE  /\ ~Full(Append(ring[Console], byte))
         /\ Len(Append(ring[Console], byte)) < OutSize
         /\ Len(Append(ring[Console], byte)) = Len(ring[Console]) + 1
         /\ copied + 1 <= Len(tty)
<1>1. /\ ring[Console] \in Seq(Int) /\ byte \in Int /\ pc \in [Context -> Places]
      /\ copied \in Nat /\ Len(tty) \in Nat /\ Len(ring[Console]) \in Nat
  <2>1. /\ ring \in [Port -> Seq(Int)] /\ byte \in Int /\ pc \in [Context -> Places]
        /\ copied \in Nat /\ tty \in Seq(Int)
    BY DEF SerialInv, Shapes
  <2>2. ring[Console] \in Seq(Int)
    BY <2>1, SerialAssumption
  <2> QED
    BY <2>1, <2>2
<1>2. copied < UpToEnd /\ UpToEnd \in 0..Len(tty) /\ Len(tty) < TtySize
  BY UpToEndFits DEF SerialInv, Bounds, Followed, CopyFits
<1> DEFINE n == TtySize - 1
           d == Cardinality(Draining)
           k == Cardinality(Context)
<1>3. n \in Nat /\ copied + 1 <= n /\ copied + 1 <= Len(tty)
  BY <1>1, <1>2, SerialAssumption
<1>4. d \in Nat /\ k \in Nat /\ d + 1 <= k
  <2>1. c \notin Draining
    BY DEF Draining
  <2> QED
    BY <1>1, <2>1, DrainingCount
<1>5. Len(ring[Console]) <= d * n + copied
  BY DEF SerialInv, Followed, RoomInRing
<1>6. k * n + 1 < OutSize /\ OutSize \in Nat
  BY SerialAssumption
<1> HIDE DEF n, d, k
<1>7. d * n \in Nat /\ (d + 1) * n = d * n + n /\ (d + 1) * n <= k * n /\ k * n \in Nat
  <2>1. d + 1 \in Nat
    BY <1>4
  <2> QED
    BY <1>3, <1>4, <2>1, Products
<1>8. Len(ring[Console]) + 1 < OutSize
  BY <1>1, <1>3, <1>5, <1>6, <1>7
<1>9. Len(Append(ring[Console], byte)) = Len(ring[Console]) + 1
  BY <1>1
<1> QED
  BY <1>1, <1>3, <1>6, <1>8, <1>9 DEF Full

\* What StoreByte does, then.
LEMMA StoreByteStores ==
  ASSUME SerialInv, ~raced, NEW c \in Context, StoreByte(c)
  PROVE  /\ pc[c] = "store" /\ Turns(c, "copy")
         /\ ring' = [ring EXCEPT ![Console] = Append(@, byte)]
         /\ entered' = [entered EXCEPT ![Console] = Append(@, byte)]
         /\ passed' = Append(passed, byte) /\ copied' = copied + 1
         /\ UNCHANGED <<sent, inb, lost, interrupted, tty, start, plan, byte,
                        printed, flushes, raced, typed>>
<1>1. pc[c] = "store" /\ ~Full(Append(ring[Console], byte))
  BY NeverFull DEF StoreByte
<1>2. ring \in [Port -> Seq(Int)] /\ lost \in BOOLEAN
  BY DEF SerialInv, Shapes
<1>3. ring' = [p \in Port |-> IF p = Console THEN Append(ring[Console], byte)
                              ELSE ring[p]]
  BY <1>1 DEF StoreByte
<1>4. ring' = [ring EXCEPT ![Console] = Append(@, byte)]
  BY <1>2, <1>3
<1>5. /\ UNCHANGED <<sent, inb>> /\ lost' = lost
  BY <1>1, <1>2 DEF StoreByte
<1> QED
  BY <1>1, <1>4, <1>5 DEF StoreByte

-----------------------------------------------------------------------------
(* The invariant holds at the start, and every step keeps it. *)

\* SerialInv holds at the start.
LEMMA InitSerialInv == Init => SerialInv
<1> SUFFICES ASSUME Init PROVE SerialInv
  OBVIOUS
<1> USE SerialAssumption
<1>1. Shapes
  <2>1. /\ ring \in [Port -> Seq(Int)] /\ sent \in [Port -> Seq(Int)]
        /\ entered \in [Port -> Seq(Int)]
        /\ tty \in Seq(Int) /\ passed \in Seq(Int)
    BY DEF Init
  <2>2. inb \in [Port -> 0..(InSize - 1)] /\ start \in 0..(TtySize - 1)
    BY DEF Init
  <2>3. /\ flushes \in Nat \X Nat /\ printed \in Nat /\ typed \in 0..MaxTyped
        /\ byte \in Int /\ copied \in Nat
    BY DEF Init
  <2>4. lost \in BOOLEAN /\ raced \in BOOLEAN
    BY DEF Init
  <2>5. plan \in [Context -> Seq({"put", "flush"})] /\ pc \in [Context -> Places]
    BY DEF Init, Places
  <2> QED
    BY <2>1, <2>2, <2>3, <2>4, <2>5 DEF Init, Shapes
<1>2. Bounds
  <2>1. Len(tty) = 0 /\ copied = 0 /\ \A p \in Port : Len(ring[p]) = 0
    BY DEF Init
  <2>2. OutSize > 0
    <3>1. Cardinality(Context) \in Nat /\ TtySize - 1 \in Nat
      BY FS_CardinalityType
    <3>2. Cardinality(Context) * (TtySize - 1) \in Nat
      BY <3>1, Products
    <3> QED
      BY <3>2
  <2> QED
    BY <2>1, <2>2 DEF Bounds
<1>3. OthersEmpty
  BY DEF Init, OthersEmpty
<1>4. PortKeepsBytes
  <2> SUFFICES ASSUME NEW p \in Port
               PROVE  entered[p] = sent[p] \o InHand(p) \o ring[p]
    BY DEF PortKeepsBytes
  <2>1. entered[p] = <<>> /\ sent[p] = <<>> /\ ring[p] = <<>> /\ InHand(p) = <<>>
    BY DEF Init, InHand
  <2> QED
    BY <2>1
<1>5. InOrder
  <2>1. passed = <<>> /\ tty = <<>> /\ copied = 0 /\ printed = 0
    BY DEF Init
  <2>2. SubSeq(tty, copied + 1, Len(tty)) = <<>>
    BY <2>1, WholeSeq, <<>> \in Seq(Int)
  <2>3. PrintedSoFar = <<>>
    BY <2>1, <2>2 DEF PrintedSoFar
  <2> QED
    BY <2>1, <2>3 DEF InOrder, Rising
<1>6. OldLiesBeforeEnd
  BY DEF Init, OldLiesBeforeEnd
<1>7. Alone /\ CopyFits
  <2>1. \A c \in Context : pc[c] = "no"
    BY DEF Init
  <2>2. copied <= UpToEnd
    BY <1>1, <1>2, UpToEndFits DEF Init
  <2> QED
    BY <2>1, <2>2 DEF Init, Alone, CopyFits, InTty, InRing
<1>8. RoomInRing
  <2>1. Cardinality(Draining) \in Nat /\ TtySize - 1 \in Nat
    BY <1>1, DrainingCount DEF Shapes
  <2>2. Cardinality(Draining) * (TtySize - 1) \in Nat
    BY <2>1, Products
  <2>3. Len(ring[Console]) = 0 /\ copied = 0
    BY DEF Init
  <2> QED
    BY <2>2, <2>3 DEF RoomInRing
<1> QED
  BY <1>1, <1>2, <1>3, <1>4, <1>5, <1>6, <1>7, <1>8 DEF SerialInv, Followed

\* What an echo does to the rings.
LEMMA ReceiveDoes ==
  ASSUME Shapes, NEW p \in Port, NEW echo \in Seq(Int), Receive(p, echo)
  PROVE  /\ \A q \in Port \ {p} : /\ ring'[q] = ring[q] /\ sent'[q] = sent[q]
                                  /\ entered'[q] = entered[q]
         /\ entered'[p] = entered[p] \o echo
         /\ \/ ring'[p] = <<>> /\ sent'[p] = sent[p] \o ring[p] \o echo
            \/ ring'[p] = ring[p] /\ sent'[p] = sent[p] /\ echo = <<>>
         /\ UNCHANGED <<passed, tty, start, copied, plan, byte, pc, printed, flushes, lost>>
<1>1. DOMAIN ring = Port /\ DOMAIN sent = Port /\ DOMAIN entered = Port
  BY DEF Shapes
<1> DEFINE flushed == inb[p] + 1 = InSize \/ echo # <<>>
<1>2. /\ ring' = [ring EXCEPT ![p] = IF flushed THEN <<>> ELSE @]
      /\ sent' = [sent EXCEPT ![p] = IF flushed THEN @ \o ring[p] \o echo ELSE @]
      /\ entered' = [entered EXCEPT ![p] = @ \o echo]
      /\ UNCHANGED <<passed, tty, start, copied, plan, byte, pc, printed, flushes, lost>>
  BY DEF Receive, OutAfter, ttyVars
<1>3. ~flushed => echo = <<>>
  OBVIOUS
<1> HIDE DEF flushed
<1>4. CASE flushed
  BY <1>1, <1>2, <1>4
<1>5. CASE ~flushed
  BY <1>1, <1>2, <1>3, <1>5
<1> QED
  BY <1>4, <1>5

\* What is echoed.
LEMMA TypedReceives ==
  ASSUME Shapes, NEW p \in Port, Typed(p)
  PROVE  \E echo \in Seq(Int) : Receive(p, echo)
<1>1. typed \in Int
  BY SerialAssumption DEF Shapes
<1>2. <<-(typed + 1)>> \in Seq(Int) /\ <<>> \in Seq(Int)
  BY <1>1
<1> QED
  BY <1>2 DEF Typed

\* Every step keeps the types.
LEMMA ShapesStep ==
  ASSUME SerialInv, Next
  PROVE  Shapes'
<1> USE SerialAssumption
<1>0. Shapes /\ Bounds /\ ~raced /\ Followed
  BY DEF SerialInv, Next
<1>p. pc \in [Context -> Places] /\ plan \in [Context -> Seq({"put", "flush"})]
  BY <1>0 DEF Shapes
<1>t. ASSUME NEW c \in Context, NEW to \in Places, Turns(c, to)
      PROVE  pc' \in [Context -> Places]
  BY <1>p, <1>t, TurnsOne
<1>d. ASSUME NEW c \in Context, NEW what, Does(c, what), plan' = [plan EXCEPT ![c] = Tail(@)]
      PROVE  plan' \in [Context -> Seq({"put", "flush"})]
  <2>1. plan[c] \in Seq({"put", "flush"}) /\ plan[c] # <<>>
    BY <1>p, <1>d DEF Does
  <2>2. Tail(plan[c]) \in Seq({"put", "flush"})
    BY <2>1, HeadTailProperties
  <2> QED
    BY <1>p, <1>d, <2>2
<1>r. ASSUME NEW x \in BOOLEAN, raced' = (raced \/ x)
      PROVE  raced' \in BOOLEAN
  BY <1>r, Zenon
<1>1. ASSUME NEW c \in Context, NEW newline \in BOOLEAN, NEW now \in BOOLEAN,
             Printf(c, newline, now)
      PROVE  Shapes'
  <2> DEFINE new == Translation(newline) \o (IF now THEN <<"flush">> ELSE <<>>)
  <2>1. new \in Seq({"put", "flush"})
    <3>a. /\ <<"put", "flush", "put">> \in Seq({"put", "flush"})
          /\ <<"put">> \in Seq({"put", "flush"})
      OBVIOUS
    <3>b. <<"flush">> \in Seq({"put", "flush"}) /\ <<>> \in Seq({"put", "flush"})
      OBVIOUS
    <3>1. Translation(newline) \in Seq({"put", "flush"})
      BY <3>a, Zenon DEF Translation
    <3>2. (IF now THEN <<"flush">> ELSE <<>>) \in Seq({"put", "flush"})
      BY <3>b, Zenon
    <3> QED
      BY <3>1, <3>2, ConcatProperties
  <2>2. plan' = [plan EXCEPT ![c] = new]
    BY <1>1 DEF Printf
  <2> HIDE DEF new
  <2>3. plan' \in [Context -> Seq({"put", "flush"})]
    BY <1>p, <2>1, <2>2
  <2>4. UNCHANGED <<portVars, ttyVars, copied, byte, pc, lost, raced>>
    BY <1>1 DEF Printf
  <2> QED
    BY <1>0, <2>3, <2>4 DEF Shapes, portVars, ttyVars
<1>2. ASSUME NEW c \in Context, PutByte(c) \/ TtyFlush(c)
      PROVE  Shapes'
  <2>1. plan' \in [Context -> Seq({"put", "flush"})]
    BY <1>d, <1>2 DEF PutByte, TtyFlush
  <2>2. pc' \in [Context -> Places]
    BY <1>t, <1>2 DEF PutByte, TtyFlush, Places
  <2>3. raced' \in BOOLEAN
    <3>1. raced' = (raced \/ MeetsInTty(c)) /\ MeetsInTty(c) \in BOOLEAN
      BY <1>2 DEF PutByte, TtyFlush, MeetsInTty
    <3> QED
      BY <3>1, Zenon
  <2>4. UNCHANGED <<portVars, ttyVars, copied, byte, lost>>
    BY <1>2 DEF PutByte, TtyFlush
  <2> QED
    BY <1>0, <2>1, <2>2, <2>3, <2>4 DEF Shapes, portVars, ttyVars
<1>3. ASSUME NEW c \in Context, TtyWriteOutb(c)
      PROVE  Shapes'
  <2>1. /\ printed' = printed + 1
        /\ tty' = (IF Len(tty) = TtySize - 1 THEN Tail(tty) ELSE tty) \o <<printed + 1>>
        /\ start' = IF Len(tty) = TtySize - 1 THEN (start + 1) % TtySize ELSE start
        /\ lost' = (lost \/ Len(tty) = TtySize - 1) /\ Turns(c, "no")
        /\ UNCHANGED <<portVars, copied, byte, plan, passed, flushes, raced>>
    BY <1>3 DEF TtyWriteOutb
  <2>2. tty' \in Seq(Int)
    <3>1. tty \in Seq(Int) /\ printed + 1 \in Int
      BY <1>0 DEF Shapes
    <3>2. CASE Len(tty) = TtySize - 1
      <4>1. tty # <<>>
        BY <3>1, <3>2
      <4>2. Tail(tty) \in Seq(Int)
        BY <3>1, <4>1, HeadTailProperties
      <4> QED
        BY <2>1, <3>1, <3>2, <4>2
    <3>3. CASE ~(Len(tty) = TtySize - 1)
      BY <2>1, <3>1, <3>3
    <3> QED
      BY <3>2, <3>3
  <2>3. start' \in 0..(TtySize - 1)
    <3>1. start \in 0..(TtySize - 1) /\ TtySize \in Nat \ {0} /\ start + 1 \in Nat
      BY <1>0 DEF Shapes
    <3>2. (start + 1) % TtySize \in 0..(TtySize - 1)
      BY <3>1, ModRange
    <3> QED
      BY <2>1, <3>1, <3>2
  <2>4. lost' \in BOOLEAN
    BY <2>1, Zenon
  <2>5. printed' \in Nat
    BY <1>0, <2>1 DEF Shapes
  <2>6. pc' \in [Context -> Places]
    BY <1>t, <2>1 DEF Places
  <2> QED
    BY <1>0, <2>1, <2>2, <2>3, <2>4, <2>5, <2>6 DEF Shapes, portVars
<1>4. ASSUME NEW c \in Context, FlushNothing(c)
      PROVE  Shapes'
  <2>1. plan' \in [Context -> Seq({"put", "flush"})]
    BY <1>d, <1>4 DEF FlushNothing
  <2>2. flushes' \in Nat \X Nat
    BY <1>0, <1>4 DEF FlushNothing, Shapes
  <2>3. UNCHANGED <<portVars, tty, start, copied, byte, pc, passed, printed, lost, raced>>
    BY <1>4 DEF FlushNothing
  <2> QED
    BY <1>0, <2>1, <2>2, <2>3 DEF Shapes, portVars
<1>5. ASSUME NEW c \in Context, CopyByte(c)
      PROVE  Shapes'
  <2>1. /\ copied < UpToEnd /\ byte' = tty[copied + 1] /\ Turns(c, "store")
        /\ raced' = (raced \/ MeetsInRing(c))
        /\ UNCHANGED <<portVars, ttyVars, copied, plan, lost>>
    BY <1>5 DEF CopyByte
  <2>2. byte' \in Int
    <3>1. UpToEnd \in 0..Len(tty) /\ tty \in Seq(Int) /\ copied \in Nat
      BY <1>0, UpToEndFits DEF Shapes
    <3>2. copied + 1 \in 1..Len(tty)
      BY <2>1, <3>1
    <3> QED
      BY <2>1, <3>1, <3>2
  <2>3. pc' \in [Context -> Places]
    BY <1>t, <2>1 DEF Places
  <2>4. raced' \in BOOLEAN
    BY <2>1, Zenon DEF MeetsInRing
  <2> QED
    BY <1>0, <2>1, <2>2, <2>3, <2>4 DEF Shapes, portVars, ttyVars
<1>6. ASSUME NEW c \in Context, StoreByte(c)
      PROVE  Shapes'
  <2>1. /\ Turns(c, "copy")
        /\ ring' = [ring EXCEPT ![Console] = Append(@, byte)]
        /\ entered' = [entered EXCEPT ![Console] = Append(@, byte)]
        /\ passed' = Append(passed, byte) /\ copied' = copied + 1
        /\ UNCHANGED <<sent, inb, lost, interrupted, tty, start, plan, byte,
                       printed, flushes, raced, typed>>
    BY <1>0, <1>6, StoreByteStores
  <2>2. /\ ring \in [Port -> Seq(Int)] /\ entered \in [Port -> Seq(Int)]
        /\ passed \in Seq(Int) /\ byte \in Int /\ copied \in Nat
    BY <1>0 DEF Shapes
  <2>3. /\ Append(ring[Console], byte) \in Seq(Int)
        /\ Append(entered[Console], byte) \in Seq(Int)
        /\ Append(passed, byte) \in Seq(Int)
    BY <2>2
  <2>4. /\ ring' \in [Port -> Seq(Int)] /\ entered' \in [Port -> Seq(Int)]
        /\ passed' \in Seq(Int) /\ copied' \in Nat
    BY <2>1, <2>2, <2>3
  <2>5. pc' \in [Context -> Places]
    BY <1>t, <2>1 DEF Places
  <2> QED
    BY <1>0, <2>1, <2>4, <2>5 DEF Shapes
<1>7. ASSUME NEW c \in Context, CopyEnds(c)
      PROVE  Shapes'
  <2>1. /\ copied = UpToEnd /\ tty' = SubSeq(tty, copied + 1, Len(tty))
        /\ start' = (start + copied) % TtySize /\ copied' = 0
        /\ flushes' = <<printed, flushes[1]>> /\ Turns(c, "drain")
        /\ UNCHANGED <<portVars, byte, plan, passed, printed, lost, raced>>
    BY <1>7 DEF CopyEnds
  <2>2. UpToEnd \in 0..Len(tty) /\ tty \in Seq(Int) /\ start \in Nat /\ copied \in Nat
    <3>1. UpToEnd \in 0..Len(tty)
      BY <1>0, UpToEndFits
    <3>2. tty \in Seq(Int) /\ start \in 0..(TtySize - 1) /\ copied \in Nat
      BY <1>0 DEF Shapes
    <3> QED
      BY <3>1, <3>2
  <2>3. tty' \in Seq(Int)
    BY <2>1, <2>2, Pieces
  <2>4. start' \in 0..(TtySize - 1)
    <3>1. start + copied \in Nat /\ TtySize \in Nat \ {0}
      BY <2>2
    <3> QED
      BY <2>1, <3>1, ModRange
  <2>5. flushes' \in Nat \X Nat
    BY <1>0, <2>1 DEF Shapes
  <2>6. pc' \in [Context -> Places]
    BY <1>t, <2>1 DEF Places
  <2>7. copied' \in Nat
    BY <2>1
  <2> QED
    BY <1>0, <2>1, <2>3, <2>4, <2>5, <2>6, <2>7 DEF Shapes, portVars
<1>8. ASSUME NEW c \in Context, TakeByte(c)
      PROVE  Shapes'
  <2>1. /\ ring[Console] # <<>> /\ byte' = Head(ring[Console]) /\ Turns(c, "send")
        /\ ring' = [ring EXCEPT ![Console] = Tail(@)]
        /\ raced' = (raced \/ MeetsInRing(c))
        /\ UNCHANGED <<inb, interrupted, sent, entered, typed, ttyVars, copied, plan, lost>>
    BY <1>8 DEF TakeByte
  <2>2. ring \in [Port -> Seq(Int)] /\ ring[Console] \in Seq(Int)
    BY <1>0 DEF Shapes
  <2>3. Head(ring[Console]) \in Int /\ Tail(ring[Console]) \in Seq(Int)
    BY <2>1, <2>2, HeadTailProperties
  <2>4. ring' \in [Port -> Seq(Int)] /\ byte' \in Int
    BY <2>1, <2>2, <2>3
  <2>5. pc' \in [Context -> Places]
    BY <1>t, <2>1 DEF Places
  <2>6. raced' \in BOOLEAN
    BY <2>1, Zenon DEF MeetsInRing
  <2> QED
    BY <1>0, <2>1, <2>4, <2>5, <2>6 DEF Shapes, ttyVars
<1>9. ASSUME NEW c \in Context, SendByte(c)
      PROVE  Shapes'
  <2>1. /\ sent' = [sent EXCEPT ![Console] = Append(@, byte)] /\ Turns(c, "drain")
        /\ UNCHANGED <<ring, inb, interrupted, entered, typed, ttyVars, copied, byte, plan,
                       lost, raced>>
    BY <1>9 DEF SendByte
  <2>2. sent \in [Port -> Seq(Int)] /\ Append(sent[Console], byte) \in Seq(Int)
    BY <1>0 DEF Shapes
  <2>3. sent' \in [Port -> Seq(Int)]
    BY <2>1, <2>2
  <2>4. pc' \in [Context -> Places]
    BY <1>t, <2>1 DEF Places
  <2> QED
    BY <1>0, <2>1, <2>3, <2>4 DEF Shapes, ttyVars
<1>10. ASSUME NEW c \in Context, DrainEnds(c)
       PROVE  Shapes'
  <2>1. /\ Turns(c, "no") /\ raced' = (raced \/ MeetsInRing(c))
        /\ UNCHANGED <<portVars, ttyVars, copied, byte, plan, lost>>
    BY <1>10 DEF DrainEnds
  <2>2. pc' \in [Context -> Places]
    BY <1>t, <2>1 DEF Places
  <2>3. raced' \in BOOLEAN
    BY <2>1, Zenon DEF MeetsInRing
  <2> QED
    BY <1>0, <2>1, <2>2, <2>3 DEF Shapes, portVars, ttyVars
<1>11. ASSUME NEW p \in Port, NEW echo \in Seq(Int), Receive(p, echo)
       PROVE  Shapes'
  <2>1. ring[p] \in Seq(Int) /\ sent[p] \in Seq(Int) /\ entered[p] \in Seq(Int)
    BY <1>0 DEF Shapes
  <2> DEFINE flushed == inb[p] + 1 = InSize \/ echo # <<>>
             r == IF flushed THEN <<>> ELSE ring[p]
             s == IF flushed THEN sent[p] \o ring[p] \o echo ELSE sent[p]
             e == entered[p] \o echo
  <2>2. /\ ring' = [ring EXCEPT ![p] = r] /\ sent' = [sent EXCEPT ![p] = s]
        /\ entered' = [entered EXCEPT ![p] = e]
    BY <1>11 DEF Receive, OutAfter
  <2>3. r \in Seq(Int) /\ s \in Seq(Int) /\ e \in Seq(Int)
    <3>1. sent[p] \o ring[p] \in Seq(Int) /\ entered[p] \o echo \in Seq(Int)
      BY <2>1, ConcatProperties
    <3>2. sent[p] \o ring[p] \o echo \in Seq(Int) /\ <<>> \in Seq(Int)
      BY <3>1, ConcatProperties
    <3> HIDE DEF flushed
    <3> QED
      BY <2>1, <3>1, <3>2
  <2> HIDE DEF r, s, e
  <2>4. /\ ring' \in [Port -> Seq(Int)] /\ sent' \in [Port -> Seq(Int)]
        /\ entered' \in [Port -> Seq(Int)]
    BY <1>0, <2>2, <2>3 DEF Shapes
  <2>5. inb' \in [Port -> 0..(InSize - 1)]
    <3>0. inb[p] \in 0..(InSize - 1) /\ InSize \in Nat \ {0}
      BY <1>0 DEF Shapes
    <3>1. inb[p] + 1 \in Nat /\ InSize \in Nat \ {0}
      BY <3>0
    <3>2. (inb[p] + 1) % InSize \in 0..(InSize - 1)
      BY <3>1, ModRange
    <3> QED
      BY <1>0, <1>11, <3>2 DEF Receive, Shapes
  <2>6. raced' \in BOOLEAN
    BY <1>11, Zenon DEF Receive
  <2>7. /\ typed' \in 0..MaxTyped /\ interrupted' = p
        /\ UNCHANGED <<ttyVars, copied, byte, plan, pc, lost>>
    BY <1>0, <1>11 DEF Receive, Shapes
  <2> QED
    BY <1>0, <1>11, <2>4, <2>5, <2>6, <2>7 DEF Shapes, ttyVars
<1>12. ASSUME NEW p \in Port, Typed(p)
       PROVE  Shapes'
  BY <1>0, <1>11, <1>12, TypedReceives
<1> QED
  BY <1>1, <1>2, <1>3, <1>4, <1>5, <1>6, <1>7, <1>8, <1>9, <1>10, <1>12 DEF Next, Prints

\* Every step keeps the rings within their bounds.
LEMMA BoundsStep ==
  ASSUME SerialInv, Next
  PROVE  Bounds' /\ OthersEmpty'
<1> USE SerialAssumption
<1>0. Shapes /\ Bounds /\ OthersEmpty /\ ~raced /\ Followed
  BY DEF SerialInv, Next
<1>1. /\ ring \in [Port -> Seq(Int)] /\ tty \in Seq(Int) /\ copied \in Nat
      /\ Len(tty) \in Nat /\ Len(tty) < TtySize /\ copied <= Len(tty)
      /\ \A p \in Port : Len(ring[p]) < OutSize
      /\ \A p \in Port \ {Console} : ring[p] = <<>>
  <2>1. ring \in [Port -> Seq(Int)] /\ tty \in Seq(Int) /\ copied \in Nat
    BY <1>0 DEF Shapes
  <2>2. Len(tty) \in Nat
    BY <2>1
  <2>3. /\ Len(tty) < TtySize /\ copied <= Len(tty)
        /\ \A p \in Port : Len(ring[p]) < OutSize
    BY <1>0 DEF Bounds
  <2>4. \A p \in Port \ {Console} : ring[p] = <<>>
    BY <1>0 DEF OthersEmpty
  <2> QED
    BY <2>1, <2>2, <2>3, <2>4
<1>2. ASSUME UNCHANGED <<ring, tty, copied>>
      PROVE  Bounds' /\ OthersEmpty'
  BY <1>0, <1>2 DEF Bounds, OthersEmpty
<1>3. ASSUME UNCHANGED <<tty, copied>>, \A p \in Port \ {Console} : ring'[p] = ring[p],
             Len(ring'[Console]) < OutSize
      PROVE  Bounds' /\ OthersEmpty'
  BY <1>1, <1>3 DEF Bounds, OthersEmpty
<1>4. ASSUME NEW c \in Context, TtyWriteOutb(c)
      PROVE  Bounds' /\ OthersEmpty'
  <2>1. /\ pc[c] = "put" /\ ring' = ring /\ copied' = copied
        /\ tty' = (IF Len(tty) = TtySize - 1 THEN Tail(tty) ELSE tty) \o <<printed + 1>>
    BY <1>4 DEF TtyWriteOutb, portVars
  <2>2. copied = 0
    <3>1. ASSUME NEW d \in Context PROVE pc[d] \notin {"copy", "store"}
      BY <1>0, <2>1 DEF Followed, Alone, InTty
    <3> QED
      BY <1>0, <3>1 DEF Followed, CopyFits
  <2>3. Len(tty') \in Nat /\ Len(tty') < TtySize
    <3>1. printed + 1 \in Int
      BY <1>0 DEF Shapes
    <3>2. CASE Len(tty) = TtySize - 1
      <4>1. tty # <<>>
        BY <1>1, <3>2
      <4>2. Tail(tty) \in Seq(Int) /\ Len(Tail(tty)) = TtySize - 2
        BY <1>1, <3>2, <4>1, HeadTailProperties
      <4> QED
        BY <2>1, <3>1, <3>2, <4>2
    <3>3. CASE ~(Len(tty) = TtySize - 1)
      BY <1>1, <2>1, <3>1, <3>3
    <3> QED
      BY <3>2, <3>3
  <2> QED
    BY <1>1, <2>1, <2>2, <2>3 DEF Bounds, OthersEmpty
<1>5. ASSUME NEW c \in Context, StoreByte(c)
      PROVE  Bounds' /\ OthersEmpty'
  <2>1. /\ pc[c] = "store" /\ ring' = [ring EXCEPT ![Console] = Append(@, byte)]
        /\ copied' = copied + 1 /\ tty' = tty
    BY <1>0, <1>5, StoreByteStores
  <2>2. Len(Append(ring[Console], byte)) < OutSize /\ copied + 1 <= Len(tty)
    BY <1>0, <2>1, NeverFull
  <2>3. ring'[Console] = Append(ring[Console], byte)
        /\ \A p \in Port \ {Console} : ring'[p] = ring[p]
    BY <1>1, <2>1
  <2> QED
    BY <1>1, <2>1, <2>2, <2>3 DEF Bounds, OthersEmpty
<1>6. ASSUME NEW c \in Context, CopyEnds(c)
      PROVE  Bounds' /\ OthersEmpty'
  <2>1. /\ copied = UpToEnd /\ tty' = SubSeq(tty, copied + 1, Len(tty)) /\ copied' = 0
        /\ ring' = ring
    BY <1>6 DEF CopyEnds, portVars
  <2>2. copied \in 0..Len(tty)
    BY <1>1
  <2>3. tty' \in Seq(Int) /\ Len(tty') = Len(tty) - copied
    BY <1>1, <2>1, <2>2, Pieces
  <2> QED
    BY <1>1, <2>1, <2>2, <2>3 DEF Bounds, OthersEmpty
<1>7. ASSUME NEW c \in Context, TakeByte(c)
      PROVE  Bounds' /\ OthersEmpty'
  <2>1. /\ ring[Console] # <<>> /\ ring' = [ring EXCEPT ![Console] = Tail(@)]
        /\ UNCHANGED <<tty, copied>>
    BY <1>7 DEF TakeByte, ttyVars
  <2>2. ring[Console] \in Seq(Int) /\ Len(ring[Console]) < OutSize
    BY <1>1
  <2>3. Len(Tail(ring[Console])) = Len(ring[Console]) - 1 /\ Len(ring[Console]) \in Nat
    BY <2>1, <2>2
  <2>4. /\ ring'[Console] = Tail(ring[Console])
        /\ \A p \in Port \ {Console} : ring'[p] = ring[p]
    BY <1>1, <2>1
  <2>5. Len(ring'[Console]) < OutSize
    BY <2>2, <2>3, <2>4
  <2> QED
    BY <1>3, <2>1, <2>4, <2>5
<1>8. ASSUME NEW p \in Port, Typed(p)
      PROVE  Bounds' /\ OthersEmpty'
  <2>1. PICK echo \in Seq(Int) : Receive(p, echo)
    BY <1>0, <1>8, TypedReceives
  <2>2. /\ \A q \in Port \ {p} : ring'[q] = ring[q]
        /\ ring'[p] \in {<<>>, ring[p]}
        /\ UNCHANGED <<tty, copied>>
    BY <1>0, <2>1, ReceiveDoes
  <2>3. \A q \in Port : ring'[q] \in {<<>>, ring[q]}
    BY <2>2
  <2>4. \A q \in Port : Len(ring[q]) \in Nat /\ Len(<<>>) = 0
    BY <1>1
  <2>5. \A q \in Port : Len(ring'[q]) < OutSize
    BY <1>1, <2>3, <2>4
  <2> QED
    BY <1>1, <2>2, <2>3, <2>5 DEF Bounds, OthersEmpty
<1>9. ASSUME NEW c \in Context,
             \/ PutByte(c) \/ TtyFlush(c) \/ FlushNothing(c) \/ CopyByte(c)
             \/ SendByte(c) \/ DrainEnds(c)
             \/ \E newline, now \in BOOLEAN : Printf(c, newline, now)
      PROVE  Bounds' /\ OthersEmpty'
  <2>1. UNCHANGED <<ring, tty, copied>>
    BY <1>9 DEF PutByte, TtyFlush, FlushNothing, CopyByte, SendByte, DrainEnds, Printf,
                portVars, ttyVars
  <2> QED
    BY <1>2, <2>1
<1> QED
  BY <1>4, <1>5, <1>6, <1>7, <1>8, <1>9 DEF Next, Prints

\* Until two contexts meet, every step leaves at most one in the middle of an
\* operation on each ring.
LEMMA AloneStep ==
  ASSUME SerialInv, Next, ~raced'
  PROVE  Alone'
<1>0. Alone /\ pc \in [Context -> Places]
  BY DEF SerialInv, Followed, Next, Shapes
<1>1. ASSUME pc' = pc
      PROVE  Alone'
  BY <1>0, <1>1 DEF Alone, InTty, InRing
<1>2. ASSUME NEW c \in Context, PutByte(c)
      PROVE  Alone'
  <2>1. Turns(c, "put") /\ ~MeetsInTty(c) /\ "put" \in Places
    BY <1>2 DEF PutByte, Places
  <2> QED
    BY <1>0, <2>1, AloneKept
<1>3. ASSUME NEW c \in Context, TtyFlush(c)
      PROVE  Alone'
  <2>1. Turns(c, "copy") /\ ~MeetsInTty(c) /\ "copy" \in Places
    BY <1>3 DEF TtyFlush, Places
  <2> QED
    BY <1>0, <2>1, AloneKept
<1>4. ASSUME NEW c \in Context, CopyByte(c)
      PROVE  Alone'
  <2>1. Turns(c, "store") /\ ~MeetsInRing(c) /\ InTty(c) /\ "store" \in Places
    BY <1>4 DEF CopyByte, InTty, Places
  <2> QED
    BY <1>0, <2>1, AloneKept
<1>5. ASSUME NEW c \in Context, StoreByte(c)
      PROVE  Alone'
  <2>1. Turns(c, "copy") /\ InTty(c) /\ "copy" \in Places
    BY <1>5 DEF StoreByte, InTty, Places
  <2> QED
    BY <1>0, <2>1, AloneKept
<1>6. ASSUME NEW c \in Context, TakeByte(c)
      PROVE  Alone'
  <2>1. Turns(c, "send") /\ ~MeetsInRing(c) /\ "send" \in Places
    BY <1>6 DEF TakeByte, Places
  <2> QED
    BY <1>0, <2>1, AloneKept
<1>7. ASSUME NEW c \in Context, CopyEnds(c) \/ SendByte(c)
      PROVE  Alone'
  <2>1. Turns(c, "drain") /\ "drain" \in Places
    BY <1>7 DEF CopyEnds, SendByte, Places
  <2> QED
    BY <1>0, <2>1, AloneKept
<1>8. ASSUME NEW c \in Context, TtyWriteOutb(c) \/ DrainEnds(c)
      PROVE  Alone'
  <2>1. Turns(c, "no") /\ "no" \in Places
    BY <1>8 DEF TtyWriteOutb, DrainEnds, Places
  <2> QED
    BY <1>0, <2>1, AloneKept
<1>9. ASSUME NEW c \in Context,
             FlushNothing(c) \/ \E newline, now \in BOOLEAN : Printf(c, newline, now)
      PROVE  Alone'
  BY <1>1, <1>9 DEF FlushNothing, Printf
<1>10. ASSUME NEW p \in Port, Typed(p)
       PROVE  Alone'
  BY <1>1, <1>10 DEF Typed, Receive
<1> QED
  BY <1>2, <1>3, <1>4, <1>5, <1>6, <1>7, <1>8, <1>9, <1>10 DEF Next, Prints

\* Until two contexts meet, every step keeps what a flush has passed on within
\* the text that it passes on.
LEMMA CopyStep ==
  ASSUME SerialInv, Next, ~raced', Shapes', Bounds'
  PROVE  CopyFits'
<1>0. /\ Alone /\ CopyFits /\ pc \in [Context -> Places] /\ copied \in Nat
      /\ UpToEnd \in 0..Len(tty) /\ tty \in Seq(Int)
  <2>1. Shapes /\ Bounds /\ Alone /\ CopyFits
    BY DEF SerialInv, Followed, Next
  <2> QED
    BY <2>1, UpToEndFits DEF Shapes
<1>u. UpToEnd' \in Nat
  <2>1. tty' \in Seq(Int) /\ start' \in 0..(TtySize - 1) /\ TtySize \in Nat
    BY SerialAssumption DEF Shapes
  <2>a. PICK m \in 0..(TtySize - 1) : m = start'
    BY <2>1
  <2>b. TtySize \in Nat /\ m \in Nat /\ m <= TtySize
    BY <2>1
  <2>c. TtySize - m \in Nat
    BY <2>b
  <2>2. Len(tty') \in Nat /\ TtySize - start' \in Nat
    <3>1. Len(tty') \in Nat
      BY <2>1
    <3> QED
      BY <2>a, <2>c, <3>1
  <2>3. UpToEnd' = Len(tty') \/ UpToEnd' = TtySize - start'
    BY DEF UpToEnd
  <2> QED
    BY <2>2, <2>3
<1>1. ASSUME UNCHANGED <<copied, tty, start, byte, pc>>
      PROVE  CopyFits'
  BY <1>0, <1>1 DEF CopyFits, UpToEnd
<1>2. ASSUME UNCHANGED <<copied, tty, start>>, NEW c \in Context, NEW to \in Places,
             Turns(c, to), to # "store",
             pc[c] \notin {"copy", "store"} \/ to \in {"copy", "store"},
             byte' = byte \/ \A d \in Context \ {c} : pc[d] # "store"
      PROVE  CopyFits'
  <2>1. pc'[c] = to /\ \A d \in Context \ {c} : pc'[d] = pc[d]
    BY <1>0, <1>2, TurnsOne
  <2>2. UpToEnd' = UpToEnd
    BY <1>2 DEF UpToEnd
  <2>3. ASSUME \A d \in Context : pc'[d] \notin {"copy", "store"}
        PROVE  copied' = 0
    <3>1. \A d \in Context : pc[d] \notin {"copy", "store"}
      BY <1>2, <2>1, <2>3
    <3> QED
      BY <1>0, <1>2, <3>1 DEF CopyFits
  <2>4. ASSUME NEW d \in Context, pc'[d] = "store"
        PROVE  copied' < UpToEnd' /\ byte' = tty'[copied' + 1]
    <3>1. d # c /\ pc[d] = "store"
      BY <1>2, <2>1, <2>4
    <3>2. byte' = byte
      BY <1>2, <3>1
    <3>3. copied < UpToEnd /\ byte = tty[copied + 1]
      BY <1>0, <3>1 DEF CopyFits
    <3> QED
      BY <1>2, <2>2, <3>2, <3>3
  <2> HIDE DEF UpToEnd
  <2>5. copied' <= UpToEnd'
    BY <1>0, <1>2, <2>2 DEF CopyFits
  <2> QED
    BY <2>3, <2>4, <2>5 DEF CopyFits
<1>3. ASSUME NEW c \in Context, InTty(c), NEW to \in Places, Turns(c, to), to # "store",
             to = "copy" \/ copied' = 0, copied' <= UpToEnd'
      PROVE  CopyFits'
  <2>1. pc'[c] = to /\ \A d \in Context \ {c} : pc'[d] = pc[d]
    BY <1>0, <1>3, TurnsOne
  <2>2. \A d \in Context \ {c} : pc[d] \notin {"copy", "store"}
    BY <1>0, <1>3 DEF Alone, InTty
  <2>3. \A d \in Context : pc'[d] # "store"
    BY <1>3, <2>1, <2>2
  <2>4. (\A d \in Context : pc'[d] \notin {"copy", "store"}) => copied' = 0
    BY <1>3, <2>1
  <2> QED
    BY <1>3, <2>3, <2>4 DEF CopyFits
<1>4. ASSUME NEW c \in Context,
             FlushNothing(c) \/ \E newline, now \in BOOLEAN : Printf(c, newline, now)
      PROVE  CopyFits'
  BY <1>1, <1>4 DEF FlushNothing, Printf, ttyVars
<1>5. ASSUME NEW c \in Context, PutByte(c) \/ TtyFlush(c)
      PROVE  CopyFits'
  <2>1. UNCHANGED <<copied, tty, start, byte>> /\ pc[c] = "no"
    BY <1>5 DEF PutByte, TtyFlush, Does, ttyVars
  <2>2. PICK to \in {"put", "copy"} : Turns(c, to)
    BY <1>5 DEF PutByte, TtyFlush
  <2>3. to \in Places /\ to # "store"
    BY DEF Places
  <2> QED
    BY <1>2, <2>1, <2>2, <2>3
<1>6. ASSUME NEW c \in Context, TtyWriteOutb(c)
      PROVE  CopyFits'
  <2>1. pc[c] = "put" /\ Turns(c, "no") /\ copied' = copied
    BY <1>6 DEF TtyWriteOutb
  <2>2. copied = 0
    <3>1. \A d \in Context : pc[d] \notin {"copy", "store"}
      BY <1>0, <2>1 DEF Alone, InTty
    <3> QED
      BY <1>0, <3>1 DEF CopyFits
  <2>3. InTty(c) /\ "no" \in Places /\ copied' = 0
    BY <2>1, <2>2 DEF InTty, Places
  <2>4. copied' <= UpToEnd'
    BY <1>u, <2>3
  <2> QED
    BY <1>3, <2>1, <2>3, <2>4
<1>7. ASSUME NEW c \in Context, CopyByte(c)
      PROVE  CopyFits'
  <2>1. /\ pc[c] = "copy" /\ copied < UpToEnd /\ byte' = tty[copied + 1]
        /\ Turns(c, "store") /\ "store" \in Places /\ UNCHANGED <<tty, start, copied>>
    BY <1>7 DEF CopyByte, ttyVars, Places
  <2>2. pc'[c] = "store" /\ \A d \in Context \ {c} : pc'[d] = pc[d]
    BY <1>0, <2>1, TurnsOne
  <2>3. UpToEnd' = UpToEnd
    BY <2>1 DEF UpToEnd
  <2> HIDE DEF UpToEnd
  <2>4. copied' <= UpToEnd' /\ copied' < UpToEnd' /\ byte' = tty'[copied' + 1]
    BY <1>0, <2>1, <2>3 DEF CopyFits
  <2> QED
    BY <2>2, <2>4 DEF CopyFits
<1>8. ASSUME NEW c \in Context, StoreByte(c)
      PROVE  CopyFits'
  <2>1. /\ pc[c] = "store" /\ Turns(c, "copy") /\ copied' = copied + 1
        /\ tty' = tty /\ start' = start
    BY <1>8, StoreByteStores DEF Next
  <2>2. UpToEnd' = UpToEnd
    BY <2>1 DEF UpToEnd
  <2>3. InTty(c) /\ "copy" \in Places
    BY <2>1 DEF InTty, Places
  <2> HIDE DEF UpToEnd
  <2>4. copied < UpToEnd
    BY <1>0, <2>1 DEF CopyFits
  <2>5. copied' <= UpToEnd'
    BY <1>0, <2>1, <2>2, <2>4
  <2> QED
    BY <1>3, <2>1, <2>3, <2>5
<1>9. ASSUME NEW c \in Context, CopyEnds(c)
      PROVE  CopyFits'
  <2>1. pc[c] = "copy" /\ Turns(c, "drain") /\ copied' = 0
    BY <1>9 DEF CopyEnds
  <2>2. InTty(c) /\ "drain" \in Places
    BY <2>1 DEF InTty, Places
  <2>3. copied' <= UpToEnd'
    BY <1>u, <2>1
  <2> QED
    BY <1>3, <2>1, <2>2, <2>3
<1>10. ASSUME NEW c \in Context, TakeByte(c)
       PROVE  CopyFits'
  <2>1. /\ pc[c] = "drain" /\ Turns(c, "send") /\ UNCHANGED <<copied, tty, start>>
        /\ ~MeetsInRing(c)
    BY <1>10 DEF TakeByte, ttyVars
  <2>2. \A d \in Context \ {c} : pc[d] # "store"
    BY <2>1 DEF MeetsInRing, InRing
  <2>3. "send" \in Places
    BY DEF Places
  <2> QED
    BY <1>2, <2>1, <2>2, <2>3
<1>11. ASSUME NEW c \in Context, SendByte(c) \/ DrainEnds(c)
       PROVE  CopyFits'
  <2>1. /\ pc[c] \in {"send", "drain"} /\ UNCHANGED <<copied, tty, start, byte>>
    BY <1>11 DEF SendByte, DrainEnds, ttyVars
  <2>2. PICK to \in {"drain", "no"} : Turns(c, to)
    BY <1>11 DEF SendByte, DrainEnds
  <2>3. to \in Places /\ to # "store"
    BY DEF Places
  <2> QED
    BY <1>2, <2>1, <2>2, <2>3
<1>12. ASSUME NEW p \in Port, Typed(p)
       PROVE  CopyFits'
  BY <1>1, <1>12 DEF Typed, Receive, ttyVars
<1> QED
  BY <1>4, <1>5, <1>6, <1>7, <1>8, <1>9, <1>10, <1>11, <1>12 DEF Next, Prints

\* Until two contexts meet, every step leaves room in the console's ring.
LEMMA RoomStep ==
  ASSUME SerialInv, Next, ~raced'
  PROVE  RoomInRing'
<1> USE SerialAssumption
<1> DEFINE n == TtySize - 1
<1>0. /\ RoomInRing /\ pc \in [Context -> Places] /\ ring \in [Port -> Seq(Int)]
      /\ copied \in Nat /\ n \in Nat /\ copied <= n
  <2>1. Shapes /\ Bounds /\ RoomInRing
    BY DEF SerialInv, Followed, Next
  <2>2. tty \in Seq(Int) /\ Len(tty) < TtySize /\ copied <= Len(tty) /\ copied \in Nat
    BY <2>1 DEF Shapes, Bounds
  <2>3. n \in Nat /\ Len(tty) \in Nat
    BY <2>2
  <2>4. copied <= n
    BY <2>2, <2>3
  <2> QED
    BY <2>1, <2>2, <2>3, <2>4 DEF Shapes
<1>1. /\ Cardinality(Draining) \in Nat /\ Len(ring[Console]) \in Nat
      /\ ring[Console] \in Seq(Int)
      /\ Len(ring[Console]) <= Cardinality(Draining) * n + copied
  BY <1>0, DrainingCount DEF RoomInRing
<1>2. pc' \in [Context -> Places] /\ copied' \in Nat
  BY ShapesStep DEF Shapes
<1>3. Cardinality(Draining') \in Nat
  BY <1>2, FS_Subset, FS_CardinalityType, Draining' \subseteq Context DEF Draining
<1> HIDE DEF n
<1>4. Cardinality(Draining) * n \in Nat /\ Cardinality(Draining') * n \in Nat
  BY <1>0, <1>1, <1>3, Products
<1>5. ASSUME Draining' = Draining, copied' = copied, Len(ring'[Console]) \in Nat,
             Len(ring'[Console]) <= Len(ring[Console])
      PROVE  RoomInRing'
  <2>1. Len(ring'[Console]) <= Cardinality(Draining') * n + copied'
    BY <1>0, <1>1, <1>4, <1>5
  <2> QED
    BY <2>1 DEF RoomInRing, n
<1>6. ASSUME NEW c \in Context,
             FlushNothing(c) \/ \E newline, now \in BOOLEAN : Printf(c, newline, now)
      PROVE  RoomInRing'
  <2>1. UNCHANGED <<ring, copied, pc>>
    BY <1>6 DEF FlushNothing, Printf, portVars
  <2>2. Draining' = Draining
    BY <2>1 DEF Draining
  <2> QED
    BY <1>1, <1>5, <2>1, <2>2
<1>7. ASSUME NEW c \in Context, NEW to \in Places, Turns(c, to), UNCHANGED <<ring, copied>>,
             pc[c] \in {"drain", "send"} <=> to \in {"drain", "send"}
      PROVE  RoomInRing'
  <2>1. Draining' = Draining
    BY <1>0, <1>7, DrainingTurns
  <2> QED
    BY <1>1, <1>5, <1>7, <2>1
<1>8. ASSUME NEW c \in Context,
             PutByte(c) \/ TtyFlush(c) \/ TtyWriteOutb(c) \/ CopyByte(c) \/ SendByte(c)
      PROVE  RoomInRing'
  <2>1. UNCHANGED <<ring, copied>>
    BY <1>8 DEF PutByte, TtyFlush, TtyWriteOutb, CopyByte, SendByte, portVars
  <2>2. \E to \in Places : /\ Turns(c, to)
                           /\ pc[c] \in {"drain", "send"} <=> to \in {"drain", "send"}
    BY <1>8 DEF PutByte, TtyFlush, TtyWriteOutb, CopyByte, SendByte, Does, Places
  <2> QED
    BY <1>7, <2>1, <2>2
<1>9. ASSUME NEW c \in Context, StoreByte(c)
      PROVE  RoomInRing'
  <2>1. /\ pc[c] = "store" /\ Turns(c, "copy") /\ copied' = copied + 1
        /\ ring' = [ring EXCEPT ![Console] = Append(@, byte)]
    BY <1>9, StoreByteStores DEF Next
  <2>2. Len(ring'[Console]) = Len(ring[Console]) + 1
    <3>1. Len(Append(ring[Console], byte)) = Len(ring[Console]) + 1
      BY <1>9, <2>1, NeverFull DEF Next
    <3> QED
      BY <1>0, <2>1, <3>1
  <2>3. Draining' = Draining
    <3>1. "copy" \in Places
      BY DEF Places
    <3> QED
      BY <1>0, <2>1, <3>1, DrainingTurns
  <2>4. Len(ring'[Console]) <= Cardinality(Draining') * n + copied'
    BY <1>0, <1>1, <1>4, <2>1, <2>2, <2>3
  <2> QED
    BY <2>4 DEF RoomInRing, n
<1>10. ASSUME NEW c \in Context, CopyEnds(c)
       PROVE  RoomInRing'
  <2>1. pc[c] = "copy" /\ Turns(c, "drain") /\ copied' = 0 /\ ring' = ring
    BY <1>10 DEF CopyEnds, portVars
  <2>2. Cardinality(Draining') = Cardinality(Draining) + 1
    <3>1. "drain" \in Places
      BY DEF Places
    <3> QED
      BY <1>0, <2>1, <3>1, DrainingTurns
  <2>3. (Cardinality(Draining) + 1) * n = Cardinality(Draining) * n + n
    BY <1>0, <1>1, Products
  <2>4. Len(ring'[Console]) <= Cardinality(Draining') * n + copied'
    BY <1>0, <1>1, <1>4, <2>1, <2>2, <2>3
  <2> QED
    BY <2>4 DEF RoomInRing, n
<1>11. ASSUME NEW c \in Context, TakeByte(c)
       PROVE  RoomInRing'
  <2>1. /\ pc[c] = "drain" /\ Turns(c, "send") /\ copied' = copied
        /\ ring[Console] # <<>> /\ ring' = [ring EXCEPT ![Console] = Tail(@)]
    BY <1>11 DEF TakeByte
  <2>2. Len(Tail(ring[Console])) = Len(ring[Console]) - 1
    BY <1>1, <2>1, HeadTailProperties
  <2>3. Len(Tail(ring[Console])) \in Nat
    BY <1>1, <2>1, HeadTailProperties
  <2>4. ring'[Console] = Tail(ring[Console])
    BY <1>0, <2>1
  <2>5. Draining' = Draining
    <3>1. "send" \in Places
      BY DEF Places
    <3> QED
      BY <1>0, <2>1, <3>1, DrainingTurns
  <2> QED
    BY <1>1, <1>5, <2>1, <2>2, <2>3, <2>4, <2>5
<1>12. ASSUME NEW c \in Context, DrainEnds(c)
       PROVE  RoomInRing'
  <2>1. Len(ring'[Console]) = 0
    BY <1>12 DEF DrainEnds, portVars
  <2>2. Len(ring'[Console]) <= Cardinality(Draining') * n + copied'
    BY <1>2, <1>4, <2>1
  <2> QED
    BY <2>2 DEF RoomInRing, n
<1>13. ASSUME NEW p \in Port, Typed(p)
       PROVE  RoomInRing'
  <2>1. PICK echo \in Seq(Int) : Receive(p, echo)
    BY <1>13, TypedReceives DEF SerialInv
  <2>2. /\ \A q \in Port \ {p} : ring'[q] = ring[q]
        /\ ring'[p] \in {<<>>, ring[p]} /\ UNCHANGED <<copied, pc>>
    BY <2>1, ReceiveDoes DEF SerialInv
  <2>3. ring'[Console] \in {<<>>, ring[Console]}
    BY <2>2
  <2>4. Len(ring'[Console]) \in Nat /\ Len(ring'[Console]) <= Len(ring[Console])
    BY <1>1, <2>3, Len(<<>>) = 0
  <2>5. Draining' = Draining
    BY <2>2 DEF Draining
  <2> QED
    BY <1>5, <2>2, <2>4, <2>5
<1> QED
  BY <1>6, <1>8, <1>9, <1>10, <1>11, <1>12, <1>13 DEF Next, Prints

\* Whether a byte is in hand changes with the contexts that send.
LEMMA HandKept ==
  ASSUME byte' = byte,
         (\E c \in Context : pc[c] = "send") <=> (\E c \in Context : pc'[c] = "send"),
         NEW q \in Port
  PROVE  InHand(q)' = InHand(q)
BY DEF InHand

\* Every step moves a byte from one place to the next, and loses none.
LEMMA KeepStep ==
  ASSUME SerialInv, Next
  PROVE  PortKeepsBytes'
<1> USE SerialAssumption
<1>0. /\ Shapes /\ PortKeepsBytes /\ ~raced /\ Alone
      /\ ring \in [Port -> Seq(Int)] /\ sent \in [Port -> Seq(Int)]
      /\ entered \in [Port -> Seq(Int)] /\ byte \in Int /\ pc \in [Context -> Places]
  BY DEF SerialInv, Next, Followed, Shapes
<1> DEFINE Kept(p) == entered[p] = sent[p] \o InHand(p) \o ring[p]
<1>1. SUFFICES ASSUME NEW q \in Port, ~(q = Console /\ raced')
               PROVE  Kept(q)'
  BY DEF PortKeepsBytes
<1>2. Kept(q)
  BY <1>0 DEF PortKeepsBytes
<1>3. ring[q] \in Seq(Int) /\ sent[q] \in Seq(Int) /\ entered[q] \in Seq(Int)
  BY <1>0
<1>4. ASSUME UNCHANGED <<ring, sent, entered>>, InHand(q)' = InHand(q)
      PROVE  Kept(q)'
  BY <1>2, <1>4
<1>5. ASSUME UNCHANGED <<ring, sent, entered, byte>>, NEW c \in Context, NEW to \in Places,
             Turns(c, to), pc[c] # "send", to # "send"
      PROVE  Kept(q)'
  <2>1. pc'[c] = to /\ \A d \in Context \ {c} : pc'[d] = pc[d]
    BY <1>0, <1>5, TurnsOne
  <2>2. (\E d \in Context : pc[d] = "send") <=> (\E d \in Context : pc'[d] = "send")
    BY <1>5, <2>1
  <2> QED
    BY <1>4, <1>5, <2>2, HandKept
<1>6. ASSUME NEW c \in Context,
             FlushNothing(c) \/ \E newline, now \in BOOLEAN : Printf(c, newline, now)
      PROVE  Kept(q)'
  <2>1. UNCHANGED <<ring, sent, entered, byte, pc>>
    BY <1>6 DEF FlushNothing, Printf, portVars
  <2>2. InHand(q)' = InHand(q)
    BY <2>1, HandKept
  <2> QED
    BY <1>4, <2>1, <2>2
<1>7. ASSUME NEW c \in Context,
             PutByte(c) \/ TtyFlush(c) \/ TtyWriteOutb(c) \/ CopyEnds(c) \/ DrainEnds(c)
      PROVE  Kept(q)'
  <2>1. UNCHANGED <<ring, sent, entered, byte>>
    BY <1>7 DEF PutByte, TtyFlush, TtyWriteOutb, CopyEnds, DrainEnds, portVars
  <2>2. \E to \in Places : Turns(c, to) /\ pc[c] # "send" /\ to # "send"
    BY <1>7 DEF PutByte, TtyFlush, TtyWriteOutb, CopyEnds, DrainEnds, Does, Places
  <2> QED
    BY <1>5, <2>1, <2>2
<1>8. ASSUME NEW c \in Context, CopyByte(c)
      PROVE  Kept(q)'
  <2>1. /\ pc[c] = "copy" /\ Turns(c, "store") /\ UNCHANGED <<ring, sent, entered>>
        /\ raced' = (raced \/ MeetsInRing(c)) /\ "store" \in Places
    BY <1>8 DEF CopyByte, portVars, Places
  <2>2. InHand(q) = <<>> /\ InHand(q)' = <<>>
    <3>1. CASE q # Console
      BY <3>1 DEF InHand
    <3>2. CASE q = Console
      <4>1. \A d \in Context \ {c} : pc[d] # "send"
        BY <1>1, <2>1, <3>2, Zenon DEF MeetsInRing, InRing
      <4>2. pc'[c] = "store" /\ \A d \in Context \ {c} : pc'[d] = pc[d]
        BY <1>0, <2>1, TurnsOne
      <4>3. \A d \in Context : pc[d] # "send" /\ pc'[d] # "send"
        BY <2>1, <4>1, <4>2
      <4> QED
        BY <4>3 DEF InHand
    <3> QED
      BY <3>1, <3>2
  <2> QED
    BY <1>4, <2>1, <2>2
<1>9. ASSUME NEW c \in Context, StoreByte(c)
      PROVE  Kept(q)'
  <2>1. /\ pc[c] = "store" /\ Turns(c, "copy") /\ sent' = sent /\ "copy" \in Places
        /\ ring' = [ring EXCEPT ![Console] = Append(@, byte)]
        /\ entered' = [entered EXCEPT ![Console] = Append(@, byte)]
    BY <1>0, <1>9, StoreByteStores DEF Places
  <2>2. InHand(q) = <<>> /\ InHand(q)' = <<>>
    <3>1. \A d \in Context \ {c} : pc[d] # "send"
      BY <1>0, <2>1 DEF Alone, InRing
    <3>2. pc'[c] = "copy" /\ \A d \in Context \ {c} : pc'[d] = pc[d]
      BY <1>0, <2>1, TurnsOne
    <3>3. \A d \in Context : pc[d] # "send" /\ pc'[d] # "send"
      BY <2>1, <3>1, <3>2
    <3> QED
      BY <3>3 DEF InHand
  <2>3. entered[q] = sent[q] \o <<>> \o ring[q]
    BY <1>2, <2>2
  <2>4. CASE q = Console
    <3>1. ring'[q] = Append(ring[q], byte) /\ entered'[q] = Append(entered[q], byte)
      BY <1>0, <2>1, <2>4
    <3>2. Append(sent[q] \o <<>> \o ring[q], byte) = sent[q] \o <<>> \o Append(ring[q], byte)
      <4>1. byte \in Int
        BY <1>0
      <4> QED
        BY <1>3, <4>1, Moves, Zenon
    <3> QED
      BY <2>1, <2>2, <2>3, <3>1, <3>2
  <2>5. CASE q # Console
    <3>1. ring'[q] = ring[q] /\ entered'[q] = entered[q]
      BY <1>0, <2>1, <2>5
    <3> QED
      BY <2>1, <2>2, <2>3, <3>1
  <2> QED
    BY <2>4, <2>5
<1>10. ASSUME NEW c \in Context, TakeByte(c)
       PROVE  Kept(q)'
  <2>1. /\ pc[c] = "drain" /\ Turns(c, "send") /\ sent' = sent /\ entered' = entered
        /\ ring[Console] # <<>> /\ byte' = Head(ring[Console]) /\ "send" \in Places
        /\ ring' = [ring EXCEPT ![Console] = Tail(@)]
        /\ raced' = (raced \/ MeetsInRing(c))
    BY <1>10 DEF TakeByte, Places
  <2>2. CASE q = Console
    <3>1. \A d \in Context \ {c} : pc[d] # "send"
      BY <1>1, <2>1, <2>2, Zenon DEF MeetsInRing, InRing
    <3>2. InHand(q) = <<>>
      BY <2>1, <3>1 DEF InHand
    <3>3. pc'[c] = "send"
      BY <1>0, <2>1, TurnsOne
    <3>4. InHand(q)' = <<Head(ring[q])>> /\ ring'[q] = Tail(ring[q])
      BY <1>0, <2>1, <2>2, <3>3 DEF InHand
    <3>5. sent[q] \o <<>> \o ring[q] = sent[q] \o <<Head(ring[q])>> \o Tail(ring[q])
      BY <1>0, <1>3, <2>1, <2>2, Moves, Zenon
    <3> QED
      BY <1>2, <2>1, <3>2, <3>4, <3>5
  <2>3. CASE q # Console
    <3>1. InHand(q)' = <<>> /\ InHand(q) = <<>> /\ ring'[q] = ring[q]
      BY <1>0, <2>1, <2>3 DEF InHand
    <3> QED
      BY <1>2, <2>1, <3>1
  <2> QED
    BY <2>2, <2>3
<1>11. ASSUME NEW c \in Context, SendByte(c)
       PROVE  Kept(q)'
  <2>1. /\ pc[c] = "send" /\ Turns(c, "drain") /\ ring' = ring /\ entered' = entered
        /\ sent' = [sent EXCEPT ![Console] = Append(@, byte)] /\ "drain" \in Places
    BY <1>11 DEF SendByte, Places
  <2>2. InHand(q)' = <<>>
    <3>1. \A d \in Context \ {c} : pc[d] # "send"
      BY <1>0, <2>1 DEF Alone, InRing
    <3>2. pc'[c] = "drain" /\ \A d \in Context \ {c} : pc'[d] = pc[d]
      BY <1>0, <2>1, TurnsOne
    <3>3. \A d \in Context : pc'[d] # "send"
      BY <3>1, <3>2
    <3> QED
      BY <3>3 DEF InHand
  <2>3. CASE q = Console
    <3>1. InHand(q) = <<byte>> /\ sent'[q] = Append(sent[q], byte)
      BY <1>0, <2>1, <2>3 DEF InHand
    <3>2. sent[q] \o <<byte>> \o ring[q] = Append(sent[q], byte) \o <<>> \o ring[q]
      <4>1. byte \in Int
        BY <1>0
      <4> QED
        BY <1>3, <4>1, Moves, Zenon
    <3> QED
      BY <1>2, <2>1, <2>2, <3>1, <3>2
  <2>4. CASE q # Console
    <3>1. InHand(q) = <<>> /\ sent'[q] = sent[q]
      BY <1>0, <2>1, <2>4 DEF InHand
    <3> QED
      BY <1>2, <2>1, <2>2, <3>1
  <2> QED
    BY <2>3, <2>4
<1>12. ASSUME NEW p \in Port, Typed(p)
       PROVE  Kept(q)'
  <2>1. PICK echo \in Seq(Int) : Receive(p, echo)
    BY <1>0, <1>12, TypedReceives
  <2>2. /\ raced' = (raced \/ (p = Console /\ \E d \in Context : InRing(d)))
        /\ pc' = pc /\ byte' = byte
    BY <2>1 DEF Receive
  <2>3. InHand(q)' = InHand(q)
    BY <2>2, HandKept
  <2>4. /\ \A x \in Port \ {p} : /\ ring'[x] = ring[x] /\ sent'[x] = sent[x]
                                 /\ entered'[x] = entered[x]
        /\ entered'[p] = entered[p] \o echo
        /\ \/ ring'[p] = <<>> /\ sent'[p] = sent[p] \o ring[p] \o echo
           \/ ring'[p] = ring[p] /\ sent'[p] = sent[p] /\ echo = <<>>
    BY <1>0, <2>1, ReceiveDoes
  <2>5. CASE q # p
    <3>1. ring'[q] = ring[q] /\ entered'[q] = entered[q] /\ sent'[q] = sent[q]
      BY <2>4, <2>5
    <3> QED
      BY <1>2, <2>3, <3>1, Zenon
  <2>6. CASE q = p
    <3>1. InHand(q) = <<>>
      <4>1. CASE q = Console
        <5>1. \A d \in Context : ~InRing(d)
          BY <1>1, <2>2, <2>6, <4>1, Zenon
        <5> QED
          BY <5>1 DEF InHand, InRing
      <4>2. CASE q # Console
        BY <4>2 DEF InHand
      <4> QED
        BY <4>1, <4>2
    <3>2. entered[q] = sent[q] \o ring[q]
      <4>1. sent[q] \o <<>> = sent[q]
        BY <1>3, ConcatEmptySeq
      <4> QED
        BY <1>2, <3>1, <4>1
    <3>3. sent[q] \o ring[q] \in Seq(Int)
      BY <1>3, ConcatProperties
    <3>4. CASE ring'[p] = <<>> /\ sent'[p] = sent[p] \o ring[p] \o echo
      <4>1. entered'[q] = sent'[q]
        BY <2>4, <2>6, <3>2, <3>4
      <4>2. sent'[q] \in Seq(Int)
        BY <2>6, <3>3, <3>4, ConcatProperties
      <4>3. sent'[q] \o <<>> = sent'[q]
        BY <4>2, ConcatEmptySeq
      <4> QED
        BY <2>3, <2>6, <3>1, <3>4, <4>1, <4>3
    <3>5. CASE ring'[p] = ring[p] /\ sent'[p] = sent[p] /\ echo = <<>>
      <4>1. entered'[q] = entered[q]
        <5>1. entered[q] \o <<>> = entered[q]
          BY <1>3, ConcatEmptySeq
        <5> QED
          BY <2>4, <2>6, <3>5, <5>1
      <4> QED
        BY <1>2, <2>3, <2>6, <3>5, <4>1
    <3> QED
      BY <2>4, <3>4, <3>5
  <2> QED
    BY <2>5, <2>6
<1> QED
  BY <1>6, <1>7, <1>8, <1>9, <1>10, <1>11, <1>12 DEF Next, Prints


\* Until two contexts meet, every step leaves what was printed in order.
LEMMA OrderStep ==
  ASSUME SerialInv, Next, ~raced'
  PROVE  InOrder'
<1> USE SerialAssumption
<1>0. Shapes /\ Bounds /\ Alone /\ CopyFits /\ InOrder
  BY DEF SerialInv, Followed, Next
<1>1. /\ passed \in Seq(Int) /\ tty \in Seq(Int) /\ byte \in Int /\ printed \in Nat
      /\ copied \in Nat /\ copied <= Len(tty) /\ copied <= UpToEnd
      /\ UpToEnd \in 0..Len(tty)
  BY <1>0, UpToEndFits DEF Shapes, Bounds, CopyFits
<1>3. ASSUME PrintedSoFar' = PrintedSoFar, printed' = printed, lost' = lost
      PROVE  InOrder'
  BY <1>0, <1>3, Zenon DEF InOrder, Rising
<1>4. ASSUME UNCHANGED <<passed, tty, copied, printed, lost>>
      PROVE  InOrder'
  <2>1. PrintedSoFar' = PrintedSoFar
    BY <1>4 DEF PrintedSoFar
  <2> QED
    BY <1>3, <1>4, <2>1
<1>5. ASSUME NEW c \in Context, TtyWriteOutb(c)
      PROVE  InOrder'
  <2> DEFINE full == Len(tty) = TtySize - 1
             kept == IF full THEN Tail(tty) ELSE tty
             before == passed
  <2>1. /\ pc[c] = "put" /\ passed' = passed /\ copied' = copied
        /\ tty' = kept \o <<printed + 1>> /\ printed' = printed + 1
    BY <1>5 DEF TtyWriteOutb
  <2>2. copied = 0
    <3>1. \A d \in Context : pc[d] \notin {"copy", "store"}
      BY <1>0, <2>1 DEF Alone, InTty
    <3> QED
      BY <1>0, <3>1 DEF CopyFits
  <2>a. PrintedSoFar = passed \o tty /\ Len(PrintedSoFar) = Len(passed) + Len(tty)
    <3>1. SubSeq(tty, copied + 1, Len(tty)) = tty
      BY <1>1, <2>2, WholeSeq, Zenon
    <3>2. Len(passed \o tty) = Len(passed) + Len(tty)
      BY <1>1, ConcatProperties
    <3> QED
      BY <3>1, <3>2 DEF PrintedSoFar
  <2>3. before \in Seq(Int)
    BY <1>1
  <2>4. kept \in Seq(Int) /\ Len(kept) \in Nat /\ (~full => Len(kept) = Len(tty))
    <3>1. CASE full
      <4>1. tty # <<>>
        BY <1>1, <3>1
      <4> QED
        BY <1>1, <3>1, <4>1, HeadTailProperties
    <3>2. CASE ~full
      BY <1>1, <3>2
    <3> QED
      BY <3>1, <3>2
  <2>5. Rising(before \o kept, printed)
    <3>1. Rising(before \o tty, printed)
      BY <1>0, <2>a, Zenon DEF InOrder
    <3>2. CASE full
      <4>1. tty # <<>>
        BY <1>1, <3>2
      <4>2. kept = Tail(tty)
        BY <3>2
      <4> HIDE DEF before, kept
      <4>3. Rising(before \o Tail(tty), printed)
        BY <1>1, <2>3, <3>1, <4>1, RisingDrop
      <4> QED
        BY <4>2, <4>3
    <3>3. CASE ~full
      BY <3>1, <3>3
    <3> QED
      BY <3>2, <3>3
  <2>6. lost' = (lost \/ full)
    BY <1>5 DEF TtyWriteOutb
  <2> HIDE DEF before, kept, full
  <2>7. before \o kept \in Seq(Int) /\ Len(before \o kept) = Len(before) + Len(kept)
    BY <2>3, <2>4, ConcatProperties
  <2>8. <<printed + 1>> \in Seq(Int) /\ printed + 1 \in Int
    BY <1>1
  <2>9. PrintedSoFar' = (before \o kept) \o <<printed + 1>>
    <3>1. PrintedSoFar' = before \o (kept \o <<printed + 1>>)
      <4>1. tty' \in Seq(Int) /\ copied' = 0
        BY <2>1, <2>2, <2>4, <2>8, ConcatProperties
      <4>2. SubSeq(tty', copied' + 1, Len(tty')) = tty'
        BY <4>1, WholeSeq, Zenon
      <4>3. PrintedSoFar' = passed' \o tty'
        BY <4>2, Zenon DEF PrintedSoFar
      <4> QED
        BY <2>1, <4>3 DEF before
    <3>2. (before \o kept) \o <<printed + 1>> = before \o (kept \o <<printed + 1>>)
      BY <2>3, <2>4, <2>8, ConcatAssociative
    <3> QED
      BY <3>1, <3>2
  <2>10. Rising(PrintedSoFar', printed')
    <3>1. Rising((before \o kept) \o <<printed + 1>>, printed + 1)
      BY <1>1, <2>5, <2>7, RisingMore
    <3> QED
      BY <2>1, <2>9, <3>1
  <2>11. Len(PrintedSoFar') = Len(before) + Len(kept) + 1
    <3>1. Append(before \o kept, printed + 1) = (before \o kept) \o <<printed + 1>>
      BY <2>7, <2>8, AppendIsConcat
    <3>2. Len(Append(before \o kept, printed + 1)) = Len(before \o kept) + 1
      BY <2>7, <2>8, AppendProperties
    <3> QED
      BY <2>7, <2>9, <3>1, <3>2
  <2>12. ASSUME ~lost' PROVE Len(PrintedSoFar') = printed'
    <3>1. ~lost /\ ~full
      BY <2>6, <2>12, Zenon
    <3>2. Len(PrintedSoFar) = printed
      BY <1>0, <3>1, Zenon DEF InOrder
    <3>3. Len(before) + Len(tty) = printed
      BY <2>a, <3>2 DEF before
    <3> QED
      BY <1>1, <2>1, <2>3, <2>4, <2>11, <3>1, <3>3
  <2> QED
    BY <2>10, <2>12, Zenon DEF InOrder, Rising
<1>6. ASSUME NEW c \in Context, StoreByte(c)
      PROVE  InOrder'
  <2>1. /\ pc[c] = "store" /\ passed' = Append(passed, byte) /\ copied' = copied + 1
        /\ UNCHANGED <<tty, printed, lost>>
    BY <1>6, StoreByteStores DEF Next
  <2>2. copied < UpToEnd /\ byte = tty[copied + 1]
    BY <1>0, <2>1 DEF CopyFits
  <2>3. copied < Len(tty)
    <3>1. Len(tty) \in Nat
      BY <1>1
    <3> HIDE DEF UpToEnd
    <3> QED
      BY <1>1, <2>2, <3>1
  <2>4. passed \o SubSeq(tty, copied + 1, Len(tty))
          = Append(passed, tty[copied + 1]) \o SubSeq(tty, copied + 2, Len(tty))
    BY <1>1, <2>3, PieceMoves
  <2>5. copied' + 1 = copied + 2
    BY <1>1, <2>1
  <2>6. PrintedSoFar' = Append(passed, byte) \o SubSeq(tty, copied + 2, Len(tty))
    BY <2>1, <2>5 DEF PrintedSoFar
  <2>7. PrintedSoFar' = PrintedSoFar
    BY <2>2, <2>4, <2>6 DEF PrintedSoFar
  <2> QED
    BY <1>3, <2>1, <2>7
<1>7. ASSUME NEW c \in Context, CopyEnds(c)
      PROVE  InOrder'
  <2>1. /\ UNCHANGED <<passed, printed, lost>> /\ copied' = 0
        /\ tty' = SubSeq(tty, copied + 1, Len(tty))
    BY <1>7 DEF CopyEnds, portVars
  <2>2. copied \in 0..Len(tty)
    BY <1>1
  <2>3. tty' \in Seq(Int)
    BY <1>1, <2>1, <2>2, Pieces
  <2>4. SubSeq(tty', copied' + 1, Len(tty')) = tty'
    BY <2>1, <2>3, WholeSeq, Zenon
  <2>5. PrintedSoFar' = PrintedSoFar
    BY <2>1, <2>4, Zenon DEF PrintedSoFar
  <2> QED
    BY <1>3, <2>1, <2>5
<1>8. ASSUME NEW c \in Context,
             \/ FlushNothing(c) \/ \E newline, now \in BOOLEAN : Printf(c, newline, now)
             \/ PutByte(c) \/ TtyFlush(c) \/ CopyByte(c)
             \/ TakeByte(c) \/ SendByte(c) \/ DrainEnds(c)
      PROVE  InOrder'
  BY <1>4, <1>8 DEF FlushNothing, Printf, PutByte, TtyFlush, CopyByte, TakeByte, SendByte,
                    DrainEnds, portVars, ttyVars
<1>9. ASSUME NEW p \in Port, Typed(p)
      PROVE  InOrder'
  BY <1>4, <1>9 DEF Typed, Receive, ttyVars
<1> QED
  BY <1>5, <1>6, <1>7, <1>8, <1>9 DEF Next, Prints

\* A flush takes everything that was there at the flush before it.
LEMMA FlushStep ==
  ASSUME SerialInv, Next
  PROVE  OldLiesBeforeEnd'
<1> USE SerialAssumption
<1>0. Shapes /\ Bounds /\ OldLiesBeforeEnd
  BY DEF SerialInv, Followed, Next
<1>1. /\ tty \in Seq(Int) /\ DOMAIN tty = 1..Len(tty) /\ Len(tty) \in Nat
      /\ \A i \in 1..Len(tty) : tty[i] \in Int
      /\ start \in Nat /\ start < TtySize /\ TtySize \in Nat /\ Len(tty) < TtySize
      /\ printed \in Nat
      /\ flushes[1] \in Nat /\ flushes[2] \in Nat
  <2>1. /\ tty \in Seq(Int) /\ start \in 0..(TtySize - 1) /\ printed \in Nat
        /\ flushes \in Nat \X Nat
    BY <1>0 DEF Shapes
  <2>2. DOMAIN tty = 1..Len(tty) /\ Len(tty) \in Nat /\ \A i \in 1..Len(tty) : tty[i] \in Int
    BY <2>1
  <2>3. start \in Nat /\ start < TtySize /\ TtySize \in Nat
    BY <2>1
  <2>4. flushes[1] \in Nat /\ flushes[2] \in Nat
    BY <2>1
  <2>5. Len(tty) < TtySize
    BY <1>0 DEF Bounds
  <2> QED
    BY <2>1, <2>2, <2>3, <2>4, <2>5
<1>2. /\ flushes[2] <= flushes[1] /\ flushes[1] <= printed
      /\ \A i \in 1..Len(tty) : /\ tty[i] > flushes[2]
                                /\ tty[i] <= flushes[1] => start + i <= TtySize
  BY <1>0, <1>1 DEF OldLiesBeforeEnd
<1>3. ASSUME UNCHANGED <<tty, start, printed, flushes>>
      PROVE  OldLiesBeforeEnd'
  BY <1>0, <1>3 DEF OldLiesBeforeEnd
<1>4. ASSUME NEW c \in Context, TtyWriteOutb(c)
      PROVE  OldLiesBeforeEnd'
  <2> DEFINE full == Len(tty) = TtySize - 1
             kept == IF full THEN Tail(tty) ELSE tty
  <2>1. /\ tty' = kept \o <<printed + 1>> /\ printed' = printed + 1
        /\ start' = IF full THEN (start + 1) % TtySize ELSE start
        /\ flushes' = flushes
    BY <1>4 DEF TtyWriteOutb
  <2>2. /\ kept \in Seq(Int) /\ Len(kept) \in Nat /\ start' \in Nat
        /\ \A i \in 1..Len(kept) :
             /\ kept[i] > flushes[2]
             /\ kept[i] <= flushes[1] => start' + i <= TtySize
    <3>1. CASE full
      <4>1. /\ kept \in Seq(Int) /\ Len(kept) = Len(tty) - 1
            /\ \A i \in 1..Len(kept) : kept[i] = tty[i + 1]
        BY <1>1, <3>1, HeadTailProperties, tty # <<>>
      <4>2. start' \in Nat /\ start' <= start + 1
        <5>1. (start + 1) % TtySize \in Nat /\ (start + 1) % TtySize <= start + 1
          <6>1. CASE start + 1 = TtySize
            BY <1>1, <6>1
          <6>2. CASE start + 1 < TtySize
            BY <1>1, <6>2
          <6> QED
            BY <1>1, <6>1, <6>2
        <5> QED
          BY <2>1, <3>1, <5>1
      <4> HIDE DEF kept
      <4>3. ASSUME NEW i \in 1..Len(kept)
            PROVE  /\ kept[i] > flushes[2]
                   /\ kept[i] <= flushes[1] => start' + i <= TtySize
        <5>1. i + 1 \in 1..Len(tty) /\ kept[i] = tty[i + 1] /\ i \in Nat
          BY <1>1, <4>1
        <5>2. tty[i + 1] > flushes[2] /\ (tty[i + 1] <= flushes[1] => start + (i + 1) <= TtySize)
          BY <1>2, <5>1
        <5>3. tty[i + 1] \in Int /\ start' \in Nat /\ start' <= start + 1
          BY <1>1, <4>2, <5>1
        <5>4. kept[i] <= flushes[1] => start' + i <= TtySize
          <6>1. ASSUME NEW x \in Nat, NEW y \in Nat, x <= y + 1, y + (i + 1) <= TtySize
                PROVE  x + i <= TtySize
            BY <1>1, <5>1, <6>1
          <6>2. kept[i] <= flushes[1] => start + (i + 1) <= TtySize
            BY <5>1, <5>2
          <6>3. start' \in Nat /\ start \in Nat /\ start' <= start + 1
            BY <1>1, <5>3
          <6> QED
            BY <6>1, <6>2, <6>3, Zenon
        <5> QED
          BY <5>1, <5>2, <5>4
      <4> QED
        <5>1. Len(kept) \in Nat
          BY <4>1
        <5> QED
          BY <4>1, <4>2, <4>3, <5>1
    <3>2. CASE ~full
      <4>1. kept = tty /\ start' = start
        BY <2>1, <3>2
      <4> HIDE DEF kept
      <4> QED
        BY <1>1, <1>2, <4>1
    <3> QED
      BY <3>1, <3>2
  <2> HIDE DEF kept, full
  <2>3. /\ DOMAIN tty' = 1..(Len(kept) + 1)
        /\ \A i \in 1..Len(kept) : tty'[i] = kept[i]
        /\ tty'[Len(kept) + 1] = printed + 1
    <3>1. printed + 1 \in Int
      BY <1>1
    <3>2. tty' = Append(kept, printed + 1)
      BY <2>1, <2>2, <3>1, AppendIsConcat
    <3> QED
      BY <2>2, <3>1, <3>2, AppendProperties
  <2>4. ASSUME NEW i \in DOMAIN tty'
        PROVE  /\ tty'[i] > flushes[2]
               /\ tty'[i] <= flushes[1] => start' + i <= TtySize
    <3>1. CASE i \in 1..Len(kept)
      BY <2>2, <2>3, <3>1
    <3>2. CASE i = Len(kept) + 1
      BY <1>1, <1>2, <2>3, <3>2
    <3> QED
      BY <2>2, <2>3, <3>1, <3>2
  <2> QED
    BY <1>1, <1>2, <2>1, <2>4 DEF OldLiesBeforeEnd
<1>5. ASSUME NEW c \in Context, CopyEnds(c)
      PROVE  OldLiesBeforeEnd'
  <2>1. /\ tty' = SubSeq(tty, UpToEnd + 1, Len(tty))
        /\ start' = (start + UpToEnd) % TtySize
        /\ flushes' = <<printed, flushes[1]>> /\ printed' = printed
    BY <1>5 DEF CopyEnds
  <2>2. /\ UpToEnd \in 0..Len(tty)
        /\ UpToEnd < Len(tty) => start + UpToEnd = TtySize
        /\ (start + UpToEnd) % TtySize = IF start + UpToEnd = TtySize THEN 0
                                         ELSE start + UpToEnd
    BY <1>0, UpToEndFits
  <2> HIDE DEF UpToEnd
  <2>3. /\ tty' \in Seq(Int) /\ Len(tty') = Len(tty) - UpToEnd
        /\ \A i \in 1..(Len(tty) - UpToEnd) : tty'[i] = tty[UpToEnd + i]
    BY <1>1, <2>1, <2>2, Pieces
  <2>4. flushes'[1] = printed /\ flushes'[2] = flushes[1]
    BY <2>1
  <2>5. ASSUME NEW i \in DOMAIN tty'
        PROVE  tty'[i] > flushes[1] /\ start' + i <= TtySize
    <3>1. i \in 1..(Len(tty) - UpToEnd) /\ i \in Nat
      BY <2>3
    <3> DEFINE k == UpToEnd
    <3>a. k \in 0..Len(tty) /\ (k < Len(tty) => start + k = TtySize)
      BY <2>2
    <3>b. i \in 1..(Len(tty) - k)
      BY <3>1
    <3> HIDE DEF k
    <3>d. k \in Nat /\ k <= Len(tty) /\ i \in Nat /\ i >= 1
      BY <1>1, <3>a, <3>1
    <3>e. i <= Len(tty) - k
      BY <1>1, <3>b, <3>d
    <3>f. k < Len(tty) /\ k + i \in 1..Len(tty)
      BY <1>1, <3>d, <3>e
    <3>c. start + k = TtySize /\ k + i \in 1..Len(tty) /\ k \in Nat
      BY <3>a, <3>d, <3>f
    <3>2. start + UpToEnd = TtySize /\ UpToEnd + i \in 1..Len(tty) /\ UpToEnd \in Nat
      BY <3>c DEF k
    <3>3. start' = 0
      BY <2>1, <2>2, <3>2
    <3>4. ~(tty[UpToEnd + i] <= flushes[1])
      BY <1>1, <1>2, <3>1, <3>2
    <3>5. tty[UpToEnd + i] \in Int
      BY <1>1, <3>2
    <3>6. tty'[i] = tty[UpToEnd + i]
      BY <2>3, <3>1
    <3>7. tty'[i] > flushes[1]
      BY <1>1, <3>4, <3>5, <3>6
    <3>8. i <= TtySize
      BY <1>1, <3>b, <3>c DEF k
    <3> QED
      BY <3>1, <3>3, <3>7, <3>8
  <2>6. flushes'[1] <= printed'
    BY <1>1, <2>1, <2>4
  <2>7. flushes'[2] <= flushes'[1]
    BY <1>2, <2>4
  <2>8. \A i \in DOMAIN tty' : /\ tty'[i] > flushes'[2]
                               /\ tty'[i] <= flushes'[1] => start' + i <= TtySize
    BY <2>4, <2>5
  <2> QED
    BY <2>6, <2>7, <2>8 DEF OldLiesBeforeEnd
<1>6. ASSUME NEW c \in Context, FlushNothing(c)
      PROVE  OldLiesBeforeEnd'
  <2>1. /\ tty' = <<>> /\ printed' = printed /\ flushes' = <<printed, flushes[1]>>
        /\ DOMAIN <<>> = {}
    BY <1>6 DEF FlushNothing
  <2>2. flushes'[1] = printed /\ flushes'[2] = flushes[1]
    BY <2>1
  <2>3. flushes'[2] <= flushes'[1] /\ flushes'[1] <= printed'
    BY <1>1, <1>2, <2>1, <2>2
  <2>4. DOMAIN tty' = {}
    BY <2>1
  <2> QED
    BY <2>3, <2>4 DEF OldLiesBeforeEnd
<1>7. ASSUME NEW c \in Context,
             \/ \E newline, now \in BOOLEAN : Printf(c, newline, now)
             \/ PutByte(c) \/ TtyFlush(c) \/ CopyByte(c) \/ StoreByte(c)
             \/ TakeByte(c) \/ SendByte(c) \/ DrainEnds(c)
      PROVE  OldLiesBeforeEnd'
  BY <1>3, <1>7 DEF Printf, PutByte, TtyFlush, CopyByte, StoreByte, TakeByte, SendByte,
                    DrainEnds, ttyVars
<1>8. ASSUME NEW p \in Port, Typed(p)
      PROVE  OldLiesBeforeEnd'
  BY <1>3, <1>8 DEF Typed, Receive, ttyVars
<1> QED
  BY <1>4, <1>5, <1>6, <1>7, <1>8 DEF Next, Prints

-----------------------------------------------------------------------------
(* The theorems. *)

\* SerialInv is inductive.
THEOREM SerialInvHolds == Spec => []SerialInv
<1>1. ASSUME SerialInv, Next
      PROVE  SerialInv'
  <2>1. Shapes' /\ Bounds' /\ OthersEmpty' /\ PortKeepsBytes'
    BY <1>1, ShapesStep, BoundsStep, KeepStep
  <2>2. ~raced' => Followed'
    BY <1>1, <2>1, AloneStep, CopyStep, RoomStep, OrderStep, FlushStep DEF Followed
  <2> QED
    BY <2>1, <2>2 DEF SerialInv
<1>2. ASSUME SerialInv, UNCHANGED vars
      PROVE  SerialInv'
  <2>1. UNCHANGED <<ring, inb, interrupted, sent, entered, typed, tty, start, passed,
                    printed, flushes, copied, byte, plan, pc, lost, raced>>
    BY <1>2 DEF vars, portVars, ttyVars
  <2>2. Shapes' /\ Bounds' /\ OthersEmpty' /\ PortKeepsBytes'
    BY <1>2, <2>1 DEF SerialInv, Shapes, Bounds, OthersEmpty, PortKeepsBytes, InHand
  <2>3. ASSUME ~raced'
        PROVE  Followed'
    <3>1. Followed
      BY <1>2, <2>1, <2>3 DEF SerialInv
    <3>2. Alone' /\ CopyFits'
      BY <2>1, <3>1 DEF Followed, Alone, InTty, InRing, CopyFits, UpToEnd
    <3>3. RoomInRing' /\ OldLiesBeforeEnd'
      BY <2>1, <3>1 DEF Followed, RoomInRing, Draining, OldLiesBeforeEnd
    <3>4. InOrder'
      BY <2>1, <3>1 DEF Followed, InOrder, PrintedSoFar, Rising
    <3> QED
      BY <3>2, <3>3, <3>4 DEF Followed
  <2> QED
    BY <2>2, <2>3 DEF SerialInv
<1> QED
  BY <1>1, <1>2, InitSerialInv, PTL DEF Spec

(* Every byte put into a port's ring goes out once and in order, for any      *)
(* ports, any number of contexts that interrupt each other's prints and any   *)
(* sizes in which the port's ring has room for what they leave there: no      *)
(* print fills the port's ring, and an input overflow never discards output.  *)
THEOREM BytesLeaveOnce == Spec => []PortKeepsBytes
<1>1. SerialInv => PortKeepsBytes
  BY DEF SerialInv
<1> QED
  BY <1>1, SerialInvHolds, PTL

\* The invariant gives what a printer relies on.
LEMMA InvGivesText ==
  ASSUME SerialInv
  PROVE  TextComesOut
<1> USE SerialAssumption
<1>0. Shapes /\ Bounds
  BY DEF SerialInv
<1>1. TypeOK
  <2>1. copied \in 0..Len(tty)
    <3>1. Len(tty) \in Nat
      BY <1>0 DEF Shapes
    <3> QED
      BY <1>0, <3>1 DEF Shapes, Bounds
  <2>2. \A p \in Port : Len(ring[p]) < OutSize /\ inb[p] \in 0..(InSize - 1)
    BY <1>0 DEF Shapes, Bounds
  <2>3. \A c \in Context : pc[c] \in {"no", "put", "copy", "store", "drain", "send"}
    BY <1>0 DEF Shapes, Places
  <2> QED
    BY <1>0, <2>1, <2>2, <2>3 DEF TypeOK, Shapes, Bounds
<1>2. ASSUME ~raced
      PROVE  TerminalKeepsOrder
  BY <1>2, Zenon DEF SerialInv, Followed, TerminalKeepsOrder, InOrder, Rising
<1>3. ASSUME ~raced
      PROVE  TwoFlushesBringItOut
  <2>1. SUFFICES ASSUME \A c \in Context : plan[c] = <<>> /\ pc[c] = "no"
                 PROVE  /\ ring[Console] = <<>>
                        /\ \A i \in DOMAIN tty : tty[i] > flushes[2]
    BY DEF TwoFlushesBringItOut
  <2>2. RoomInRing /\ CopyFits /\ OldLiesBeforeEnd
    BY <1>3 DEF SerialInv, Followed
  <2>3. Draining = {}
    BY <2>1 DEF Draining
  <2>4. Cardinality(Draining) = 0
    BY <2>3, FS_EmptySet
  <2>5. copied = 0
    BY <2>1, <2>2 DEF CopyFits
  <2>6. ring[Console] \in Seq(Int) /\ TtySize - 1 \in Nat
    BY <1>0 DEF Shapes
  <2>7. Cardinality(Draining) * (TtySize - 1) = 0
    BY <2>4, <2>6
  <2>8. Len(ring[Console]) <= 0
    BY <2>2, <2>5, <2>7 DEF RoomInRing
  <2>9. ring[Console] = <<>>
    BY <2>6, <2>8
  <2> QED
    BY <2>2, <2>9 DEF OldLiesBeforeEnd
<1> QED
  BY <1>1, <1>2, <1>3 DEF TextComesOut

(* What is printed reaches the console's port in order and once, without a    *)
(* gap unless unflushed text overran the terminal's ring, and with the second *)
(* flush at the latest, wherever the ring wraps and whoever prints in the     *)
(* middle of a flush, until two contexts meet in the middle of an operation   *)
(* on a ring; with the types.                                                 *)
THEOREM PrintedTextComesOut == Spec => []TextComesOut
<1>1. SerialInv => TextComesOut
  BY InvGivesText
<1> QED
  BY <1>1, SerialInvHolds, PTL
=============================================================================
