----------------------------- MODULE HeapProofs -----------------------------
(***************************************************************************)
(* Proofs about the heap, for every header and page size, every set of     *)
(* request sizes and any number of pages and blocks.                       *)
(***************************************************************************)
EXTENDS Heap, FiniteSetTheorems, WellFoundedInduction, TLAPS

-----------------------------------------------------------------------------
Links == Nat \cup {Null}

Headers == [free : BOOLEAN, length : Nat, next : Links, last : Links]

(* Every header leads to its neighbours: the segment at the address that     *)
(* next names is the one just below, and names this one as its last.         *)
Chained(s, end) ==
  \A a \in DOMAIN s :
    /\ s[a].next = Null <=> a = end
    /\ s[a].last = Null <=> a = Main
    /\ s[a].next # Null => /\ s[a].next \in DOMAIN s /\ s[a].next < a
                           /\ s[s[a].next].last = a
                           /\ \A b \in DOMAIN s : b < a => b <= s[a].next
    /\ s[a].last # Null => s[a].last \in DOMAIN s /\ s[s[a].last].next = a

(* A segment ends before the next one above it begins.                       *)
Apart(s) == \A a, b \in DOMAIN s : a < b => a + Header + s[a].length <= b

(* s is a list of segments from Main, which is always in use, down to end.   *)
Linked(s, end) ==
  /\ s = [a \in DOMAIN s |-> s[a]] /\ \A a \in DOMAIN s : s[a] \in Headers
  /\ end \in Nat /\ end < Main
  /\ DOMAIN s \subseteq end..Main /\ end \in DOMAIN s /\ Main \in DOMAIN s
  /\ ~s[Main].free /\ s[Main].length = 0
  /\ Chained(s, end) /\ Apart(s)

(* Outside the addresses of A no free segment is above another free one.     *)
CoalescedBut(s, A) ==
  \A a \in DOMAIN s \ A : s[a].free /\ s[a].next # Null => ~s[s[a].next].free

LiveInv ==
  /\ DOMAIN live \subseteq DOMAIN seg \ {Main}
  /\ \A a \in DOMAIN live : ~seg[a].free /\ live[a] \in Nat /\ seg[a].length >= live[a]

(* After an expansion the last segment is free and long enough, after a      *)
(* second one it can even be split.                                          *)
CallInv ==
  call # Null =>
    /\ call = [size |-> call.size, old |-> call.old, grown |-> call.grown]
    /\ call.size \in Sizes /\ call.old \in DOMAIN live \cup {Null} /\ call.grown \in 0..2
    /\ ~halted /\ call.grown >= 1 =>
         seg[lastSegment].free /\ seg[lastSegment].length >= call.size
    /\ ~halted /\ call.grown = 2 => seg[lastSegment].length > call.size + Header

CountersInv ==
  /\ {totalSize, usedSize, freeSize} \subseteq Int
  /\ usedSize + freeSize = totalSize

HeapInv ==
  /\ Linked(seg, heapEnd) /\ lastSegment = heapEnd /\ CoalescedBut(seg, {})
  /\ LiveInv /\ CallInv /\ CountersInv

-----------------------------------------------------------------------------
(* The top of the heap is an address, and mainSegment is below it.           *)
LEMMA TopIsNat ==
  HeapTop \in Nat /\ HeapTop >= PageSize /\ Main \in Nat /\ Main + Header = HeapTop
  /\ Main > HeapTop - PageSize
<1>1. MaxPages * PageSize \in Nat /\ MaxPages * PageSize >= PageSize
  BY HeapAssumption, Z3
<1> QED
  BY <1>1, HeapAssumption DEF HeapTop, Main

(* expand_heap takes enough pages for the request and its header.            *)
LEMMA PagesSuffice ==
  ASSUME NEW size \in Nat
  PROVE  /\ Pages(size) * PageSize \in Nat
         /\ Pages(size) * PageSize >= size + Header
         /\ Pages(size) * PageSize >= PageSize
<1> DEFINE x == size + Header + PageSize - 1
           q == x \div PageSize
<1>1. x \in Nat /\ PageSize \in Nat /\ PageSize > 0 /\ x >= PageSize /\ Header \in Nat
  BY HeapAssumption
<1>2. q \in Int /\ q * PageSize <= x /\ x < q * PageSize + PageSize
  BY <1>1, Z3
<1> HIDE DEF q
<1>3. q >= 1
  <2> SUFFICES ASSUME q <= 0 PROVE FALSE
    BY <1>2
  <2>1. q * PageSize <= 0
    BY <1>1, <1>2, Z3
  <2> QED
    BY <1>1, <1>2, <2>1
<1>4. q * PageSize \in Int /\ q * PageSize >= PageSize
  BY <1>1, <1>2, <1>3, Z3
<1> QED
  BY <1>1, <1>2, <1>4 DEF Pages, q

-----------------------------------------------------------------------------
(* r is list s after segment h became the high part of the one below it.     *)
Merged(s, h, r, n, up) ==
  /\ n = s[h].next /\ up = s[h].last
  /\ n \in DOMAIN s /\ up \in DOMAIN s /\ n < h /\ h < up
  /\ DOMAIN r = DOMAIN s \ {h} /\ r = [x \in DOMAIN r |-> r[x]]
  /\ r[n] = Segment(s[n].free, s[n].length + s[h].length + Header, s[n].next, up)
  /\ r[up] = Segment(s[up].free, s[up].length, n, s[up].last)
  /\ \A x \in DOMAIN s \ {h, n, up} : r[x] = s[x]

(* The header of a merged segment and its neighbours' after MergeThisToNext. *)
LEMMA MergeThisToNextFields ==
  ASSUME NEW s, NEW end, Linked(s, end), NEW h \in DOMAIN s, h # Main, h # end
  PROVE  Merged(s, h, MergeThisToNext(s, h), s[h].next, s[h].last)
<1> DEFINE r == MergeThisToNext(s, h)
           n == s[h].next
           up == s[h].last
<1>1. n \in DOMAIN s /\ n < h /\ up \in DOMAIN s /\ s[up].next = h
  BY DEF Linked, Chained
<1>2. up \in Int /\ h \in Int /\ n \in Int
  BY <1>1, TopIsNat DEF Linked
<1>3. h < up
  <2>1. s[up].next # Null
    BY <1>1, <1>2, HeapAssumption, TopIsNat DEF Linked
  <2> QED
    BY <1>1, <2>1 DEF Linked, Chained
<1>4. n # up /\ n # h /\ up # h
  BY <1>1, <1>2, <1>3
<1> DEFINE l == s[n].length + s[h].length + Header
           t == [s EXCEPT ![n].length = l, ![n].last = up, ![up].next = n]
<1>5. r = [x \in DOMAIN t \ {h} |-> t[x]]
  BY DEF MergeThisToNext, Without
<1>6. DOMAIN t = DOMAIN s
  BY <1>1
<1>7. s[n] \in Headers /\ s[up] \in Headers
  BY <1>1 DEF Linked
<1> HIDE DEF r
<1>8. /\ t[n] = [s[n] EXCEPT !.length = l, !.last = up]
      /\ t[up] = [s[up] EXCEPT !.next = n]
      /\ \A x \in DOMAIN s \ {h, n, up} : t[x] = s[x]
  BY <1>1, <1>4 DEF Linked
<1> HIDE DEF t
<1>9. /\ t[n] = Segment(s[n].free, l, s[n].next, up)
      /\ t[up] = Segment(s[up].free, s[up].length, n, s[up].last)
  BY <1>7, <1>8 DEF Headers, Segment
<1>10. DOMAIN r = DOMAIN s \ {h} /\ r = [x \in DOMAIN r |-> r[x]]
  BY <1>5, <1>6
<1> QED
  BY <1>1, <1>3, <1>4, <1>5, <1>6, <1>8, <1>9, <1>10 DEF r, Merged

(* MergeLastToThis is the same merge, seen from below.                       *)
LEMMA MergesAgree ==
  ASSUME NEW s, NEW end, Linked(s, end), NEW h \in DOMAIN s, h # Main
  PROVE  /\ s[h].last \in DOMAIN s /\ s[h].last # end
         /\ MergeLastToThis(s, h) = MergeThisToNext(s, s[h].last)
<1>1. s[h].last \in DOMAIN s /\ s[s[h].last].next = h
  BY DEF Linked, Chained
<1>2. h # Null
  BY HeapAssumption, TopIsNat DEF Linked
<1>3. s[h].last # end
  BY <1>1, <1>2 DEF Linked, Chained
<1> QED
  BY <1>1, <1>3 DEF MergeLastToThis, MergeThisToNext

(* The list stays linked when a segment becomes part of the one below it.    *)
LEMMA MergeKeepsList ==
  ASSUME NEW s, NEW end, Linked(s, end), NEW h \in DOMAIN s, h # Main, h # end
  PROVE  Linked(MergeThisToNext(s, h), end)
<1> DEFINE m == MergeThisToNext(s, h)
<1>1. PICK r, n, up, l :
        /\ r = m /\ l = s[n].length + s[h].length + Header
        /\ n = s[h].next /\ up = s[h].last
        /\ n \in DOMAIN s /\ up \in DOMAIN s /\ n < h /\ h < up
        /\ DOMAIN r = DOMAIN s \ {h} /\ r = [x \in DOMAIN r |-> r[x]]
        /\ r[n] = Segment(s[n].free, l, s[n].next, up)
        /\ r[up] = Segment(s[up].free, s[up].length, n, s[up].last)
        /\ \A x \in DOMAIN s \ {h, n, up} : r[x] = s[x]
  <2>1. Merged(s, h, m, s[h].next, s[h].last)
    BY MergeThisToNextFields
  <2> HIDE DEF m
  <2> QED
    BY <2>1 DEF Merged
<1> HIDE DEF m
<1>2. /\ DOMAIN s \subseteq Nat /\ Main \in Nat /\ end \in Nat /\ Header \in Nat
      /\ n \in Nat /\ h \in Nat /\ up \in Nat /\ n # up /\ Null \notin Nat
  BY <1>1, TopIsNat, HeapAssumption DEF Linked
<1>3. \A x \in DOMAIN s : s[x] \in Headers
  BY DEF Linked
<1>4. /\ r[n].free = s[n].free /\ r[n].length = l /\ r[n].next = s[n].next /\ r[n].last = up
      /\ r[up].free = s[up].free /\ r[up].length = s[up].length /\ r[up].next = n
      /\ r[up].last = s[up].last
  BY <1>1 DEF Segment
<1>5. l \in Nat /\ n \in Nat /\ up \in Nat
  BY <1>1, <1>2, <1>3 DEF Headers, Linked
<1>6. \A x \in DOMAIN r : r[x] \in Headers
  BY <1>1, <1>3, <1>5 DEF Headers, Segment, Links
<1>7. Chained(r, end)
  <2> SUFFICES ASSUME NEW a \in DOMAIN r
               PROVE  /\ r[a].next = Null <=> a = end
                      /\ r[a].last = Null <=> a = Main
                      /\ r[a].next # Null => /\ r[a].next \in DOMAIN r /\ r[a].next < a
                                             /\ r[r[a].next].last = a
                                             /\ \A b \in DOMAIN r : b < a => b <= r[a].next
                      /\ r[a].last # Null => r[a].last \in DOMAIN r /\ r[r[a].last].next = a
    BY DEF Chained
  <2>1. a \in DOMAIN s /\ a # h
    BY <1>1
  <2>2. /\ s[a].next = Null <=> a = end
        /\ s[a].last = Null <=> a = Main
        /\ s[a].next # Null => /\ s[a].next \in DOMAIN s /\ s[a].next < a
                               /\ s[s[a].next].last = a
                               /\ \A b \in DOMAIN s : b < a => b <= s[a].next
        /\ s[a].last # Null => s[a].last \in DOMAIN s /\ s[s[a].last].next = a
    BY <2>1 DEF Linked, Chained
  <2>3. s[up].next = h /\ s[n].last = h /\ s[h].next = n /\ s[h].last = up
        /\ (\A b \in DOMAIN s : b < h => b <= n) /\ (\A b \in DOMAIN s : b < up => b <= h)
    BY <1>1, <1>2 DEF Linked, Chained
  <2>4. CASE a = n
    <3>1. s[a].next # Null => s[a].next # h /\ s[a].next # n /\ s[a].next # up
      BY <1>1, <1>2, <2>2, <2>4
    <3>2. r[a].next # Null => r[a].next \in DOMAIN r /\ r[r[a].next] = s[s[a].next]
      BY <1>1, <1>4, <2>2, <2>4, <3>1
    <3>3. a # Main /\ r[a].last = up /\ up # Null /\ up \in DOMAIN r /\ r[up].next = a
      BY <1>1, <1>2, <1>4, <2>4 DEF Linked
    <3>4. r[a].next = s[a].next
      BY <1>4, <2>4
    <3> QED
      BY <1>1, <2>2, <3>2, <3>3, <3>4
  <2>5. CASE a = up
    <3>1. up # end
      BY <1>1, <1>2 DEF Linked
    <3>2. s[a].last # Null => s[a].last # h /\ s[a].last # n /\ s[a].last # up
      <4>1. s[n].next # Null => s[n].next < n
        BY <1>1 DEF Linked, Chained
      <4> QED
        BY <1>1, <1>2, <2>2, <2>3, <2>5, <4>1
    <3>3. r[a].last # Null => r[a].last \in DOMAIN r /\ r[r[a].last] = s[s[a].last]
      BY <1>1, <1>4, <2>2, <2>5, <3>2
    <3>4. \A b \in DOMAIN r : b < a => b <= n
      BY <1>1, <1>2, <2>3, <2>5
    <3> QED
      BY <1>1, <1>2, <1>4, <2>2, <2>5, <3>1, <3>3, <3>4
  <2>6. CASE a \notin {n, up}
    <3>1. r[a] = s[a]
      BY <1>1, <2>1, <2>6
    <3>2. s[a].next # Null => s[a].next # h /\ s[a].next # n
      BY <1>1, <2>1, <2>2, <2>3, <2>6
    <3>3. s[a].last # Null => s[a].last # h /\ s[a].last # up
      BY <1>1, <2>1, <2>2, <2>3, <2>6
    <3>4. s[a].next # Null => s[a].next \in DOMAIN r /\ r[s[a].next].last = s[s[a].next].last
      BY <1>1, <1>4, <2>2, <3>2
    <3>5. s[a].last # Null => s[a].last \in DOMAIN r /\ r[s[a].last].next = s[s[a].last].next
      BY <1>1, <1>4, <2>2, <3>3
    <3> QED
      BY <1>1, <2>2, <3>1, <3>4, <3>5
  <2> QED
    BY <2>4, <2>5, <2>6
<1>8. Apart(r)
  <2> SUFFICES ASSUME NEW a \in DOMAIN r, NEW b \in DOMAIN r, a < b
               PROVE  a + Header + r[a].length <= b
    BY DEF Apart
  <2>1. \A x, y \in DOMAIN s : x < y => x + Header + s[x].length <= y
    BY DEF Linked, Apart
  <2>2. CASE a = n
    <3>1. b > h
      <4>1. b \in DOMAIN s /\ b # h
        BY <1>1
      <4>2. \A y \in DOMAIN s : y < h => y <= n
        BY <1>1, <1>2 DEF Linked, Chained
      <4> QED
        BY <1>1, <1>2, <2>2, <4>1, <4>2
    <3>2. h + Header + s[h].length <= b /\ n + Header + s[n].length <= h
      BY <1>1, <2>1, <3>1
    <3> QED
      BY <1>1, <1>2, <1>3, <1>4, <2>2, <3>2 DEF Headers
  <2>3. CASE a # n
    <3>1. r[a].length = s[a].length /\ a \in DOMAIN s /\ b \in DOMAIN s
      BY <1>1, <1>4, <2>3
    <3> QED
      BY <2>1, <3>1
  <2> QED
    BY <2>2, <2>3
<1>9. Main \in DOMAIN r /\ end \in DOMAIN r /\ ~r[Main].free /\ r[Main].length = 0
  <2>1. Main # n /\ Main \in DOMAIN s /\ end \in DOMAIN s /\ ~s[Main].free /\ s[Main].length = 0
    BY <1>1, <1>2 DEF Linked
  <2>2. r[Main].free = s[Main].free /\ r[Main].length = s[Main].length
    BY <1>1, <1>4, <2>1
  <2> QED
    BY <1>1, <2>1, <2>2
<1> QED
  BY <1>1, <1>6, <1>7, <1>8, <1>9 DEF Linked, m

(* A merge leaves at most the free neighbours there were.                    *)
LEMMA MergeCoalesces ==
  ASSUME NEW s, NEW end, Linked(s, end), NEW h \in DOMAIN s, h # Main, h # end,
         NEW A, CoalescedBut(s, A), ~s[s[h].last].free
  PROVE  CoalescedBut(MergeThisToNext(s, h), A \ {h, s[h].last})
<1> DEFINE r == MergeThisToNext(s, h)
           n == s[h].next
           up == s[h].last
<1>1. /\ n \in DOMAIN s /\ up \in DOMAIN s /\ n < h /\ h < up
      /\ DOMAIN r = DOMAIN s \ {h}
      /\ r[n].free = s[n].free /\ r[n].next = s[n].next
      /\ r[up].free = s[up].free
      /\ \A x \in DOMAIN s \ {h, n, up} : r[x] = s[x]
  <2>1. Merged(s, h, r, n, up)
    BY MergeThisToNextFields
  <2> HIDE DEF r
  <2> QED
    BY <2>1 DEF Merged, Segment
<1> HIDE DEF r
<1> SUFFICES ASSUME NEW a \in DOMAIN r \ (A \ {h, up}), r[a].free, r[a].next # Null
             PROVE  ~r[r[a].next].free
  BY DEF CoalescedBut, r
<1>2. a # up /\ a # h /\ a \in DOMAIN s \ A
  BY <1>1
<1>3. s[a].free /\ s[a].next = r[a].next
  BY <1>1, <1>2
<1>4. s[a].next \in DOMAIN s /\ s[a].next # h
  BY <1>2, <1>3 DEF Linked, Chained
<1>5. r[s[a].next].free = s[s[a].next].free
  BY <1>1, <1>4
<1> QED
  BY <1>2, <1>3, <1>5 DEF CoalescedBut

(* What a merge leaves alone: a segment that is neither end of it.           *)
LEMMA MergeKeepsOthers ==
  ASSUME NEW s, NEW end, Linked(s, end), NEW h \in DOMAIN s, h # Main, h # end,
         NEW x \in DOMAIN s \ {h, s[h].next}
  PROVE  /\ x \in DOMAIN MergeThisToNext(s, h)
         /\ MergeThisToNext(s, h)[x].free = s[x].free
         /\ MergeThisToNext(s, h)[x].length = s[x].length
<1> DEFINE r == MergeThisToNext(s, h)
           n == s[h].next
           up == s[h].last
<1>1. Merged(s, h, r, n, up)
  BY MergeThisToNextFields
<1> SUFFICES x \in DOMAIN r /\ r[x].free = s[x].free /\ r[x].length = s[x].length
  OBVIOUS
<1> HIDE DEF r
<1>2. CASE x = up
  BY <1>1, <1>2 DEF Merged, Segment
<1>3. CASE x # up
  BY <1>1, <1>3 DEF Merged
<1> QED
  BY <1>2, <1>3

(* r is list s after segment h was freed.                                    *)
ReleasedWell(s, end, h, r) ==
  /\ Linked(r, end) /\ CoalescedBut(r, {})
  /\ \A x \in DOMAIN s \ {h} : ~s[x].free =>
       x \in DOMAIN r /\ ~r[x].free /\ r[x].length = s[x].length
  /\ \A x \in DOMAIN r : ~r[x].free => x \in DOMAIN s \ {h} /\ ~s[x].free

(* A merge keeps the free flags of the segments it leaves.                   *)
LEMMA MergeKeepsFlags ==
  ASSUME NEW s, NEW end, Linked(s, end), NEW h \in DOMAIN s, h # Main, h # end
  PROVE  \A x \in DOMAIN MergeThisToNext(s, h) :
           x \in DOMAIN s \ {h} /\ MergeThisToNext(s, h)[x].free = s[x].free
<1>1. PICK r, n, up : r = MergeThisToNext(s, h) /\ Merged(s, h, r, n, up)
  BY MergeThisToNextFields
<1>2. r[n].free = s[n].free /\ r[up].free = s[up].free
  BY <1>1 DEF Merged, Segment
<1>3. \A x \in DOMAIN r : x \in DOMAIN s \ {h} /\ r[x].free = s[x].free
  BY <1>1, <1>2 DEF Merged
<1> QED
  BY <1>1, <1>3

(***************************************************************************)
(* _free: the list stays linked, no two free segments are left side by     *)
(* side, and the other segments in use stay as they are.                   *)
(***************************************************************************)
LEMMA ReleasedList ==
  ASSUME NEW s, NEW end, Linked(s, end), CoalescedBut(s, {}),
         NEW h \in DOMAIN s, h # Main, ~s[h].free
  PROVE  ReleasedWell(s, end, h, Released(s, h))
<1> SUFFICES /\ Linked(Released(s, h), end) /\ CoalescedBut(Released(s, h), {})
             /\ \A x \in DOMAIN s \ {h} : ~s[x].free =>
                  /\ x \in DOMAIN Released(s, h) /\ ~Released(s, h)[x].free
                  /\ Released(s, h)[x].length = s[x].length
             /\ \A x \in DOMAIN Released(s, h) : ~Released(s, h)[x].free =>
                  x \in DOMAIN s \ {h} /\ ~s[x].free
  BY DEF ReleasedWell
<1> DEFINE g == [s EXCEPT ![h].free = TRUE]
           freeUp == s[h].last # Null /\ s[s[h].last].free
           freeDown == s[h].next # Null /\ s[s[h].next].free
<1>1. PICK f : f = g
  OBVIOUS
<1>2. PICK up, down : up = s[h].last /\ down = s[h].next
  OBVIOUS
<1>3. Released(s, h) = CASE freeUp /\ freeDown -> MergeThisToNext(MergeLastToThis(f, h), h)
                         [] freeUp /\ ~freeDown -> MergeLastToThis(f, h)
                         [] ~freeUp /\ freeDown -> MergeThisToNext(f, h)
                         [] OTHER -> f
  BY <1>1 DEF Released
<1>4. /\ DOMAIN f = DOMAIN s /\ f = [x \in DOMAIN f |-> f[x]]
      /\ f[h] = [s[h] EXCEPT !.free = TRUE]
      /\ \A x \in DOMAIN s \ {h} : f[x] = s[x]
  BY <1>1 DEF Linked
<1>5. \A x \in DOMAIN s : s[x] \in Headers
  BY DEF Linked
<1>6. /\ f[h] \in Headers /\ f[h].free = TRUE /\ f[h].length = s[h].length
      /\ f[h].next = s[h].next /\ f[h].last = s[h].last
  BY <1>4, <1>5 DEF Headers
<1> HIDE DEF g
<1>7. \A x \in DOMAIN s : /\ f[x] \in Headers /\ f[x].length = s[x].length
                          /\ f[x].next = s[x].next /\ f[x].last = s[x].last
                          /\ (x # h => f[x].free = s[x].free)
  BY <1>4, <1>5, <1>6
<1>8. Linked(f, end)
  <2>1. Chained(f, end)
    BY <1>4, <1>7 DEF Linked, Chained
  <2>2. Apart(f)
    BY <1>4, <1>7 DEF Linked, Apart
  <2> QED
    BY <1>4, <1>7, <2>1, <2>2 DEF Linked
<1>9. up \in DOMAIN s /\ up # h /\ s[up].next = h /\ DOMAIN s \subseteq Nat /\ Null \notin Nat
  <2>1. DOMAIN s \subseteq Nat /\ Null \notin Nat
    BY HeapAssumption, TopIsNat DEF Linked
  <2>2. up \in DOMAIN s /\ s[up].next = h /\ h # Null
    BY <1>2, <2>1 DEF Linked, Chained
  <2>3. h < up
    BY <2>2 DEF Linked, Chained
  <2> QED
    BY <2>1, <2>2, <2>3
<1>10. CoalescedBut(f, {h, up})
  <2> SUFFICES ASSUME NEW a \in DOMAIN f \ {h, up}, f[a].free, f[a].next # Null
               PROVE  ~f[f[a].next].free
    BY DEF CoalescedBut
  <2>1. s[a].next \in DOMAIN s /\ s[a].next # h /\ s[a].free
    BY <1>2, <1>4, <1>7 DEF Linked, Chained
  <2> QED
    BY <1>4, <1>7, <2>1 DEF CoalescedBut
<1>11. freeUp => up # Main
  BY <1>2 DEF Linked
<1>12. down # Null => /\ down \in DOMAIN s /\ h # end /\ s[down].last = h /\ down < h
                      /\ down # h
  BY <1>2, <1>9 DEF Linked, Chained
<1>13. ASSUME freeUp
       PROVE  \E m : /\ m = MergeLastToThis(f, h) /\ Linked(m, end) /\ CoalescedBut(m, {h})
                     /\ h \in DOMAIN m /\ m[h].free = TRUE /\ m[h].next = down
                     /\ ~m[m[h].last].free
                     /\ \A x \in DOMAIN s \ {h, up} :
                          x \in DOMAIN m /\ m[x].free = s[x].free /\ m[x].length = s[x].length
                     /\ \A x \in DOMAIN m : ~m[x].free => x \in DOMAIN s \ {h} /\ ~s[x].free
  <2>1. PICK m : m = MergeThisToNext(f, up)
    OBVIOUS
  <2>2. up \in DOMAIN f /\ up # Main /\ up # end /\ m = MergeLastToThis(f, h)
    <3>1. h \in DOMAIN f /\ up = f[h].last /\ up \in DOMAIN f /\ up # Main
      BY <1>2, <1>4, <1>6, <1>9, <1>11, <1>13
    <3>2. f[h].last # end /\ MergeLastToThis(f, h) = MergeThisToNext(f, f[h].last)
      BY <1>8, <3>1, MergesAgree
    <3> QED
      BY <2>1, <3>1, <3>2
  <2>3. PICK top : top = f[up].last
    OBVIOUS
  <2>4. /\ f[up].next = h /\ h \in DOMAIN s /\ top \in DOMAIN s /\ h < up /\ up < top
        /\ DOMAIN m = DOMAIN s \ {up}
        /\ m[h].free = TRUE /\ m[h].next = down /\ m[h].last = top
        /\ m[top].free = f[top].free
    <3>1. f[up].next = h
      BY <1>7, <1>9
    <3>2. Merged(f, up, m, h, top)
      BY <1>8, <2>1, <2>2, <2>3, <3>1, MergeThisToNextFields
    <3>3. m[h].free = f[h].free /\ m[h].next = f[h].next /\ m[h].last = top
          /\ m[top].free = f[top].free
      BY <3>2 DEF Merged, Segment
    <3> QED
      BY <1>2, <1>4, <1>6, <3>1, <3>2, <3>3 DEF Merged
  <2>5. top # h /\ ~f[top].free
    <3>1. top \in Nat /\ up \in Nat /\ h \in Nat
      BY <1>9, <2>4
    <3>2. top # h /\ up # Null
      BY <1>9, <2>4, <3>1
    <3>3. s[up].last = top /\ s[top].next = up
      <4>1. s[up].last = top
        BY <1>7, <1>9, <2>3
      <4> QED
        BY <1>9, <2>4, <4>1 DEF Linked, Chained
    <3>4. ~s[top].free
      BY <1>2, <1>13, <2>4, <3>2, <3>3 DEF CoalescedBut
    <3> QED
      BY <1>7, <2>4, <3>2, <3>4
  <2>6. Linked(m, end)
    <3>1. Linked(MergeThisToNext(f, up), end)
      BY <1>8, <2>2, MergeKeepsList
    <3> QED
      BY <2>1, <3>1
  <2>7. CoalescedBut(m, {h})
    <3>1. CoalescedBut(m, {h, up} \ {up, f[up].last})
      <4>1. up \in DOMAIN f /\ up # Main /\ up # end /\ ~f[f[up].last].free
        BY <2>2, <2>3, <2>5
      <4>2. CoalescedBut(MergeThisToNext(f, up), {h, up} \ {up, f[up].last})
        BY <1>8, <1>10, <4>1, MergeCoalesces
      <4> QED
        BY <2>1, <4>2
    <3>2. {h, up} \ {up, f[up].last} = {h}
      BY <1>9, <2>3, <2>5
    <3> QED
      BY <3>1, <3>2
  <2>8. ASSUME NEW x \in DOMAIN s \ {h, up}
        PROVE  x \in DOMAIN m /\ m[x].free = s[x].free /\ m[x].length = s[x].length
    <3>1. x \in DOMAIN m /\ m[x].free = f[x].free /\ m[x].length = f[x].length
      <4>1. x \in DOMAIN f \ {up, f[up].next}
        BY <1>4, <2>4
      <4>2. /\ x \in DOMAIN MergeThisToNext(f, up)
            /\ MergeThisToNext(f, up)[x].free = f[x].free
            /\ MergeThisToNext(f, up)[x].length = f[x].length
        BY <1>8, <2>2, <4>1, MergeKeepsOthers
      <4> QED
        BY <2>1, <4>2
    <3> QED
      BY <1>7, <3>1
  <2>9. \A x \in DOMAIN m : ~m[x].free => x \in DOMAIN s \ {h} /\ ~s[x].free
    <3>1. \A x \in DOMAIN m : x \in DOMAIN f \ {up} /\ m[x].free = f[x].free
      <4>1. \A x \in DOMAIN MergeThisToNext(f, up) :
              x \in DOMAIN f \ {up} /\ MergeThisToNext(f, up)[x].free = f[x].free
        BY <1>8, <2>2, MergeKeepsFlags
      <4> QED
        BY <2>1, <4>1
    <3> QED
      BY <1>4, <1>6, <1>7, <3>1
  <2> QED
    BY <1>9, <2>2, <2>4, <2>5, <2>6, <2>7, <2>8, <2>9
<1>14. CASE freeUp /\ freeDown
  <2>1. PICK m : /\ m = MergeLastToThis(f, h) /\ Linked(m, end) /\ CoalescedBut(m, {h})
                 /\ h \in DOMAIN m /\ m[h].free = TRUE /\ m[h].next = down
                 /\ ~m[m[h].last].free
                 /\ \A x \in DOMAIN s \ {h, up} :
                      x \in DOMAIN m /\ m[x].free = s[x].free /\ m[x].length = s[x].length
                 /\ \A x \in DOMAIN m : ~m[x].free => x \in DOMAIN s \ {h} /\ ~s[x].free
    BY <1>13, <1>14
  <2>2. PICK r : r = MergeThisToNext(m, h)
    OBVIOUS
  <2>3. Released(s, h) = r
    BY <1>3, <1>14, <2>1, <2>2
  <2>4. h # end /\ s[down].free /\ s[up].free
    BY <1>2, <1>12, <1>14
  <2>5. Linked(r, end)
    BY <2>1, <2>2, <2>4, MergeKeepsList
  <2>6. CoalescedBut(r, {})
    <3>1. CoalescedBut(r, {h} \ {h, m[h].last})
      BY <2>1, <2>2, <2>4, MergeCoalesces
    <3>2. {h} \ {h, m[h].last} = {}
      OBVIOUS
    <3> QED
      BY <3>1, <3>2
  <2>7. ASSUME NEW x \in DOMAIN s \ {h}, ~s[x].free
        PROVE  x \in DOMAIN r /\ ~r[x].free /\ r[x].length = s[x].length
    <3>1. x # up /\ x # down
      BY <2>4, <2>7
    <3>2. x \in DOMAIN m \ {h, m[h].next} /\ m[x].free = s[x].free /\ m[x].length = s[x].length
      BY <2>1, <3>1
    <3>3. x \in DOMAIN r /\ r[x].free = m[x].free /\ r[x].length = m[x].length
      BY <2>1, <2>2, <2>4, <3>2, MergeKeepsOthers
    <3> QED
      BY <2>7, <3>2, <3>3
  <2>8. \A x \in DOMAIN r : ~r[x].free => x \in DOMAIN s \ {h} /\ ~s[x].free
    <3>1. \A x \in DOMAIN r : x \in DOMAIN m \ {h} /\ r[x].free = m[x].free
      BY <2>1, <2>2, <2>4, MergeKeepsFlags
    <3> QED
      BY <2>1, <3>1
  <2> QED
    BY <2>3, <2>5, <2>6, <2>7, <2>8
<1>15. CASE freeUp /\ ~freeDown
  <2>1. PICK m : /\ m = MergeLastToThis(f, h) /\ Linked(m, end) /\ CoalescedBut(m, {h})
                 /\ h \in DOMAIN m /\ m[h].free = TRUE /\ m[h].next = down
                 /\ ~m[m[h].last].free
                 /\ \A x \in DOMAIN s \ {h, up} :
                      x \in DOMAIN m /\ m[x].free = s[x].free /\ m[x].length = s[x].length
                 /\ \A x \in DOMAIN m : ~m[x].free => x \in DOMAIN s \ {h} /\ ~s[x].free
    BY <1>13, <1>15
  <2>2. Released(s, h) = m
    BY <1>3, <1>15, <2>1
  <2>3. down # Null => ~s[down].free /\ down # up
    BY <1>2, <1>15
  <2>4. down # Null => ~m[down].free
    BY <1>12, <2>1, <2>3
  <2>5. CoalescedBut(m, {})
    BY <2>1, <2>4 DEF CoalescedBut
  <2>6. s[up].free
    BY <1>2, <1>15
  <2> QED
    BY <2>1, <2>2, <2>5, <2>6
<1>16. CASE ~freeUp /\ freeDown
  <2>1. PICK r : r = MergeThisToNext(f, h)
    OBVIOUS
  <2>2. Released(s, h) = r
    BY <1>3, <1>16, <2>1
  <2>3. h # end /\ s[down].free /\ ~f[up].free
    BY <1>2, <1>7, <1>9, <1>12, <1>16
  <2>4. Linked(r, end)
    BY <1>4, <1>8, <2>1, <2>3, MergeKeepsList
  <2>5. CoalescedBut(r, {})
    <3>1. CoalescedBut(r, {h, up} \ {h, f[h].last})
      BY <1>2, <1>4, <1>6, <1>8, <1>10, <2>1, <2>3, MergeCoalesces
    <3>2. {h, up} \ {h, f[h].last} = {}
      BY <1>2, <1>6
    <3> QED
      BY <3>1, <3>2
  <2>6. ASSUME NEW x \in DOMAIN s \ {h}, ~s[x].free
        PROVE  x \in DOMAIN r /\ ~r[x].free /\ r[x].length = s[x].length
    <3>1. x \in DOMAIN f \ {h, f[h].next}
      BY <1>2, <1>4, <1>6, <2>3, <2>6
    <3>2. x \in DOMAIN r /\ r[x].free = f[x].free /\ r[x].length = f[x].length
      <4>1. /\ x \in DOMAIN MergeThisToNext(f, h)
            /\ MergeThisToNext(f, h)[x].free = f[x].free
            /\ MergeThisToNext(f, h)[x].length = f[x].length
        <5>1. h \in DOMAIN f /\ h # end
          BY <1>4, <2>3
        <5> QED
          BY <1>8, <3>1, <5>1, MergeKeepsOthers
      <4> QED
        BY <2>1, <4>1
    <3> QED
      BY <1>7, <2>6, <3>2
  <2>7. \A x \in DOMAIN r : ~r[x].free => x \in DOMAIN s \ {h} /\ ~s[x].free
    <3>1. \A x \in DOMAIN r : x \in DOMAIN f \ {h} /\ r[x].free = f[x].free
      BY <1>4, <1>8, <2>1, <2>3, MergeKeepsFlags
    <3> QED
      BY <1>4, <1>7, <3>1
  <2> QED
    BY <2>2, <2>4, <2>5, <2>6, <2>7
<1>17. CASE ~freeUp /\ ~freeDown
  <2>1. Released(s, h) = f
    BY <1>3, <1>17
  <2>2. CoalescedBut(f, {})
    <3> SUFFICES ASSUME NEW a \in DOMAIN f, f[a].free, f[a].next # Null
                 PROVE  ~f[f[a].next].free
      BY DEF CoalescedBut
    <3>1. CASE a = h
      BY <1>2, <1>6, <1>7, <1>12, <1>17, <3>1
    <3>2. CASE a = up
      BY <1>2, <1>7, <1>9, <1>17, <3>2
    <3>3. CASE a \notin {h, up}
      BY <1>10, <3>3 DEF CoalescedBut
    <3> QED
      BY <3>1, <3>2, <3>3
  <2>3. \A x \in DOMAIN f : ~f[x].free => x \in DOMAIN s \ {h} /\ ~s[x].free
    BY <1>4, <1>6, <1>7
  <2> QED
    BY <1>4, <1>7, <1>8, <2>1, <2>2, <2>3
<1> QED
  BY <1>14, <1>15, <1>16, <1>17

-----------------------------------------------------------------------------
(* r is the list after new was cut from segment a.                          *)
SplitWell(a, size, r, new) ==
  /\ new \in Nat \ DOMAIN seg /\ new # Main
  /\ Linked(r, heapEnd) /\ CoalescedBut(r, {})
  /\ DOMAIN r = DOMAIN seg \cup {new}
  /\ ~r[new].free /\ r[new].length = size
  /\ r[a].free = seg[a].free
  /\ \A x \in DOMAIN seg \ {a} : r[x].free = seg[x].free /\ r[x].length = seg[x].length

(***************************************************************************)
(* splitSegment: the list stays linked, the new segment is in use and as   *)
(* long as asked, and only the segment it was cut from gets shorter.       *)
(***************************************************************************)
LEMMA SplitList ==
  ASSUME Linked(seg, heapEnd), CoalescedBut(seg, {}),
         NEW a \in DOMAIN seg, NEW size \in Nat \ {0}, Splits(a, size)
  PROVE  SplitWell(a, size, splitSegment(a, size), SplitPoint(a, size))
<1>1. PICK s, end : s = seg /\ end = heapEnd
  OBVIOUS
<1>2. Linked(s, end) /\ CoalescedBut(s, {}) /\ a \in DOMAIN s
      /\ s[a].free /\ s[a].length > size + Header
  BY <1>1 DEF Splits
<1>3. PICK up : up = s[a].last
  OBVIOUS
<1>4. /\ DOMAIN s \subseteq Nat /\ Main \in Nat /\ end \in Nat /\ Header \in Nat
      /\ Header > 0 /\ Null \notin Nat /\ \A x \in DOMAIN s : s[x] \in Headers
  BY <1>2, TopIsNat, HeapAssumption DEF Linked
<1>5. a # Main /\ a \in Nat /\ up \in DOMAIN s /\ up \in Nat /\ s[up].next = a /\ a < up
      /\ up # Null /\ up # end
  <2>1. a # Main
    BY <1>2 DEF Linked
  <2>2. a \in Nat /\ up \in DOMAIN s /\ s[up].next = a
    BY <1>2, <1>3, <1>4, <2>1 DEF Linked, Chained
  <2>3. s[up].next # Null /\ up \in Nat
    BY <1>4, <2>2
  <2>4. a < up /\ up # end
    BY <1>2, <2>2, <2>3 DEF Linked, Chained
  <2> QED
    BY <1>4, <2>1, <2>2, <2>3, <2>4
<1>6. PICK l : l = s[a].length - size - Header
  OBVIOUS
<1>7. PICK new : new = a + s[a].length - size
  OBVIOUS
<1>8. s[a].length \in Nat /\ l \in Nat /\ new = a + l + Header
  BY <1>2, <1>4, <1>5, <1>6, <1>7 DEF Headers
<1>9. new \in Nat /\ a < new /\ new = SplitPoint(a, size)
  BY <1>1, <1>4, <1>5, <1>7, <1>8 DEF SplitPoint
<1>10. \A x \in DOMAIN s : a < x => new + Header + size <= x
  BY <1>2, <1>4, <1>5, <1>7, <1>8 DEF Linked, Apart
<1>11. new < up /\ new \notin DOMAIN s /\ new # a /\ new < Main
  <2>1. new + Header + size <= up
    BY <1>5, <1>10
  <2>2. \A x \in DOMAIN s : x # new
    BY <1>4, <1>5, <1>9, <1>10
  <2>3. up <= Main
    BY <1>2, <1>5 DEF Linked
  <2> QED
    BY <1>4, <1>5, <1>9, <2>1, <2>2, <2>3
<1>12. PICK r : r = splitSegment(a, size)
  OBVIOUS
<1>13. r = [x \in DOMAIN s \cup {new} |->
              CASE x = new -> Segment(FALSE, size, a, up)
                [] x = a -> Segment(s[a].free, l, s[a].next, new)
                [] x = up -> Segment(s[up].free, s[up].length, new, s[up].last)
                [] OTHER -> s[x]]
  BY <1>1, <1>3, <1>6, <1>9, <1>12 DEF splitSegment
<1>14. /\ DOMAIN r = DOMAIN s \cup {new} /\ r = [x \in DOMAIN r |-> r[x]]
       /\ r[new] = Segment(FALSE, size, a, up)
       /\ r[a] = Segment(s[a].free, l, s[a].next, new)
       /\ r[up] = Segment(s[up].free, s[up].length, new, s[up].last)
       /\ \A x \in DOMAIN s \ {a, up} : r[x] = s[x]
  <2>1. a # up /\ new # up /\ new # a /\ new \notin DOMAIN s /\ a \in DOMAIN s /\ up \in DOMAIN s
    BY <1>2, <1>5, <1>9, <1>11
  <2> DEFINE e(x) == CASE x = new -> Segment(FALSE, size, a, up)
                       [] x = a -> Segment(s[a].free, l, s[a].next, new)
                       [] x = up -> Segment(s[up].free, s[up].length, new, s[up].last)
                       [] OTHER -> s[x]
  <2>2. r = [x \in DOMAIN s \cup {new} |-> e(x)]
    BY <1>13
  <2>3. e(new) = Segment(FALSE, size, a, up)
    BY <2>1
  <2>4. e(a) = Segment(s[a].free, l, s[a].next, new)
    BY <2>1
  <2>5. e(up) = Segment(s[up].free, s[up].length, new, s[up].last)
    BY <2>1
  <2>6. ASSUME NEW x \in DOMAIN s \ {a, up} PROVE e(x) = s[x]
    BY <2>1
  <2> HIDE DEF e
  <2>7. DOMAIN r = DOMAIN s \cup {new} /\ r = [x \in DOMAIN r |-> r[x]]
        /\ \A x \in DOMAIN s \cup {new} : r[x] = e(x)
    BY <2>2
  <2> QED
    BY <2>1, <2>3, <2>4, <2>5, <2>6, <2>7
<1>15. /\ r[new].free = FALSE /\ r[new].length = size /\ r[new].next = a /\ r[new].last = up
       /\ r[a].free = s[a].free /\ r[a].length = l /\ r[a].next = s[a].next /\ r[a].last = new
       /\ r[up].free = s[up].free /\ r[up].length = s[up].length /\ r[up].next = new
       /\ r[up].last = s[up].last
  BY <1>14 DEF Segment
<1>16. \A x \in DOMAIN r : r[x] \in Headers
  <2>1. r[new] \in Headers
    BY <1>5, <1>14 DEF Headers, Segment, Links
  <2>2. r[a] \in Headers
    BY <1>2, <1>4, <1>8, <1>9, <1>14 DEF Headers, Segment, Links
  <2>3. r[up] \in Headers
    BY <1>4, <1>5, <1>9, <1>14 DEF Headers, Segment, Links
  <2> QED
    BY <1>4, <1>14, <2>1, <2>2, <2>3
<1>17. Chained(r, end)
  <2> SUFFICES ASSUME NEW b \in DOMAIN r
               PROVE  /\ r[b].next = Null <=> b = end
                      /\ r[b].last = Null <=> b = Main
                      /\ r[b].next # Null => /\ r[b].next \in DOMAIN r /\ r[b].next < b
                                             /\ r[r[b].next].last = b
                                             /\ \A c \in DOMAIN r : c < b => c <= r[b].next
                      /\ r[b].last # Null => r[b].last \in DOMAIN r /\ r[r[b].last].next = b
    BY DEF Chained
  <2>1. \A c \in DOMAIN s :
          /\ s[c].next = Null <=> c = end
          /\ s[c].last = Null <=> c = Main
          /\ s[c].next # Null => /\ s[c].next \in DOMAIN s /\ s[c].next < c
                                 /\ s[s[c].next].last = c
                                 /\ \A d \in DOMAIN s : d < c => d <= s[c].next
          /\ s[c].last # Null => s[c].last \in DOMAIN s /\ s[s[c].last].next = c
    BY <1>2 DEF Linked, Chained
  <2>2. end \in DOMAIN s /\ Main \in DOMAIN s
    BY <1>2 DEF Linked
  <2>3. CASE b = new
    <3>1. b # end /\ b # Main /\ a # Null
      BY <1>4, <1>5, <1>11, <2>2, <2>3
    <3>2. \A c \in DOMAIN r : c < b => c <= a
      BY <1>4, <1>5, <1>9, <1>10, <1>14, <2>3
    <3> QED
      BY <1>2, <1>5, <1>9, <1>14, <1>15, <2>3, <3>1, <3>2
  <2>4. CASE b = a
    <3>1. s[a].next # Null => /\ s[a].next \in DOMAIN s /\ s[a].next < a
                              /\ s[s[a].next].last = a
                              /\ \A d \in DOMAIN s : d < a => d <= s[a].next
      BY <1>2, <2>1
    <3>2. s[a].next # Null => s[a].next \notin {a, up}
      BY <1>4, <1>5, <3>1
    <3>3. s[a].next # Null => r[s[a].next] = s[s[a].next]
      BY <1>14, <3>1, <3>2
    <3>4. \A c \in DOMAIN r : c < a => c \in DOMAIN s
      BY <1>4, <1>5, <1>9, <1>14
    <3>5. new # Null /\ a # Main /\ (s[a].next = Null <=> a = end)
      BY <1>2, <1>4, <1>5, <1>9, <2>1
    <3> QED
      BY <1>14, <1>15, <2>4, <3>1, <3>3, <3>4, <3>5
  <2>5. CASE b = up
    <3>1. /\ s[up].last = Null <=> up = Main
          /\ s[up].last # Null => s[up].last \in DOMAIN s /\ s[s[up].last].next = up
      BY <1>5, <2>1
    <3>2. s[up].last # Null => s[up].last \notin {a, up}
      <4>1. s[a].next # up /\ s[up].next # up
        BY <1>2, <1>4, <1>5, <2>1
      <4> QED
        BY <3>1, <4>1
    <3>3. s[up].last # Null => r[s[up].last] = s[s[up].last]
      BY <1>14, <3>1, <3>2
    <3>4. \A c \in DOMAIN r : c < up => c <= new
      <4>1. \A c \in DOMAIN s : c < up => c <= a
        BY <1>5, <1>4, <2>1
      <4> QED
        BY <1>4, <1>5, <1>9, <1>14, <4>1
    <3>5. new # Null /\ up # end
      BY <1>4, <1>5, <1>9
    <3> QED
      BY <1>11, <1>14, <1>15, <2>5, <3>1, <3>3, <3>4, <3>5
  <2>6. CASE b \notin {new, a, up}
    <3>1. b \in DOMAIN s /\ r[b] = s[b]
      BY <1>14, <2>6
    <3>2. s[b].next # Null => s[b].next \in DOMAIN s /\ s[b].next # a /\ s[b].next < b
      BY <1>3, <2>1, <2>6, <3>1
    <3>3. s[b].last # Null => s[b].last \in DOMAIN s /\ s[b].last # up
      BY <1>5, <2>1, <2>6, <3>1
    <3>4. s[b].next # Null => r[s[b].next].last = s[s[b].next].last
      BY <1>14, <1>15, <3>2
    <3>5. s[b].last # Null => r[s[b].last].next = s[s[b].last].next
      BY <1>14, <1>15, <3>3
    <3>6. ASSUME s[b].next # Null, NEW c \in DOMAIN r, c < b PROVE c <= s[b].next
      <4>1. CASE c \in DOMAIN s
        BY <2>1, <3>1, <3>6, <4>1
      <4>2. CASE c = new
        <5>1. a < b /\ b \in Nat
          BY <1>4, <1>5, <1>9, <3>1, <3>6, <4>2
        <5>2. ~(b < up)
          BY <1>4, <1>5, <2>1, <3>1, <5>1
        <5>3. up < b
          BY <1>5, <2>6, <5>1, <5>2
        <5>4. up <= s[b].next /\ s[b].next \in Nat
          BY <1>4, <1>5, <2>1, <3>1, <3>6, <5>3
        <5> QED
          BY <1>5, <1>9, <1>11, <4>2, <5>4
      <4> QED
        BY <1>14, <4>1, <4>2
    <3> QED
      BY <1>14, <2>1, <3>1, <3>2, <3>3, <3>4, <3>5, <3>6
  <2> QED
    BY <2>3, <2>4, <2>5, <2>6
<1>18. Apart(r)
  <2> SUFFICES ASSUME NEW b \in DOMAIN r, NEW c \in DOMAIN r, b < c
               PROVE  b + Header + r[b].length <= c
    BY DEF Apart
  <2>1. \A x, y \in DOMAIN s : x < y => x + Header + s[x].length <= y
    BY <1>2 DEF Linked, Apart
  <2>2. CASE b = new
    <3>1. c \in DOMAIN s /\ a < c
      BY <1>4, <1>5, <1>9, <1>14, <2>2
    <3> QED
      BY <1>10, <1>15, <2>2, <3>1
  <2>3. CASE b = a
    <3>1. c >= new
      <4>1. c \in DOMAIN s => new + Header + size <= c
        BY <1>10, <2>3
      <4> QED
        BY <1>4, <1>9, <1>14, <4>1
    <3> QED
      BY <1>4, <1>5, <1>8, <1>14, <1>15, <2>3, <3>1, <1>9
  <2>4. CASE b \notin {new, a}
    <3>1. b \in DOMAIN s /\ r[b].length = s[b].length /\ s[b].length \in Nat /\ b \in Nat
      BY <1>4, <1>14, <1>15, <2>4 DEF Headers
    <3>2. CASE c \in DOMAIN s
      BY <2>1, <3>1, <3>2
    <3>3. CASE c = new
      <4>1. b < a
        BY <1>4, <1>5, <1>9, <1>10, <2>4, <3>1, <3>3
      <4>2. b + Header + s[b].length <= a
        BY <1>2, <2>1, <3>1, <4>1
      <4> QED
        BY <1>4, <1>5, <1>9, <3>1, <3>3, <4>2
    <3> QED
      BY <1>14, <3>2, <3>3
  <2> QED
    BY <2>2, <2>3, <2>4
<1>19. Linked(r, end)
  <2>1. /\ s[Main].free = FALSE /\ s[Main].length = 0 /\ Main \in DOMAIN s /\ end \in DOMAIN s
        /\ DOMAIN s \subseteq end..Main /\ end < Main
    BY <1>2, <1>4 DEF Linked, Headers
  <2>2. r[Main].free = FALSE /\ r[Main].length = 0
    BY <1>5, <1>14, <1>15, <2>1
  <2>3. end <= new /\ new <= Main
    BY <1>2, <1>4, <1>5, <1>9, <1>11, <2>1
  <2> QED
    BY <1>4, <1>9, <1>14, <1>16, <1>17, <1>18, <2>1, <2>2, <2>3 DEF Linked
<1>20. CoalescedBut(r, {})
  <2> SUFFICES ASSUME NEW b \in DOMAIN r, r[b].free, r[b].next # Null
               PROVE  ~r[r[b].next].free
    BY DEF CoalescedBut
  <2>1. CASE b = new
    BY <1>15, <2>1
  <2>2. CASE b = up
    BY <1>15, <2>2
  <2>3. CASE b \notin {new, up}
    <3>1. b \in DOMAIN s /\ s[b].free = r[b].free /\ s[b].next = r[b].next
      BY <1>14, <1>15, <2>3
    <3>2. r[b].next \in DOMAIN s /\ ~s[r[b].next].free
      BY <1>2, <3>1 DEF CoalescedBut, Linked, Chained
    <3> QED
      BY <1>14, <1>15, <3>2
  <2> QED
    BY <2>1, <2>2, <2>3
<1>21. \A x \in DOMAIN s \ {a} : r[x].free = s[x].free /\ r[x].length = s[x].length
  BY <1>14, <1>15
<1>22. new \in Nat \ DOMAIN seg /\ new # Main /\ DOMAIN r = DOMAIN seg \cup {new}
  BY <1>1, <1>4, <1>9, <1>11, <1>14
<1>23. ~r[new].free /\ r[new].length = size
  BY <1>15
<1>24. \A x \in DOMAIN seg \ {a} : r[x].free = seg[x].free /\ r[x].length = seg[x].length
  BY <1>1, <1>21
<1>25. Linked(r, heapEnd) /\ r[a].free = seg[a].free
  BY <1>1, <1>15, <1>19
<1>26. SplitWell(a, size, r, new)
  BY <1>20, <1>22, <1>23, <1>24, <1>25 DEF SplitWell
<1> QED
  BY <1>9, <1>12, <1>26

(* A free segment that is taken whole.                                       *)
LEMMA TakeList ==
  ASSUME NEW s, NEW end, Linked(s, end), CoalescedBut(s, {}), NEW a \in DOMAIN s, s[a].free
  PROVE  \E r : /\ r = [s EXCEPT ![a].free = FALSE]
                /\ a # Main
                /\ Linked(r, end) /\ CoalescedBut(r, {})
                /\ DOMAIN r = DOMAIN s
                /\ ~r[a].free /\ r[a].length = s[a].length
                /\ \A x \in DOMAIN s \ {a} : r[x] = s[x]
<1>1. PICK r : r = [s EXCEPT ![a].free = FALSE]
  OBVIOUS
<1>2. /\ DOMAIN r = DOMAIN s /\ r = [x \in DOMAIN r |-> r[x]]
      /\ r[a] = [s[a] EXCEPT !.free = FALSE]
      /\ \A x \in DOMAIN s \ {a} : r[x] = s[x]
  BY <1>1 DEF Linked
<1>3. \A x \in DOMAIN s : s[x] \in Headers
  BY DEF Linked
<1>4. /\ r[a] \in Headers /\ r[a].free = FALSE /\ r[a].length = s[a].length
      /\ r[a].next = s[a].next /\ r[a].last = s[a].last
  BY <1>2, <1>3 DEF Headers
<1>5. a # Main
  BY DEF Linked
<1>6. \A x \in DOMAIN s : /\ r[x] \in Headers /\ r[x].length = s[x].length
                          /\ r[x].next = s[x].next /\ r[x].last = s[x].last
                          /\ (x # a => r[x].free = s[x].free)
  BY <1>2, <1>3, <1>4
<1>7. Chained(r, end) /\ Apart(r)
  <2>1. Chained(r, end)
    BY <1>2, <1>6 DEF Linked, Chained
  <2>2. Apart(r)
    BY <1>2, <1>6 DEF Linked, Apart
  <2> QED
    BY <2>1, <2>2
<1>8. Linked(r, end)
  BY <1>2, <1>5, <1>6, <1>7 DEF Linked
<1>9. CoalescedBut(r, {})
  <2> SUFFICES ASSUME NEW b \in DOMAIN r, r[b].free, r[b].next # Null
               PROVE  ~r[r[b].next].free
    BY DEF CoalescedBut
  <2>1. b # a
    BY <1>4
  <2>2. b \in DOMAIN s /\ s[b].free /\ s[b].next # Null /\ s[b].next = r[b].next
    BY <1>2, <1>6, <2>1
  <2>3. ~s[s[b].next].free /\ s[b].next \in DOMAIN s
    BY <2>2 DEF CoalescedBut, Linked, Chained
  <2>4. CASE s[b].next = a
    BY <1>4, <2>2, <2>4
  <2>5. CASE s[b].next # a
    BY <1>6, <2>2, <2>3, <2>5
  <2> QED
    BY <2>4, <2>5
<1>10. ~r[a].free
  BY <1>4
<1> QED
  BY <1>1, <1>2, <1>4, <1>5, <1>8, <1>9, <1>10

-----------------------------------------------------------------------------
(* The segments K of a list from Main down to u, which is in use, with a free *)
(* segment put below them.                                                   *)
Extended(s, K, u, new, l) ==
  [x \in K \cup {new} |-> CASE x = new -> Segment(TRUE, l, Null, u)
                            [] x = u -> [s[u] EXCEPT !.next = new]
                            [] OTHER -> s[x]]

Extends(s, end, K, u, new, l) ==
  /\ Linked(s, end) /\ CoalescedBut(s, {})
  /\ K \subseteq DOMAIN s /\ Main \in K /\ u \in K /\ ~s[u].free
  /\ (\A x \in K : u <= x) /\ (\A x \in DOMAIN s \ K : x < u)
  /\ new \in Nat /\ l \in Nat /\ new + Header + l <= u

ExtendedWell(s, K, new, l, r) ==
  /\ Linked(r, new) /\ CoalescedBut(r, {})
  /\ DOMAIN r = K \cup {new} /\ r[new].free = TRUE /\ r[new].length = l
  /\ \A x \in K : r[x].free = s[x].free /\ r[x].length = s[x].length

\* expand_heap: the segments that it does not absorb and a free one at the end
\* are a coalesced list again.
LEMMA ExtendedList ==
  ASSUME NEW s, NEW end, NEW K, NEW u, NEW new, NEW l, Extends(s, end, K, u, new, l)
  PROVE  ExtendedWell(s, K, new, l, Extended(s, K, u, new, l))
<1>0. PICK r : r = Extended(s, K, u, new, l)
  OBVIOUS
<1> SUFFICES ASSUME Linked(s, end), CoalescedBut(s, {}),
                    K \subseteq DOMAIN s, Main \in K, u \in K, ~s[u].free,
                    \A x \in K : u <= x, \A x \in DOMAIN s \ K : x < u,
                    new \in Nat, l \in Nat, new + Header + l <= u
             PROVE  /\ Linked(r, new) /\ CoalescedBut(r, {})
                    /\ DOMAIN r = K \cup {new} /\ r[new].free = TRUE /\ r[new].length = l
                    /\ \A x \in K : r[x].free = s[x].free /\ r[x].length = s[x].length
  BY <1>0 DEF Extends, ExtendedWell
<1>1. /\ DOMAIN s \subseteq Nat /\ Main \in Nat /\ Header \in Nat
      /\ Header > 0 /\ Null \notin Nat /\ \A x \in DOMAIN s : s[x] \in Headers
  BY TopIsNat, HeapAssumption DEF Linked
<1>2. u \in Nat /\ new < u /\ \A x \in K : new < x /\ x # new /\ x \in DOMAIN s
  BY <1>1
<1> DEFINE e(x) == CASE x = new -> Segment(TRUE, l, Null, u)
                     [] x = u -> [s[u] EXCEPT !.next = new]
                     [] OTHER -> s[x]
<1>3. r = [x \in K \cup {new} |-> e(x)]
  BY <1>0 DEF Extended
<1>4. e(new) = Segment(TRUE, l, Null, u)
  BY <1>2
<1>5. e(u) = [s[u] EXCEPT !.next = new]
  BY <1>2
<1>6. ASSUME NEW x \in K \ {u} PROVE e(x) = s[x]
  BY <1>2
<1> HIDE DEF e
<1>7. DOMAIN r = K \cup {new} /\ r = [x \in DOMAIN r |-> r[x]]
      /\ \A x \in K \cup {new} : r[x] = e(x)
  BY <1>3
<1>8. /\ r[new].free = TRUE /\ r[new].length = l /\ r[new].next = Null /\ r[new].last = u
      /\ r[new] \in Headers
  <2>1. r[new] = Segment(TRUE, l, Null, u)
    BY <1>4, <1>7
  <2> QED
    BY <1>2, <2>1 DEF Segment, Headers, Links
<1>9. /\ r[u].free = s[u].free /\ r[u].length = s[u].length /\ r[u].next = new
      /\ r[u].last = s[u].last /\ r[u] \in Headers
  <2>1. r[u] = [s[u] EXCEPT !.next = new] /\ s[u] \in Headers
    BY <1>1, <1>5, <1>7
  <2> QED
    BY <2>1 DEF Headers, Links
<1>10. \A x \in K \ {u} : r[x] = s[x]
  BY <1>6, <1>7
<1>11. \A c \in DOMAIN s :
         /\ s[c].next = Null <=> c = end
         /\ s[c].last = Null <=> c = Main
         /\ s[c].next # Null => /\ s[c].next \in DOMAIN s /\ s[c].next < c
                                /\ s[s[c].next].last = c
                                /\ \A d \in DOMAIN s : d < c => d <= s[c].next
         /\ s[c].last # Null => s[c].last \in DOMAIN s /\ s[s[c].last].next = c
  BY DEF Linked, Chained
<1>12. ASSUME NEW x \in K, s[x].last # Null
       PROVE  s[x].last \in K /\ s[x].last # u /\ x < s[x].last
  <2>1. s[x].last \in DOMAIN s /\ s[s[x].last].next = x /\ x \in Nat
    BY <1>1, <1>11, <1>12
  <2>2. x < s[x].last
    BY <1>1, <1>11, <2>1
  <2> QED
    BY <1>1, <1>2, <2>1, <2>2
<1>13. ASSUME NEW x \in K \ {u}
       PROVE  s[x].next # Null /\ s[x].next \in K
  <2>1. x \in Nat /\ u < x /\ x \in DOMAIN s /\ u \in DOMAIN s
    BY <1>1, <1>2
  <2>2. s[x].next # Null
    <3> SUFFICES ASSUME s[x].next = Null PROVE FALSE
      OBVIOUS
    <3>1. x = end /\ u >= end
      BY <1>11, <2>1 DEF Linked
    <3> QED
      BY <1>2, <2>1, <3>1
  <2>3. s[x].next \in DOMAIN s /\ u <= s[x].next
    BY <1>11, <2>1, <2>2
  <2> QED
    BY <1>1, <1>2, <2>2, <2>3
<1>14. Chained(r, new)
  <2> SUFFICES ASSUME NEW b \in DOMAIN r
               PROVE  /\ r[b].next = Null <=> b = new
                      /\ r[b].last = Null <=> b = Main
                      /\ r[b].next # Null => /\ r[b].next \in DOMAIN r /\ r[b].next < b
                                             /\ r[r[b].next].last = b
                                             /\ \A c \in DOMAIN r : c < b => c <= r[b].next
                      /\ r[b].last # Null => r[b].last \in DOMAIN r /\ r[r[b].last].next = b
    BY DEF Chained
  <2>1. CASE b = new
    <3>1. b # Main /\ u # Null
      BY <1>1, <1>2, <2>1
    <3> QED
      BY <1>7, <1>8, <1>9, <2>1, <3>1
  <2>2. CASE b = u
    <3>1. b # new /\ new # Null /\ u \in DOMAIN s
      BY <1>1, <1>2, <2>2
    <3>2. \A c \in DOMAIN r : c < u => c <= new
      BY <1>1, <1>2, <1>7
    <3>3. s[u].last # Null => s[u].last \in K \ {u} /\ r[s[u].last] = s[s[u].last]
      BY <1>10, <1>12
    <3>4. r[b].next = new /\ new \in DOMAIN r /\ r[new].last = b /\ new < b
      BY <1>2, <1>7, <1>8, <1>9, <2>2
    <3>5. r[b].last = s[u].last /\ (s[u].last = Null <=> b = Main)
          /\ (s[u].last # Null => s[s[u].last].next = b)
      BY <1>9, <1>11, <2>2, <3>1
    <3> QED
      BY <1>7, <2>2, <3>1, <3>2, <3>3, <3>4, <3>5
  <2>3. CASE b \in K \ {u}
    <3>1. b # new /\ b \in DOMAIN s /\ r[b] = s[b] /\ b \in Nat
      BY <1>1, <1>2, <1>10, <2>3
    <3>2. s[b].next # Null /\ s[b].next \in K /\ s[b].next < b
      BY <1>11, <1>13, <2>3, <3>1
    <3>3. r[s[b].next].last = s[s[b].next].last
      BY <1>9, <1>10, <3>2
    <3>4. s[b].last # Null => s[b].last \in K \ {u} /\ r[s[b].last] = s[s[b].last]
      BY <1>10, <1>12, <2>3
    <3>5. \A c \in DOMAIN r : c < b => c <= s[b].next
      BY <1>1, <1>2, <1>7, <1>11, <3>1, <3>2
    <3>6. /\ s[b].last = Null <=> b = Main
          /\ s[s[b].next].last = b
          /\ s[b].last # Null => s[s[b].last].next = b
      BY <1>11, <3>1, <3>2
    <3>7. s[b].next \in DOMAIN r /\ (s[b].last # Null => s[b].last \in DOMAIN r)
      BY <1>7, <3>2, <3>4
    <3> QED
      BY <3>1, <3>2, <3>3, <3>4, <3>5, <3>6, <3>7
  <2> QED
    BY <1>7, <2>1, <2>2, <2>3
<1>15. \A x \in K : r[x].free = s[x].free /\ r[x].length = s[x].length
  BY <1>9, <1>10
<1>16. Apart(r)
  <2> SUFFICES ASSUME NEW b \in DOMAIN r, NEW c \in DOMAIN r, b < c
               PROVE  b + Header + r[b].length <= c
    BY DEF Apart
  <2>1. CASE b = new
    <3>1. c \in K /\ c >= u /\ c \in Nat
      BY <1>1, <1>2, <1>7, <2>1
    <3> QED
      BY <1>1, <1>2, <1>8, <2>1, <3>1
  <2>2. CASE b \in K
    <3>1. c \in K /\ r[b].length = s[b].length
      BY <1>1, <1>2, <1>7, <1>15, <2>2
    <3> QED
      BY <1>2, <2>2, <3>1 DEF Linked, Apart
  <2> QED
    BY <1>7, <2>1, <2>2
<1>17. Linked(r, new)
  <2>1. \A x \in DOMAIN r : r[x] \in Headers
    BY <1>1, <1>2, <1>7, <1>8, <1>9, <1>10
  <2>2. new < Main /\ DOMAIN r \subseteq new..Main
    <3>1. \A x \in K : x <= Main
      BY DEF Linked
    <3> QED
      BY <1>1, <1>2, <1>7, <3>1
  <2>3. s[Main].free = FALSE /\ s[Main].length = 0
    BY <1>1, <1>2 DEF Linked, Headers
  <2>4. ~r[Main].free /\ r[Main].length = 0
    BY <1>15, <2>3
  <2> QED
    BY <1>7, <1>14, <1>16, <2>1, <2>2, <2>4 DEF Linked
<1>18. CoalescedBut(r, {})
  <2> SUFFICES ASSUME NEW b \in DOMAIN r, r[b].free, r[b].next # Null
               PROVE  ~r[r[b].next].free
    BY DEF CoalescedBut
  <2>1. b \in K \ {u}
    BY <1>7, <1>8, <1>9
  <2>2. r[b] = s[b] /\ s[b].next \in K /\ b \in DOMAIN s
    BY <1>2, <1>10, <1>13, <2>1
  <2>3. ~s[s[b].next].free
    BY <2>2 DEF CoalescedBut
  <2> QED
    BY <1>15, <2>2, <2>3
<1> QED
  BY <1>7, <1>8, <1>15, <1>17, <1>18

(***************************************************************************)
(* expand_heap: the list goes on to the new end of the heap, in one free   *)
(* segment with the last one if that was free, and the segments in use     *)
(* stay as they are.                                                       *)
(***************************************************************************)
LEMMA ExpandedList ==
  ASSUME Linked(seg, heapEnd), lastSegment = heapEnd, CoalescedBut(seg, {}),
         NEW length \in Nat, length >= Header, length > 0,
         NEW new \in Nat, new = heapEnd - length
  PROVE  \E r :
           /\ r = Expanded(new, length)
           /\ Linked(r, new) /\ CoalescedBut(r, {})
           /\ r[new].free
           /\ r[new].length = (IF seg[heapEnd].free THEN seg[heapEnd].length + length - Header
                                                    ELSE length - Header)
           /\ \A x \in DOMAIN seg : ~seg[x].free =>
                x \in DOMAIN r /\ ~r[x].free /\ r[x].length = seg[x].length
           /\ \A x \in DOMAIN r : ~r[x].free => x \in DOMAIN seg /\ ~seg[x].free
<1>1. PICK s, old : s = seg /\ old = heapEnd
  OBVIOUS
<1>2. Linked(s, old) /\ CoalescedBut(s, {}) /\ new = old - length
  BY <1>1
<1>3. /\ DOMAIN s \subseteq Nat /\ Main \in Nat /\ Main \in DOMAIN s /\ Header \in Nat
      /\ Null \notin Nat /\ old \in Nat /\ old \in DOMAIN s /\ old < Main
      /\ \A x \in DOMAIN s : s[x] \in Headers /\ old <= x
  BY <1>2, TopIsNat, HeapAssumption DEF Linked
<1>4. PICK up : up = s[old].last
  OBVIOUS
<1>5. up \in DOMAIN s /\ s[up].next = old /\ up # Null /\ old < up
  <2>1. up \in DOMAIN s /\ s[up].next = old
    BY <1>2, <1>3, <1>4 DEF Linked, Chained
  <2>2. s[up].next # Null /\ up # Null
    BY <1>3, <2>1
  <2> QED
    BY <1>2, <2>1, <2>2 DEF Linked, Chained
<1>6. PICK r : r = Expanded(new, length)
  OBVIOUS
<1>7. PICK l : l = IF s[old].free THEN s[old].length + length - Header ELSE length - Header
  OBVIOUS
<1>8. l \in Nat /\ s[old].length \in Nat
  BY <1>3, <1>7 DEF Headers
<1>9. CASE s[old].free
  <2>1. r = Extended(s, DOMAIN s \ {old}, up, new, l)
    <3>1. /\ r = [x \in (DOMAIN seg \ {lastSegment}) \cup {new} |->
                    CASE x = new -> Segment(TRUE, seg[lastSegment].length + length - Header,
                                            Null, seg[lastSegment].last)
                      [] x = seg[lastSegment].last
                           -> [seg[seg[lastSegment].last] EXCEPT !.next = new]
                      [] OTHER -> seg[x]]
      BY <1>1, <1>4, <1>5, <1>6, <1>9 DEF Expanded
    <3> QED
      BY <1>1, <1>4, <1>7, <1>9, <3>1 DEF Extended
  <2>2. ~s[up].free
    BY <1>2, <1>3, <1>5, <1>9 DEF CoalescedBut
  <2>3. \A x \in DOMAIN s \ {old} : up <= x
    <3>1. \A x \in DOMAIN s : x < up => x <= old
      BY <1>2, <1>3, <1>5 DEF Linked, Chained
    <3> QED
      BY <1>3, <1>5, <3>1
  <2>4. new + Header + l <= up
    <3>1. old + Header + s[old].length <= up
      BY <1>2, <1>3, <1>5 DEF Linked, Apart
    <3> QED
      BY <1>2, <1>3, <1>5, <1>7, <1>8, <1>9, <3>1
  <2>5. Main \in DOMAIN s \ {old} /\ up \in DOMAIN s \ {old}
        /\ \A x \in DOMAIN s \ (DOMAIN s \ {old}) : x < up
    BY <1>3, <1>5
  <2>6. /\ Linked(r, new) /\ CoalescedBut(r, {})
        /\ DOMAIN r = (DOMAIN s \ {old}) \cup {new} /\ r[new].free = TRUE /\ r[new].length = l
        /\ \A x \in DOMAIN s \ {old} : r[x].free = s[x].free /\ r[x].length = s[x].length
    <3>1. PICK K : K = DOMAIN s \ {old}
      OBVIOUS
    <3>2. /\ K \subseteq DOMAIN s /\ Main \in K /\ up \in K /\ (\A x \in K : up <= x)
          /\ (\A x \in DOMAIN s \ K : x < up) /\ r = Extended(s, K, up, new, l)
      BY <2>1, <2>3, <2>5, <3>1
    <3>3. /\ Linked(r, new) /\ CoalescedBut(r, {})
          /\ DOMAIN r = K \cup {new} /\ r[new].free = TRUE /\ r[new].length = l
          /\ \A x \in K : r[x].free = s[x].free /\ r[x].length = s[x].length
      <4>1. Extends(s, old, K, up, new, l)
        BY <1>2, <1>8, <2>2, <2>4, <3>2 DEF Extends
      <4>2. ExtendedWell(s, K, new, l, r)
        BY <3>2, <4>1, ExtendedList
      <4> QED
        BY <4>2 DEF ExtendedWell
    <3> QED
      BY <3>1, <3>3
  <2>7. ASSUME NEW x \in DOMAIN s, ~s[x].free
        PROVE  x \in DOMAIN r /\ ~r[x].free /\ r[x].length = s[x].length
    BY <1>9, <2>6, <2>7
  <2>8. \A x \in DOMAIN r : ~r[x].free => x \in DOMAIN s /\ ~s[x].free
    BY <2>6
  <2> QED
    BY <1>1, <1>6, <1>7, <2>6, <2>7, <2>8
<1>10. CASE ~s[old].free
  <2>1. r = Extended(s, DOMAIN s, old, new, l)
    <3>1. /\ r = [x \in DOMAIN seg \cup {new} |->
                    CASE x = new -> Segment(TRUE, length - Header, Null, lastSegment)
                      [] x = lastSegment -> [seg[lastSegment] EXCEPT !.next = new]
                      [] OTHER -> seg[x]]
      BY <1>1, <1>6, <1>10 DEF Expanded
    <3> QED
      BY <1>1, <1>7, <1>10, <3>1 DEF Extended
  <2>2. new + Header + l <= old
    BY <1>2, <1>3, <1>7, <1>10
  <2>3. /\ Linked(r, new) /\ CoalescedBut(r, {})
        /\ DOMAIN r = DOMAIN s \cup {new} /\ r[new].free = TRUE /\ r[new].length = l
        /\ \A x \in DOMAIN s : r[x].free = s[x].free /\ r[x].length = s[x].length
    <3>1. PICK K : K = DOMAIN s
      OBVIOUS
    <3>2. /\ K \subseteq DOMAIN s /\ Main \in K /\ old \in K /\ (\A x \in K : old <= x)
          /\ (\A x \in DOMAIN s \ K : x < old) /\ r = Extended(s, K, old, new, l)
      BY <1>3, <2>1, <3>1
    <3>3. /\ Linked(r, new) /\ CoalescedBut(r, {})
          /\ DOMAIN r = K \cup {new} /\ r[new].free = TRUE /\ r[new].length = l
          /\ \A x \in K : r[x].free = s[x].free /\ r[x].length = s[x].length
      <4>1. Extends(s, old, K, old, new, l)
        BY <1>2, <1>8, <1>10, <2>2, <3>2 DEF Extends
      <4>2. ExtendedWell(s, K, new, l, r)
        BY <3>2, <4>1, ExtendedList
      <4> QED
        BY <4>2 DEF ExtendedWell
    <3> QED
      BY <3>1, <3>3
  <2>4. ASSUME NEW x \in DOMAIN s, ~s[x].free
        PROVE  x \in DOMAIN r /\ ~r[x].free /\ r[x].length = s[x].length
    BY <2>3, <2>4
  <2>5. \A x \in DOMAIN r : ~r[x].free => x \in DOMAIN s /\ ~s[x].free
    BY <2>3
  <2> QED
    BY <1>1, <1>6, <1>7, <2>3, <2>4, <2>5
<1> QED
  BY <1>9, <1>10

-----------------------------------------------------------------------------
\* A request that begins leaves the heap alone.
LEMMA CallStep ==
  ASSUME HeapInv, NEW size \in Sizes, NEW old \in DOMAIN live \cup {Null}, Call(size, old)
  PROVE  HeapInv'
<1>1. /\ ~halted /\ call' = [size |-> size, old |-> old, grown |-> 0]
      /\ UNCHANGED <<seg, heapEnd, lastSegment, totalSize, usedSize, freeSize, live, halted>>
  BY DEF Call
<1>2. CallInv'
  BY <1>1 DEF CallInv
<1>3. LiveInv' /\ CountersInv'
  BY <1>1 DEF HeapInv, LiveInv, CountersInv
<1> QED
  BY <1>1, <1>2, <1>3 DEF HeapInv

(* The list when the search of _malloc has succeeded: the block is in use    *)
(* and was not, and the blocks in use before stay as they are.               *)
LEMMA TakenList ==
  ASSUME HeapInv, NEW a \in DOMAIN seg, NEW size \in Nat \ {0}, Fits(a, size)
  PROVE  \E t, block :
           /\ t = IF Splits(a, size) THEN splitSegment(a, size)
                                     ELSE [seg EXCEPT ![a].free = FALSE]
           /\ block = IF Splits(a, size) THEN SplitPoint(a, size) ELSE a
           /\ Linked(t, heapEnd) /\ CoalescedBut(t, {})
           /\ block \in DOMAIN t /\ block # Main /\ block # Null
           /\ ~t[block].free /\ t[block].length = size
           /\ \A x \in DOMAIN seg : ~seg[x].free =>
                /\ x # block /\ x \in DOMAIN t /\ ~t[x].free
                /\ t[x].length = seg[x].length
           /\ \A x \in DOMAIN t : ~t[x].free =>
                x = block \/ (x \in DOMAIN seg /\ ~seg[x].free)
<1>1. CASE Splits(a, size)
  <2>1. PICK r, new :
          /\ r = splitSegment(a, size) /\ new = SplitPoint(a, size)
          /\ new \in Nat \ DOMAIN seg /\ new # Main
          /\ Linked(r, heapEnd) /\ CoalescedBut(r, {})
          /\ DOMAIN r = DOMAIN seg \cup {new}
          /\ ~r[new].free /\ r[new].length = size
          /\ r[a].free = seg[a].free
          /\ \A x \in DOMAIN seg \ {a} : r[x].free = seg[x].free
                                         /\ r[x].length = seg[x].length
    <3>1. Linked(seg, heapEnd) /\ CoalescedBut(seg, {})
      BY DEF HeapInv
    <3>2. PICK r, new : r = splitSegment(a, size) /\ new = SplitPoint(a, size)
      OBVIOUS
    <3>3. SplitWell(a, size, r, new)
      BY <1>1, <3>1, <3>2, SplitList
    <3> QED
      BY <3>2, <3>3 DEF SplitWell
  <2>2. new # Null /\ seg[a].free
    BY <1>1, <2>1, HeapAssumption DEF Splits
  <2>3. ASSUME NEW x \in DOMAIN seg, ~seg[x].free
        PROVE  x # new /\ x \in DOMAIN r /\ ~r[x].free /\ r[x].length = seg[x].length
    BY <2>1, <2>2, <2>3
  <2>4. /\ new \in DOMAIN r
        /\ \A x \in DOMAIN r : ~r[x].free =>
             x = new \/ (x \in DOMAIN seg /\ ~seg[x].free)
    BY <2>1, <2>2
  <2> QED
    BY <1>1, <2>1, <2>2, <2>3, <2>4
<1>2. CASE ~Splits(a, size)
  <2>1. seg[a].free /\ seg[a].length = size
    BY <1>2 DEF Fits, Exact
  <2>2. PICK r : /\ r = [seg EXCEPT ![a].free = FALSE]
                 /\ a # Main
                 /\ Linked(r, heapEnd) /\ CoalescedBut(r, {})
                 /\ DOMAIN r = DOMAIN seg
                 /\ ~r[a].free /\ r[a].length = seg[a].length
                 /\ \A x \in DOMAIN seg \ {a} : r[x] = seg[x]
    BY <2>1, TakeList DEF HeapInv
  <2>3. a # Null
    BY HeapAssumption, TopIsNat DEF HeapInv, Linked
  <2>4. ASSUME NEW x \in DOMAIN seg, ~seg[x].free
        PROVE  x # a /\ x \in DOMAIN r /\ ~r[x].free /\ r[x].length = seg[x].length
    BY <2>1, <2>2, <2>4
  <2>5. /\ r = IF Splits(a, size) THEN splitSegment(a, size)
                                  ELSE [seg EXCEPT ![a].free = FALSE]
        /\ a = IF Splits(a, size) THEN SplitPoint(a, size) ELSE a
    BY <1>2, <2>2
  <2>6. /\ a \in DOMAIN r /\ r[a].length = size
        /\ \A x \in DOMAIN r : ~r[x].free =>
             x = a \/ (x \in DOMAIN seg /\ ~seg[x].free)
    BY <2>1, <2>2
  <2> QED
    BY <2>2, <2>3, <2>4, <2>5, <2>6
<1> QED
  BY <1>1, <1>2

\* _malloc takes the segment that its walk found, and _realloc frees the old one.
LEMMA AllocateStep ==
  ASSUME HeapInv, NEW a \in DOMAIN seg, Allocate(a)
  PROVE  HeapInv'
<1>1. PICK size, old : size = call.size /\ old = call.old
  OBVIOUS
<1>2. /\ ~halted /\ call # Null /\ Fits(a, size) /\ call' = Null
      /\ UNCHANGED <<heapEnd, lastSegment, totalSize, halted>>
  BY <1>1 DEF Allocate, FirstFit
<1>3. size \in Nat \ {0} /\ old \in DOMAIN live \cup {Null}
  BY <1>1, <1>2, HeapAssumption DEF HeapInv, CallInv
<1>4. PICK t, block :
        /\ t = IF Splits(a, size) THEN splitSegment(a, size)
                                  ELSE [seg EXCEPT ![a].free = FALSE]
        /\ block = IF Splits(a, size) THEN SplitPoint(a, size) ELSE a
        /\ Linked(t, heapEnd) /\ CoalescedBut(t, {})
        /\ block \in DOMAIN t /\ block # Main /\ block # Null
        /\ ~t[block].free /\ t[block].length = size
        /\ \A x \in DOMAIN seg : ~seg[x].free =>
             /\ x # block /\ x \in DOMAIN t /\ ~t[x].free
             /\ t[x].length = seg[x].length
  BY <1>2, <1>3, TakenList
<1> DEFINE given == IF old = Null THEN 0 ELSE t[old].length + Header
<1>5. /\ seg' = IF old = Null THEN t ELSE Released(t, old)
      /\ usedSize' = usedSize + (size + Header) - given
      /\ freeSize' = freeSize - (size + Header) + given
      /\ live' = [x \in (DOMAIN live \cup {block}) \ {old} |->
                    IF x = block THEN size ELSE live[x]]
  BY <1>1, <1>4 DEF Allocate
<1>6. /\ DOMAIN live \subseteq DOMAIN seg \ {Main}
      /\ \A x \in DOMAIN live : ~seg[x].free /\ live[x] \in Nat /\ seg[x].length >= live[x]
  BY DEF HeapInv, LiveInv
<1>7. \A x \in DOMAIN live : /\ x # block /\ x # Main /\ x \in DOMAIN t /\ ~t[x].free
                             /\ live[x] \in Nat /\ t[x].length >= live[x]
  BY <1>4, <1>6
<1>8. PICK r : r = seg'
  OBVIOUS
<1>9. /\ Linked(r, heapEnd) /\ CoalescedBut(r, {})
      /\ \A x \in DOMAIN t \ {old} : ~t[x].free =>
           x \in DOMAIN r /\ ~r[x].free /\ r[x].length = t[x].length
  <2>1. CASE old = Null
    BY <1>4, <1>5, <1>8, <2>1
  <2>2. CASE old # Null
    <3>1. old \in DOMAIN t /\ old # Main /\ ~t[old].free
      BY <1>3, <1>7, <2>2
    <3>2. Linked(t, heapEnd) /\ CoalescedBut(t, {})
      BY <1>4
    <3>3. ReleasedWell(t, heapEnd, old, Released(t, old))
      BY <3>1, <3>2, ReleasedList
    <3>4. r = Released(t, old)
      BY <1>5, <1>8, <2>2
    <3>5. ReleasedWell(t, heapEnd, old, r)
      BY <3>3, <3>4
    <3> QED
      BY <3>5 DEF ReleasedWell
  <2> QED
    BY <2>1, <2>2
<1>10. LiveInv'
  <2>1. DOMAIN live' = (DOMAIN live \cup {block}) \ {old}
        /\ \A x \in DOMAIN live' : live'[x] = IF x = block THEN size ELSE live[x]
    BY <1>5
  <2>2. ASSUME NEW x \in DOMAIN live'
        PROVE  /\ x \in DOMAIN r \ {Main} /\ ~r[x].free
               /\ live'[x] \in Nat /\ r[x].length >= live'[x]
    <3>1. x \in DOMAIN t \ {old} /\ x # Main /\ ~t[x].free
      BY <1>4, <1>7, <2>1
    <3>2. x \in DOMAIN r /\ ~r[x].free /\ r[x].length = t[x].length
      BY <1>9, <3>1
    <3>3. live'[x] \in Nat /\ t[x].length >= live'[x]
      BY <1>3, <1>4, <1>7, <2>1
    <3> QED
      BY <3>1, <3>2, <3>3
  <2> QED
    BY <1>8, <2>2 DEF LiveInv
<1>11. CountersInv'
  <2>1. given \in Int
    <3>1. old # Null => old \in DOMAIN t
      BY <1>3, <1>7
    <3>2. old # Null => t[old].length \in Nat
      BY <1>4, <3>1 DEF Linked, Headers
    <3> QED
      BY <3>2, HeapAssumption
  <2> HIDE DEF given
  <2> QED
    BY <1>2, <1>3, <1>5, <2>1, HeapAssumption DEF HeapInv, CountersInv
<1>12. CallInv'
  BY <1>2 DEF CallInv
<1> QED
  BY <1>2, <1>8, <1>9, <1>10, <1>11, <1>12 DEF HeapInv

\* _free merges the block with its free neighbours, and keeps the others.
LEMMA FreeStep ==
  ASSUME HeapInv, NEW a \in DOMAIN live, Free(a)
  PROVE  HeapInv'
<1>1. /\ call = Null /\ call' = Null
      /\ seg' = Released(seg, a)
      /\ freeSize' = freeSize + seg[a].length + Header
      /\ usedSize' = usedSize - (seg[a].length + Header)
      /\ live' = [x \in DOMAIN live \ {a} |-> live[x]]
      /\ UNCHANGED <<heapEnd, lastSegment, totalSize, halted>>
  BY DEF Free, Without
<1>2. /\ DOMAIN live \subseteq DOMAIN seg \ {Main}
      /\ \A x \in DOMAIN live : ~seg[x].free /\ live[x] \in Nat /\ seg[x].length >= live[x]
  BY DEF HeapInv, LiveInv
<1>3. a \in DOMAIN seg /\ a # Main /\ ~seg[a].free
  BY <1>2
<1>4. ReleasedWell(seg, heapEnd, a, Released(seg, a))
  BY <1>3, ReleasedList DEF HeapInv
<1>5. PICK r : r = seg' /\ ReleasedWell(seg, heapEnd, a, r)
  BY <1>1, <1>4
<1>6. LiveInv'
  <2>1. DOMAIN live' = DOMAIN live \ {a} /\ \A x \in DOMAIN live' : live'[x] = live[x]
    BY <1>1
  <2>2. ASSUME NEW x \in DOMAIN live'
        PROVE  /\ x \in DOMAIN r \ {Main} /\ ~r[x].free
               /\ live'[x] \in Nat /\ r[x].length >= live'[x]
    <3>1. x \in DOMAIN seg \ {a} /\ x # Main /\ ~seg[x].free
      BY <1>2, <2>1
    <3>2. x \in DOMAIN r /\ ~r[x].free /\ r[x].length = seg[x].length
      BY <1>5, <3>1 DEF ReleasedWell
    <3> QED
      BY <1>2, <2>1, <3>1, <3>2
  <2> QED
    BY <1>5, <2>2 DEF LiveInv
<1>7. CountersInv'
  <2>1. seg[a].length \in Nat
    BY <1>3 DEF HeapInv, Linked, Headers
  <2> QED
    BY <1>1, <2>1, HeapAssumption DEF HeapInv, CountersInv
<1>8. CallInv'
  BY <1>1 DEF CallInv
<1> QED
  BY <1>1, <1>5, <1>6, <1>7, <1>8 DEF HeapInv, ReleasedWell

(***************************************************************************)
(* expand_heap, inside _malloc.  The first expansion leaves a free segment *)
(* that is long enough; only a size that misses it by less than a header   *)
(* needs a second one, which absorbs it; then the search cannot fail.      *)
(***************************************************************************)
LEMMA ExpandStep ==
  ASSUME HeapInv, Expand
  PROVE  HeapInv'
<1>1. PICK size, grown : size = call.size /\ grown = call.grown
  OBVIOUS
<1>2. PICK length : length = Pages(size) * PageSize
  OBVIOUS
<1>3. /\ ~halted /\ call # Null /\ \A a \in DOMAIN seg : ~Fits(a, size)
      /\ call' = [call EXCEPT !.grown = @ + 1]
      /\ UNCHANGED <<usedSize, live>>
  BY <1>1 DEF Expand
<1>4. /\ size \in Sizes /\ call.old \in DOMAIN live \cup {Null} /\ grown \in 0..2
      /\ call = [size |-> size, old |-> call.old, grown |-> grown]
      /\ grown >= 1 => seg[heapEnd].free /\ seg[heapEnd].length >= size
      /\ grown = 2 => seg[heapEnd].length > size + Header
  BY <1>1, <1>3 DEF HeapInv, CallInv
<1>5. call' = [size |-> size, old |-> call.old, grown |-> grown + 1]
  BY <1>1, <1>3, <1>4
<1>6. /\ call'.size = size /\ call'.old = call.old /\ call'.grown = grown + 1
      /\ call' = [size |-> call'.size, old |-> call'.old, grown |-> call'.grown]
  BY <1>5
<1>7. /\ size \in Nat \ {0} /\ length \in Nat /\ length >= size + Header
      /\ length > 2 * Header /\ Header \in Nat \ {0}
  BY <1>2, <1>4, PagesSuffice, HeapAssumption
<1>8. heapEnd \in DOMAIN seg /\ heapEnd \in Nat /\ seg[heapEnd].length \in Nat
  BY DEF HeapInv, Linked, Headers
<1>9. grown \in 0..1
  <2> SUFFICES ASSUME grown = 2 PROVE FALSE
    BY <1>4
  <2>1. Splits(heapEnd, size)
    BY <1>4 DEF Splits
  <2> QED
    BY <1>3, <1>8, <2>1 DEF Fits
<1>10. grown = 1 => seg[heapEnd].length > size
  <2> SUFFICES ASSUME grown = 1 PROVE seg[heapEnd].length > size
    OBVIOUS
  <2>1. seg[heapEnd].free /\ seg[heapEnd].length >= size
    BY <1>4
  <2>2. ~Exact(heapEnd, size)
    BY <1>3, <1>8 DEF Fits
  <2>3. seg[heapEnd].length # size
    BY <2>1, <2>2 DEF Exact
  <2> QED
    BY <1>7, <1>8, <2>1, <2>3
<1>11. CASE heapEnd - length >= 0
  <2>1. PICK new \in Nat : new = heapEnd - length
    BY <1>7, <1>8, <1>11
  <2>2. /\ heapEnd' = new /\ seg' = Expanded(new, length) /\ lastSegment' = new
        /\ totalSize' = totalSize + length + Header
        /\ freeSize' = freeSize + length + Header /\ halted' = halted
    BY <1>1, <1>2, <1>7, <1>8, <1>11, <2>1 DEF Expand
  <2>3. PICK r :
          /\ r = Expanded(new, length)
          /\ Linked(r, new) /\ CoalescedBut(r, {})
          /\ r[new].free
          /\ r[new].length = (IF seg[heapEnd].free THEN seg[heapEnd].length + length - Header
                                                   ELSE length - Header)
          /\ \A x \in DOMAIN seg : ~seg[x].free =>
               x \in DOMAIN r /\ ~r[x].free /\ r[x].length = seg[x].length
    <3>1. Linked(seg, heapEnd) /\ CoalescedBut(seg, {}) /\ lastSegment = heapEnd
      BY DEF HeapInv
    <3>2. length >= Header /\ length > 0
      BY <1>7
    <3> QED
      BY <1>7, <2>1, <3>1, <3>2, ExpandedList
  <2>4. seg' = r
    BY <2>2, <2>3
  <2>5. r[new].length >= size
    BY <1>7, <1>8, <2>3
  <2>6. grown = 1 => r[new].length > size + Header
    <3> SUFFICES ASSUME grown = 1 PROVE r[new].length > size + Header
      OBVIOUS
    <3>1. r[new].length = seg[heapEnd].length + length - Header
      BY <1>4, <2>3
    <3> QED
      BY <1>7, <1>8, <1>10, <3>1
  <2>7. CallInv'
    <3>1. seg'[lastSegment'].free /\ seg'[lastSegment'].length = r[new].length
      BY <2>2, <2>3, <2>4
    <3>2. call'.grown \in 0..2 /\ (call'.grown = 2 => grown = 1)
      BY <1>6, <1>9
    <3>3. seg'[lastSegment'].length >= call'.size
      BY <1>6, <2>5, <3>1
    <3>4. call'.grown = 2 => seg'[lastSegment'].length > call'.size + Header
      BY <1>6, <2>6, <3>1, <3>2
    <3>5. call'.size \in Sizes /\ call'.old \in DOMAIN live' \cup {Null}
      BY <1>3, <1>4, <1>6
    <3> QED
      BY <1>6, <3>1, <3>2, <3>3, <3>4, <3>5 DEF CallInv
  <2>8. LiveInv'
    <3>1. /\ DOMAIN live \subseteq DOMAIN seg \ {Main}
          /\ \A x \in DOMAIN live : ~seg[x].free /\ live[x] \in Nat /\ seg[x].length >= live[x]
      BY DEF HeapInv, LiveInv
    <3>2. \A x \in DOMAIN live : /\ x \in DOMAIN r \ {Main} /\ ~r[x].free
                                 /\ live[x] \in Nat /\ r[x].length >= live[x]
      BY <2>3, <3>1
    <3> QED
      BY <1>3, <2>4, <3>2 DEF LiveInv
  <2>9. CountersInv'
    BY <1>3, <1>7, <2>2 DEF HeapInv, CountersInv
  <2> QED
    BY <2>2, <2>3, <2>4, <2>7, <2>8, <2>9 DEF HeapInv
<1>12. CASE ~(heapEnd - length >= 0)
  <2>1. halted' = TRUE /\ UNCHANGED <<seg, heapEnd, lastSegment, totalSize, freeSize>>
    BY <1>1, <1>2, <1>7, <1>8, <1>12 DEF Expand
  <2>2. CallInv'
    <3>1. call'.grown \in 0..2 /\ call'.size \in Sizes /\ call'.old \in DOMAIN live' \cup {Null}
      BY <1>3, <1>4, <1>6, <1>9
    <3> QED
      BY <1>6, <2>1, <3>1 DEF CallInv
  <2>3. LiveInv' /\ CountersInv'
    BY <1>3, <2>1 DEF HeapInv, LiveInv, CountersInv
  <2> QED
    BY <2>1, <2>2, <2>3 DEF HeapInv
<1> QED
  BY <1>11, <1>12

-----------------------------------------------------------------------------
(* The invariant holds after _initHeap and every step keeps it.              *)
LEMMA HeapInvHolds == Spec => []HeapInv
<1>1. Init => HeapInv
  <2> SUFFICES ASSUME Init PROVE HeapInv
    OBVIOUS
  <2>1. PICK end : end = HeapTop - PageSize
    OBVIOUS
  <2>2. /\ end \in Nat /\ Main \in Nat /\ end < Main /\ Null \notin Nat
        /\ PageSize - 2 * Header \in Nat /\ Header \in Nat
        /\ end + Header + (PageSize - 2 * Header) = Main
    BY <2>1, TopIsNat, HeapAssumption
  <2>3. PICK s : s = seg
    OBVIOUS
  <2>4. /\ DOMAIN s = {Main, end} /\ s = [a \in DOMAIN s |-> s[a]]
        /\ s[Main] = Segment(FALSE, 0, end, Null)
        /\ s[end] = Segment(TRUE, PageSize - 2 * Header, Null, Main)
    <3>1. end # Main
      BY <2>2
    <3> DEFINE e(a) == IF a = Main THEN Segment(FALSE, 0, end, Null)
                       ELSE Segment(TRUE, PageSize - 2 * Header, Null, Main)
    <3>2. s = [a \in {Main, end} |-> e(a)]
      BY <2>1, <2>3 DEF Init
    <3>3. e(Main) = Segment(FALSE, 0, end, Null)
          /\ e(end) = Segment(TRUE, PageSize - 2 * Header, Null, Main)
      BY <3>1
    <3> HIDE DEF e
    <3>4. DOMAIN s = {Main, end} /\ s = [a \in DOMAIN s |-> s[a]]
          /\ s[Main] = e(Main) /\ s[end] = e(end)
      BY <3>2
    <3> QED
      BY <3>3, <3>4
  <2>5. /\ s[Main].free = FALSE /\ s[Main].length = 0 /\ s[Main].next = end
        /\ s[Main].last = Null /\ s[end].free = TRUE
        /\ s[end].length = PageSize - 2 * Header /\ s[end].next = Null /\ s[end].last = Main
    BY <2>4 DEF Segment
  <2>6. \A a \in DOMAIN s : s[a] \in Headers
    <3>1. s[Main] \in Headers
      BY <2>2, <2>4 DEF Segment, Headers, Links
    <3>2. s[end] \in Headers
      BY <2>2, <2>4 DEF Segment, Headers, Links
    <3> QED
      BY <2>4, <3>1, <3>2
  <2>7. Chained(s, end)
    <3>1. end # Main /\ end # Null /\ Main # Null
      BY <2>2
    <3>2. \A b \in DOMAIN s : b < Main => b <= end
      BY <2>2, <2>4
    <3> QED
      BY <2>2, <2>4, <2>5, <3>1, <3>2 DEF Chained
  <2>8. Apart(s)
    <3> SUFFICES ASSUME NEW a \in DOMAIN s, NEW b \in DOMAIN s, a < b
                 PROVE  a + Header + s[a].length <= b
      BY DEF Apart
    <3>1. a = end /\ b = Main
      BY <2>2, <2>4
    <3> QED
      BY <2>2, <2>5, <3>1
  <2>9. Linked(s, end)
    <3>1. s = [a \in DOMAIN s |-> s[a]] /\ end \in DOMAIN s /\ Main \in DOMAIN s
      BY <2>4
    <3>2. DOMAIN s \subseteq end..Main
      BY <2>2, <2>4
    <3>3. ~s[Main].free /\ s[Main].length = 0
      BY <2>5
    <3> QED
      BY <2>2, <2>6, <2>7, <2>8, <3>1, <3>2, <3>3 DEF Linked
  <2>10. CoalescedBut(s, {})
    BY <2>2, <2>4, <2>5 DEF CoalescedBut
  <2>11. LiveInv /\ CallInv
    BY DEF Init, LiveInv, CallInv
  <2>12. CountersInv
    BY HeapAssumption DEF Init, CountersInv
  <2>13. heapEnd = end /\ lastSegment = end
    BY <2>1 DEF Init
  <2> QED
    BY <2>3, <2>9, <2>10, <2>11, <2>12, <2>13 DEF HeapInv
<1>2. HeapInv /\ [Next]_vars => HeapInv'
  <2> SUFFICES ASSUME HeapInv, [Next]_vars PROVE HeapInv'
    OBVIOUS
  <2>1. CASE UNCHANGED vars
    BY <2>1 DEF vars, HeapInv, LiveInv, CallInv, CountersInv
  <2> QED
    BY <2>1, CallStep, AllocateStep, ExpandStep, FreeStep DEF Next
<1> QED
  BY <1>1, <1>2, PTL DEF Spec

(***************************************************************************)
(* _malloc, _realloc and _free: a block a caller holds is a used segment   *)
(* as long as it asked for and shares no byte with a header, another block *)
(* or unmapped memory, after any sequence of splits, merges and            *)
(* expansions, whatever the sizes of headers, pages and requests.          *)
(***************************************************************************)
THEOREM BlocksStaySafe == Spec => []BlocksAreSafe
<1>1. HeapInv => BlocksAreSafe
  <2> SUFFICES ASSUME HeapInv PROVE BlocksAreSafe
    OBVIOUS
  <2>1. /\ Main \in Nat /\ HeapTop \in Nat /\ Main + Header = HeapTop /\ Header \in Nat
        /\ heapEnd \in Nat /\ heapEnd < Main /\ heapEnd \in DOMAIN seg
        /\ DOMAIN seg \subseteq heapEnd..Main /\ \A a \in DOMAIN seg : seg[a] \in Headers
        /\ Main \in DOMAIN seg /\ seg[Main].length = 0
    BY TopIsNat, HeapAssumption DEF HeapInv, Linked
  <2>2. \A a, b \in DOMAIN seg : a < b => a + Header + seg[a].length <= b
    BY DEF HeapInv, Linked, Apart
  <2>3. ASSUME NEW a \in DOMAIN seg
        PROVE  a \in Nat /\ seg[a].length \in Nat /\ a + Header + seg[a].length <= HeapTop
    <3>1. a \in Nat /\ seg[a].length \in Nat /\ a <= Main
      BY <2>1 DEF Headers
    <3>2. a # Main => a + Header + seg[a].length <= Main
      BY <2>1, <2>2, <3>1
    <3> QED
      BY <2>1, <3>1, <3>2
  <2>4. TypeOK
    <3>1. DOMAIN seg \subseteq 0..HeapTop
      BY <2>1
    <3>2. ASSUME NEW a \in DOMAIN seg
          PROVE  /\ seg[a].free \in BOOLEAN /\ seg[a].length \in 0..HeapTop
                 /\ seg[a].next \in DOMAIN seg \cup {Null}
                 /\ seg[a].last \in DOMAIN seg \cup {Null}
      <4>1. seg[a].free \in BOOLEAN
        BY <2>1 DEF Headers
      <4>2. seg[a].length \in 0..HeapTop
        BY <2>1, <2>3
      <4>3. seg[a].next \in DOMAIN seg \cup {Null} /\ seg[a].last \in DOMAIN seg \cup {Null}
        BY DEF HeapInv, Linked, Chained
      <4> QED
        BY <4>1, <4>2, <4>3
    <3>3. heapEnd \in 0..HeapTop /\ lastSegment \in DOMAIN seg
      BY <2>1 DEF HeapInv
    <3>4. call = Null \/ call.size \in Sizes
      BY DEF HeapInv, CallInv
    <3> QED
      BY <3>1, <3>2, <3>3, <3>4 DEF TypeOK
  <2>5. SegmentsAreDisjoint
    <3>1. ASSUME NEW a \in DOMAIN seg PROVE Extent(seg, a) \subseteq heapEnd..(HeapTop - 1)
      BY <2>1, <2>3 DEF Extent
    <3>2. ASSUME NEW a \in DOMAIN seg, NEW b \in DOMAIN seg, a < b
          PROVE  Extent(seg, a) \cap Extent(seg, b) = {}
      BY <2>1, <2>2, <2>3, <3>2 DEF Extent
    <3>3. ASSUME NEW a \in DOMAIN seg, NEW b \in DOMAIN seg, a # b
          PROVE  Extent(seg, a) \cap Extent(seg, b) = {}
      <4>1. a < b \/ b < a
        BY <2>3, <3>3
      <4>2. Extent(seg, b) \cap Extent(seg, a) = Extent(seg, a) \cap Extent(seg, b)
        OBVIOUS
      <4> QED
        BY <3>2, <4>1, <4>2
    <3> QED
      BY <3>1, <3>3 DEF SegmentsAreDisjoint
  <2>6. BlocksAreBacked
    BY DEF HeapInv, LiveInv, BlocksAreBacked
  <2> QED
    BY <2>4, <2>5, <2>6 DEF BlocksAreSafe
<1> QED
  BY <1>1, HeapInvHolds, PTL

(***************************************************************************)
(* splitSegment, the merges of _free and expand_heap keep next and last    *)
(* inverse and in address order, down to lastSegment.                      *)
(***************************************************************************)
THEOREM ListStaysLinked == Spec => []ListIsLinked
<1>1. HeapInv => ListIsLinked
  BY DEF HeapInv, Linked, Chained, ListIsLinked
<1> QED
  BY <1>1, HeapInvHolds, PTL

(***************************************************************************)
(* _malloc calls itself after expand_heap without a bound: two expansions  *)
(* are always enough, for every size and every state of the list.          *)
(***************************************************************************)
THEOREM TwoExpansionsSuffice == Spec => []ExpandsAtMostTwice
<1>1. HeapInv => ExpandsAtMostTwice
  BY DEF HeapInv, CallInv, ExpandsAtMostTwice
<1> QED
  BY <1>1, HeapInvHolds, PTL

-----------------------------------------------------------------------------
(***************************************************************************)
(* The sum over the used segments.  It is a fold, which takes the elements *)
(* of a set one by one in the order of CHOOSE; what it comes to is shown   *)
(* by the smallest set for which it would be different.                    *)
(***************************************************************************)
\* A set of naturals that is not empty has a least element.
LEMMA LeastExists ==
  ASSUME NEW S, S \subseteq Nat, S # {}
  PROVE  \E m \in S : \A k \in S : m <= k
<1>1. PICK m \in S : \A y \in S : ~(<<y, m>> \in OpToRel(<, Nat))
  BY NatLessThanWellFounded, WFMin
<1>2. \A y \in S : ~(y < m)
  BY <1>1 DEF OpToRel
<1> QED
  BY <1>2

Chosen(T) == CHOOSE x \in T : TRUE

SizeOf(s, a) == s[a].length + Header

SumOf(s, S) == MapThenSumSet(LAMBDA a : s[a].length + Header, S)

\* g gives every subset of S the sum over its segments in s.
Adds(g, s, T) == g[T] = IF T = {} THEN 0 ELSE SizeOf(s, Chosen(T)) + g[T \ {Chosen(T)}]

AddsUp(g, s, S) == \A T \in SUBSET S : Adds(g, s, T)

Measured(s, S) == IsFiniteSet(S) /\ \A a \in S : s[a].length \in Int

\* The element that is taken first, and the sets that are left.
LEMMA TakeOne ==
  ASSUME NEW T, IsFiniteSet(T), NEW x \in T
  PROVE  /\ Chosen(T) \in T /\ Cardinality(T) \in Nat \ {0}
         /\ IsFiniteSet(T \ {x}) /\ Cardinality(T \ {x}) = Cardinality(T) - 1
<1>1. Chosen(T) \in T
  BY DEF Chosen
<1>2. Cardinality(T) \in Nat /\ Cardinality(T) # 0
  BY FS_CardinalityType, FS_EmptySet
<1> QED
  BY <1>1, <1>2, FS_RemoveElement

\* There is such a function, also when it is only asked to be right up to some
\* number of elements.
LEMMA SumExists ==
  ASSUME NEW s, NEW S, Measured(s, S)
  PROVE  \E g : g \in [SUBSET S -> Int] /\ AddsUp(g, s, S)
<1> DEFINE To(g, k) == g \in [SUBSET S -> Int] /\ \A T \in SUBSET S : Cardinality(T) <= k => Adds(g, s, T)
           Missing == {k \in Nat : ~\E g : To(g, k)}
<1>0. /\ \A T \in SUBSET S : IsFiniteSet(T) /\ Cardinality(T) \in Nat
      /\ \A a \in S : SizeOf(s, a) \in Int
  <2>1. \A T \in SUBSET S : IsFiniteSet(T) /\ Cardinality(T) \in Nat
    BY FS_Subset, FS_CardinalityType DEF Measured
  <2> QED
    BY <2>1, HeapAssumption DEF Measured, SizeOf
<1>1. ASSUME Missing # {} PROVE FALSE
  <2>1. PICK k \in Missing : \A l \in Missing : k <= l
    <3>1. Missing \subseteq Nat
      OBVIOUS
    <3> QED
      BY <1>1, <3>1, LeastExists
  <2>2. CASE k = 0
    <3>1. PICK g : g = [T \in SUBSET S |-> 0]
      OBVIOUS
    <3>2. \A T \in SUBSET S : Cardinality(T) <= 0 => T = {}
      BY <1>0, FS_EmptySet
    <3>3. To(g, 0)
      BY <3>1, <3>2 DEF Adds
    <3> QED
      BY <2>1, <2>2, <3>3
  <2>3. CASE k > 0
    <3>1. PICK g : To(g, k - 1)
      <4>1. k - 1 \in Nat /\ ~(k <= k - 1)
        BY <2>1, <2>3
      <4> QED
        BY <2>1, <4>1
    <3>2. PICK f : f = [T \in SUBSET S |-> IF T = {} THEN 0
                           ELSE SizeOf(s, Chosen(T)) + g[T \ {Chosen(T)}]]
      OBVIOUS
    <3>3. \A T \in SUBSET S : f[T] \in Int
      <4> TAKE T \in SUBSET S
      <4>1. CASE T = {}
        BY <3>2, <4>1
      <4>2. CASE T # {}
        <5>1. Chosen(T) \in S /\ T \ {Chosen(T)} \in SUBSET S
          BY <4>2 DEF Chosen
        <5>2. SizeOf(s, Chosen(T)) \in Int /\ g[T \ {Chosen(T)}] \in Int
          BY <1>0, <3>1, <5>1
        <5> QED
          BY <3>2, <4>2, <5>2
      <4> QED
        BY <4>1, <4>2
    <3>4. f \in [SUBSET S -> Int]
      BY <3>2, <3>3
    <3>5. \A T \in SUBSET S : Cardinality(T) <= k - 1 => f[T] = g[T]
      BY <3>1, <3>2 DEF Adds
    <3>6. ASSUME NEW T \in SUBSET S, Cardinality(T) <= k PROVE Adds(f, s, T)
      <4>1. CASE T = {}
        BY <3>2, <4>1 DEF Adds
      <4>2. CASE T # {}
        <5>1. PICK c : c = Chosen(T)
          OBVIOUS
        <5>2. c \in T /\ Cardinality(T \ {c}) = Cardinality(T) - 1 /\ Cardinality(T) \in Nat
          BY <1>0, <4>2, <5>1, TakeOne
        <5>3. f[T \ {c}] = g[T \ {c}]
          <6>1. T \ {c} \in SUBSET S /\ Cardinality(T \ {c}) <= k - 1
            BY <2>1, <3>6, <5>2
          <6> QED
            BY <3>5, <6>1
        <5> QED
          BY <3>2, <4>2, <5>1, <5>3 DEF Adds
      <4> QED
        BY <4>1, <4>2
    <3>7. To(f, k)
      BY <3>4, <3>6
    <3> QED
      BY <2>1, <3>7
  <2> QED
    BY <2>1, <2>2, <2>3
<1>2. PICK g : To(g, Cardinality(S))
  BY <1>0, <1>1
<1>3. \A T \in SUBSET S : Cardinality(T) <= Cardinality(S)
  BY FS_Subset DEF Measured
<1> QED
  BY <1>2, <1>3 DEF AddsUp

\* The order does not matter.
TakesAny(g, s, U) == \A y \in U : g[U] = SizeOf(s, y) + g[U \ {y}]

LEMMA SumAnyOrder ==
  ASSUME NEW s, NEW S, Measured(s, S), NEW g \in [SUBSET S -> Int], AddsUp(g, s, S),
         NEW U \in SUBSET S
  PROVE  TakesAny(g, s, U)
<1> SUFFICES ASSUME NEW y \in U PROVE g[U] = SizeOf(s, y) + g[U \ {y}]
  BY DEF TakesAny
<1> DEFINE Off(T, x) == g[T] # SizeOf(s, x) + g[T \ {x}]
           Wrong == {k \in Nat : \E T \in SUBSET S : Cardinality(T) = k /\ \E x \in T : Off(T, x)}
<1>0. /\ \A T \in SUBSET S : IsFiniteSet(T) /\ Cardinality(T) \in Nat /\ g[T] \in Int
      /\ \A a \in S : SizeOf(s, a) \in Int
  <2>1. \A T \in SUBSET S : IsFiniteSet(T) /\ Cardinality(T) \in Nat
    BY FS_Subset, FS_CardinalityType DEF Measured
  <2> QED
    BY <2>1, HeapAssumption DEF Measured, SizeOf
<1>1. SUFFICES ASSUME Off(U, y) PROVE FALSE
  OBVIOUS
<1>2. Wrong # {} /\ Wrong \subseteq Nat
  BY <1>0, <1>1
<1>3. PICK k \in Wrong : \A l \in Wrong : k <= l
  BY <1>2, LeastExists
<1>4a. PICK T \in SUBSET S : Cardinality(T) = k /\ \E x \in T : Off(T, x)
  BY <1>3
<1>4. PICK x \in T : T \in SUBSET S /\ Cardinality(T) = k /\ Off(T, x)
  BY <1>4a
<1>5. PICK c : c = Chosen(T)
  OBVIOUS
<1>6. /\ c \in T /\ k \in Nat /\ k - 1 \in Nat /\ ~(k <= k - 1)
      /\ Cardinality(T \ {c}) = k - 1 /\ Cardinality(T \ {x}) = k - 1
  BY <1>0, <1>4, <1>5, TakeOne
<1>7. g[T] = SizeOf(s, c) + g[T \ {c}]
  BY <1>5, <1>6 DEF AddsUp, Adds
<1>8. x # c
  BY <1>4, <1>7
<1>9. k - 1 \notin Wrong
  BY <1>3, <1>6
<1>10. ~Off(T \ {c}, x) /\ ~Off(T \ {x}, c)
  <2>1. T \ {c} \in SUBSET S /\ x \in T \ {c} /\ T \ {x} \in SUBSET S /\ c \in T \ {x}
    BY <1>4, <1>6, <1>8
  <2> QED
    BY <1>6, <1>9, <2>1
<1>11. (T \ {c}) \ {x} = (T \ {x}) \ {c}
  OBVIOUS
<1>12. PICK R : R = (T \ {c}) \ {x} /\ R \in SUBSET S
  <2>1. (T \ {c}) \ {x} \in SUBSET S
    BY <1>4
  <2> QED
    BY <2>1
<1>13. g[T \ {c}] = SizeOf(s, x) + g[R] /\ g[T \ {x}] = SizeOf(s, c) + g[R]
  BY <1>10, <1>11, <1>12
<1>14. g[R] \in Int /\ SizeOf(s, x) \in Int /\ SizeOf(s, c) \in Int
  BY <1>0, <1>4, <1>6, <1>12
<1>15. g[T] = SizeOf(s, x) + g[T \ {x}]
  BY <1>7, <1>13, <1>14
<1> QED
  BY <1>4, <1>15

\* Nor does what lies outside the set.
LEMMA SumsAgree ==
  ASSUME NEW s, NEW r, NEW S, NEW R, NEW g, NEW h, AddsUp(g, s, S), AddsUp(h, r, R),
         NEW U, U \subseteq S, U \subseteq R, IsFiniteSet(U),
         \A a \in U : s[a].length = r[a].length
  PROVE  g[U] = h[U]
<1> DEFINE Wrong == {k \in Nat : \E T \in SUBSET U : Cardinality(T) = k /\ g[T] # h[T]}
<1>0. \A T \in SUBSET U : IsFiniteSet(T) /\ Cardinality(T) \in Nat
  BY FS_Subset, FS_CardinalityType
<1>1. SUFFICES ASSUME g[U] # h[U] PROVE FALSE
  OBVIOUS
<1>2. Wrong # {} /\ Wrong \subseteq Nat
  BY <1>0, <1>1
<1>3. PICK k \in Wrong : \A l \in Wrong : k <= l
  BY <1>2, LeastExists
<1>4. PICK T \in SUBSET U : Cardinality(T) = k /\ g[T] # h[T]
  BY <1>3
<1>5. Adds(g, s, T) /\ Adds(h, r, T)
  BY <1>4 DEF AddsUp
<1>6. T # {}
  BY <1>4, <1>5 DEF Adds
<1>7. PICK c : c = Chosen(T)
  OBVIOUS
<1>8. c \in T /\ k \in Nat /\ k - 1 \in Nat /\ ~(k <= k - 1) /\ Cardinality(T \ {c}) = k - 1
  <2>1. c \in T /\ IsFiniteSet(T)
    BY <1>0, <1>4, <1>6, <1>7 DEF Chosen
  <2>2. Cardinality(T) \in Nat \ {0} /\ Cardinality(T \ {c}) = Cardinality(T) - 1
    BY <2>1, TakeOne
  <2> QED
    BY <1>4, <2>1, <2>2
<1>9. g[T \ {c}] = h[T \ {c}]
  BY <1>3, <1>8
<1>10. SizeOf(s, c) = SizeOf(r, c)
  BY <1>4, <1>8 DEF SizeOf
<1> QED
  BY <1>4, <1>5, <1>6, <1>7, <1>9, <1>10 DEF Adds

\* The fold is the value of such a function.
LEMMA SumIsFold ==
  ASSUME NEW s, NEW S, Measured(s, S)
  PROVE  \E g : g \in [SUBSET S -> Int] /\ AddsUp(g, s, S) /\ SumOf(s, S) = g[S]
<1> DEFINE Sums(h) == h = [T \in SUBSET S |-> IF T = {} THEN 0
                             ELSE s[Chosen(T)].length + Header + h[T \ {Chosen(T)}]]
<1>1. PICK g : g \in [SUBSET S -> Int] /\ AddsUp(g, s, S)
  BY SumExists
<1>2. Sums(g)
  <2>1. g = [T \in SUBSET S |-> g[T]]
    BY <1>1
  <2>2. \A T \in SUBSET S : g[T] = IF T = {} THEN 0
                                   ELSE s[Chosen(T)].length + Header + g[T \ {Chosen(T)}]
    BY <1>1 DEF AddsUp, Adds, SizeOf
  <2> QED
    BY <2>1, <2>2
<1>3. SumOf(s, S) = (CHOOSE h : Sums(h))[S]
  BY DEF SumOf, MapThenSumSet, MapThenFoldSet, Chosen
<1> HIDE DEF Sums
<1>4. PICK h : h = CHOOSE e : Sums(e)
  OBVIOUS
<1>5. Sums(h)
  BY <1>2, <1>4
<1>6. AddsUp(h, s, S)
  BY <1>5 DEF Sums, AddsUp, Adds, SizeOf
<1>7. h[S] = g[S]
  BY <1>1, <1>6, SumsAgree DEF Measured
<1> QED
  BY <1>1, <1>3, <1>4, <1>7

\* The sum of a set with one segment more, and of the same segments.
Gains(s, r, S, n) ==
  /\ SumOf(s, S) \in Int
  /\ SumOf(r, S \cup {n}) = SumOf(s, S) + (r[n].length + Header)

LEMMA SumGains ==
  ASSUME NEW s, NEW r, NEW S, NEW n, n \notin S, Measured(s, S), r[n].length \in Int,
         \A a \in S : r[a].length = s[a].length
  PROVE  Gains(s, r, S, n)
<1>1. Measured(r, S \cup {n})
  BY FS_AddElement DEF Measured
<1>2. PICK g : g \in [SUBSET S -> Int] /\ AddsUp(g, s, S) /\ SumOf(s, S) = g[S]
  BY SumIsFold
<1>3. PICK h : /\ h \in [SUBSET (S \cup {n}) -> Int] /\ AddsUp(h, r, S \cup {n})
               /\ SumOf(r, S \cup {n}) = h[S \cup {n}]
  <2>1. PICK M : M = S \cup {n}
    OBVIOUS
  <2>2. Measured(r, M)
    BY <1>1, <2>1
  <2>3. \E h : h \in [SUBSET M -> Int] /\ AddsUp(h, r, M) /\ SumOf(r, M) = h[M]
    BY <2>2, SumIsFold
  <2> QED
    BY <2>1, <2>3
<1>4. h[S \cup {n}] = SizeOf(r, n) + h[(S \cup {n}) \ {n}]
  <2>1. PICK M : M = S \cup {n}
    OBVIOUS
  <2>2. Measured(r, M) /\ h \in [SUBSET M -> Int] /\ AddsUp(h, r, M) /\ M \in SUBSET M /\ n \in M
    BY <1>1, <1>3, <2>1
  <2>3. h[M] = SizeOf(r, n) + h[M \ {n}]
    <3>1. TakesAny(h, r, M)
      BY <2>2, SumAnyOrder
    <3> QED
      BY <2>2, <3>1 DEF TakesAny
  <2> QED
    BY <2>1, <2>3
<1>5. (S \cup {n}) \ {n} = S
  OBVIOUS
<1>6. h[S] = g[S]
  <2>1. S \subseteq S \cup {n} /\ IsFiniteSet(S)
    BY DEF Measured
  <2> QED
    BY <1>2, <1>3, <2>1, SumsAgree
<1>7. SumOf(r, S \cup {n}) = SizeOf(r, n) + g[S] /\ g[S] \in Int
  BY <1>2, <1>3, <1>4, <1>5, <1>6
<1> QED
  BY <1>2, <1>7, HeapAssumption DEF SizeOf, Gains

LEMMA SumStays ==
  ASSUME NEW s, NEW r, NEW S, Measured(s, S), \A a \in S : r[a].length = s[a].length
  PROVE  SumOf(r, S) = SumOf(s, S)
<1>1. Measured(r, S)
  BY DEF Measured
<1>2. PICK g : g \in [SUBSET S -> Int] /\ AddsUp(g, s, S) /\ SumOf(s, S) = g[S]
  BY SumIsFold
<1>3. PICK h : h \in [SUBSET S -> Int] /\ AddsUp(h, r, S) /\ SumOf(r, S) = h[S]
  BY <1>1, SumIsFold
<1>4. h[S] = g[S]
  BY <1>2, <1>3, SumsAgree DEF Measured
<1> QED
  BY <1>2, <1>3, <1>4

-----------------------------------------------------------------------------
(* The segments that usedSize counts.                                        *)
InUse(s) == {a \in DOMAIN s : ~s[a].free /\ a # Main}

Counted == usedSize = SumOf(seg, InUse(seg))

\* A list has finitely many segments.
LEMMA InUseMeasured ==
  ASSUME NEW s, NEW end, Linked(s, end)
  PROVE  Measured(s, InUse(s))
<1>1. end \in Int /\ Main \in Int /\ DOMAIN s \subseteq end..Main
  BY TopIsNat DEF Linked
<1>2. IsFiniteSet(end..Main)
  BY <1>1, FS_Interval
<1>3. InUse(s) \subseteq end..Main
  BY <1>1 DEF InUse
<1>4. \A a \in InUse(s) : s[a].length \in Int
  BY DEF InUse, Linked, Headers
<1> QED
  BY <1>2, <1>3, <1>4, FS_Subset DEF Measured

\* _free takes one segment out of the sum.
LEMMA ReleasedSum ==
  ASSUME NEW s, NEW end, Linked(s, end), CoalescedBut(s, {}),
         NEW h \in DOMAIN s, h # Main, ~s[h].free
  PROVE  /\ SumOf(s, InUse(s)) \in Int
         /\ SumOf(Released(s, h), InUse(Released(s, h))) = SumOf(s, InUse(s)) - (s[h].length + Header)
<1>1. PICK r : r = Released(s, h)
  OBVIOUS
<1>2. ReleasedWell(s, end, h, r)
  BY <1>1, ReleasedList
<1>3. PICK S : S = InUse(r)
  OBVIOUS
<1>4. InUse(s) = S \cup {h} /\ h \notin S
  <2>1. ASSUME NEW x \in InUse(s), x # h PROVE x \in S
    BY <1>2, <1>3, <2>1 DEF InUse, ReleasedWell
  <2>2. ASSUME NEW x \in S PROVE x \in InUse(s) /\ x # h
    BY <1>2, <1>3 DEF InUse, ReleasedWell
  <2>3. h \in InUse(s)
    BY DEF InUse
  <2> QED
    BY <2>1, <2>2, <2>3
<1>5. \A x \in S : s[x].length = r[x].length
  BY <1>2, <1>4 DEF InUse, ReleasedWell
<1>6. Measured(r, S)
  <2>1. Linked(r, end)
    BY <1>2 DEF ReleasedWell
  <2> QED
    BY <1>3, <2>1, InUseMeasured
<1>7. s[h].length \in Int /\ Header \in Int
  BY HeapAssumption DEF Linked, Headers
<1>8. /\ SumOf(r, S) \in Int
      /\ SumOf(s, S \cup {h}) = SumOf(r, S) + (s[h].length + Header)
  <2>1. h \notin S /\ Measured(r, S) /\ s[h].length \in Int /\ \A x \in S : s[x].length = r[x].length
    BY <1>4, <1>5, <1>6, <1>7
  <2>2. Gains(r, s, S, h)
    BY <2>1, SumGains
  <2> QED
    BY <2>2 DEF Gains
<1>9. PICK p, q, l : p = SumOf(r, S) /\ q = SumOf(s, S \cup {h}) /\ l = s[h].length
  OBVIOUS
<1>10. q \in Int /\ p = q - (l + Header)
  BY <1>7, <1>8, <1>9
<1>11. SumOf(s, InUse(s)) = q
  BY <1>4, <1>9
<1>12. SumOf(Released(s, h), InUse(Released(s, h))) = p
  BY <1>1, <1>3, <1>9
<1> QED
  BY <1>9, <1>10, <1>11, <1>12

\* The steps of heap.c, one by one.
LEMMA FreeCounts ==
  ASSUME HeapInv, Counted, NEW a \in DOMAIN live, Free(a)
  PROVE  Counted'
<1>1. seg' = Released(seg, a) /\ usedSize' = usedSize - (seg[a].length + Header)
  BY DEF Free
<1>2. Linked(seg, heapEnd) /\ CoalescedBut(seg, {}) /\ a \in DOMAIN seg /\ a # Main /\ ~seg[a].free
  BY DEF HeapInv, LiveInv
<1>3. SumOf(Released(seg, a), InUse(Released(seg, a)))
        = SumOf(seg, InUse(seg)) - (seg[a].length + Header)
  BY <1>2, ReleasedSum
<1> QED
  BY <1>1, <1>3 DEF Counted

LEMMA AllocateCounts ==
  ASSUME HeapInv, Counted, NEW a \in DOMAIN seg, Allocate(a)
  PROVE  Counted'
<1>1. PICK size, old : size = call.size /\ old = call.old
  OBVIOUS
<1>2. call # Null /\ Fits(a, size)
  BY <1>1 DEF Allocate, FirstFit
<1>3. size \in Nat \ {0} /\ old \in DOMAIN live \cup {Null}
  BY <1>1, <1>2, HeapAssumption DEF HeapInv, CallInv
<1>4. PICK t, block :
        /\ t = IF Splits(a, size) THEN splitSegment(a, size)
                                  ELSE [seg EXCEPT ![a].free = FALSE]
        /\ block = IF Splits(a, size) THEN SplitPoint(a, size) ELSE a
        /\ Linked(t, heapEnd) /\ CoalescedBut(t, {})
        /\ block \in DOMAIN t /\ block # Main /\ block # Null
        /\ ~t[block].free /\ t[block].length = size
        /\ \A x \in DOMAIN seg : ~seg[x].free =>
             /\ x # block /\ x \in DOMAIN t /\ ~t[x].free
             /\ t[x].length = seg[x].length
        /\ \A x \in DOMAIN t : ~t[x].free =>
             x = block \/ (x \in DOMAIN seg /\ ~seg[x].free)
  BY <1>2, <1>3, TakenList
<1> DEFINE given == IF old = Null THEN 0 ELSE t[old].length + Header
<1>5. /\ seg' = IF old = Null THEN t ELSE Released(t, old)
      /\ usedSize' = usedSize + (size + Header) - given
  BY <1>1, <1>4 DEF Allocate
<1>6. PICK S : S = InUse(seg)
  OBVIOUS
<1>7. InUse(t) = S \cup {block} /\ block \notin S /\ \A x \in S : t[x].length = seg[x].length
  <2>1. ASSUME NEW x \in S
        PROVE  x \in InUse(t) /\ x # block /\ t[x].length = seg[x].length
    BY <1>4, <1>6 DEF InUse
  <2>2. ASSUME NEW x \in InUse(t), x # block PROVE x \in S
    BY <1>4, <1>6, <2>2 DEF InUse
  <2>3. block \in InUse(t)
    BY <1>4 DEF InUse
  <2> QED
    BY <2>1, <2>2, <2>3
<1>8. Measured(seg, S) /\ t[block].length \in Int /\ Header \in Int
  BY <1>3, <1>4, <1>6, InUseMeasured, HeapAssumption DEF HeapInv
<1>9. /\ SumOf(seg, S) \in Int
      /\ SumOf(t, S \cup {block}) = SumOf(seg, S) + (t[block].length + Header)
  <2>1. Gains(seg, t, S, block)
    BY <1>7, <1>8, SumGains
  <2> QED
    BY <2>1 DEF Gains
<1>10. usedSize \in Int /\ SumOf(t, InUse(t)) = usedSize + (size + Header)
  BY <1>4, <1>6, <1>7, <1>9 DEF Counted
<1>11. CASE old = Null
  BY <1>3, <1>5, <1>8, <1>10, <1>11 DEF Counted
<1>12. CASE old # Null
  <2>1. old \in DOMAIN t /\ old # Main /\ ~t[old].free
    BY <1>3, <1>4, <1>12 DEF HeapInv, LiveInv
  <2>2. SumOf(Released(t, old), InUse(Released(t, old)))
          = SumOf(t, InUse(t)) - (t[old].length + Header)
    BY <1>4, <2>1, ReleasedSum
  <2>3. seg' = Released(t, old) /\ usedSize' = usedSize + (size + Header) - (t[old].length + Header)
    BY <1>5, <1>12
  <2>4. PICK r, l : r = Released(t, old) /\ l = t[old].length
    OBVIOUS
  <2>5. SumOf(r, InUse(r)) = usedSize + (size + Header) - (l + Header)
    <3>1. SumOf(r, InUse(r)) = SumOf(t, InUse(t)) - (l + Header)
      BY <2>2, <2>4
    <3>2. l \in Int /\ Header \in Int /\ size \in Int
      BY <1>3, <1>4, <2>1, <2>4, HeapAssumption DEF Linked, Headers
    <3> QED
      BY <1>10, <3>1, <3>2
  <2>6. seg' = r /\ usedSize' = usedSize + (size + Header) - (l + Header)
    BY <2>3, <2>4
  <2> QED
    BY <2>5, <2>6 DEF Counted
<1> QED
  BY <1>11, <1>12

LEMMA ExpandCounts ==
  ASSUME HeapInv, Counted, Expand
  PROVE  Counted'
<1>1. PICK length, new : length = Pages(call.size) * PageSize /\ new = heapEnd - length
  OBVIOUS
<1>2. /\ call # Null /\ usedSize' = usedSize
      /\ (new >= 0 /\ seg' = Expanded(new, length)) \/ seg' = seg
  BY <1>1 DEF Expand
<1>3. CASE seg' = seg
  BY <1>2, <1>3 DEF Counted
<1>4. CASE new >= 0 /\ seg' = Expanded(new, length)
  <2>1. /\ length \in Nat /\ length >= Header /\ length > 0
    <3>1. call.size \in Sizes
      BY <1>2 DEF HeapInv, CallInv
    <3>2. call.size \in Nat \ {0} /\ length \in Nat /\ length >= call.size + Header
          /\ Header \in Nat \ {0}
      BY <1>1, <3>1, PagesSuffice, HeapAssumption
    <3> QED
      BY <3>2
  <2>2. /\ Linked(seg, heapEnd) /\ CoalescedBut(seg, {}) /\ lastSegment = heapEnd
    BY DEF HeapInv
  <2>3. new \in Nat /\ new = heapEnd - length
    BY <1>1, <1>4, <2>1, <2>2 DEF Linked
  <2>4. PICK r :
          /\ r = Expanded(new, length)
          /\ Linked(r, new) /\ CoalescedBut(r, {})
          /\ r[new].free
          /\ r[new].length = (IF seg[heapEnd].free THEN seg[heapEnd].length + length - Header
                                                   ELSE length - Header)
          /\ \A x \in DOMAIN seg : ~seg[x].free =>
               x \in DOMAIN r /\ ~r[x].free /\ r[x].length = seg[x].length
          /\ \A x \in DOMAIN r : ~r[x].free => x \in DOMAIN seg /\ ~seg[x].free
    BY <2>1, <2>2, <2>3, ExpandedList
  <2>5. PICK S : S = InUse(seg)
    OBVIOUS
  <2>6. InUse(r) = S /\ \A x \in S : r[x].length = seg[x].length
    BY <2>4, <2>5 DEF InUse
  <2>7. Measured(seg, S)
    BY <2>2, <2>5, InUseMeasured
  <2>8. SumOf(r, S) = SumOf(seg, S)
    BY <2>6, <2>7, SumStays
  <2> QED
    BY <1>2, <1>4, <2>4, <2>5, <2>6, <2>8 DEF Counted
<1> QED
  BY <1>2, <1>3, <1>4

\* Nothing is in use after _initHeap.
LEMMA InitCounts ==
  ASSUME Init
  PROVE  Counted
<1>1. InUse(seg) = {}
  <2>1. HeapTop - PageSize # Main
    BY TopIsNat, HeapAssumption DEF Main
  <2>2. DOMAIN seg = {Main, HeapTop - PageSize}
    BY DEF Init
  <2>3. seg[HeapTop - PageSize] = Segment(TRUE, PageSize - 2 * Header, Null, Main)
    BY <2>1 DEF Init
  <2>4. seg[HeapTop - PageSize].free
    BY <2>3 DEF Segment
  <2> QED
    BY <2>2, <2>4 DEF InUse
<1>2. Measured(seg, {})
  BY FS_EmptySet DEF Measured
<1>3. PICK g : g \in [SUBSET {} -> Int] /\ AddsUp(g, seg, {}) /\ SumOf(seg, {}) = g[{}]
  BY <1>2, SumIsFold
<1>4. g[{}] = 0
  BY <1>3 DEF AddsUp, Adds
<1> QED
  BY <1>1, <1>3, <1>4 DEF Counted, Init

(***************************************************************************)
(* _free and expand_heap leave no two free neighbours, usedSize is the     *)
(* size of the segments in use, however they were split and merged, and    *)
(* what is not used is counted as free.                                    *)
(***************************************************************************)
THEOREM FreeSpaceStaysKept == Spec => []FreeSpaceIsKept
<1>1. Init => Counted
  BY InitCounts
<1>2. HeapInv /\ Counted /\ [Next]_vars => Counted'
  <2> SUFFICES ASSUME HeapInv, Counted, [Next]_vars PROVE Counted'
    OBVIOUS
  <2>1. CASE UNCHANGED vars
    BY <2>1 DEF vars, Counted
  <2>2. ASSUME NEW size, NEW old, Call(size, old) PROVE Counted'
    BY <2>2 DEF Call, Counted
  <2> QED
    BY <2>1, <2>2, FreeCounts, AllocateCounts, ExpandCounts DEF Next
<1>3. HeapInv /\ Counted => FreeSpaceIsKept
  <2> SUFFICES ASSUME HeapInv, Counted PROVE FreeSpaceIsKept
    OBVIOUS
  <2>1. FreeIsCoalesced /\ usedSize + freeSize = totalSize
    BY DEF HeapInv, CoalescedBut, FreeIsCoalesced, CountersInv
  <2>2. UsedIsCounted
    BY <2>1 DEF Counted, SumOf, InUse, UsedIsCounted
  <2> QED
    BY <2>1, <2>2 DEF FreeSpaceIsKept
<1> QED
  BY <1>1, <1>2, <1>3, HeapInvHolds, PTL DEF Spec
=============================================================================
