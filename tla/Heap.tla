-------------------------------- MODULE Heap --------------------------------
(***************************************************************************)
(* The kernel and user heap, kernel/src/memory/heap.c.                     *)
(*                                                                         *)
(* A heap grows downwards by whole pages from HeapTop.  It is a doubly     *)
(* linked list of segments, each a header followed by its bytes, in        *)
(* descending address order: next is the segment below, last the segment   *)
(* above.  mainSegment, of length 0 and never free, is the top.            *)
(* Addresses and lengths are in units of 0x10 bytes, to which _malloc      *)
(* rounds sizes: a request is modelled by its rounded size.                *)
(*                                                                         *)
(* A call is made of the search, the expansions and the repeated search    *)
(* of _malloc, one step each.  The model is of calls that do not overlap.  *)
(* heap.c takes no lock, so a command that interrupts another one inside   *)
(* kmalloc or kfree works on a list that is half changed: a known defect,  *)
(* not modelled.  request_current_page_at, behind expand_heap, succeeds    *)
(* while pages are left.                                                   *)
(***************************************************************************)
EXTENDS Integers, FiniteSets, FiniteSetsExt

CONSTANTS
  Header,    \* sizeof(struct heap_segment_header)
  PageSize,  \* PAGESIZE
  MaxPages,  \* pages that request_current_page_at can still deliver
  Sizes,     \* rounded sizes callers ask for
  MaxBlocks, \* bound on the blocks callers hold at the same time
  Null

ASSUME HeapAssumption ==
  /\ Header \in Nat \ {0}
  /\ PageSize \in Nat /\ PageSize > 2 * Header
  /\ MaxPages \in Nat \ {0}
  /\ Sizes \subseteq Nat \ {0}
  /\ MaxBlocks \in Nat
  /\ Null \notin Nat

VARIABLES
  seg,        \* the headers of the list: address -> [free, length, next, last]
  heapEnd,    \* cheap->heapEnd
  lastSegment,\* cheap->lastSegment
  totalSize,  \* cheap->totalSize
  usedSize,   \* cheap->usedSize
  freeSize,   \* cheap->freeSize
  live,       \* header of each block callers hold -> the size they asked for
  call,       \* the _malloc or _realloc in progress, or Null: its rounded
              \* size, the block to free at its end, the expansions so far
  halted      \* the panic "Failed to expand heap"

vars == <<seg, heapEnd, lastSegment, totalSize, usedSize, freeSize, live, call,
          halted>>

HeapTop == MaxPages * PageSize
Main == HeapTop - Header

Segment(free, length, next, last) ==
  [free |-> free, length |-> length, next |-> next, last |-> last]

\* The addresses a segment of map s covers, header included.
Extent(s, a) == a..(a + Header + s[a].length - 1)

\* f without address a.
Without(f, a) == [x \in DOMAIN f \ {a} |-> f[x]]

-----------------------------------------------------------------------------
(* _initHeap: one page, with mainSegment at its top.                        *)
Init ==
  /\ heapEnd = HeapTop - PageSize
  /\ seg = [a \in {Main, HeapTop - PageSize} |->
              IF a = Main
                THEN Segment(FALSE, 0, HeapTop - PageSize, Null)
                ELSE Segment(TRUE, PageSize - 2 * Header, Null, Main)]
  /\ lastSegment = HeapTop - PageSize
  /\ totalSize = PageSize
  /\ usedSize = 0
  /\ freeSize = PageSize
  /\ live = [a \in {} |-> 0]
  /\ call = Null
  /\ halted = FALSE

\* A split that leaves no room for the header of the new segment.
SplitPointLow(a, size) == a + seg[a].length - size - Header

\* splitSegment: the new segment is cut from the high end of segment a, which
\* keeps its header.
SplitPoint(a, size) == a + seg[a].length - size

splitSegment(a, size) ==
  LET new == SplitPoint(a, size)
      up == seg[a].last
  IN [x \in DOMAIN seg \cup {new} |->
        CASE x = new -> Segment(FALSE, size, a, up)
          [] x = a -> Segment(seg[a].free, seg[a].length - size - Header,
                              seg[a].next, new)
          [] x = up -> Segment(seg[up].free, seg[up].length, new, seg[up].last)
          [] OTHER -> seg[x]]

\* The tests of the search loop of _malloc.
Splits(a, size) == seg[a].free /\ seg[a].length > size + Header

\* A search that takes a segment shorter than the request.
ExactOrShorter(a, size) == seg[a].free /\ seg[a].length <= size

Exact(a, size) == seg[a].free /\ seg[a].length = size

Fits(a, size) == Splits(a, size) \/ Exact(a, size)

\* First fit from mainSegment: the highest address that fits.
FirstFit(a, size) ==
  /\ Fits(a, size)
  /\ \A b \in DOMAIN seg : b > a => ~Fits(b, size)

-----------------------------------------------------------------------------
(* _free on the list s: the two merges, and the choice between them.        *)
\* A merge that forgets the upward link.
MergeThisToNextKeepingLast(s, h) ==
  LET n == s[h].next
      up == s[h].last
  IN Without([s EXCEPT ![n].length = @ + s[h].length + Header,
                       ![up].next = n], h)

\* MergeThisToNext: segment h becomes the high part of the one below it.
MergeThisToNext(s, h) ==
  LET n == s[h].next
      up == s[h].last
  IN Without([s EXCEPT ![n].length = @ + s[h].length + Header,
                       ![n].last = up,
                       ![up].next = n], h)

\* MergeLastToThis: the segment above h becomes the high part of h.
MergeLastToThis(s, h) ==
  LET up == s[h].last
      top == s[up].last
  IN Without([s EXCEPT ![h].length = @ + s[up].length + Header,
                       ![h].last = top,
                       ![top].next = h], up)

\* A _free that merges on one side only.
ReleasedOneSide(s, h) ==
  LET f == [s EXCEPT ![h].free = TRUE]
      up == s[h].last
      down == s[h].next
      freeUp == up # Null /\ s[up].free
      freeDown == down # Null /\ s[down].free
  IN CASE freeUp -> MergeLastToThis(f, h)
       [] ~freeUp /\ freeDown -> MergeThisToNext(f, h)
       [] OTHER -> f

\* The list after _free: MergeLastAndThisToNext does both merges.
Released(s, h) ==
  LET f == [s EXCEPT ![h].free = TRUE]
      up == s[h].last
      down == s[h].next
      freeUp == up # Null /\ s[up].free
      freeDown == down # Null /\ s[down].free
  IN CASE freeUp /\ freeDown -> MergeThisToNext(MergeLastToThis(f, h), h)
       [] freeUp /\ ~freeDown -> MergeLastToThis(f, h)
       [] ~freeUp /\ freeDown -> MergeThisToNext(f, h)
       [] OTHER -> f

-----------------------------------------------------------------------------
\* A caller enters _malloc (old = Null) or _realloc on a block it holds.
Call(size, old) ==
  /\ ~halted
  /\ call = Null
  /\ \/ old = Null /\ Cardinality(DOMAIN live) < MaxBlocks
     \/ old \in DOMAIN live
  /\ call' = [size |-> size, old |-> old, grown |-> 0]
  /\ UNCHANGED <<seg, heapEnd, lastSegment, totalSize, usedSize, freeSize, live,
                 halted>>

\* The search of _malloc succeeds: the block is carved out or taken whole, the
\* call returns, and _realloc frees the old block after copying it.
Allocate(a) ==
  LET size == call.size
      block == IF Splits(a, size) THEN SplitPoint(a, size) ELSE a
      taken == IF Splits(a, size) THEN splitSegment(a, size)
                                  ELSE [seg EXCEPT ![a].free = FALSE]
      got == size + Header
      given == IF call.old = Null THEN 0 ELSE taken[call.old].length + Header
  IN /\ ~halted
     /\ call # Null
     /\ FirstFit(a, size)
     /\ seg' = IF call.old = Null THEN taken ELSE Released(taken, call.old)
     /\ usedSize' = usedSize + got - given
     /\ freeSize' = freeSize - got + given
     /\ live' = [x \in (DOMAIN live \cup {block}) \ {call.old} |->
                   IF x = block THEN size ELSE live[x]]
     /\ call' = Null
     /\ UNCHANGED <<heapEnd, lastSegment, totalSize, halted>>

\* expand_heap: the length of the new pages, whole pages for size and header.
Pages(size) == (size + Header + PageSize - 1) \div PageSize

\* An expansion that never looks at the segment it extends.
ExpandedApart(new, length) ==
  LET old == lastSegment
  IN [x \in DOMAIN seg \cup {new} |->
        CASE x = new -> Segment(TRUE, length - Header, Null, old)
          [] x = old -> [seg[old] EXCEPT !.next = new]
          [] OTHER -> seg[x]]

\* The list after expand_heap put a segment at address new.  A free last
\* segment is absorbed: its header becomes part of the new segment, whose
\* length is one header short of the space it covers.
Expanded(new, length) ==
  LET old == lastSegment
      up == seg[old].last
  IN IF seg[old].free /\ up # Null
       THEN [x \in (DOMAIN seg \ {old}) \cup {new} |->
               CASE x = new -> Segment(TRUE, seg[old].length + length - Header,
                                       Null, up)
                 [] x = up -> [seg[up] EXCEPT !.next = new]
                 [] OTHER -> seg[x]]
       ELSE [x \in DOMAIN seg \cup {new} |->
               CASE x = new -> Segment(TRUE, length - Header, Null, old)
                 [] x = old -> [seg[old] EXCEPT !.next = new]
                 [] OTHER -> seg[x]]

\* No segment fits: _malloc expands the heap and searches again.
Expand ==
  LET length == Pages(call.size) * PageSize
      new == heapEnd - length
  IN /\ ~halted
     /\ call # Null
     /\ \A a \in DOMAIN seg : ~Fits(a, call.size)
     /\ call' = [call EXCEPT !.grown = @ + 1]
     /\ \/ /\ new >= 0
           /\ heapEnd' = new
           /\ seg' = Expanded(new, length)
           /\ lastSegment' = new
           /\ totalSize' = totalSize + length + Header
           /\ freeSize' = freeSize + length + Header
           /\ UNCHANGED <<usedSize, live, halted>>
        \/ /\ new < 0
           /\ halted' = TRUE
           /\ UNCHANGED <<seg, heapEnd, lastSegment, totalSize, usedSize,
                          freeSize, live>>

\* _free on a block the caller holds.
Free(a) ==
  /\ ~halted
  /\ call = Null
  /\ a \in DOMAIN live
  /\ seg' = Released(seg, a)
  /\ freeSize' = freeSize + seg[a].length + Header
  /\ usedSize' = usedSize - (seg[a].length + Header)
  /\ live' = Without(live, a)
  /\ UNCHANGED <<heapEnd, lastSegment, totalSize, call, halted>>

Next ==
  \/ \E size \in Sizes, old \in DOMAIN live \cup {Null} : Call(size, old)
  \/ \E a \in DOMAIN seg : Allocate(a)
  \/ Expand
  \/ \E a \in DOMAIN live : Free(a)

Spec == Init /\ [][Next]_vars

-----------------------------------------------------------------------------
(* Types: headers and lengths are addresses and sizes inside the heap.       *)
TypeOK ==
  /\ DOMAIN seg \subseteq 0..HeapTop
  /\ \A a \in DOMAIN seg :
       /\ seg[a].free \in BOOLEAN
       /\ seg[a].length \in 0..HeapTop
       /\ seg[a].next \in DOMAIN seg \cup {Null}
       /\ seg[a].last \in DOMAIN seg \cup {Null}
  /\ heapEnd \in 0..HeapTop
  /\ lastSegment \in DOMAIN seg
  /\ call = Null \/ call.size \in Sizes

(* No two segments overlap and none leaves the mapped pages: no caller's     *)
(* bytes are ever part of a header, of another block, or of unmapped memory, *)
(* after any sequence of splits, merges and expansions.                      *)
SegmentsAreDisjoint ==
  /\ \A a \in DOMAIN seg : Extent(seg, a) \subseteq heapEnd..(HeapTop - 1)
  /\ \A a, b \in DOMAIN seg : a # b => Extent(seg, a) \cap Extent(seg, b) = {}

(* A block a caller holds is a segment of the list, not free, and as long as *)
(* the caller asked.                                                         *)
BlocksAreBacked ==
  \A a \in DOMAIN live :
    a \in DOMAIN seg /\ ~seg[a].free /\ seg[a].length >= live[a]

(* next and last are inverse, run through the segments in address order, and *)
(* lastSegment is where the chain of next ends: the walk of _malloc sees     *)
(* every segment and the merges of _free take true neighbours.               *)
ListIsLinked ==
  \A a \in DOMAIN seg :
    /\ seg[a].next # Null => /\ seg[seg[a].next].last = a
                             /\ \A b \in DOMAIN seg : b < a => b <= seg[a].next
    /\ seg[a].next = Null <=> a = lastSegment
    /\ seg[a].last = Null <=> a = Main

(* _free merges with both neighbours and expand_heap with the last segment:  *)
(* two adjacent segments are never both free.                                *)
FreeIsCoalesced ==
  \A a \in DOMAIN seg :
    seg[a].free /\ seg[a].next # Null => ~seg[seg[a].next].free

(* The statistics: usedSize is the size of the used segments, and what is    *)
(* not used is counted as free.                                              *)
UsedIsCounted ==
  /\ usedSize = MapThenSumSet(LAMBDA a : seg[a].length + Header,
                              {a \in DOMAIN seg : ~seg[a].free /\ a # Main})
  /\ usedSize + freeSize = totalSize

(* _malloc calls itself after expand_heap, with no bound: the recursion is   *)
(* never deeper than two expansions, also for the sizes that just miss the   *)
(* new segment (longer than asked, too short to split), because the second   *)
(* expansion absorbs the first.                                              *)
ExpandsAtMostTwice == call # Null => call.grown <= 2

(* What a caller of malloc relies on (_malloc, _realloc, _free): its block   *)
(* is a used segment of the list, as long as it asked for, and shares no     *)
(* byte with a header, another block or unmapped memory, after any sequence  *)
(* of splits, merges and expansions.                                         *)
BlocksAreSafe == TypeOK /\ SegmentsAreDisjoint /\ BlocksAreBacked

(* What _free and expand_heap do for later callers: free space is in one     *)
(* piece, and the statistics say how much of it there is.                    *)
FreeSpaceIsKept == FreeIsCoalesced /\ UsedIsCounted
=============================================================================
