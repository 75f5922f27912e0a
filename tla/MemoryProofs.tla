---------------------------- MODULE MemoryProofs ----------------------------
(***************************************************************************)
(* Proofs about the physical page allocator, for every number of pages     *)
(* and every counter width, and about the address spaces, for every number *)
(* of tasks and every size of stacks, heap and page tables.                *)
(***************************************************************************)
EXTENDS PhysicalMemory, AddressSpaces, FiniteSetTheorems, SequenceTheorems, TLAPS

-----------------------------------------------------------------------------
(* uint64_t arithmetic stays in range.                                      *)
LEMMA PlusInRange ==
  ASSUME NEW c \in Int, NEW d \in Int
  PROVE  Plus(c, d) \in 0..(CounterMod - 1)
BY PagesAssumption, SMT DEF Plus

(* A set of bits is finite, so the number of pages it moves is a number.     *)
LEMMA BitSetsAreFinite ==
  ASSUME NEW a \in Int, NEW b \in Int, NEW S, S \subseteq a..b
  PROVE  Cardinality(S) \in Nat
<1>1. IsFiniteSet(a..b)
  BY FS_Interval
<1>2. IsFiniteSet(S)
  BY <1>1, FS_Subset
<1> QED
  BY <1>2, FS_CardinalityType

(* The counters stay unsigned whatever set of bits is locked or unlocked.    *)
LEMMA CountersStayUnsigned ==
  ASSUME NEW a \in Int, NEW b \in Int, NEW S, S \subseteq a..b,
         CountersOK, LockPages(S) \/ UnlockPages(S)
  PROVE  CountersOK'
<1>1. Cardinality(S) \in Nat
  BY BitSetsAreFinite
<1>2. free_memory \in Int /\ locked_memory \in Int
  BY PagesAssumption DEF CountersOK
<1>3. -Cardinality(S) \in Int /\ Cardinality(S) \in Int
  BY <1>1
<1>4. /\ Plus(free_memory, -Cardinality(S)) \in 0..(CounterMod - 1)
      /\ Plus(locked_memory, Cardinality(S)) \in 0..(CounterMod - 1)
  BY <1>2, <1>3, PlusInRange
<1> QED
  BY <1>4 DEF CountersOK, LockPages, UnlockPages

(* A successful search found a page whose bit was clear.                     *)
LEMMA SearchFindsClearBit ==
  ASSUME NEW c, NEW p, StopsAt(c, p)
  PROVE  p \in Bits /\ p \notin bitfield
BY DEF StopsAt

-----------------------------------------------------------------------------
\* The types hold at the start.
LEMMA InitTypeOK == Init => TypeOK
<1> SUFFICES ASSUME Init PROVE TypeOK
  OBVIOUS
<1>1. bitfield \subseteq Bits
  BY PagesAssumption DEF Init, Reserved, Unzeroed, Bits
<1>2. /\ free_memory \in 0..(CounterMod - 1)
      /\ reserved_memory \in 0..(CounterMod - 1)
  <2>1. TotalPages \in Int /\ UsedSpace \in Int /\ -UsedSpace \in Int /\ 0 \in Int
    BY PagesAssumption
  <2> QED
    BY <2>1, PlusInRange DEF Init
<1> QED
  BY <1>1, <1>2, PagesAssumption DEF Init, TypeOK, CountersOK, Bits

\* Every step keeps them.
LEMMA NextTypeOK == TypeOK /\ [Next]_vars => TypeOK'
<1> SUFFICES ASSUME TypeOK, [Next]_vars PROVE TypeOK'
  OBVIOUS
<1> USE PagesAssumption
<1>0. CountersOK /\ last_page \in Bits /\ held \subseteq Bits
  BY DEF TypeOK
<1>1. CASE RequestPage
  <2>1. ASSUME NEW p \in Bits, StopsAt(last_page, p), LockPages({p}),
               last_page' = p, held' = held \cup {p},
               UNCHANGED halted
        PROVE  TypeOK'
    <3>1. {p} \subseteq 0..TotalPages
      BY DEF Bits
    <3>2. CountersOK'
      BY <2>1, <3>1, CountersStayUnsigned, <1>0
    <3> QED
      BY <2>1, <3>2 DEF TypeOK, LockPages
  <2>2. ASSUME Halt(FailedSearch(last_page)), UNCHANGED <<bitfield, counters>>
        PROVE  TypeOK'
    BY <2>2 DEF Halt, FailedSearch, TypeOK, CountersOK, counters
  <2> QED
    BY <1>1, <2>1, <2>2 DEF RequestPage
<1>2. ASSUME NEW p \in Bits, FreePage(p) PROVE TypeOK'
  <2>1. ASSUME UnlockPages({p}), p \in held, held' = held \ {p},
               UNCHANGED <<last_page, halted>>
        PROVE  TypeOK'
    <3>1. {p} \subseteq 0..TotalPages
      BY DEF Bits
    <3>2. CountersOK'
      BY <2>1, <3>1, CountersStayUnsigned, <1>0
    <3> QED
      BY <2>1, <3>2 DEF TypeOK, UnlockPages
  <2>2. ASSUME Halt("page was not locked"), UNCHANGED <<bitfield, counters>>
        PROVE  TypeOK'
    BY <2>2 DEF Halt, TypeOK, CountersOK, counters
  <2> QED
    BY <1>2, <2>1, <2>2 DEF FreePage
<1>3. CASE UNCHANGED vars
  BY <1>3 DEF vars, TypeOK, CountersOK
<1> QED
  BY <1>1, <1>2, <1>3 DEF Next

(* The bitfield is never touched outside the bits that exist and the         *)
(* cursor of request_page stays on them, for every size of memory.           *)
THEOREM TypeCorrect == Spec => []TypeOK
<1> QED
  BY InitTypeOK, NextTypeOK, PTL DEF Spec

-----------------------------------------------------------------------------
(* A failed search has seen every page from 1 up, wherever it started.       *)
LEMMA FailedSearchSawAll ==
  ASSUME NEW c \in Bits, FindsNone(c)
  PROVE  1..TotalPages \subseteq bitfield
<1> SUFFICES ASSUME NEW p \in 1..TotalPages PROVE p \in bitfield
  OBVIOUS
<1>1. p \in FirstLap(c) \cup SecondLap(c)
  BY PagesAssumption DEF FirstLap, SecondLap, Bits
<1> QED
  BY <1>1 DEF FindsNone

(* The panic "No free pages available!" of memory.c, and its endless search, *)
(* are reached only with no page left, for every memory size and whatever    *)
(* requests and frees came before.                                           *)
THEOREM ExhaustionIsReal == Spec => []FailsOnlyWhenFull
<1>1. Init => FailsOnlyWhenFull
  BY DEF Init, FailsOnlyWhenFull
<1>2. TypeOK /\ FailsOnlyWhenFull /\ [Next]_vars => FailsOnlyWhenFull'
  <2> SUFFICES ASSUME TypeOK, FailsOnlyWhenFull, [Next]_vars
               PROVE  FailsOnlyWhenFull'
    OBVIOUS
  <2>0. last_page \in Bits
    BY DEF TypeOK
  <2>1. CASE RequestPage
    <3>1. CASE FindsNone(last_page) /\ UNCHANGED <<bitfield, counters>>
      BY <2>0, <3>1, FailedSearchSawAll DEF FailsOnlyWhenFull
    <3>2. CASE UNCHANGED halted /\ halted = "no"
      BY <3>2 DEF FailsOnlyWhenFull
    <3> QED
      BY <2>1, <3>1, <3>2 DEF RequestPage
  <2>2. ASSUME NEW p \in Bits, FreePage(p) PROVE FailsOnlyWhenFull'
    BY <2>2 DEF FreePage, Halt, FailsOnlyWhenFull
  <2>3. CASE UNCHANGED vars
    BY <2>3 DEF vars, FailsOnlyWhenFull
  <2> QED
    BY <2>1, <2>2, <2>3 DEF Next
<1> QED
  BY <1>1, <1>2, TypeCorrect, PTL DEF Spec

-----------------------------------------------------------------------------
(* The inductive invariant.  The second conjunct is what keeps the search    *)
(* that starts from cursor 0 finite: the cursor is 0 only before the first   *)
(* request.  The third keeps free_page away from the allocator's own pages.  *)
PageInv ==
  /\ TypeOK
  /\ last_page = 0 => UsedSpace \notin bitfield
  /\ held \cap Reserved = {}
  /\ LivePagesAreMarked
  /\ StopsOnlyExhausted

(* A page in use is never marked free, so never given to a second caller,    *)
(* and the kernel stops in memory.c only when memory is exhausted: for every *)
(* memory size and every order of requests and frees.                        *)
THEOREM PagesInUseStayMarked ==
  Spec => [](LivePagesAreMarked /\ StopsOnlyExhausted)
<1> USE PagesAssumption
<1>1. Init => PageInv
  <2> SUFFICES ASSUME Init PROVE PageInv
    OBVIOUS
  <2>1. UsedSpace \notin bitfield
    BY DEF Init, Reserved, Unzeroed
  <2> QED
    BY <2>1, InitTypeOK
    DEF Init, PageInv, LivePagesAreMarked, StopsOnlyExhausted
<1>2. PageInv /\ [Next]_vars => PageInv'
  <2> SUFFICES ASSUME PageInv, [Next]_vars PROVE PageInv'
    OBVIOUS
  <2>0. TypeOK'
    BY NextTypeOK DEF PageInv
  <2>1. CASE RequestPage
    <3>1. ASSUME NEW p \in Bits, StopsAt(last_page, p), LockPages({p}),
                 last_page' = p, held' = held \cup {p},
                 UNCHANGED halted
          PROVE  PageInv'
      <4>1. p # 0
        BY <3>1, SearchFindsClearBit
        DEF PageInv, LivePagesAreMarked, Reserved
      <4>2. p \notin Reserved
        BY <3>1, SearchFindsClearBit DEF PageInv, LivePagesAreMarked
      <4> QED
        BY <2>0, <3>1, <4>1, <4>2
        DEF PageInv, LivePagesAreMarked, StopsOnlyExhausted, LockPages
    <3>2. ASSUME FindsNone(last_page), Halt(FailedSearch(last_page)),
                 UNCHANGED <<bitfield, counters>>
          PROVE  PageInv'
      <4>1. last_page # 0
        BY <3>2 DEF FindsNone, FirstLap, PageInv
      <4>2. FailedSearch(last_page) = "exhausted"
        BY <4>1 DEF FailedSearch
      <4> QED
        BY <2>0, <3>2, <4>2
        DEF PageInv, Halt, LivePagesAreMarked, StopsOnlyExhausted
    <3> QED
      BY <2>1, <3>1, <3>2 DEF RequestPage
  <2>2. ASSUME NEW p \in Bits, FreePage(p) PROVE PageInv'
    <3>1. p \in bitfield
      BY <2>2 DEF FreePage, PageInv, LivePagesAreMarked
    <3>2. last_page # 0 => last_page' # 0
      BY <2>2 DEF FreePage, Halt
    <3> QED
      BY <2>0, <2>2, <3>1, <3>2
      DEF FreePage, UnlockPages, PageInv, LivePagesAreMarked, StopsOnlyExhausted
  <2>3. CASE UNCHANGED vars
    BY <2>0, <2>3 DEF vars, PageInv, LivePagesAreMarked, StopsOnlyExhausted
  <2> QED
    BY <2>1, <2>2, <2>3 DEF Next
<1>3. PageInv => LivePagesAreMarked /\ StopsOnlyExhausted
  BY DEF PageInv
<1> QED
  BY <1>1, <1>2, <1>3, PTL DEF Spec

-----------------------------------------------------------------------------
(***************************************************************************)
(* Address spaces.  Stacks lie StackStep pages apart, and the page at every *)
(* multiple of it is left out.                                              *)
(***************************************************************************)
StackStep == StackPages + 1

IsGuard(p) == \E q \in Nat \ {0} : p = q * StackStep

Item == [do : {"back", "touch"}, page : Page, where : SUBSET {"here", "there"}]

\* The pages a user task needs before it may run.
Needed == {<<"uheap", 0>>} \cup ({"ustack"} \X (0 .. StackPages))

\* What the processor finds with the tables tb and the entries en.
Found(tb, en, s, v) ==
  LET t == tb[s][Region(v)]
  IN  IF <<t, v>> \in DOMAIN en THEN en[<<t, v>>] ELSE 0

TablesTyped(tb, en, fr, top) ==
  /\ fr \in Nat
  /\ tb \in [0 .. top -> [Regions -> 0 .. fr]]
  /\ DOMAIN en \subseteq (1 .. fr) \X Page
  /\ \A x \in DOMAIN en : en[x] \in 1 .. fr

\* The page tables made at boot are in every space.
BootTablesShared(tb, top) ==
  \A s \in 0 .. top : tb[s][<<"kheap", 0>>] = 1 /\ tb[s][<<"kstack", 0>>] = 2

\* A page of the kernel has one entry, in a table some space has.
KernelEntries(tb, en, top) ==
  \A x \in DOMAIN en : x[2][1] \in KernelAreas =>
    /\ \A y \in DOMAIN en : y[2] = x[2] => y = x
    /\ \E s \in 0 .. top : tb[s][Region(x[2])] = x[1]

\* The tables of a user task's own areas are in no other space.
UserTablesPrivate(tb, top) ==
  \A s \in (0 .. top) \cap UserSpace : \A t \in (0 .. top) \ {s} : \A r \in Regions :
    r[1] \in UserAreas /\ tb[s][r] # 0 => tb[t][r] # tb[s][r]

TablesOK(tb, en, fr, top) ==
  /\ TablesTyped(tb, en, fr, top)
  /\ BootTablesShared(tb, top)
  /\ KernelEntries(tb, en, top)
  /\ UserTablesPrivate(tb, top)

\* Nor are the frames they map.
FramesPrivate(tb, en, top) ==
  \A s \in (0 .. top) \cap UserSpace : \A t \in ((0 .. top) \cap UserSpace) \ {s} :
    \A v \in Page : v[1] \in UserAreas /\ Found(tb, en, s, v) # 0
                      => Found(tb, en, t, v) # Found(tb, en, s, v)

\* Spaces, the processor and the cursors.
StageOK ==
  /\ Spaces = 0 .. New /\ New \in Space
  /\ low \in [Spaces -> BOOLEAN] /\ \A s \in Spaces : low[s] <=> s \notin UserSpace
  /\ current \in Spaces
  /\ phase \in {"boot", "run", "command", "made", "fault"}
  /\ phase = "boot" => New <= KernelTasks
  /\ phase # "boot" => KernelTasks <= New
  /\ phase = "made" => New \in UserSpace /\ current \notin UserSpace
  /\ phase = "fault" => current \in UserSpace
  /\ phase # "made" => DOMAIN tlb = {}
  /\ lastStack = (2 * New + 3) * StackStep
  /\ heapEnd \in Nat /\ heapEnd < BootHeap + MaxHeapPages
  /\ nested \subseteq Spaces

\* A page of the kernel that is mapped, or is going to be.
PagePlaced(v) ==
  /\ v[1] = "kheap" => v[2] <= heapEnd
  /\ v[1] = "kstack" => v[2] < lastStack /\ ~IsGuard(v[2])

PagesPlaced ==
  /\ \A x \in DOMAIN entry : PagePlaced(x[2])
  /\ \A i \in DOMAIN work : PagePlaced(work[i].page)

\* The work that is left on pages of the kernel.
KernelWorkOK ==
  \A i \in DOMAIN work : work[i].page[1] \in KernelAreas =>
    /\ work[i].do = "back" /\ work[i].where = Here
    /\ \A x \in DOMAIN entry : x[2] # work[i].page
    /\ \A j \in DOMAIN work : i < j => work[j].page # work[i].page

\* A page is the same in the space at work and in the new one.
Ready(v) == Physical(New, v) # 0 /\ Physical(current, v) = Physical(New, v)

BackIn(i, v) == work[i].do = "back" /\ work[i].page = v

\* The work that is left on pages of the new task: a page is written to after
\* it was mapped, and not mapped again.
UserWorkOK ==
  \A i \in DOMAIN work : work[i].page[1] \in UserAreas =>
    /\ phase = "made" /\ current \notin UserSpace
    /\ work[i].do = "back" =>
         /\ "there" \in work[i].where
         /\ work[i].page \in Needed => "here" \in work[i].where
    /\ work[i].do = "touch" =>
         /\ work[i].page \in Needed
         /\ Ready(work[i].page) \/ \E j \in 1 .. (i - 1) : BackIn(j, work[i].page)
         /\ \A j \in DOMAIN work : i < j => ~BackIn(j, work[i].page)

WorkOK == work \in Seq(Item) /\ KernelWorkOK /\ UserWorkOK

\* The cached translations are those of the new task, and stay so, unless it
\* was made inside a command that had just made another.
CacheOK ==
  \A v \in DOMAIN tlb :
    /\ v \in Needed /\ tlb[v] \in 1 .. frames
    /\ New \notin nested =>
         tlb[v] = Physical(New, v) /\ \A i \in DOMAIN work : ~BackIn(i, v)

WroteOK ==
  /\ DOMAIN wrote = 1 .. New
  /\ \A s \in DOMAIN wrote : \A w \in wrote[s] :
       /\ s \in UserSpace
       /\ w \in Needed \X (1 .. frames)
       /\ s \notin nested => w[2] = Physical(s, w[1])
       /\ s = New => \A i \in DOMAIN work : ~BackIn(i, w[1])

\* What a user task needs is mapped, or is going to be.
NeededBacked ==
  \A s \in Spaces \cap UserSpace : \A v \in Needed :
    \/ Physical(s, v) # 0
    \/ s = New /\ \E i \in DOMAIN work : BackIn(i, v)

PagingInv ==
  /\ StageOK
  /\ TablesOK(table, entry, frames, New)
  /\ FramesPrivate(table, entry, New)
  /\ PagesPlaced /\ WorkOK /\ CacheOK /\ WroteOK /\ NeededBacked

-----------------------------------------------------------------------------
\* Pages and the regions they are in.
LEMMA PageFacts ==
  ASSUME NEW v \in Page
  PROVE  /\ v[2] \in Nat /\ v = <<v[1], v[2]>>
         /\ v[1] \in KernelAreas \cup UserAreas
         /\ Region(v) \in Regions /\ Region(v)[1] = v[1]
  BY PagingAssumption DEF Page, Region, Regions, KernelAreas, UserAreas

LEMMA NeededFacts ==
  ASSUME NEW v \in Needed
  PROVE  v \in Page /\ v[1] \in UserAreas /\ v[1] \notin KernelAreas
  BY PagingAssumption DEF Needed, Page, UserAreas, KernelAreas

LEMMA FirstRegions ==
  /\ <<"kheap", 0>> \in Regions /\ <<"kstack", 0>> \in Regions
  /\ \A v \in Page : v[2] + 1 < PerTable => Region(v) = <<v[1], 0>>
<1>0. PerTable \in Nat \ {0, 1}
  BY PagingAssumption
<1>1. \A i \in Nat : i < PerTable => i \div PerTable = 0
  BY <1>0
<1>2. <<"kheap", 0>> \in Page /\ <<"kstack", 0>> \in Page
  <2>1. StackArea \in Nat
    BY PagingAssumption DEF StackArea
  <2> QED
    BY <2>1, PagingAssumption DEF Page
<1>3. \A v \in Page : v[2] + 1 < PerTable => Region(v) = <<v[1], 0>>
  <2> SUFFICES ASSUME NEW v \in Page, v[2] + 1 < PerTable PROVE Region(v) = <<v[1], 0>>
    OBVIOUS
  <2>1. v[2] + 1 \in Nat
    BY PageFacts
  <2>2. (v[2] + 1) \div PerTable = 0
    BY <1>1, <2>1
  <2> QED
    BY <2>2 DEF Region
<1>4. Region(<<"kheap", 0>>) = <<"kheap", 0>> /\ Region(<<"kstack", 0>>) = <<"kstack", 0>>
  BY <1>0, <1>1 DEF Region
<1> QED
  BY <1>2, <1>3, <1>4, PageFacts

\* The page v is mapped to frame f in space s, by way of table t.
MapsTo(tb, en, fr, top, s, v, f, tb2, en2, fr2, t) ==
  /\ tb[s][Region(v)] # 0 => t = tb[s][Region(v)] /\ fr2 = fr
  /\ tb[s][Region(v)] = 0 => t = fr + 1 /\ fr2 = fr + 1
  /\ tb2 \in [0 .. top -> [Regions -> 0 .. fr2]]
  /\ tb2[s][Region(v)] = t
  /\ \A z \in 0 .. top : \A q \in Regions :
       z # s \/ q # Region(v) => tb2[z][q] = tb[z][q]
  /\ DOMAIN en2 = DOMAIN en \cup {<<t, v>>} /\ en2[<<t, v>>] = f
  /\ \A x \in DOMAIN en : x # <<t, v>> => en2[x] = en[x]

\* map_memory_hh does that.
LEMMA MappedMaps ==
  ASSUME NEW tb, NEW en, NEW fr, NEW top \in Nat, TablesTyped(tb, en, fr, top),
         NEW m, m.table = tb, m.entry = en, m.frames = fr,
         NEW s \in 0 .. top, NEW v \in Page, NEW f, NEW g, g = Mapped(m, s, v, f)
  PROVE  \E t : MapsTo(tb, en, fr, top, s, v, f, g.table, g.entry, g.frames, t)
<1>1. PICK r : r = Region(v) /\ r \in Regions
  BY PageFacts
<1>2. tb[s] \in [Regions -> 0 .. fr] /\ tb[s][r] \in 0 .. fr /\ fr \in Nat
  BY <1>1 DEF TablesTyped
<1>3. PICK t : t = IF tb[s][r] = 0 THEN fr + 1 ELSE tb[s][r]
  OBVIOUS
<1>4. /\ g.table = [tb EXCEPT ![s][r] = t]
      /\ g.entry = [x \in DOMAIN en \cup {<<t, v>>} |-> IF x = <<t, v>> THEN f ELSE en[x]]
      /\ g.frames = IF tb[s][r] = 0 THEN fr + 1 ELSE fr
  BY <1>1, <1>3 DEF Mapped
<1>5. g.frames \in Nat /\ g.frames >= fr /\ t \in 0 .. g.frames
  BY <1>2, <1>3, <1>4
<1>6. g.table = [tb EXCEPT ![s] = [tb[s] EXCEPT ![r] = t]]
  BY <1>4
<1>7. PICK row : row = [tb[s] EXCEPT ![r] = t]
  OBVIOUS
<1>8. row \in [Regions -> 0 .. g.frames] /\ row[r] = t
      /\ \A q \in Regions : q # r => row[q] = tb[s][q]
  <2>1. 0 .. fr \subseteq 0 .. g.frames
    BY <1>2, <1>5
  <2> QED
    BY <1>1, <1>2, <1>5, <1>7, <2>1
<1>9. /\ g.table \in [0 .. top -> [Regions -> 0 .. g.frames]]
      /\ g.table[s] = row /\ \A z \in 0 .. top : z # s => g.table[z] = tb[z]
  <2>1. tb \in [0 .. top -> [Regions -> 0 .. fr]] /\ 0 .. fr \subseteq 0 .. g.frames
    BY <1>2, <1>5 DEF TablesTyped
  <2>2. tb \in [0 .. top -> [Regions -> 0 .. g.frames]]
    BY <2>1
  <2> QED
    BY <1>6, <1>7, <1>8, <2>2
<1>10. /\ DOMAIN g.entry = DOMAIN en \cup {<<t, v>>} /\ g.entry[<<t, v>>] = f
       /\ \A x \in DOMAIN en : x # <<t, v>> => g.entry[x] = en[x]
  BY <1>4
<1>11. /\ tb[s][r] # 0 => t = tb[s][r] /\ g.frames = fr
       /\ tb[s][r] = 0 => t = fr + 1 /\ g.frames = fr + 1
  BY <1>2, <1>3, <1>4
<1>12. MapsTo(tb, en, fr, top, s, v, f, g.table, g.entry, g.frames, t)
  BY <1>1, <1>8, <1>9, <1>10, <1>11 DEF MapsTo
<1> QED
  BY <1>12

\* It keeps what holds of the tables; a page of the kernel is mapped once.
LEMMA MapKeepsTables ==
  ASSUME NEW tb, NEW en, NEW fr, NEW top \in Nat, TablesOK(tb, en, fr, top),
         NEW s \in 0 .. top, NEW v \in Page, NEW f \in 1 .. fr,
         NEW tb2, NEW en2, NEW fr2, NEW t, MapsTo(tb, en, fr, top, s, v, f, tb2, en2, fr2, t),
         v[1] \in KernelAreas => \A x \in DOMAIN en : x[2] # v
  PROVE  TablesOK(tb2, en2, fr2, top) /\ fr2 >= fr
<1>1. PICK r : r = Region(v) /\ r \in Regions /\ r[1] = v[1]
  BY PageFacts
<1>2. /\ fr \in Nat /\ tb \in [0 .. top -> [Regions -> 0 .. fr]]
      /\ DOMAIN en \subseteq (1 .. fr) \X Page /\ \A x \in DOMAIN en : en[x] \in 1 .. fr
  BY DEF TablesOK, TablesTyped
<1>3. tb[s][r] \in 0 .. fr /\ fr2 \in Nat /\ fr2 >= fr /\ t \in 1 .. fr2
  BY <1>1, <1>2 DEF MapsTo
<1>4. \A z \in 0 .. top : \A q \in Regions : tb[z][q] # 0 => tb2[z][q] = tb[z][q]
  BY <1>1 DEF MapsTo
<1>5. TablesTyped(tb2, en2, fr2, top)
  <2>0. /\ DOMAIN en2 = DOMAIN en \cup {<<t, v>>} /\ en2[<<t, v>>] = f
        /\ \A x \in DOMAIN en : x # <<t, v>> => en2[x] = en[x]
    BY DEF MapsTo
  <2>1. DOMAIN en2 \subseteq (1 .. fr2) \X Page
    <3>1. (1 .. fr) \X Page \subseteq (1 .. fr2) \X Page
      BY <1>2, <1>3
    <3>2. <<t, v>> \in (1 .. fr2) \X Page
      BY <1>3
    <3> QED
      BY <1>2, <2>0, <3>1, <3>2
  <2>2. ASSUME NEW x \in DOMAIN en2 PROVE en2[x] \in 1 .. fr2
    <3>1. f \in 1 .. fr2
      BY <1>2, <1>3
    <3>2. CASE x = <<t, v>>
      BY <2>0, <3>1, <3>2
    <3>3. CASE x # <<t, v>>
      <4>1. x \in DOMAIN en /\ en2[x] = en[x]
        BY <2>0, <3>3
      <4>2. en[x] \in 1 .. fr
        BY <1>2, <4>1
      <4> QED
        BY <1>2, <1>3, <4>1, <4>2
    <3> QED
      BY <3>2, <3>3
  <2> QED
    BY <1>3, <2>1, <2>2 DEF TablesTyped, MapsTo
<1>6. BootTablesShared(tb2, top)
  BY <1>4, FirstRegions DEF TablesOK, BootTablesShared
<1>7. KernelEntries(tb2, en2, top)
  <2> SUFFICES ASSUME NEW x \in DOMAIN en2, x[2][1] \in KernelAreas
               PROVE  /\ \A y \in DOMAIN en2 : y[2] = x[2] => y = x
                      /\ \E z \in 0 .. top : tb2[z][Region(x[2])] = x[1]
    BY DEF KernelEntries
  <2>1. CASE x = <<t, v>>
    <3>0. x[1] = t /\ x[2] = v
      BY <2>1
    <3>1. \A y \in DOMAIN en2 : y[2] = x[2] => y = x
      BY <2>1, <3>0 DEF MapsTo
    <3>2. tb2[s][Region(x[2])] = x[1]
      BY <3>0 DEF MapsTo
    <3> QED
      BY <3>1, <3>2
  <2>2. CASE x # <<t, v>>
    <3>1. x \in DOMAIN en /\ x \in (1 .. fr) \X Page
      BY <1>2, <2>2 DEF MapsTo
    <3>2. x[2] # v
      BY <3>1
    <3>3. \A y \in DOMAIN en2 : y[2] = x[2] => y = x
      BY <3>1, <3>2 DEF MapsTo, TablesOK, KernelEntries
    <3>4. PICK z \in 0 .. top : tb[z][Region(x[2])] = x[1]
      BY <3>1 DEF TablesOK, KernelEntries
    <3>5. x[1] # 0 /\ Region(x[2]) \in Regions
      BY <3>1, PageFacts
    <3>6. tb2[z][Region(x[2])] = x[1]
      BY <1>4, <3>4, <3>5
    <3> QED
      BY <3>3, <3>6
  <2> QED
    BY <2>1, <2>2
<1>8. UserTablesPrivate(tb2, top)
  <2> SUFFICES ASSUME NEW y \in (0 .. top) \cap UserSpace, NEW z \in (0 .. top) \ {y},
                      NEW q \in Regions, q[1] \in UserAreas, tb2[y][q] # 0
               PROVE  tb2[z][q] # tb2[y][q]
    BY DEF UserTablesPrivate
  <2>1. tb[y][q] # 0 => tb[z][q] # tb[y][q]
    BY DEF TablesOK, UserTablesPrivate
  <2>2. tb[y][q] \in 0 .. fr /\ tb[z][q] \in 0 .. fr
    BY <1>2
  <2>3. CASE q = r /\ tb[s][r] = 0
    <3>1. t = fr + 1 /\ tb2[s][r] = fr + 1
      BY <1>1, <2>3 DEF MapsTo
    <3>2. /\ y # s => tb2[y][q] = tb[y][q]
          /\ z # s => tb2[z][q] = tb[z][q]
      BY DEF MapsTo
    <3> QED
      BY <1>2, <2>1, <2>2, <2>3, <3>1, <3>2
  <2>4. CASE ~(q = r /\ tb[s][r] = 0)
    <3>1. tb2[y][q] = tb[y][q] /\ tb2[z][q] = tb[z][q]
      BY <1>1, <2>4 DEF MapsTo
    <3> QED
      BY <2>1, <3>1
  <2> QED
    BY <2>3, <2>4
<1> QED
  BY <1>3, <1>5, <1>6, <1>7, <1>8 DEF TablesOK

\* What the spaces find after it.
LEMMA MapFinds ==
  ASSUME NEW tb, NEW en, NEW fr, NEW top \in Nat, TablesOK(tb, en, fr, top),
         NEW s \in 0 .. top, NEW v \in Page, NEW f \in 1 .. fr,
         NEW tb2, NEW en2, NEW fr2, NEW t, MapsTo(tb, en, fr, top, s, v, f, tb2, en2, fr2, t)
  PROVE  /\ Found(tb2, en2, s, v) = f
         /\ \A w \in Page : w # v =>
              \A z \in 0 .. top : Found(tb2, en2, z, w) = Found(tb, en, z, w)
         /\ v[1] \in UserAreas => \A z \in (0 .. top) \ {s} :
              s \in UserSpace \/ z \in UserSpace => Found(tb2, en2, z, v) = Found(tb, en, z, v)
         /\ \A z \in 0 .. top : Found(tb2, en2, z, v) \in {Found(tb, en, z, v), f}
<1>1. PICK r : r = Region(v) /\ r \in Regions /\ r[1] = v[1]
  BY PageFacts
<1>2. /\ fr \in Nat /\ tb \in [0 .. top -> [Regions -> 0 .. fr]]
      /\ DOMAIN en \subseteq (1 .. fr) \X Page
  BY DEF TablesOK, TablesTyped
<1>3. \A w \in Page : <<0, w>> \notin DOMAIN en /\ <<fr + 1, w>> \notin DOMAIN en
  BY <1>2
<1>4. t # 0 /\ tb[s][r] \in 0 .. fr
  BY <1>1, <1>2 DEF MapsTo
<1>5. Found(tb2, en2, s, v) = f
  BY DEF Found, MapsTo
<1>6. ASSUME NEW w \in Page, w # v, NEW z \in 0 .. top
      PROVE  Found(tb2, en2, z, w) = Found(tb, en, z, w)
  <2>1. PICK q : q = Region(w) /\ q \in Regions
    BY PageFacts
  <2>2. CASE tb2[z][q] = tb[z][q]
    BY <1>6, <2>1, <2>2 DEF Found, MapsTo
  <2>3. CASE tb2[z][q] # tb[z][q]
    <3>1. z = s /\ q = r
      BY <1>1, <2>1, <2>3 DEF MapsTo
    <3>2. tb[z][q] = 0 /\ tb2[z][q] = fr + 1
      BY <1>1, <2>1, <2>3, <3>1 DEF MapsTo
    <3> QED
      BY <1>3, <1>6, <2>1, <3>2 DEF Found, MapsTo
  <2> QED
    BY <2>2, <2>3
<1>7. ASSUME NEW z \in (0 .. top) \ {s}
      PROVE  Found(tb2, en2, z, v) = IF tb[z][r] = t THEN f ELSE Found(tb, en, z, v)
  <2>1. tb2[z][r] = tb[z][r]
    BY <1>1 DEF MapsTo
  <2> QED
    BY <1>1, <2>1 DEF Found, MapsTo
<1>8. ASSUME v[1] \in UserAreas, NEW z \in (0 .. top) \ {s}, s \in UserSpace \/ z \in UserSpace
      PROVE  tb[z][r] # t
  <2>1. tb[z][r] \in 0 .. fr
    BY <1>1, <1>2
  <2>2. CASE tb[s][r] = 0
    BY <1>1, <1>2, <2>1, <2>2 DEF MapsTo
  <2>3. CASE tb[s][r] # 0
    <3>1. t = tb[s][r]
      BY <1>1, <2>3 DEF MapsTo
    <3>2. s \in UserSpace => tb[z][r] # tb[s][r]
      BY <1>1, <1>8, <2>3 DEF TablesOK, UserTablesPrivate
    <3>3. z \in UserSpace /\ tb[z][r] # 0 => tb[s][r] # tb[z][r]
      BY <1>1, <1>8 DEF TablesOK, UserTablesPrivate
    <3> QED
      BY <1>8, <2>3, <3>1, <3>2, <3>3
  <2> QED
    BY <2>2, <2>3
<1>9. \A z \in 0 .. top : Found(tb2, en2, z, v) \in {Found(tb, en, z, v), f}
  BY <1>5, <1>7
<1> QED
  BY <1>5, <1>6, <1>7, <1>8, <1>9

-----------------------------------------------------------------------------
\* The page at the head of the work.
LEMMA HeadOfWork ==
  ASSUME PagingInv, Busy
  PROVE  /\ work[1] \in Item /\ Head(work) = work[1] /\ Len(work) \in Nat \ {0}
         /\ DOMAIN work = 1 .. Len(work)
         /\ Tail(work) \in Seq(Item) /\ DOMAIN Tail(work) = 1 .. (Len(work) - 1)
         /\ \A i \in 1 .. (Len(work) - 1) : Tail(work)[i] = work[i + 1]
         /\ work[1].page[1] \in KernelAreas =>
              work[1].do = "back" /\ work[1].where = Here
                /\ \A x \in DOMAIN entry : x[2] # work[1].page
         /\ work[1].page[1] \in UserAreas =>
              /\ New \in UserSpace /\ current \notin UserSpace /\ phase = "made"
              /\ work[1].do = "back" => "there" \in work[1].where
<1>1. work \in Seq(Item) /\ work # <<>>
  BY DEF PagingInv, WorkOK, Busy
<1>2. /\ Head(work) = work[1] /\ Len(work) \in Nat \ {0} /\ DOMAIN work = 1 .. Len(work)
      /\ work[1] \in Item
      /\ Tail(work) \in Seq(Item) /\ DOMAIN Tail(work) = 1 .. (Len(work) - 1)
      /\ \A i \in 1 .. (Len(work) - 1) : Tail(work)[i] = work[i + 1]
  BY <1>1
<1>3. 1 \in DOMAIN work
  BY <1>2
<1>4. work[1].page[1] \in KernelAreas =>
        work[1].do = "back" /\ work[1].where = Here
          /\ \A x \in DOMAIN entry : x[2] # work[1].page
  BY <1>3 DEF PagingInv, WorkOK, KernelWorkOK
<1>5. work[1].page[1] \in UserAreas =>
        /\ phase = "made" /\ current \notin UserSpace
        /\ work[1].do = "back" => "there" \in work[1].where
  BY <1>3 DEF PagingInv, WorkOK, UserWorkOK
<1>6. phase = "made" => New \in UserSpace
  BY DEF PagingInv, StageOK
<1> QED
  BY <1>2, <1>4, <1>5, <1>6

\* What BackPage does to the tables.
Backed(v) ==
  /\ TablesOK(table', entry', frames', New)
  /\ frames' \in Nat /\ frames' > frames
  /\ \A w \in Page : w # v =>
       \A z \in 0 .. New : Found(table', entry', z, w) = Found(table, entry, z, w)
  /\ v[1] \in UserAreas => \A z \in (0 .. New) \cap UserSpace :
       z # New => Found(table', entry', z, v) = Found(table, entry, z, v)
  /\ "here" \in work[1].where => Found(table', entry', current, v) = frames + 1
  /\ "there" \in work[1].where => Found(table', entry', New, v) = frames + 1
  /\ \A x \in DOMAIN entry' : x \in DOMAIN entry \/ x[2] = v

LEMMA BackPageBacks ==
  ASSUME PagingInv, BackPage
  PROVE  Backed(work[1].page)
<1>1. PICK v : v = work[1].page
  OBVIOUS
<1>2. PICK f : f = frames + 1
  OBVIOUS
<1>3. /\ v \in Page /\ work[1].where \in SUBSET {"here", "there"} /\ Head(work) = work[1]
      /\ work[1].do = "back" /\ New \in Nat /\ current \in 0 .. New /\ frames \in Nat
  BY <1>1, HeadOfWork DEF BackPage, Item, PagingInv, StageOK, Space, TablesOK, TablesTyped
<1>4. /\ v[1] \in KernelAreas => work[1].where = Here /\ \A x \in DOMAIN entry : x[2] # v
      /\ v[1] \in UserAreas =>
           New \in UserSpace /\ current \notin UserSpace /\ "there" \in work[1].where
      /\ v[1] \in KernelAreas \cup UserAreas
  BY <1>1, <1>3, HeadOfWork, PageFacts DEF BackPage
<1>5. TablesOK(table, entry, f, New) /\ f \in 1 .. f
  <2>1. TablesOK(table, entry, frames, New)
    BY DEF PagingInv
  <2>2. /\ table \in [0 .. New -> [Regions -> 0 .. f]]
        /\ DOMAIN entry \subseteq (1 .. f) \X Page /\ \A x \in DOMAIN entry : entry[x] \in 1 .. f
    <3>1. /\ table \in [0 .. New -> [Regions -> 0 .. frames]]
          /\ DOMAIN entry \subseteq (1 .. frames) \X Page
          /\ \A x \in DOMAIN entry : entry[x] \in 1 .. frames
      BY <2>1 DEF TablesOK, TablesTyped
    <3>2. 0 .. frames \subseteq 0 .. f /\ 1 .. frames \subseteq 1 .. f
      BY <1>2, <1>3
    <3> QED
      BY <3>1, <3>2
  <2> QED
    BY <1>2, <1>3, <2>1, <2>2 DEF TablesOK, TablesTyped
<1>6. PICK m : m = Fresh(Memory) /\ m.table = table /\ m.entry = entry /\ m.frames = f
  <2>1. Fresh(Memory) = [table |-> table, entry |-> entry, frames |-> f]
    BY <1>2 DEF Fresh, Memory
  <2> QED
    BY <2>1
<1>7. PICK h : h = IF "here" \in work[1].where THEN Mapped(m, current, v, f) ELSE m
  OBVIOUS
<1>8. PICK g : g = IF "there" \in work[1].where THEN Mapped(h, New, v, f) ELSE h
  OBVIOUS
<1>9. table' = g.table /\ entry' = g.entry /\ frames' = g.frames
  BY <1>1, <1>2, <1>3, <1>6, <1>7, <1>8 DEF BackPage, Becomes
<1>10. /\ TablesOK(h.table, h.entry, h.frames, New) /\ h.frames >= f
       /\ \A w \in Page : w # v =>
            \A z \in 0 .. New : Found(h.table, h.entry, z, w) = Found(table, entry, z, w)
       /\ v[1] \in UserAreas => \A z \in (0 .. New) \cap UserSpace :
            Found(h.table, h.entry, z, v) = Found(table, entry, z, v)
       /\ "here" \in work[1].where => Found(h.table, h.entry, current, v) = f
       /\ \A x \in DOMAIN h.entry : x \in DOMAIN entry \/ x[2] = v
  <2>1. CASE "here" \in work[1].where
    <3>1. PICK t : MapsTo(table, entry, f, New, current, v, f, h.table, h.entry, h.frames, t)
      BY <1>3, <1>5, <1>6, <1>7, <2>1, MappedMaps DEF TablesOK
    <3>2. TablesOK(h.table, h.entry, h.frames, New) /\ h.frames >= f
      BY <1>3, <1>4, <1>5, <3>1, MapKeepsTables
    <3>3. /\ Found(h.table, h.entry, current, v) = f
          /\ \A w \in Page : w # v =>
               \A z \in 0 .. New : Found(h.table, h.entry, z, w) = Found(table, entry, z, w)
          /\ v[1] \in UserAreas => \A z \in (0 .. New) \ {current} :
               current \in UserSpace \/ z \in UserSpace
                 => Found(h.table, h.entry, z, v) = Found(table, entry, z, v)
      BY <1>3, <1>5, <3>1, MapFinds
    <3>4. \A x \in DOMAIN h.entry : x \in DOMAIN entry \/ x[2] = v
      BY <3>1 DEF MapsTo
    <3> QED
      BY <1>4, <3>2, <3>3, <3>4
  <2>2. CASE "here" \notin work[1].where
    <3>1. h = m
      BY <1>7, <2>2
    <3> QED
      BY <1>2, <1>3, <1>5, <1>6, <2>2, <3>1
  <2> QED
    BY <2>1, <2>2
<1>11. CASE "there" \in work[1].where
  <2>1. v[1] \in UserAreas /\ New \in UserSpace /\ current \in (0 .. New) \ {New}
    BY <1>3, <1>4, <1>11 DEF Here
  <2>2. h.frames \in Nat /\ f \in 1 .. h.frames /\ TablesTyped(h.table, h.entry, h.frames, New)
    BY <1>2, <1>3, <1>10 DEF TablesOK, TablesTyped
  <2>3. PICK t : MapsTo(h.table, h.entry, h.frames, New, New, v, f,
                        g.table, g.entry, g.frames, t)
    BY <1>3, <1>8, <1>11, <2>2, MappedMaps
  <2>4. v[1] \notin KernelAreas
    BY <2>1 DEF KernelAreas, UserAreas
  <2>5. TablesOK(g.table, g.entry, g.frames, New) /\ g.frames >= h.frames
    BY <1>3, <1>10, <2>2, <2>3, <2>4, MapKeepsTables
  <2>6. /\ Found(g.table, g.entry, New, v) = f
        /\ \A w \in Page : w # v =>
             \A z \in 0 .. New : Found(g.table, g.entry, z, w) = Found(h.table, h.entry, z, w)
        /\ \A z \in (0 .. New) \ {New} :
               Found(g.table, g.entry, z, v) = Found(h.table, h.entry, z, v)
    BY <1>3, <1>10, <2>1, <2>2, <2>3, MapFinds
  <2>7. \A x \in DOMAIN g.entry : x \in DOMAIN entry \/ x[2] = v
    BY <1>10, <2>3 DEF MapsTo
  <2>8. g.frames \in Nat /\ g.frames > frames
    BY <1>2, <1>3, <1>10, <2>2, <2>5 DEF TablesOK, TablesTyped
  <2> QED
    BY <1>1, <1>2, <1>9, <1>10, <1>11, <2>1, <2>5, <2>6, <2>7, <2>8 DEF Backed
<1>12. CASE "there" \notin work[1].where
  <2>1. g = h /\ h.frames \in Nat /\ h.frames > frames
    BY <1>2, <1>3, <1>8, <1>10, <1>12 DEF TablesOK, TablesTyped
  <2> QED
    BY <1>1, <1>2, <1>9, <1>10, <1>12, <2>1 DEF Backed
<1> QED
  BY <1>11, <1>12

-----------------------------------------------------------------------------
\* The rest of the work is what it was, one place nearer.
LEMMA WorkAdvances ==
  ASSUME PagingInv, Busy, work' = Tail(work)
  PROVE  /\ work' \in Seq(Item)
         /\ \A i \in DOMAIN work' : i \in Nat \ {0} /\ i + 1 \in DOMAIN work /\ work'[i] = work[i + 1]
         /\ \A i \in DOMAIN work : i # 1 => i - 1 \in DOMAIN work' /\ work'[i - 1] = work[i]
  BY HeadOfWork

\* The parts of the invariant that BackPage and TouchPage leave alone.
LEMMA StageStays ==
  ASSUME PagingInv, UNCHANGED <<low, current, lastStack, heapEnd, phase, nested>>,
         DOMAIN table' = DOMAIN table, tlb' = tlb \/ phase = "made"
  PROVE  StageOK' /\ New' = New
  BY DEF PagingInv, StageOK, New, Spaces

\* A page that is placed stays placed.
LEMMA PlacesStay ==
  ASSUME PagingInv, Busy, work' = Tail(work), UNCHANGED <<heapEnd, lastStack>>,
         \A x \in DOMAIN entry' : x \in DOMAIN entry \/ x[2] = work[1].page
  PROVE  PagesPlaced'
<1>1. PagesPlaced
  BY DEF PagingInv
<1>2. \A w : PagePlaced(w)' <=> PagePlaced(w)
  BY DEF PagePlaced, IsGuard
<1>3. 1 \in DOMAIN work
  BY HeadOfWork
<1>4. ASSUME NEW x \in DOMAIN entry' PROVE PagePlaced(x[2])
  BY <1>1, <1>3, <1>4 DEF PagesPlaced
<1>5. ASSUME NEW i \in DOMAIN work' PROVE PagePlaced(work'[i].page)
  BY <1>1, <1>5, WorkAdvances DEF PagesPlaced
<1> QED
  BY <1>2, <1>4, <1>5 DEF PagesPlaced

LEMMA BackKeepsKernelWork ==
  ASSUME PagingInv, BackPage
  PROVE  KernelWorkOK'
<1>0. Busy /\ work' = Tail(work)
  BY DEF BackPage
<1>1. Backed(work[1].page)
  BY BackPageBacks
<1> SUFFICES ASSUME NEW i \in DOMAIN work', work'[i].page[1] \in KernelAreas
             PROVE  /\ work'[i].do = "back" /\ work'[i].where = Here
                    /\ \A x \in DOMAIN entry' : x[2] # work'[i].page
                    /\ \A j \in DOMAIN work' : i < j => work'[j].page # work'[i].page
  BY DEF KernelWorkOK
<1>2. PICK k : k = i + 1 /\ k \in DOMAIN work /\ work'[i] = work[k] /\ i \in Nat \ {0}
  BY <1>0, WorkAdvances
<1>3. /\ work[k].do = "back" /\ work[k].where = Here
      /\ \A x \in DOMAIN entry : x[2] # work[k].page
      /\ \A j \in DOMAIN work : k < j => work[j].page # work[k].page
  BY <1>2 DEF PagingInv, WorkOK, KernelWorkOK
<1>4. work[1].page # work[k].page
  <2>1. CASE work[1].page[1] \in KernelAreas
    <3>1. 1 \in DOMAIN work /\ 1 < k
      BY <1>0, <1>2, HeadOfWork
    <3> QED
      BY <1>2, <2>1, <3>1 DEF PagingInv, WorkOK, KernelWorkOK
  <2>2. CASE work[1].page[1] \notin KernelAreas
    BY <1>2, <2>2
  <2> QED
    BY <2>1, <2>2
<1>5. \A x \in DOMAIN entry' : x[2] # work[k].page
  BY <1>1, <1>3, <1>4 DEF Backed
<1>6. ASSUME NEW j \in DOMAIN work', i < j PROVE work'[j].page # work'[i].page
  <2>1. j \in Nat /\ j + 1 \in DOMAIN work /\ work'[j] = work[j + 1] /\ k < j + 1
    BY <1>0, <1>2, <1>6, WorkAdvances
  <2> QED
    BY <1>2, <1>3, <2>1
<1> QED
  BY <1>2, <1>3, <1>5, <1>6

\* What BackPage does to the pages a task needs, seen from the spaces.
LEMMA BackFinds ==
  ASSUME PagingInv, BackPage, NEW v \in Needed
  PROVE  /\ v # work[1].page =>
              \A z \in 0 .. New : Found(table', entry', z, v) = Found(table, entry, z, v)
         /\ v = work[1].page =>
              /\ New \in UserSpace
              /\ Found(table', entry', New, v) = frames + 1
              /\ Found(table', entry', current, v) = frames + 1
              /\ \A z \in (0 .. New) \cap UserSpace :
                   z # New => Found(table', entry', z, v) = Found(table, entry, z, v)
<1>1. Backed(work[1].page) /\ Busy
  BY BackPageBacks DEF BackPage
<1>2. v \in Page /\ v[1] \in UserAreas
  BY NeededFacts
<1>3. v = work[1].page => /\ New \in UserSpace /\ "there" \in work[1].where
                          /\ "here" \in work[1].where
  <2>1. 1 \in DOMAIN work /\ work[1].do = "back"
    BY <1>1, HeadOfWork DEF BackPage
  <2>2. v = work[1].page => /\ "there" \in work[1].where /\ "here" \in work[1].where
                            /\ phase = "made"
    BY <1>2, <2>1 DEF PagingInv, WorkOK, UserWorkOK
  <2> QED
    BY <2>2 DEF PagingInv, StageOK
<1> QED
  BY <1>1, <1>2, <1>3 DEF Backed

\* Physical is Found in the tables as they are.
LEMMA PhysicalIs ==
  /\ \A s, v : Physical(s, v) = Found(table, entry, s, v)
  /\ \A s, v : Physical(s, v)' = Found(table', entry', s, v)
  BY DEF Physical, Found, Region

LEMMA BackKeepsUserWork ==
  ASSUME PagingInv, BackPage
  PROVE  UserWorkOK'
<1>0. /\ Busy /\ work' = Tail(work) /\ UNCHANGED <<current, phase>> /\ work[1].do = "back"
      /\ New \in Nat /\ current \in 0 .. New /\ frames \in Nat
  BY HeadOfWork DEF BackPage, PagingInv, StageOK, Space, TablesOK, TablesTyped
<1>1. New' = New
  <2>1. DOMAIN table' = 0 .. New /\ DOMAIN table = 0 .. New
    BY BackPageBacks DEF Backed, TablesOK, TablesTyped, PagingInv
  <2> QED
    BY <2>1 DEF New, Spaces
<1> SUFFICES ASSUME NEW i \in DOMAIN work', work'[i].page[1] \in UserAreas
             PROVE  /\ phase' = "made" /\ current' \notin UserSpace
                    /\ work'[i].do = "back" =>
                         /\ "there" \in work'[i].where
                         /\ work'[i].page \in Needed => "here" \in work'[i].where
                    /\ work'[i].do = "touch" =>
                         /\ work'[i].page \in Needed
                         /\ Ready(work[i].page)' \/ \E j \in 1 .. (i - 1) : BackIn(j, work[i].page)'
                         /\ \A j \in DOMAIN work' : i < j => ~BackIn(j, work[i].page)'
  BY DEF UserWorkOK
<1>2. PICK k : k = i + 1 /\ k \in DOMAIN work /\ work'[i] = work[k] /\ i \in Nat \ {0}
  BY <1>0, WorkAdvances
<1>3. /\ phase = "made" /\ current \notin UserSpace
      /\ work[k].do = "back" =>
           /\ "there" \in work[k].where
           /\ work[k].page \in Needed => "here" \in work[k].where
      /\ work[k].do = "touch" =>
           /\ work[k].page \in Needed
           /\ Ready(work[k].page) \/ \E j \in 1 .. (k - 1) : BackIn(j, work[k].page)
           /\ \A j \in DOMAIN work : k < j => ~BackIn(j, work[k].page)
  BY <1>2 DEF PagingInv, WorkOK, UserWorkOK
<1>4. ASSUME work'[i].do = "touch"
      PROVE  Ready(work[i].page)' \/ \E j \in 1 .. (i - 1) : BackIn(j, work[i].page)'
  <2>1. PICK v : v = work[k].page /\ v \in Needed
    BY <1>2, <1>3, <1>4
  <2>2. Ready(v)' <=> /\ Found(table', entry', New, v) # 0
                      /\ Found(table', entry', current, v) = Found(table', entry', New, v)
    BY <1>0, <1>1, PhysicalIs DEF Ready
  <2>3. CASE v = work[1].page
    <3>1. Ready(v)'
      BY <1>0, <2>1, <2>2, <2>3, BackFinds
    <3> QED
      BY <1>2, <2>1, <3>1
  <2>4. CASE v # work[1].page /\ Ready(v)
    <3>1. Ready(v)'
      BY <1>0, <2>1, <2>2, <2>4, BackFinds, PhysicalIs DEF Ready
    <3> QED
      BY <1>2, <2>1, <3>1
  <2>5. CASE v # work[1].page /\ \E j \in 1 .. (k - 1) : BackIn(j, v)
    <3>1. PICK j \in 1 .. (k - 1) : BackIn(j, v)
      BY <2>5
    <3>2. j \in DOMAIN work /\ j # 1
      BY <1>0, <1>2, <2>5, <3>1, HeadOfWork DEF BackIn
    <3>3. j - 1 \in 1 .. (i - 1) /\ work'[j - 1] = work[j]
      BY <1>0, <1>2, <3>1, <3>2, WorkAdvances
    <3>4. BackIn(j - 1, v)'
      BY <3>1, <3>3 DEF BackIn
    <3> QED
      BY <1>2, <2>1, <3>3, <3>4
  <2> QED
    BY <1>2, <1>3, <1>4, <2>1, <2>3, <2>4, <2>5
<1>5. ASSUME work'[i].do = "touch", NEW j \in DOMAIN work', i < j
      PROVE  ~BackIn(j, work[i].page)'
  <2>1. j \in Nat /\ j + 1 \in DOMAIN work /\ work'[j] = work[j + 1] /\ k < j + 1
    BY <1>0, <1>2, <1>5, WorkAdvances
  <2>2. ~BackIn(j + 1, work[k].page)
    BY <1>2, <1>3, <1>5, <2>1
  <2> QED
    BY <1>2, <2>1, <2>2 DEF BackIn
<1> QED
  BY <1>0, <1>2, <1>3, <1>4, <1>5

\* A frame that is found was handed out.
LEMMA FoundIsFrame ==
  ASSUME TablesOK(table, entry, frames, New), NEW z, NEW v
  PROVE  Found(table, entry, z, v) \in 0 .. frames
  BY DEF TablesOK, TablesTyped, Found

LEMMA BackKeepsFrames ==
  ASSUME PagingInv, BackPage
  PROVE  FramesPrivate(table', entry', New)
<1>1. /\ Backed(work[1].page) /\ frames \in Nat /\ work[1].do = "back" /\ Busy
      /\ TablesOK(table, entry, frames, New) /\ FramesPrivate(table, entry, New)
  BY BackPageBacks, HeadOfWork DEF PagingInv, TablesOK, TablesTyped, BackPage
<1> SUFFICES ASSUME NEW s \in (0 .. New) \cap UserSpace,
                    NEW t \in ((0 .. New) \cap UserSpace) \ {s},
                    NEW v \in Page, v[1] \in UserAreas, Found(table', entry', s, v) # 0
             PROVE  Found(table', entry', t, v) # Found(table', entry', s, v)
  BY DEF FramesPrivate
<1>2. Found(table, entry, s, v) # 0 => Found(table, entry, t, v) # Found(table, entry, s, v)
  BY <1>1 DEF FramesPrivate
<1>3. CASE v # work[1].page
  BY <1>1, <1>2, <1>3 DEF Backed
<1>4. CASE v = work[1].page
  <2>1. Found(table', entry', New, v) = frames + 1
    BY <1>1, <1>4, HeadOfWork DEF Backed
  <2>2. \A z \in (0 .. New) \cap UserSpace :
          z # New => Found(table', entry', z, v) = Found(table, entry, z, v)
    BY <1>1, <1>4 DEF Backed
  <2>3. Found(table, entry, s, v) \in 0 .. frames /\ Found(table, entry, t, v) \in 0 .. frames
    BY <1>1, FoundIsFrame
  <2> QED
    BY <1>1, <1>2, <2>1, <2>2, <2>3
<1> QED
  BY <1>3, <1>4

\* Work that is left is work that was.
LEMMA BackWasIn ==
  ASSUME PagingInv, Busy, work' = Tail(work), NEW v, \A i \in DOMAIN work : ~BackIn(i, v)
  PROVE  \A i \in DOMAIN work' : ~BackIn(i, v)'
  BY WorkAdvances DEF BackIn

LEMMA BackKeepsCache ==
  ASSUME PagingInv, BackPage, New' = New
  PROVE  CacheOK'
<1>1. Busy /\ work' = Tail(work) /\ tlb' = tlb /\ work[1].do = "back" /\ New \in Nat
      /\ 1 \in DOMAIN work /\ nested' = nested /\ frames \in Nat /\ frames' \in Nat /\ frames' > frames
  BY HeadOfWork, BackPageBacks
     DEF BackPage, PagingInv, StageOK, Space, TablesOK, TablesTyped, Backed
<1> SUFFICES ASSUME NEW v \in DOMAIN tlb'
             PROVE  /\ v \in Needed /\ tlb'[v] \in 1 .. frames'
                    /\ New \notin nested =>
                         tlb'[v] = Physical(New, v)' /\ \A i \in DOMAIN work' : ~BackIn(i, v)'
  BY <1>1 DEF CacheOK, Needed
<1>2. /\ v \in Needed /\ tlb[v] \in 1 .. frames
      /\ New \notin nested =>
           tlb[v] = Physical(New, v) /\ \A i \in DOMAIN work : ~BackIn(i, v)
  BY <1>1 DEF PagingInv, CacheOK
<1>3. tlb'[v] \in 1 .. frames'
  BY <1>1, <1>2
<1>4. ASSUME New \notin nested
      PROVE  tlb'[v] = Physical(New, v)' /\ \A i \in DOMAIN work' : ~BackIn(i, v)'
  <2>1. v # work[1].page
    BY <1>1, <1>2, <1>4 DEF BackIn
  <2>2. Physical(New, v)' = Physical(New, v)
    BY <1>1, <1>2, <2>1, BackFinds, PhysicalIs
  <2> QED
    BY <1>1, <1>2, <1>4, <2>2, BackWasIn
<1> QED
  BY <1>2, <1>3, <1>4

LEMMA BackKeepsWrote ==
  ASSUME PagingInv, BackPage, New' = New
  PROVE  WroteOK'
<1>1. Busy /\ work' = Tail(work) /\ UNCHANGED <<wrote, nested>> /\ work[1].do = "back" /\ New \in Nat
      /\ 1 \in DOMAIN work /\ frames \in Nat /\ frames' \in Nat /\ frames' > frames
  BY HeadOfWork, BackPageBacks
     DEF BackPage, PagingInv, StageOK, Space, TablesOK, TablesTyped, Backed
<1>2. DOMAIN wrote = 1 .. New
  BY DEF PagingInv, WroteOK
<1> SUFFICES ASSUME NEW s \in DOMAIN wrote', NEW w \in wrote'[s]
             PROVE  /\ s \in UserSpace
                    /\ w \in Needed \X (1 .. frames')
                    /\ s \notin nested => w[2] = Physical(s, w[1])'
                    /\ s = New => \A i \in DOMAIN work' : ~BackIn(i, w[1])'
  BY <1>1, <1>2 DEF WroteOK
<1>3. /\ s \in UserSpace /\ s \in 1 .. New
      /\ w \in Needed \X (1 .. frames) /\ (s \notin nested => w[2] = Physical(s, w[1]))
      /\ s = New => \A i \in DOMAIN work : ~BackIn(i, w[1])
  BY <1>1, <1>2 DEF PagingInv, WroteOK
<1>4. w[1] \in Needed /\ w \in Needed \X (1 .. frames')
  BY <1>1, <1>3
<1>5. s = New => w[1] # work[1].page
  BY <1>1, <1>3 DEF BackIn
<1>6. Physical(s, w[1])' = Physical(s, w[1])
  BY <1>1, <1>3, <1>4, <1>5, BackFinds, PhysicalIs
<1>7. s = New => \A i \in DOMAIN work' : ~BackIn(i, w[1])'
  BY <1>1, <1>3, BackWasIn
<1> QED
  BY <1>3, <1>4, <1>6, <1>7

LEMMA BackKeepsNeeded ==
  ASSUME PagingInv, BackPage, New' = New
  PROVE  NeededBacked'
<1>1. /\ Busy /\ work' = Tail(work) /\ New \in Nat /\ frames \in Nat
      /\ Spaces = 0 .. New /\ Spaces' = 0 .. New
  <2>1. DOMAIN table' = 0 .. New
    BY BackPageBacks DEF Backed, TablesOK, TablesTyped
  <2> QED
    BY <2>1 DEF BackPage, PagingInv, StageOK, Space, TablesOK, TablesTyped, Spaces
<1> SUFFICES ASSUME NEW s \in (0 .. New) \cap UserSpace, NEW v \in Needed
             PROVE  \/ Physical(s, v)' # 0
                    \/ s = New /\ \E i \in DOMAIN work' : BackIn(i, v)'
  BY <1>1 DEF NeededBacked, UserSpace
<1>2. \/ Physical(s, v) # 0
      \/ s = New /\ \E i \in DOMAIN work : BackIn(i, v)
  BY <1>1 DEF PagingInv, NeededBacked
<1>3. CASE v = work[1].page
  BY <1>1, <1>2, <1>3, BackFinds, PhysicalIs
<1>4. CASE v # work[1].page /\ Physical(s, v) # 0
  BY <1>1, <1>4, BackFinds, PhysicalIs
<1>5. CASE v # work[1].page /\ s = New /\ \E i \in DOMAIN work : BackIn(i, v)
  <2>1. PICK i \in DOMAIN work : BackIn(i, v)
    BY <1>5
  <2>2. i # 1
    BY <1>5, <2>1 DEF BackIn
  <2>3. i - 1 \in DOMAIN work' /\ BackIn(i - 1, v)'
    BY <1>1, <2>1, <2>2, WorkAdvances DEF BackIn
  <2> QED
    BY <1>5, <2>3
<1> QED
  BY <1>2, <1>3, <1>4, <1>5

\* The tables and the frames of the next state.
LEMMA TablesNext ==
  ASSUME TablesOK(table', entry', frames', New'), FramesPrivate(table', entry', New')
  PROVE  TablesOK(table, entry, frames, New)' /\ FramesPrivate(table, entry, New)'
  BY DEF TablesOK, TablesTyped, BootTablesShared, KernelEntries, UserTablesPrivate,
         FramesPrivate, Found, Region, Regions, Page, StackArea, UserSpace

LEMMA BackPageStep ==
  ASSUME PagingInv, BackPage
  PROVE  PagingInv'
<1>1. /\ Backed(work[1].page) /\ Busy /\ work' = Tail(work)
      /\ UNCHANGED <<low, current, tlb, lastStack, heapEnd, phase, wrote, nested>>
  BY BackPageBacks DEF BackPage
<1>2. DOMAIN table' = DOMAIN table
  BY <1>1 DEF Backed, TablesOK, TablesTyped, PagingInv
<1>3. StageOK' /\ New' = New
  BY <1>1, <1>2, StageStays
<1>4. TablesOK(table, entry, frames, New)' /\ FramesPrivate(table, entry, New)'
  <2>1. TablesOK(table', entry', frames', New') /\ FramesPrivate(table', entry', New')
    BY <1>1, <1>3, BackKeepsFrames DEF Backed
  <2> QED
    BY <2>1, TablesNext
<1>5. PagesPlaced'
  BY <1>1, PlacesStay DEF Backed
<1>6. WorkOK'
  BY <1>1, WorkAdvances, BackKeepsKernelWork, BackKeepsUserWork DEF WorkOK, Item, Page, StackArea
<1> QED
  BY <1>3, <1>4, <1>5, <1>6, BackKeepsCache, BackKeepsWrote, BackKeepsNeeded DEF PagingInv

-----------------------------------------------------------------------------
\* A write to a page of the new task: the page is the task's own.
LEMMA TouchedPage ==
  ASSUME PagingInv, TouchPage
  PROVE  /\ Busy /\ work' = Tail(work) /\ 1 \in DOMAIN work /\ work[1].page \in Needed
         /\ phase = "made" /\ New \in UserSpace
         /\ Translated(work[1].page) \in 1 .. frames
         /\ New \notin nested => Translated(work[1].page) = Physical(New, work[1].page)
         /\ \A j \in DOMAIN work : 1 < j => ~BackIn(j, work[1].page)
<1>1. Busy /\ work' = Tail(work) /\ 1 \in DOMAIN work /\ work[1].do = "touch" /\ work[1] \in Item
  BY HeadOfWork DEF TouchPage
<1>2. work[1].page[1] \in UserAreas
  <2>1. work[1].page \in Page
    BY <1>1 DEF Item
  <2>2. work[1].page[1] \notin KernelAreas
    BY <1>1, HeadOfWork
  <2> QED
    BY <2>1, <2>2, PageFacts
<1>3. /\ phase = "made" /\ work[1].page \in Needed /\ Ready(work[1].page)
      /\ \A j \in DOMAIN work : 1 < j => ~BackIn(j, work[1].page)
  <2>1. 1 .. (1 - 1) = {}
    OBVIOUS
  <2> QED
    BY <1>1, <1>2, <2>1 DEF PagingInv, WorkOK, UserWorkOK
<1>4. New \in UserSpace
  BY <1>3 DEF PagingInv, StageOK
<1>5. New \notin nested => Translated(work[1].page) = Physical(New, work[1].page)
  BY <1>3 DEF Translated, Ready, PagingInv, CacheOK
<1>6. Translated(work[1].page) \in 1 .. frames
  <2>1. CASE work[1].page \in DOMAIN tlb
    BY <2>1 DEF Translated, PagingInv, CacheOK
  <2>2. CASE work[1].page \notin DOMAIN tlb
    <3>1. Translated(work[1].page) # 0 /\ Translated(work[1].page) \in 0 .. frames
      BY <1>3, <2>2, PhysicalIs, FoundIsFrame DEF Translated, Ready, PagingInv
    <3>2. frames \in Nat
      BY DEF PagingInv, TablesOK, TablesTyped
    <3> QED
      BY <3>1, <3>2
  <2> QED
    BY <2>1, <2>2
<1> QED
  BY <1>1, <1>3, <1>4, <1>5, <1>6

LEMMA TouchKeepsWork ==
  ASSUME PagingInv, TouchPage, New' = New
  PROVE  WorkOK'
<1>0. /\ Busy /\ work' = Tail(work) /\ UNCHANGED <<table, entry, current, phase>>
      /\ work[1].do = "touch"
  BY HeadOfWork DEF TouchPage
<1>1. KernelWorkOK'
  <2> SUFFICES ASSUME NEW i \in DOMAIN work', work'[i].page[1] \in KernelAreas
               PROVE  /\ work'[i].do = "back" /\ work'[i].where = Here
                      /\ \A x \in DOMAIN entry' : x[2] # work'[i].page
                      /\ \A j \in DOMAIN work' : i < j => work'[j].page # work'[i].page
    BY DEF KernelWorkOK
  <2>1. i \in Nat /\ i + 1 \in DOMAIN work /\ work'[i] = work[i + 1]
    BY <1>0, WorkAdvances
  <2>2. /\ work[i + 1].do = "back" /\ work[i + 1].where = Here
        /\ \A x \in DOMAIN entry : x[2] # work[i + 1].page
        /\ \A j \in DOMAIN work : i + 1 < j => work[j].page # work[i + 1].page
    BY <2>1 DEF PagingInv, WorkOK, KernelWorkOK
  <2>3. \A j \in DOMAIN work' : i < j => work'[j].page # work'[i].page
    BY <1>0, <2>1, <2>2, WorkAdvances
  <2> QED
    BY <1>0, <2>1, <2>2, <2>3
<1>2. UserWorkOK'
  <2> SUFFICES ASSUME NEW i \in DOMAIN work', work'[i].page[1] \in UserAreas
               PROVE  /\ phase' = "made" /\ current' \notin UserSpace
                      /\ work'[i].do = "back" =>
                           /\ "there" \in work'[i].where
                           /\ work'[i].page \in Needed => "here" \in work'[i].where
                      /\ work'[i].do = "touch" =>
                           /\ work'[i].page \in Needed
                           /\ Ready(work[i].page)'
                              \/ \E j \in 1 .. (i - 1) : BackIn(j, work[i].page)'
                           /\ \A j \in DOMAIN work' : i < j => ~BackIn(j, work[i].page)'
    BY DEF UserWorkOK
  <2>1. PICK k : k = i + 1 /\ k \in DOMAIN work /\ work'[i] = work[k] /\ i \in Nat \ {0}
    BY <1>0, WorkAdvances
  <2>2. /\ phase = "made" /\ current \notin UserSpace
        /\ work[k].do = "back" =>
             /\ "there" \in work[k].where
             /\ work[k].page \in Needed => "here" \in work[k].where
        /\ work[k].do = "touch" =>
             /\ work[k].page \in Needed
             /\ Ready(work[k].page) \/ \E j \in 1 .. (k - 1) : BackIn(j, work[k].page)
             /\ \A j \in DOMAIN work : k < j => ~BackIn(j, work[k].page)
    BY <2>1 DEF PagingInv, WorkOK, UserWorkOK
  <2>3. Ready(work[k].page) => Ready(work[i].page)'
    BY <1>0, <2>1, PhysicalIs DEF Ready
  <2>4. ASSUME NEW j \in 1 .. (k - 1), BackIn(j, work[k].page)
        PROVE  \E l \in 1 .. (i - 1) : BackIn(l, work[i].page)'
    <3>1. j \in DOMAIN work /\ j # 1
      BY <1>0, <2>1, <2>4, HeadOfWork DEF BackIn
    <3>2. j - 1 \in 1 .. (i - 1) /\ BackIn(j - 1, work[i].page)'
      BY <1>0, <2>1, <2>4, <3>1, WorkAdvances DEF BackIn
    <3> QED
      BY <3>2
  <2>5. ASSUME work[k].do = "touch", NEW j \in DOMAIN work', i < j
        PROVE  ~BackIn(j, work[i].page)'
    <3>1. j \in Nat /\ j + 1 \in DOMAIN work /\ work'[j] = work[j + 1] /\ k < j + 1
      BY <1>0, <2>1, <2>5, WorkAdvances
    <3>2. ~BackIn(j + 1, work[k].page)
      BY <2>2, <2>5, <3>1
    <3> QED
      BY <2>1, <3>1, <3>2 DEF BackIn
  <2> QED
    BY <1>0, <2>1, <2>2, <2>3, <2>4, <2>5
<1> QED
  BY <1>0, <1>1, <1>2, WorkAdvances DEF WorkOK, Item, Page, StackArea

LEMMA TouchPageStep ==
  ASSUME PagingInv, TouchPage
  PROVE  PagingInv'
<1>1. PICK v : v = work[1].page
  OBVIOUS
<1>2. /\ Busy /\ work' = Tail(work) /\ v \in Needed /\ phase = "made" /\ New \in UserSpace
      /\ Translated(v) \in 1 .. frames /\ (New \notin nested => Translated(v) = Physical(New, v))
      /\ \A j \in DOMAIN work : 1 < j => ~BackIn(j, v)
      /\ Head(work) = work[1]
  BY <1>1, TouchedPage, HeadOfWork
<1>3. UNCHANGED <<table, entry, frames, low, current, lastStack, heapEnd, phase, nested>>
  BY DEF TouchPage
<1>4. StageOK' /\ New' = New
  BY <1>2, <1>3, StageStays
<1>5. TablesOK(table, entry, frames, New)' /\ FramesPrivate(table, entry, New)'
  <2>1. TablesOK(table', entry', frames', New') /\ FramesPrivate(table', entry', New')
    BY <1>3, <1>4 DEF PagingInv
  <2> QED
    BY <2>1, TablesNext
<1>6. PagesPlaced'
  BY <1>2, <1>3, PlacesStay
<1>7. \A i \in DOMAIN work' : ~BackIn(i, v)'
  BY <1>2, WorkAdvances DEF BackIn
<1>8. CacheOK'
  <2>1. tlb' = [x \in DOMAIN tlb \cup {v} |-> IF x = v THEN Translated(v) ELSE tlb[x]]
    BY <1>1, <1>2 DEF TouchPage
  <2> SUFFICES ASSUME NEW x \in DOMAIN tlb'
               PROVE  /\ x \in Needed /\ tlb'[x] \in 1 .. frames
                      /\ New \notin nested =>
                           tlb'[x] = Physical(New, x)' /\ \A i \in DOMAIN work' : ~BackIn(i, x)'
    BY <1>3, <1>4 DEF CacheOK, Needed
  <2>2. Physical(New, x)' = Physical(New, x)
    BY <1>3, <1>4, PhysicalIs
  <2>3. CASE x = v
    BY <1>2, <1>7, <2>1, <2>2, <2>3
  <2>4. CASE x # v
    <3>1. /\ x \in Needed /\ tlb[x] \in 1 .. frames
          /\ New \notin nested =>
               tlb[x] = Physical(New, x) /\ \A i \in DOMAIN work : ~BackIn(i, x)
      BY <2>1, <2>4 DEF PagingInv, CacheOK
    <3> QED
      BY <1>2, <2>1, <2>2, <2>4, <3>1, BackWasIn
  <2> QED
    BY <2>3, <2>4
<1>9. WroteOK'
  <2>1. New \in Nat /\ DOMAIN wrote = 1 .. New /\ New \in 1 .. New
    BY <1>2, PagingAssumption DEF PagingInv, StageOK, Space, WroteOK, UserSpace
  <2>2. wrote' = [wrote EXCEPT ![New] = wrote[New] \cup {<<v, Translated(v)>>}]
    BY <1>1, <1>2 DEF TouchPage
  <2>3. DOMAIN wrote' = 1 .. New'
    BY <1>4, <2>1, <2>2
  <2> SUFFICES ASSUME NEW s \in 1 .. New, NEW w \in wrote'[s]
               PROVE  /\ s \in UserSpace
                      /\ w \in Needed \X (1 .. frames)
                      /\ s \notin nested => w[2] = Physical(s, w[1])
                      /\ s = New => \A i \in DOMAIN work' : ~BackIn(i, w[1])'
    BY <1>3, <1>4, <2>3, PhysicalIs DEF WroteOK
  <2>4. CASE w \in wrote[s]
    <3>1. /\ s \in UserSpace
          /\ w \in Needed \X (1 .. frames) /\ (s \notin nested => w[2] = Physical(s, w[1]))
          /\ s = New => \A i \in DOMAIN work : ~BackIn(i, w[1])
      BY <2>1, <2>4 DEF PagingInv, WroteOK
    <3> QED
      BY <1>2, <3>1, BackWasIn
  <2>5. CASE w \notin wrote[s]
    <3>1. s = New /\ w = <<v, Translated(v)>>
      BY <2>1, <2>2, <2>5
    <3>2. w[1] = v /\ w[2] = Translated(v)
      BY <3>1
    <3> QED
      BY <1>2, <1>7, <2>1, <3>1, <3>2
  <2> QED
    BY <2>4, <2>5
<1>10. NeededBacked'
  <2> SUFFICES ASSUME NEW s \in Spaces \cap UserSpace, NEW x \in Needed
               PROVE  \/ Physical(s, x) # 0
                      \/ s = New /\ \E i \in DOMAIN work' : BackIn(i, x)'
    BY <1>3, <1>4, PhysicalIs DEF NeededBacked, Spaces
  <2>1. \/ Physical(s, x) # 0
        \/ s = New /\ \E i \in DOMAIN work : BackIn(i, x)
    BY DEF PagingInv, NeededBacked
  <2>2. ASSUME NEW i \in DOMAIN work, BackIn(i, x)
        PROVE  \E j \in DOMAIN work' : BackIn(j, x)'
    <3>1. i # 1
      BY <1>2, <2>2 DEF BackIn, TouchPage
    <3> QED
      BY <1>2, <2>2, <3>1, WorkAdvances DEF BackIn
  <2> QED
    BY <2>1, <2>2
<1> QED
  BY <1>4, <1>5, <1>6, <1>8, <1>9, <1>10, TouchKeepsWork DEF PagingInv

-----------------------------------------------------------------------------
\* A space is made: the others stay, and the new one is the last.
LEMMA SpacesGrow ==
  ASSUME PagingInv, DOMAIN table' = Spaces \cup {New + 1}
  PROVE  New \in Nat /\ New' = New + 1 /\ Spaces = 0 .. New /\ Spaces' = 0 .. (New + 1)
<1>1. New \in Nat /\ Spaces = 0 .. New
  BY PagingAssumption DEF PagingInv, StageOK, Space
<1>2. DOMAIN table' = 0 .. (New + 1)
  BY <1>1
<1>3. Cardinality(0 .. (New + 1)) = New + 2
  BY <1>1, FS_Interval
<1> QED
  BY <1>1, <1>2, <1>3 DEF New, Spaces

\* _duplicate_pd keeps what holds of the tables, and a user task's own areas
\* are empty.
LEMMA DuplicateKeeps ==
  ASSUME PagingInv, NEW kind \in {"kernel", "user"}, Duplicate(kind),
         kind = "kernel" => New < KernelTasks,
         kind = "user" => KernelTasks <= New
  PROVE  /\ New \in Nat /\ New' = New + 1 /\ Spaces = 0 .. New /\ Spaces' = 0 .. (New + 1)
         /\ TablesOK(table', entry', frames', New') /\ FramesPrivate(table', entry', New')
         /\ \A v : \A s \in 0 .. New : Found(table', entry', s, v) = Found(table, entry, s, v)
         /\ kind = "user" => \A v \in Page : v[1] \in UserAreas =>
              Found(table', entry', New', v) = 0
<1>1. /\ New \in Nat /\ New' = New + 1 /\ Spaces = 0 .. New /\ Spaces' = 0 .. (New + 1)
      /\ entry' = entry /\ frames' = frames /\ current \in 0 .. New
  BY SpacesGrow DEF Duplicate, PagingInv, StageOK
<1>2. PICK n : n = New + 1 /\ n \in Nat /\ n \notin 0 .. New /\ 0 .. n = (0 .. New) \cup {n}
  BY <1>1
<1>3. /\ frames \in Nat /\ table \in [0 .. New -> [Regions -> 0 .. frames]]
      /\ DOMAIN entry \subseteq (1 .. frames) \X Page
      /\ \A x \in DOMAIN entry : entry[x] \in 1 .. frames
      /\ TablesOK(table, entry, frames, New) /\ FramesPrivate(table, entry, New)
  BY DEF PagingInv, TablesOK, TablesTyped
<1>4. PICK row : row = [r \in Regions |-> IF Copied(r, kind) THEN table[current][r] ELSE 0]
  OBVIOUS
<1>5. row \in [Regions -> 0 .. frames]
  BY <1>1, <1>3, <1>4
<1>6. table' = [s \in 0 .. n |-> IF s \in 0 .. New THEN table[s] ELSE row]
  BY <1>1, <1>2, <1>4 DEF Duplicate
<1>7. /\ table' \in [0 .. n -> [Regions -> 0 .. frames]] /\ table'[n] = row
      /\ \A s \in 0 .. New : table'[s] = table[s]
  BY <1>2, <1>3, <1>5, <1>6
<1>8. TablesTyped(table', entry', frames', New')
  BY <1>1, <1>2, <1>3, <1>7 DEF TablesTyped
<1>9. BootTablesShared(table', New')
  <2>1. row[<<"kheap", 0>>] = 1 /\ row[<<"kstack", 0>>] = 2
    BY <1>1, <1>3, <1>4, FirstRegions DEF TablesOK, BootTablesShared, Copied, KernelAreas
  <2> QED
    BY <1>1, <1>2, <1>3, <1>7, <2>1 DEF TablesOK, BootTablesShared
<1>10. KernelEntries(table', entry', New')
  <2> SUFFICES ASSUME NEW x \in DOMAIN entry, x[2][1] \in KernelAreas
               PROVE  /\ \A y \in DOMAIN entry : y[2] = x[2] => y = x
                      /\ \E s \in 0 .. n : table'[s][Region(x[2])] = x[1]
    BY <1>1, <1>2 DEF KernelEntries
  <2>1. /\ \A y \in DOMAIN entry : y[2] = x[2] => y = x
        /\ \E s \in 0 .. New : table[s][Region(x[2])] = x[1]
    BY <1>3 DEF TablesOK, KernelEntries
  <2> QED
    BY <1>2, <1>7, <2>1
<1>11. kind = "kernel" => (0 .. n) \cap UserSpace = {}
  BY <1>1, <1>2, PagingAssumption DEF UserSpace
<1>12. kind = "user" => \A r \in Regions : r[1] \in UserAreas => row[r] = 0
  BY <1>4 DEF Copied, KernelAreas, UserAreas
<1>13. UserTablesPrivate(table', New')
  <2> SUFFICES ASSUME NEW s \in (0 .. n) \cap UserSpace, NEW t \in (0 .. n) \ {s},
                      NEW r \in Regions, r[1] \in UserAreas, table'[s][r] # 0
               PROVE  table'[t][r] # table'[s][r]
    BY <1>1, <1>2 DEF UserTablesPrivate
  <2>1. kind = "user" /\ s # n /\ (t = n => table'[t][r] = 0)
    BY <1>7, <1>11, <1>12
  <2>2. s \in (0 .. New) \cap UserSpace /\ (t # n => t \in (0 .. New) \ {s})
    BY <1>2, <2>1
  <2> QED
    BY <1>3, <1>7, <2>1, <2>2 DEF TablesOK, UserTablesPrivate
<1>14. \A v : \A s \in 0 .. New : Found(table', entry', s, v) = Found(table, entry, s, v)
  BY <1>1, <1>7 DEF Found
<1>15. kind = "user" => \A v \in Page : v[1] \in UserAreas => Found(table', entry', n, v) = 0
  <2> SUFFICES ASSUME kind = "user", NEW v \in Page, v[1] \in UserAreas
               PROVE  Found(table', entry', n, v) = 0
    OBVIOUS
  <2>1. table'[n][Region(v)] = 0
    BY <1>7, <1>12, PageFacts
  <2>2. <<0, v>> \notin DOMAIN entry'
    BY <1>1, <1>3
  <2> QED
    BY <2>1, <2>2 DEF Found
<1>16. FramesPrivate(table', entry', New')
  <2> SUFFICES ASSUME NEW s \in (0 .. n) \cap UserSpace,
                      NEW t \in ((0 .. n) \cap UserSpace) \ {s},
                      NEW v \in Page, v[1] \in UserAreas, Found(table', entry', s, v) # 0
               PROVE  Found(table', entry', t, v) # Found(table', entry', s, v)
    BY <1>1, <1>2 DEF FramesPrivate
  <2>1. kind = "user" /\ s # n /\ (t = n => Found(table', entry', t, v) = 0)
    BY <1>11, <1>15
  <2>2. /\ s \in (0 .. New) \cap UserSpace
        /\ t # n => t \in ((0 .. New) \cap UserSpace) \ {s}
    BY <1>2, <2>1
  <2> QED
    BY <1>3, <1>14, <2>1, <2>2 DEF FramesPrivate
<1> QED
  BY <1>1, <1>2, <1>8, <1>9, <1>10, <1>13, <1>14, <1>15, <1>16 DEF TablesOK

-----------------------------------------------------------------------------
(***************************************************************************)
(* The work of init_cpus and of create_task, taken piece by piece.  A piece *)
(* q backs pages of kernel stacks between the cursors c and d, upwards, and *)
(* writes to pages of the new task that it, or a piece before it, backed:   *)
(* these are the pages B.                                                   *)
(***************************************************************************)
BackedIn(q) == {v \in Page : \E i \in DOMAIN q : q[i].do = "back" /\ q[i].page = v}
TouchedIn(q) == {v \in Page : \E i \in DOMAIN q : q[i].do = "touch" /\ q[i].page = v}

StacksUpwards(q, c, d) ==
  \A i \in DOMAIN q : q[i].page[1] \in KernelAreas =>
    /\ q[i].do = "back" /\ q[i].where = Here /\ q[i].page[1] = "kstack"
    /\ c < q[i].page[2] /\ q[i].page[2] < d /\ ~IsGuard(q[i].page[2])
    /\ \A j \in DOMAIN q : i < j /\ q[j].page[1] \in KernelAreas
                             => q[i].page[2] < q[j].page[2]

WrittenWhenBacked(q, B) ==
  \A i \in DOMAIN q : q[i].page[1] \in UserAreas =>
    /\ q[i].do = "back" =>
         /\ "there" \in q[i].where
         /\ q[i].page \in Needed => "here" \in q[i].where
    /\ q[i].do = "touch" =>
         /\ q[i].page \in Needed
         /\ \/ q[i].page \in B
            \/ \E j \in 1 .. (i - 1) : q[j].do = "back" /\ q[j].page = q[i].page
         /\ \A j \in DOMAIN q : i < j => ~(q[j].do = "back" /\ q[j].page = q[i].page)

Piece(q, B, c, d) ==
  q \in Seq(Item) /\ StacksUpwards(q, c, d) /\ WrittenWhenBacked(q, B)

\* Two pieces in a row.
LEMMA PiecesInARow ==
  ASSUME NEW q, NEW r, NEW B, NEW c \in Nat, NEW d \in Nat, NEW e \in Nat, c <= d, d <= e,
         Piece(q, B, c, d), Piece(r, B \cup BackedIn(q), d, e),
         TouchedIn(q) \cap BackedIn(r) = {}
  PROVE  /\ Piece(q \o r, B, c, e)
         /\ BackedIn(q \o r) = BackedIn(q) \cup BackedIn(r)
         /\ TouchedIn(q \o r) = TouchedIn(q) \cup TouchedIn(r)
<1>1. q \in Seq(Item) /\ r \in Seq(Item) /\ Len(q) \in Nat /\ Len(r) \in Nat
      /\ DOMAIN q = 1 .. Len(q) /\ DOMAIN r = 1 .. Len(r)
  BY DEF Piece
<1>2. PICK p : p = q \o r
  OBVIOUS
<1>3. /\ p \in Seq(Item) /\ DOMAIN p = 1 .. (Len(q) + Len(r))
      /\ \A i \in 1 .. Len(q) : p[i] = q[i]
      /\ \A i \in 1 .. Len(r) : p[i + Len(q)] = r[i]
  BY <1>1, <1>2
<1>4. \A i \in DOMAIN p : \/ i \in DOMAIN q /\ p[i] = q[i]
                          \/ /\ i \in Nat /\ i > Len(q) /\ i - Len(q) \in DOMAIN r
                             /\ p[i] = r[i - Len(q)]
  <2> SUFFICES ASSUME NEW i \in DOMAIN p, i \notin DOMAIN q
               PROVE  /\ i \in Nat /\ i > Len(q) /\ i - Len(q) \in DOMAIN r
                      /\ p[i] = r[i - Len(q)]
    BY <1>1, <1>3
  <2>1. i \in Nat /\ i > Len(q) /\ i - Len(q) \in 1 .. Len(r) /\ i = (i - Len(q)) + Len(q)
    BY <1>1, <1>3
  <2> QED
    BY <1>1, <1>3, <2>1
<1>5. /\ \A i \in DOMAIN q : i \in DOMAIN p /\ p[i] = q[i]
      /\ \A i \in DOMAIN r : i + Len(q) \in DOMAIN p /\ p[i + Len(q)] = r[i]
  BY <1>1, <1>3
<1>6. BackedIn(p) = BackedIn(q) \cup BackedIn(r) /\ TouchedIn(p) = TouchedIn(q) \cup TouchedIn(r)
  BY <1>4, <1>5 DEF BackedIn, TouchedIn
<1>7. StacksUpwards(p, c, e)
  <2> SUFFICES ASSUME NEW i \in DOMAIN p, p[i].page[1] \in KernelAreas
               PROVE  /\ p[i].do = "back" /\ p[i].where = Here /\ p[i].page[1] = "kstack"
                      /\ c < p[i].page[2] /\ p[i].page[2] < e /\ ~IsGuard(p[i].page[2])
                      /\ \A j \in DOMAIN p : i < j /\ p[j].page[1] \in KernelAreas
                                               => p[i].page[2] < p[j].page[2]
    BY DEF StacksUpwards
  <2>0. /\ StacksUpwards(q, c, d) /\ StacksUpwards(r, d, e)
        /\ \A k \in DOMAIN p : p[k].page[2] \in Nat
    <3>1. \A k \in DOMAIN p : p[k] \in Item
      BY <1>3
    <3> QED
      BY <3>1, PageFacts DEF Piece, Item
  <2>1. CASE i \in DOMAIN q
    <3>1. /\ p[i].do = "back" /\ p[i].where = Here /\ p[i].page[1] = "kstack"
          /\ c < p[i].page[2] /\ p[i].page[2] < d /\ ~IsGuard(p[i].page[2])
          /\ \A j \in DOMAIN q : i < j /\ q[j].page[1] \in KernelAreas
                                   => p[i].page[2] < q[j].page[2]
      BY <1>5, <2>0, <2>1 DEF StacksUpwards
    <3>2. ASSUME NEW j \in DOMAIN p, i < j, p[j].page[1] \in KernelAreas
          PROVE  p[i].page[2] < p[j].page[2]
      <4>1. CASE j \in DOMAIN q
        BY <1>5, <3>1, <3>2, <4>1
      <4>2. CASE j \notin DOMAIN q
        <5>1. d < p[j].page[2]
          BY <1>4, <2>0, <3>2, <4>2 DEF StacksUpwards
        <5> QED
          BY <2>0, <3>1, <3>2, <5>1
      <4> QED
        BY <4>1, <4>2
    <3>3. p[i].page[2] < e
      BY <2>0, <3>1
    <3> QED
      BY <3>1, <3>2, <3>3
  <2>2. CASE i \notin DOMAIN q
    <3>1. PICK k : k = i - Len(q) /\ k \in DOMAIN r /\ p[i] = r[k] /\ i \in Nat /\ i > Len(q)
      BY <1>4, <2>2
    <3>2. /\ r[k].do = "back" /\ r[k].where = Here /\ r[k].page[1] = "kstack"
          /\ d < r[k].page[2] /\ r[k].page[2] < e /\ ~IsGuard(r[k].page[2])
          /\ \A j \in DOMAIN r : k < j /\ r[j].page[1] \in KernelAreas
                                   => r[k].page[2] < r[j].page[2]
      BY <2>0, <3>1 DEF StacksUpwards
    <3>3. ASSUME NEW j \in DOMAIN p, i < j, p[j].page[1] \in KernelAreas
          PROVE  p[i].page[2] < p[j].page[2]
      <4>1. PICK l : l = j - Len(q) /\ l \in DOMAIN r /\ p[j] = r[l] /\ j \in Nat
        BY <1>1, <1>4, <3>1, <3>3
      <4>2. k < l
        BY <1>1, <3>1, <3>3, <4>1
      <4> QED
        BY <3>1, <3>2, <3>3, <4>1, <4>2
    <3>4. c < p[i].page[2]
      BY <2>0, <3>1, <3>2
    <3> QED
      BY <3>1, <3>2, <3>3, <3>4
  <2> QED
    BY <2>1, <2>2
<1>8. WrittenWhenBacked(p, B)
  <2>0. WrittenWhenBacked(q, B) /\ WrittenWhenBacked(r, B \cup BackedIn(q))
    BY DEF Piece
  <2> SUFFICES ASSUME NEW i \in DOMAIN p, p[i].page[1] \in UserAreas
               PROVE  /\ p[i].do = "back" =>
                           /\ "there" \in p[i].where
                           /\ p[i].page \in Needed => "here" \in p[i].where
                      /\ p[i].do = "touch" =>
                           /\ p[i].page \in Needed
                           /\ \/ p[i].page \in B
                              \/ \E j \in 1 .. (i - 1) : p[j].do = "back" /\ p[j].page = p[i].page
                           /\ \A j \in DOMAIN p : i < j =>
                                ~(p[j].do = "back" /\ p[j].page = p[i].page)
    BY DEF WrittenWhenBacked
  <2>1. CASE i \in DOMAIN q
    <3>1. /\ p[i].do = "back" =>
               /\ "there" \in p[i].where
               /\ p[i].page \in Needed => "here" \in p[i].where
          /\ p[i].do = "touch" =>
               /\ p[i].page \in Needed
               /\ \/ p[i].page \in B
                  \/ \E j \in 1 .. (i - 1) : q[j].do = "back" /\ q[j].page = p[i].page
               /\ \A j \in DOMAIN q : i < j =>
                    ~(q[j].do = "back" /\ q[j].page = p[i].page)
      BY <1>5, <2>0, <2>1 DEF WrittenWhenBacked
    <3>2. ASSUME p[i].do = "touch", NEW j \in DOMAIN p, i < j, p[j].do = "back",
                 p[j].page = p[i].page
          PROVE  FALSE
      <4>1. j \notin DOMAIN q
        BY <1>5, <3>1, <3>2
      <4>2. j - Len(q) \in DOMAIN r /\ p[j] = r[j - Len(q)]
        BY <1>4, <4>1
      <4>3. p[i] \in Item
        BY <1>3
      <4>4. p[i].page \in Page
        BY <4>3 DEF Item
      <4>5. p[i].page \in BackedIn(r) /\ p[i].page \in TouchedIn(q)
        BY <1>5, <2>1, <3>2, <4>2, <4>4 DEF BackedIn, TouchedIn
      <4> QED
        BY <4>5
    <3>3. \A j \in 1 .. (i - 1) : q[j] = p[j]
      BY <1>1, <1>5, <2>1
    <3> QED
      BY <3>1, <3>2, <3>3
  <2>2. CASE i \notin DOMAIN q
    <3>1. PICK k : k = i - Len(q) /\ k \in DOMAIN r /\ p[i] = r[k] /\ i \in Nat /\ i > Len(q)
      BY <1>4, <2>2
    <3>2. /\ r[k].do = "back" =>
               /\ "there" \in r[k].where
               /\ r[k].page \in Needed => "here" \in r[k].where
          /\ r[k].do = "touch" =>
               /\ r[k].page \in Needed
               /\ \/ r[k].page \in B \cup BackedIn(q)
                  \/ \E j \in 1 .. (k - 1) : r[j].do = "back" /\ r[j].page = r[k].page
               /\ \A j \in DOMAIN r : k < j =>
                    ~(r[j].do = "back" /\ r[j].page = r[k].page)
      BY <2>0, <3>1 DEF WrittenWhenBacked
    <3>3. ASSUME r[k].page \in BackedIn(q)
          PROVE  \E j \in 1 .. (i - 1) : p[j].do = "back" /\ p[j].page = p[i].page
      <4>1. PICK j \in DOMAIN q : q[j].do = "back" /\ q[j].page = r[k].page
        BY <3>3 DEF BackedIn
      <4>2. j \in 1 .. (i - 1)
        BY <1>1, <3>1, <4>1
      <4> QED
        BY <1>5, <3>1, <4>1, <4>2
    <3>4. ASSUME NEW j \in 1 .. (k - 1), r[j].do = "back", r[j].page = r[k].page
          PROVE  \E l \in 1 .. (i - 1) : p[l].do = "back" /\ p[l].page = p[i].page
      <4>1. j \in DOMAIN r /\ j + Len(q) \in 1 .. (i - 1)
        BY <1>1, <3>1, <3>4
      <4> QED
        BY <1>5, <3>1, <3>4, <4>1
    <3>5. ASSUME r[k].do = "touch", NEW j \in DOMAIN p, i < j
          PROVE  ~(p[j].do = "back" /\ p[j].page = p[i].page)
      <4>1. PICK l : l = j - Len(q) /\ l \in DOMAIN r /\ p[j] = r[l] /\ j \in Nat
        BY <1>1, <1>4, <3>1, <3>5
      <4>2. k < l
        BY <1>1, <3>1, <3>5, <4>1
      <4> QED
        BY <3>1, <3>2, <3>5, <4>1, <4>2
    <3> QED
      BY <3>1, <3>2, <3>3, <3>4, <3>5
  <2> QED
    BY <2>1, <2>2
<1> QED
  BY <1>2, <1>3, <1>6, <1>7, <1>8 DEF Piece

\* No page of a stack lies at a multiple of StackStep.
LEMMA StackSkipsGuards ==
  ASSUME NEW m \in Nat, NEW i \in 1 .. StackPages
  PROVE  /\ ~IsGuard(m * StackStep + i)
         /\ m * StackStep \in Nat /\ (m + 1) * StackStep \in Nat
         /\ (m + 1) * StackStep = m * StackStep + StackStep
         /\ m * StackStep < m * StackStep + i /\ m * StackStep + i < (m + 1) * StackStep
<1>1. StackStep \in Nat /\ i \in Nat /\ 0 < i /\ i < StackStep
  BY PagingAssumption DEF StackStep
<1>2. /\ m * StackStep \in Nat /\ (m + 1) * StackStep \in Nat
      /\ (m + 1) * StackStep = m * StackStep + StackStep
  BY <1>1
<1>3. ASSUME NEW q \in Nat, m * StackStep + i = q * StackStep
      PROVE  FALSE
  <2>1. CASE q <= m
    <3>1. q * StackStep <= m * StackStep
      BY <1>1, <2>1
    <3> QED
      BY <1>1, <1>2, <1>3, <3>1
  <2>2. CASE m + 1 <= q
    <3>1. (m + 1) * StackStep <= q * StackStep
      BY <1>1, <2>2
    <3> QED
      BY <1>1, <1>2, <1>3, <3>1
  <2> QED
    BY <1>3, <2>1, <2>2
<1> QED
  BY <1>1, <1>2, <1>3 DEF IsGuard

\* The pieces.
LEMMA KernelStackPiece ==
  ASSUME NEW m \in Nat, (m + 1) * StackStep <= StackArea, NEW B
  PROVE  LET q == StackAlloc("kstack", m * StackStep, Here)
         IN  /\ Piece(q, B, m * StackStep, (m + 1) * StackStep)
             /\ BackedIn(q) \subseteq {"kstack"} \X Nat /\ TouchedIn(q) = {}
<1>1. PICK c : c = m * StackStep /\ c \in Nat
  BY PagingAssumption DEF StackStep
<1>2. PICK q : q = StackAlloc("kstack", c, Here)
  OBVIOUS
<1>3. StackArea \in Nat /\ StackPages \in Nat
  BY PagingAssumption DEF StackArea
<1>4. /\ DOMAIN q = 1 .. StackPages
      /\ \A i \in 1 .. StackPages : q[i] = [do |-> "back", page |-> <<"kstack", c + i>>, where |-> Here]
  BY <1>2 DEF StackAlloc, Back
<1>5. \A i \in 1 .. StackPages : /\ <<"kstack", c + i>> \in Page /\ ~IsGuard(c + i)
                                 /\ c < c + i /\ c + i < (m + 1) * StackStep
  <2> SUFFICES ASSUME NEW i \in 1 .. StackPages
               PROVE  /\ <<"kstack", c + i>> \in Page /\ ~IsGuard(c + i)
                      /\ c < c + i /\ c + i < (m + 1) * StackStep
    OBVIOUS
  <2>1. /\ ~IsGuard(c + i) /\ c < c + i /\ c + i < (m + 1) * StackStep
        /\ (m + 1) * StackStep \in Nat
    BY <1>1, StackSkipsGuards
  <2>2. c + i \in 0 .. StackArea
    BY <1>1, <1>3, <2>1
  <2> QED
    BY <2>1, <2>2 DEF Page
<1>6. q \in Seq(Item)
  <2>1. \A i \in 1 .. StackPages : q[i] \in Item
    BY <1>4, <1>5 DEF Item, Here
  <2>2. q = [i \in 1 .. StackPages |-> q[i]]
    BY <1>2 DEF StackAlloc
  <2> QED
    BY <1>3, <2>1, <2>2
<1>7. StacksUpwards(q, c, (m + 1) * StackStep)
  <2>1. \A i \in 1 .. StackPages : i \in Nat
    BY <1>3
  <2>2. \A i, j \in 1 .. StackPages : i < j => c + i < c + j
    BY <1>1, <1>3
  <2> QED
    BY <1>4, <1>5, <2>1, <2>2 DEF StacksUpwards
<1>8. WrittenWhenBacked(q, B)
  BY <1>4 DEF WrittenWhenBacked, UserAreas
<1>9. BackedIn(q) \subseteq {"kstack"} \X Nat /\ TouchedIn(q) = {}
  BY <1>1, <1>3, <1>4 DEF BackedIn, TouchedIn
<1> QED
  BY <1>1, <1>2, <1>6, <1>7, <1>8, <1>9 DEF Piece

LEMMA UserStackPiece ==
  ASSUME NEW B, NEW c \in Nat
  PROVE  LET q == StackAlloc("ustack", 0, Here \cup There)
         IN  /\ Piece(q, B, c, c)
             /\ BackedIn(q) = {"ustack"} \X (1 .. StackPages) /\ TouchedIn(q) = {}
<1>1. PICK q : q = StackAlloc("ustack", 0, Here \cup There)
  OBVIOUS
<1>2. StackPages \in Nat
  BY PagingAssumption
<1>3. /\ DOMAIN q = 1 .. StackPages
      /\ \A i \in 1 .. StackPages :
           q[i] = [do |-> "back", page |-> <<"ustack", i>>, where |-> {"here", "there"}]
  BY <1>1, <1>2 DEF StackAlloc, Back, Here, There
<1>4. \A i \in 1 .. StackPages : <<"ustack", i>> \in Page
  BY <1>2 DEF Page
<1>5. q \in Seq(Item)
  <2>1. \A i \in 1 .. StackPages : q[i] \in Item
    BY <1>3, <1>4 DEF Item
  <2>2. q = [i \in 1 .. StackPages |-> q[i]]
    BY <1>1 DEF StackAlloc
  <2> QED
    BY <1>2, <2>1, <2>2
<1>6. StacksUpwards(q, c, c) /\ WrittenWhenBacked(q, B)
  BY <1>3 DEF StacksUpwards, WrittenWhenBacked, KernelAreas
<1>7. BackedIn(q) = {"ustack"} \X (1 .. StackPages) /\ TouchedIn(q) = {}
  BY <1>3, <1>4 DEF BackedIn, TouchedIn
<1> QED
  BY <1>1, <1>5, <1>6, <1>7 DEF Piece

LEMMA InitHeapPiece ==
  ASSUME NEW c \in Nat
  PROVE  /\ Piece(InitHeap, {}, c, c)
         /\ BackedIn(InitHeap) = {<<"uheap", 0>>, <<"ustack", 0>>}
         /\ TouchedIn(InitHeap) = {<<"uheap", 0>>}
<1>1. PICK q : q = InitHeap
  OBVIOUS
<1>2. /\ DOMAIN q = {1, 2, 3}
      /\ q[1] = [do |-> "back", page |-> <<"uheap", 0>>, where |-> {"here", "there"}]
      /\ q[2] = [do |-> "back", page |-> <<"ustack", 0>>, where |-> {"here", "there"}]
      /\ q[3] = [do |-> "touch", page |-> <<"uheap", 0>>, where |-> {"here"}]
  BY <1>1 DEF InitHeap, Back, Touch, Here, There
<1>3. <<"uheap", 0>> \in Page /\ <<"ustack", 0>> \in Page /\ <<"uheap", 0>> \in Needed
  BY PagingAssumption DEF Page, Needed
<1>4. q \in Seq(Item)
  <2>1. q[1] \in Item /\ q[2] \in Item /\ q[3] \in Item
    BY <1>2, <1>3 DEF Item
  <2>2. PICK x, y, z : x = q[1] /\ y = q[2] /\ z = q[3]
    OBVIOUS
  <2>3. q = <<x, y, z>>
    BY <1>1, <1>2, <2>2 DEF InitHeap, Back, Touch, Here, There
  <2>4. <<x, y, z>> \in Seq(Item)
    BY <2>1, <2>2
  <2> QED
    BY <2>3, <2>4
<1>5. StacksUpwards(q, c, c)
  BY <1>2 DEF StacksUpwards, KernelAreas
<1>6. WrittenWhenBacked(q, {})
  BY <1>2, <1>3 DEF WrittenWhenBacked
<1>7. BackedIn(q) = {<<"uheap", 0>>, <<"ustack", 0>>} /\ TouchedIn(q) = {<<"uheap", 0>>}
  BY <1>2, <1>3 DEF BackedIn, TouchedIn
<1> QED
  BY <1>1, <1>4, <1>5, <1>6, <1>7 DEF Piece

LEMMA OtherPieces ==
  ASSUME NEW B, NEW c \in Nat
  PROVE  /\ LET q == <<Touch(<<"ustack", 1>>)>>
            IN  /\ <<"ustack", 1>> \in B => Piece(q, B, c, c)
                /\ BackedIn(q) = {} /\ TouchedIn(q) = {<<"ustack", 1>>}
         /\ Piece(LoadWork, B, c, c) /\ BackedIn(LoadWork) = {<<"image", 0>>}
         /\ TouchedIn(LoadWork) = {}
         /\ Piece(<<>>, B, c, c) /\ BackedIn(<<>>) = {} /\ TouchedIn(<<>>) = {}
<1>1. <<"ustack", 1>> \in Page /\ <<"ustack", 1>> \in Needed /\ <<"image", 0>> \in Page
      /\ <<"image", 0>> \notin Needed
  BY PagingAssumption DEF Page, Needed
<1>2. PICK t : t = [do |-> "touch", page |-> <<"ustack", 1>>, where |-> {"here"}]
  OBVIOUS
<1>3. PICK l : l = [do |-> "back", page |-> <<"image", 0>>, where |-> {"there"}]
  OBVIOUS
<1>4. t \in Item /\ l \in Item
  BY <1>1, <1>2, <1>3 DEF Item
<1>5. <<t>> \in Seq(Item) /\ <<l>> \in Seq(Item)
      /\ DOMAIN <<t>> = {1} /\ DOMAIN <<l>> = {1} /\ <<t>>[1] = t /\ <<l>>[1] = l
  BY <1>4
<1>6. BackedIn(<<t>>) = {} /\ TouchedIn(<<t>>) = {<<"ustack", 1>>}
      /\ BackedIn(<<l>>) = {<<"image", 0>>} /\ TouchedIn(<<l>>) = {}
  BY <1>1, <1>2, <1>3, <1>5 DEF BackedIn, TouchedIn
<1>7. StacksUpwards(<<t>>, c, c) /\ StacksUpwards(<<l>>, c, c) /\ WrittenWhenBacked(<<l>>, B)
  BY <1>1, <1>2, <1>3, <1>5 DEF StacksUpwards, WrittenWhenBacked, KernelAreas
<1>8. <<"ustack", 1>> \in B => WrittenWhenBacked(<<t>>, B)
  BY <1>1, <1>2, <1>5 DEF WrittenWhenBacked
<1>9. Piece(<<>>, B, c, c) /\ BackedIn(<<>>) = {} /\ TouchedIn(<<>>) = {}
  <2>1. <<>> \in Seq(Item) /\ DOMAIN <<>> = {}
    OBVIOUS
  <2> QED
    BY <2>1 DEF Piece, StacksUpwards, WrittenWhenBacked, BackedIn, TouchedIn
<1>10. <<Touch(<<"ustack", 1>>)>> = <<t>> /\ LoadWork = <<l>>
  BY <1>2, <1>3 DEF Touch, LoadWork, Back, There
<1> QED
  BY <1>5, <1>6, <1>7, <1>8, <1>9, <1>10 DEF Piece

\* The cursor after a stack.
LEMMA CursorAfterStack ==
  ASSUME NEW m \in Nat
  PROVE  /\ m * StackStep \in Nat /\ AfterStack(m * StackStep) = (m + 1) * StackStep
         /\ m * StackStep <= (m + 1) * StackStep
         /\ \A k \in Nat : m <= k => m * StackStep <= k * StackStep
<1>1. StackStep \in Nat
  BY PagingAssumption DEF StackStep
<1>2. m * StackStep \in Nat /\ (m + 1) * StackStep = m * StackStep + StackStep
  BY <1>1
<1>3. ASSUME NEW k \in Nat, m <= k PROVE m * StackStep <= k * StackStep
  BY <1>1, <1>3
<1> QED
  BY <1>1, <1>2, <1>3, PagingAssumption DEF AfterStack, StackStep

\* The piece r comes after q, from the cursor d to e; p is both.
Follows(q, r, c, d, e) ==
  /\ c \in Nat /\ d \in Nat /\ e \in Nat /\ c <= d /\ d <= e
  /\ Piece(q, {}, c, d) /\ Piece(r, BackedIn(q), d, e) /\ TouchedIn(q) \cap BackedIn(r) = {}

Joined(p, q, r, c, e) ==
  /\ Piece(p, {}, c, e)
  /\ BackedIn(p) = BackedIn(q) \cup BackedIn(r)
  /\ TouchedIn(p) = TouchedIn(q) \cup TouchedIn(r)

LEMMA PieceAfter ==
  ASSUME NEW q, NEW r, NEW c, NEW d, NEW e, Follows(q, r, c, d, e)
  PROVE  Joined(q \o r, q, r, c, e)
<1>1. Piece(r, {} \cup BackedIn(q), d, e)
  BY DEF Follows
<1> QED
  BY <1>1, PiecesInARow DEF Follows, Joined

LEMMA AreaIsNat == StackArea \in Nat /\ StackStep \in Nat
  BY PagingAssumption DEF StackArea, StackStep

\* Two stacks, and three.
LEMMA KernelTaskPiece ==
  ASSUME NEW m \in Nat, (m + 2) * StackStep <= StackArea
  PROVE  LET q == KernelTaskWork(m * StackStep)
         IN  /\ Piece(q, {}, m * StackStep, (m + 2) * StackStep)
             /\ BackedIn(q) \subseteq {"kstack"} \X Nat /\ TouchedIn(q) = {}
<1>1. PICK c, d, e : c = m * StackStep /\ d = (m + 1) * StackStep /\ e = (m + 2) * StackStep
  OBVIOUS
<1>2. /\ c \in Nat /\ d \in Nat /\ e \in Nat /\ c <= d /\ d <= e
      /\ AfterStack(c) = d /\ (m + 1) + 1 = m + 2 /\ m + 1 \in Nat
      /\ d <= StackArea /\ e <= StackArea
  <2>1. m + 1 \in Nat /\ m + 2 \in Nat /\ (m + 1) + 1 = m + 2
    OBVIOUS
  <2>2. c \in Nat /\ d \in Nat /\ e \in Nat /\ c <= d /\ d <= e /\ AfterStack(c) = d
    BY <1>1, <2>1, CursorAfterStack
  <2>3. StackArea \in Nat
    BY AreaIsNat
  <2> QED
    BY <1>1, <2>1, <2>2, <2>3
<1>3. PICK q, r : q = StackAlloc("kstack", c, Here) /\ r = StackAlloc("kstack", d, Here)
  OBVIOUS
<1>4. /\ Piece(q, {}, c, d) /\ BackedIn(q) \subseteq {"kstack"} \X Nat /\ TouchedIn(q) = {}
  BY <1>1, <1>2, <1>3, KernelStackPiece
<1>5. /\ Piece(r, BackedIn(q), d, e)
      /\ BackedIn(r) \subseteq {"kstack"} \X Nat /\ TouchedIn(r) = {}
  BY <1>1, <1>2, <1>3, KernelStackPiece
<1>6. Joined(q \o r, q, r, c, e)
  <2>1. Follows(q, r, c, d, e)
    BY <1>2, <1>4, <1>5 DEF Follows
  <2> QED
    BY <2>1, PieceAfter
<1>7. KernelTaskWork(c) = q \o r
  BY <1>2, <1>3 DEF KernelTaskWork
<1> QED
  BY <1>1, <1>4, <1>5, <1>6, <1>7 DEF Joined

LEMMA BootPiece ==
  LET q == KernelTaskWork(0) \o StackAlloc("kstack", AfterStack(AfterStack(0)), Here)
  IN  /\ Piece(q, {}, 0, 3 * StackStep)
      /\ BackedIn(q) \subseteq {"kstack"} \X Nat /\ TouchedIn(q) = {}
      /\ AfterStack(AfterStack(AfterStack(0))) = 3 * StackStep
<1>1. StackStep \in Nat /\ StackArea \in Nat /\ 3 * StackStep <= StackArea
  <2>1. PICK k : k = 2 * (KernelTasks + MaxUserTasks) + 3 /\ k \in Nat /\ 3 <= k
    BY PagingAssumption
  <2>2. StackStep \in Nat /\ StackArea = k * StackStep
    BY <2>1, PagingAssumption DEF StackStep, StackArea
  <2>3. 3 * StackStep <= k * StackStep
    BY <2>1, CursorAfterStack
  <2> QED
    BY <2>1, <2>2, <2>3
<1>2. /\ 0 * StackStep = 0 /\ (0 + 2) * StackStep = 2 * StackStep /\ 2 * StackStep \in Nat
      /\ 3 * StackStep \in Nat /\ 2 * StackStep <= 3 * StackStep /\ 2 * StackStep <= StackArea
      /\ (2 + 1) * StackStep = 3 * StackStep
  BY <1>1
<1>3. AfterStack(0) = StackStep /\ AfterStack(StackStep) = 2 * StackStep
      /\ AfterStack(2 * StackStep) = 3 * StackStep
  BY <1>1, PagingAssumption DEF AfterStack, StackStep
<1>4. PICK q, r : q = KernelTaskWork(0) /\ r = StackAlloc("kstack", 2 * StackStep, Here)
  OBVIOUS
<1>5. /\ Piece(q, {}, 0, 2 * StackStep)
      /\ BackedIn(q) \subseteq {"kstack"} \X Nat /\ TouchedIn(q) = {}
  <2>1. (0 + 2) * StackStep <= StackArea
    BY <1>2
  <2> QED
    BY <1>2, <1>4, <2>1, KernelTaskPiece
<1>6. /\ Piece(r, BackedIn(q), 2 * StackStep, 3 * StackStep)
      /\ BackedIn(r) \subseteq {"kstack"} \X Nat /\ TouchedIn(r) = {}
  <2>1. (2 + 1) * StackStep <= StackArea
    BY <1>1, <1>2
  <2> QED
    BY <1>2, <1>4, <2>1, KernelStackPiece
<1>7. Joined(q \o r, q, r, 0, 3 * StackStep)
  <2>1. Follows(q, r, 0, 2 * StackStep, 3 * StackStep)
    BY <1>2, <1>5, <1>6 DEF Follows
  <2> QED
    BY <2>1, PieceAfter
<1> QED
  BY <1>3, <1>4, <1>5, <1>6, <1>7 DEF Joined

\* Everything create_task does for a user task, and the loader after it.
LEMMA UserTaskPiece ==
  ASSUME NEW m \in Nat, (m + 2) * StackStep <= StackArea, NEW load \in {<<>>, LoadWork}
  PROVE  LET q == UserTaskWork(m * StackStep) \o load
         IN  Piece(q, {}, m * StackStep, (m + 2) * StackStep) /\ Needed \subseteq BackedIn(q)
<1>1. PICK c, d, e : c = m * StackStep /\ d = (m + 1) * StackStep /\ e = (m + 2) * StackStep
  OBVIOUS
<1>2. /\ c \in Nat /\ d \in Nat /\ e \in Nat /\ c <= d /\ d <= e
      /\ AfterStack(c) = d /\ (m + 1) + 1 = m + 2 /\ m + 1 \in Nat
      /\ d <= StackArea /\ e <= StackArea
  <2>1. m + 1 \in Nat /\ m + 2 \in Nat /\ (m + 1) + 1 = m + 2
    OBVIOUS
  <2>2. c \in Nat /\ d \in Nat /\ e \in Nat /\ c <= d /\ d <= e /\ AfterStack(c) = d
    BY <1>1, <2>1, CursorAfterStack
  <2>3. StackArea \in Nat
    BY AreaIsNat
  <2> QED
    BY <1>1, <2>1, <2>2, <2>3
<1>3. PICK u, k, t, l : /\ u = StackAlloc("ustack", 0, Here \cup There)
                        /\ k = StackAlloc("kstack", c, Here)
                        /\ t = <<Touch(<<"ustack", 1>>)>>
                        /\ l = StackAlloc("kstack", d, Here)
  OBVIOUS
<1>4. /\ Piece(InitHeap, {}, c, c) /\ BackedIn(InitHeap) = {<<"uheap", 0>>, <<"ustack", 0>>}
      /\ TouchedIn(InitHeap) = {<<"uheap", 0>>}
  BY <1>2, InitHeapPiece
<1>5. PICK q1 : q1 = InitHeap \o u
  OBVIOUS
<1>6. /\ Piece(q1, {}, c, c) /\ Needed = BackedIn(q1) /\ TouchedIn(q1) = {<<"uheap", 0>>}
  <2>1. /\ Piece(u, BackedIn(InitHeap), c, c)
        /\ BackedIn(u) = {"ustack"} \X (1 .. StackPages) /\ TouchedIn(u) = {}
    BY <1>2, <1>3, UserStackPiece
  <2>2. TouchedIn(InitHeap) \cap BackedIn(u) = {}
    BY <1>4, <2>1
  <2>3. Joined(q1, InitHeap, u, c, c)
    <3>1. Follows(InitHeap, u, c, c, c)
      BY <1>2, <1>4, <2>1, <2>2 DEF Follows
    <3> QED
      BY <1>5, <3>1, PieceAfter
  <2>4. 0 .. StackPages = {0} \cup (1 .. StackPages)
    BY PagingAssumption
  <2> QED
    BY <1>4, <2>1, <2>3, <2>4 DEF Needed, Joined
<1>7. PICK q2 : q2 = q1 \o k
  OBVIOUS
<1>8. /\ Piece(q2, {}, c, d) /\ Needed \subseteq BackedIn(q2) /\ TouchedIn(q2) = {<<"uheap", 0>>}
  <2>1. /\ Piece(k, BackedIn(q1), c, d)
        /\ BackedIn(k) \subseteq {"kstack"} \X Nat /\ TouchedIn(k) = {}
    BY <1>1, <1>2, <1>3, KernelStackPiece
  <2>2. TouchedIn(q1) \cap BackedIn(k) = {}
    BY <1>6, <2>1
  <2>3. Joined(q2, q1, k, c, d)
    <3>1. Follows(q1, k, c, c, d)
      BY <1>2, <1>6, <2>1, <2>2 DEF Follows
    <3> QED
      BY <1>7, <3>1, PieceAfter
  <2> QED
    BY <1>6, <2>1, <2>3 DEF Joined
<1>9. PICK q3 : q3 = q2 \o t
  OBVIOUS
<1>10. /\ Piece(q3, {}, c, d) /\ Needed \subseteq BackedIn(q3)
       /\ TouchedIn(q3) = {<<"uheap", 0>>, <<"ustack", 1>>}
  <2>1. <<"ustack", 1>> \in Needed
    BY PagingAssumption DEF Needed
  <2>2. /\ Piece(t, BackedIn(q2), d, d)
        /\ BackedIn(t) = {} /\ TouchedIn(t) = {<<"ustack", 1>>}
    BY <1>2, <1>3, <1>8, <2>1, OtherPieces
  <2>3. Joined(q3, q2, t, c, d)
    <3>1. Follows(q2, t, c, d, d)
      BY <1>2, <1>8, <2>2 DEF Follows
    <3> QED
      BY <1>9, <3>1, PieceAfter
  <2> QED
    BY <1>8, <2>2, <2>3 DEF Joined
<1>11. PICK q4 : q4 = q3 \o l
  OBVIOUS
<1>12. /\ Piece(q4, {}, c, e) /\ Needed \subseteq BackedIn(q4)
       /\ TouchedIn(q4) = {<<"uheap", 0>>, <<"ustack", 1>>}
  <2>1. /\ Piece(l, BackedIn(q3), d, e)
        /\ BackedIn(l) \subseteq {"kstack"} \X Nat /\ TouchedIn(l) = {}
    BY <1>1, <1>2, <1>3, KernelStackPiece
  <2>2. TouchedIn(q3) \cap BackedIn(l) = {}
    BY <1>10, <2>1
  <2>3. Joined(q4, q3, l, c, e)
    <3>1. Follows(q3, l, c, d, e)
      BY <1>2, <1>10, <2>1, <2>2 DEF Follows
    <3> QED
      BY <1>11, <3>1, PieceAfter
  <2> QED
    BY <1>10, <2>1, <2>3 DEF Joined
<1>13. Piece(q4 \o load, {}, c, e) /\ Needed \subseteq BackedIn(q4 \o load)
  <2>1. Piece(load, BackedIn(q4), e, e) /\ BackedIn(load) \subseteq {<<"image", 0>>}
    BY <1>2, OtherPieces
  <2>2. TouchedIn(q4) \cap BackedIn(load) = {}
    BY <1>12, <2>1
  <2>3. Joined(q4 \o load, q4, load, c, e)
    <3>1. Follows(q4, load, c, e, e)
      BY <1>2, <1>12, <2>1, <2>2 DEF Follows
    <3> QED
      BY <3>1, PieceAfter
  <2> QED
    BY <1>12, <2>3 DEF Joined
<1>14. UserTaskWork(c) = q4
  BY <1>2, <1>3, <1>5, <1>7, <1>9, <1>11 DEF UserTaskWork
<1> QED
  BY <1>1, <1>13, <1>14

-----------------------------------------------------------------------------
\* The pages that were placed stay so when the cursors move on.
LEMMA CursorsMoveOn ==
  ASSUME PagingInv, NEW v, PagePlaced(v), v \in Page,
         lastStack' \in Nat, lastStack <= lastStack', heapEnd' \in Nat, heapEnd <= heapEnd'
  PROVE  PagePlaced(v)'
<1>1. lastStack \in Nat /\ heapEnd \in Nat /\ v[2] \in Nat
  <2>1. 2 * New + 3 \in Nat /\ lastStack = (2 * New + 3) * StackStep /\ heapEnd \in Nat
    BY PagingAssumption DEF PagingInv, StageOK, Space
  <2> QED
    BY <2>1, AreaIsNat, PageFacts
<1> QED
  BY <1>1 DEF PagePlaced, IsGuard

\* The new work on pages of the kernel: their stacks lie above all the others.
LEMMA NewStacksFit ==
  ASSUME PagingInv, entry' = entry, heapEnd' = heapEnd,
         lastStack' \in Nat, lastStack <= lastStack', Piece(work', {}, lastStack, lastStack')
  PROVE  work' \in Seq(Item)' /\ KernelWorkOK' /\ PagesPlaced'
<1>0. work' \in Seq(Item) /\ StacksUpwards(work', lastStack, lastStack') /\ heapEnd \in Nat
      /\ \A x \in DOMAIN entry : x[2] \in Page
  BY DEF Piece, PagingInv, StageOK, TablesOK, TablesTyped
<1>1. work' \in Seq(Item)'
  BY <1>0 DEF Item, Page, StackArea
<1>2. \A i \in DOMAIN work' : work'[i] \in Item /\ work'[i].page \in Page /\ i \in Nat
  <2>1. \A i \in DOMAIN work' : work'[i] \in Item /\ i \in Nat
    BY <1>0
  <2> QED
    BY <2>1 DEF Item
<1>3. \A i \in DOMAIN work' : work'[i].page[1] \in KernelAreas =>
        /\ work'[i].do = "back" /\ work'[i].where = Here /\ work'[i].page[1] = "kstack"
        /\ lastStack < work'[i].page[2] /\ work'[i].page[2] < lastStack'
        /\ ~IsGuard(work'[i].page[2])
        /\ \A j \in DOMAIN work' : i < j /\ work'[j].page[1] \in KernelAreas
                                 => work'[i].page[2] < work'[j].page[2]
  BY <1>0 DEF StacksUpwards
<1>4. \A x \in DOMAIN entry : PagePlaced(x[2])
  BY DEF PagingInv, PagesPlaced
<1>5. lastStack \in Nat
  <2>1. 2 * New + 3 \in Nat /\ lastStack = (2 * New + 3) * StackStep
    BY PagingAssumption DEF PagingInv, StageOK, Space
  <2> QED
    BY <2>1, AreaIsNat
<1>6. KernelWorkOK'
  <2> SUFFICES ASSUME NEW i \in DOMAIN work', work'[i].page[1] \in KernelAreas
               PROVE  /\ work'[i].do = "back" /\ work'[i].where = Here
                      /\ \A x \in DOMAIN entry : x[2] # work'[i].page
                      /\ \A j \in DOMAIN work' : i < j => work'[j].page # work'[i].page
    BY DEF KernelWorkOK
  <2>0. work'[i].page[2] \in Nat
    BY <1>2, PageFacts
  <2>1. ASSUME NEW x \in DOMAIN entry, x[2] = work'[i].page PROVE FALSE
    <3>1. x[2][2] < lastStack
      BY <1>3, <1>4, <2>1 DEF PagePlaced
    <3> QED
      BY <1>3, <1>5, <2>0, <2>1, <3>1
  <2>2. ASSUME NEW j \in DOMAIN work', i < j, work'[j].page = work'[i].page PROVE FALSE
    BY <1>3, <2>0, <2>2
  <2> QED
    BY <1>3, <2>1, <2>2
<1>7. PagesPlaced'
  <2>1. ASSUME NEW x \in DOMAIN entry PROVE PagePlaced(x[2])'
    BY <1>0, <1>4, CursorsMoveOn
  <2>2. ASSUME NEW i \in DOMAIN work', NEW v, v = work'[i].page PROVE PagePlaced(v)'
    <3>1. CASE work'[i].page[1] \in KernelAreas
      BY <1>3, <2>2, <3>1 DEF PagePlaced, IsGuard
    <3>2. CASE work'[i].page[1] \notin KernelAreas
      BY <2>2, <3>2 DEF PagePlaced, KernelAreas
    <3> QED
      BY <3>1, <3>2
  <2> QED
    BY <2>1, <2>2 DEF PagesPlaced, PagePlaced, IsGuard
<1> QED
  BY <1>1, <1>6, <1>7

\* Nothing is left of the work on a page when there is no work.
LEMMA Idle ==
  ASSUME PagingInv, ~Busy
  PROVE  /\ work = <<>> /\ DOMAIN work = {}
         /\ \A s \in Spaces \cap UserSpace : \A v \in Needed : Physical(s, v) # 0
  BY DEF Busy, PagingInv, NeededBacked

\* The new space of a create_task, in the parts of the invariant that only
\* its number matters to.
LEMMA NewStage ==
  ASSUME PagingInv, NEW kind \in {"kernel", "user"}, Duplicate(kind), ~Busy,
         kind = "kernel" => New < KernelTasks /\ phase = "boot" /\ phase' = "boot",
         kind = "user" => New < KernelTasks + MaxUserTasks /\ InCommand /\ phase' = "made"
                            /\ low[current],
         nested' \subseteq nested \cup {New + 1},
         lastStack' = AfterStack(AfterStack(lastStack)), UNCHANGED <<current, tlb, heapEnd>>
  PROVE  /\ StageOK' /\ lastStack' \in Nat /\ lastStack <= lastStack'
         /\ lastStack = (2 * New + 3) * StackStep
         /\ lastStack' = ((2 * New + 3) + 2) * StackStep
         /\ 2 * New + 3 \in Nat /\ lastStack' <= StackArea
<1>1. /\ New \in Nat /\ New' = New + 1 /\ Spaces = 0 .. New /\ Spaces' = 0 .. (New + 1)
      /\ KernelTasks \in Nat /\ MaxUserTasks \in Nat
  <2>1. kind = "user" => KernelTasks <= New
    BY DEF PagingInv, StageOK, InCommand
  <2> QED
    BY <2>1, DuplicateKeeps, PagingAssumption
<1>2. PICK m : m = 2 * New + 3 /\ m \in Nat /\ m + 1 \in Nat /\ m + 2 \in Nat /\ (m + 1) + 1 = m + 2
  BY <1>1
<1>3. lastStack = m * StackStep
  BY <1>2 DEF PagingInv, StageOK
<1>4. /\ lastStack' = (m + 2) * StackStep /\ lastStack' \in Nat /\ lastStack <= lastStack'
  <2>1. AfterStack(lastStack) = (m + 1) * StackStep
    BY <1>2, <1>3, CursorAfterStack
  <2>2. AfterStack((m + 1) * StackStep) = (m + 2) * StackStep
    BY <1>2, CursorAfterStack
  <2>3. m * StackStep <= (m + 2) * StackStep /\ (m + 2) * StackStep \in Nat
    BY <1>2, CursorAfterStack
  <2> QED
    BY <1>3, <2>1, <2>2, <2>3
<1>5. lastStack' <= StackArea
  <2>1. PICK k : k = 2 * (KernelTasks + MaxUserTasks) + 3 /\ k \in Nat /\ m + 2 <= k
    BY <1>1, <1>2
  <2>2. (m + 2) * StackStep <= k * StackStep
    BY <1>2, <2>1, CursorAfterStack
  <2> QED
    BY <1>4, <2>1, <2>2 DEF StackArea, StackStep
<1>6. lastStack' = (2 * New' + 3) * StackStep
  BY <1>1, <1>2, <1>4
<1>7. low' \in [Spaces' -> BOOLEAN] /\ \A s \in Spaces' : low'[s] <=> s \notin UserSpace
  <2>1. /\ low \in [Spaces -> BOOLEAN] /\ \A s \in Spaces : low[s] <=> s \notin UserSpace
    BY DEF PagingInv, StageOK
  <2>2. Spaces' = Spaces \cup {New + 1} /\ New + 1 \notin Spaces
    BY <1>1
  <2>3. low' = [s \in Spaces \cup {New + 1} |-> IF s \in Spaces THEN low[s] ELSE kind = "kernel"]
    BY DEF Duplicate
  <2>4. (kind = "kernel") <=> New + 1 \notin UserSpace
    BY <1>1 DEF UserSpace, PagingInv, StageOK, InCommand
  <2>5. \A s \in Spaces : low'[s] = low[s]
    BY <2>2, <2>3
  <2>6. low'[New + 1] = (kind = "kernel") /\ DOMAIN low' = Spaces'
    BY <2>2, <2>3
  <2>7. low'[New + 1] <=> New + 1 \notin UserSpace
    BY <2>4, <2>6
  <2>8. low' \in [Spaces' -> BOOLEAN]
    BY <2>1, <2>2, <2>3
  <2>9. ASSUME NEW s \in Spaces' PROVE low'[s] <=> s \notin UserSpace
    BY <2>1, <2>2, <2>5, <2>7
  <2> QED
    BY <2>8, <2>9
<1>8. StageOK'
  <2>1. StageOK
    BY DEF PagingInv
  <2>2. nested' \subseteq Spaces'
    BY <1>1, <2>1 DEF StageOK
  <2> QED
    BY <1>1, <1>6, <1>7, <2>1, <2>2 DEF StageOK, Space, UserSpace, StackStep, InCommand
<1> QED
  BY <1>2, <1>3, <1>4, <1>5, <1>8

\* What create_task wrote for the tasks before stays; it wrote nothing yet for
\* the new one.
LEMMA NewTaskWrote ==
  ASSUME PagingInv, New \in Nat, New' = New + 1, frames' = frames, nested \subseteq nested',
         \A v : \A s \in 0 .. New : Found(table', entry', s, v) = Found(table, entry, s, v),
         wrote' = [s \in DOMAIN wrote \cup {New + 1} |-> IF s = New + 1 THEN {} ELSE wrote[s]]
  PROVE  WroteOK'
<1>1. DOMAIN wrote = 1 .. New
  BY DEF PagingInv, WroteOK
<1>2. /\ DOMAIN wrote' = 1 .. (New + 1) /\ wrote'[New + 1] = {}
      /\ \A s \in 1 .. New : wrote'[s] = wrote[s]
  BY <1>1
<1> SUFFICES ASSUME NEW s \in 1 .. (New + 1), NEW w \in wrote'[s]
             PROVE  /\ s \in UserSpace /\ s # New + 1
                    /\ w \in Needed \X (1 .. frames)
                    /\ s \notin nested => w[2] = Physical(s, w[1])'
  BY <1>2 DEF WroteOK, Needed, UserSpace
<1>3. s \in 1 .. New /\ w \in wrote[s] /\ s \in 0 .. New /\ s # New + 1
  BY <1>2
<1>4. /\ s \in UserSpace /\ w \in Needed \X (1 .. frames)
      /\ s \notin nested => w[2] = Physical(s, w[1])
  BY <1>1, <1>3 DEF PagingInv, WroteOK
<1>5. Physical(s, w[1])' = Physical(s, w[1])
  BY <1>3, PhysicalIs
<1> QED
  BY <1>3, <1>4, <1>5

LEMMA CreateKernelTaskStep ==
  ASSUME PagingInv, CreateKernelTask
  PROVE  PagingInv'
<1>1. /\ phase = "boot" /\ phase' = "boot" /\ ~Busy /\ New < KernelTasks /\ Duplicate("kernel")
      /\ work' = KernelTaskWork(lastStack) /\ lastStack' = AfterStack(AfterStack(lastStack))
      /\ UNCHANGED <<current, tlb, heapEnd, phase, entry, frames, nested>>
  BY DEF CreateKernelTask, Duplicate
<1>2. /\ New \in Nat /\ New' = New + 1 /\ Spaces = 0 .. New /\ Spaces' = 0 .. (New + 1)
      /\ TablesOK(table', entry', frames', New') /\ FramesPrivate(table', entry', New')
      /\ \A v : \A s \in 0 .. New : Found(table', entry', s, v) = Found(table, entry, s, v)
  BY <1>1, DuplicateKeeps
<1>3. /\ StageOK' /\ lastStack' \in Nat /\ lastStack <= lastStack'
      /\ lastStack = (2 * New + 3) * StackStep
      /\ lastStack' = ((2 * New + 3) + 2) * StackStep
      /\ 2 * New + 3 \in Nat /\ lastStack' <= StackArea
  <2>1. New < KernelTasks /\ phase = "boot" /\ phase' = "boot"
    BY <1>1
  <2> QED
    BY <1>1, <2>1, NewStage
<1>4. /\ Piece(work', {}, lastStack, lastStack')
      /\ BackedIn(work') \subseteq {"kstack"} \X Nat /\ TouchedIn(work') = {}
  BY <1>1, <1>3, KernelTaskPiece
<1>5. work' \in Seq(Item)' /\ KernelWorkOK' /\ PagesPlaced'
  BY <1>1, <1>3, <1>4, NewStacksFit
<1>6. \A i \in DOMAIN work' : work'[i].page[1] = "kstack"
  <2> SUFFICES ASSUME NEW i \in DOMAIN work' PROVE work'[i].page[1] = "kstack"
    OBVIOUS
  <2>1. work'[i] \in Item
    BY <1>4 DEF Piece
  <2>2. work'[i].page \in BackedIn(work') \cup TouchedIn(work')
    BY <2>1 DEF Item, BackedIn, TouchedIn
  <2>3. work'[i].page \in {"kstack"} \X Nat
    BY <1>4, <2>2
  <2> QED
    BY <2>3
<1>7. UserWorkOK'
  BY <1>6 DEF UserWorkOK, UserAreas
<1>8. CacheOK'
  BY <1>1 DEF CacheOK, PagingInv, StageOK
<1>9. WroteOK'
  BY <1>1, <1>2, NewTaskWrote DEF CreateKernelTask
<1>10. NeededBacked'
  <2>1. Spaces' \cap UserSpace = {}
    BY <1>1, <1>2, PagingAssumption DEF UserSpace
  <2> QED
    BY <2>1 DEF NeededBacked, UserSpace
<1> QED
  BY <1>2, <1>3, <1>5, <1>7, <1>8, <1>9, <1>10, TablesNext DEF PagingInv, WorkOK

LEMMA CreateUserTaskStep ==
  ASSUME PagingInv, CreateUserTask
  PROVE  PagingInv'
<1>0. PICK load \in {<<>>, LoadWork} : work' = UserTaskWork(lastStack) \o load
  BY DEF CreateUserTask
<1>1. /\ InCommand /\ phase' = "made" /\ ~Busy /\ New < KernelTasks + MaxUserTasks
      /\ Duplicate("user") /\ low[current] /\ lastStack' = AfterStack(AfterStack(lastStack))
      /\ nested' = IF phase = "made" THEN nested \cup {New + 1} ELSE nested
      /\ UNCHANGED <<current, tlb, heapEnd, entry, frames>>
  BY DEF CreateUserTask, Duplicate
<1>2. /\ New \in Nat /\ New' = New + 1 /\ Spaces = 0 .. New /\ Spaces' = 0 .. (New + 1)
      /\ TablesOK(table', entry', frames', New') /\ FramesPrivate(table', entry', New')
      /\ \A v : \A s \in 0 .. New : Found(table', entry', s, v) = Found(table, entry, s, v)
  <2>1. KernelTasks <= New
    BY <1>1 DEF PagingInv, StageOK, InCommand
  <2> QED
    BY <1>1, <2>1, DuplicateKeeps
<1>3. /\ StageOK' /\ lastStack' \in Nat /\ lastStack <= lastStack'
      /\ lastStack = (2 * New + 3) * StackStep
      /\ lastStack' = ((2 * New + 3) + 2) * StackStep
      /\ 2 * New + 3 \in Nat /\ lastStack' <= StackArea
  <2>1. New < KernelTasks + MaxUserTasks /\ InCommand /\ phase' = "made" /\ low[current]
        /\ nested' \subseteq nested \cup {New + 1}
    BY <1>1
  <2> QED
    BY <1>1, <2>1, NewStage
<1>4. Piece(work', {}, lastStack, lastStack') /\ Needed \subseteq BackedIn(work')
  BY <1>0, <1>3, UserTaskPiece
<1>5. work' \in Seq(Item)' /\ KernelWorkOK' /\ PagesPlaced'
  BY <1>1, <1>3, <1>4, NewStacksFit
<1>6. UserWorkOK'
  <2>1. current' \notin UserSpace /\ phase' = "made"
    BY <1>1 DEF PagingInv, StageOK
  <2>2. WrittenWhenBacked(work', {})
    BY <1>4 DEF Piece
  <2> SUFFICES ASSUME NEW i \in DOMAIN work', work'[i].page[1] \in UserAreas
               PROVE  /\ work'[i].do = "back" =>
                           /\ "there" \in work'[i].where
                           /\ work'[i].page \in Needed => "here" \in work'[i].where
                      /\ work'[i].do = "touch" =>
                           /\ work'[i].page \in Needed
                           /\ \E j \in 1 .. (i - 1) :
                                work'[j].do = "back" /\ work'[j].page = work'[i].page
                           /\ \A j \in DOMAIN work' : i < j =>
                                ~(work'[j].do = "back" /\ work'[j].page = work'[i].page)
    BY <2>1 DEF UserWorkOK, BackIn, Needed, UserSpace
  <2> QED
    BY <2>2 DEF WrittenWhenBacked
<1>7. CacheOK'
  <2>1. CASE phase = "command"
    BY <1>1, <2>1 DEF CacheOK, PagingInv, StageOK
  <2>2. CASE phase = "made"
    <3>1. New' \in nested'
      BY <1>1, <1>2, <2>2
    <3>2. \A v \in DOMAIN tlb : v \in Needed /\ tlb[v] \in 1 .. frames
      BY DEF PagingInv, CacheOK
    <3> QED
      BY <1>1, <3>1, <3>2 DEF CacheOK, Needed
  <2> QED
    BY <1>1, <2>1, <2>2 DEF InCommand
<1>8. WroteOK'
  BY <1>1, <1>2, NewTaskWrote DEF CreateUserTask
<1>9. NeededBacked'
  <2> SUFFICES ASSUME NEW s \in (0 .. (New + 1)) \cap UserSpace, NEW v \in Needed
               PROVE  \/ Physical(s, v)' # 0
                      \/ s = New + 1 /\ \E i \in DOMAIN work' : BackIn(i, v)'
    BY <1>2 DEF NeededBacked, Needed, UserSpace
  <2>1. CASE s = New + 1
    BY <1>4, <2>1 DEF BackedIn, BackIn
  <2>2. CASE s # New + 1
    <3>1. s \in Spaces \cap UserSpace /\ s \in 0 .. New
      BY <1>2, <2>2
    <3>2. Physical(s, v) # 0
      BY <1>1, <3>1, Idle
    <3> QED
      BY <1>2, <3>1, <3>2, PhysicalIs
  <2> QED
    BY <2>1, <2>2
<1> QED
  BY <1>2, <1>3, <1>5, <1>6, <1>7, <1>8, <1>9, TablesNext DEF PagingInv, WorkOK

-----------------------------------------------------------------------------
\* Steps that change neither tables nor work.
LEMMA TablesStay ==
  ASSUME PagingInv, UNCHANGED <<table, entry, frames, lastStack, heapEnd, work, wrote, nested>>
  PROVE  /\ New' = New /\ Spaces' = Spaces
         /\ TablesOK(table, entry, frames, New)' /\ FramesPrivate(table, entry, New)'
         /\ PagesPlaced' /\ WroteOK' /\ NeededBacked' /\ work' \in Seq(Item)' /\ KernelWorkOK'
<1>1. New' = New /\ Spaces' = Spaces
  BY DEF New, Spaces
<1>2. TablesOK(table, entry, frames, New)' /\ FramesPrivate(table, entry, New)'
  <2>1. TablesOK(table', entry', frames', New') /\ FramesPrivate(table', entry', New')
    BY <1>1 DEF PagingInv
  <2> QED
    BY <2>1, TablesNext
<1>3. PagesPlaced'
  BY DEF PagingInv, PagesPlaced, PagePlaced, IsGuard
<1>4. WroteOK'
  BY <1>1, PhysicalIs DEF PagingInv, WroteOK, BackIn, Needed, UserSpace
<1>5. NeededBacked'
  BY <1>1, PhysicalIs DEF PagingInv, NeededBacked, BackIn, Needed, UserSpace
<1>6. work' \in Seq(Item)' /\ KernelWorkOK'
  BY DEF PagingInv, WorkOK, KernelWorkOK, Item, Page, StackArea
<1> QED
  BY <1>1, <1>2, <1>3, <1>4, <1>5, <1>6

LEMMA QuietSteps ==
  ASSUME PagingInv,
         CreateFaults \/ CommandStarts \/ CommandEnds \/ \E s \in Spaces : Switch(s)
  PROVE  PagingInv'
<1>1. UNCHANGED <<table, entry, frames, lastStack, heapEnd, work, wrote, low, nested>>
  BY DEF CreateFaults, CommandStarts, CommandEnds, Switch
<1>2. /\ New' = New /\ Spaces' = Spaces
      /\ TablesOK(table, entry, frames, New)' /\ FramesPrivate(table, entry, New)'
      /\ PagesPlaced' /\ WroteOK' /\ NeededBacked' /\ work' \in Seq(Item)' /\ KernelWorkOK'
  BY <1>1, TablesStay
<1>3. phase # "made" \/ ~Busy
  BY DEF CreateFaults, CommandStarts, CommandEnds, Switch
<1>4. DOMAIN tlb' = {} /\ phase' \in {"run", "command", "fault"}
  <2>1. phase = "made" => low[current]
    BY DEF PagingInv, StageOK
  <2> QED
    BY <2>1 DEF CreateFaults, CommandStarts, CommandEnds, Switch, LoadCr3, PagingInv, StageOK,
                InCommand
<1>5. UserWorkOK'
  <2>1. \A i \in DOMAIN work : work[i].page[1] \notin UserAreas
    <3>1. CASE Busy
      BY <1>3, <3>1 DEF PagingInv, WorkOK, UserWorkOK
    <3>2. CASE ~Busy
      BY <3>2, Idle
    <3> QED
      BY <3>1, <3>2
  <2> QED
    BY <1>1, <2>1 DEF UserWorkOK, UserAreas
<1>6. CacheOK'
  BY <1>4 DEF CacheOK
<1>7. StageOK'
  <2>0. StageOK
    BY DEF PagingInv
  <2>1. current' \in Spaces /\ (phase' = "fault" => current' \in UserSpace)
    BY <2>0 DEF StageOK, CreateFaults, CommandStarts, CommandEnds, Switch, LoadCr3
  <2>2. KernelTasks <= New
    BY <2>0, PagingAssumption
       DEF StageOK, CreateFaults, CommandStarts, CommandEnds, Switch, Space, InCommand
  <2> QED
    BY <1>1, <1>2, <1>4, <2>0, <2>1, <2>2 DEF StageOK, Space, UserSpace, StackStep
<1> QED
  BY <1>2, <1>5, <1>6, <1>7 DEF PagingInv, WorkOK

LEMMA PagingStutters ==
  ASSUME PagingInv, UNCHANGED pagingVars
  PROVE  PagingInv'
<1>1. UNCHANGED <<table, entry, frames, lastStack, heapEnd, work, wrote, low, current, tlb, phase,
                   nested>>
  BY DEF pagingVars
<1>2. /\ New' = New /\ Spaces' = Spaces
      /\ TablesOK(table, entry, frames, New)' /\ FramesPrivate(table, entry, New)'
      /\ PagesPlaced' /\ WroteOK' /\ NeededBacked' /\ work' \in Seq(Item)' /\ KernelWorkOK'
  BY <1>1, TablesStay
<1>3. UserWorkOK' /\ CacheOK'
  BY <1>1, <1>2, PhysicalIs
     DEF PagingInv, WorkOK, UserWorkOK, CacheOK, BackIn, Ready, Needed, UserSpace
<1>4. StageOK'
  BY <1>1, <1>2 DEF PagingInv, StageOK, Space, UserSpace, StackStep
<1> QED
  BY <1>2, <1>3, <1>4 DEF PagingInv, WorkOK

LEMMA HeapGrowsStep ==
  ASSUME PagingInv, HeapGrows
  PROVE  PagingInv'
<1>1. /\ ~Busy /\ heapEnd < BootHeap - 1 + MaxHeapPages /\ heapEnd' = heapEnd + 1
      /\ UNCHANGED <<table, entry, frames, low, current, tlb, lastStack, phase, wrote, nested>>
  BY DEF HeapGrows
<1>2. PICK v : v = <<"kheap", heapEnd + 1>>
  OBVIOUS
<1>3. heapEnd \in Nat /\ heapEnd + 1 < BootHeap + MaxHeapPages /\ v \in Page
      /\ BootHeap \in Nat /\ MaxHeapPages \in Nat
  BY <1>1, <1>2, PagingAssumption DEF PagingInv, StageOK, Page
<1>4. PICK w : w = [do |-> "back", page |-> v, where |-> Here]
  OBVIOUS
<1>5. work' = <<w>> /\ w \in Item /\ <<w>> \in Seq(Item) /\ DOMAIN work' = {1} /\ work'[1] = w
  <2>1. work' = <<w>>
    BY <1>2, <1>4 DEF HeapGrows, Back
  <2>2. w \in Item
    BY <1>3, <1>4 DEF Item, Here
  <2> QED
    BY <2>1, <2>2
<1>6. New' = New /\ Spaces' = Spaces
  BY <1>1 DEF New, Spaces
<1>7. StageOK'
  BY <1>1, <1>3, <1>6 DEF PagingInv, StageOK, Space, UserSpace, StackStep
<1>8. TablesOK(table, entry, frames, New)' /\ FramesPrivate(table, entry, New)'
  <2>1. TablesOK(table', entry', frames', New') /\ FramesPrivate(table', entry', New')
    BY <1>1, <1>6 DEF PagingInv
  <2> QED
    BY <2>1, TablesNext
<1>9. v[1] = "kheap" /\ v[2] = heapEnd + 1 /\ v \notin Needed
  BY <1>2 DEF Needed
<1>10. \A x \in DOMAIN entry : x[2] # v /\ x[2] \in Page /\ PagePlaced(x[2])
  BY <1>3, <1>9 DEF PagingInv, PagesPlaced, PagePlaced, TablesOK, TablesTyped
<1>11. PagesPlaced'
  <2>1. lastStack \in Nat
    <3>1. 2 * New + 3 \in Nat /\ lastStack = (2 * New + 3) * StackStep
      BY PagingAssumption DEF PagingInv, StageOK, Space
    <3> QED
      BY <3>1, AreaIsNat
  <2>2. ASSUME NEW x \in DOMAIN entry PROVE PagePlaced(x[2])'
    BY <1>1, <1>3, <1>10, <2>1, CursorsMoveOn
  <2>3. PagePlaced(v)'
    BY <1>1, <1>3, <1>9 DEF PagePlaced
  <2> QED
    BY <1>1, <1>4, <1>5, <2>2, <2>3 DEF PagesPlaced, PagePlaced, IsGuard
<1>12. WorkOK'
  <2>1. KernelWorkOK'
    BY <1>1, <1>4, <1>5, <1>10 DEF KernelWorkOK
  <2>2. UserWorkOK'
    BY <1>4, <1>5, <1>9 DEF UserWorkOK, UserAreas
  <2> QED
    BY <1>5, <2>1, <2>2 DEF WorkOK, Item, Page, StackArea
<1>13. \A u \in Needed : \A i \in DOMAIN work' : ~BackIn(i, u)'
  BY <1>4, <1>5, <1>9 DEF BackIn
<1>14. CacheOK'
  BY <1>1, <1>6, <1>13, PhysicalIs DEF PagingInv, CacheOK, Needed
<1>15. WroteOK'
  <2> SUFFICES ASSUME NEW s \in DOMAIN wrote, NEW u \in wrote[s]
               PROVE  /\ s \in UserSpace
                      /\ u \in Needed \X (1 .. frames)
                      /\ s \notin nested => u[2] = Physical(s, u[1])'
                      /\ \A i \in DOMAIN work' : ~BackIn(i, u[1])'
    BY <1>1, <1>6 DEF PagingInv, WroteOK, Needed, UserSpace
  <2>1. /\ s \in UserSpace
        /\ u \in Needed \X (1 .. frames) /\ u[1] \in Needed
        /\ s \notin nested => u[2] = Physical(s, u[1])
    BY DEF PagingInv, WroteOK
  <2> QED
    BY <1>1, <1>13, <2>1, PhysicalIs
<1>16. NeededBacked'
  <2>1. \A s \in Spaces \cap UserSpace : \A u \in Needed : Physical(s, u) # 0
    BY <1>1, Idle
  <2> QED
    BY <1>1, <1>6, <2>1, PhysicalIs DEF NeededBacked, Needed, UserSpace
<1> QED
  BY <1>7, <1>8, <1>11, <1>12, <1>14, <1>15, <1>16 DEF PagingInv

-----------------------------------------------------------------------------
\* The memory init_heap leaves behind.
LEMMA PagingStarts ==
  ASSUME PagingInit
  PROVE  PagingInv
<1>0. /\ KernelTasks \in Nat /\ MaxUserTasks \in Nat /\ MaxHeapPages \in Nat /\ PerTable \in Nat
      /\ BootHeap \in Nat /\ 1 <= BootHeap /\ BootHeap <= PerTable - 1
  BY PagingAssumption
<1>1. DOMAIN table = {0} /\ New = 0 /\ Spaces = 0 .. 0 /\ 0 .. 0 = {0}
  <2>1. DOMAIN table = {0}
    BY DEF PagingInit, Boot
  <2>2. Cardinality({0}) = 1
    BY FS_Singleton
  <2> QED
    BY <2>1, <2>2 DEF New, Spaces
<1>2. UserSpace \cap {0} = {}
  BY <1>0 DEF UserSpace
<1>3. /\ Piece(work, {}, 0, 3 * StackStep) /\ lastStack = 3 * StackStep
      /\ BackedIn(work) \subseteq {"kstack"} \X Nat /\ TouchedIn(work) = {}
  <2>1. /\ work = KernelTaskWork(0) \o StackAlloc("kstack", AfterStack(AfterStack(0)), Here)
        /\ lastStack = AfterStack(AfterStack(AfterStack(0)))
    BY DEF PagingInit, KernelTaskWork
  <2> QED
    BY <2>1, BootPiece
<1>4. StageOK
  <2>1. low \in [{0} -> BOOLEAN] /\ low[0] = TRUE /\ current = 0 /\ phase = "boot"
        /\ DOMAIN tlb = {} /\ heapEnd = BootHeap - 1 /\ nested = {}
    BY DEF PagingInit, Boot
  <2>2. 2 * 0 + 3 = 3 /\ 0 \in Space
    BY <1>0 DEF Space
  <2> QED
    BY <1>0, <1>1, <1>2, <1>3, <2>1, <2>2 DEF StageOK
<1>5. \A x \in DOMAIN entry :
        /\ x[2] \in Page /\ x = <<x[1], x[2]>>
        /\ x[2][1] = "kheap" => x[1] = 1 /\ x[2][2] \in 0 .. (BootHeap - 1) /\ entry[x] = x[2][2] + 3
        /\ x[2][1] # "kheap" => x = <<2, <<"kstack", 0>>>> /\ entry[x] = BootHeap + 3
  <2>1. DOMAIN entry = {<<IF v[1] = "kheap" THEN 1 ELSE 2, v>> : v \in BootPages}
    BY DEF PagingInit
  <2>2. \A x \in DOMAIN entry : entry[x] = IF x[1] = 1 THEN x[2][2] + 3 ELSE BootHeap + 3
    BY DEF PagingInit
  <2> SUFFICES ASSUME NEW x \in DOMAIN entry
               PROVE  /\ x[2] \in Page /\ x = <<x[1], x[2]>>
                      /\ x[2][1] = "kheap" =>
                           x[1] = 1 /\ x[2][2] \in 0 .. (BootHeap - 1) /\ entry[x] = x[2][2] + 3
                      /\ x[2][1] # "kheap" => x = <<2, <<"kstack", 0>>>> /\ entry[x] = BootHeap + 3
    OBVIOUS
  <2>3. PICK v \in BootPages : x = <<IF v[1] = "kheap" THEN 1 ELSE 2, v>>
    BY <2>1
  <2>4. CASE v = <<"kstack", 0>>
    <3>1. x = <<2, <<"kstack", 0>>>> /\ v \in Page
      BY <2>3, <2>4, AreaIsNat DEF Page
    <3> QED
      BY <2>2, <2>4, <3>1
  <2>5. CASE v \in {"kheap"} \X (0 .. BootHeap - 1)
    <3>1. v[1] = "kheap" /\ v[2] \in 0 .. (BootHeap - 1) /\ v = <<"kheap", v[2]>>
      BY <2>5
    <3>2. x = <<1, v>> /\ v \in Page
      BY <1>0, <2>3, <3>1 DEF Page
    <3> QED
      BY <2>2, <3>1, <3>2
  <2> QED
    BY <2>4, <2>5 DEF BootPages
<1>6. frames = BootHeap + 3
  BY DEF PagingInit
<1>7. /\ table[0] = [r \in Regions |-> CASE r = <<"kheap", 0>> -> 1 [] r = <<"kstack", 0>> -> 2 [] OTHER -> 0]
      /\ table = [s \in {0} |-> table[0]]
  BY DEF PagingInit, Boot
<1>8. /\ table[0] \in [Regions -> 0 .. frames]
      /\ table[0][<<"kheap", 0>>] = 1 /\ table[0][<<"kstack", 0>>] = 2
  <2>1. \A r \in Regions : table[0][r] = IF r = <<"kheap", 0>> THEN 1
                                         ELSE IF r = <<"kstack", 0>> THEN 2 ELSE 0
    BY <1>7
  <2> QED
    BY <1>0, <1>6, <1>7, <2>1, FirstRegions
<1>9. TablesOK(table, entry, frames, New)
  <2>1. TablesTyped(table, entry, frames, New)
    <3>1. \A x \in DOMAIN entry : x[1] \in 1 .. frames /\ entry[x] \in 1 .. frames
      BY <1>0, <1>5, <1>6
    <3>2. DOMAIN entry \subseteq (1 .. frames) \X Page
      BY <1>5, <3>1
    <3>3. table \in [{0} -> [Regions -> 0 .. frames]]
      BY <1>7, <1>8
    <3> QED
      BY <1>0, <1>1, <1>6, <3>1, <3>2, <3>3 DEF TablesTyped
  <2>2. BootTablesShared(table, New) /\ UserTablesPrivate(table, New)
    BY <1>1, <1>2, <1>8 DEF BootTablesShared, UserTablesPrivate
  <2>3. KernelEntries(table, entry, New)
    <3> SUFFICES ASSUME NEW x \in DOMAIN entry
                 PROVE  /\ \A y \in DOMAIN entry : y[2] = x[2] => y = x
                        /\ table[0][Region(x[2])] = x[1]
      BY <1>1 DEF KernelEntries
    <3>1. \A y \in DOMAIN entry : y[2] = x[2] => y = x
      BY <1>5
    <3>2. x[2] \in Page /\ x[2][2] + 1 < PerTable
      BY <1>0, <1>5
    <3>3. Region(x[2]) = <<x[2][1], 0>>
      BY <3>2, FirstRegions
    <3> QED
      BY <1>5, <1>8, <3>1, <3>3
  <2> QED
    BY <2>1, <2>2, <2>3 DEF TablesOK
<1>10. FramesPrivate(table, entry, New)
  BY <1>1, <1>2 DEF FramesPrivate
<1>11. 3 * StackStep \in Nat /\ 3 * StackStep > 0 /\ ~IsGuard(0)
  <2>1. StackStep \in Nat /\ StackStep > 0
    BY PagingAssumption DEF StackStep
  <2>2. ASSUME NEW q \in Nat \ {0}, 0 = q * StackStep PROVE FALSE
    BY <2>1, <2>2
  <2> QED
    BY <2>1, <2>2 DEF IsGuard
<1>12. \A i \in DOMAIN work : work[i] \in Item /\ work[i].page[1] = "kstack"
  <2> SUFFICES ASSUME NEW i \in DOMAIN work PROVE work[i] \in Item /\ work[i].page[1] = "kstack"
    OBVIOUS
  <2>1. work[i] \in Item
    BY <1>3 DEF Piece
  <2>2. work[i].page \in BackedIn(work) \cup TouchedIn(work)
    BY <2>1 DEF Item, BackedIn, TouchedIn
  <2>3. work[i].page \in {"kstack"} \X Nat
    BY <1>3, <2>2
  <2> QED
    BY <2>1, <2>3
<1>13. \A i \in DOMAIN work :
         /\ work[i].do = "back" /\ work[i].where = Here
         /\ 0 < work[i].page[2] /\ work[i].page[2] < lastStack /\ ~IsGuard(work[i].page[2])
         /\ \A j \in DOMAIN work : i < j => work[i].page[2] < work[j].page[2]
  BY <1>3, <1>12 DEF Piece, StacksUpwards, KernelAreas
<1>14. PagesPlaced
  <2>1. heapEnd = BootHeap - 1
    BY DEF PagingInit
  <2>2. ASSUME NEW x \in DOMAIN entry PROVE PagePlaced(x[2])
    BY <1>0, <1>3, <1>5, <1>11, <2>1 DEF PagePlaced
  <2>3. ASSUME NEW i \in DOMAIN work PROVE PagePlaced(work[i].page)
    BY <1>12, <1>13 DEF PagePlaced
  <2> QED
    BY <2>2, <2>3 DEF PagesPlaced
<1>15. WorkOK
  <2>1. KernelWorkOK
    <3> SUFFICES ASSUME NEW i \in DOMAIN work
                 PROVE  /\ work[i].do = "back" /\ work[i].where = Here
                        /\ \A x \in DOMAIN entry : x[2] # work[i].page
                        /\ \A j \in DOMAIN work : i < j => work[j].page # work[i].page
      BY DEF KernelWorkOK
    <3>1. work[i].page[2] \in Nat /\ \A j \in DOMAIN work : work[j].page[2] \in Nat
      <4>1. \A j \in DOMAIN work : work[j].page \in Page
        BY <1>12 DEF Item
      <4> QED
        BY <4>1, PageFacts
    <3>2. ASSUME NEW x \in DOMAIN entry, x[2] = work[i].page PROVE FALSE
      BY <1>5, <1>12, <1>13, <3>1, <3>2
    <3>3. ASSUME NEW j \in DOMAIN work, i < j, work[j].page = work[i].page PROVE FALSE
      BY <1>13, <3>1, <3>3
    <3> QED
      BY <1>13, <3>2, <3>3
  <2>2. UserWorkOK
    BY <1>12 DEF UserWorkOK, UserAreas
  <2>3. work \in Seq(Item)
    BY <1>3 DEF Piece
  <2> QED
    BY <2>1, <2>2, <2>3 DEF WorkOK
<1>16. CacheOK /\ WroteOK /\ NeededBacked
  <2>1. DOMAIN tlb = {} /\ DOMAIN wrote = {}
    BY DEF PagingInit
  <2>2. 1 .. 0 = {}
    OBVIOUS
  <2>3. Spaces \cap UserSpace = {}
    BY <1>1, <1>2
  <2> QED
    BY <1>1, <2>1, <2>2, <2>3 DEF CacheOK, WroteOK, NeededBacked
<1> QED
  BY <1>4, <1>9, <1>10, <1>14, <1>15, <1>16 DEF PagingInv

\* The invariant is inductive.
LEMMA PagingInvHolds == PagingSpec => []PagingInv
<1>1. PagingInit => PagingInv
  BY PagingStarts
<1>2. PagingInv /\ [PagingNext]_pagingVars => PagingInv'
  BY BackPageStep, TouchPageStep, CreateKernelTaskStep, CreateUserTaskStep, HeapGrowsStep,
     QuietSteps, PagingStutters DEF PagingNext
<1> QED
  BY <1>1, <1>2, PTL DEF PagingSpec

-----------------------------------------------------------------------------
\* A page of the kernel has one frame, in the spaces that have it.
LEMMA KernelPagesShared ==
  ASSUME PagingInv
  PROVE  KernelPagesAreShared
<1> SUFFICES ASSUME NEW v \in MappedPages(KernelAreas)
             PROVE  LET seen == {Physical(s, v) : s \in Spaces}
                    IN  /\ v[2] + 1 < PerTable => Cardinality(seen) = 1
                        /\ ~(v[2] + 1 < PerTable) => Cardinality(seen \ {0}) = 1
  BY DEF KernelPagesAreShared
<1> DEFINE seen == {Physical(s, v) : s \in Spaces}
<1>1. PICK y \in DOMAIN entry : y[2] = v /\ v[1] \in KernelAreas
  BY DEF MappedPages
<1>2. /\ Spaces = 0 .. New /\ v \in Page /\ y = <<y[1], v>> /\ entry[y] # 0
      /\ \A z \in DOMAIN entry : z[2] = v => z = y
      /\ \E s \in Spaces : table[s][Region(v)] = y[1]
  <2>1. /\ Spaces = 0 .. New
        /\ y \in (1 .. frames) \X Page /\ entry[y] \in 1 .. frames
        /\ KernelEntries(table, entry, New)
    BY DEF PagingInv, StageOK, TablesOK, TablesTyped
  <2> QED
    BY <1>1, <2>1 DEF KernelEntries
<1>3. \A s \in Spaces : Physical(s, v) = IF table[s][Region(v)] = y[1] THEN entry[y] ELSE 0
  <2> SUFFICES ASSUME NEW s \in Spaces
               PROVE  Physical(s, v) = IF table[s][Region(v)] = y[1] THEN entry[y] ELSE 0
    OBVIOUS
  <2>1. CASE table[s][Region(v)] = y[1]
    BY <1>2, <2>1 DEF Physical
  <2>2. CASE table[s][Region(v)] # y[1]
    <3>1. <<table[s][Region(v)], v>> \notin DOMAIN entry
      BY <1>2, <2>2
    <3> QED
      BY <2>2, <3>1 DEF Physical
  <2> QED
    BY <2>1, <2>2
<1>4. seen \ {0} = {entry[y]}
  BY <1>2, <1>3
<1>5. v[2] + 1 < PerTable => seen = {entry[y]}
  <2> SUFFICES ASSUME v[2] + 1 < PerTable PROVE \A s \in Spaces : table[s][Region(v)] = y[1]
    BY <1>2, <1>3
  <2>1. Region(v) \in {<<"kheap", 0>>, <<"kstack", 0>>}
    BY <1>1, <1>2, FirstRegions DEF KernelAreas
  <2>2. BootTablesShared(table, New)
    BY DEF PagingInv, TablesOK
  <2> QED
    BY <1>2, <2>1, <2>2 DEF BootTablesShared
<1>6. Cardinality({entry[y]}) = 1
  BY FS_Singleton
<1> QED
  BY <1>4, <1>5, <1>6

\* Every StackPages + 1 pages of the stack area hold one that is left out.
LEMMA StacksGuarded ==
  ASSUME PagingInv
  PROVE  StacksAreGuarded
<1> SUFFICES ASSUME NEW s \in Spaces, NEW c \in 1 .. StackArea - StackPages
             PROVE  \E i \in 0 .. StackPages : Physical(s, <<"kstack", c + i>>) = 0
  BY DEF StacksAreGuarded
<1>0. StackPages \in Nat /\ StackStep \in Nat \ {0} /\ StackStep = StackPages + 1 /\ c \in Nat /\ c >= 1
  BY AreaIsNat, PagingAssumption DEF StackStep
<1>1. PICK n : n = c + StackPages /\ n \in Nat
  BY <1>0
<1>2. PICK q : q = n \div StackStep
  OBVIOUS
<1>3. q \in Nat /\ q * StackStep <= n /\ n < q * StackStep + StackStep
  BY <1>0, <1>1, <1>2
<1>4. q # 0
  BY <1>0, <1>1, <1>3
<1>5. PICK i : i = q * StackStep - c
  OBVIOUS
<1>6. i \in 0 .. StackPages /\ c + i = q * StackStep
  <2>1. q * StackStep \in Nat
    BY <1>0, <1>3
  <2> QED
    BY <1>0, <1>1, <1>3, <1>5, <2>1
<1>7. IsGuard(c + i)
  BY <1>3, <1>4, <1>6 DEF IsGuard
<1>8. PICK v : v = <<"kstack", c + i>>
  OBVIOUS
<1>9. \A x \in DOMAIN entry : x[2] # v
  BY <1>7, <1>8 DEF PagingInv, PagesPlaced, PagePlaced
<1>10. Physical(s, v) = 0
  BY <1>9 DEF Physical
<1> QED
  BY <1>6, <1>8, <1>10

\* The shapes of the variables.
LEMMA PagingTyped ==
  ASSUME PagingInv
  PROVE  PagingTypeOK
<1>1. StageOK /\ TablesTyped(table, entry, frames, New) /\ WorkOK /\ CacheOK /\ WroteOK
  BY DEF PagingInv, TablesOK
<1>2. lastStack \in 0 .. StackArea
  <2>1. PICK m, k : /\ m = 2 * New + 3 /\ k = 2 * (KernelTasks + MaxUserTasks) + 3
                    /\ m \in Nat /\ k \in Nat /\ m <= k
    BY <1>1, PagingAssumption DEF StageOK, Space
  <2>2. m * StackStep \in Nat /\ m * StackStep <= k * StackStep
    BY <2>1, CursorAfterStack
  <2>3. lastStack = m * StackStep /\ StackArea = k * StackStep
    BY <1>1, <2>1 DEF StageOK, StackArea, StackStep
  <2> QED
    BY <2>2, <2>3, AreaIsNat
<1>3. heapEnd \in 0 .. BootHeap + MaxHeapPages
  BY <1>1, PagingAssumption DEF StageOK
<1>4. DOMAIN tlb \subseteq Page
  BY <1>1, NeededFacts DEF CacheOK
<1>5. \A i \in DOMAIN work : work[i].page \in Page
  <2>1. \A i \in DOMAIN work : work[i] \in Item
    BY <1>1 DEF WorkOK
  <2> QED
    BY <2>1 DEF Item
<1>6. \A s \in DOMAIN wrote : wrote[s] \subseteq Page \X (1 .. frames)
  BY <1>1, NeededFacts DEF WroteOK
<1>7. table \in [Spaces -> [Regions -> 0 .. frames]]
  BY <1>1 DEF StageOK, TablesTyped
<1> QED
  BY <1>1, <1>2, <1>3, <1>4, <1>5, <1>6, <1>7 DEF PagingTypeOK, StageOK, TablesTyped

\* _duplicate_pd, map_memory_hh, _stackalloc and expand_heap: in every space a
\* page of the kernel's heap or of its stacks is the same frame, and is there if
\* its page table was made at boot; below every stack is a page that no space
\* maps; and making a task panics only in a command that interrupted a user task.
THEOREM KernelMemoryStaysSound == PagingSpec => []KernelMemoryIsSound
<1>1. PagingInv => KernelMemoryIsSound
  <2>1. PagingInv => FaultsOnlyOnUserTasks
    BY DEF PagingInv, StageOK, FaultsOnlyOnUserTasks
  <2> QED
    BY <2>1, KernelPagesShared, StacksGuarded DEF KernelMemoryIsSound
<1> QED
  BY <1>1, PagingInvHolds, PTL

\* _duplicate_pd, create_user_heap, _stackalloc and allocate_segment: no frame
\* of a user task is mapped by another, a task that is made finds its heap and
\* its stack, and create_task never writes to a page that is not there.
THEOREM UserTasksKeepTheirPages == PagingSpec => []UserTasksOwnTheirPages
<1>1. PagingInv => UserPagesArePrivate
  <2> SUFFICES ASSUME PagingInv, NEW s \in Spaces \cap UserSpace, NEW t \in Spaces \cap UserSpace,
                      s # t, NEW v \in MappedPages(UserAreas), Physical(s, v) # 0
               PROVE  Physical(s, v) # Physical(t, v)
    BY DEF UserPagesArePrivate
  <2>1. v \in Page /\ v[1] \in UserAreas
    BY DEF MappedPages, PagingInv, TablesOK, TablesTyped
  <2>2. Spaces = 0 .. New /\ FramesPrivate(table, entry, New)
    BY DEF PagingInv, StageOK
  <2> QED
    BY <2>1, <2>2, PhysicalIs DEF FramesPrivate
<1>2. PagingInv => UserTasksHaveTheirStacks
  <2> SUFFICES ASSUME PagingInv, NEW s \in Spaces \cap UserSpace, ~(Busy /\ s = New)
               PROVE  \A v \in Needed : Physical(s, v) # 0
    BY DEF UserTasksHaveTheirStacks, Needed
  <2>1. s = New => DOMAIN work = {}
    BY DEF Busy
  <2> QED
    BY <2>1 DEF PagingInv, NeededBacked
<1> QED
  BY <1>1, <1>2, PagingTyped, PagingInvHolds, PTL DEF UserTasksOwnTheirPages

\* create_task (initHeap's headers, initialize_context's first frame): what is
\* written at an address of the new task is in the frame that the task has there,
\* never in an older task's by way of a stale translation, unless the command
\* interrupted another one that had made a task (scheduler.c:479).
THEOREM CreationStaysInTheTask == PagingSpec => []CreationWritesToTheTask
<1>1. PagingInv => CreationWritesToTheTask
  BY DEF PagingInv, WroteOK, CreationWritesToTheTask
<1> QED
  BY <1>1, PagingInvHolds, PTL
=============================================================================
