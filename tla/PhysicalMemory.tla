--------------------------- MODULE PhysicalMemory ---------------------------
(***************************************************************************)
(* The physical page allocator, kernel/src/memory/memory.c.                *)
(*                                                                         *)
(* The allocator keeps one bit for every page of the biggest usable chunk  *)
(* of the boot memory map, three byte counters, and the static next-fit    *)
(* cursor of request_page.                                                 *)
(* Page i is the page at first_available_page_addr + (i << 12); addresses  *)
(* are modelled by these page numbers and the counters count pages.        *)
(*                                                                         *)
(* An operation is one step, as long as no other one starts inside it.     *)
(* memory.c takes no lock: a command that interrupts another one between   *)
(* the search and lock_page (lines 118 to 127) moves the shared cursor and *)
(* may be given the same page.  That overlap is a known defect and is not  *)
(* modelled.                                                               *)
(* request_contiguous_pages and free_contiguous_pages, which nothing in    *)
(* the kernel calls, are left out.                                         *)
(***************************************************************************)
EXTENDS Integers, FiniteSets

CONSTANTS
  TotalPages,       \* memory->total_available_pages
  UsedSpace,        \* pages init_memory reserves for its own structures
  CounterMod        \* the counters are unsigned: arithmetic modulo this

ASSUME PagesAssumption ==
  /\ TotalPages \in Nat \ {0}
  /\ UsedSpace \in 1..(TotalPages - 1)
  /\ CounterMod \in Nat \ {0}

VARIABLES
  bitfield,         \* set of page numbers whose bit is 1
  free_memory,      \* memory->free_memory, in pages
  locked_memory,    \* memory->locked_memory, in pages
  reserved_memory,  \* memory->reserved_memory, in pages
  last_page,        \* static last_requested of request_page
  held,             \* pages request_page returned, not given back yet
  halted            \* "no", or why its caller never returns from it

vars == <<bitfield, free_memory, locked_memory, reserved_memory, last_page,
          held, halted>>

counters == <<free_memory, locked_memory, reserved_memory>>

Pages == 0..(TotalPages - 1)

\* The bits that the code can test: set_page_bit and its companions accept
\* TotalPages itself (the bound is tested with >).
Bits == 0..TotalPages

\* The pages init_memory reserves: its header and its bitfield.
Reserved == 0..(UsedSpace - 1)

\* Bits that memset(bitfield, 0, bitfield_entries) does not reach: they hold
\* whatever the RAM held.
BitfieldBytes == (TotalPages + 7) \div 8

Unzeroed == {b \in Bits : b >= TotalPages /\ b \div 8 >= BitfieldBytes}

\* uint64_t addition.
Plus(counter, delta) == (counter + delta) % CounterMod

\* A lock_page that counts the page and forgets its bit.
LockPagesWithoutBit(S) ==
  /\ UNCHANGED bitfield
  /\ free_memory' = Plus(free_memory, -Cardinality(S))
  /\ locked_memory' = Plus(locked_memory, Cardinality(S))
  /\ UNCHANGED reserved_memory

(***************************************************************************)
(* lock_page and unlock_page on every page of a set.  Both move the two    *)
(* counters in the same direction.                                         *)
(***************************************************************************)
LockPages(S) ==
  /\ bitfield' = bitfield \cup S
  /\ free_memory' = Plus(free_memory, -Cardinality(S))
  /\ locked_memory' = Plus(locked_memory, Cardinality(S))
  /\ UNCHANGED reserved_memory

UnlockPages(S) ==
  /\ bitfield' = bitfield \ S
  /\ free_memory' = Plus(free_memory, -Cardinality(S))
  /\ locked_memory' = Plus(locked_memory, Cardinality(S))
  /\ UNCHANGED reserved_memory

(***************************************************************************)
(* The search loop of request_page, started with cursor c.  It tests c,    *)
(* c + 1, ... until a clear bit, jumps from TotalPages to page 1, and      *)
(* panics when it meets c - 1 again.  A search that starts from 0 (c - 1   *)
(* wraps to 2^64 - 1) never compares equal: with no clear bit it does not  *)
(* end.                                                                    *)
(***************************************************************************)
FirstLap(c) == c..TotalPages

SecondLap(c) == IF c = 0 THEN 1..TotalPages ELSE 1..(c - 1)

StopsAt(c, p) ==
  /\ p \in Bits \ bitfield
  /\ \/ p \in FirstLap(c) /\ c..(p - 1) \subseteq bitfield
     \/ /\ FirstLap(c) \subseteq bitfield
        /\ p \in SecondLap(c)
        /\ 1..(p - 1) \subseteq bitfield

\* A search that gives up at the end of the bitfield instead of wrapping.
FindsNoneOneLap(c) == FirstLap(c) \subseteq bitfield

FindsNone(c) == (FirstLap(c) \cup SecondLap(c)) \subseteq bitfield

\* How a search that found nothing ends: the panic, or an endless loop.
FailedSearch(c) == IF c = 0 THEN "hung" ELSE "exhausted"

-----------------------------------------------------------------------------
(* init_memory: a zeroed bitfield whose first UsedSpace pages are reserved. *)
Init ==
  /\ \E garbage \in SUBSET Unzeroed : bitfield = Reserved \cup garbage
  /\ free_memory = Plus(TotalPages, -UsedSpace)
  /\ locked_memory = 0
  /\ reserved_memory = Plus(0, UsedSpace)
  /\ last_page = 0
  /\ held = {}
  /\ halted = "no"

Halt(reason) ==
  /\ halted' = reason
  /\ UNCHANGED <<last_page, held>>

\* request_page: the page under the cursor is locked and returned; the cursor
\* stays on it.
RequestPage ==
  /\ halted = "no"
  /\ \/ \E p \in Bits :
          /\ StopsAt(last_page, p)
          /\ LockPages({p})
          /\ last_page' = p
          /\ held' = held \cup {p}
          /\ UNCHANGED halted
     \/ /\ FindsNone(last_page)
        /\ Halt(FailedSearch(last_page))
        /\ UNCHANGED <<bitfield, counters>>

\* free_page, called by the caller that holds the page.  It panics when the
\* bit is already clear.
FreePage(p) ==
  /\ halted = "no"
  /\ p \in held
  /\ \/ /\ p \in bitfield
        /\ UnlockPages({p})
        /\ held' = held \ {p}
        /\ UNCHANGED <<last_page, halted>>
     \/ /\ p \notin bitfield
        /\ Halt("page was not locked")
        /\ UNCHANGED <<bitfield, counters>>

Next ==
  \/ RequestPage
  \/ \E p \in Bits : FreePage(p)

Spec == Init /\ [][Next]_vars

-----------------------------------------------------------------------------
CountersOK ==
  /\ free_memory \in 0..(CounterMod - 1)
  /\ locked_memory \in 0..(CounterMod - 1)
  /\ reserved_memory \in 0..(CounterMod - 1)

(* Types: the bitfield covers the bits the code can touch, the cursor stays *)
(* on a bit that exists, the counters are unsigned.                         *)
TypeOK ==
  /\ bitfield \subseteq Bits
  /\ CountersOK
  /\ last_page \in Bits
  /\ held \subseteq Bits
  /\ halted \in {"no", "exhausted", "hung", "page was not locked"}

(* A page that request_page handed out, and the pages that hold the          *)
(* allocator itself, stay marked in the bitfield until they are given back:  *)
(* no later request can be given a page somebody still uses, whatever the    *)
(* order of requests, frees and cursor wraps.                                *)
LivePagesAreMarked == (held \cup Reserved) \subseteq bitfield

(* The panic "No free pages available!" and the endless search happen only   *)
(* when every page from 1 up is taken: next-fit wraps far enough to find a   *)
(* page freed behind the cursor, and stops only when there is none.          *)
FailsOnlyWhenFull ==
  halted \in {"exhausted", "hung"} => 1..TotalPages \subseteq bitfield

(* With honest callers of request_page and free_page the kernel stops in     *)
(* this allocator for one reason only: memory is exhausted.  The other       *)
(* panics (a bit found clear by free_page) and the endless search of a       *)
(* cursor at 0 are unreachable.                                              *)
StopsOnlyExhausted == halted \in {"no", "exhausted"}
=============================================================================
