------------------------------- MODULE MCHeap -------------------------------
(* An instance of Heap for TLC: pages of ten units, headers of two.         *)
EXTENDS Heap

\* One unit; seven, which the eight units of a fresh page miss by less than a
\* header (too long to be taken whole, too short to be split), so that two
\* expansions are needed; eleven, which needs two pages.
MCSizes == {1, 7, 11}
=============================================================================
