------------------------------- MODULE MCExt2 -------------------------------
(* An instance of Ext2 for TLC: two groups of blocks, an image file that      *)
(* needs its indirect block, and two names of which one begins the other.     *)
(* mkfs left blocks 6 and 7 of the first group free and 13 of the second, so  *)
(* that a second file goes on in the other group and finds it full.           *)
EXTENDS Ext2

A == <<"a">>
AB == <<"a", "b">>

MCPath == {<<A>>, <<AB>>, <<A, A>>}

MCSizes == {2, 4}

\* Nothing, everything, and the bits of blocks 1, 3 and 6 of the group.
MCLeftovers == {{}, 1..7, {1, 3, 6}}

MCImage ==
  [name |-> <<"e">>, size |-> 7,
   pointers |-> [NoPointers EXCEPT !.direct = <<2, 3>>, !.single = <<4>>],
   tables |-> {5, 14} \cup 8..12]
=============================================================================
