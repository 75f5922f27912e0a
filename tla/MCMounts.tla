------------------------------- MODULE MCMounts -------------------------------
(***************************************************************************)
(* Disks for TLC: three ports, and the tables and file systems that make    *)
(* the boot take every branch.                                              *)
(***************************************************************************)
EXTENDS Mounts

MCPorts == <<SATA, SATAPI, SATA>>

Image(bootsig, gpt, mbr, content) ==
    [bootsig |-> bootsig, gpt |-> gpt, mbr |-> mbr, content |-> content]

\* Sector 0 is the partition of a device without tables, sector 1 the one a
\* GPT's protective MBR lists.
Contents(a, b, c, d) ==
    [l \in 0 .. 5 |-> IF l < 2 THEN "none" ELSE <<a, b, c, d>>[l - 1]]

MCImages ==
    {\* No table at all.
     Image(FALSE, <<>>, <<>>, Contents("none", "none", "none", "none")),
     \* A GPT of two sectors, the second with a gap.
     Image(TRUE, <<2, 3, 4, 0>>, <<1>>, Contents("ext2", "odd", "ext2", "none")),
     Image(TRUE, <<2, 3, 4, 5>>, <<1>>, Contents("fat", "ext2", "both", "ext2")),
     Image(TRUE, <<2, 0, 3, 4>>, <<1>>, Contents("none", "ext2", "none", "none")),
     \* A GPT whose first entry is empty.
     Image(TRUE, <<0, 2>>, <<1>>, Contents("ext2", "none", "none", "none")),
     \* An MBR, which may have gaps.
     Image(TRUE, <<>>, <<2, 0, 3, 4>>, Contents("ext2", "fat", "ext2", "none")),
     Image(TRUE, <<>>, <<0, 5, 0, 4>>, Contents("none", "none", "odd", "ext2"))}
=============================================================================
