----------------------------- MODULE Ext2Blocks -----------------------------
(***************************************************************************)
(* How ext2 finds the blocks of a file: the walks of                       *)
(* kernel/src/vfs/generic/ext2/ext2_block.c over the pointers of an inode, *)
(* and the list that ext2_inode.c builds of them to free a file.           *)
(*                                                                         *)
(* The pointers of an inode are a record:                                  *)
(*   direct  the blocks in the first slots of i_block                      *)
(*   single, double, triple  what i_block[12], [13] and [14] point at,     *)
(*           read from the disk: a sequence of blocks, of such sequences,  *)
(*           and of sequences of those.                                    *)
(* A pointer of 0 is left out: the sequences are shorter than the slots.   *)
(***************************************************************************)
EXTENDS Integers, Sequences, SequencesExt

CONSTANTS
  Direct,        \* direct slots of an inode: 12
  PerBlock,      \* pointers in a block: block_size / 4
  BlockSize,     \* bytes in a block
  SectorBytes    \* bytes that reach the disk when ext2_write_block writes one

ASSUME BlocksAssumption ==
  /\ Direct \in Nat \ {0} /\ PerBlock \in Nat \ {0}
  /\ BlockSize \in Nat \ {0} /\ SectorBytes \in 1..BlockSize

NoPointers == [direct |-> <<>>, single |-> <<>>, double |-> <<>>, triple |-> <<>>]

BlocksFor(bytes) == (bytes + BlockSize - 1) \div BlockSize

\* What a walk returns: the blocks it went through, in order, and how much is
\* still to be skipped; or that it failed.
Failed == [failed |-> TRUE, blocks |-> <<>>, skip |-> 0]

Walked(blocks, skip) == [failed |-> FALSE, blocks |-> blocks, skip |-> skip]

(***************************************************************************)
(* ext2_read_direct_blocks over max slots: skip slots, then take blocks    *)
(* until count are taken, a slot is empty or the slots end.                *)
(***************************************************************************)
DirectBlocksFromStart(slots, max, count, skip) ==
  IF skip >= max
    THEN Walked(<<>>, skip - max)
    ELSE Walked(SubSeq(slots, 1, IF count < Len(slots) THEN count ELSE Len(slots)), 0)

DirectBlocks(slots, max, count, skip) ==
  IF skip >= max
    THEN Walked(<<>>, skip - max)
    ELSE LET last == IF skip + count < Len(slots) THEN skip + count
                                                   ELSE Len(slots)
         IN Walked(SubSeq(slots, skip + 1, last), 0)

\* The walks that write blocks (ext2_write_direct_blocks and its kin) go through
\* the same ones in the same order, and fail where these do.
LeafBlocks(slots, count, skip) == DirectBlocks(slots, PerBlock, count, skip)

(***************************************************************************)
(* The loop of the three indirect walks, over the children of a block of   *)
(* pointers: an empty pointer fails; a child that yields nothing, be it    *)
(* because all of it was skipped, ends the walk with nothing at all; the   *)
(* walk ends when count blocks are taken.  The walks that write are alike. *)
(***************************************************************************)
AfterChild(acc, r, count) ==
  LET all == acc.result.blocks \o r.blocks
  IN IF r.failed \/ r.blocks = <<>>
       THEN [done |-> TRUE, result |-> r]
       ELSE [done |-> Len(all) = count, result |-> Walked(all, r.skip)]

Loop(Child(_, _, _), pointers, max, count, skip) ==
  LET Step(acc, k) ==
        IF acc.done THEN acc
        ELSE IF k > Len(pointers) THEN [done |-> TRUE, result |-> Failed]
        ELSE LET r == Child(pointers[k], count - Len(acc.result.blocks),
                            acc.result.skip)
             IN AfterChild(acc, r, count)
  IN FoldLeft(Step, [done |-> FALSE, result |-> Walked(<<>>, skip)],
              [k \in 1..max |-> k]).result

SingleBlocks(pointers, count, skip) ==
  LeafBlocks(pointers, count, skip)

DoubleBlocks(pointers, count, skip) ==
  Loop(SingleBlocks, pointers, PerBlock, count, skip)

TripleBlocks(pointers, count, skip) ==
  Loop(DoubleBlocks, pointers, PerBlock, count, skip)

(***************************************************************************)
(* ext2_read_inode_blocks: the direct slots, then the three indirect       *)
(* blocks, each walk taking what is still missing.  A walk that yields     *)
(* nothing ends it all with 0, the direct walk too: a skip past the direct *)
(* slots never gets to the indirect blocks.                                *)
(***************************************************************************)
Ends(w, count) == w.failed \/ w.blocks = <<>> \/ Len(w.blocks) >= count

ThenTook(w, r) ==
  IF r.failed \/ r.blocks = <<>> THEN r ELSE Walked(w.blocks \o r.blocks, r.skip)

ThenSingle(p, w, count) ==
  IF Ends(w, count) THEN w
  ELSE IF p.single = <<>> THEN Failed
  ELSE ThenTook(w, SingleBlocks(p.single, count - Len(w.blocks), w.skip))

ThenDouble(p, w, count) ==
  IF Ends(w, count) THEN w
  ELSE IF p.double = <<>> THEN Failed
  ELSE ThenTook(w, DoubleBlocks(p.double, count - Len(w.blocks), w.skip))

ThenTriple(p, w, count) ==
  IF Ends(w, count) THEN w
  ELSE IF p.triple = <<>> THEN Failed
  ELSE ThenTook(w, TripleBlocks(p.triple, count - Len(w.blocks), w.skip))

AllOrFailed(w, count) == IF Ends(w, count) THEN w ELSE Failed

InodeBlocks(p, count, skip) ==
  IF count = 0 THEN Walked(<<>>, skip)
  ELSE AllOrFailed(ThenTriple(p, ThenDouble(p, ThenSingle(p,
         DirectBlocks(p.direct, Direct, count, skip), count), count), count), count)

-----------------------------------------------------------------------------
\* The bytes of whole blocks, in order.
Bytes(blocks) ==
  [k \in 1..(Len(blocks) * BlockSize) |->
     <<blocks[(k - 1) \div BlockSize + 1], (k - 1) % BlockSize>>]

\* The first n bytes from offset of the block a walk ended on, if any.
Slice(walk, offset, n) ==
  IF walk.blocks = <<>> THEN <<>>
  ELSE SubSeq(Bytes(walk.blocks), offset + 1, offset + n)

NoBytes == [failed |-> TRUE, bytes |-> <<>>]

NoWalk == Walked(<<>>, 0)

(***************************************************************************)
(* ext2_read_inode_bytes: the rest of the block that skip points into, all *)
(* the whole blocks of count but one, and what is then missing from the    *)
(* next block.  Each stage is given what the one before has read.          *)
(***************************************************************************)
ReadEnds(count, read, tail) ==
  IF tail.failed \/ (count > Len(read) /\ Len(tail.blocks) # 1)
    THEN NoBytes
    ELSE [failed |-> FALSE, bytes |-> read \o Slice(tail, 0, count - Len(read))]

ReadLastBlock(p, count, from, read, body) ==
  IF body.failed THEN NoBytes
  ELSE ReadEnds(count, read \o Bytes(body.blocks),
         IF count > Len(read) + Len(body.blocks) * BlockSize
           THEN InodeBlocks(p, 1, from + Len(body.blocks)) ELSE NoWalk)

ReadWholeBlocks(p, count, from, read) ==
  ReadLastBlock(p, count, from, read,
    IF count > Len(read) THEN InodeBlocks(p, BlocksFor(count) - 1, from) ELSE NoWalk)

ReadAfterFirst(p, count, skip, head) ==
  LET into == skip % BlockSize
  IN IF head.failed \/ Len(head.blocks) # 1
       THEN NoBytes
       ELSE ReadWholeBlocks(p, count, skip \div BlockSize + 1,
                            Slice(head, into, BlockSize - into))

ReadInodeBytes(p, count, skip) ==
  IF skip % BlockSize = 0
    THEN ReadWholeBlocks(p, count, skip \div BlockSize, <<>>)
    ELSE ReadAfterFirst(p, count, skip, InodeBlocks(p, 1, skip \div BlockSize))

(***************************************************************************)
(* ext2_write_inode_bytes, the same three stages.  The result is the set   *)
(* of bytes that change on the disk, each with the index of the byte of    *)
(* the buffer it gets: of every block only the first SectorBytes bytes are *)
(* written.  The first stage copies skip % BlockSize bytes, whatever count *)
(* is, and the last one counts what the first wrote twice.                 *)
(* A stage that fails part way ends the call; the blocks it wrote before   *)
(* that are not in the set.                                                *)
(***************************************************************************)
PutWholeBlocks(blocks, offsets, base) ==
  {[block |-> blocks[k], offset |-> o, source |-> base + (k - 1) * BlockSize + o]
     : k \in DOMAIN blocks, o \in 0..(SectorBytes - 1)}

Put(blocks, offsets, base) ==
  {[block |-> blocks[k], offset |-> o, source |-> base + (k - 1) * BlockSize + o]
     : k \in DOMAIN blocks, o \in offsets \cap 0..(SectorBytes - 1)}

WriteEnds(count, ahead, written, put, tail) ==
  IF tail.failed THEN put
  ELSE put \cup Put(tail.blocks, 0..(count - written - 1), ahead + written)

WriteLastBlock(p, count, from, ahead, put, body) ==
  LET written == ahead + Len(body.blocks) * BlockSize
  IN IF body.failed THEN put
     ELSE WriteEnds(count, ahead, written,
            put \cup Put(body.blocks, 0..(BlockSize - 1), ahead),
            IF count > written THEN InodeBlocks(p, 1, from + Len(body.blocks))
                               ELSE NoWalk)

WriteWholeBlocks(p, count, from, ahead, put) ==
  WriteLastBlock(p, count, from, ahead, put,
    IF count > ahead THEN InodeBlocks(p, BlocksFor(count) - 1, from) ELSE NoWalk)

WriteAfterFirst(p, count, skip, head) ==
  LET into == skip % BlockSize
  IN IF head.failed \/ Len(head.blocks) # 1 THEN {}
     ELSE WriteWholeBlocks(p, count, skip \div BlockSize + 1, BlockSize - into,
                           Put(head.blocks, into..(2 * into - 1), -into))

WriteInodeBytes(p, count, skip) ==
  IF skip % BlockSize = 0
    THEN WriteWholeBlocks(p, count, skip \div BlockSize, 0, {})
    ELSE WriteAfterFirst(p, count, skip, InodeBlocks(p, 1, skip \div BlockSize))

(***************************************************************************)
(* ext2_load_block_list: as many direct blocks as the size calls for, then *)
(* all of each indirect block until there are enough.  The list has to     *)
(* have exactly the length the size calls for; a list for an empty file    *)
(* cannot be made, because kmalloc(0) is 0.                                *)
(***************************************************************************)
LoadBlockList(p, size) ==
  LET n == BlocksFor(size)
      Short(list) == Len(list) < n
      list0 == SubSeq(p.direct, 1, IF n < Len(p.direct) THEN n
                                                         ELSE Len(p.direct))
      list1 == IF Short(list0) THEN list0 \o p.single ELSE list0
      list2 == IF Short(list1) THEN list1 \o FlattenSeq(p.double) ELSE list1
      list3 == IF Short(list2)
                 THEN list2 \o FlattenSeq(FlattenSeq(p.triple)) ELSE list2
  IN IF n > 0 /\ Len(list3) = n THEN list3 ELSE <<>>
=============================================================================
