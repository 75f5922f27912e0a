-------------------------------- MODULE Ext2 --------------------------------
(***************************************************************************)
(* The metadata of an ext2 partition: kernel/src/vfs/generic/ext2.  Block  *)
(* and inode bitmaps, inodes and directories are on the disk; the free     *)
(* counts of the block group descriptors are in memory, read when the      *)
(* partition is registered.  ext2_flush_partition writes the descriptors   *)
(* over the superblock and then the superblock over them, so the counts on *)
(* the disk stay what mkfs put there.                                      *)
(*                                                                         *)
(* One call at a time is in progress (the debug shell is the only caller), *)
(* and every write to the disk is a step of it.  Between two steps the     *)
(* machine may stop and start again, or one access to the disk may fail:   *)
(* the call sees it and ends, or takes it for a success.  No call notices  *)
(* a bitmap that was not written (EXT2_WRITE_FAILED is positive), a block  *)
(* bitmap that was not read (EXT2_READ_FAILED is not 0), or an inode whose *)
(* sector, not the first of its block, was not written (write_disk returns *)
(* the bytes that were).                                                   *)
(*                                                                         *)
(* Bounds: files grow within their direct slots, a directory has the room  *)
(* of the one sector of its block that ext2_write_block writes, and there  *)
(* are at most two groups (ext2_flush_partition overwrites the bitmap of   *)
(* the third, which has no backup of the superblock).  Not modelled: a     *)
(* block of inodes of which a later sector was not read, and what is on    *)
(* the disk after a call was given a block that holds bitmaps, inodes or   *)
(* pointers for its data.                                                  *)
(***************************************************************************)
EXTENDS Ext2Blocks, FiniteSets, FiniteSetsExt

CONSTANTS
  Groups,         \* number of block groups
  GroupBlocks,    \* s_blocks_per_group
  WrittenBits,    \* bits of a block bitmap in its first sector
  GroupInodes,    \* s_inodes_per_group
  ByteBits,       \* bits in a byte of the inode bitmap: 8
  BlockInodes,    \* inodes in a block of the inode table
  SectorInodes,   \* inodes in a sector of it
  Leftovers,      \* bits that may be set in a buffer that nothing was read to
  DirSlots,       \* entries that fit in a directory
  Path,           \* paths given to the calls: sequences of names
  Sizes,          \* the sizes that files are written to
  Image,          \* the file that mkfs left: its name, size and pointers
  MaxCalls        \* bound on the number of calls

ASSUME Ext2Assumption ==
  /\ Groups \in {1, 2}
  /\ GroupBlocks \in Nat \ {0} /\ WrittenBits \in 1..GroupBlocks
  /\ GroupInodes \in Nat /\ GroupInodes > 4 /\ ByteBits \in Nat \ {0}
  /\ BlockInodes \in Nat \ {0} /\ SectorInodes \in 1..BlockInodes
  /\ Leftovers \subseteq SUBSET (1..GroupBlocks)
  /\ DirSlots \in Nat /\ DirSlots > 1 /\ Sizes \subseteq Nat \ {0}
  /\ MaxCalls \in Nat

VARIABLES
  bitmap,     \* blocks marked in the block bitmaps on the disk
  free,       \* bg_free_blocks_count of every group, in memory
  imap,       \* for every group, the bits set in its inode bitmap
  ifree,      \* bg_free_inodes_count of every group, in memory
  inode,      \* the inode table
  content,    \* what a block holds: directory entries, or <<>> for data
  stage,      \* the next step of the call in progress, "idle", or "astray":
              \* the call has a block that is not for data, and goes on
  op,         \* the locals of that call
  calls,      \* how many calls have begun
  unmarked,   \* history: blocks whose mark may be missing
  loose,      \* history: inodes in use that ext2_allocate_inode may return
  cut,        \* history: inodes whose deletion was cut short, or whose making
              \* or deletion did not reach the disk
  fault       \* history: "none", or what went wrong, once

disk == <<bitmap, imap, inode, content>>
counts == <<free, ifree>>
history == <<unmarked, loose, cut, fault>>
ext2Vars == <<disk, counts, stage, op, calls, history>>

-----------------------------------------------------------------------------
Group == 0..(Groups - 1)

Block == 1..(Groups * GroupBlocks)

\* A block number is a bit of a group, counted from 1.
BlockOf(g, bit) == g * GroupBlocks + bit

GroupOfBlock(b) == (b - 1) \div GroupBlocks

\* The bits that a write of the bitmap brings to the disk.
InFirstSector(b) == ((b - 1) % GroupBlocks) + 1 <= WrittenBits

\* The blocks of a group, and those whose bits are in the first sector.
BlocksIn(g) == {b \in Block : GroupOfBlock(b) = g}

Written(g) == {b \in BlocksIn(g) : InFirstSector(b)}

Ino == 1..(Groups * GroupInodes)

\* The inode is not in the first sector of its block.
InLaterSector(i) ==
  (((i - 1) % GroupInodes) % BlockInodes) >= SectorInodes

\* The paths are not empty, and the file that mkfs left has blocks of the
\* partition other than the first, the root directory's.
ASSUME PathsAssumption == \A path \in Path : path \in Seq(ToSet(path)) /\ path # <<>>

ASSUME ImageAssumption ==
  /\ Image.size \in Nat /\ Image.tables \subseteq Block
  /\ Image.pointers \in [direct : Seq(Block \ {1}), single : Seq(Block \ {1}),
                         double : Seq(Seq(Block \ {1})),
                         triple : Seq(Seq(Seq(Block \ {1})))]

Root == 2

\* mkfs: the reserved inodes, the one block of the root directory, the image
\* file in inode 3; the bits past the last inode of a group are set.
PointerBlocks(p) ==
  ToSet(p.direct) \cup ToSet(p.single) \cup ToSet(FlattenSeq(p.double))
    \cup ToSet(FlattenSeq(FlattenSeq(p.triple)))

FormatBlocks == {1} \cup PointerBlocks(Image.pointers) \cup Image.tables

FormatInodes(g) ==
  (IF g = 0 THEN 1..4 ELSE {}) \cup {b \in Ino : b > GroupInodes}

FormatFree ==
  [g \in Group |-> Cardinality({b \in Block \ FormatBlocks : GroupOfBlock(b) = g})]

FormatInodesFree == [g \in Group |-> Cardinality(Ino \ FormatInodes(g))]

NoInode == [kind |-> "none", size |-> 0, pointers |-> NoPointers]

\* "." and "..", the second one with the rest of the block for its record.
Dots(i) == <<[name |-> <<".">>, ino |-> i, len |-> DirSlots]>>

NoOp == [path |-> <<>>, kind |-> "none", ino |-> 0, parent |-> 0, need |-> 0,
         size |-> 0, list |-> <<>>]

Ext2Init ==
  /\ bitmap = FormatBlocks
  /\ free = FormatFree
  /\ imap = [g \in Group |-> FormatInodes(g)]
  /\ ifree = FormatInodesFree
  /\ inode = [i \in Ino |->
       CASE i = Root -> [kind |-> "dir", size |-> BlockSize,
                         pointers |-> [NoPointers EXCEPT !.direct = <<1>>]]
         [] i = 3 -> [kind |-> "file", size |-> Image.size,
                      pointers |-> Image.pointers]
         [] OTHER -> NoInode]
  /\ content = [b \in Block |->
       IF b = 1
         THEN <<[Dots(Root)[1] EXCEPT !.len = 1],
                [name |-> Image.name, ino |-> 3, len |-> DirSlots - 1]>>
         ELSE <<>>]
  /\ stage = "idle" /\ op = NoOp /\ calls = 0
  /\ unmarked = {} /\ loose = {} /\ cut = {} /\ fault = "none"

-----------------------------------------------------------------------------
(***************************************************************************)
(* ext2_inode_from_path_and_parent: the first entry whose name is a prefix *)
(* of the name asked for; 0 when there is none.                            *)
(***************************************************************************)
Entries(d) ==
  IF inode[d].kind = "dir" /\ inode[d].pointers.direct # <<>>
    THEN content[inode[d].pointers.direct[1]] ELSE <<>>

Child(d, name) ==
  LET hits == {k \in DOMAIN Entries(d) : IsPrefix(Entries(d)[k].name, name)}
  IN IF hits = {} THEN 0 ELSE Entries(d)[Min(hits)].ino

\* ext2_path_to_inode.
Lookup(path) ==
  FoldLeft(LAMBDA d, name : IF d = 0 THEN 0 ELSE Child(d, name), Root, path)

InUse == {i \in Ino : inode[i].kind # "none"}

\* History: the blocks these inodes point at may be free, and be given to others.
LetGo(kept) ==
  /\ cut' = cut \cup kept
  /\ unmarked' = unmarked \cup UNION {PointerBlocks(inode[i].pointers) : i \in kept}

\* The call in progress ends; a deletion that ends early leaves its inode cut.
Return(kept) == stage' = "idle" /\ op' = NoOp /\ LetGo(kept)

Deleting == stage \in {"bfree", "izero", "iclear", "unlink"}

Kept == IF Deleting THEN {op.ino} ELSE {}

\* A bitmap write that fails goes unnoticed: EXT2_WRITE_FAILED is positive.
BitmapWrite(written) ==
  /\ written \/ fault = "none"
  /\ fault' = IF written THEN fault ELSE "write"

\* What a call may take for the block bitmaps when that of one group was not
\* read, or only the first sector of it.
Misread(g) ==
  LET leftover == {{BlockOf(g, bit) : bit \in bits} : bits \in Leftovers}
  IN {(bitmap \ BlocksIn(g)) \cup bits : bits \in leftover}
       \cup {(bitmap \ (BlocksIn(g) \ Written(g))) \cup (bits \ Written(g)) :
              bits \in leftover}

\* The call has read the bitmap of the group, or has not and does not notice.
BitmapRead(g, seen, written) ==
  \/ seen = bitmap /\ BitmapWrite(written)
  \/ /\ seen \in Misread(g) /\ written
     /\ fault = "none" /\ fault' = "read"

\* ext2_write_block brings the first sector of what a call has made of a
\* group's bitmap to the disk.
WriteBitmap(g, made, written) ==
  bitmap' = IF written THEN (bitmap \ Written(g)) \cup (made \cap Written(g)) ELSE bitmap

\* History: the marks that the call did not see and its write took away.
LostMarks(seen) == (bitmap \ seen) \ bitmap'

\* A call starts with the given step.
Begin(step, locals, kept) ==
  /\ calls < MaxCalls
  /\ calls' = calls + 1
  /\ stage' = step /\ op' = locals
  /\ LetGo(kept)
  /\ UNCHANGED <<disk, counts, loose, fault>>

-----------------------------------------------------------------------------
(***************************************************************************)
(* ext2_create_file.  The parent has to be a directory; nothing looks      *)
(* whether the name is there already.                                      *)
(***************************************************************************)
CreateFile(path, kind) ==
  LET parent == Lookup(Front(path))
  IN /\ stage = "idle" /\ parent # 0 /\ inode[parent].kind = "dir"
     /\ Begin("ialloc",
              [NoOp EXCEPT !.path = path, !.kind = kind, !.parent = parent], {})

\* The clear bits of an inode bitmap, and those of one read only once.
ClearInodesStale(g) == Ino \ FormatInodes(g)

ClearInodes(g) == Ino \ imap[g]

(***************************************************************************)
(* ext2_allocate_inode: the first clear bit of the first group that counts *)
(* a free inode.  The bit is taken for the number of the inode, whatever   *)
(* the group.                                                              *)
(***************************************************************************)
AllocateInode(written) ==
  LET with == {g \in Group : ifree[g] > 0}
      g == Min(with)
      clear == ClearInodes(g)
      i == Min(clear)
  IN /\ stage = "ialloc"
     /\ IF with = {} \/ clear = {}
          THEN written /\ Return({}) /\ UNCHANGED <<disk, counts, loose, fault>>
          ELSE /\ BitmapWrite(written)
               /\ imap' = IF written THEN [imap EXCEPT ![g] = @ \cup {i}] ELSE imap
               /\ ifree' = [ifree EXCEPT ![g] = @ - 1]
               /\ loose' = IF g > 0 \/ ~written THEN loose \cup {i} ELSE loose
               /\ op' = [op EXCEPT !.ino = i]
               /\ stage' = "iinit"
               /\ UNCHANGED <<bitmap, inode, content, free, unmarked, cut>>

\* ext2_initialize_inode and the ext2_write_inode that follows it.  A
\* directory goes on to its first block.
InitializeInodeKeepsPointers ==
  /\ stage = "iinit"
  /\ inode' = [inode EXCEPT ![op.ino] =
       [kind |-> op.kind, size |-> 0, pointers |-> @.pointers]]
  /\ IF op.kind = "dir"
       THEN /\ stage' = "balloc"
            /\ op' = [op EXCEPT !.need = 1, !.size = BlockSize]
       ELSE stage' = "link" /\ op' = op
  /\ UNCHANGED <<bitmap, imap, content, counts, history>>

InitializeInode ==
  /\ stage = "iinit"
  /\ inode' = [inode EXCEPT ![op.ino] = [NoInode EXCEPT !.kind = op.kind]]
  /\ IF op.kind = "dir"
       THEN /\ stage' = "balloc"
            /\ op' = [op EXCEPT !.need = 1, !.size = BlockSize]
       ELSE stage' = "link" /\ op' = op
  /\ UNCHANGED <<bitmap, imap, content, counts, history>>

(***************************************************************************)
(* ext2_allocate_block: the first clear bit of a group that counts a free  *)
(* block.  The counts go down and the bitmap is written: its first sector, *)
(* or nothing when the write fails.  When there is none the call ends and  *)
(* leaves what it allocated before.                                        *)
(***************************************************************************)
\* One that works on the bitmap as it was when the partition was registered.
AllocatableStale(seen) == {b \in Block \ FormatBlocks : free[GroupOfBlock(b)] > 0}

AllocatableBlocks(seen) == {b \in Block \ seen : free[GroupOfBlock(b)] > 0}

\* The search comes to a group when those before it have no block to give.
SearchComesTo(g) ==
  free[g] > 0 /\ \A b \in AllocatableBlocks(bitmap) : GroupOfBlock(b) >= g

AllocateBlock(seen, written) ==
  LET b == Min(AllocatableBlocks(seen))
      g == GroupOfBlock(b)
  IN /\ stage = "balloc" /\ op.need > 0
     /\ \E h \in Group : BitmapRead(h, seen, written) /\ (seen # bitmap => SearchComesTo(h))
     /\ IF AllocatableBlocks(seen) = {}
          THEN written /\ Return({}) /\ UNCHANGED <<disk, counts, loose>>
          ELSE /\ WriteBitmap(g, seen \cup {b}, written)
               /\ free' = [free EXCEPT ![g] = @ - 1]
               /\ unmarked' = unmarked \cup LostMarks(seen)
                    \cup (IF b \in bitmap' \ (bitmap \ seen) THEN {} ELSE {b})
               /\ op' = [op EXCEPT !.need = @ - 1, !.list = Append(@, b)]
               /\ stage' = CASE b \in Image.tables -> "astray"
                             [] op.need = 1 -> "iwrite"
                             [] OTHER -> "balloc"
               /\ UNCHANGED <<imap, inode, content, ifree, loose, cut>>

\* The ext2_write_inode that ends ext2_resize_file, and the flush after it.
WriteInode ==
  /\ stage = "iwrite"
  /\ inode' = [inode EXCEPT ![op.ino].size = op.size,
                            ![op.ino].pointers.direct = op.list]
  /\ stage' = IF op.kind = "dir" THEN "dots" ELSE "data"
  /\ UNCHANGED <<bitmap, imap, content, counts, op, history>>

\* ext2_initialize_directory.
InitializeDirectory ==
  /\ stage = "dots"
  /\ content' = [content EXCEPT ![op.list[1]] = Dots(op.ino)]
  /\ stage' = "link"
  /\ UNCHANGED <<bitmap, imap, inode, counts, op, history>>

(***************************************************************************)
(* ext2_create_directory_entry: the new entry takes what the record of the *)
(* last one does not need; room left by deleted entries before it is not   *)
(* looked for.                                                             *)
(***************************************************************************)
CreateDirectoryEntry ==
  LET old == Entries(op.parent)
      n == Len(old)
      entry == [name |-> Last(op.path), ino |-> op.ino, len |-> old[n].len - 1]
  IN /\ stage = "link"
     /\ Return({})
     /\ content' = IF n = 0 \/ old[n].len < 2 THEN content
                   ELSE [content EXCEPT ![inode[op.parent].pointers.direct[1]] =
                           Append([old EXCEPT ![n].len = 1], entry)]
     /\ UNCHANGED <<bitmap, imap, inode, counts, loose, fault>>

-----------------------------------------------------------------------------
(***************************************************************************)
(* ext2_write_file, and ext2_resize_file when the file has to grow: one    *)
(* block for every BlockSize bytes that are added, whether or not the last *)
(* block has room.  An inode that is not in use is written too, if a name  *)
(* leads to it, and has the blocks it had.                                 *)
(***************************************************************************)
WriteFile(path, size) ==
  LET i == Lookup(path)
      need == BlocksFor(size - inode[i].size)
      old == inode[i].pointers.direct
      write == [NoOp EXCEPT !.path = path, !.kind = "write", !.ino = i]
  IN /\ stage = "idle" /\ i # 0 /\ inode[i].kind # "dir"
     /\ \/ /\ size > inode[i].size
           /\ Len(old) + need <= Direct
           /\ Begin("balloc", [write EXCEPT !.need = need, !.size = size,
                                            !.list = old],
                    {i} \ (InUse \cup cut))
        \/ size <= inode[i].size /\ Begin("data", write, {})

\* ext2_write_inode_bytes: the blocks of the file hold data.
WriteData ==
  /\ stage = "data"
  /\ content' = [b \in Block |->
                   IF b \in PointerBlocks(inode[op.ino].pointers) THEN <<>>
                                                                  ELSE content[b]]
  /\ Return({})
  /\ UNCHANGED <<bitmap, imap, inode, counts, loose, fault>>

-----------------------------------------------------------------------------
(***************************************************************************)
(* ext2_delete_file: the blocks, the inode, the directory entry.           *)
(***************************************************************************)
DeleteFile(path) ==
  LET i == Lookup(path)
      list == LoadBlockList(inode[i].pointers, inode[i].size)
  IN /\ stage = "idle" /\ i # 0 /\ list # <<>>
     /\ Begin("bfree", [NoOp EXCEPT !.path = path, !.ino = i, !.list = list], {})

\* An ext2_deallocate_block that leaves the counts alone.
DeallocateBlockUncounted(seen, written) ==
  LET b == Last(op.list)
  IN /\ stage = "bfree" /\ written /\ seen = bitmap
     /\ bitmap' = IF InFirstSector(b) THEN bitmap \ {b} ELSE bitmap
     /\ op' = [op EXCEPT !.list = Front(@)]
     /\ stage' = IF Len(op.list) = 1 THEN "izero" ELSE "bfree"
     /\ UNCHANGED <<imap, inode, content, counts, history>>

\* ext2_deallocate_block on the last block of the list that is left.  A bit
\* that is not set ends the call.
DeallocateBlock(seen, written) ==
  LET b == Last(op.list)
      g == GroupOfBlock(b)
  IN /\ stage = "bfree"
     /\ BitmapRead(g, seen, written)
     /\ IF b \notin seen
          THEN written /\ Return(Kept) /\ UNCHANGED <<disk, counts, loose>>
          ELSE /\ WriteBitmap(g, seen \ {b}, written)
               /\ free' = [free EXCEPT ![g] = @ + 1]
               /\ unmarked' = unmarked \cup LostMarks(seen)
               /\ op' = [op EXCEPT !.list = Front(@)]
               /\ stage' = IF Len(op.list) = 1 THEN "izero" ELSE "bfree"
               /\ UNCHANGED <<imap, inode, content, ifree, loose, cut>>

\* The first half of ext2_delete_inode: the inode is written with no mode and
\* no size; its pointers stay.
ZeroInode ==
  /\ stage = "izero"
  /\ inode' = [inode EXCEPT ![op.ino].kind = "none", ![op.ino].size = 0]
  /\ stage' = "iclear"
  /\ UNCHANGED <<bitmap, imap, content, counts, op, history>>

(***************************************************************************)
(* The second half: the byte of the bitmap whose index is the index of the *)
(* inode is cleared, which is the bits of other inodes.                    *)
(***************************************************************************)
ClearedBits(i) ==
  LET index == (i - 1) % GroupInodes
  IN {b \in Ino : (b - 1) \div ByteBits = index}

ClearInodeBit ==
  LET g == (op.ino - 1) \div GroupInodes
  IN /\ stage = "iclear"
     /\ imap' = [imap EXCEPT ![g] = @ \ ClearedBits(op.ino)]
     /\ ifree' = [ifree EXCEPT ![g] = @ + 1]
     /\ loose' = loose \cup {i \in ClearedBits(op.ino) \cap imap[g] :
                              inode[i].kind # "none"}
     /\ stage' = "unlink"
     /\ UNCHANGED <<bitmap, inode, content, free, op, unmarked, cut, fault>>

(***************************************************************************)
(* ext2_delete_dentry: the path is looked up again, and the first entry of *)
(* its parent that has the inode goes; the entry before it takes its room. *)
(***************************************************************************)
DeleteDentryForgotten ==
  /\ stage = "unlink" /\ Return({})
  /\ UNCHANGED <<disk, counts, loose, fault>>

DeleteDentry ==
  LET parent == Lookup(Front(op.path))
      target == Lookup(op.path)
      old == IF parent = 0 THEN <<>> ELSE Entries(parent)
      hits == {k \in DOMAIN old : old[k].ino = target}
      k == Min(hits)
  IN /\ stage = "unlink"
     /\ IF target = 0 \/ hits = {} \/ 1 \in hits
          THEN Return(Kept) /\ UNCHANGED content
          ELSE /\ Return(IF op.ino \in loose \cup cut \/ target # op.ino THEN Kept ELSE {})
               /\ content' = [content EXCEPT ![inode[parent].pointers.direct[1]] =
                    RemoveAt([old EXCEPT ![k - 1].len = @ + old[k].len], k)]
     /\ UNCHANGED <<bitmap, imap, inode, counts, loose, fault>>

-----------------------------------------------------------------------------
\* A read or write of the disk that the code sees fail: nothing is written,
\* the call ends and what it has done stays done.
StepFails ==
  /\ stage \in {"ialloc", "iinit", "iwrite", "dots", "link", "data",
                "izero", "iclear", "unlink"}
  /\ fault = "none"
  /\ fault' = "step"
  /\ Return(Kept)
  /\ UNCHANGED <<disk, counts, loose>>

(***************************************************************************)
(* ext2_write_inode writes the block of the inode sector by sector.  When  *)
(* the inode's is not the first, and fails, write_disk returns the bytes   *)
(* before it and the call goes on as if the inode were written:            *)
(* ext2_create_file gives a name to an inode that is not there, or grows   *)
(* the directory from what the inode was (smaller than a block: the others *)
(* are left out), and ext2_delete_inode clears the bit of one in use.      *)
(***************************************************************************)
InodeWriteLost ==
  LET old == inode[op.ino]
  IN /\ fault = "none" /\ fault' = "inode"
     /\ InLaterSector(op.ino)
     /\ \/ /\ stage = "iinit" /\ op.kind = "file"
           /\ stage' = "link" /\ op' = op /\ LetGo({op.ino})
        \/ /\ stage = "iinit" /\ op.kind = "dir"
           /\ old.size < BlockSize /\ Len(old.pointers.direct) < Direct
           /\ stage' = "balloc" /\ LetGo({op.ino})
           /\ op' = [op EXCEPT !.need = 1, !.size = BlockSize,
                               !.list = old.pointers.direct]
        \/ /\ stage = "iwrite"
           /\ stage' = IF op.kind = "dir" THEN "link" ELSE "data"
           /\ op' = op /\ LetGo({})
        \/ /\ stage = "izero"
           /\ stage' = "iclear" /\ op' = op /\ LetGo({op.ino})
     /\ UNCHANGED <<disk, counts, loose>>

\* The machine stops and the partition is registered again.
Reboot ==
  /\ fault = "none"
  /\ fault' = "reboot"
  /\ Return(Kept)
  /\ free' = FormatFree
  /\ ifree' = FormatInodesFree
  /\ UNCHANGED <<disk, loose>>

\* What the bitmaps are to a call that reads them.
SeenBitmaps ==
  {bitmap} \cup UNION {Misread(g) : g \in IF fault = "none" THEN Group ELSE {}}

Step ==
  \/ \E w \in BOOLEAN : AllocateInode(w)
  \/ /\ stage \in {"balloc", "bfree"}
     /\ \E seen \in SeenBitmaps, w \in BOOLEAN :
          AllocateBlock(seen, w) \/ DeallocateBlock(seen, w)
  \/ InitializeInode \/ WriteInode \/ InitializeDirectory
  \/ CreateDirectoryEntry \/ WriteData
  \/ ZeroInode \/ ClearInodeBit \/ DeleteDentry
  \/ StepFails \/ InodeWriteLost \/ Reboot

Ext2Next ==
  \/ \E path \in Path, kind \in {"file", "dir"} : CreateFile(path, kind)
  \/ \E path \in Path, size \in Sizes : WriteFile(path, size)
  \/ \E path \in Path \cup {<<Image.name>>} : DeleteFile(path)
  \/ Step /\ UNCHANGED calls

Ext2Spec == Ext2Init /\ [][Ext2Next]_ext2Vars

-----------------------------------------------------------------------------
(* Types: numbers stay inside the partition, counts never go below zero.    *)
TypeOK ==
  /\ bitmap \subseteq Block /\ unmarked \subseteq Block
  /\ free \in [Group -> Nat] /\ ifree \in [Group -> Nat]
  /\ imap \in [Group -> SUBSET Ino]
  /\ \A i \in Ino : /\ inode[i].kind \in {"none", "file", "dir"}
                   /\ inode[i].size \in Nat
                   /\ PointerBlocks(inode[i].pointers) \subseteq Block
  /\ \A b \in Block : \A k \in DOMAIN content[b] :
        content[b][k].ino \in Ino /\ content[b][k].len \in 1..DirSlots
  /\ calls \in 0..MaxCalls
  /\ loose \subseteq Ino /\ cut \subseteq Ino
  /\ fault \in {"none", "write", "read", "inode", "step", "reboot"}
  /\ stage \in {"idle", "ialloc", "iinit", "balloc", "iwrite", "dots", "link",
                "data", "bfree", "izero", "iclear", "unlink", "astray"}

(* A block of an inode in use is marked in the bitmap, through every order   *)
(* of creations, writes and deletions, failed steps and reboots between two  *)
(* writes; but for the blocks of deletions that were cut short and those     *)
(* whose bit the allocation could not bring to the disk.                     *)
UsedBlocksAreMarked ==
  \A i \in (InUse \cup cut) \ Kept :
    PointerBlocks(inode[i].pointers) \subseteq bitmap \cup unmarked

(* Two inodes never have the same block, with the same two exceptions: an    *)
(* allocation gives a block that no file has, the pointers of a reused inode *)
(* are cleared, and the order of the writes of a creation is safe.           *)
BlocksHaveOneOwner ==
  \A i, j \in InUse \cup cut : i # j =>
    PointerBlocks(inode[i].pointers) \cap PointerBlocks(inode[j].pointers)
      \subseteq unmarked

\* The entries on the disk without the dots: a block and a place in it, also
\* in the blocks of deleted directories.
DirectoryEntries == UNION {{b} \X (DOMAIN content[b] \ {1}) : b \in Block}

InoOf(e) == content[e[1]][e[2]].ino

(* An inode has one name, unless its bit was cleared by the deletion of      *)
(* another one or it came from a group other than the first.                 *)
InodesHaveOneName ==
  \A e, f \in DirectoryEntries :
    e # f /\ InoOf(e) = InoOf(f) => InoOf(e) \in loose \cup cut

(* A name leads to an inode that is in use: a creation writes the inode      *)
(* before the entry, and only a deletion cut short leaves an entry behind.   *)
NamesLeadToInodes == \A e \in DirectoryEntries : InoOf(e) \in InUse \cup cut \cup Kept

(* A read of a file gives the bytes that were asked for, from the      *)
(* blocks of the file in their order, or fails; it does not fail when it     *)
(* starts on a block and stays in the direct ones, whatever sizes the file   *)
(* grew through.                                                             *)
FileBlocks(p) ==
  p.direct \o p.single \o FlattenSeq(p.double) \o FlattenSeq(FlattenSeq(p.triple))

InDirect(p, skip, count) ==
  /\ skip % BlockSize = 0
  /\ BlocksFor(skip + count) <= Len(p.direct)

ReadIsRight(p, skip, count) ==
  LET r == ReadInodeBytes(p, count, skip)
      asked == SubSeq(Bytes(FileBlocks(p)), skip + 1, skip + count)
  IN /\ ~r.failed => IsPrefix(asked, r.bytes)
     /\ InDirect(p, skip, count) => ~r.failed /\ Len(r.bytes) = count

ReadsAreRight ==
  stage = "idle" => \A i \in InUse : inode[i].kind = "file" =>
    \A skip \in 0..(inode[i].size - 1) : \A count \in 1..(inode[i].size - skip) :
      ReadIsRight(inode[i].pointers, skip, count)

(* A write that starts on a block and stays in the direct ones changes bytes *)
(* of the range only, puts the right byte of the buffer into each, and       *)
(* leaves out none that lies in the first sector of its block.               *)
WriteIsRight(p, skip, count) ==
  LET bytes == Bytes(FileBlocks(p))
  IN InDirect(p, skip, count) =>
       WriteInodeBytes(p, count, skip)
         = {[block |-> bytes[skip + k + 1][1], offset |-> bytes[skip + k + 1][2],
             source |-> k] :
              k \in {j \in 0..(count - 1) : bytes[skip + j + 1][2] < SectorBytes}}

WritesAreRight ==
  stage = "idle" => \A i \in InUse : inode[i].kind = "file" =>
    \A skip \in 0..(inode[i].size - 1) : \A count \in 1..(inode[i].size - skip) :
      WriteIsRight(inode[i].pointers, skip, count)

(* Until a reboot or a lost bitmap write a group counts at least as many     *)
(* free blocks as its bitmap has clear bits that can be marked: a call that  *)
(* ends for want of a block, or is cut short, does not make free blocks      *)
(* unreachable to the next one.                                              *)
CountsCoverClearBits ==
  fault \notin {"reboot", "write", "read"} => \A g \in Group :
    free[g] >= Cardinality({b \in Block \ bitmap :
                              GroupOfBlock(b) = g /\ InFirstSector(b)})

(* What a name stands for: one inode, in use, that no other name leads to,   *)
(* whichever write of a creation or deletion failed or was the last before a *)
(* reboot, but for the inodes the deletions of others or of themselves have  *)
(* let go of (ext2_create_file, ext2_delete_file).                           *)
NamesAreSound == TypeOK /\ InodesHaveOneName /\ NamesLeadToInodes

(* Reads and writes of a file move the bytes that were asked for, between    *)
(* the right places (ext2_read_inode_bytes, ext2_write_inode_bytes).         *)
TransfersAreRight == ReadsAreRight /\ WritesAreRight
=============================================================================
