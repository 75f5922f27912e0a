----------------------------- MODULE OpenFiles -----------------------------
(***************************************************************************)
(* The tables of open files and open directories of vfs_compat.c, as the   *)
(* calls of vfs_interface.c use them on mounted ext2 partitions, and       *)
(* vfs_remove, which asks them whether a file is open.                     *)
(*                                                                         *)
(* An entry that is not loaded keeps old contents that the next open       *)
(* overwrites: it is Free here.  A call is one step: vfs calls are made by *)
(* shell commands, which the serial interrupt runs one at a time.          *)
(***************************************************************************)
EXTENDS Integers

CONSTANTS
  Caller,      \* holders of at most one descriptor each
  Mount, Path,
  Files, Dirs, \* VFS_COMPAT_MAX_OPEN_FILES, VFS_COMPAT_MAX_OPEN_DIRECTORIES
  OffsetMod,   \* offsets are unsigned, modulo 2^64 in the code
  DirCount,    \* numbers of entries a directory may have
  MaxNumber,   \* bound on the entries loaded into, and read from, one descriptor
  ForceArg,    \* values of the second argument of vfs_remove
  Free, NoHandle

ASSUME OpenFilesAssumption ==
  /\ Files \in Nat \ {0} /\ Dirs \in Nat \ {0} /\ OffsetMod \in Nat \ {0}
  /\ DirCount \subseteq Nat /\ MaxNumber \in Nat
  /\ ForceArg \subseteq BOOLEAN

VARIABLES
  table,    \* the two tables
  cursor,   \* the static fd of get_fd and of get_dirfd
  disk,     \* what exists under each name
  held,     \* the descriptor of each caller, and what its entry should be
  misses,   \* failed opens since a table last changed, up to two
  forced,   \* a forced removal released entries
  damaged   \* an entry past the end of a table was written

vars == <<table, cursor, disk, held, misses, forced, damaged>>

File == Mount \X Path
Kind == {"file", "dir"}
Size(k) == IF k = "file" THEN Files ELSE Dirs
Index(k) == 0..(Size(k) - 1)
Offset == 0..(OffsetMod - 1)

Contents == [file : File, offset : Offset, number : Nat, index : Nat]
Entry == {e \in Contents : e.index <= e.number}
Handle == [kind : Kind, fd : Nat, entry : Contents]

ASSUME ValuesAssumption == Free \notin Contents /\ NoHandle \notin Handle

Init ==
  /\ table = [k \in Kind |-> [i \in Index(k) |-> Free]]
  /\ cursor = [k \in Kind |-> 0]
  /\ disk \in [File -> Kind \cup {"absent"}]
  /\ held = [c \in Caller |-> NoHandle]
  /\ misses = [k \in Kind |-> 0]
  /\ forced = FALSE
  /\ damaged = FALSE

-----------------------------------------------------------------------------
(* get_fd and get_dirfd.  They make as many turns as the table has         *)
(* entries.  The cursor they start from is one past the end after the last *)
(* entry was handed out: then the first turn looks at what lies there, and *)
(* the last entry is not reached.                                          *)
Visited(k) == IF cursor[k] < Size(k) THEN Index(k) ELSE 0..(Size(k) - 2)

Turn(k, i) == (i + Size(k) - cursor[k]) % Size(k)

(* A search that takes whatever entry it starts from.                      *)
FirstFreeUnchecked(k, i) == i \in Visited(k) /\ Turn(k, i) = 0

FirstFree(k, i) ==
  /\ i \in Visited(k) /\ table[k][i] = Free
  /\ \A j \in Visited(k) : table[k][j] = Free => Turn(k, i) <= Turn(k, j)

FindsNone(k) == \A i \in Visited(k) : table[k][i] # Free

Opened(f) == [file |-> f, offset |-> 0, number |-> 0, index |-> 0]

Reset(k) == misses' = [misses EXCEPT ![k] = 0]

TakesEntry(c, k, f) ==
  \E i \in Index(k) :
    /\ FirstFree(k, i)
    /\ table' = [table EXCEPT ![k][i] = Opened(f)]
    /\ cursor' = [cursor EXCEPT ![k] = i + 1]
    /\ held' = [held EXCEPT ![c] = [kind |-> k, fd |-> i, entry |-> Opened(f)]]
    /\ Reset(k)
    /\ UNCHANGED <<forced, damaged>>

(* The cursor of a search that found nothing, in a loop that compares      *)
(* before it counts.                                                       *)
CursorAfterMissLate(k) == cursor[k]

(* Where a search that found nothing leaves the cursor.                    *)
CursorAfterMiss(k) == IF cursor[k] < Size(k) THEN cursor[k] ELSE Size(k) - 1

TakesNone(k) ==
  /\ FindsNone(k)
  /\ cursor' = [cursor EXCEPT ![k] = CursorAfterMiss(k)]
  /\ misses' = [misses EXCEPT ![k] = IF @ < 2 THEN @ + 1 ELSE @]
  /\ UNCHANGED <<table, held, forced, damaged>>

(* The byte taken for "loaded" past the end is 0: the entry is written     *)
(* there.  What that does to other data is not modelled, and no step       *)
(* follows.                                                                *)
TakesPastEnd(c, k, f) ==
  /\ cursor[k] = Size(k)
  /\ held' = [held EXCEPT ![c] = [kind |-> k, fd |-> Size(k), entry |-> Opened(f)]]
  /\ damaged' = TRUE
  /\ UNCHANGED <<table, cursor, misses, forced>>

get_fd(c, k, f) ==
  \/ TakesEntry(c, k, f)
  \/ TakesNone(k)
  \/ TakesPastEnd(c, k, f)

-----------------------------------------------------------------------------
(* vfs_file_open and vfs_dir_open do not look whether the name exists.     *)
Open(c, k, f) ==
  /\ held[c] = NoHandle
  /\ get_fd(c, k, f)
  /\ UNCHANGED disk

(* vfs_file_creat and vfs_mkdir of a new name, when ext2_create_file       *)
(* succeeds.                                                               *)
create_file(k, f) ==
  /\ disk[f] = "absent"
  /\ disk' = [disk EXCEPT ![f] = k]

Create(c, k, f) ==
  /\ held[c] = NoHandle
  /\ create_file(k, f)
  /\ get_fd(c, k, f)

(* The shell's create and mkdir end without closing what they opened.      *)
Forget(c) ==
  /\ held[c] # NoHandle
  /\ held' = [held EXCEPT ![c] = NoHandle]
  /\ UNCHANGED <<table, cursor, disk, misses, forced, damaged>>

release_fd(k, fd) == table' = [table EXCEPT ![k][fd] = Free]

(* vfs_file_close and vfs_dir_close.                                       *)
Close(c) ==
  /\ held[c] # NoHandle
  /\ release_fd(held[c].kind, held[c].fd)
  /\ held' = [held EXCEPT ![c] = NoHandle]
  /\ Reset(held[c].kind)
  /\ UNCHANGED <<cursor, disk, forced, damaged>>

(* The caller's descriptor is of kind k and its entry is loaded.           *)
Uses(c, k) ==
  /\ held[c] # NoHandle
  /\ held[c].kind = k
  /\ table[k][held[c].fd] # Free

(* vfs_file_seek from the start or from the end.                           *)
SetOffset(c, offset) ==
  /\ Uses(c, "file")
  /\ table' = [table EXCEPT !["file"][held[c].fd].offset = offset]
  /\ held' = [held EXCEPT ![c].entry.offset = offset]
  /\ UNCHANGED <<cursor, disk, misses, forced, damaged>>

(* vfs_file_seek from where the file stands, and vfs_file_write, which     *)
(* moves on whether or not it wrote.                                       *)
Advance(c, count) ==
  /\ Uses(c, "file")
  /\ table' = [table EXCEPT !["file"][held[c].fd].offset = (@ + count) % OffsetMod]
  /\ held' = [held EXCEPT ![c].entry.offset = (@ + count) % OffsetMod]
  /\ UNCHANGED <<cursor, disk, misses, forced, damaged>>

(* vfs_dir_load appends what is in the directory; a name that is no        *)
(* directory gives nothing.                                                *)
DirLoad(c, count) ==
  /\ Uses(c, "dir")
  /\ disk[table["dir"][held[c].fd].file] = "dir"
  /\ table["dir"][held[c].fd].number + count <= MaxNumber
  /\ held[c].entry.number + count <= MaxNumber
  /\ table' = [table EXCEPT !["dir"][held[c].fd].number = @ + count]
  /\ held' = [held EXCEPT ![c].entry.number = @ + count]
  /\ UNCHANGED <<cursor, disk, misses, forced, damaged>>

DirRead(c) ==
  /\ Uses(c, "dir")
  /\ table["dir"][held[c].fd].index < table["dir"][held[c].fd].number
  /\ held[c].entry.index < MaxNumber
  /\ table' = [table EXCEPT !["dir"][held[c].fd].index = @ + 1]
  /\ held' = [held EXCEPT ![c].entry.index = @ + 1]
  /\ UNCHANGED <<cursor, disk, misses, forced, damaged>>

-----------------------------------------------------------------------------
(* is_open and force_release compare the path inside the mount only.       *)
Matches(k, i, f) == table[k][i] # Free /\ table[k][i].file[2] = f[2]

(* is_open(path) > 0: the first match, files before directories, is not    *)
(* entry 0.                                                                *)
FoundOpen(f) ==
  IF \E i \in Index("file") : Matches("file", i, f)
  THEN ~Matches("file", 0, f)
  ELSE (\E i \in Index("dir") : Matches("dir", i, f)) /\ ~Matches("dir", 0, f)

force_release(f) ==
  table' = [k \in Kind |-> [i \in Index(k) |->
              IF Matches(k, i, f) THEN Free ELSE table[k][i]]]

(* A name that does not exist is refused.  Whether the name is taken for a *)
(* directory, which is never empty as it holds "." and "..", is read from  *)
(* an uninitialized entry: a directory is refused or removed.              *)
prepare_remove(f) == disk[f] # "absent"

is_safe_for_removing(f, force) == FoundOpen(f) => force

(* ext2_delete_file can fail.                                              *)
remove(f) == disk' = [disk EXCEPT ![f] = "absent"] \/ UNCHANGED disk

vfs_remove(f, force) ==
  /\ prepare_remove(f)
  /\ is_safe_for_removing(f, force)
  /\ remove(f)
  /\ IF FoundOpen(f)
     THEN force_release(f) /\ misses' = [k \in Kind |-> 0] /\ forced' = TRUE
     ELSE UNCHANGED <<table, misses, forced>>
  /\ UNCHANGED <<cursor, held, damaged>>

Next ==
  /\ ~damaged
  /\ \/ \E c \in Caller, k \in Kind, f \in File : Open(c, k, f) \/ Create(c, k, f)
     \/ \E c \in Caller : Forget(c) \/ Close(c) \/ DirRead(c)
     \/ \E c \in Caller, offset \in Offset : SetOffset(c, offset) \/ Advance(c, offset)
     \/ \E c \in Caller, count \in DirCount : DirLoad(c, count)
     \/ \E f \in File, force \in ForceArg : vfs_remove(f, force)

Spec == Init /\ [][Next]_vars

-----------------------------------------------------------------------------
TypeOK ==
  /\ table = [k \in Kind |-> table[k]]
  /\ \A k \in Kind : table[k] \in [Index(k) -> Entry \cup {Free}]
  /\ cursor \in [Kind -> Nat] /\ \A k \in Kind : cursor[k] <= Size(k)
  /\ disk \in [File -> Kind \cup {"absent"}]
  /\ held \in [Caller -> Handle \cup {NoHandle}]
  /\ misses \in [Kind -> 0..2]
  /\ forced \in BOOLEAN /\ damaged \in BOOLEAN

(* Until a removal is forced on it, a descriptor keeps the entry it was    *)
(* given: the same file, the offset or the position its holder left it at, *)
(* and no other caller has it (get_fd, get_dirfd, release_fd,              *)
(* release_dirfd, read_dirfd, add_file_to_dirfd).                          *)
HeldEntriesAreTheirs ==
  ~forced /\ ~damaged =>
    \A c \in Caller : held[c] # NoHandle =>
      /\ held[c].fd \in Index(held[c].kind)
      /\ table[held[c].kind][held[c].fd] = held[c].entry
      /\ \A d \in Caller \ {c} : held[d] # NoHandle =>
           <<held[c].kind, held[c].fd>> # <<held[d].kind, held[d].fd>>

(* An open that fails leaves at most one entry unused, and one that fails  *)
(* again, with nothing opened or closed in between, leaves none: the       *)
(* search comes around (the static fd of get_fd and of get_dirfd).         *)
SecondFailureMeansFull ==
  \A k \in Kind :
    /\ misses[k] >= 1 =>
         \A i, j \in Index(k) : table[k][i] = Free /\ table[k][j] = Free => i = j
    /\ misses[k] = 2 => \A i \in Index(k) : table[k][i] # Free
=============================================================================
