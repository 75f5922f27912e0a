----------------------------- MODULE VfsProofs -----------------------------
(***************************************************************************)
(* The calls of the virtual file system: the tables of open files and      *)
(* directories, for tables of any size, any callers and any names, and     *)
(* vfs_normalize_path, which rewrites the paths the calls are given.       *)
(***************************************************************************)
EXTENDS OpenFiles, NormalizePath, TLAPS

LEMMA SizeIsPositive ==
  ASSUME NEW k \in Kind
  PROVE  Size(k) \in Nat \ {0} /\ 0 \in Index(k)
  BY OpenFilesAssumption DEF Size, Index

LEMMA VisitedIsInTable ==
  ASSUME NEW k \in Kind
  PROVE  Visited(k) \subseteq Index(k)
  BY SizeIsPositive DEF Visited, Index

LEMMA OpenedIsEntry ==
  ASSUME NEW f \in File
  PROVE  Opened(f) \in Entry /\ Opened(f) \in Contents
  BY OpenFilesAssumption DEF Opened, Entry, Contents, Offset

(* A table is a table of entries, and the two tables are one function.     *)
TableOK ==
  /\ table = [k \in Kind |-> table[k]]
  /\ \A k \in Kind : table[k] \in [Index(k) -> Entry \cup {Free}]

(* One entry is stored.                                                    *)
Stores(k, i, e) ==
  /\ table' = [table EXCEPT ![k][i] = e]
  /\ i \in Index(k) => e \in Entry \cup {Free}

(* What that does to the tables, whatever the place.                       *)
LEMMA StoreEntry ==
  ASSUME TableOK, NEW k \in Kind, NEW i, NEW e, Stores(k, i, e)
  PROVE  /\ TableOK'
         /\ i \in Index(k) => table'[k][i] = e
         /\ \A l \in Kind : \A j \in Index(l) :
              <<l, j>> # <<k, i>> => table'[l][j] = table[l][j]
<1>1. table' = [l \in Kind |-> IF l = k THEN [table[k] EXCEPT ![i] = e] ELSE table[l]]
  BY DEF TableOK, Stores
<1>2. table'[k] = [table[k] EXCEPT ![i] = e]
  BY <1>1
<1>3. \A l \in Kind : l # k => table'[l] = table[l]
  BY <1>1
<1>4. table[k] \in [Index(k) -> Entry \cup {Free}]
  BY DEF TableOK
<1>5. table'[k] \in [Index(k) -> Entry \cup {Free}]
  <2>1. CASE i \in Index(k)
    BY <1>2, <1>4, <2>1 DEF Stores
  <2>2. CASE i \notin Index(k)
    BY <1>2, <1>4, <2>2
  <2> QED
    BY <2>1, <2>2
<1>6. \A l \in Kind : table'[l] \in [Index(l) -> Entry \cup {Free}]
  BY <1>3, <1>5 DEF TableOK
<1>7. table' = [l \in Kind |-> table'[l]]
  BY <1>1
<1>8. TableOK'
  BY <1>6, <1>7 DEF TableOK, Index, Size, Entry, Contents, File, Offset, Kind
<1>9. i \in Index(k) => table'[k][i] = e
  BY <1>2, <1>4
<1>10. \A j \in Index(k) : j # i => table'[k][j] = table[k][j]
  BY <1>2, <1>4
<1> QED
  BY <1>3, <1>8, <1>9, <1>10

(* A step that stores into entries in use only leaves the free ones.       *)
SameFree ==
  \A k \in Kind : \A i \in Index(k) : table'[k][i] = Free <=> table[k][i] = Free

LEMMA EntryIsNotFree == \A e \in Entry : e # Free
  BY ValuesAssumption DEF Entry

LEMMA TypeOKHasTable == TypeOK => TableOK
  BY DEF TypeOK, TableOK

(* seek, write, dir_load and dir_read: a caller changes its loaded entry   *)
(* and knows how.                                                          *)
UsesTo(c, k, e, v) ==
  /\ Uses(c, k)
  /\ Stores(k, held[c].fd, e)
  /\ held[c].fd \in Index(k) => e \in Entry
  /\ v \in Contents
  /\ held' = [held EXCEPT ![c] = [held[c] EXCEPT !.entry = v]]
  /\ UNCHANGED <<cursor, disk, misses, forced, damaged>>
  /\ table[k][held[c].fd] = held[c].entry => e = v

LEMMA UseStep ==
  ASSUME TypeOK, NEW c \in Caller, NEW k \in Kind, NEW e, NEW v, UsesTo(c, k, e, v)
  PROVE  /\ TypeOK' /\ SameFree /\ UNCHANGED <<cursor, misses>>
         /\ HeldEntriesAreTheirs => HeldEntriesAreTheirs'
<1> DEFINE fd == held[c].fd
<1> USE DEF UsesTo
<1>1. TableOK
  BY TypeOKHasTable
<1>2. held[c] \in Handle /\ held[c].kind = k /\ fd \in Nat
  BY DEF Uses, TypeOK, Handle
<1>3. /\ TableOK'
      /\ fd \in Index(k) => table'[k][fd] = e
      /\ \A l \in Kind : \A j \in Index(l) :
           <<l, j>> # <<k, fd>> => table'[l][j] = table[l][j]
  BY <1>1, StoreEntry
<1>4. /\ held'[c] = [held[c] EXCEPT !.entry = v]
      /\ \A d \in Caller : d # c => held'[d] = held[d]
  BY DEF TypeOK
<1>5. /\ held'[c] \in Handle /\ held'[c].kind = k /\ held'[c].fd = fd
      /\ held'[c].entry = v
  BY <1>2, <1>4 DEF Handle
<1>6. held' \in [Caller -> Handle \cup {NoHandle}]
  BY <1>5 DEF TypeOK
<1>7. TypeOK'
  BY <1>3, <1>6 DEF TypeOK, TableOK, Size, Index
<1>8. SameFree
  BY <1>3, EntryIsNotFree DEF SameFree, Uses
<1>9. ASSUME HeldEntriesAreTheirs
      PROVE  HeldEntriesAreTheirs'
  <2> SUFFICES ASSUME ~forced, ~damaged, NEW a \in Caller, held'[a] # NoHandle
               PROVE  /\ held'[a].fd \in Index(held'[a].kind)
                      /\ table'[held'[a].kind][held'[a].fd] = held'[a].entry
                      /\ \A d \in Caller \ {a} : held'[d] # NoHandle =>
                           <<held'[a].kind, held'[a].fd>> # <<held'[d].kind, held'[d].fd>>
    BY DEF HeldEntriesAreTheirs, Index, Size
  <2>1. \A d \in Caller :
          /\ held'[d] # NoHandle => held[d] # NoHandle
          /\ held'[d] # NoHandle => held'[d].kind = held[d].kind /\ held'[d].fd = held[d].fd
    BY <1>2, <1>4, <1>5, ValuesAssumption
  <2>2. \A b \in Caller : held[b] # NoHandle =>
          /\ held[b].fd \in Index(held[b].kind)
          /\ table[held[b].kind][held[b].fd] = held[b].entry
          /\ \A d \in Caller \ {b} : held[d] # NoHandle =>
               <<held[b].kind, held[b].fd>> # <<held[d].kind, held[d].fd>>
    BY <1>9 DEF HeldEntriesAreTheirs
  <2>3. table'[held'[a].kind][held'[a].fd] = held'[a].entry
    <3>1. CASE a = c
      BY <1>2, <1>3, <1>5, <1>9, <2>2, <3>1, ValuesAssumption
    <3>2. CASE a # c
      <4>1. held[a] \in Handle
        BY <2>1 DEF TypeOK
      <4>2. held[a].kind \in Kind
        BY <4>1 DEF Handle
      <4>3. <<held[a].kind, held[a].fd>> # <<k, fd>>
        BY <1>2, <2>1, <2>2, <3>2, ValuesAssumption
      <4> QED
        BY <1>3, <1>4, <2>1, <2>2, <3>2, <4>2, <4>3
    <3> QED
      BY <3>1, <3>2
  <2> QED
    BY <2>1, <2>2, <2>3
<1> QED
  BY <1>7, <1>8, <1>9

(* The entry of a caller that uses it, if its descriptor is in the table.  *)
LEMMA UsedEntry ==
  ASSUME TypeOK, NEW c \in Caller, NEW k \in Kind, Uses(c, k)
  PROVE  /\ held[c].fd \in Index(k) => table[k][held[c].fd] \in Entry
         /\ held[c].entry \in Contents /\ held[c] \in Handle
<1>1. held[c] \in Handle
  BY DEF TypeOK, Uses
<1>2. table[k] \in [Index(k) -> Entry \cup {Free}] /\ table[k][held[c].fd] # Free
  BY DEF TypeOK, Uses
<1> QED
  BY <1>1, <1>2 DEF Handle

LEMMA SetOffsetUses ==
  ASSUME TypeOK, NEW c \in Caller, NEW offset \in Offset, SetOffset(c, offset)
  PROVE  UsesTo(c, "file", [table["file"][held[c].fd] EXCEPT !.offset = offset],
                           [held[c].entry EXCEPT !.offset = offset])
<1> DEFINE e == [table["file"][held[c].fd] EXCEPT !.offset = offset]
           v == [held[c].entry EXCEPT !.offset = offset]
<1>1. "file" \in Kind /\ Uses(c, "file")
  BY DEF Kind, SetOffset
<1>2. held[c].fd \in Index("file") => e \in Entry
  BY <1>1, UsedEntry DEF Entry, Contents
<1>3. v \in Contents
  BY <1>1, UsedEntry DEF Contents
<1>4. table' = [table EXCEPT !["file"][held[c].fd] = e]
  BY DEF SetOffset
<1>5. held' = [held EXCEPT ![c] = [held[c] EXCEPT !.entry = v]]
  BY DEF SetOffset
<1> QED
  BY <1>1, <1>2, <1>3, <1>4, <1>5 DEF UsesTo, Stores, SetOffset

LEMMA AdvanceUses ==
  ASSUME TypeOK, NEW c \in Caller, NEW count \in Offset, Advance(c, count)
  PROVE  UsesTo(c, "file",
           [table["file"][held[c].fd] EXCEPT !.offset = (@ + count) % OffsetMod],
           [held[c].entry EXCEPT !.offset = (@ + count) % OffsetMod])
<1> DEFINE e == [table["file"][held[c].fd] EXCEPT !.offset = (@ + count) % OffsetMod]
           v == [held[c].entry EXCEPT !.offset = (@ + count) % OffsetMod]
<1>1. "file" \in Kind /\ Uses(c, "file")
  BY DEF Kind, Advance
<1>2. \A o \in Offset : (o + count) % OffsetMod \in Offset
  BY OpenFilesAssumption DEF Offset
<1>3. held[c].fd \in Index("file") => e \in Entry
  BY <1>1, <1>2, UsedEntry DEF Entry, Contents
<1>4. v \in Contents
  BY <1>1, <1>2, UsedEntry DEF Contents
<1>5. table' = [table EXCEPT !["file"][held[c].fd] = e]
  BY DEF Advance
<1>6. held' = [held EXCEPT ![c] = [held[c] EXCEPT !.entry = v]]
  BY DEF Advance
<1> QED
  BY <1>1, <1>3, <1>4, <1>5, <1>6 DEF UsesTo, Stores, Advance

LEMMA DirLoadUses ==
  ASSUME TypeOK, NEW c \in Caller, NEW count \in DirCount, DirLoad(c, count)
  PROVE  UsesTo(c, "dir", [table["dir"][held[c].fd] EXCEPT !.number = @ + count],
                          [held[c].entry EXCEPT !.number = @ + count])
<1> DEFINE e == [table["dir"][held[c].fd] EXCEPT !.number = @ + count]
           v == [held[c].entry EXCEPT !.number = @ + count]
<1>1. "dir" \in Kind /\ Uses(c, "dir") /\ count \in Nat
  BY OpenFilesAssumption DEF Kind, DirLoad
<1>2. held[c].fd \in Index("dir") => e \in Entry
  BY <1>1, UsedEntry DEF Entry, Contents
<1>3. v \in Contents
  BY <1>1, UsedEntry DEF Contents
<1>4. table' = [table EXCEPT !["dir"][held[c].fd] = e]
  BY DEF DirLoad
<1>5. held' = [held EXCEPT ![c] = [held[c] EXCEPT !.entry = v]]
  BY DEF DirLoad
<1> QED
  BY <1>1, <1>2, <1>3, <1>4, <1>5 DEF UsesTo, Stores, DirLoad

LEMMA DirReadUses ==
  ASSUME TypeOK, NEW c \in Caller, DirRead(c)
  PROVE  UsesTo(c, "dir", [table["dir"][held[c].fd] EXCEPT !.index = @ + 1],
                          [held[c].entry EXCEPT !.index = @ + 1])
<1> DEFINE e == [table["dir"][held[c].fd] EXCEPT !.index = @ + 1]
           v == [held[c].entry EXCEPT !.index = @ + 1]
<1>1. "dir" \in Kind /\ Uses(c, "dir")
  BY DEF Kind, DirRead
<1>2. table["dir"][held[c].fd].index < table["dir"][held[c].fd].number
  BY DEF DirRead
<1>3. held[c].fd \in Index("dir") => e \in Entry
  BY <1>1, <1>2, UsedEntry DEF Entry, Contents
<1>4. v \in Contents
  BY <1>1, UsedEntry DEF Contents
<1>5. table' = [table EXCEPT !["dir"][held[c].fd] = e]
  BY DEF DirRead
<1>6. held' = [held EXCEPT ![c] = [held[c] EXCEPT !.entry = v]]
  BY DEF DirRead
<1> QED
  BY <1>1, <1>3, <1>4, <1>5, <1>6 DEF UsesTo, Stores, DirRead

-----------------------------------------------------------------------------
(* SecondFailureMeansFull, with the reason for it: a search that failed    *)
(* leaves the cursor inside the table, and the next one starts there and   *)
(* visits every entry.                                                     *)
SearchInv ==
  /\ TypeOK
  /\ \A k \in Kind : misses[k] >= 1 => cursor[k] < Size(k)
  /\ SecondFailureMeansFull

LEMMA SameFreeKeepsSearch ==
  ASSUME SearchInv, TypeOK', SameFree, UNCHANGED <<cursor, misses>>
  PROVE  SearchInv'
  BY DEF SearchInv, SecondFailureMeansFull, SameFree, Size, Index

LEMMA TakesEntryKeeps ==
  ASSUME SearchInv, NEW c \in Caller, NEW k \in Kind, NEW f \in File,
         TakesEntry(c, k, f), disk' \in [File -> Kind \cup {"absent"}]
  PROVE  /\ SearchInv'
         /\ held[c] = NoHandle /\ HeldEntriesAreTheirs => HeldEntriesAreTheirs'
<1>1. PICK i \in Index(k) :
        /\ FirstFree(k, i)
        /\ table' = [table EXCEPT ![k][i] = Opened(f)]
        /\ cursor' = [cursor EXCEPT ![k] = i + 1]
        /\ held' = [held EXCEPT ![c] = [kind |-> k, fd |-> i, entry |-> Opened(f)]]
        /\ misses' = [misses EXCEPT ![k] = 0]
        /\ UNCHANGED <<forced, damaged>>
  BY DEF TakesEntry, Reset
<1>2. TypeOK /\ TableOK
  BY TypeOKHasTable DEF SearchInv
<1>3. table[k][i] = Free
  BY <1>1 DEF FirstFree
<1>4. Stores(k, i, Opened(f))
  BY <1>1, OpenedIsEntry DEF Stores
<1>5. /\ TableOK' /\ table'[k][i] = Opened(f)
      /\ \A l \in Kind : \A j \in Index(l) :
           <<l, j>> # <<k, i>> => table'[l][j] = table[l][j]
  BY <1>2, <1>4, StoreEntry
<1>6. i \in Nat /\ i + 1 <= Size(k)
  BY SizeIsPositive DEF Index
<1>7. [kind |-> k, fd |-> i, entry |-> Opened(f)] \in Handle
  BY <1>6, OpenedIsEntry DEF Handle
<1>8. /\ held'[c] = [kind |-> k, fd |-> i, entry |-> Opened(f)]
      /\ \A d \in Caller : d # c => held'[d] = held[d]
      /\ held' \in [Caller -> Handle \cup {NoHandle}]
  BY <1>1, <1>2, <1>7 DEF TypeOK
<1>9. /\ cursor' \in [Kind -> Nat] /\ cursor'[k] = i + 1
      /\ \A l \in Kind : l # k => cursor'[l] = cursor[l]
  BY <1>1, <1>2, <1>6 DEF TypeOK
<1>10. /\ misses' \in [Kind -> 0..2] /\ misses'[k] = 0
       /\ \A l \in Kind : l # k => misses'[l] = misses[l]
  BY <1>1, <1>2 DEF TypeOK
<1>11. TypeOK'
  BY <1>1, <1>2, <1>5, <1>6, <1>8, <1>9, <1>10 DEF TypeOK, TableOK, Size, Index
<1>12. SearchInv'
  BY <1>5, <1>9, <1>10, <1>11 DEF SearchInv, SecondFailureMeansFull, Size, Index
<1>13. ASSUME held[c] = NoHandle, HeldEntriesAreTheirs
       PROVE  HeldEntriesAreTheirs'
  <2> SUFFICES ASSUME ~forced, ~damaged, NEW a \in Caller, held'[a] # NoHandle
               PROVE  /\ held'[a].fd \in Index(held'[a].kind)
                      /\ table'[held'[a].kind][held'[a].fd] = held'[a].entry
                      /\ \A d \in Caller \ {a} : held'[d] # NoHandle =>
                           <<held'[a].kind, held'[a].fd>> # <<held'[d].kind, held'[d].fd>>
    BY <1>1 DEF HeldEntriesAreTheirs, Index, Size
  <2>1. \A b \in Caller : held[b] # NoHandle =>
          /\ held[b].kind \in Kind /\ held[b].entry \in Contents
          /\ held[b].fd \in Index(held[b].kind)
          /\ table[held[b].kind][held[b].fd] = held[b].entry
          /\ \A d \in Caller \ {b} : held[d] # NoHandle =>
               <<held[b].kind, held[b].fd>> # <<held[d].kind, held[d].fd>>
    BY <1>2, <1>13 DEF HeldEntriesAreTheirs, TypeOK, Handle
  <2>2. \A b \in Caller : held[b] # NoHandle => <<held[b].kind, held[b].fd>> # <<k, i>>
    BY <1>3, <2>1, ValuesAssumption
  <2>3. CASE a = c
    BY <1>5, <1>8, <2>2, <2>3
  <2>4. CASE a # c
    BY <1>5, <1>8, <2>1, <2>2, <2>4
  <2> QED
    BY <2>3, <2>4
<1> QED
  BY <1>12, <1>13

LEMMA TakesNoneKeeps ==
  ASSUME SearchInv, NEW k \in Kind, TakesNone(k),
         disk' \in [File -> Kind \cup {"absent"}]
  PROVE  SearchInv' /\ (HeldEntriesAreTheirs => HeldEntriesAreTheirs')
<1>1. TypeOK /\ Size(k) \in Nat \ {0}
  BY SizeIsPositive DEF SearchInv
<1>2. CursorAfterMiss(k) \in Nat /\ CursorAfterMiss(k) < Size(k)
  <2>1. cursor[k] \in Nat
    BY <1>1 DEF TypeOK
  <2> QED
    BY <1>1, <2>1 DEF CursorAfterMiss
<1>3. /\ cursor' \in [Kind -> Nat] /\ cursor'[k] < Size(k) /\ cursor'[k] <= Size(k)
      /\ \A l \in Kind : l # k => cursor'[l] = cursor[l]
  BY <1>1, <1>2 DEF TakesNone, TypeOK
<1>4. /\ misses' \in [Kind -> 0..2]
      /\ misses'[k] = 2 => misses[k] >= 1
      /\ \A l \in Kind : l # k => misses'[l] = misses[l]
  BY <1>1 DEF TakesNone, TypeOK
<1>5. UNCHANGED <<table, held, forced, damaged>>
  BY DEF TakesNone
<1>6. TypeOK'
  BY <1>1, <1>3, <1>4, <1>5 DEF TypeOK, Size, Index
<1>7. \A i \in Index(k) : table[k][i] = Free => i = Size(k) - 1
  BY <1>1 DEF TakesNone, FindsNone, Visited, Index
<1>8. misses[k] >= 1 => \A i \in Index(k) : table[k][i] # Free
  BY DEF TakesNone, FindsNone, Visited, SearchInv
<1>9. SearchInv'
  BY <1>3, <1>4, <1>5, <1>6, <1>7, <1>8 DEF SearchInv, SecondFailureMeansFull, Size, Index
<1> QED
  BY <1>5, <1>9 DEF HeldEntriesAreTheirs, Index, Size

LEMMA TakesPastEndKeeps ==
  ASSUME SearchInv, NEW c \in Caller, NEW k \in Kind, NEW f \in File,
         TakesPastEnd(c, k, f), disk' \in [File -> Kind \cup {"absent"}]
  PROVE  SearchInv' /\ HeldEntriesAreTheirs'
<1>1. TypeOK /\ Size(k) \in Nat
  BY SizeIsPositive DEF SearchInv
<1>2. [kind |-> k, fd |-> Size(k), entry |-> Opened(f)] \in Handle
  BY <1>1, OpenedIsEntry DEF Handle
<1>3. held' \in [Caller -> Handle \cup {NoHandle}]
  BY <1>1, <1>2 DEF TakesPastEnd, TypeOK
<1>4. UNCHANGED <<table, cursor, misses, forced>> /\ damaged' = TRUE
  BY DEF TakesPastEnd
<1>5. TypeOK'
  BY <1>1, <1>3, <1>4 DEF TypeOK, Size, Index
<1>6. SearchInv'
  BY <1>4, <1>5 DEF SearchInv, SecondFailureMeansFull, Size, Index
<1> QED
  BY <1>4, <1>6 DEF HeldEntriesAreTheirs

LEMMA ForgetKeeps ==
  ASSUME SearchInv, NEW c \in Caller, Forget(c)
  PROVE  SearchInv' /\ (HeldEntriesAreTheirs => HeldEntriesAreTheirs')
<1>1. TypeOK
  BY DEF SearchInv
<1>2. UNCHANGED <<table, cursor, disk, misses, forced, damaged>>
  BY DEF Forget
<1>3. /\ held' \in [Caller -> Handle \cup {NoHandle}]
      /\ held'[c] = NoHandle /\ \A d \in Caller : d # c => held'[d] = held[d]
  BY <1>1 DEF Forget, TypeOK
<1>4. TypeOK'
  BY <1>1, <1>2, <1>3 DEF TypeOK, Size, Index
<1>5. SearchInv'
  BY <1>2, <1>4, SameFreeKeepsSearch DEF SameFree
<1> QED
  BY <1>2, <1>3, <1>5 DEF HeldEntriesAreTheirs, Index, Size

LEMMA CloseKeeps ==
  ASSUME SearchInv, NEW c \in Caller, Close(c), ~damaged
  PROVE  SearchInv' /\ (HeldEntriesAreTheirs => HeldEntriesAreTheirs')
<1> DEFINE k == held[c].kind
           i == held[c].fd
<1>1. TypeOK /\ TableOK
  BY TypeOKHasTable DEF SearchInv
<1>2. held[c] # NoHandle /\ held[c] \in Handle /\ k \in Kind
  BY <1>1 DEF Close, TypeOK, Handle
<1>3. Stores(k, i, Free)
  BY DEF Close, release_fd, Stores
<1>4. /\ TableOK'
      /\ \A l \in Kind : \A j \in Index(l) :
           <<l, j>> # <<k, i>> => table'[l][j] = table[l][j]
  <2> HIDE DEF k, i
  <2> QED
    BY <1>1, <1>2, <1>3, StoreEntry
<1>5. /\ held' \in [Caller -> Handle \cup {NoHandle}]
      /\ held'[c] = NoHandle /\ \A d \in Caller : d # c => held'[d] = held[d]
  BY <1>1 DEF Close, TypeOK
<1>6. /\ misses' \in [Kind -> 0..2] /\ misses'[k] = 0
      /\ \A l \in Kind : l # k => misses'[l] = misses[l]
  BY <1>1, <1>2 DEF Close, Reset, TypeOK
<1>7. UNCHANGED <<cursor, disk, forced, damaged>>
  BY DEF Close
<1>8. TypeOK'
  BY <1>1, <1>4, <1>5, <1>6, <1>7 DEF TypeOK, TableOK, Size, Index
<1>9. SearchInv'
  BY <1>4, <1>6, <1>7, <1>8 DEF SearchInv, SecondFailureMeansFull, Size, Index
<1>10. ASSUME HeldEntriesAreTheirs PROVE HeldEntriesAreTheirs'
  <2> SUFFICES ASSUME ~forced, NEW a \in Caller, held'[a] # NoHandle
               PROVE  /\ held'[a].fd \in Index(held'[a].kind)
                      /\ table'[held'[a].kind][held'[a].fd] = held'[a].entry
                      /\ \A d \in Caller \ {a} : held'[d] # NoHandle =>
                           <<held'[a].kind, held'[a].fd>> # <<held'[d].kind, held'[d].fd>>
    BY <1>7 DEF HeldEntriesAreTheirs, Index, Size
  <2>1. a # c /\ held'[a] = held[a] /\ held[a] # NoHandle /\ held[a].kind \in Kind
    BY <1>1, <1>5 DEF TypeOK, Handle
  <2>2. /\ held[a].fd \in Index(held[a].kind)
        /\ table[held[a].kind][held[a].fd] = held[a].entry
        /\ \A d \in Caller \ {a} : held[d] # NoHandle =>
             <<held[a].kind, held[a].fd>> # <<held[d].kind, held[d].fd>>
    BY <1>10, <2>1 DEF HeldEntriesAreTheirs
  <2>3. <<held[a].kind, held[a].fd>> # <<k, i>>
    BY <1>2, <2>1, <2>2
  <2> QED
    BY <1>4, <1>5, <2>1, <2>2, <2>3
<1> QED
  BY <1>9, <1>10

(* A removal changes the tables only with force.                           *)
LEMMA RemoveKeeps ==
  ASSUME SearchInv, NEW f \in File, NEW force \in ForceArg, vfs_remove(f, force)
  PROVE  /\ SearchInv'
         /\ HeldEntriesAreTheirs => HeldEntriesAreTheirs'
<1>1. TypeOK
  BY DEF SearchInv
<1>2. UNCHANGED <<cursor, held, damaged>> /\ disk' \in [File -> Kind \cup {"absent"}]
  <2>1. UNCHANGED <<cursor, held, damaged>>
    BY DEF vfs_remove
  <2>2. disk' = [disk EXCEPT ![f] = "absent"] \/ disk' = disk
    BY DEF vfs_remove, remove
  <2> QED
    BY <1>1, <2>1, <2>2 DEF TypeOK
<1>3. CASE FoundOpen(f)
  <2>1. force_release(f) /\ misses' = [k \in Kind |-> 0] /\ forced' = TRUE
    BY <1>3 DEF vfs_remove
  <2>2. table' = [k \in Kind |-> [i \in Index(k) |->
                   IF Matches(k, i, f) THEN Free ELSE table[k][i]]]
    BY <2>1 DEF force_release
  <2>3. \A k \in Kind : table'[k] = [i \in Index(k) |->
                           IF Matches(k, i, f) THEN Free ELSE table[k][i]]
    BY <2>2
  <2>4. ASSUME NEW k \in Kind PROVE table'[k] \in [Index(k) -> Entry \cup {Free}]
    <3>1. table[k] \in [Index(k) -> Entry \cup {Free}]
      BY <1>1 DEF TypeOK
    <3>2. \A i \in Index(k) :
            (IF Matches(k, i, f) THEN Free ELSE table[k][i]) \in Entry \cup {Free}
      BY <3>1
    <3> QED
      BY <2>3, <3>2
  <2>5. table' = [k \in Kind |-> table'[k]]
    BY <2>2
  <2>6. TypeOK'
    BY <1>1, <1>2, <2>1, <2>4, <2>5 DEF TypeOK, Size, Index, Entry, Contents, Offset, File
  <2>7. SearchInv'
    BY <2>1, <2>6 DEF SearchInv, SecondFailureMeansFull, Size, Index
  <2> QED
    BY <2>1, <2>7 DEF HeldEntriesAreTheirs
<1>4. CASE ~FoundOpen(f)
  <2>1. UNCHANGED <<table, misses, forced>>
    BY <1>4 DEF vfs_remove
  <2>2. TypeOK'
    BY <1>1, <1>2, <2>1 DEF TypeOK, Size, Index
  <2>3. SearchInv'
    BY <1>2, <2>1, <2>2, SameFreeKeepsSearch DEF SameFree
  <2> QED
    BY <1>2, <2>1, <2>3 DEF HeldEntriesAreTheirs, Index, Size
<1> QED
  BY <1>3, <1>4

LEMMA GetFdKeeps ==
  ASSUME SearchInv, NEW c \in Caller, NEW k \in Kind, NEW f \in File,
         get_fd(c, k, f), held[c] = NoHandle,
         disk' \in [File -> Kind \cup {"absent"}]
  PROVE  SearchInv' /\ (HeldEntriesAreTheirs => HeldEntriesAreTheirs')
  BY TakesEntryKeeps, TakesNoneKeeps, TakesPastEndKeeps DEF get_fd

LEMMA UsesToKeeps ==
  ASSUME SearchInv, NEW c \in Caller, NEW k \in Kind, NEW e, NEW v, UsesTo(c, k, e, v)
  PROVE  SearchInv' /\ (HeldEntriesAreTheirs => HeldEntriesAreTheirs')
<1>1. TypeOK
  BY DEF SearchInv
<1>2. /\ TypeOK' /\ SameFree /\ UNCHANGED <<cursor, misses>>
      /\ HeldEntriesAreTheirs => HeldEntriesAreTheirs'
  BY <1>1, UseStep
<1> QED
  BY <1>2, SameFreeKeepsSearch

LEMMA InitSearchInv == Init => SearchInv /\ HeldEntriesAreTheirs
<1> SUFFICES ASSUME Init PROVE SearchInv /\ HeldEntriesAreTheirs
  OBVIOUS
<1>1. \A k \in Kind : table[k] = [i \in Index(k) |-> Free] /\ cursor[k] = 0 /\ misses[k] = 0
  BY DEF Init
<1>2. \A k \in Kind : table[k] \in [Index(k) -> Entry \cup {Free}]
  BY <1>1
<1>3. table = [k \in Kind |-> table[k]]
  BY DEF Init
<1>4. /\ cursor \in [Kind -> Nat] /\ misses \in [Kind -> 0..2]
      /\ \A k \in Kind : cursor[k] <= Size(k)
  BY <1>1, SizeIsPositive DEF Init
<1>5. held \in [Caller -> Handle \cup {NoHandle}]
  BY DEF Init
<1>6. TypeOK
  BY <1>2, <1>3, <1>4, <1>5 DEF Init, TypeOK
<1> QED
  BY <1>1, <1>6 DEF Init, SearchInv, SecondFailureMeansFull, HeldEntriesAreTheirs

LEMMA NextKeeps ==
  ASSUME SearchInv, [Next]_vars
  PROVE  /\ SearchInv'
         /\ HeldEntriesAreTheirs => HeldEntriesAreTheirs'
<1>0. TypeOK /\ "file" \in Kind /\ "dir" \in Kind
  BY DEF SearchInv, Kind
<1>1. ASSUME ~damaged, NEW c \in Caller, NEW k \in Kind, NEW f \in File, Open(c, k, f)
      PROVE  SearchInv' /\ (HeldEntriesAreTheirs => HeldEntriesAreTheirs')
  BY <1>0, <1>1, GetFdKeeps DEF Open, TypeOK
<1>2. ASSUME ~damaged, NEW c \in Caller, NEW k \in Kind, NEW f \in File, Create(c, k, f)
      PROVE  SearchInv' /\ (HeldEntriesAreTheirs => HeldEntriesAreTheirs')
  <2>1. disk' \in [File -> Kind \cup {"absent"}]
    BY <1>0, <1>2 DEF Create, create_file, TypeOK
  <2> QED
    BY <1>2, <2>1, GetFdKeeps DEF Create
<1>3. ASSUME ~damaged, NEW c \in Caller, Forget(c) \/ Close(c) \/ DirRead(c)
      PROVE  SearchInv' /\ (HeldEntriesAreTheirs => HeldEntriesAreTheirs')
  BY <1>0, <1>3, ForgetKeeps, CloseKeeps, DirReadUses, UsesToKeeps
<1>4. ASSUME ~damaged, NEW c \in Caller, NEW offset \in Offset,
             SetOffset(c, offset) \/ Advance(c, offset)
      PROVE  SearchInv' /\ (HeldEntriesAreTheirs => HeldEntriesAreTheirs')
  BY <1>0, <1>4, SetOffsetUses, AdvanceUses, UsesToKeeps
<1>5. ASSUME ~damaged, NEW c \in Caller, NEW count \in DirCount, DirLoad(c, count)
      PROVE  SearchInv' /\ (HeldEntriesAreTheirs => HeldEntriesAreTheirs')
  BY <1>0, <1>5, DirLoadUses, UsesToKeeps
<1>6. ASSUME NEW f \in File, NEW force \in ForceArg, vfs_remove(f, force)
      PROVE  /\ SearchInv'
             /\ HeldEntriesAreTheirs => HeldEntriesAreTheirs'
  BY <1>6, RemoveKeeps
<1>7. CASE UNCHANGED vars
  <2>1. UNCHANGED <<table, cursor, disk, held, misses, forced, damaged>>
    BY <1>7 DEF vars
  <2>2. TypeOK'
    BY <1>0, <2>1 DEF TypeOK, Size, Index
  <2>3. SearchInv'
    BY <2>1, <2>2, SameFreeKeepsSearch DEF SameFree
  <2> QED
    BY <2>1, <2>3 DEF HeldEntriesAreTheirs, Index, Size
<1> QED
  BY <1>1, <1>2, <1>3, <1>4, <1>5, <1>6, <1>7 DEF Next

(* A search for a free entry that fails twice in a row has seen the whole  *)
(* table taken, whatever callers open, close, forget or remove by force    *)
(* (get_fd, get_dirfd).                                                    *)
THEOREM SearchComesAround == Spec => [](TypeOK /\ SecondFailureMeansFull)
<1>1. Init => SearchInv
  BY InitSearchInv
<1>2. SearchInv /\ [Next]_vars => SearchInv'
  BY NextKeeps
<1>3. SearchInv => TypeOK /\ SecondFailureMeansFull
  BY DEF SearchInv
<1> QED
  BY <1>1, <1>2, <1>3, PTL DEF Spec

(* Until a removal is forced, every descriptor keeps its own entry         *)
(* (get_fd, get_dirfd, release_fd, release_dirfd and the calls between).   *)
THEOREM DescriptorsKeepTheirEntries == Spec => []HeldEntriesAreTheirs
<1>1. Init => SearchInv /\ HeldEntriesAreTheirs
  BY InitSearchInv
<1>2. SearchInv /\ HeldEntriesAreTheirs /\ [Next]_vars
        => SearchInv' /\ HeldEntriesAreTheirs'
  BY NextKeeps
<1> QED
  BY <1>1, <1>2, PTL DEF Spec

-----------------------------------------------------------------------------
(* The string as it was given: characters, then a NUL.                     *)
InputOK ==
  /\ n \in Nat
  /\ \A i \in 0..(n - 1) : input[i] # NUL
  /\ input[n] = NUL

(* RewritesInPlace with the types of the pointers, and the string that was *)
(* given: the reading stops at the NUL because it is the only one.         *)
PathInv ==
  /\ InputOK
  /\ path_ptr \in Nat /\ path_ptr2 \in Nat
  /\ path \in [0..n -> Char \cup {NUL}]
  /\ RewritesInPlace

\* A character of a path is not its end.
LEMMA CharIsNotNUL == NUL \notin Char
  BY PathAssumption DEF Char

\* The invariant holds at the start.
LEMMA InitPathInv == PathInit => PathInv
<1> SUFFICES ASSUME PathInit PROVE PathInv
  OBVIOUS
<1>1. n \in Nat /\ path_ptr = 0 /\ path_ptr2 = 0 /\ path = input
  BY PathAssumption DEF PathInit
<1>2. PICK s \in [0..(n - 1) -> Char] :
        input = [i \in 0..n |-> IF i < n THEN s[i] ELSE NUL]
  BY DEF PathInit
<1>3. \A i \in 0..(n - 1) : input[i] = s[i] /\ s[i] \in Char
  BY <1>1, <1>2
<1>4. input[n] = NUL
  BY <1>1, <1>2
<1>5. InputOK
  BY <1>1, <1>3, <1>4, CharIsNotNUL DEF InputOK
<1>6. \A i \in 0..n : (IF i < n THEN s[i] ELSE NUL) \in Char \cup {NUL}
  BY <1>1
<1>7. input \in [0..n -> Char \cup {NUL}]
  BY <1>2, <1>6
<1> QED
  BY <1>1, <1>5, <1>7 DEF PathInv, RewritesInPlace

(* A character that is not NUL is read before the end of the string.       *)
LEMMA ReadInside ==
  ASSUME PathInv, pc # "done",
         NEW k \in Nat, path_ptr <= k, k <= n, path[k] # NUL
  PROVE  k + 1 <= n
  BY DEF PathInv, InputOK, RewritesInPlace

\* Every step keeps it.
LEMMA NextPathInv == PathInv /\ [PathStep]_pathVars => PathInv'
<1> SUFFICES ASSUME PathInv, [PathStep]_pathVars PROVE PathInv'
  OBVIOUS
<1> USE DEF PathInv
<1>0. Slash # NUL /\ Dot # NUL
  BY PathAssumption
<1>1. CASE SkipDot
  <2>1. path_ptr + 1 <= n
    BY <1>1, ReadInside DEF SkipDot, RewritesInPlace
  <2>2. path_ptr + 2 <= n
    BY <1>0, <1>1, <2>1, ReadInside DEF SkipDot, AtDot
  <2> QED
    BY <1>1, <2>2 DEF SkipDot, InputOK, RewritesInPlace
<1>2. CASE SkipParent
  <2>1. path_ptr + 1 <= n
    BY <1>2, ReadInside DEF SkipParent, RewritesInPlace
  <2>2. path_ptr + 2 <= n
    BY <1>0, <1>2, <2>1, ReadInside DEF SkipParent, AtParent
  <2>3. path_ptr + 3 <= n
    BY <1>0, <1>2, <2>2, ReadInside DEF SkipParent, AtParent
  <2> QED
    BY <1>2, <2>3 DEF SkipParent, InputOK, RewritesInPlace
<1>3. CASE Copy
  <2>1. path_ptr + 1 <= n
    BY <1>3, ReadInside DEF Copy, RewritesInPlace
  <2>2. path' = [path EXCEPT ![path_ptr2] = path[path_ptr]]
    BY <1>3 DEF Copy
  <2>3. path_ptr2 \in 0..n /\ path_ptr \in 0..n
    BY <2>1 DEF RewritesInPlace, InputOK
  <2>4. path' \in [0..n -> Char \cup {NUL}]
    BY <2>2, <2>3
  <2>5. \A i \in (path_ptr + 1)..n : path'[i] = input[i]
    BY <1>3, <2>2, <2>3 DEF Copy, RewritesInPlace, InputOK
  <2> QED
    BY <1>3, <2>1, <2>4, <2>5 DEF Copy, InputOK, RewritesInPlace
<1>4. CASE StepBack \/ BackEnds \/ CopyEnds \/ Trim
  BY <1>4 DEF StepBack, BackEnds, CopyEnds, Trim, InsideName, AtTrailer,
       InputOK, RewritesInPlace
<1>5. CASE TrimEnds
  <2>1. path_ptr2 \in 0..n
    BY DEF RewritesInPlace, InputOK
  <2>2. path' = [path EXCEPT ![path_ptr2] = NUL]
    BY <1>5 DEF TrimEnds
  <2>3. path' \in [0..n -> Char \cup {NUL}]
    BY <2>1, <2>2
  <2> QED
    BY <1>5, <2>3 DEF TrimEnds, InputOK, RewritesInPlace
<1>6. CASE UNCHANGED pathVars
  BY <1>6 DEF pathVars, InputOK, RewritesInPlace
<1> QED
  BY <1>1, <1>2, <1>3, <1>4, <1>5, <1>6 DEF PathStep

(* For paths of any length: the writing never overtakes the reading, and   *)
(* neither leaves the string (vfs_normalize_path).                         *)
THEOREM NormalizesInPlace == NormalizeSpec => []RewritesInPlace
<1>1. PathInv => RewritesInPlace
  BY DEF PathInv
<1> QED
  BY <1>1, InitPathInv, NextPathInv, PTL DEF NormalizeSpec
=============================================================================
