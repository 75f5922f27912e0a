----------------------------- MODULE DiskProofs -----------------------------
(***************************************************************************)
(* Proofs about the disk driver, for every size of disk, any number of     *)
(* command slots, and calls that interrupt each other to any depth.        *)
(***************************************************************************)
EXTENDS Disk, SequenceTheorems, WellFoundedInduction, TLAPS

-----------------------------------------------------------------------------
(* What a sector or the buffer can hold.                                     *)
Data == {<<>>, <<"identity">>} \cup (Nat \X Nat)

CallRecord ==
  [kind : Kinds, id : Nat, sector : Sector, n : 1..Sectors, i : Nat,
   pc : {"begin", "find", "fill", "busy", "wait", "copy"}, slot : Slot,
   data : Seq(Data), before : [Sector -> Data], clean : BOOLEAN]

CallType == {c \in CallRecord : c.i < c.n /\ c.sector + c.n <= Sectors}

Commands == [kind : Kinds \cup {"none"}, sector : Sector]

(* The shapes that the steps keep: TypeOK with the fields that it leaves out. *)
Shapes ==
  /\ disk \in [Sector -> Data] /\ buffer \in Data
  /\ failed \subseteq issued /\ issued \subseteq Slot
  /\ tfes \in BOOLEAN /\ halted \in BOOLEAN
  /\ table \in [Slot -> Commands]
  /\ calls \in Seq(CallType) /\ Depth <= MaxDepth
  /\ begun \in 0..MaxCalls

(* A command that writes was prepared for a call that was asked to.           *)
WritesAreAsked ==
  /\ \A s \in Slot : table[s].kind = "write" => table[s].sector \in asked
  /\ \A k \in 1..Depth : calls[k].kind = "write"
                           => Span(calls[k].sector, calls[k].n) \subseteq asked

(* The command of call c has moved its data.                                 *)
Moved(c) == c.pc = "copy" \/ (c.pc = "wait" /\ c.slot \notin issued)

(* The disk when the first m sectors of a write are done.                    *)
Written(c, m) ==
  [s \in Sector |-> IF s \in Span(c.sector, m) THEN <<c.id, s - c.sector>> ELSE c.before[s]]

(* Between two calls that use the port one after the other nothing is in      *)
(* flight: the only command the controller may still answer is the one that   *)
(* the call waits for, and TFES is about that one.                            *)
PortIsQuiet(c) ==
  /\ issued \ failed \subseteq (IF c.pc = "wait" THEN {c.slot} ELSE {})
  /\ c.pc \in {"fill", "busy"} => c.slot \notin issued /\ ~tfes
  /\ c.pc \in {"busy", "wait"} => table[c.slot] = CommandOf(c)
  /\ c.pc = "wait" /\ tfes => c.slot \in failed

ReadSoFar(c) ==
  /\ disk = c.before
  /\ Len(c.data) = c.i
  /\ \A k \in 1..c.i : c.data[k] = disk[c.sector + k - 1]
  /\ Moved(c) => buffer = disk[c.sector + c.i]

WrittenSoFar(c) ==
  /\ disk = Written(c, IF Moved(c) THEN c.i + 1 ELSE c.i)
  /\ c.pc \in {"find", "fill", "busy", "wait"} /\ ~Moved(c) => buffer = <<c.id, c.i>>

(* A call that nothing came between has done what its fields say.            *)
CleanCall(c) ==
  /\ c.kind # "identify" => PortIsQuiet(c)
  /\ c.kind = "read" => ReadSoFar(c)
  /\ c.kind = "write" => WrittenSoFar(c)

(* When it has returned, the disk stays as it left it until the next call.   *)
LastCall ==
  last.clean /\ last.kind \in {"read", "write"} =>
    /\ calls = <<>> /\ issued \subseteq failed
    /\ ReadsGiveTheDisk /\ WritesReportWhatIsDone

CleanCalls == \A k \in 1..Depth : calls[k].clean => Depth = 1 /\ CleanCall(calls[k])

DiskInv == Shapes /\ CleanCalls /\ LastCall

-----------------------------------------------------------------------------
(* A set of slots that is not empty has a least one.                         *)
LEMMA MinIsLeast ==
  ASSUME NEW S, S \subseteq Nat, S # {}
  PROVE  Min(S) \in S /\ \A y \in S : Min(S) <= y
<1>1. PICK x \in S : \A y \in S : ~(<<y, x>> \in OpToRel(<, Nat))
  BY NatLessThanWellFounded, WFMin
<1>2. \A y \in S : ~(y < x)
  BY <1>1 DEF OpToRel
<1>3. \A y \in S : x <= y
  BY <1>2
<1> QED
  BY <1>3 DEF Min

(* The kinds of data there are.                                              *)
LEMMA DataFacts ==
  /\ <<>> \in Data /\ <<"identity">> \in Data
  /\ \A a, b \in Nat : <<a, b>> \in Data
BY DEF Data

(* The innermost call is one of the calls.                                   *)
LEMMA TopIsACall ==
  ASSUME calls \in Seq(CallType), calls # <<>>
  PROVE  Depth \in Nat \ {0} /\ Depth \in 1..Depth /\ Top \in CallType
BY DEF Depth, Top

(* What the stack of calls is after a step of the innermost one.             *)
LEMMA ContinueStack ==
  ASSUME calls \in Seq(CallType), calls # <<>>, NEW c \in CallType, Continue(c)
  PROVE  /\ calls' \in Seq(CallType) /\ Depth' = Depth
         /\ calls'[Depth] = c
         /\ \A k \in 1..Depth : k # Depth => calls'[k] = calls[k]
<1>1. calls' = [calls EXCEPT ![Depth] = c] /\ Depth \in 1..Len(calls)
  BY TopIsACall DEF Continue, Depth
<1> QED
  BY <1>1 DEF Depth

\* A return takes the innermost call off the stack.
LEMMA ReturnStack ==
  ASSUME calls \in Seq(CallType), calls # <<>>, NEW c, Return(c)
  PROVE  /\ calls' \in Seq(CallType) /\ Depth' = Depth - 1
         /\ \A k \in 1..Depth' : k \in 1..Depth /\ calls'[k] = calls[k]
         /\ last' = [c EXCEPT !.pc = "done"]
<1>1. calls' = SubSeq(calls, 1, Depth - 1) /\ Depth \in 1..Len(calls) /\ Len(calls) \in Nat
  BY TopIsACall DEF Return, Depth
<1>2. \A k \in 1..(Depth - 1) : calls[k] \in CallType
  BY <1>1
<1>3. calls' \in Seq(CallType) /\ Len(calls') = Depth - 1
  BY <1>1, <1>2, SubSeqProperties
<1>4. \A k \in 1..(Depth - 1) : calls'[k] = calls[k]
  BY <1>1, <1>2, SubSeqProperties
<1> QED
  BY <1>1, <1>3, <1>4 DEF Depth, Return

\* A call that begins is the innermost one, and the calls below are as they were.
LEMMA BeginStack ==
  ASSUME Shapes, NEW kind \in Kinds, NEW sector \in Sector, NEW n \in 1..Sectors,
         Begin(kind, sector, n)
  PROVE  /\ calls' \in Seq(CallType) /\ Depth' = Depth + 1
         /\ calls'[Depth + 1] =
              [kind |-> kind, id |-> begun + 1, sector |-> sector, n |-> n, i |-> 0,
               pc |-> "begin", slot |-> 0, data |-> <<>>, before |-> disk,
               clean |-> (Depth = 0 /\ issued \subseteq failed)]
         /\ \A k \in 1..Depth : calls'[k] = [calls[k] EXCEPT !.clean = FALSE]
<1> USE DiskAssumption
<1> DEFINE clean == Depth = 0 /\ issued \subseteq failed
           call == [kind |-> kind, id |-> begun + 1, sector |-> sector, n |-> n,
                    i |-> 0, pc |-> "begin", slot |-> 0, data |-> <<>>,
                    before |-> disk, clean |-> clean]
           spoilt == [k \in 1..Depth |-> [calls[k] EXCEPT !.clean = FALSE]]
<1>1. calls' = Append(spoilt, call)
  BY DEF Begin
<1>2. Depth \in Nat /\ Depth = Len(calls) /\ \A k \in 1..Depth : calls[k] \in CallType
  BY DEF Depth, Shapes
<1>3. \A k \in 1..Depth : [calls[k] EXCEPT !.clean = FALSE] \in CallType
  BY <1>2 DEF CallType, CallRecord
<1>4. spoilt \in Seq(CallType) /\ Len(spoilt) = Depth
  BY <1>2, <1>3
<1>5. sector + n <= Sectors
  <2>1. sector \in Int /\ n \in Int /\ n >= 1 /\ sector + n - 1 \in Span(sector, n)
    BY DEF Span, Sector
  <2>2. sector + n - 1 \in 0..(Sectors - 1) /\ Sectors \in Nat
    BY <2>1 DEF Begin, Sector
  <2> QED
    BY <2>1, <2>2
<1>6. call \in CallType
  <2>1. /\ kind \in Kinds /\ begun + 1 \in Nat /\ sector \in Sector /\ n \in 1..Sectors
        /\ 0 \in Slot /\ <<>> \in Seq(Data) /\ disk \in [Sector -> Data]
        /\ clean \in BOOLEAN
    BY DEF Shapes, Slot
  <2> HIDE DEF clean
  <2> QED
    BY <1>5, <2>1 DEF CallType, CallRecord
<1> HIDE DEF call, spoilt
<1>7. calls' \in Seq(CallType) /\ Len(calls') = Depth + 1
  BY <1>1, <1>2, <1>4, <1>6
<1>8. calls'[Depth + 1] = call /\ \A k \in 1..Depth : calls'[k] = spoilt[k]
  BY <1>1, <1>2, <1>4, <1>6
<1> QED
  BY <1>7, <1>8 DEF Depth, call, spoilt

-----------------------------------------------------------------------------
(* A step of the innermost call that goes on: what is to be shown of it.     *)
LEMMA Continues ==
  ASSUME DiskInv, calls # <<>>, NEW c \in CallType, Continue(c),
         c.clean => Top.clean /\ CleanCall(c)'
  PROVE  CleanCalls' /\ LastCall' /\ calls' \in Seq(CallType) /\ Depth' <= MaxDepth
<1>1. /\ calls \in Seq(CallType) /\ Depth <= MaxDepth
      /\ Depth \in Nat \ {0} /\ Depth \in 1..Depth /\ Top \in CallType
  BY TopIsACall DEF DiskInv, Shapes
<1>2. /\ calls' \in Seq(CallType) /\ Depth' = Depth
      /\ calls'[Depth] = c
      /\ \A k \in 1..Depth : k # Depth => calls'[k] = calls[k]
  BY <1>1, ContinueStack
<1>3. ASSUME NEW k \in 1..Depth', calls'[k].clean
      PROVE  Depth' = 1 /\ CleanCall(calls[k])'
  <2>1. CASE k # Depth
    <3>1. calls[k].clean /\ k \in 1..Depth
      BY <1>2, <1>3, <2>1
    <3>2. Depth = 1
      BY <3>1 DEF DiskInv, CleanCalls
    <3> QED
      BY <1>2, <2>1, <3>2
  <2>2. CASE k = Depth
    <3>1. calls'[k] = c /\ Top.clean /\ CleanCall(c)'
      BY <1>2, <1>3, <2>2
    <3>2. Depth = 1
      BY <1>1, <3>1 DEF DiskInv, CleanCalls, Top
    <3> QED
      BY <1>2, <3>1, <3>2
      DEF CleanCall, PortIsQuiet, ReadSoFar, WrittenSoFar, Moved, Written, CommandOf
  <2> QED
    BY <2>1, <2>2
<1>4. LastCall'
  BY DEF DiskInv, LastCall, Continue
<1> QED
  BY <1>1, <1>2, <1>3, <1>4 DEF CleanCalls

(* The innermost call returns; c is the call as it leaves.                   *)
LEMMA Returns ==
  ASSUME DiskInv, calls # <<>>, NEW c \in CallRecord, Return(c),
         c.clean => Top.clean,
         c.clean /\ c.kind \in {"read", "write"} =>
           /\ issued' \subseteq failed'
           /\ c.kind = "read" =>
                /\ disk' = c.before
                /\ Len(c.data) = c.i
                /\ \A k \in 1..c.i : c.data[k] = disk'[c.sector + k - 1]
           /\ c.kind = "write" => disk' = Written(c, c.i)
  PROVE  CleanCalls' /\ LastCall' /\ calls' \in Seq(CallType) /\ Depth' <= MaxDepth
<1>1. /\ calls \in Seq(CallType) /\ Depth <= MaxDepth
      /\ Depth \in Nat \ {0} /\ Depth \in 1..Depth /\ Top \in CallType
      /\ MaxDepth \in Nat
  BY DiskAssumption, TopIsACall DEF DiskInv, Shapes
<1>2. /\ calls' \in Seq(CallType) /\ Depth' = Depth - 1
      /\ \A k \in 1..Depth' : k \in 1..Depth /\ calls'[k] = calls[k]
      /\ last' = [c EXCEPT !.pc = "done"]
  BY <1>1, ReturnStack
<1>3. \A k \in 1..Depth' : ~calls'[k].clean
  <2> SUFFICES ASSUME NEW k \in 1..Depth', calls'[k].clean PROVE FALSE
    OBVIOUS
  <2>1. k \in 1..Depth /\ calls[k].clean
    BY <1>2
  <2>2. Depth = 1
    BY <2>1 DEF DiskInv, CleanCalls
  <2> QED
    BY <1>2, <2>2
<1>4. LastCall'
  <2>1. /\ last'.clean = c.clean /\ last'.kind = c.kind /\ last'.before = c.before
        /\ last'.data = c.data /\ last'.i = c.i /\ last'.sector = c.sector
        /\ last'.id = c.id
    BY <1>2 DEF CallRecord
  <2> SUFFICES ASSUME c.clean, c.kind \in {"read", "write"}
               PROVE  /\ calls' = <<>> /\ issued' \subseteq failed'
                      /\ ReadsGiveTheDisk' /\ WritesReportWhatIsDone'
    BY <2>1 DEF LastCall
  <2>2. Depth = 1
    BY <1>1 DEF DiskInv, CleanCalls, Top
  <2>3. calls' = <<>>
    BY <1>2, <2>2 DEF Depth
  <2>4. ReadsGiveTheDisk'
    BY <2>1 DEF ReadsGiveTheDisk
  <2>5. WritesReportWhatIsDone'
    BY <2>1 DEF WritesReportWhatIsDone, Written, Span
  <2> QED
    BY <2>3, <2>4, <2>5
<1>5. CleanCalls'
  BY <1>3 DEF CleanCalls
<1> QED
  BY <1>1, <1>2, <1>4, <1>5

(* The innermost call, and what the invariant says of it.                    *)
LEMMA TopFacts ==
  ASSUME DiskInv, calls # <<>>
  PROVE  Top \in CallType /\ (Top.clean => CleanCall(Top))
<1>1. Depth \in 1..Depth /\ Top \in CallType
  BY TopIsACall DEF DiskInv, Shapes
<1> QED
  BY <1>1 DEF DiskInv, CleanCalls, Top

\* A write puts its next sector into the buffer, a read leaves it alone.
LEMMA FillBufferStep == DiskInv /\ FillBuffer => DiskInv'
<1> SUFFICES ASSUME DiskInv, FillBuffer PROVE DiskInv'
  OBVIOUS
<1>1. PICK t \in CallType : t = Top /\ (t.clean => CleanCall(t))
  BY TopFacts DEF FillBuffer
<1> DEFINE c == [t EXCEPT !.pc = "find"]
<1>2. /\ calls # <<>> /\ t.pc = "begin" /\ Continue(c)
      /\ buffer' = IF t.kind = "write" THEN <<t.id, t.i>> ELSE buffer
      /\ UNCHANGED <<disk, issued, failed, tfes, halted, table, begun>>
  BY <1>1 DEF FillBuffer, hba, Continue
<1>3. /\ c \in CallType /\ c.clean = t.clean /\ c.kind = t.kind /\ c.pc = "find"
      /\ c.i = t.i /\ c.data = t.data /\ c.before = t.before /\ c.sector = t.sector
      /\ c.id = t.id /\ c.slot = t.slot
  BY <1>1 DEF CallType, CallRecord
<1> HIDE DEF c
<1>4. ASSUME c.clean PROVE CleanCall(c)'
  <2>1. CleanCall(t)
    BY <1>1, <1>3, <1>4
  <2>2. c.kind # "identify" => PortIsQuiet(c)'
    BY <1>2, <1>3, <2>1 DEF CleanCall, PortIsQuiet
  <2>3. c.kind = "read" => ReadSoFar(c)'
    BY <1>2, <1>3, <2>1 DEF CleanCall, ReadSoFar, Moved
  <2>4. c.kind = "write" => WrittenSoFar(c)'
    BY <1>2, <1>3, <2>1 DEF CleanCall, WrittenSoFar, Moved, Written
  <2> QED
    BY <2>2, <2>3, <2>4 DEF CleanCall
<1>5. buffer' \in Data
  BY <1>1, <1>2, DataFacts DEF DiskInv, Shapes, CallType, CallRecord
<1>6. CleanCalls' /\ LastCall' /\ calls' \in Seq(CallType) /\ Depth' <= MaxDepth
  BY <1>1, <1>2, <1>3, <1>4, Continues
<1> QED
  BY <1>2, <1>5, <1>6 DEF DiskInv, Shapes

\* A slot that is found is not in flight; without one the call returns.
LEMMA FindSlotStep == DiskInv /\ FindSlot => DiskInv'
<1> SUFFICES ASSUME DiskInv, FindSlot PROVE DiskInv'
  OBVIOUS
<1>1. PICK t \in CallType : t = Top /\ (t.clean => CleanCall(t))
  BY TopFacts DEF FindSlot
<1>2. /\ calls # <<>> /\ t.pc = "find" /\ tfes' = FALSE
      /\ UNCHANGED <<disk, buffer, issued, failed, halted, table, begun>>
  BY <1>1 DEF FindSlot, Continue, Return
<1>3. CASE FreeSlots = {}
  <2>1. Return(t)
    BY <1>1, <1>3 DEF FindSlot
  <2>2. ASSUME t.clean, t.kind \in {"read", "write"}
        PROVE  /\ issued' \subseteq failed'
               /\ t.kind = "read" => /\ disk' = t.before
                                     /\ Len(t.data) = t.i
                                     /\ \A k \in 1..t.i : t.data[k] = disk'[t.sector + k - 1]
               /\ t.kind = "write" => disk' = Written(t, t.i)
    BY <1>1, <1>2, <2>2 DEF CleanCall, PortIsQuiet, ReadSoFar, WrittenSoFar, Moved
  <2>3. CleanCalls' /\ LastCall' /\ calls' \in Seq(CallType) /\ Depth' <= MaxDepth
    <3>1. t \in CallRecord
      BY DEF CallType
    <3> QED
      BY <1>1, <1>2, <2>1, <2>2, <3>1, Returns
  <2> QED
    BY <1>2, <2>3 DEF DiskInv, Shapes
<1>4. CASE FreeSlots # {}
  <2>1. PICK m \in FreeSlots : m = Min(FreeSlots)
    BY <1>4, MinIsLeast, DiskAssumption DEF FreeSlots, Slot
  <2> DEFINE c == [t EXCEPT !.slot = m, !.pc = "fill"]
  <2>2. Continue(c)
    BY <1>1, <1>4, <2>1 DEF FindSlot
  <2>3. /\ c \in CallType /\ c.clean = t.clean /\ c.kind = t.kind /\ c.pc = "fill"
        /\ c.i = t.i /\ c.data = t.data /\ c.before = t.before /\ c.sector = t.sector
        /\ c.id = t.id /\ c.slot \notin issued
    BY <1>1, <2>1 DEF CallType, CallRecord, FreeSlots
  <2> HIDE DEF c
  <2>4. ASSUME c.clean PROVE CleanCall(c)'
    <3>1. CleanCall(t)
      BY <1>1, <2>3, <2>4
    <3>2. c.kind # "identify" => PortIsQuiet(c)'
      BY <1>2, <2>3, <3>1 DEF CleanCall, PortIsQuiet
    <3>3. c.kind = "read" => ReadSoFar(c)'
      BY <1>2, <2>3, <3>1 DEF CleanCall, ReadSoFar, Moved
    <3>4. c.kind = "write" => WrittenSoFar(c)'
      BY <1>2, <2>3, <3>1 DEF CleanCall, WrittenSoFar, Moved, Written
    <3> QED
      BY <3>2, <3>3, <3>4 DEF CleanCall
  <2>5. CleanCalls' /\ LastCall' /\ calls' \in Seq(CallType) /\ Depth' <= MaxDepth
    BY <1>1, <1>2, <2>2, <2>3, <2>4, Continues
  <2> QED
    BY <1>2, <2>5 DEF DiskInv, Shapes
<1> QED
  BY <1>3, <1>4

\* The table of a slot that is not in flight can be written.
LEMMA FillTableStep == DiskInv /\ FillTable => DiskInv'
<1> SUFFICES ASSUME DiskInv, FillTable PROVE DiskInv'
  OBVIOUS
<1>1. PICK t \in CallType : t = Top /\ (t.clean => CleanCall(t))
  BY TopFacts DEF FillTable
<1> DEFINE c == [t EXCEPT !.pc = "busy"]
<1>2. /\ calls # <<>> /\ t.pc = "fill" /\ Continue(c)
      /\ table' = [table EXCEPT ![t.slot] = CommandOf(t)]
      /\ UNCHANGED <<disk, buffer, issued, failed, tfes, halted, begun>>
  BY <1>1 DEF FillTable, hba, Continue
<1>3. /\ c \in CallType /\ c.clean = t.clean /\ c.kind = t.kind /\ c.pc = "busy"
      /\ c.i = t.i /\ c.data = t.data /\ c.before = t.before /\ c.sector = t.sector
      /\ c.id = t.id /\ c.slot = t.slot /\ t.slot \in Slot
  BY <1>1 DEF CallType, CallRecord
<1>4. CommandOf(t) \in Commands /\ CommandOf(c) = CommandOf(t)
  <2>1. t.kind \in Kinds /\ t.sector + t.i \in Sector
    BY <1>1, DiskAssumption DEF CallType, CallRecord, Sector
  <2> QED
    BY <1>3, <2>1 DEF CommandOf, Commands
<1> HIDE DEF c
<1>5. table' \in [Slot -> Commands] /\ table'[c.slot] = CommandOf(c)
  BY <1>2, <1>3, <1>4 DEF DiskInv, Shapes
<1>6. ASSUME c.clean PROVE CleanCall(c)'
  <2>1. CleanCall(t)
    BY <1>1, <1>3, <1>6
  <2>2. c.kind # "identify" => PortIsQuiet(c)'
    BY <1>2, <1>3, <1>5, <2>1 DEF CleanCall, PortIsQuiet, CommandOf
  <2>3. c.kind = "read" => ReadSoFar(c)'
    BY <1>2, <1>3, <2>1 DEF CleanCall, ReadSoFar, Moved
  <2>4. c.kind = "write" => WrittenSoFar(c)'
    BY <1>2, <1>3, <2>1 DEF CleanCall, WrittenSoFar, Moved, Written
  <2> QED
    BY <2>2, <2>3, <2>4 DEF CleanCall
<1>7. CleanCalls' /\ LastCall' /\ calls' \in Seq(CallType) /\ Depth' <= MaxDepth
  BY <1>1, <1>2, <1>3, <1>6, Continues
<1> QED
  BY <1>2, <1>5, <1>7 DEF DiskInv, Shapes

\* A device that stays busy: the call returns, and nothing was issued.
LEMMA GiveUpStep == DiskInv /\ GiveUp => DiskInv'
<1> SUFFICES ASSUME DiskInv, GiveUp PROVE DiskInv'
  OBVIOUS
<1>1. PICK t \in CallType : t = Top /\ (t.clean => CleanCall(t))
  BY TopFacts DEF GiveUp
<1>2. /\ calls # <<>> /\ t.pc = "busy" /\ Return(t) /\ t \in CallRecord
      /\ UNCHANGED <<disk, buffer, issued, failed, tfes, halted, table, begun>>
  BY <1>1 DEF GiveUp, hba, Return, CallType
<1>3. ASSUME t.clean, t.kind \in {"read", "write"}
      PROVE  /\ issued' \subseteq failed'
             /\ t.kind = "read" => /\ disk' = t.before
                                   /\ Len(t.data) = t.i
                                   /\ \A k \in 1..t.i : t.data[k] = disk'[t.sector + k - 1]
             /\ t.kind = "write" => disk' = Written(t, t.i)
  BY <1>1, <1>2, <1>3 DEF CleanCall, PortIsQuiet, ReadSoFar, WrittenSoFar, Moved
<1>4. CleanCalls' /\ LastCall' /\ calls' \in Seq(CallType) /\ Depth' <= MaxDepth
  BY <1>1, <1>2, <1>3, Returns
<1> QED
  BY <1>2, <1>4 DEF DiskInv, Shapes

\* A clean call issues the command that it prepared.
LEMMA IssueStep == DiskInv /\ Issue => DiskInv'
<1> SUFFICES ASSUME DiskInv, Issue PROVE DiskInv'
  OBVIOUS
<1>1. PICK t \in CallType : t = Top /\ (t.clean => CleanCall(t))
  BY TopFacts DEF Issue
<1> DEFINE c == [t EXCEPT !.pc = "wait"]
<1>2. /\ calls # <<>> /\ t.pc = "busy" /\ Continue(c)
      /\ issued' = issued \cup {IF t.kind = "identify" THEN 0 ELSE t.slot}
      /\ UNCHANGED <<disk, buffer, failed, tfes, halted, table, begun>>
  BY <1>1 DEF Issue, Continue
<1>3. /\ c \in CallType /\ c.clean = t.clean /\ c.kind = t.kind /\ c.pc = "wait"
      /\ c.i = t.i /\ c.data = t.data /\ c.before = t.before /\ c.sector = t.sector
      /\ c.id = t.id /\ c.slot = t.slot /\ t.slot \in Slot /\ 0 \in Slot
  BY <1>1, DiskAssumption DEF CallType, CallRecord, Slot
<1> HIDE DEF c
<1>4. ASSUME c.clean PROVE CleanCall(c)'
  <2>1. CleanCall(t)
    BY <1>1, <1>3, <1>4
  <2>2. c.kind # "identify" => PortIsQuiet(c)'
    BY <1>2, <1>3, <2>1 DEF CleanCall, PortIsQuiet, CommandOf
  <2>3. c.kind = "read" => ReadSoFar(c)'
    BY <1>2, <1>3, <2>1 DEF CleanCall, ReadSoFar, Moved
  <2>4. c.kind = "write" => WrittenSoFar(c)'
    BY <1>2, <1>3, <2>1 DEF CleanCall, WrittenSoFar, Moved, Written
  <2> QED
    BY <2>2, <2>3, <2>4 DEF CleanCall
<1>5. CleanCalls' /\ LastCall' /\ calls' \in Seq(CallType) /\ Depth' <= MaxDepth
  BY <1>1, <1>2, <1>3, <1>4, Continues
<1> QED
  BY <1>2, <1>3, <1>5 DEF DiskInv, Shapes

\* The wait ends with TFES, or with the bit of the command clear.
LEMMA WaitStep == DiskInv /\ Wait => DiskInv'
<1> SUFFICES ASSUME DiskInv, Wait PROVE DiskInv'
  OBVIOUS
<1>1. PICK t \in CallType : t = Top /\ (t.clean => CleanCall(t))
  BY TopFacts DEF Wait
<1>2. /\ calls # <<>> /\ t.pc = "wait" /\ t \in CallRecord
      /\ UNCHANGED <<disk, buffer, issued, failed, tfes, halted, table, begun>>
  BY <1>1 DEF Wait, hba, Return, Continue, CallType
<1>3. CASE tfes /\ Return(Top)
  <2>1. ASSUME t.clean, t.kind \in {"read", "write"}
        PROVE  /\ issued' \subseteq failed'
               /\ t.kind = "read" => /\ disk' = t.before
                                     /\ Len(t.data) = t.i
                                     /\ \A k \in 1..t.i : t.data[k] = disk'[t.sector + k - 1]
               /\ t.kind = "write" => disk' = Written(t, t.i)
    <3>1. CleanCall(t)
      BY <1>1, <2>1
    <3>2. t.slot \in failed /\ issued \ failed \subseteq {t.slot} /\ failed \subseteq issued
      BY <1>2, <1>3, <2>1, <3>1 DEF CleanCall, PortIsQuiet, DiskInv, Shapes
    <3>3. ~Moved(t)
      BY <1>2, <3>2 DEF Moved
    <3> QED
      BY <1>2, <2>1, <3>1, <3>2, <3>3 DEF CleanCall, ReadSoFar, WrittenSoFar
  <2>2. CleanCalls' /\ LastCall' /\ calls' \in Seq(CallType) /\ Depth' <= MaxDepth
    BY <1>1, <1>2, <1>3, <2>1, Returns
  <2> QED
    BY <1>2, <2>2 DEF DiskInv, Shapes
<1>4. CASE Top.slot \notin issued /\ Continue([Top EXCEPT !.pc = "copy"])
  <2> DEFINE c == [t EXCEPT !.pc = "copy"]
  <2>1. t.slot \notin issued /\ Continue(c)
    BY <1>1, <1>4
  <2>2. /\ c \in CallType /\ c.clean = t.clean /\ c.kind = t.kind /\ c.pc = "copy"
        /\ c.i = t.i /\ c.data = t.data /\ c.before = t.before /\ c.sector = t.sector
        /\ c.id = t.id /\ c.slot = t.slot
    BY <1>1 DEF CallType, CallRecord
  <2> HIDE DEF c
  <2>3. ASSUME c.clean PROVE CleanCall(c)'
    <3>1. CleanCall(t)
      BY <1>1, <2>2, <2>3
    <3>2. c.kind # "identify" => PortIsQuiet(c)'
      BY <1>2, <2>1, <2>2, <3>1 DEF CleanCall, PortIsQuiet
    <3>3. c.kind = "read" => ReadSoFar(c)'
      BY <1>2, <2>1, <2>2, <3>1 DEF CleanCall, ReadSoFar, Moved
    <3>4. c.kind = "write" => WrittenSoFar(c)'
      BY <1>2, <2>1, <2>2, <3>1 DEF CleanCall, WrittenSoFar, Moved, Written
    <3> QED
      BY <3>2, <3>3, <3>4 DEF CleanCall
  <2>4. CleanCalls' /\ LastCall' /\ calls' \in Seq(CallType) /\ Depth' <= MaxDepth
    BY <1>1, <1>2, <2>1, <2>2, <2>3, Continues
  <2> QED
    BY <1>2, <2>4 DEF DiskInv, Shapes
<1> QED
  BY <1>3, <1>4 DEF Wait

(* The copy of the sector that has arrived, or been written, counts it.      *)
LEMMA CopyStep == DiskInv /\ Copy => DiskInv'
<1> SUFFICES ASSUME DiskInv, Copy PROVE DiskInv'
  OBVIOUS
<1>1. PICK t \in CallType : t = Top /\ (t.clean => CleanCall(t))
  BY TopFacts DEF Copy
<1>2. PICK b \in Data : b = buffer
  BY DEF DiskInv, Shapes
<1> DEFINE d == IF t.kind = "write" THEN t.data ELSE Append(t.data, b)
           c == [t EXCEPT !.i = t.i + 1, !.pc = "begin", !.data = d]
<1>3. /\ calls # <<>> /\ t.pc = "copy"
      /\ IF c.i = c.n THEN Return(c) ELSE Continue(c)
      /\ UNCHANGED <<disk, buffer, issued, failed, tfes, halted, table, begun>>
  BY <1>1, <1>2 DEF Copy, hba, Return, Continue
<1>4. /\ t.i \in Nat /\ t.n \in Nat /\ t.i < t.n /\ t.data \in Seq(Data) /\ t.sector \in Nat
      /\ t.id \in Nat
  BY <1>1, DiskAssumption DEF CallType, CallRecord, Sector
<1>5. /\ c.clean = t.clean /\ c.kind = t.kind /\ c.pc = "begin" /\ c.slot = t.slot
      /\ c.i = t.i + 1 /\ c.n = t.n /\ c.before = t.before /\ c.sector = t.sector
      /\ c.id = t.id
      /\ c.data = d /\ c \in CallRecord
  <2>1. d \in Seq(Data)
    BY <1>2, <1>4
  <2> HIDE DEF d
  <2>2. t \in CallRecord /\ t.i + 1 \in Nat
    BY <1>4 DEF CallType
  <2> QED
    BY <2>1, <2>2 DEF CallRecord
<1> HIDE DEF c
<1>6. c.i # c.n => c \in CallType
  <2>1. t.sector + t.n <= Sectors
    BY DEF CallType
  <2> QED
    BY <1>4, <1>5, <2>1 DEF CallType
<1>7. ASSUME t.clean, t.kind \in {"read", "write"}
      PROVE  /\ issued' \subseteq failed'
             /\ c.kind = "read" => /\ disk' = c.before
                                   /\ Len(c.data) = c.i
                                   /\ \A k \in 1..c.i : c.data[k] = disk'[c.sector + k - 1]
             /\ c.kind = "write" => disk' = Written(c, c.i)
  <2>1. CleanCall(t) /\ Moved(t)
    BY <1>1, <1>3, <1>7 DEF Moved
  <2>2. issued' \subseteq failed'
    BY <1>3, <1>7, <2>1 DEF CleanCall, PortIsQuiet
  <2>3. ASSUME c.kind = "read"
        PROVE  /\ disk' = c.before
               /\ Len(c.data) = c.i
               /\ \A k \in 1..c.i : c.data[k] = disk'[c.sector + k - 1]
    <3>1. /\ disk = t.before /\ Len(t.data) = t.i
          /\ \A k \in 1..t.i : t.data[k] = disk[t.sector + k - 1]
          /\ b = disk[t.sector + t.i]
      BY <1>2, <1>5, <2>1, <2>3 DEF CleanCall, ReadSoFar
    <3>2. c.data = Append(t.data, b)
      BY <1>5, <2>3
    <3>3. Len(c.data) = t.i + 1 /\ c.data[t.i + 1] = b
          /\ \A k \in 1..t.i : c.data[k] = t.data[k]
      BY <1>2, <1>4, <3>1, <3>2
    <3>4. ASSUME NEW k \in 1..(t.i + 1) PROVE c.data[k] = disk[t.sector + k - 1]
      <4>1. CASE k = t.i + 1
        <5>1. t.sector + k - 1 = t.sector + t.i
          BY <1>4, <4>1
        <5> QED
          BY <3>1, <3>3, <4>1, <5>1
      <4>2. CASE k \in 1..t.i
        BY <3>1, <3>3, <4>2
      <4> QED
        BY <1>4, <4>1, <4>2
    <3> QED
      BY <1>3, <1>5, <3>1, <3>3, <3>4
  <2>4. c.kind = "write" => disk' = Written(c, c.i)
    BY <1>3, <1>5, <2>1 DEF CleanCall, WrittenSoFar, Written
  <2> QED
    BY <2>2, <2>3, <2>4
<1>8. CASE c.i = c.n
  <2>1. CleanCalls' /\ LastCall' /\ calls' \in Seq(CallType) /\ Depth' <= MaxDepth
    BY <1>1, <1>3, <1>5, <1>7, <1>8, Returns
  <2> QED
    BY <1>3, <2>1 DEF DiskInv, Shapes
<1>9. CASE c.i # c.n
  <2>1. ASSUME c.clean PROVE CleanCall(c)'
    <3>1. c.kind # "identify" => PortIsQuiet(c)'
      BY <1>3, <1>5, <1>7, <2>1 DEF PortIsQuiet, CallRecord, Kinds
    <3>2. c.kind = "read" => ReadSoFar(c)'
      BY <1>3, <1>5, <1>7, <2>1 DEF ReadSoFar, Moved
    <3>3. c.kind = "write" => WrittenSoFar(c)'
      BY <1>3, <1>5, <1>7, <2>1 DEF WrittenSoFar, Moved, Written
    <3> QED
      BY <3>1, <3>2, <3>3 DEF CleanCall
  <2>2. CleanCalls' /\ LastCall' /\ calls' \in Seq(CallType) /\ Depth' <= MaxDepth
    BY <1>1, <1>3, <1>5, <1>6, <1>9, <2>1, Continues
  <2> QED
    BY <1>3, <2>2 DEF DiskInv, Shapes
<1> QED
  BY <1>8, <1>9

(* A call that begins alone on a quiet port has not done anything yet; one    *)
(* that begins inside another call spoils all of them.                       *)
LEMMA BeginStep ==
  ASSUME DiskInv, NEW kind \in Kinds, NEW sector \in Sector, NEW n \in 1..Sectors,
         Begin(kind, sector, n)
  PROVE  DiskInv'
<1> DEFINE alone == Depth = 0 /\ issued \subseteq failed
           call == [kind |-> kind, id |-> begun + 1, sector |-> sector, n |-> n, i |-> 0,
                    pc |-> "begin", slot |-> 0, data |-> <<>>, before |-> disk,
                    clean |-> alone]
<1>1. /\ calls' \in Seq(CallType) /\ Depth' = Depth + 1
      /\ calls'[Depth + 1] = call
      /\ \A k \in 1..Depth : calls'[k] = [calls[k] EXCEPT !.clean = FALSE]
  BY BeginStack DEF DiskInv
<1>2. /\ Depth < MaxDepth /\ begun' = begun + 1 /\ begun < MaxCalls /\ last' = NoCall
      /\ UNCHANGED <<disk, buffer, issued, failed, tfes, halted, table>>
  BY DEF Begin, hba
<1>3. Depth \in Nat /\ MaxDepth \in Nat /\ MaxCalls \in Nat
      /\ \A k \in 1..Depth : calls[k] \in CallRecord
  BY DiskAssumption DEF DiskInv, Shapes, Depth, CallType
<1>4. ASSUME NEW k \in 1..Depth', calls'[k].clean
      PROVE  Depth' = 1 /\ CleanCall(calls[k])'
  <2>1. k \notin 1..Depth
    BY <1>1, <1>3, <1>4 DEF CallRecord
  <2>2. k = Depth + 1
    BY <1>1, <1>3, <2>1
  <2>3. PICK c : c = call
    OBVIOUS
  <2>4. /\ c.kind = kind /\ c.sector = sector /\ c.i = 0 /\ c.pc = "begin"
        /\ c.data = <<>> /\ c.before = disk /\ c.clean = alone
    BY <2>3
  <2>5. calls'[k] = c /\ c.clean
    BY <1>1, <1>4, <2>2, <2>3
  <2>6. Depth = 0 /\ issued \subseteq failed
    BY <2>4, <2>5
  <2> HIDE DEF call, alone
  <2>7. PortIsQuiet(c)'
    BY <1>2, <2>4, <2>6 DEF PortIsQuiet
  <2>8. ReadSoFar(c)'
    BY <1>2, <2>4 DEF ReadSoFar, Moved
  <2>9. WrittenSoFar(c)'
    <3>1. disk = [s \in Sector |-> disk[s]]
      BY DEF DiskInv, Shapes
    <3>2. Span(sector, 0) = {}
      BY DiskAssumption DEF Span, Sector
    <3>3. Written(c, 0)' = disk
      BY <1>2, <2>4, <3>1, <3>2 DEF Written
    <3> QED
      BY <1>2, <2>4, <3>3 DEF WrittenSoFar, Moved
  <2>10. CleanCall(c)'
    BY <2>7, <2>8, <2>9 DEF CleanCall
  <2>11. Depth' = 1
    BY <1>1, <2>6
  <2>12. calls'[k] = c
    BY <2>5
  <2> QED
    BY <2>10, <2>11, <2>12
    DEF CleanCall, PortIsQuiet, ReadSoFar, WrittenSoFar, Moved, Written, CommandOf
<1>5. LastCall'
  BY <1>2 DEF LastCall, NoCall
<1> QED
  BY <1>1, <1>2, <1>3, <1>4, <1>5 DEF DiskInv, Shapes, CleanCalls

(* A step of the controller: what is to be shown of the calls.               *)
LEMMA ControllerStep ==
  ASSUME DiskInv, NEW s \in issued \ failed, UNCHANGED <<calls, last>>,
         \A c \in CallType : CleanCall(c) => CleanCall(c)'
  PROVE  CleanCalls' /\ LastCall'
<1>1. ~(last.clean /\ last.kind \in {"read", "write"})
  BY DEF DiskInv, LastCall
<1>2. \A k \in 1..Depth : calls[k] \in CallType
  BY DEF DiskInv, Shapes, Depth
<1>3. Depth' = Depth
  BY DEF Depth
<1>4. ASSUME NEW k \in 1..Depth', calls'[k].clean
      PROVE  Depth' = 1 /\ CleanCall(calls[k])'
  <2>1. PICK c \in CallType : c = calls[k]
    BY <1>2, <1>3
  <2>2. Depth = 1 /\ CleanCall(c)
    BY <1>3, <1>4, <2>1 DEF DiskInv, CleanCalls
  <2>3. CleanCall(c)'
    BY <2>2
  <2> QED
    BY <1>3, <2>1, <2>2, <2>3
    DEF CleanCall, PortIsQuiet, ReadSoFar, WrittenSoFar, Moved, Written, CommandOf
<1> QED
  BY <1>1, <1>4 DEF CleanCalls, LastCall

\* A command that completes is the one a clean call waits for.
LEMMA CompleteStep ==
  ASSUME DiskInv, NEW s \in Slot, Complete(s)
  PROVE  DiskInv'
<1> USE DEF DiskInv
<1>1. PICK d \in Commands : d = table[s]
  BY DEF Shapes
<1>2. /\ s \in issued \ failed /\ issued' = issued \ {s}
      /\ disk' = IF d.kind = "write" THEN [disk EXCEPT ![d.sector] = buffer] ELSE disk
      /\ buffer' = CASE d.kind = "read" -> disk[d.sector]
                     [] d.kind = "identify" -> <<"identity">>
                     [] OTHER -> buffer
      /\ UNCHANGED <<failed, tfes, halted, table, calls, last, begun>>
  BY <1>1 DEF Complete
<1>3. disk' \in [Sector -> Data] /\ buffer' \in Data
  <2>1. d.sector \in Sector /\ disk \in [Sector -> Data] /\ buffer \in Data
    BY <1>1 DEF Shapes, Commands
  <2> QED
    BY <1>2, <2>1, DataFacts
<1>4. ASSUME NEW c \in CallType, CleanCall(c) PROVE CleanCall(c)'
  <2>1. CASE c.kind = "identify"
    BY <2>1 DEF CleanCall
  <2>2. CASE c.kind \in {"read", "write"}
    <3>1. PortIsQuiet(c)
      BY <1>4, <2>2 DEF CleanCall
    <3>2. /\ c.pc = "wait" /\ c.slot = s /\ d = CommandOf(c) /\ ~Moved(c)
      BY <1>1, <1>2, <3>1 DEF PortIsQuiet, Moved
    <3>3. d.kind = c.kind /\ d.sector = c.sector + c.i
      BY <3>2 DEF CommandOf
    <3>4. Moved(c)'
      BY <1>2, <3>2 DEF Moved
    <3>5. PortIsQuiet(c)'
      BY <1>2, <3>1, <3>2 DEF PortIsQuiet
    <3>6. ASSUME c.kind = "read" PROVE ReadSoFar(c)'
      BY <1>2, <1>4, <3>3, <3>6 DEF CleanCall, ReadSoFar
    <3>7. ASSUME c.kind = "write" PROVE WrittenSoFar(c)'
      <4>1. /\ disk = Written(c, c.i) /\ buffer = <<c.id, c.i>>
            /\ disk' = [disk EXCEPT ![c.sector + c.i] = buffer]
        BY <1>2, <1>4, <3>2, <3>3, <3>7 DEF CleanCall, WrittenSoFar
      <4>2. c.sector \in Nat /\ c.i \in Nat /\ c.sector + c.i \in Sector
        BY <1>1, <3>3, DiskAssumption DEF CallType, CallRecord, Commands, Sector
      <4>3. ASSUME NEW x \in Sector
            PROVE  disk'[x] = IF x \in Span(c.sector, c.i + 1)
                                THEN <<c.id, x - c.sector>> ELSE c.before[x]
        <5>1. x \in Int
          BY DEF Sector
        <5>2. disk'[x] = IF x = c.sector + c.i THEN <<c.id, c.i>>
                         ELSE IF x \in Span(c.sector, c.i)
                           THEN <<c.id, x - c.sector>> ELSE c.before[x]
          BY <4>1 DEF Written
        <5>3. CASE x = c.sector + c.i
          <6>1. x \in Span(c.sector, c.i + 1) /\ x - c.sector = c.i
            BY <4>2, <5>1, <5>3 DEF Span
          <6> QED
            BY <5>2, <5>3, <6>1
        <5>4. CASE x # c.sector + c.i
          <6>1. x \in Span(c.sector, c.i + 1) <=> x \in Span(c.sector, c.i)
            BY <4>2, <5>1, <5>4 DEF Span
          <6> QED
            BY <5>2, <5>4, <6>1
        <5> QED
          BY <5>3, <5>4
      <4>4. disk' = Written(c, c.i + 1)
        BY <1>3, <4>3 DEF Written
      <4> QED
        BY <3>4, <4>4 DEF WrittenSoFar, Written
    <3> QED
      BY <3>5, <3>6, <3>7 DEF CleanCall
  <2> QED
    BY <2>1, <2>2 DEF CallType, CallRecord, Kinds
<1>5. CleanCalls' /\ LastCall'
  BY <1>2, <1>4, ControllerStep
<1> QED
  BY <1>2, <1>3, <1>5 DEF Shapes, Depth

\* So is one that fails, and TFES is about it.
LEMMA FailCommandStep ==
  ASSUME DiskInv, NEW s \in Slot, FailCommand(s)
  PROVE  DiskInv'
<1> USE DEF DiskInv
<1>1. /\ s \in issued \ failed /\ failed' = failed \cup {s} /\ tfes' = TRUE
      /\ halted' \in BOOLEAN
      /\ UNCHANGED <<disk, buffer, issued, table, calls, last, begun>>
  BY DEF FailCommand
<1>2. ASSUME NEW c \in CallType, CleanCall(c) PROVE CleanCall(c)'
  <2>1. c.kind # "identify" => PortIsQuiet(c)'
    BY <1>1, <1>2 DEF CleanCall, PortIsQuiet
  <2>2. c.kind = "read" => ReadSoFar(c)'
    BY <1>1, <1>2 DEF CleanCall, ReadSoFar, Moved
  <2>3. c.kind = "write" => WrittenSoFar(c)'
    BY <1>1, <1>2 DEF CleanCall, WrittenSoFar, Moved, Written
  <2> QED
    BY <2>1, <2>2, <2>3 DEF CleanCall
<1>3. CleanCalls' /\ LastCall'
  BY <1>1, <1>2, ControllerStep
<1> QED
  BY <1>1, <1>3 DEF Shapes, Depth

-----------------------------------------------------------------------------
(* The invariant holds at the start and every step keeps it.                 *)
LEMMA DiskInvHolds == Spec => []DiskInv
<1>1. Init => DiskInv
  <2> SUFFICES ASSUME Init PROVE DiskInv
    OBVIOUS
  <2> USE DiskAssumption DEF Init
  <2>1. disk \in [Sector -> Data] /\ buffer \in Data
    BY DataFacts DEF Sector
  <2>2. table \in [Slot -> Commands]
    BY DEF Slot, Commands, NoCommand, Sector
  <2>3. Depth = 0
    BY DEF Depth
  <2>4. calls \in Seq(CallType)
    OBVIOUS
  <2>5. Shapes
    <3>1. tfes \in BOOLEAN /\ halted \in BOOLEAN
      BY Zenon
    <3>2. failed \subseteq issued /\ issued \subseteq Slot
      BY Zenon
    <3>3. begun \in 0..MaxCalls /\ Depth <= MaxDepth
      BY <2>3
    <3> QED
      BY <2>1, <2>2, <2>4, <3>1, <3>2, <3>3, Zenon DEF Shapes
  <2>6. CleanCalls /\ LastCall
    BY <2>3 DEF CleanCalls, LastCall, NoCall
  <2> QED
    BY <2>5, <2>6 DEF DiskInv
<1>2. DiskInv /\ [Next]_vars => DiskInv'
  <2> SUFFICES ASSUME DiskInv, [Next]_vars PROVE DiskInv'
    OBVIOUS
  <2>1. ASSUME NEW kind \in {"read", "write"}, NEW sector \in Sector, NEW n \in 1..Sectors,
               Begin(kind, sector, n)
        PROVE  DiskInv'
    BY <2>1, BeginStep DEF Kinds
  <2>2. CASE Begin("identify", 0, 1)
    <3>1. "identify" \in Kinds /\ 0 \in Sector /\ 1 \in 1..Sectors
      BY DiskAssumption DEF Kinds, Sector
    <3> QED
      BY <2>2, <3>1, BeginStep
  <2>3. CASE CallStep
    BY <2>3, FillBufferStep, FindSlotStep, FillTableStep, GiveUpStep, IssueStep,
       WaitStep, CopyStep DEF CallStep
  <2>4. ASSUME NEW s \in Slot, Complete(s) \/ FailCommand(s)
        PROVE  DiskInv'
    BY <2>4, CompleteStep, FailCommandStep
  <2>5. CASE UNCHANGED vars
    <3>1. UNCHANGED <<disk, buffer, issued, failed, tfes, halted, table, calls, last, begun>>
      BY <2>5 DEF vars
    <3> QED
      BY <3>1 DEF DiskInv, Shapes, CleanCalls, LastCall, Depth, CleanCall, PortIsQuiet,
         ReadSoFar, WrittenSoFar, Moved, Written, CommandOf, ReadsGiveTheDisk,
         WritesReportWhatIsDone
  <2> QED
    BY <2>1, <2>2, <2>3, <2>4, <2>5 DEF Next
<1> QED
  BY <1>1, <1>2, PTL DEF Spec

(***************************************************************************)
(* dd_disk_read and dd_disk_write, when no other call came between: the    *)
(* sectors they count hold what they should and no other sector changed,   *)
(* on every disk, with every number of slots, whatever commands failed     *)
(* before and left their slots taken.                                      *)
(***************************************************************************)
THEOREM CallsReport == Spec => []CallsDoWhatTheyReport
<1>1. DiskInv => CallsDoWhatTheyReport
  <2> SUFFICES ASSUME DiskInv PROVE CallsDoWhatTheyReport
    OBVIOUS
  <2>1. \A k \in 1..Depth : calls[k] \in CallType
    BY DEF DiskInv, Shapes, Depth
  <2>2. TypeOK
    BY <2>1 DEF DiskInv, Shapes, TypeOK, CallType, CallRecord, Commands
  <2>3. ReadsGiveTheDisk /\ WritesReportWhatIsDone
    BY DEF DiskInv, LastCall, ReadsGiveTheDisk, WritesReportWhatIsDone
  <2> QED
    BY <2>2, <2>3 DEF CallsDoWhatTheyReport
<1> QED
  BY <1>1, DiskInvHolds, PTL

-----------------------------------------------------------------------------
(* A command that writes was prepared for a call that was asked to: a step   *)
(* of the innermost call keeps it if the call's request stays what it was.   *)
LEMMA AskedStaysOnContinue ==
  ASSUME DiskInv, WritesAreAsked, calls # <<>>, NEW c \in CallType, Continue(c),
         c.kind = Top.kind, c.sector = Top.sector, c.n = Top.n
  PROVE  asked' = asked
         /\ \A k \in 1..Depth' : calls'[k].kind = "write"
                                  => Span(calls'[k].sector, calls'[k].n) \subseteq asked'
<1>1. /\ Depth' = Depth /\ calls'[Depth] = c
      /\ \A k \in 1..Depth : k # Depth => calls'[k] = calls[k]
  BY ContinueStack DEF DiskInv, Shapes
<1>2. asked' = asked
  BY DEF Continue
<1> QED
  BY <1>1, <1>2 DEF WritesAreAsked, Top

\* A return leaves the sectors asked for alone.
LEMMA AskedStaysOnReturn ==
  ASSUME DiskInv, WritesAreAsked, calls # <<>>, NEW c, Return(c)
  PROVE  asked' = asked
         /\ \A k \in 1..Depth' : calls'[k].kind = "write"
                                  => Span(calls'[k].sector, calls'[k].n) \subseteq asked'
<1>1. \A k \in 1..Depth' : k \in 1..Depth /\ calls'[k] = calls[k]
  BY ReturnStack DEF DiskInv, Shapes
<1>2. asked' = asked
  BY DEF Return
<1> QED
  BY <1>1, <1>2 DEF WritesAreAsked

\* WritesAreAsked is kept by every step.
LEMMA WritesStayAsked == DiskInv /\ WritesAreAsked /\ [Next]_vars => WritesAreAsked'
<1> SUFFICES ASSUME DiskInv, WritesAreAsked, [Next]_vars PROVE WritesAreAsked'
  OBVIOUS
<1> DEFINE CallsAsked ==
      \A k \in 1..Depth : calls[k].kind = "write"
                             => Span(calls[k].sector, calls[k].n) \subseteq asked
           TableAsked == \A s \in Slot : table[s].kind = "write" => table[s].sector \in asked
<1>1. (CallsAsked /\ TableAsked) => WritesAreAsked
  BY DEF WritesAreAsked
<1>2. ASSUME NEW kind \in Kinds, NEW sector \in Sector, NEW n \in 1..Sectors,
             Begin(kind, sector, n)
      PROVE  WritesAreAsked'
  <2>1. /\ Depth' = Depth + 1
        /\ calls'[Depth + 1].kind = kind
        /\ calls'[Depth + 1].sector = sector /\ calls'[Depth + 1].n = n
        /\ \A k \in 1..Depth : calls'[k] = [calls[k] EXCEPT !.clean = FALSE]
    <3> DEFINE alone == Depth = 0 /\ issued \subseteq failed
               call == [kind |-> kind, id |-> begun + 1, sector |-> sector, n |-> n,
                        i |-> 0, pc |-> "begin", slot |-> 0, data |-> <<>>,
                        before |-> disk, clean |-> alone]
    <3>1. /\ Depth' = Depth + 1 /\ calls'[Depth + 1] = call
          /\ \A k \in 1..Depth : calls'[k] = [calls[k] EXCEPT !.clean = FALSE]
      BY <1>2, BeginStack DEF DiskInv
    <3> HIDE DEF alone
    <3>2. call.kind = kind /\ call.sector = sector /\ call.n = n
      OBVIOUS
    <3> QED
      BY <3>1, <3>2
  <2>2. Depth \in Nat /\ \A k \in 1..Depth : calls[k] \in CallRecord
    BY DEF DiskInv, Shapes, Depth, CallType
  <2>3. \A k \in 1..Depth : /\ calls'[k].kind = calls[k].kind
                             /\ calls'[k].sector = calls[k].sector /\ calls'[k].n = calls[k].n
    BY <2>1, <2>2 DEF CallRecord
  <2>4. /\ asked' = (IF kind = "write" THEN asked \cup Span(sector, n) ELSE asked)
        /\ table' = table
    BY <1>2 DEF Begin
  <2>5. ASSUME NEW k \in 1..Depth', calls'[k].kind = "write"
        PROVE  Span(calls'[k].sector, calls'[k].n) \subseteq asked'
    <3>1. CASE k \in 1..Depth
      BY <2>3, <2>4, <2>5, <3>1 DEF WritesAreAsked
    <3>2. CASE k = Depth + 1
      BY <2>1, <2>4, <2>5, <3>2
    <3> QED
      BY <2>1, <2>2, <3>1, <3>2
  <2> QED
    BY <2>4, <2>5 DEF WritesAreAsked
<1>3. CASE CallStep
  <2>1. calls # <<>>
    BY <1>3 DEF CallStep, FillBuffer, FindSlot, FillTable, GiveUp, Issue, Wait, Copy
  <2>2. PICK t \in CallType : t = Top
    BY <2>1, TopFacts
  <2>3. t \in CallRecord /\ t.i < t.n /\ t.sector + t.n <= Sectors
    BY DEF CallType
  <2>4. ASSUME NEW c \in CallType, Continue(c), table' = table,
               c.kind = t.kind, c.sector = t.sector, c.n = t.n
        PROVE  WritesAreAsked'
    BY <2>1, <2>2, <2>4, AskedStaysOnContinue DEF WritesAreAsked
  <2>5. ASSUME NEW c, Return(c), table' = table
        PROVE  WritesAreAsked'
    BY <2>1, <2>5, AskedStaysOnReturn DEF WritesAreAsked
  <2>6. ASSUME NEW p \in {"begin", "find", "fill", "busy", "wait", "copy"}
        PROVE  /\ [t EXCEPT !.pc = p] \in CallType
               /\ [t EXCEPT !.pc = p].kind = t.kind
               /\ [t EXCEPT !.pc = p].sector = t.sector /\ [t EXCEPT !.pc = p].n = t.n
    BY <2>3 DEF CallType, CallRecord
  <2>7. CASE FillBuffer
    BY <2>2, <2>4, <2>6, <2>7 DEF FillBuffer
  <2>8. CASE FindSlot
    <3>1. CASE FreeSlots = {}
      BY <2>2, <2>5, <2>8, <3>1 DEF FindSlot
    <3>2. CASE FreeSlots # {}
      <4>1. PICK m \in Slot : m = Min(FreeSlots)
        BY <3>2, MinIsLeast, DiskAssumption DEF FreeSlots, Slot
      <4> DEFINE c == [t EXCEPT !.slot = m, !.pc = "fill"]
      <4>2. Continue(c) /\ table' = table
        BY <2>2, <2>8, <3>2, <4>1 DEF FindSlot
      <4>3. c \in CallType /\ c.kind = t.kind /\ c.sector = t.sector /\ c.n = t.n
        BY <2>3, <4>1 DEF CallType, CallRecord
      <4> HIDE DEF c
      <4> QED
        BY <2>4, <4>2, <4>3
    <3> QED
      BY <3>1, <3>2
  <2>9. CASE FillTable
    <3> DEFINE c == [t EXCEPT !.pc = "busy"]
    <3>1. Continue(c) /\ table' = [table EXCEPT ![t.slot] = CommandOf(t)]
      BY <2>2, <2>9 DEF FillTable
    <3>2. c \in CallType /\ c.kind = t.kind /\ c.sector = t.sector /\ c.n = t.n
      BY <2>6
    <3> HIDE DEF c
    <3>3. CallsAsked' /\ asked' = asked
      BY <2>1, <2>2, <3>1, <3>2, AskedStaysOnContinue
    <3>4. t.kind = "write" => t.sector + t.i \in asked
      <4>1. t.sector + t.i \in Span(t.sector, t.n)
        BY <2>3, DiskAssumption DEF CallRecord, Sector, Span
      <4>2. Depth \in 1..Depth
        BY <2>1, TopIsACall DEF DiskInv, Shapes
      <4> QED
        BY <2>2, <4>1, <4>2 DEF WritesAreAsked, Top
    <3>5. ASSUME NEW s \in Slot, table'[s].kind = "write" PROVE table'[s].sector \in asked
      <4>1. CASE s = t.slot
        <5>1. table'[s] = CommandOf(t)
          BY <3>1, <4>1 DEF DiskInv, Shapes
        <5> QED
          BY <3>4, <3>5, <5>1 DEF CommandOf
      <4>2. CASE s # t.slot
        <5>1. table'[s] = table[s]
          BY <3>1, <4>2 DEF DiskInv, Shapes
        <5> QED
          BY <3>5, <5>1 DEF WritesAreAsked
      <4> QED
        BY <4>1, <4>2
    <3> QED
      BY <3>3, <3>5 DEF WritesAreAsked
  <2>10. CASE GiveUp
    BY <2>5, <2>10 DEF GiveUp
  <2>11. CASE Issue
    BY <2>2, <2>4, <2>6, <2>11 DEF Issue
  <2>12. CASE Wait
    BY <2>2, <2>4, <2>5, <2>6, <2>12 DEF Wait
  <2>13. CASE Copy
    <3>1. PICK b \in Data : b = buffer
      BY DEF DiskInv, Shapes
    <3> DEFINE d == IF t.kind = "write" THEN t.data ELSE Append(t.data, b)
               c == [t EXCEPT !.i = t.i + 1, !.pc = "begin", !.data = d]
    <3>2. /\ IF c.i = c.n THEN Return(c) ELSE Continue(c)
          /\ table' = table
      BY <2>2, <2>13, <3>1 DEF Copy
    <3>3. /\ c \in CallRecord /\ c.kind = t.kind /\ c.sector = t.sector /\ c.n = t.n
          /\ c.i = t.i + 1
      <4>1. d \in Seq(Data)
        BY <2>3, <3>1 DEF CallRecord
      <4>2. t \in CallRecord /\ t.i + 1 \in Nat
        BY <2>3 DEF CallRecord
      <4> HIDE DEF d
      <4> QED
        BY <4>1, <4>2 DEF CallRecord
    <3> HIDE DEF c
    <3>4. c.i # c.n => c \in CallType
      BY <2>3, <3>3, DiskAssumption DEF CallType, CallRecord
    <3> QED
      BY <2>4, <2>5, <3>2, <3>3, <3>4
  <2> QED
    BY <1>3, <2>7, <2>8, <2>9, <2>10, <2>11, <2>12, <2>13 DEF CallStep
<1>4. ASSUME NEW s \in Slot, Complete(s) \/ FailCommand(s)
      PROVE  WritesAreAsked'
  <2>1. UNCHANGED <<table, calls, asked>>
    BY <1>4 DEF Complete, FailCommand
  <2> QED
    BY <2>1 DEF WritesAreAsked, Depth
<1>5. CASE UNCHANGED vars
  BY <1>5 DEF WritesAreAsked, Depth, vars
<1>6. "identify" \in Kinds /\ 0 \in Sector /\ 1 \in 1..Sectors /\ {"read", "write"} \subseteq Kinds
  BY DiskAssumption DEF Kinds, Sector
<1> QED
  BY <1>2, <1>3, <1>4, <1>5, <1>6 DEF Next

(* Only the controller writes, and only the sector of a write command.       *)
LEMMA OnlyWritesChangeTheDisk ==
  ASSUME DiskInv, WritesAreAsked, [Next]_vars, NEW s \in Sector, disk'[s] # disk[s]
  PROVE  s \in asked
<1>1. PICK x \in Slot : Complete(x)
  BY DEF Next, vars, Begin, CallStep, FillBuffer, FindSlot, FillTable, GiveUp, Issue, Wait,
     Copy, FailCommand
<1>2. table[x].kind = "write" /\ disk' = [disk EXCEPT ![table[x].sector] = buffer]
  BY <1>1 DEF Complete
<1>3. s = table[x].sector
  BY <1>2 DEF DiskInv, Shapes
<1> QED
  BY <1>2, <1>3 DEF WritesAreAsked

(***************************************************************************)
(* write_port and its callers, even when calls come between each other's   *)
(* steps, issue each other's commands and share the buffer: a sector that  *)
(* changes is one that some call was asked to write.                       *)
(***************************************************************************)
THEOREM OnlyAskedWritten == Spec => OnlyAskedSectorsChange
<1>1. Init => WritesAreAsked
  BY DEF Init, WritesAreAsked, Depth, NoCommand
<1>2. DiskInv /\ WritesAreAsked /\ [Next]_vars
        => [\A s \in Sector : disk'[s] # disk[s] => s \in asked]_vars
  BY OnlyWritesChangeTheDisk
<1> QED
  BY <1>1, <1>2, WritesStayAsked, DiskInvHolds, PTL DEF Spec, OnlyAskedSectorsChange
=============================================================================
