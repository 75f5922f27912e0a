-------------------------------- MODULE Disk --------------------------------
(***************************************************************************)
(* A SATA disk behind drivers/disk/disk_dd.c and drivers/disk/ahci/ahci.c: *)
(* one port, its command slots, and the one buffer that every transfer of  *)
(* the port goes through.                                                  *)
(*                                                                         *)
(* dd_disk_read and dd_disk_write move one sector after the other, each in *)
(* the steps of read_port and write_port; IOCTL_ATAPI_IDENTIFY and         *)
(* IOCTL_GET_SECTOR_COUNT run identify.  Nothing locks the port.  A shell  *)
(* command of one terminal can be interrupted by a command of the other,   *)
(* so a call can begin in the middle of another one; it ends before the    *)
(* outer one goes on.                                                      *)
(*                                                                         *)
(* The controller is external: it completes an issued command, or fails it *)
(* and raises TFES, at any time.  A failed command keeps its bit in        *)
(* command_issue.  After a failure the controller may stop (AHCI says it   *)
(* does, until the port is restarted, which the driver never does).        *)
(***************************************************************************)
EXTENDS Integers, Sequences, FiniteSetsExt

CONSTANTS
  Sectors,    \* sectors of the disk
  Slots,      \* command slots of the controller
  MaxCalls,   \* bound on the number of calls
  MaxDepth    \* bound on how deep calls interrupt each other

ASSUME DiskAssumption ==
  /\ Sectors \in Nat \ {0} /\ Slots \in Nat \ {0}
  /\ MaxCalls \in Nat /\ MaxDepth \in Nat \ {0}

VARIABLES
  disk,      \* what every sector holds
  buffer,    \* ahci_ports[port].buffer
  issued,    \* slots whose bit is set in command_issue
  failed,    \* those of them that the controller gave up
  tfes,      \* the TFES bit of interrupt_status
  halted,    \* the controller takes no more commands
  table,     \* table[s]: the command in slot s
  calls,     \* the calls in progress, the innermost last
  last,      \* history: the call that ended last, or NoCall
  asked,     \* history: sectors that some call was asked to write
  begun      \* how many calls have begun

hba == <<issued, failed, tfes, halted>>
vars == <<disk, buffer, issued, failed, tfes, halted, table, calls, last, asked, begun>>

Sector == 0..(Sectors - 1)
Slot == 0..(Slots - 1)

Kinds == {"read", "write", "identify"}

NoCommand == [kind |-> "none", sector |-> 0]

\* i counts the sectors that are done, data what a read has copied out, and
\* clean says that no other call has used the port in the meantime.
NoCall == [kind |-> "none", id |-> 0, sector |-> 0, n |-> 0, i |-> 0, pc |-> "done",
           slot |-> 0, data |-> <<>>, before |-> <<>>, clean |-> FALSE]

Init ==
  /\ disk = [s \in Sector |-> <<0, s>>]
  /\ buffer = <<>>
  /\ issued = {} /\ failed = {} /\ tfes = FALSE /\ halted = FALSE
  /\ table = [s \in Slot |-> NoCommand]
  /\ calls = <<>> /\ last = NoCall /\ asked = {} /\ begun = 0

Depth == Len(calls)
Top == calls[Depth]

Span(sector, n) == sector..(sector + n - 1)

-----------------------------------------------------------------------------
\* device_read, device_write and device_ioctl on a disk.  A call that begins
\* inside another one spoils both.
Begin(kind, sector, n) ==
  /\ begun < MaxCalls /\ Depth < MaxDepth
  /\ Span(sector, n) \subseteq Sector
  /\ begun' = begun + 1
  /\ LET clean == Depth = 0 /\ issued \subseteq failed
         call == [kind |-> kind, id |-> begun + 1, sector |-> sector, n |-> n, i |-> 0,
                  pc |-> "begin", slot |-> 0, data |-> <<>>, before |-> disk,
                  clean |-> clean]
     IN calls' = Append([k \in 1..Depth |-> [calls[k] EXCEPT !.clean = FALSE]], call)
  /\ asked' = IF kind = "write" THEN asked \cup Span(sector, n) ELSE asked
  /\ last' = NoCall
  /\ UNCHANGED <<disk, buffer, hba, table>>

Continue(call) ==
  /\ calls' = [calls EXCEPT ![Depth] = call]
  /\ UNCHANGED <<last, asked, begun>>

\* The call returns the number of sectors that are done.
Return(call) ==
  /\ calls' = SubSeq(calls, 1, Depth - 1)
  /\ last' = [call EXCEPT !.pc = "done"]
  /\ UNCHANGED <<asked, begun>>

\* The memcpy of dd_disk_write to the port's buffer.
FillBuffer ==
  /\ calls # <<>> /\ Top.pc = "begin"
  /\ buffer' = IF Top.kind = "write" THEN <<Top.id, Top.i>> ELSE buffer
  /\ Continue([Top EXCEPT !.pc = "find"])
  /\ UNCHANGED <<disk, hba, table>>

\* find_cmd_slot, after interrupt_status is cleared.
FreeSlots == Slot \ issued

FindSlot ==
  /\ calls # <<>> /\ Top.pc = "find"
  /\ tfes' = FALSE
  /\ IF FreeSlots = {} THEN Return(Top)
                       ELSE Continue([Top EXCEPT !.slot = Min(FreeSlots), !.pc = "fill"])
  /\ UNCHANGED <<disk, buffer, issued, failed, halted, table>>

\* A command that addresses the sector after the one it should.
CommandOfNext(call) == [kind |-> call.kind, sector |-> (call.sector + call.i + 1) % Sectors]

CommandOf(call) == [kind |-> call.kind, sector |-> call.sector + call.i]

\* The command header, table and FIS of the slot.
FillTable ==
  /\ calls # <<>> /\ Top.pc = "fill"
  /\ table' = [table EXCEPT ![Top.slot] = CommandOf(Top)]
  /\ Continue([Top EXCEPT !.pc = "busy"])
  /\ UNCHANGED <<disk, buffer, hba>>

\* The device stays busy for all the polls: "Port is hung".
GiveUp ==
  /\ calls # <<>> /\ Top.pc = "busy"
  /\ Return(Top)
  /\ UNCHANGED <<disk, buffer, hba, table>>

\* identify issues slot 0, whichever slot it prepared.
Issue ==
  /\ calls # <<>> /\ Top.pc = "busy"
  /\ issued' = issued \cup {IF Top.kind = "identify" THEN 0 ELSE Top.slot}
  /\ Continue([Top EXCEPT !.pc = "wait"])
  /\ UNCHANGED <<disk, buffer, failed, tfes, halted, table>>

\* A wait that takes a failed command for one that is done.
WaitIgnoresErrors ==
  /\ calls # <<>> /\ Top.pc = "wait"
  /\ Top.slot \notin issued \/ tfes
  /\ Continue([Top EXCEPT !.pc = "copy"])
  /\ UNCHANGED <<disk, buffer, hba, table>>

\* A wait that looks at the bit of the command only.
WaitForCompletion ==
  /\ calls # <<>> /\ Top.pc = "wait"
  /\ Top.slot \notin issued
  /\ Continue([Top EXCEPT !.pc = "copy"])
  /\ UNCHANGED <<disk, buffer, hba, table>>

(***************************************************************************)
(* The loop that waits for the bit to clear or for TFES, and the test of   *)
(* TFES after it.                                                          *)
(***************************************************************************)
Wait ==
  /\ calls # <<>> /\ Top.pc = "wait"
  /\ \/ tfes /\ Return(Top)
     \/ Top.slot \notin issued /\ ~tfes /\ Continue([Top EXCEPT !.pc = "copy"])
  /\ UNCHANGED <<disk, buffer, hba, table>>

\* The memcpy of dd_disk_read from the port's buffer, and the end of the loop
\* over the sectors.
Copy ==
  LET moved == [Top EXCEPT !.i = @ + 1, !.pc = "begin",
                  !.data = IF Top.kind = "write" THEN @ ELSE Append(@, buffer)]
  IN /\ calls # <<>> /\ Top.pc = "copy"
     /\ IF moved.i = moved.n THEN Return(moved) ELSE Continue(moved)
     /\ UNCHANGED <<disk, buffer, hba, table>>

-----------------------------------------------------------------------------
\* The controller finishes a command: the data moves and the bit clears.
Complete(s) ==
  LET c == table[s]
  IN /\ s \in issued \ failed /\ ~halted
     /\ issued' = issued \ {s}
     /\ disk' = IF c.kind = "write" THEN [disk EXCEPT ![c.sector] = buffer] ELSE disk
     /\ buffer' = CASE c.kind = "read" -> disk[c.sector]
                    [] c.kind = "identify" -> <<"identity">>
                    [] OTHER -> buffer
     /\ UNCHANGED <<failed, tfes, halted, table, calls, last, asked, begun>>

\* The controller gives a command up.
FailCommand(s) ==
  /\ s \in issued \ failed /\ ~halted
  /\ failed' = failed \cup {s}
  /\ tfes' = TRUE
  /\ halted' \in BOOLEAN
  /\ UNCHANGED <<disk, buffer, issued, table, calls, last, asked, begun>>

CallStep ==
  FillBuffer \/ FindSlot \/ FillTable \/ GiveUp \/ Issue \/ Wait \/ Copy

Next ==
  \/ \E kind \in {"read", "write"}, sector \in Sector, n \in 1..Sectors :
        Begin(kind, sector, n)
  \/ Begin("identify", 0, 1)
  \/ CallStep
  \/ \E s \in Slot : Complete(s) \/ FailCommand(s)

\* The processor goes on, and a controller that has not stopped answers every
\* command it was given.
Fairness ==
  /\ WF_vars(CallStep)
  /\ \A s \in Slot : WF_vars(Complete(s) \/ FailCommand(s))

Spec == Init /\ [][Next]_vars /\ Fairness

-----------------------------------------------------------------------------
(* Types: slots and sectors stay in range, a failed command keeps its bit.  *)
TypeOK ==
  /\ failed \subseteq issued /\ issued \subseteq Slot
  /\ tfes \in BOOLEAN /\ halted \in BOOLEAN
  /\ \A s \in Slot : table[s].kind \in Kinds \cup {"none"} /\ table[s].sector \in Sector
  /\ Depth <= MaxDepth /\ begun \in 0..MaxCalls
  /\ \A k \in 1..Depth : calls[k].i < calls[k].n /\ calls[k].slot \in Slot
                         /\ calls[k].pc \in {"begin", "find", "fill", "busy", "wait", "copy"}

(* A read that no other call came between gives, for every sector that it    *)
(* counts in its result, what the disk held, and changes nothing there;      *)
(* whatever failed before it and left its slot taken.                        *)
ReadsGiveTheDisk ==
  last.kind = "read" /\ last.clean =>
    /\ disk = last.before
    /\ Len(last.data) = last.i
    /\ \A k \in 1..last.i : last.data[k] = disk[last.sector + k - 1]

(* A write that no other call came between reports how far it got: the       *)
(* sectors it counts hold the new data and no other sector has changed.      *)
WritesReportWhatIsDone ==
  last.kind = "write" /\ last.clean =>
    disk = [s \in Sector |-> IF s \in Span(last.sector, last.i)
                               THEN <<last.id, s - last.sector>> ELSE last.before[s]]

(* Even when calls come between each other's steps, so that one issues the   *)
(* command the other prepared and both use one buffer, a sector changes only *)
(* if some call was asked to write it.                                       *)
OnlyAskedSectorsChange ==
  [][\A s \in Sector : disk'[s] # disk[s] => s \in asked]_vars

(* A call ends unless another one comes in between: the wait for completion, *)
(* which has no time-out, is left on success and on failure.  A controller   *)
(* that stops after a failure is never restarted; then it is not.            *)
CallsEnd ==
  (Depth = 1 /\ calls[1].clean)
    ~> (calls = <<>> \/ (Depth > 0 /\ ~calls[1].clean) \/ halted)

(* What a file system relies on (dd_disk_read, dd_disk_write): a call that   *)
(* no other one came between did what its result says, no more and no less,  *)
(* whatever failed before it.                                                *)
CallsDoWhatTheyReport == TypeOK /\ ReadsGiveTheDisk /\ WritesReportWhatIsDone
=============================================================================
