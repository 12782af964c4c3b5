------------------------------ MODULE BlkIoScan ------------------------------
(***************************************************************************)
(* SBC_BlkIoHandleInit: both loaders look for the raw device by reading    *)
(* LBA 0 of every block device into the caller's header until one carries  *)
(* the magic number.  Devices may refuse to be opened or read at any       *)
(* moment.  FSBL_Scan and SSBL_Scan of the boot chain take this search as  *)
(* one step, the one of DeviceSearch; this module implements it.           *)
(***************************************************************************)
EXTENDS Naturals

CONSTANTS
  MaxHandles,   \* at most so many block devices
  Lba0,         \* what the first sector of a device may hold
  Raw,          \* the first sectors that carry the magic number
  Zeroed        \* the caller's header after ZeroMem

ASSUME HandlesAssumption == MaxHandles \in Nat
ASSUME Lba0Assumption == Raw \subseteq Lba0 /\ Zeroed \notin Raw

VARIABLES
  devs,      \* the first sectors of the devices, in the order of their handles
  count,     \* the number of devices that are there
  pc,        \* the step of the search
  handles,   \* NumberOfHandles
  idx,       \* the loop counter, from 1
  BlockIo,   \* the device the local pointer names, 0 for null
  hblk,      \* the device handed to the caller, 0 for none
  hdr,       \* the caller's header
  ret        \* the result

vars == <<devs, count, pc, handles, idx, BlockIo, hblk, hdr, ret>>

(* Types of the search. *)
TypeOK ==
  /\ devs \in [1 .. MaxHandles -> Lba0]
  /\ count \in 0 .. MaxHandles
  /\ pc \in {"locate", "open", "read", "test", "done", "hang"}
  /\ handles \in {0, count}
  /\ idx \in 1 .. handles + 1
  /\ BlockIo \in 0 .. handles
  /\ hblk \in 0 .. handles
  /\ hdr \in Lba0 \cup {Zeroed}
  /\ ret \in {"SBCOK", "SBCFAIL", "SBCNULLP"}

Init ==
  /\ devs \in [1 .. MaxHandles -> Lba0]
  /\ count \in 0 .. MaxHandles
  /\ pc = "locate" /\ handles = 0 /\ idx = 1 /\ BlockIo = 0 /\ hblk = 0
  /\ hdr = Zeroed /\ ret = "SBCFAIL"

(* Mutant: the loop runs one handle too far. *)
LoopStep_Past(i, n) == IF i <= n + 1 THEN "open" ELSE "done"

(* The loop condition: go on with handle i or leave the loop. *)
LoopStep(i, n) == IF i <= n THEN "open" ELSE "done"

(* LocateHandleBuffer.  After a failure the validation macro, whose        *)
(* condition is inverted, lets the search go on with no handles.           *)
Locate ==
  /\ pc = "locate"
  /\ handles' \in {0, count}
  /\ pc' = LoopStep(1, handles')
  /\ UNCHANGED <<devs, count, idx, BlockIo, hblk, hdr, ret>>

(* HandleProtocol and AllocatePool.  The inverted macro again lets a       *)
(* failure pass: the pointer then is what the last handle left in it, or   *)
(* null, and using a null pointer faults.  A failed allocation ends the    *)
(* search.                                                                 *)
Open ==
  /\ pc = "open"
  /\ BlockIo' \in {idx, BlockIo, 0}
  /\ \/ BlockIo' = 0 /\ pc' = "hang" /\ UNCHANGED ret
     \/ BlockIo' # 0 /\ pc' = "read" /\ UNCHANGED ret
     \/ BlockIo' # 0 /\ pc' = "done" /\ ret' = "SBCNULLP"
  /\ UNCHANGED <<devs, count, handles, idx, hblk, hdr>>

(* Mutant: the buffer is copied before the status is looked at. *)
ReadLba0_CopyFirst ==
  /\ pc = "read"
  /\ hdr' = devs[BlockIo]
  /\ \/ pc' = "test" /\ UNCHANGED ret
     \/ pc' = "done" /\ ret' = "SBCFAIL"
  /\ UNCHANGED <<devs, count, handles, idx, BlockIo, hblk>>

(* ReadBlocks of LBA 0 into the caller's header.  A device that cannot be  *)
(* read ends the search, also when the raw device comes after it.          *)
ReadLba0 ==
  /\ pc = "read"
  /\ \/ hdr' = devs[BlockIo] /\ pc' = "test" /\ UNCHANGED ret
     \/ pc' = "done" /\ ret' = "SBCFAIL" /\ UNCHANGED hdr
  /\ UNCHANGED <<devs, count, handles, idx, BlockIo, hblk>>

(* Mutant: the handle is given out before the magic number is looked at. *)
TestMagic_Early ==
  /\ pc = "test"
  /\ hblk' = BlockIo
  /\ \/ hdr \in Raw /\ ret' = "SBCOK" /\ pc' = "done" /\ UNCHANGED idx
     \/ hdr \notin Raw /\ idx' = idx + 1 /\ pc' = LoopStep(idx', handles) /\ UNCHANGED ret
  /\ UNCHANGED <<devs, count, handles, BlockIo, hdr>>

(* Mutant: the loop goes on to the same handle. *)
TestMagic_Stuck ==
  /\ pc = "test"
  /\ \/ hdr \in Raw /\ hblk' = BlockIo /\ ret' = "SBCOK" /\ pc' = "done"
     \/ hdr \notin Raw /\ pc' = "open" /\ UNCHANGED <<hblk, ret>>
  /\ UNCHANGED <<devs, count, handles, idx, BlockIo, hdr>>

(* The magic number decides whether the search is over. *)
TestMagic ==
  /\ pc = "test"
  /\ \/ /\ hdr \in Raw
        /\ hblk' = BlockIo /\ ret' = "SBCOK" /\ pc' = "done" /\ UNCHANGED idx
     \/ /\ hdr \notin Raw
        /\ idx' = idx + 1 /\ pc' = LoopStep(idx', handles) /\ UNCHANGED <<hblk, ret>>
  /\ UNCHANGED <<devs, count, handles, BlockIo, hdr>>

Next == Locate \/ Open \/ ReadLba0 \/ TestMagic

Spec == Init /\ [][Next]_vars
FairSpec == Spec /\ WF_vars(Next)

-----------------------------------------------------------------------------
(* What both UefiMain functions rely on: success hands out the device of   *)
(* the current handle, one with the magic number, together with its own    *)
(* header, although the pointer may be left over from another handle;      *)
(* failure hands out nothing.                                              *)
ScanSound ==
  pc = "done" =>
    IF ret = "SBCOK"
    THEN hblk # 0 /\ hblk = idx /\ devs[hblk] \in Raw /\ hdr = devs[hblk]
    ELSE hblk = 0

(* After an unsuccessful search the caller's header is never that of a     *)
(* device with the magic number: what FSBL goes on with is foreign.        *)
FailureIsForeign ==
  pc = "done" /\ ret # "SBCOK" => hdr \notin Raw

(* Why: the pointer names the current handle's device, or one that was     *)
(* read before and found foreign.  An inductive invariant of the search.   *)
ScanInv ==
  /\ pc = "locate" => idx = 1 /\ BlockIo = 0
  /\ pc \in {"locate", "open", "read", "test"} => hblk = 0 /\ ret = "SBCFAIL"
  /\ pc \in {"open", "read", "test"} => idx <= handles
  /\ pc \in {"locate", "open", "read"} => hdr \notin Raw
  /\ pc \in {"read", "test"} => BlockIo # 0
  /\ pc = "test" => hdr = devs[BlockIo]
  /\ BlockIo # 0 /\ BlockIo # idx => devs[BlockIo] \notin Raw
  /\ ScanSound /\ FailureIsForeign

(* What the caller sees of the search at each of its steps. *)
Outcome ==
  IF pc = "hang" THEN "fault"
  ELSE IF pc # "done" THEN "searching"
  ELSE IF ret = "SBCOK" THEN "found" ELSE "failed"

Search ==
  INSTANCE DeviceSearch WITH
    Handles <- 1 .. MaxHandles,
    outcome <- Outcome,
    hdr <- IF pc = "done" THEN hdr ELSE Zeroed

(* SBC_BlkIoHandleInit, with a header that it overwrites device by device  *)
(* and a pointer that failed calls leave stale, returns as the one step    *)
(* the loaders take it for: no caller sees a device paired with another    *)
(* one's header, or a raw header without its device.                       *)
SearchSpec == Search!Spec

(* The search comes to an end whatever the devices do. *)
ScanEnds == <>(pc \in {"done", "hang"})

(* Steps to come at most: three for each handle not yet tried. *)
ScanRank ==
  CASE pc = "locate" -> 3 * MaxHandles + 1
    [] pc = "open" -> 3 * (handles - idx) + 3
    [] pc = "read" -> 3 * (handles - idx) + 2
    [] pc = "test" -> 3 * (handles - idx) + 1
    [] OTHER -> 0

(* The loop of SBC_BlkIoHandleInit never tries a handle twice: every step  *)
(* lowers the number of steps to come, whatever refuses to be opened or    *)
(* read, and with a pointer that is stale or not.                          *)
ScanProgress == [][ScanRank' < ScanRank]_vars

=============================================================================
