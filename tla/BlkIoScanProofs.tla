--------------------------- MODULE BlkIoScanProofs ---------------------------
(***************************************************************************)
(* Proofs about the search for the raw device, for every number of         *)
(* devices and whatever their first sectors hold.                          *)
(***************************************************************************)
EXTENDS BlkIoScan, TLAPS

(* A loop over n handles starts in range. *)
LEMMA FirstHandle ==
  ASSUME NEW n \in Nat
  PROVE  1 \in 1 .. n + 1 /\ 0 \in 0 .. n
OBVIOUS

(* The search starts well typed, and every step keeps the types; the loop  *)
(* counter and the pointer stay within the handles.                        *)
LEMMA ScanTypes ==
  /\ Init => TypeOK
  /\ TypeOK /\ ScanInv /\ [Next]_vars => TypeOK'
<1>1. MaxHandles \in Nat
  BY HandlesAssumption DEF HandlesAssumption
<1>2. Init => TypeOK
  BY <1>1 DEF Init, TypeOK
<1>3. ASSUME TypeOK, ScanInv, [Next]_vars
      PROVE  TypeOK'
  <2>1. CASE Locate
    <3>1. handles' \in {0, count'}
      BY <2>1 DEF Locate
    <3>2. idx' = 1 /\ BlockIo' = 0 /\ hblk' = 0 /\ pc' \in {"open", "done"}
      BY <1>3, <2>1 DEF ScanInv, Locate, LoopStep
    <3>3. idx' \in 1 .. handles' + 1 /\ BlockIo' \in 0 .. handles' /\ hblk' \in 0 .. handles'
      <4>1. handles' \in Nat
        BY <1>1, <1>3, <2>1 DEF TypeOK, Locate
      <4>2. QED BY <3>2, <4>1, FirstHandle
    <3>4. UNCHANGED <<devs, count, hdr, ret>>
      BY <2>1 DEF Locate
    <3>5. QED BY <1>3, <3>1, <3>2, <3>3, <3>4 DEF TypeOK
  <2>2. CASE Open
    BY <1>1, <1>3, <2>2 DEF TypeOK, ScanInv, Open
  <2>3. CASE ReadLba0
    BY <1>1, <1>3, <2>3 DEF TypeOK, ScanInv, ReadLba0
  <2>4. CASE TestMagic
    BY <1>1, <1>3, <2>4 DEF TypeOK, ScanInv, TestMagic, LoopStep
  <2>5. CASE UNCHANGED vars
    BY <1>3, <2>5 DEF TypeOK, vars
  <2>6. QED BY <1>3, <2>1, <2>2, <2>3, <2>4, <2>5 DEF Next
<1>4. QED BY <1>2, <1>3

(* The pointer names the current device or a foreign one. *)
LEMMA ScanStep ==
  /\ Init => ScanInv
  /\ TypeOK /\ ScanInv /\ [Next]_vars => ScanInv'
<1> USE DEF ScanInv, ScanSound, FailureIsForeign
<1>1. Init => ScanInv
  BY Lba0Assumption DEF Init, Lba0Assumption
<1>2. ASSUME TypeOK, ScanInv, [Next]_vars
      PROVE  ScanInv'
  <2>1. CASE Locate
    BY <1>2, <2>1 DEF TypeOK, Locate, LoopStep
  <2>2. CASE Open
    BY <1>2, <2>2 DEF TypeOK, Open
  <2>3. CASE ReadLba0
    BY <1>2, <2>3 DEF TypeOK, ReadLba0
  <2>4. CASE TestMagic
    BY <1>2, <2>4 DEF TypeOK, TestMagic, LoopStep
  <2>5. CASE UNCHANGED vars
    BY <1>2, <2>5 DEF vars
  <2>6. QED BY <1>2, <2>1, <2>2, <2>3, <2>4, <2>5 DEF Next
<1>3. QED BY <1>1, <1>2

(* The step invariant of SBC_BlkIoHandleInit, with its types. *)
THEOREM ScanCorrect == Spec => [](TypeOK /\ ScanInv)
BY ScanTypes, ScanStep, PTL DEF Spec

(* Success hands out the raw device with its own header, failure nothing   *)
(* and a foreign header: what FSBL_Scan and SSBL_Scan assume.              *)
THEOREM ScanResult == Spec => [](ScanSound /\ FailureIsForeign)
<1>1. ScanInv => ScanSound /\ FailureIsForeign
  BY DEF ScanInv
<1>2. QED BY <1>1, ScanCorrect, PTL

(* The loop counter, the pointer and the handle given out stay within the  *)
(* handles that LocateHandleBuffer returned.                               *)
THEOREM ScanTyped == Spec => []TypeOK
BY ScanCorrect, PTL

(* FSBL, which goes on after a failed search, never does so with the       *)
(* header of a raw device.                                                 *)
THEOREM FailureForeign == Spec => []FailureIsForeign
BY ScanResult, PTL

-----------------------------------------------------------------------------
(* The search begins where the one-step search begins. *)
LEMMA SearchInit == Init => Search!Init
BY DEF Init, Search!Init, Outcome

(* Every step of the search is invisible to the caller or the one step of  *)
(* the abstract search.                                                    *)
LEMMA SearchStep ==
  TypeOK /\ ScanInv /\ [Next]_vars => [Search!Next]_Search!vars
<1>. SUFFICES ASSUME TypeOK, ScanInv, [Next]_vars
              PROVE  [Search!Next]_Search!vars
  OBVIOUS
<1>. USE DEF TypeOK, ScanInv, Outcome, Search!vars
<1>1. CASE Locate
  <2>1. pc' \in {"open", "done"} /\ hdr \notin Raw
    BY <1>1 DEF Locate, LoopStep
  <2>2. CASE pc' = "open"
    BY <1>1, <2>2 DEF Locate
  <2>3. CASE pc' = "done"
    <3>1. Search!NotFound
      BY <1>1, <2>1, <2>3 DEF Locate, Search!NotFound
    <3>. QED  BY <3>1 DEF Search!Next
  <2>. QED  BY <2>1, <2>2, <2>3
<1>2. CASE Open
  <2>1. CASE pc' = "read"
    BY <1>2, <2>1 DEF Open
  <2>2. CASE pc' = "hang"
    <3>1. Search!Faulted
      BY <1>2, <2>2 DEF Open, Search!Faulted
    <3>. QED  BY <3>1 DEF Search!Next
  <2>3. CASE pc' = "done"
    <3>1. Search!NotFound
      BY <1>2, <2>3 DEF Open, Search!NotFound
    <3>. QED  BY <3>1 DEF Search!Next
  <2>. QED  BY <1>2, <2>1, <2>2, <2>3 DEF Open
<1>3. CASE ReadLba0
  <2>1. CASE pc' = "test"
    BY <1>3, <2>1 DEF ReadLba0
  <2>2. CASE pc' # "test"
    <3>1. Search!NotFound
      BY <1>3, <2>2 DEF ReadLba0, Search!NotFound
    <3>. QED  BY <3>1 DEF Search!Next
  <2>. QED  BY <2>1, <2>2
<1>4. CASE TestMagic
  <2>1. CASE hdr \in Raw
    <3>1. Search!Found
      <4>1. BlockIo \in 1 .. MaxHandles
        BY <1>4, HandlesAssumption DEF TestMagic, HandlesAssumption
      <4>. QED  BY <1>4, <2>1, <4>1 DEF TestMagic, Search!Found
    <3>. QED  BY <3>1 DEF Search!Next
  <2>2. CASE hdr \notin Raw /\ pc' = "open"
    BY <1>4, <2>2 DEF TestMagic
  <2>3. CASE hdr \notin Raw /\ pc' # "open"
    <3>1. pc' = "done"
      BY <1>4, <2>3 DEF TestMagic, LoopStep
    <3>2. Search!NotFound
      BY <1>4, <2>3, <3>1 DEF TestMagic, Search!NotFound
    <3>. QED  BY <3>2 DEF Search!Next
  <2>. QED  BY <2>1, <2>2, <2>3
<1>5. CASE UNCHANGED vars
  BY <1>5 DEF vars
<1>. QED  BY <1>1, <1>2, <1>3, <1>4, <1>5 DEF Next

(* SBC_BlkIoHandleInit implements the one-step search that FSBL_Scan and   *)
(* SSBL_Scan rest on, for every number of devices.                         *)
THEOREM SearchImplemented == Spec => SearchSpec
<1>1. Spec => Search!Init /\ [][Search!Next]_Search!vars
  BY SearchInit, SearchStep, ScanCorrect, PTL DEF Spec
<1>. QED  BY <1>1 DEF SearchSpec, Search!Spec

-----------------------------------------------------------------------------
(* SBC_BlkIoHandleInit ends after three steps per handle, for every number *)
(* of handles and whatever the devices do: the loop counter moves with     *)
(* every header that is not a raw device's.                                *)
THEOREM ScanTerminates == Spec => ScanProgress
<1>1. ASSUME TypeOK, ScanInv, [Next]_vars
      PROVE  [ScanRank' < ScanRank]_vars
  <2> SUFFICES ASSUME Next PROVE ScanRank' < ScanRank
    BY <1>1
  <2>1. /\ MaxHandles \in Nat /\ handles \in Nat /\ count \in 0 .. MaxHandles
        /\ idx \in Nat /\ idx >= 1
    BY <1>1, HandlesAssumption DEF HandlesAssumption, TypeOK
  <2>2. pc \in {"open", "read", "test"} => idx <= handles
    BY <1>1 DEF ScanInv
  <2>3. CASE Locate
    <3>1. idx' = 1 /\ handles' \in {0, count} /\ pc' = LoopStep(1, handles') /\ pc = "locate"
      BY <1>1, <2>3 DEF Locate, ScanInv
    <3>2. handles' \in 0 .. MaxHandles BY <2>1, <3>1
    <3>3. QED BY <2>1, <3>1, <3>2 DEF ScanRank, LoopStep
  <2>4. CASE Open
    BY <2>1, <2>2, <2>4 DEF Open, ScanRank
  <2>5. CASE ReadLba0
    BY <2>1, <2>2, <2>5 DEF ReadLba0, ScanRank
  <2>6. CASE TestMagic
    BY <2>1, <2>2, <2>6 DEF TestMagic, ScanRank, LoopStep
  <2>7. QED BY <2>3, <2>4, <2>5, <2>6 DEF Next
<1>2. QED BY <1>1, ScanCorrect, PTL DEF Spec, ScanProgress

=============================================================================
