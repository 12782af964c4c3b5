--------------------------- MODULE BootChainProofs ---------------------------
(***************************************************************************)
(* Proofs about BootChain for every set of headers, every bound on faults  *)
(* and edits, and whatever lies in the gap.                                *)
(***************************************************************************)
EXTENDS BootChain, TLAPS

(* The outcome of a block write stays in the budget of faults. *)
LEMMA CostInBudget ==
  ASSUME faults \in 0 .. MaxFaults, NEW len, NEW o \in WriteOutcomes(len)
  PROVE  /\ o \in {"refused", "done", "lost", "late"}
         /\ faults + Cost(o) \in 0 .. MaxFaults
<1>1. MaxFaults \in Nat
  BY BoundAssumption DEF BoundAssumption
<1>2. o \in {"refused", "done", "lost", "late"}
  BY DEF WriteOutcomes
<1>3. o \in {"lost", "late"} => faults < MaxFaults
  BY DEF WriteOutcomes
<1>4. QED BY <1>1, <1>2, <1>3 DEF Cost

(* The header length is not a whole number of blocks: FSBL's write of the  *)
(* header never reaches the disk.                                          *)
LEMMA HeaderWriteRefused ==
  ASSUME NEW o \in WriteOutcomes(RAWPRT_HDR_LEN)
  PROVE  ~Applied(o) /\ Cost(o) = 0
BY DEF WriteOutcomes, WholeBlocks, RAWPRT_HDR_LEN, SBC_RAWPRT_DFLT_BLK_SZ, Applied, Cost

(* The same for SSBL's writes of the header and of the base answer. *)
LEMMA SsblCostInBudget ==
  ASSUME faults \in 0 .. MaxFaults, NEW o \in HeaderOutcomes \cup StoreOutcomes
  PROVE  /\ o \in {"refused", "done", "lost", "late"}
         /\ faults + Cost(o) \in 0 .. MaxFaults
<1>1. CASE o = "refused"
  BY <1>1 DEF Cost
<1>2. CASE o # "refused"
  <2>1. \/ o \in WriteOutcomes(SBC_RAWPRT_DFLT_BLK_SZ)
        \/ o \in WriteOutcomes(SYS_SETTING_BLOCKS_LEN)
    BY <1>2 DEF HeaderOutcomes, StoreOutcomes
  <2>2. QED BY <2>1, CostInBudget
<1>3. QED BY <1>1, <1>2

(* A UINT16 holds every mode, and is below the FSBL's "no bank". *)
LEMMA WordRange == MAX_UINT16 \in Nat /\ 5 <= MAX_UINT16 /\ MAX_UINT16 <= NoBank32 /\ NoBank32 \in Nat
BY DEF MAX_UINT16, NoBank32

(* The bank number parsed from bootpres, and its predecessor, are in range. *)
LEMMA BanksTyped ==
  ASSUME NEW p \in Pres, NEW b
  PROVE  /\ CurrBank(p) \in UINT16
         /\ FindPreviouslyBank(b) \in 0 .. NoBank32
         /\ FSBL_FindPreviouslyBank(b) \in 0 .. NoBank32
<1>1. CurrBank(p) \in UINT16
  <2>1. p.low.id \in UINT16 /\ p.hi.id \in UINT16
    BY DEF Pres, Entry
  <2>2. 0 \in UINT16
    BY WordRange DEF UINT16
  <2>3. QED BY <2>1, <2>2 DEF CurrBank
<1>2. FindPreviouslyBank(b) \in 0 .. NoBank32
  BY DEF FindPreviouslyBank, NoBank32
<1>3. FSBL_FindPreviouslyBank(b) \in 0 .. NoBank32
  BY DEF FSBL_FindPreviouslyBank, NoBank32
<1>4. QED BY <1>1, <1>2, <1>3

(* A bank number is in the range of sel and prev. *)
LEMMA BankRange ==
  ASSUME NEW b \in UINT16
  PROVE  b \in 0 .. NoBank32
BY WordRange DEF UINT16

(* ZeroMem leaves a header. *)
LEMMA ZeroHeaderTyped == ZeroHeader \in Header
BY WordRange DEF ZeroHeader, Header, Pres, Entry, UINT16

(* Giving a header new modes leaves a header, with its bootpres. *)
LEMMA WithModesTyped ==
  ASSUME ram \in Header, NEW b \in UINT16, NEW k \in UINT16
  PROVE  /\ WithModes(b, k) \in Header
         /\ WithModes(b, k).bm = b /\ WithModes(b, k).km = k
         /\ WithModes(b, k).pres = ram.pres
BY DEF WithModes, Header

-----------------------------------------------------------------------------
(* Type correctness, action by action. *)

(* A provisioned machine that is switched off is well typed. *)
LEMMA TypeInit == Init => TypeOK
BY HeaderAssumption, BoundAssumption, StagedAssumption, ZeroHeaderTyped, WordRange
   DEF Init, TypeOK, HeaderAssumption, BoundAssumption, StagedAssumption, Images,
       RestSteps, UINT16, Checks, Banks

(* A fault is charged to the budget. *)
LEMMA FaultTyped ==
  ASSUME faults \in 0 .. MaxFaults, NoFault \/ Fault
  PROVE  faults' \in 0 .. MaxFaults
BY BoundAssumption DEF BoundAssumption, NoFault, Fault

(* What an image finds when it starts. *)
LEMMA FreshRamTyped ==
  ASSUME FreshRam
  PROVE  /\ blk' \in {NULL, RAW} /\ ram' \in Header
         /\ cur' \in UINT16 /\ prev' \in 0 .. NoBank32
         /\ bm' \in UINT16 /\ km' \in UINT16 /\ st' \in {NRMA, ABNRAM}
         /\ mode' \in UINT16 /\ ret' \in {SBCOK, SBCFAIL}
         /\ heap' \in {"none", "live", "freed"}
<1>1. 0 \in UINT16 /\ 0 \in 0 .. NoBank32
  BY WordRange DEF UINT16
<1>2. QED BY <1>1, ZeroHeaderTyped DEF FreshRam

(* The steps of FSBL keep the types. *)
LEMMA FsblTypes ==
  ASSUME TypeOK, FSBL_Next
  PROVE  TypeOK'
<1> USE DEF disk, site, ramvars, FsblSteps, SsblSteps, RestSteps
<1>1. CASE FSBL_Scan
  <2>1. ram' \in Header /\ blk' \in {NULL, RAW} /\ faults' \in 0 .. MaxFaults
    BY <1>1, HeaderAssumption, FaultTyped DEF TypeOK, FSBL_Scan, HeaderAssumption
  <2>2. cur' \in UINT16 /\ prev' \in 0 .. NoBank32
    BY <1>1, <2>1, BanksTyped DEF TypeOK, FSBL_Scan, Header
  <2>3. QED BY <1>1, <2>1, <2>2 DEF TypeOK, FSBL_Scan
<1>2. CASE FSBL_Verify
  BY <1>2, FaultTyped DEF TypeOK, FSBL_Verify, Succeeds, Fails, Checks
<1>3. CASE FSBL_DiceKeysGen
  BY <1>3, FaultTyped DEF TypeOK, FSBL_DiceKeysGen, Fails, Checks
<1>4. CASE FSBL_BootMode
  <2>1. hdr' = hdr /\ faults' = faults
    BY <1>4, HeaderWriteRefused DEF TypeOK, FSBL_BootMode, KeyModeToNormal
  <2>2. pc' \in FsblSteps \cup RestSteps
    BY <1>4 DEF FSBL_BootMode, KeyModeToNormal
  <2>3. sel' \in 0 .. NoBank32
    <3>1. sel' \in {cur, prev, sel}
      BY <1>4 DEF FSBL_BootMode
    <3>2. cur \in UINT16 /\ prev \in 0 .. NoBank32 /\ sel \in 0 .. NoBank32
      BY DEF TypeOK
    <3>3. cur \in 0 .. NoBank32
      BY <3>2, BankRange
    <3>4. QED BY <3>1, <3>2, <3>3
  <2>4. QED BY <1>4, <2>1, <2>2, <2>3 DEF TypeOK, FSBL_BootMode
<1>5. CASE FSBL_ReadBank
  BY <1>5, FaultTyped DEF TypeOK, FSBL_ReadBank, Succeeds, Fails
<1>6. CASE FSBL_WriteFile
  BY <1>6, FaultTyped DEF TypeOK, FSBL_WriteFile, Images, ImageAt
<1>7. CASE FSBL_StartSSBL
  <2>1. faults' \in 0 .. MaxFaults
    BY <1>7, FaultTyped DEF TypeOK, FSBL_StartSSBL, Succeeds, Fails
  <2>2. CASE FreshRam /\ pc' = "ssbl_scan" /\ img' = esp.rocky
    <3>1. img' \in Images
      BY <2>2 DEF TypeOK
    <3>2. QED BY <1>7, <2>1, <2>2, <3>1, FreshRamTyped DEF TypeOK, FSBL_StartSSBL
  <2>3. CASE UNCHANGED <<blk, ram, cur, prev, bm, km, st, mode, ret, heap, img>>
    BY <1>7, <2>1, <2>3 DEF TypeOK, FSBL_StartSSBL
  <2>4. QED BY <1>7, <2>2, <2>3 DEF FSBL_StartSSBL
<1>8. CASE FSBL_Errdone
  BY <1>8, HeaderWriteRefused DEF TypeOK, FSBL_Errdone, KeyModeToNormal
<1>9. QED BY <1>1, <1>2, <1>3, <1>4, <1>5, <1>6, <1>7, <1>8 DEF FSBL_Next

(* So does a reset of the machine. *)
LEMMA RestartTyped ==
  ASSUME TypeOK, NEW step \in FsblSteps \cup SsblSteps \cup RestSteps, Restart(step),
         hdr' \in Header, ans' = ans, full' = full, UNCHANGED site,
         faults' \in 0 .. MaxFaults, edits' = edits
  PROVE  TypeOK'
<1>1. sel' \in 0 .. NoBank32 /\ img' \in Images /\ done' \in SUBSET Checks
  BY DEF Restart, NoBank32, Images
<1>2. QED BY <1>1, FreshRamTyped DEF TypeOK, Restart, site

(* The boot and key modes are 16-bit values. *)
LEMMA ModesTyped ==
  /\ {BOOT_MODE_NONE, BOOT_MODE_NORMAL, BOOT_MODE_UPDATE, BOOT_MODE_RECOVERY,
      BOOT_MODE_FACTORY, BOOT_MODE_UNKNOWN} \subseteq UINT16
  /\ {KEY_MODE_NORMAL, KEY_MODE_BOOT, KEY_MODE_UPDATE} \subseteq UINT16
BY WordRange
   DEF UINT16, BOOT_MODE_NONE, BOOT_MODE_NORMAL, BOOT_MODE_UPDATE, BOOT_MODE_RECOVERY,
       BOOT_MODE_FACTORY, BOOT_MODE_UNKNOWN, KEY_MODE_NORMAL, KEY_MODE_BOOT, KEY_MODE_UPDATE

(* A mode change writes a header, or leaves the one that is there. *)
LEMMA ModeChangeTyped ==
  ASSUME TypeOK, NEW o \in HeaderOutcomes, NEW b \in UINT16, NEW k \in UINT16,
         SBC_BootKeyModeChange(o, b, k)
  PROVE  hdr' \in {hdr, WithModes(b, k)} /\ hdr' \in Header /\ faults' \in 0 .. MaxFaults
<1>1. faults' \in 0 .. MaxFaults
  BY SsblCostInBudget DEF TypeOK, SBC_BootKeyModeChange
<1>2. WithModes(b, k) \in Header
  BY WithModesTyped DEF TypeOK
<1>3. QED BY <1>1, <1>2 DEF TypeOK, SBC_BootKeyModeChange

(* The targets the handlers choose are modes; the reset that follows them  *)
(* leaves a well-typed state.                                              *)
LEMMA ChangeAndRebootTyped ==
  ASSUME TypeOK, NEW b \in UINT16, NEW k \in UINT16, NEW t \in {NoTarget, <<b, k>>},
         ChangeAndReboot(t), ans' = ans, full' = full, UNCHANGED site, edits' = edits
  PROVE  TypeOK'
<1>1. hdr' \in Header /\ faults' \in 0 .. MaxFaults
  <2>1. CASE t = NoTarget
    BY <2>1 DEF ChangeAndReboot, TypeOK
  <2>2. CASE t # NoTarget
    <3>1. t[1] = b /\ t[2] = k
      BY <2>2
    <3>2. PICK o \in HeaderOutcomes : SBC_BootKeyModeChange(o, b, k)
      BY <2>2, <3>1 DEF ChangeAndReboot
    <3>3. QED BY <3>2, ModeChangeTyped
  <2>3. QED BY <2>1, <2>2
<1>2. QED BY <1>1, RestartTyped DEF ChangeAndReboot, Reboot, FsblSteps

(* The steps of SSBL keep the types. *)
LEMMA SsblTypes ==
  ASSUME TypeOK, SSBL_Next
  PROVE  TypeOK'
<1> USE DEF disk, site, ramvars, FsblSteps, SsblSteps, RestSteps
<1>1. CASE SSBL_Scan
  <2>1. ram' \in Header /\ blk' \in {NULL, RAW} /\ faults' \in 0 .. MaxFaults
    BY <1>1, HeaderAssumption, FaultTyped DEF TypeOK, SSBL_Scan, HeaderAssumption
  <2>2. cur' \in UINT16 /\ prev' \in 0 .. NoBank32
    BY <1>1, BanksTyped DEF TypeOK, SSBL_Scan, Header
  <2>3. bm' \in UINT16 /\ km' \in UINT16
    BY <1>1 DEF TypeOK, SSBL_Scan, Header
  <2>4. QED BY <1>1, <2>1, <2>2, <2>3 DEF TypeOK, SSBL_Scan
<1>2. CASE SSBL_Verify
  BY <1>2, FaultTyped DEF TypeOK, SSBL_Verify, Succeeds, Fails, Checks
<1>3. CASE SSBL_DiceKeysGen
  BY <1>3, FaultTyped DEF TypeOK, SSBL_DiceKeysGen, Succeeds, Fails, Checks
<1>4. CASE SSBL_BootMode
  <2>1. mode' \in UINT16
    BY <1>4, ModesTyped DEF TypeOK, SSBL_BootMode, Header, FileModes
  <2>2. pc' \in SsblSteps
    BY <1>4 DEF SSBL_BootMode, ModeStep
  <2>3. QED BY <1>4, <2>1, <2>2, FaultTyped DEF TypeOK, SSBL_BootMode
<1>5. CASE SSBL_Normal
  <2>1. hdr' \in Header /\ faults' \in 0 .. MaxFaults
    BY <1>5, ModesTyped, ModeChangeTyped DEF SSBL_Normal
  <2>2. ram' \in Header
    BY <1>5, ModesTyped, WithModesTyped DEF SSBL_Normal, TypeOK
  <2>3. QED BY <1>5, <2>1, <2>2 DEF TypeOK, SSBL_Normal
<1>6. CASE SSBL_Factory
  BY <1>6 DEF TypeOK, SSBL_Factory
<1>7. CASE SSBL_MigrationKey
  <2>1. bm' \in UINT16 /\ km' \in UINT16 /\ faults' \in 0 .. MaxFaults
    BY <1>7, ModesTyped, FaultTyped DEF TypeOK, SSBL_MigrationKey, Succeeds, Fails
  <2>2. QED BY <1>7, <2>1 DEF TypeOK, SSBL_MigrationKey, Checks
<1>8. CASE SSBL_SecureBootCheck
  <2>1. CASE bm = BOOT_MODE_NORMAL /\ st = ABNRAM
    <3>1. \E b, k \in UINT16 : AbnormalTarget \in {NoTarget, <<b, k>>}
      BY ModesTyped DEF AbnormalTarget
    <3>2. QED BY <1>8, <2>1, <3>1, ChangeAndRebootTyped DEF SSBL_SecureBootCheck
  <2>2. CASE ~(bm = BOOT_MODE_NORMAL /\ st = ABNRAM)
    BY <1>8, <2>2 DEF TypeOK, SSBL_SecureBootCheck
  <2>3. QED BY <2>1, <2>2
<1>9. CASE SSBL_UpdateProcessing
  <2>1. ans' \in {"none", "migid", "osid"} /\ heap' \in {"none", "live", "freed"}
    BY <1>9 DEF TypeOK, SSBL_UpdateProcessing, SBC_BaseAnswerEncryptStore
  <2>2. faults' \in 0 .. MaxFaults
    BY <1>9, SsblCostInBudget DEF TypeOK, SSBL_UpdateProcessing, SBC_BaseAnswerEncryptStore
  <2>3. ret' \in {SBCOK, SBCFAIL}
    BY <1>9 DEF SSBL_UpdateProcessing
  <2>4. QED BY <1>9, <2>1, <2>2, <2>3 DEF TypeOK, SSBL_UpdateProcessing
<1>10. CASE SSBL_ResetScenario
  <2>1. CASE km = KEY_MODE_NORMAL
    <3>1. \E b, k \in UINT16 : ResetTarget \in {NoTarget, <<b, k>>}
      BY ModesTyped DEF ResetTarget
    <3>2. QED BY <1>10, <2>1, <3>1, ChangeAndRebootTyped DEF SSBL_ResetScenario
  <2>2. CASE km # KEY_MODE_NORMAL
    BY <1>10, <2>2 DEF TypeOK, SSBL_ResetScenario
  <2>3. QED BY <2>1, <2>2
<1>11. CASE SSBL_RecoveryProcessing
  <2>1. CASE st = ABNRAM
    BY <1>11, <2>1, ModesTyped, ChangeAndRebootTyped DEF SSBL_RecoveryProcessing
  <2>2. CASE st # ABNRAM /\ prev = 0
    BY <1>11, <2>2 DEF TypeOK, SSBL_RecoveryProcessing, Shutdown
  <2>3. CASE st # ABNRAM /\ prev # 0
    <3>1. PICK o \in StoreOutcomes :
             /\ SBC_BaseAnswerEncryptStore(o, "osid")
             /\ pc' = IF o = "done" THEN "ssbl_commit" ELSE "off"
             /\ UNCHANGED <<hdr, blk, ram, cur, prev, sel, img, bm, km, st, mode, ret, done>>
      BY <1>11, <2>3 DEF SSBL_RecoveryProcessing
    <3>2. faults' \in 0 .. MaxFaults
      BY <3>1, SsblCostInBudget DEF TypeOK, SBC_BaseAnswerEncryptStore
    <3>3. ans' \in {"none", "migid", "osid"} /\ heap' \in {"none", "live", "freed"}
      BY <3>1 DEF TypeOK, SBC_BaseAnswerEncryptStore
    <3>4. QED BY <1>11, <3>1, <3>2, <3>3 DEF TypeOK, SSBL_RecoveryProcessing
  <2>4. QED BY <2>1, <2>2, <2>3
<1>12. CASE SSBL_RecoveryCommit
  <2>1. CASE RecoveryTarget = NoTarget
    BY <1>12, <2>1 DEF TypeOK, SSBL_RecoveryCommit, Shutdown
  <2>2. CASE RecoveryTarget # NoTarget
    <3>1. PICK b \in UINT16, k \in UINT16 : RecoveryTarget = <<b, k>>
      BY <2>2, ModesTyped DEF RecoveryTarget
    <3>2. PICK o \in HeaderOutcomes :
            /\ SBC_BootKeyModeChange(o, b, k)
            /\ IF o = "done" THEN Reboot ELSE Shutdown
      BY <1>12, <2>2, <3>1 DEF SSBL_RecoveryCommit
    <3>3. hdr' \in Header /\ faults' \in 0 .. MaxFaults
      BY <3>2, ModeChangeTyped
    <3>4. CASE Reboot
      BY <1>12, <3>3, <3>4, RestartTyped DEF SSBL_RecoveryCommit, Reboot
    <3>5. CASE Shutdown
      BY <1>12, <3>3, <3>5 DEF TypeOK, SSBL_RecoveryCommit, Shutdown
    <3>6. QED BY <3>2, <3>4, <3>5
  <2>3. QED BY <2>1, <2>2
<1>13. CASE SSBL_StartGrub
  BY <1>13, FaultTyped DEF TypeOK, SSBL_StartGrub
<1>14. CASE SSBL_Errdone
  BY <1>14 DEF TypeOK, SSBL_Errdone, Shutdown
<1>15. QED
  BY <1>1, <1>2, <1>3, <1>4, <1>5, <1>6, <1>7, <1>8, <1>9, <1>10, <1>11, <1>12, <1>13, <1>14
  DEF SSBL_Next

(* Power, operator and update tool keep the types. *)
LEMMA EnvironmentTypes ==
  ASSUME TypeOK, Environment
  PROVE  TypeOK'
<1> USE DEF disk, site, ramvars, FsblSteps, SsblSteps, RestSteps
<1>1. CASE PowerOn
  BY <1>1, RestartTyped DEF TypeOK, PowerOn
<1>2. CASE PowerCut
  BY <1>2, FaultTyped DEF TypeOK, PowerCut, Images
<1>3. CASE SwitchOff
  BY <1>3 DEF TypeOK, SwitchOff
<1>4. CASE StageUpdate
  BY <1>4, StagedAssumption, BoundAssumption
     DEF TypeOK, StageUpdate, Edit, StagedAssumption, BoundAssumption
<1>5. CASE ReplaceImages
  <2>1. edits' \in 0 .. MaxEdits
    BY <1>5, BoundAssumption DEF TypeOK, ReplaceImages, Edit, BoundAssumption
  <2>2. file' \in FileModes /\ good' \in SUBSET {"boot", "rocky"} /\ full' \in SUBSET Banks
    BY <1>5, StagedAssumption DEF TypeOK, ReplaceImages, StagedAssumption
  <2>3. QED BY <1>5, <2>1, <2>2 DEF TypeOK, ReplaceImages
<1>6. QED BY <1>1, <1>2, <1>3, <1>4, <1>5 DEF Environment

(* Every step keeps the types. *)
LEMMA TypeStep == TypeOK /\ [Next]_vars => TypeOK'
<1>1. ASSUME TypeOK, UNCHANGED vars PROVE TypeOK'
  BY <1>1 DEF TypeOK, vars, disk, site, ramvars
<1>2. QED BY <1>1, FsblTypes, SsblTypes, EnvironmentTypes DEF Next

(* The header, the base answer, the files and everything the loaders keep  *)
(* in RAM stay in their types through every boot.                          *)
THEOREM TypeCorrect == Spec => []TypeOK
BY TypeInit, TypeStep, PTL DEF Spec

-----------------------------------------------------------------------------
(* The step invariant, action by action. *)

(* Nothing is claimed of a machine that is switched off. *)
LEMMA ChainInit == Init => ChainInv
BY DEF Init, ChainInv, FsblKnows, SsblKnows, ModeKnown, NoPendingWorkAtHandoff,
       FsblSteps, SsblSteps, AfterScan, AfterVerify, AfterDice

(* FSBL: what RAM says of the disk, and the checks passed so far. *)
LEMMA FsblChain ==
  ASSUME TypeOK, ChainInv, FSBL_Next
  PROVE  ChainInv'
<1> USE DEF ChainInv, FsblKnows, SsblKnows, ModeKnown, NoPendingWorkAtHandoff,
            FsblSteps, SsblSteps, RestSteps, AfterScan, AfterVerify, AfterDice,
            disk, site, ramvars
<1>1. CASE FSBL_Scan
  BY <1>1 DEF FSBL_Scan
<1>2. CASE FSBL_Verify
  BY <1>2 DEF FSBL_Verify
<1>3. CASE FSBL_DiceKeysGen
  BY <1>3 DEF FSBL_DiceKeysGen
<1>4. CASE FSBL_BootMode
  <2>1. hdr' = hdr /\ pc' \in {"fsbl_copy", "fsbl_start", "fsbl_errdone", "hang"}
    BY <1>4, HeaderWriteRefused DEF FSBL_BootMode, KeyModeToNormal
  <2>2. QED BY <1>4, <2>1 DEF FSBL_BootMode
<1>5. CASE FSBL_ReadBank
  BY <1>5 DEF FSBL_ReadBank
<1>6. CASE FSBL_WriteFile
  BY <1>6 DEF FSBL_WriteFile
<1>7. CASE FSBL_StartSSBL
  BY <1>7 DEF FSBL_StartSSBL, FreshRam
<1>8. CASE FSBL_Errdone
  <2>1. hdr' = hdr /\ pc' \in {"off", "firmware", "hang"}
    BY <1>8, HeaderWriteRefused DEF FSBL_Errdone, KeyModeToNormal
  <2>2. QED BY <1>8, <2>1 DEF FSBL_Errdone
<1>9. QED BY <1>1, <1>2, <1>3, <1>4, <1>5, <1>6, <1>7, <1>8 DEF FSBL_Next

(* A reset puts the machine at a step of which nothing is known. *)
LEMMA RestartChain ==
  ASSUME Restart("fsbl_scan")
  PROVE  ChainInv'
BY DEF Restart, ChainInv, FsblKnows, SsblKnows, ModeKnown, NoPendingWorkAtHandoff,
       FsblSteps, SsblSteps, AfterScan, AfterVerify, AfterDice

(* Neither is anything known of a machine at rest outside the system. *)
LEMMA RestChain ==
  ASSUME pc' \in {"off", "firmware", "hang"}
  PROVE  ChainInv'
BY DEF ChainInv, FsblKnows, SsblKnows, ModeKnown, NoPendingWorkAtHandoff,
       FsblSteps, SsblSteps, AfterScan, AfterVerify, AfterDice

(* SSBL: each step hands on what the next one relies on. *)
LEMMA SsblChain ==
  ASSUME TypeOK, ChainInv, SSBL_Next
  PROVE  ChainInv'
<1> USE DEF ChainInv, FsblKnows, SsblKnows, ModeKnown, NoPendingWorkAtHandoff,
            FsblSteps, SsblSteps, RestSteps, AfterScan, AfterVerify, AfterDice,
            disk, site, ramvars
<1>1. CASE SSBL_Scan
  BY <1>1 DEF SSBL_Scan
<1>2. CASE SSBL_Verify
  BY <1>2 DEF SSBL_Verify
<1>3. CASE SSBL_DiceKeysGen
  BY <1>3 DEF SSBL_DiceKeysGen
<1>4. CASE SSBL_BootMode
  <2>1. /\ pc' \in {"ssbl_normal", "ssbl_factory", "ssbl_migkey", "ssbl_check", "grub"}
        /\ pc' = "ssbl_normal" => mode' = BOOT_MODE_NORMAL
        /\ pc' = "ssbl_migkey" => mode' = BOOT_MODE_UPDATE
        /\ pc' = "ssbl_check" => mode' = BOOT_MODE_RECOVERY
        /\ pc' = "grub" => mode' \notin {BOOT_MODE_NORMAL, BOOT_MODE_UPDATE,
                                       BOOT_MODE_RECOVERY, BOOT_MODE_FACTORY}
    BY <1>4 DEF SSBL_BootMode, ModeStep
  <2>2. /\ hdr.bm # 0 => mode' = hdr.bm
        /\ hdr.bm = 0 => mode' \in FileModes
    BY <1>4 DEF SSBL_BootMode, TypeOK, FileModes
  <2>3. UNCHANGED <<disk, site, blk, ram, cur, prev, sel, img, bm, km, st, ret, heap, done>>
    BY <1>4 DEF SSBL_BootMode
  <2>4. QED
    BY <1>4, <2>1, <2>2, <2>3
    DEF SSBL_BootMode, FileModes, BOOT_MODE_NONE, BOOT_MODE_NORMAL, BOOT_MODE_UPDATE,
        BOOT_MODE_RECOVERY, BOOT_MODE_FACTORY, BOOT_MODE_UNKNOWN
<1>5. CASE SSBL_Normal
  <2>1. hdr' \in {hdr, WithModes(BOOT_MODE_NORMAL, KEY_MODE_NORMAL)}
    BY <1>5, ModesTyped, ModeChangeTyped DEF SSBL_Normal
  <2>2. /\ hdr'.pres = hdr.pres
        /\ ram'.pres = ram.pres
        /\ hdr'.bm \in {hdr.bm, BOOT_MODE_NORMAL}
    BY <1>5, <2>1, ModesTyped, WithModesTyped DEF SSBL_Normal, TypeOK
  <2>3. QED BY <1>5, <2>2 DEF SSBL_Normal
<1>6. CASE SSBL_Factory
  BY <1>6 DEF SSBL_Factory
<1>7. CASE SSBL_MigrationKey
  BY <1>7 DEF SSBL_MigrationKey
<1>8. CASE SSBL_SecureBootCheck
  BY <1>8
  DEF SSBL_SecureBootCheck, BOOT_MODE_NONE, BOOT_MODE_NORMAL, BOOT_MODE_UPDATE,
      BOOT_MODE_RECOVERY, BOOT_MODE_FACTORY, NRMA, ABNRAM
<1>9. CASE SSBL_UpdateProcessing
  BY <1>9 DEF SSBL_UpdateProcessing
<1>10. CASE SSBL_ResetScenario
  BY <1>10, RestartChain DEF SSBL_ResetScenario, ChangeAndReboot, Reboot
<1>11. CASE SSBL_RecoveryProcessing
  <2>1. CASE st = ABNRAM
    BY <1>11, <2>1, RestartChain DEF SSBL_RecoveryProcessing, ChangeAndReboot, Reboot
  <2>2. CASE st # ABNRAM
    BY <1>11, <2>2, RestChain
    DEF SSBL_RecoveryProcessing, Shutdown, SBC_BaseAnswerEncryptStore, Applied
  <2>3. QED BY <2>1, <2>2
<1>12. CASE SSBL_RecoveryCommit
  BY <1>12, RestartChain, RestChain DEF SSBL_RecoveryCommit, Reboot, Shutdown
<1>13. CASE SSBL_StartGrub
  BY <1>13 DEF SSBL_StartGrub
<1>14. CASE SSBL_Errdone
  BY <1>14, RestChain DEF SSBL_Errdone, Shutdown
<1>15. QED
  BY <1>1, <1>2, <1>3, <1>4, <1>5, <1>6, <1>7, <1>8, <1>9, <1>10, <1>11, <1>12, <1>13, <1>14
  DEF SSBL_Next

(* Power cuts drop the RAM; tools act at rest only. *)
LEMMA EnvironmentChain ==
  ASSUME TypeOK, ChainInv, Environment
  PROVE  ChainInv'
<1>1. CASE PowerOn
  BY <1>1, RestartChain DEF PowerOn
<1>2. CASE PowerCut
  BY <1>2, RestChain DEF PowerCut
<1>3. CASE SwitchOff
  BY <1>3, RestChain DEF SwitchOff
<1>4. CASE StageUpdate \/ ReplaceImages
  BY <1>4
  DEF StageUpdate, ReplaceImages, ChainInv, FsblKnows, SsblKnows, ModeKnown,
      NoPendingWorkAtHandoff, FsblSteps, SsblSteps, AfterScan, AfterVerify, AfterDice,
      disk, site, ramvars
<1>5. QED BY <1>1, <1>2, <1>3, <1>4 DEF Environment

(* Every step keeps the step invariant. *)
LEMMA ChainStep == TypeOK /\ ChainInv /\ [Next]_vars => ChainInv'
<1>1. ASSUME ChainInv, UNCHANGED vars PROVE ChainInv'
  BY <1>1
  DEF vars, disk, site, ramvars, ChainInv, FsblKnows, SsblKnows, ModeKnown,
      NoPendingWorkAtHandoff
<1>2. QED BY <1>1, FsblChain, SsblChain, EnvironmentChain DEF Next

(* In every boot, at every step of the two UefiMain functions, RAM agrees  *)
(* with the disk and the checks before that step have been passed.         *)
THEOREM ChainCorrect == Spec => []ChainInv
BY ChainInit, ChainStep, TypeCorrect, PTL DEF Spec

-----------------------------------------------------------------------------
(* What follows from the step invariant. *)

(* GRUB and the system are reached through every verification and every    *)
(* key derivation of the two loaders, in one and the same boot.            *)
THEOREM HandoffCorrect == Spec => []HandoffChecked
<1>1. ChainInv => HandoffChecked
  BY DEF ChainInv, FsblKnows, SsblKnows, HandoffChecked, SsblSteps, AfterScan,
         AfterVerify, AfterDice
<1>2. QED BY <1>1, ChainCorrect, PTL

(* GRUB is not started past an update, a recovery or a factory boot the    *)
(* header asks for.                                                        *)
THEOREM PendingWorkDone == Spec => []NoPendingWorkAtHandoff
<1>1. ChainInv => NoPendingWorkAtHandoff
  BY DEF ChainInv, ModeKnown
<1>2. QED BY <1>1, ChainCorrect, PTL

(* The base answer is sealed from a buffer not yet freed and under a key   *)
(* of this boot.                                                           *)
THEOREM SealsCorrect == Spec => []SealInputsValid
<1>1. ChainInv => SealInputsValid
  BY DEF ChainInv, SsblKnows, ModeKnown, SealInputsValid, SsblSteps, AfterScan,
         AfterVerify, AfterDice
<1>2. QED BY <1>1, ChainCorrect, PTL

-----------------------------------------------------------------------------
(* The raw device, action by action. *)

(* A header that agrees with the disk and takes new modes is the disk's    *)
(* header with those modes.                                                *)
LEMMA ModesOfDisk ==
  ASSUME TypeOK, ram = hdr, NEW b \in UINT16, NEW k \in UINT16
  PROVE  /\ WithModes(b, k) = [hdr EXCEPT !.bm = b, !.km = k]
         /\ WithModes(b, k).pres = hdr.pres
BY WithModesTyped DEF WithModes, TypeOK

(* FSBL leaves the raw device alone: the header it writes back with key    *)
(* mode normal is refused.                                                 *)
LEMMA FsblDisk ==
  ASSUME TypeOK, FSBL_Next
  PROVE  UNCHANGED <<hdr, ans>>
<1> USE DEF disk
<1>1. CASE FSBL_BootMode
  BY <1>1, HeaderWriteRefused DEF FSBL_BootMode, KeyModeToNormal
<1>2. CASE FSBL_Errdone
  BY <1>2, HeaderWriteRefused DEF FSBL_Errdone, KeyModeToNormal
<1>3. QED
  BY <1>1, <1>2
  DEF FSBL_Next, FSBL_Scan, FSBL_Verify, FSBL_DiceKeysGen, FSBL_ReadBank, FSBL_WriteFile,
      FSBL_StartSSBL

(* The ways a step of SSBL changes the raw device. *)
LEMMA SsblDisk ==
  ASSUME TypeOK, ChainInv, SSBL_Next
  PROVE  \/ UNCHANGED <<hdr, ans>>
         \/ /\ hdr.bm \in {BOOT_MODE_NONE, BOOT_MODE_NORMAL} \/ (hdr.bm = BOOT_MODE_RECOVERY /\ ans = "osid")
            /\ hdr' = [hdr EXCEPT !.bm = BOOT_MODE_NORMAL, !.km = KEY_MODE_NORMAL]
            /\ ans' = ans /\ hdr'.pres = hdr.pres
         \/ /\ hdr.bm \in {BOOT_MODE_NONE, BOOT_MODE_UPDATE}
            /\ hdr' = [hdr EXCEPT !.bm = BOOT_MODE_RECOVERY, !.km = KEY_MODE_NORMAL]
            /\ ans' = ans /\ hdr'.pres = hdr.pres
         \/ hdr.bm \in {BOOT_MODE_NONE, BOOT_MODE_UPDATE} /\ ans' = "migid" /\ hdr' = hdr
         \/ hdr.bm = BOOT_MODE_RECOVERY /\ ans' = "osid" /\ hdr' = hdr
<1> USE DEF disk, ChainInv, SsblKnows, ModeKnown, AfterScan, AfterVerify, AfterDice, SsblSteps
<1>1. CASE SSBL_Normal
  <2>1. ram = hdr /\ hdr.bm \in {BOOT_MODE_NONE, BOOT_MODE_NORMAL} /\ ans' = ans
    BY <1>1 DEF SSBL_Normal
  <2>2. hdr' \in {hdr, WithModes(BOOT_MODE_NORMAL, KEY_MODE_NORMAL)}
    BY <1>1, ModesTyped, ModeChangeTyped DEF SSBL_Normal
  <2>3. /\ WithModes(BOOT_MODE_NORMAL, KEY_MODE_NORMAL) = [hdr EXCEPT !.bm = BOOT_MODE_NORMAL, !.km = KEY_MODE_NORMAL]
        /\ WithModes(BOOT_MODE_NORMAL, KEY_MODE_NORMAL).pres = hdr.pres
    BY <2>1, ModesTyped, ModesOfDisk
  <2>4. QED BY <2>1, <2>2, <2>3
<1>2. CASE SSBL_SecureBootCheck
  BY <1>2 DEF SSBL_SecureBootCheck, NRMA, ABNRAM
<1>3. CASE SSBL_UpdateProcessing
  BY <1>3 DEF SSBL_UpdateProcessing, SBC_BaseAnswerEncryptStore
<1>4. CASE SSBL_ResetScenario
  <2>1. ram = hdr /\ hdr.bm \in {BOOT_MODE_NONE, BOOT_MODE_UPDATE} /\ ans' = ans
        /\ st = NRMA /\ km = KEY_MODE_NORMAL
    BY <1>4 DEF SSBL_ResetScenario
  <2>2. ResetTarget = <<BOOT_MODE_RECOVERY, KEY_MODE_NORMAL>>
    BY <2>1 DEF ResetTarget
  <2>3. \E o \in HeaderOutcomes :
           SBC_BootKeyModeChange(o, BOOT_MODE_RECOVERY, KEY_MODE_NORMAL)
    BY <1>4, <2>1, <2>2 DEF SSBL_ResetScenario, ChangeAndReboot, NoTarget
  <2>4. hdr' \in {hdr, WithModes(BOOT_MODE_RECOVERY, KEY_MODE_NORMAL)}
    BY <2>3, ModesTyped, ModeChangeTyped
  <2>5. /\ WithModes(BOOT_MODE_RECOVERY, KEY_MODE_NORMAL) = [hdr EXCEPT !.bm = BOOT_MODE_RECOVERY, !.km = KEY_MODE_NORMAL]
        /\ WithModes(BOOT_MODE_RECOVERY, KEY_MODE_NORMAL).pres = hdr.pres
    BY <2>1, ModesTyped, ModesOfDisk
  <2>6. QED BY <2>1, <2>4, <2>5
<1>5. CASE SSBL_RecoveryProcessing
  <2>1. st # ABNRAM /\ hdr.bm = BOOT_MODE_RECOVERY
    BY <1>5 DEF SSBL_RecoveryProcessing, NRMA, ABNRAM
  <2>2. QED BY <1>5, <2>1 DEF SSBL_RecoveryProcessing, SBC_BaseAnswerEncryptStore
<1>6. CASE SSBL_RecoveryCommit
  <2>1. ram = hdr /\ hdr.bm = BOOT_MODE_RECOVERY /\ ans = "osid" /\ ans' = ans /\ st = NRMA
    BY <1>6 DEF SSBL_RecoveryCommit
  <2>2. RecoveryTarget \in {NoTarget, <<BOOT_MODE_NORMAL, KEY_MODE_NORMAL>>}
    BY <2>1 DEF RecoveryTarget
  <2>3. CASE RecoveryTarget = NoTarget
    BY <1>6, <2>1, <2>3 DEF SSBL_RecoveryCommit
  <2>4. CASE RecoveryTarget # NoTarget
    <3>1. \E o \in HeaderOutcomes :
             SBC_BootKeyModeChange(o, BOOT_MODE_NORMAL, KEY_MODE_NORMAL)
      BY <1>6, <2>2, <2>4 DEF SSBL_RecoveryCommit
    <3>2. hdr' \in {hdr, WithModes(BOOT_MODE_NORMAL, KEY_MODE_NORMAL)}
      BY <3>1, ModesTyped, ModeChangeTyped
    <3>3. /\ WithModes(BOOT_MODE_NORMAL, KEY_MODE_NORMAL) = [hdr EXCEPT !.bm = BOOT_MODE_NORMAL, !.km = KEY_MODE_NORMAL]
          /\ WithModes(BOOT_MODE_NORMAL, KEY_MODE_NORMAL).pres = hdr.pres
      BY <2>1, ModesTyped, ModesOfDisk
    <3>4. QED BY <2>1, <3>2, <3>3
  <2>5. QED BY <2>3, <2>4
<1>7. QED
  BY <1>1, <1>2, <1>3, <1>4, <1>5, <1>6
  DEF SSBL_Next, SSBL_Scan, SSBL_Verify, SSBL_DiceKeysGen, SSBL_BootMode, SSBL_Factory,
      SSBL_MigrationKey, SSBL_StartGrub, SSBL_Errdone

(* Around the loaders, only the update tool writes the header. *)
LEMMA EnvironmentDisk ==
  ASSUME Environment
  PROVE  \/ UNCHANGED <<hdr, ans>>
         \/ /\ pc = "os" /\ ans' = ans
            /\ hdr.bm \notin {BOOT_MODE_UPDATE, BOOT_MODE_RECOVERY, BOOT_MODE_FACTORY}
            /\ hdr' \in Header /\ hdr'.bm = BOOT_MODE_UPDATE
BY StagedAssumption
DEF StagedAssumption, Environment, PowerOn, PowerCut, SwitchOff, StageUpdate, ReplaceImages, disk

(* No step of a loader moves the bank selection, whatever header a failed  *)
(* scan left in its RAM.                                                   *)
THEOREM BanksKept == Spec => BankSelectionKept
<1>1. ASSUME TypeOK, ChainInv, [Next]_vars
      PROVE  [pc # "os" => hdr'.pres = hdr.pres]_vars
  BY <1>1, FsblDisk, SsblDisk, EnvironmentDisk DEF Next
<1>2. QED BY <1>1, TypeCorrect, ChainCorrect, PTL DEF Spec, BankSelectionKept

(* Refinement: every step of the chain is a step of the mode machine or    *)
(* leaves the header and the base answer alone.                            *)
THEOREM Refinement == Spec => ModeSpec
<1>1. Init => Modes!Init
  BY DEF Init, Modes!Init
<1>2. ASSUME TypeOK, ChainInv, [Next]_vars
      PROVE  [Modes!Next]_(Modes!mvars)
  <2> USE DEF Modes!mvars, Modes!BOOT_MODE_NONE, Modes!BOOT_MODE_NORMAL,
        Modes!BOOT_MODE_UPDATE, Modes!BOOT_MODE_RECOVERY, Modes!BOOT_MODE_FACTORY,
        Modes!KEY_MODE_NORMAL, BOOT_MODE_NONE, BOOT_MODE_NORMAL, BOOT_MODE_UPDATE,
        BOOT_MODE_RECOVERY, BOOT_MODE_FACTORY, KEY_MODE_NORMAL
  <2>1. CASE FSBL_Next
    BY <1>2, <2>1, FsblDisk
  <2>2. CASE SSBL_Next
    BY <1>2, <2>2, SsblDisk
    DEF Modes!Next, Modes!EnterNormal, Modes!EnterRecovery, Modes!SealForUpdate,
        Modes!SealForNormal
  <2>3. CASE Environment
    <3>1. Header = Modes!Header
      BY DEF Modes!Header, Header, Modes!Pres, Pres, Modes!Entry, Entry, Modes!UINT16, UINT16,
             Modes!MAX_UINT16, MAX_UINT16
    <3>2. QED BY <2>3, <3>1, EnvironmentDisk DEF Modes!Next, Modes!Stage
  <2>4. CASE UNCHANGED vars
    BY <2>4 DEF vars, disk
  <2>5. QED BY <1>2, <2>1, <2>2, <2>3, <2>4 DEF Next
<1>3. QED BY <1>1, <1>2, TypeCorrect, ChainCorrect, PTL DEF Spec, ModeSpec, Modes!Spec

-----------------------------------------------------------------------------
(* Progress towards rest. *)

LEMMA StepNumbers ==
  /\ \A p \in RestSteps : StepsLeft(p) = 0
  /\ StepsLeft("fsbl_errdone") = 1 /\ StepsLeft("ssbl_errdone") = 1 /\ StepsLeft("grub") = 1
  /\ StepsLeft("ssbl_reset") = 2 /\ StepsLeft("ssbl_commit") = 2
  /\ StepsLeft("ssbl_update") = 3 /\ StepsLeft("ssbl_recovery") = 3
  /\ StepsLeft("ssbl_check") = 4 /\ StepsLeft("ssbl_normal") = 5
  /\ StepsLeft("ssbl_factory") = 5 /\ StepsLeft("ssbl_migkey") = 5
  /\ StepsLeft("ssbl_mode") = 6 /\ StepsLeft("ssbl_dice") = 7
  /\ StepsLeft("ssbl_verify") = 8 /\ StepsLeft("ssbl_scan") = 9
  /\ StepsLeft("fsbl_start") = 10 /\ StepsLeft("fsbl_write") = 11
  /\ StepsLeft("fsbl_copy") = 12 /\ StepsLeft("fsbl_mode") = 13
  /\ StepsLeft("fsbl_dice") = 14 /\ StepsLeft("fsbl_verify") = 15
  /\ StepsLeft("fsbl_scan") = 16
BY DEF StepsLeft, RestSteps

LEMMA StepRange ==
  ASSUME NEW p \in FsblSteps \cup SsblSteps \cup RestSteps
  PROVE  StepsLeft(p) \in 0 .. 16
BY StepNumbers DEF FsblSteps, SsblSteps

(* The modes between a boot mode and normal mode. *)
ModesLeft(b) ==
  IF b \in {BOOT_MODE_NONE, BOOT_MODE_UPDATE} THEN 2
  ELSE IF b = BOOT_MODE_RECOVERY THEN 1 ELSE 0

(* A step that costs a fault, or a mode, or a step and nothing else. *)
LEMMA RankFalls ==
  ASSUME TypeOK, TypeOK', faults <= faults', ModesLeft(hdr'.bm) <= ModesLeft(hdr.bm),
         \/ faults < faults'
         \/ ModesLeft(hdr'.bm) < ModesLeft(hdr.bm)
         \/ StepsLeft(pc') < StepsLeft(pc)
  PROVE  BootRank' < BootRank
<1>1. faults \in Nat /\ faults' \in Nat /\ MaxFaults \in Nat
  BY BoundAssumption DEF TypeOK
<1>2. StepsLeft(pc) \in 0 .. 16 /\ StepsLeft(pc') \in 0 .. 16
  BY StepRange DEF TypeOK
<1>3. ModesLeft(hdr.bm) \in 0 .. 2 /\ ModesLeft(hdr'.bm) \in 0 .. 2
  BY DEF ModesLeft
<1>4. /\ BootRank = 17 * ((MaxFaults - faults) + ModesLeft(hdr.bm)) + StepsLeft(pc)
      /\ BootRank' = 17 * ((MaxFaults - faults') + ModesLeft(hdr'.bm)) + StepsLeft(pc')
  BY DEF BootRank, ResetsLeft, ModesLeft
<1>5. QED BY <1>1, <1>2, <1>3, <1>4

(* The mode machine goes one way. *)
LEMMA ModesFall ==
  ASSUME TypeOK, ChainInv, SSBL_Next
  PROVE  ModesLeft(hdr'.bm) <= ModesLeft(hdr.bm)
<1>1. hdr \in Header BY DEF TypeOK
<1>2. /\ [hdr EXCEPT !.bm = BOOT_MODE_NORMAL, !.km = KEY_MODE_NORMAL].bm = BOOT_MODE_NORMAL
      /\ [hdr EXCEPT !.bm = BOOT_MODE_RECOVERY, !.km = KEY_MODE_NORMAL].bm = BOOT_MODE_RECOVERY
  BY <1>1 DEF Header
<1>3. \/ hdr'.bm = hdr.bm
      \/ hdr'.bm = BOOT_MODE_NORMAL
      \/ hdr'.bm = BOOT_MODE_RECOVERY /\ hdr.bm \in {BOOT_MODE_NONE, BOOT_MODE_UPDATE}
  BY <1>2, SsblDisk
<1>4. QED
  BY <1>3 DEF ModesLeft, BOOT_MODE_NONE, BOOT_MODE_NORMAL, BOOT_MODE_UPDATE, BOOT_MODE_RECOVERY

(* Each step of FSBL is nearer to rest than the one before. *)
LEMMA FsblProgress ==
  ASSUME TypeOK, FSBL_Next
  PROVE  hdr' = hdr /\ faults <= faults' /\ StepsLeft(pc') < StepsLeft(pc)
<1>1. hdr' = hdr BY FsblDisk
<1>2. faults \in Nat BY BoundAssumption DEF TypeOK
<1> USE <1>1, <1>2, StepNumbers DEF RestSteps, NoFault, Fault, Succeeds, Fails
<1>3. CASE FSBL_Scan BY <1>3 DEF FSBL_Scan
<1>4. CASE FSBL_Verify BY <1>4 DEF FSBL_Verify
<1>5. CASE FSBL_DiceKeysGen BY <1>5 DEF FSBL_DiceKeysGen
<1>6. CASE FSBL_BootMode
  <2>1. faults' = faults /\ pc' \in {"fsbl_copy", "fsbl_start", "fsbl_errdone", "hang"}
    BY <1>6, HeaderWriteRefused DEF FSBL_BootMode, KeyModeToNormal
  <2>2. pc = "fsbl_mode" BY <1>6 DEF FSBL_BootMode
  <2>3. QED BY <1>1, <2>1, <2>2
<1>7. CASE FSBL_ReadBank BY <1>7 DEF FSBL_ReadBank
<1>8. CASE FSBL_WriteFile BY <1>8 DEF FSBL_WriteFile
<1>9. CASE FSBL_StartSSBL BY <1>9 DEF FSBL_StartSSBL
<1>10. CASE FSBL_Errdone
  <2>1. faults' = faults /\ pc' \in {"off", "firmware", "hang"}
    BY <1>10, HeaderWriteRefused DEF FSBL_Errdone, KeyModeToNormal
  <2>2. pc = "fsbl_errdone" BY <1>10 DEF FSBL_Errdone
  <2>3. QED BY <1>1, <2>1, <2>2
<1>11. QED
  BY <1>1, <1>3, <1>4, <1>5, <1>6, <1>7, <1>8, <1>9, <1>10 DEF FSBL_Next

(* SSBL has the device: a change of mode costs a fault or reaches it. *)
LEMMA ChangeCounts ==
  ASSUME TypeOK, blk = RAW, ram = hdr, NEW o \in HeaderOutcomes,
         NEW b \in UINT16, NEW k \in UINT16, SBC_BootKeyModeChange(o, b, k)
  PROVE  /\ faults <= faults'
         /\ faults < faults' \/ (o = "done" /\ hdr'.bm = b /\ hdr'.km = k /\ hdr'.pres = hdr.pres)
<1>1. o \in {"done", "lost", "late"}
  BY DEF HeaderOutcomes, WriteOutcomes, WholeBlocks, SBC_RAWPRT_DFLT_BLK_SZ, RAW, NULL
<1>2. faults \in Nat BY BoundAssumption DEF TypeOK
<1>3. CASE o = "done"
  <2>1. hdr' = WithModes(b, k) /\ faults' = faults
    BY <1>2, <1>3 DEF SBC_BootKeyModeChange, Applied, Cost
  <2>2. QED BY <1>2, <1>3, <2>1, WithModesTyped DEF TypeOK
<1>4. CASE o \in {"lost", "late"}
  BY <1>2, <1>4 DEF SBC_BootKeyModeChange, Cost
<1>5. QED BY <1>1, <1>3, <1>4

(* Each step of SSBL is nearer to rest than the one before, or resets the  *)
(* machine and has a fault or a mode less before it.                       *)
LEMMA SsblProgress ==
  ASSUME TypeOK, ChainInv, SSBL_Next
  PROVE  /\ faults <= faults'
         /\ \/ StepsLeft(pc') < StepsLeft(pc)
            \/ faults < faults'
            \/ ModesLeft(hdr'.bm) < ModesLeft(hdr.bm)
<1>1. faults \in Nat BY BoundAssumption DEF TypeOK
<1> USE <1>1, StepNumbers DEF RestSteps, NoFault, Fault, Succeeds, Fails
<1>2. CASE SSBL_Scan BY <1>2 DEF SSBL_Scan
<1>3. CASE SSBL_Verify BY <1>3 DEF SSBL_Verify
<1>4. CASE SSBL_DiceKeysGen BY <1>4 DEF SSBL_DiceKeysGen
<1>5. CASE SSBL_BootMode BY <1>5 DEF SSBL_BootMode, ModeStep
<1>6. CASE SSBL_Normal
  <2>1. faults <= faults'
    BY <1>6 DEF SSBL_Normal, SBC_BootKeyModeChange, Cost
  <2>2. QED BY <1>6, <2>1 DEF SSBL_Normal
<1>7. CASE SSBL_Factory BY <1>7 DEF SSBL_Factory
<1>8. CASE SSBL_MigrationKey BY <1>8 DEF SSBL_MigrationKey
<1>9. CASE SSBL_SecureBootCheck
  <2>1. st = NRMA
    BY <1>9 DEF SSBL_SecureBootCheck, ChainInv, SsblKnows, AfterScan, SsblSteps
  <2>2. QED BY <1>9, <2>1 DEF SSBL_SecureBootCheck, NRMA, ABNRAM
<1>10. CASE SSBL_UpdateProcessing
  <2>1. faults <= faults'
    BY <1>10 DEF SSBL_UpdateProcessing, SBC_BaseAnswerEncryptStore, Cost
  <2>2. QED BY <1>10, <2>1 DEF SSBL_UpdateProcessing
<1>11. CASE SSBL_ResetScenario
  <2>1. /\ km = KEY_MODE_NORMAL /\ st = NRMA /\ blk = RAW /\ ram = hdr
        /\ hdr.bm \in {BOOT_MODE_NONE, BOOT_MODE_UPDATE}
    BY <1>11 DEF SSBL_ResetScenario, ChainInv, SsblKnows, ModeKnown, AfterScan, SsblSteps
  <2>2. \E o \in HeaderOutcomes : SBC_BootKeyModeChange(o, BOOT_MODE_RECOVERY, KEY_MODE_NORMAL)
    BY <1>11, <2>1 DEF SSBL_ResetScenario, ChangeAndReboot, ResetTarget, NoTarget
  <2>3. faults <= faults' /\ (faults < faults' \/ hdr'.bm = BOOT_MODE_RECOVERY)
    BY <2>1, <2>2, ChangeCounts, ModesTyped
  <2>4. QED
    BY <2>1, <2>3 DEF ModesLeft, BOOT_MODE_NONE, BOOT_MODE_UPDATE, BOOT_MODE_RECOVERY
<1>12. CASE SSBL_RecoveryProcessing
  <2>1. st = NRMA /\ pc = "ssbl_recovery"
    BY <1>12 DEF SSBL_RecoveryProcessing, ChainInv, SsblKnows, AfterScan, SsblSteps
  <2>2. faults <= faults' /\ pc' \in {"ssbl_commit", "off"}
    BY <1>12, <2>1
    DEF SSBL_RecoveryProcessing, SBC_BaseAnswerEncryptStore, Cost, Shutdown, NRMA, ABNRAM
  <2>3. QED BY <2>1, <2>2
<1>13. CASE SSBL_RecoveryCommit
  <2>1. /\ st = NRMA /\ blk = RAW /\ ram = hdr /\ hdr.bm = BOOT_MODE_RECOVERY
        /\ pc = "ssbl_commit"
    BY <1>13 DEF SSBL_RecoveryCommit, ChainInv, SsblKnows, ModeKnown, AfterScan, SsblSteps
  <2>2. RecoveryTarget \in {NoTarget, <<BOOT_MODE_NORMAL, KEY_MODE_NORMAL>>}
    BY <2>1 DEF RecoveryTarget
  <2>3. CASE RecoveryTarget = NoTarget
    BY <1>13, <2>1, <2>3 DEF SSBL_RecoveryCommit, Shutdown
  <2>4. CASE RecoveryTarget # NoTarget
    <3>1. PICK o \in HeaderOutcomes :
             /\ SBC_BootKeyModeChange(o, BOOT_MODE_NORMAL, KEY_MODE_NORMAL)
             /\ IF o = "done" THEN Reboot ELSE Shutdown
      BY <1>13, <2>2, <2>4 DEF SSBL_RecoveryCommit
    <3>2. faults <= faults' /\ (faults < faults' \/ hdr'.bm = BOOT_MODE_NORMAL)
      BY <2>1, <3>1, ChangeCounts, ModesTyped
    <3>3. QED BY <2>1, <3>2 DEF ModesLeft, BOOT_MODE_NONE, BOOT_MODE_NORMAL,
                                BOOT_MODE_UPDATE, BOOT_MODE_RECOVERY
  <2>5. QED BY <2>3, <2>4
<1>14. CASE SSBL_StartGrub BY <1>14 DEF SSBL_StartGrub
<1>15. CASE SSBL_Errdone BY <1>15 DEF SSBL_Errdone, Shutdown
<1>16. QED
  BY <1>2, <1>3, <1>4, <1>5, <1>6, <1>7, <1>8, <1>9, <1>10, <1>11, <1>12, <1>13, <1>14, <1>15
  DEF SSBL_Next

(* No reboot loop, for any headers and any number of faults: every step of *)
(* a loader, and a power cut, lowers a number that bounds the steps until  *)
(* the machine is off, in the system, in the platform firmware or stopped. *)
THEOREM BootEnds == Spec => BootProgress
<1>1. ASSUME TypeOK, TypeOK', ChainInv, [Next]_vars
      PROVE  [pc \notin RestSteps => BootRank' < BootRank]_vars
  <2> SUFFICES ASSUME pc \notin RestSteps, Next PROVE BootRank' < BootRank
    BY <1>1
  <2>1. CASE FSBL_Next
    <3>1. ModesLeft(hdr'.bm) <= ModesLeft(hdr.bm)
      BY <1>1, <2>1, FsblProgress DEF ModesLeft
    <3>2. QED BY <1>1, <2>1, <3>1, FsblProgress, RankFalls
  <2>2. CASE SSBL_Next
    BY <1>1, <2>2, SsblProgress, ModesFall, RankFalls
  <2>3. CASE Environment
    <3>1. PowerCut
      BY <2>3 DEF Environment, PowerOn, SwitchOff, StageUpdate, ReplaceImages, RestSteps
    <3>2. hdr' = hdr /\ faults < faults'
      BY <1>1, <3>1, BoundAssumption DEF PowerCut, Fault, disk, TypeOK
    <3>3. ModesLeft(hdr'.bm) <= ModesLeft(hdr.bm) /\ faults <= faults'
      BY <1>1, <3>2, BoundAssumption DEF ModesLeft, TypeOK
    <3>4. QED BY <1>1, <3>2, <3>3, RankFalls
  <2>4. QED BY <2>1, <2>2, <2>3 DEF Next
<1>2. QED BY <1>1, TypeCorrect, ChainCorrect, PTL DEF Spec, BootProgress

-----------------------------------------------------------------------------
(* Out of factory mode. *)

(* SBC_SystemControl.c and FSBL's factory case: whatever fails, a machine  *)
(* whose header says factory mode keeps it, with its banks, until a tool   *)
(* under the running system changes the header.                            *)
THEOREM FactoryFinal == Spec => FactoryStays
<1>1. ASSUME TypeOK, ChainInv, [Next]_vars
      PROVE  [pc # "os" => FactoryKept]_vars
  <2> SUFFICES ASSUME hdr.bm = BOOT_MODE_FACTORY, pc # "os", Next PROVE hdr' = hdr
    BY <1>1 DEF FactoryKept
  <2>1. hdr.bm \notin {BOOT_MODE_NONE, BOOT_MODE_NORMAL, BOOT_MODE_UPDATE, BOOT_MODE_RECOVERY}
    BY DEF BOOT_MODE_NONE, BOOT_MODE_NORMAL, BOOT_MODE_UPDATE, BOOT_MODE_RECOVERY,
           BOOT_MODE_FACTORY
  <2>2. QED BY <1>1, <2>1, FsblDisk, SsblDisk, EnvironmentDisk DEF Next
<1>2. QED BY <1>1, TypeCorrect, ChainCorrect, PTL DEF Spec, FactoryStays

-----------------------------------------------------------------------------
(* An update on a healthy site. *)

(* Which banks and which key mode the loaders go by. *)
TrackKnown ==
  /\ pc \in FsblSteps \ {"fsbl_scan"} /\ blk # NULL =>
       cur = CurrBank(ram.pres) /\ prev = FSBL_FindPreviouslyBank(cur)
  /\ pc = "fsbl_copy" => sel \in {cur, prev}
  /\ pc \in AfterScan => cur = CurrBank(hdr.pres) /\ prev = FindPreviouslyBank(cur)
  /\ pc \in {"ssbl_verify", "ssbl_dice", "ssbl_mode", "ssbl_recovery", "ssbl_commit"} => km = hdr.km
  /\ pc = "ssbl_check" /\ bm = BOOT_MODE_RECOVERY => km = hdr.km
  /\ pc = "ssbl_factory" => hdr.bm \notin {BOOT_MODE_UPDATE, BOOT_MODE_RECOVERY}

LEMMA TrackInit == Init => TrackKnown
BY DEF Init, TrackKnown, FsblSteps, SsblSteps, AfterScan

LEMMA RestTrack ==
  ASSUME pc' \in RestSteps \cup {"fsbl_scan", "ssbl_scan", "ssbl_errdone"}
  PROVE  TrackKnown'
BY DEF TrackKnown, FsblSteps, SsblSteps, AfterScan, RestSteps

LEMMA FsblTrack ==
  ASSUME TypeOK, TrackKnown, FSBL_Next
  PROVE  TrackKnown'
<1>1. hdr' = hdr BY FsblDisk
<1> USE DEF TrackKnown, FsblSteps, SsblSteps, AfterScan, RestSteps, disk, site, ramvars
<1>2. CASE FSBL_Scan BY <1>2 DEF FSBL_Scan
<1>3. CASE FSBL_Verify BY <1>3 DEF FSBL_Verify
<1>4. CASE FSBL_DiceKeysGen BY <1>4 DEF FSBL_DiceKeysGen
<1>5. CASE FSBL_BootMode
  <2>1. pc' \in {"fsbl_copy", "fsbl_start", "fsbl_errdone", "hang"}
        /\ (pc' = "fsbl_copy" => sel' \in {cur, prev})
    BY <1>5 DEF FSBL_BootMode, KeyModeToNormal
  <2>2. QED BY <1>1, <1>5, <2>1 DEF FSBL_BootMode
<1>6. CASE FSBL_ReadBank BY <1>6 DEF FSBL_ReadBank
<1>7. CASE FSBL_WriteFile BY <1>7 DEF FSBL_WriteFile
<1>8. CASE FSBL_StartSSBL BY <1>8 DEF FSBL_StartSSBL, FreshRam
<1>9. CASE FSBL_Errdone BY <1>9, RestTrack DEF FSBL_Errdone, KeyModeToNormal
<1>10. QED BY <1>2, <1>3, <1>4, <1>5, <1>6, <1>7, <1>8, <1>9 DEF FSBL_Next

LEMMA SsblTrack ==
  ASSUME TypeOK, ChainInv, TrackKnown, SSBL_Next
  PROVE  TrackKnown'
<1>1. hdr'.pres = hdr.pres BY SsblDisk
<1> USE DEF AfterScan, SsblSteps
<1>2. CASE SSBL_Scan
  BY <1>2 DEF SSBL_Scan, TrackKnown, FsblSteps, disk
<1>3. CASE SSBL_Verify
  BY <1>3 DEF SSBL_Verify, TrackKnown, FsblSteps, disk
<1>4. CASE SSBL_DiceKeysGen
  BY <1>4 DEF SSBL_DiceKeysGen, TrackKnown, FsblSteps, disk
<1>5. CASE SSBL_BootMode
  <2>1. pc' \in {"ssbl_normal", "ssbl_factory", "ssbl_migkey", "ssbl_check", "grub"}
    BY <1>5 DEF SSBL_BootMode, ModeStep
  <2>2. ASSUME pc' = "ssbl_factory" PROVE hdr.bm \notin {BOOT_MODE_UPDATE, BOOT_MODE_RECOVERY}
    <3>1. ram = hdr BY <1>5 DEF SSBL_BootMode, ChainInv, ModeKnown
    <3>2. mode' = BOOT_MODE_FACTORY BY <1>5, <2>2 DEF SSBL_BootMode, ModeStep
    <3>3. hdr.bm \in {0, BOOT_MODE_FACTORY} BY <1>5, <3>1, <3>2 DEF SSBL_BootMode
    <3>4. QED BY <3>3 DEF BOOT_MODE_UPDATE, BOOT_MODE_RECOVERY, BOOT_MODE_FACTORY
  <2>3. QED BY <1>5, <2>1, <2>2 DEF SSBL_BootMode, TrackKnown, FsblSteps, disk
<1>6. CASE SSBL_Normal
  <2>1. bm' # BOOT_MODE_RECOVERY
    BY <1>6 DEF SSBL_Normal, ChainInv, ModeKnown, BOOT_MODE_NONE, BOOT_MODE_NORMAL,
                BOOT_MODE_RECOVERY
  <2>2. QED BY <1>1, <1>6, <2>1 DEF SSBL_Normal, TrackKnown, FsblSteps
<1>7. CASE SSBL_Factory
  BY <1>7, RestTrack DEF SSBL_Factory, RestSteps
<1>8. CASE SSBL_MigrationKey
  BY <1>8 DEF SSBL_MigrationKey, TrackKnown, FsblSteps, disk, BOOT_MODE_UPDATE, BOOT_MODE_RECOVERY
<1>9. CASE SSBL_SecureBootCheck
  <2>1. st = NRMA
    BY <1>9 DEF SSBL_SecureBootCheck, ChainInv, SsblKnows
  <2>2. UNCHANGED <<hdr, ramvars>>
    BY <1>9, <2>1 DEF SSBL_SecureBootCheck, NRMA, ABNRAM
  <2>3. /\ pc' \in {"ssbl_recovery", "ssbl_update", "grub", "ssbl_errdone"}
        /\ pc' = "ssbl_recovery" => bm = BOOT_MODE_RECOVERY
    BY <1>9, <2>1 DEF SSBL_SecureBootCheck, NRMA, ABNRAM
  <2>4. QED BY <1>9, <2>2, <2>3 DEF SSBL_SecureBootCheck, TrackKnown, FsblSteps, ramvars
<1>10. CASE SSBL_UpdateProcessing
  BY <1>10 DEF SSBL_UpdateProcessing, TrackKnown, FsblSteps
<1>11. CASE SSBL_ResetScenario
  <2>1. km = KEY_MODE_NORMAL BY <1>11 DEF SSBL_ResetScenario, ChainInv, ModeKnown
  <2>2. QED BY <1>11, <2>1, RestTrack DEF SSBL_ResetScenario, ChangeAndReboot, Reboot, Restart
<1>12. CASE SSBL_RecoveryProcessing
  <2>1. st = NRMA
    BY <1>12 DEF SSBL_RecoveryProcessing, ChainInv, SsblKnows
  <2>2. CASE pc' = "off" BY <2>2, RestTrack DEF RestSteps
  <2>3. CASE pc' # "off"
    BY <1>12, <2>1, <2>3
    DEF SSBL_RecoveryProcessing, Shutdown, NRMA, ABNRAM, TrackKnown, FsblSteps
  <2>4. QED BY <2>2, <2>3
<1>13. CASE SSBL_RecoveryCommit
  BY <1>13, RestTrack DEF SSBL_RecoveryCommit, Reboot, Restart, Shutdown, RestSteps
<1>14. CASE SSBL_StartGrub
  BY <1>14, RestTrack DEF SSBL_StartGrub, RestSteps
<1>15. CASE SSBL_Errdone
  BY <1>15, RestTrack DEF SSBL_Errdone, Shutdown, RestSteps
<1>16. QED
  BY <1>2, <1>3, <1>4, <1>5, <1>6, <1>7, <1>8, <1>9, <1>10, <1>11, <1>12, <1>13, <1>14, <1>15
  DEF SSBL_Next

LEMMA TrackStep == TypeOK /\ ChainInv /\ TrackKnown /\ [Next]_vars => TrackKnown'
<1> SUFFICES ASSUME TypeOK, ChainInv, TrackKnown, [Next]_vars PROVE TrackKnown' OBVIOUS
<1>1. CASE Environment
  <2>1. pc' \in RestSteps \cup {"fsbl_scan"}
    BY <1>1 DEF Environment, PowerOn, PowerCut, SwitchOff, StageUpdate, ReplaceImages, Restart,
                RestSteps
  <2>2. QED BY <2>1, RestTrack
<1>2. CASE UNCHANGED vars
  BY <1>2 DEF vars, disk, ramvars, TrackKnown
<1>3. QED BY <1>1, <1>2, FsblTrack, SsblTrack DEF Next

LEMMA TrackAlways == Spec => []TrackKnown
BY TrackInit, TrackStep, TypeCorrect, ChainCorrect, PTL DEF Spec

(* On a healthy site both banks can be read where the loaders look. *)
LEMMA HealthyBanks ==
  ASSUME Healthy, NEW b \in Banks
  PROVE  SsblReadable(b) /\ FindPreviouslyBank(b) \in Banks /\ FSBL_FindPreviouslyBank(b) \in Banks
<1>1. ImageAt(SsblReadOfs(1)) = "bank1" /\ ImageAt(SsblReadOfs(2)) = "gap"
  BY DEF ImageAt, SsblReadOfs, BOOT_SECTOR_OFS, BOOT_SSBL_OFS, BOOT_FW_IMGMAX
<1>2. "bank1" \in {BankImage(x) : x \in full}
  BY DEF Healthy, Banks, BankImage
<1>3. SsblReadable(1) /\ SsblReadable(2)
  BY <1>1, <1>2 DEF SsblReadable, Healthy
<1>4. QED BY <1>3 DEF Banks, FindPreviouslyBank, FSBL_FindPreviouslyBank

LEMMA FsblUpdates ==
  ASSUME TypeOK, ChainInv, TrackKnown, FSBL_Next, Updating, Healthy, Working, ~(faults' > faults)
  PROVE  Working'
<1>1. faults \in Nat /\ (faults' = faults + 1 => FALSE)
  BY BoundAssumption DEF TypeOK
<1>2. CurrBank(hdr.pres) \in Banks /\ good = {"boot", "rocky"} /\ esp.rocky # "none"
  BY DEF Healthy
<1>3. ~Fault BY <1>1 DEF Fault
<1> USE <1>3 DEF Fails, Succeeds, FsblSteps, SsblSteps, disk, site, ramvars
<1>4. CASE FSBL_Scan
  <2>1. ram' = hdr /\ blk' = RAW /\ cur' = CurrBank(hdr.pres)
        /\ prev' = FSBL_FindPreviouslyBank(cur')
        /\ pc' = (IF prev' < 1 THEN "firmware" ELSE "fsbl_verify")
    BY <1>4 DEF FSBL_Scan
  <2>2. prev' \in Banks BY <1>2, <2>1, HealthyBanks
  <2>3. QED BY <2>1, <2>2 DEF Working, Banks, RAW, NULL
<1>5. CASE FSBL_Verify
  BY <1>2, <1>5 DEF FSBL_Verify, Working
<1>6. CASE FSBL_DiceKeysGen
  BY <1>2, <1>6 DEF FSBL_DiceKeysGen, Working
<1>7. CASE FSBL_BootMode
  <2>1. blk # NULL /\ ram = hdr
    BY <1>7 DEF FSBL_BootMode, Working, ChainInv, FsblKnows
  <2>2. ram.bm \in {BOOT_MODE_UPDATE, BOOT_MODE_RECOVERY}
    BY <2>1 DEF Updating
  <2>3. pc' = "fsbl_copy" /\ blk' = blk
    BY <1>7, <2>2
    DEF FSBL_BootMode, BOOT_MODE_NORMAL, BOOT_MODE_UPDATE, BOOT_MODE_RECOVERY, BOOT_MODE_FACTORY
  <2>4. QED BY <2>1, <2>3 DEF Working
<1>8. CASE FSBL_ReadBank
  <2>1. blk # NULL /\ ram = hdr /\ sel \in {cur, prev} /\ cur = CurrBank(hdr.pres)
        /\ prev = FSBL_FindPreviouslyBank(cur)
    BY <1>8 DEF FSBL_ReadBank, Working, ChainInv, FsblKnows, TrackKnown
  <2>2. sel \in Banks BY <1>2, <2>1, HealthyBanks
  <2>3. SsblReadable(sel) /\ sel > 0 /\ sel < 3
    BY <2>2, HealthyBanks DEF Banks
  <2>4. pc' = "fsbl_write" /\ blk' = blk
    BY <1>8, <2>1, <2>3 DEF FSBL_ReadBank
  <2>5. QED BY <2>1, <2>4 DEF Working
<1>9. CASE FSBL_WriteFile
  BY <1>9 DEF FSBL_WriteFile, Working
<1>10. CASE FSBL_StartSSBL
  BY <1>2, <1>10 DEF FSBL_StartSSBL, Working
<1>11. CASE FSBL_Errdone
  BY <1>11 DEF FSBL_Errdone, Working
<1>12. QED BY <1>4, <1>5, <1>6, <1>7, <1>8, <1>9, <1>10, <1>11 DEF FSBL_Next

LEMMA SsblUpdates ==
  ASSUME TypeOK, ChainInv, TrackKnown, SSBL_Next, Updating, Healthy, Working, ~(faults' > faults)
  PROVE  Working'
<1>1. faults \in Nat /\ (faults' = faults + 1 => FALSE)
  BY BoundAssumption DEF TypeOK
<1>2. CurrBank(hdr.pres) \in Banks /\ good = {"boot", "rocky"} /\ full = Banks
  BY DEF Healthy
<1>3. ~Fault BY <1>1 DEF Fault
<1>4. hdr.bm \in {BOOT_MODE_UPDATE, BOOT_MODE_RECOVERY} BY DEF Updating
<1>5. \A p \in SsblSteps \ {"ssbl_errdone"} : pc' = p => Working'
  BY DEF Working, FsblSteps, SsblSteps
<1>6. pc' = "fsbl_scan" => Working' BY DEF Working, FsblSteps
<1> USE <1>3 DEF Fails, Succeeds, SsblSteps, AfterScan
<1>7. CASE SSBL_Scan BY <1>5, <1>7 DEF SSBL_Scan
<1>8. CASE SSBL_Verify BY <1>2, <1>5, <1>8 DEF SSBL_Verify
<1>9. CASE SSBL_DiceKeysGen
  <2>1. SsblReadable(BOOT_MODE_NORMAL) BY HealthyBanks DEF Banks, BOOT_MODE_NORMAL
  <2>2. QED BY <1>5, <1>9, <2>1 DEF SSBL_DiceKeysGen
<1>10. CASE SSBL_BootMode BY <1>5, <1>10 DEF SSBL_BootMode, ModeStep
<1>11. CASE SSBL_Normal BY <1>5, <1>11 DEF SSBL_Normal
<1>12. CASE SSBL_Factory
  BY <1>4, <1>12 DEF SSBL_Factory, TrackKnown
<1>13. CASE SSBL_MigrationKey
  <2>1. cur \in full
    BY <1>2, <1>13 DEF SSBL_MigrationKey, TrackKnown
  <2>2. QED BY <1>5, <1>13, <2>1 DEF SSBL_MigrationKey
<1>14. CASE SSBL_SecureBootCheck
  <2>1. st = NRMA /\ bm \in {BOOT_MODE_UPDATE, BOOT_MODE_RECOVERY}
    BY <1>4, <1>14
    DEF SSBL_SecureBootCheck, ChainInv, SsblKnows, ModeKnown, BOOT_MODE_NONE, BOOT_MODE_NORMAL,
        BOOT_MODE_UPDATE, BOOT_MODE_RECOVERY
  <2>2. pc' \in {"ssbl_recovery", "ssbl_update"}
    BY <1>14, <2>1
    DEF SSBL_SecureBootCheck, NRMA, ABNRAM, BOOT_MODE_UPDATE, BOOT_MODE_RECOVERY
  <2>3. QED BY <1>5, <2>2
<1>15. CASE SSBL_UpdateProcessing BY <1>5, <1>15 DEF SSBL_UpdateProcessing
<1>16. CASE SSBL_ResetScenario
  <2>1. km = KEY_MODE_NORMAL BY <1>16 DEF SSBL_ResetScenario, ChainInv, ModeKnown
  <2>2. QED BY <1>6, <1>16, <2>1 DEF SSBL_ResetScenario, ChangeAndReboot, Reboot, Restart
<1>17. CASE SSBL_RecoveryProcessing
  <2>1. st = NRMA /\ blk = RAW /\ prev \in Banks
    BY <1>2, <1>17, HealthyBanks
    DEF SSBL_RecoveryProcessing, ChainInv, SsblKnows, TrackKnown
  <2>2. PICK o \in StoreOutcomes :
          /\ faults' = faults + Cost(o)
          /\ pc' = IF o = "done" THEN "ssbl_commit" ELSE "off"
    BY <1>17, <2>1 DEF SSBL_RecoveryProcessing, SBC_BaseAnswerEncryptStore, NRMA, ABNRAM, Banks
  <2>3. o \in {"done", "lost", "late"}
    BY <2>1
    DEF StoreOutcomes, WriteOutcomes, WholeBlocks, SYS_SETTING_BLOCKS_LEN,
        SBC_RAWPRT_DFLT_BLK_SZ, RAW, NULL
  <2>4. o = "done" BY <1>1, <2>2, <2>3 DEF Cost
  <2>5. QED BY <1>5, <2>2, <2>4
<1>18. CASE SSBL_RecoveryCommit
  <2>1. st = NRMA /\ blk = RAW /\ ram = hdr /\ hdr.bm = BOOT_MODE_RECOVERY /\ km = hdr.km
    BY <1>18 DEF SSBL_RecoveryCommit, ChainInv, SsblKnows, ModeKnown, TrackKnown
  <2>2. km \in {KEY_MODE_BOOT, KEY_MODE_UPDATE, KEY_MODE_NORMAL}
    BY <2>1 DEF Updating, BOOT_MODE_UPDATE, BOOT_MODE_RECOVERY
  <2>3. RecoveryTarget = <<BOOT_MODE_NORMAL, KEY_MODE_NORMAL>>
    BY <2>1, <2>2 DEF RecoveryTarget
  <2>4. PICK o \in HeaderOutcomes :
          /\ SBC_BootKeyModeChange(o, BOOT_MODE_NORMAL, KEY_MODE_NORMAL)
          /\ IF o = "done" THEN Reboot ELSE Shutdown
    BY <1>18, <2>3 DEF SSBL_RecoveryCommit, NoTarget
  <2>5. faults < faults' \/ o = "done"
    BY <2>1, <2>4, ChangeCounts, ModesTyped
  <2>6. o = "done"
    BY <1>1, <2>4, <2>5 DEF SBC_BootKeyModeChange, Cost
  <2>7. QED BY <1>6, <2>4, <2>6 DEF Reboot, Restart
<1>19. CASE SSBL_StartGrub
  BY <1>4, <1>19 DEF SSBL_StartGrub, ChainInv, ModeKnown, NoPendingWorkAtHandoff
<1>20. CASE SSBL_Errdone
  BY <1>20 DEF SSBL_Errdone, Working
<1>21. QED
  BY <1>7, <1>8, <1>9, <1>10, <1>11, <1>12, <1>13, <1>14, <1>15, <1>16, <1>17, <1>18, <1>19, <1>20
  DEF SSBL_Next

(* UefiMain of both loaders in an update: with both images, all files and  *)
(* a bank number in place, only a failing device or the power ends a boot  *)
(* before the header is in normal mode.  With BootEnds, an update that is  *)
(* left alone for BootRank steps is complete.                              *)
THEOREM UpdateUnhindered == Spec => OnlyFaultsStopUpdate
<1>1. ASSUME TypeOK, ChainInv, TrackKnown, [Next]_vars
      PROVE  [Updating /\ Healthy /\ Working => faults' > faults \/ Working']_vars
  <2> SUFFICES ASSUME Updating, Healthy, Working, ~(faults' > faults), Next PROVE Working'
    BY <1>1
  <2>1. CASE Environment
    <3>1. PowerCut
      BY <2>1 DEF Environment, PowerOn, SwitchOff, StageUpdate, ReplaceImages, Working,
                  FsblSteps, SsblSteps
    <3>2. QED BY <1>1, <3>1, BoundAssumption DEF PowerCut, Fault, TypeOK
  <2>2. QED BY <1>1, <2>1, FsblUpdates, SsblUpdates DEF Next
<1>2. QED BY <1>1, TypeCorrect, ChainCorrect, TrackAlways, PTL DEF Spec, OnlyFaultsStopUpdate

=============================================================================
