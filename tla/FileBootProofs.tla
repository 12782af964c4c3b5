--------------------------- MODULE FileBootProofs ---------------------------
(***************************************************************************)
(* For any number of file systems, any files and any failures, the work on *)
(* files implements FileService.                                           *)
(***************************************************************************)
EXTENDS FileBoot, EspFilesProofs, WellFoundedInduction

Ended == {"done", "returned", "fail", "hang"}

(* What an operation in which no access has failed has gone by, and that a *)
(* missing handle buffer is the end of the operation it strikes.           *)
HistoryKnown ==
  /\ mark \in Nat /\ mark <= faults
  /\ op = "verify" => mark = 0
  /\ op # "verify" /\ pc \notin Ended => hndl
  /\ op = "verify" /\ pc \in {"read", "trailer", "sign", "answer"} => hndl
  /\ pc = "write" => vol \in Vol
  /\ Unhurt =>
       /\ op = "kernel" /\ pc \in {"find", "read"} =>
            Having # {} /\ length = FileOn(Min(Having)).len
       /\ op = "kernel" /\ pc = "read" => vol = Min(Having)
       /\ pc = "write" => length < Word /\ \A u \in Vol : u < vol => vols[u].kind # "ok"
       /\ pc = "load" => \A u \in Vol : u < vol => ~Loadable(u)

-----------------------------------------------------------------------------
(* The files stay, and no failure is taken back. *)
LEMMA StepKeeps ==
  ASSUME TypeOK, LoadInv, Next
  PROVE  /\ vols' = vols /\ faults \in Nat /\ faults' \in Nat /\ faults <= faults'
         /\ pc \notin Ended
<1>0. faults \in Nat
  BY LengthAssumption DEF TypeOK
<1>1. vols' = vols /\ pc \notin Ended
  BY DEF Next, Locate, SBC_GetFileSize, SBC_FindFileBufHndl, SBC_ReadFile, ParseTrailer,
         VerifySignature, ReturnAnswer, SetWriteData, SBC_WriteFile, LocateImages, LoadImage, Ended
<1>. QED  BY <1>0, <1>1, FaultsStay

(* A charge is at least a failing access, unless it is none. *)
LEMMA ChargeShows ==
  ASSUME faults \in Nat, NEW k \in Nat, Charge(k), faults' = faults
  PROVE  k = 0
BY DEF Charge

LEMMA HistoryInit == BootInit => HistoryKnown
BY DEF BootInit, Init, HistoryKnown, Ended

LEMMA HistoryStep ==
  ASSUME FilesInv, HistoryKnown, BootNext
  PROVE  HistoryKnown'
<1>0. /\ TypeOK /\ LoadInv /\ OpKnown /\ OpKnown' /\ Next
      /\ mark' = IF op' = op THEN mark ELSE faults'
  BY NextLoad DEF FilesInv, LoadInv, BootNext
<1>1. vols' = vols /\ faults \in Nat /\ faults' \in Nat /\ faults <= faults' /\ pc \notin Ended
  BY <1>0, StepKeeps
<1>2. mark' \in Nat /\ mark' <= faults' /\ (op' = op => mark' = mark)
  BY <1>0, <1>1 DEF HistoryKnown
<1>3. op' = op /\ Unhurt' => Unhurt /\ faults' = faults
  BY <1>1, <1>2 DEF Unhurt, HistoryKnown
<1>4. N \in Nat /\ Vol = 1 .. N /\ 1 \in Vol /\ ImgLen < Word /\ Word \in Nat /\ ImgLen \in Nat /\ 0 < Word
  BY VolumeAssumption, LengthAssumption DEF Vol
<1>5. ASSUME op' = op
      PROVE  Having' = Having /\ FileOn(Min(Having))' = FileOn(Min(Having)) /\ Min(Having)' = Min(Having)
             /\ \A u \in Vol : Loadable(u)' = Loadable(u)
  BY <1>1, <1>5 DEF Having, FileOn, Loadable
<1>6. \A v \in Having : LookupCost(v) \in Nat
  BY CostKnown DEF Having, LookupCost
<1>a. CASE Locate
  BY <1>a, <1>0, <1>2 DEF Locate, HistoryKnown, Ended, OpKnown
<1>b. CASE SBC_GetFileSize
  <2>1. pc = "size" /\ op' = op /\ hndl' = hndl /\ pc' \in {"find", "fail"} /\ op \in {"verify", "kernel"}
    BY <1>b, <1>0 DEF SBC_GetFileSize, Fail, OpKnown
  <2>2. ASSUME Unhurt', pc' = "find" PROVE Having # {} /\ length' = FileOn(Min(Having)).len
    <3>1. PICK v \in Having :
            \/ Charge(LookupCost(v)) /\ length' = FileOn(v).len
            \/ Charge(LookupCost(v) + 1) /\ length' = 0
      BY <1>b, <2>2 DEF SBC_GetFileSize, Fail
    <3>2. LookupCost(v) = 0 /\ length' = FileOn(v).len
      BY <3>1, <2>1, <2>2, <1>1, <1>3, <1>6 DEF Charge
    <3>3. v = Min(Having)
      BY <3>2, FirstIs DEF Having, LookupCost
    <3>. QED  BY <3>2, <3>3
  <2>. QED  BY <2>1, <2>2, <1>2, <1>5 DEF HistoryKnown, Ended
<1>c. CASE SBC_FindFileBufHndl
  <2>1. /\ pc = "find" /\ op' = op /\ hndl' = hndl /\ length' = length
        /\ pc' = "read" => hndl
        /\ pc' \in {"read", "fail", "hang"} /\ op \in {"verify", "kernel"}
    BY <1>c, <1>0 DEF SBC_FindFileBufHndl, Fail, Wild, OpKnown
  <2>2. ASSUME Unhurt', pc' = "read" PROVE vol' = Min(Having)
    <3>1. PICK v \in Having : Charge(LookupCost(v)) /\ vol' = v
      BY <1>c, <2>2 DEF SBC_FindFileBufHndl, Fail, Wild
    <3>2. LookupCost(v) = 0
      BY <3>1, <2>1, <2>2, <1>1, <1>3, <1>6, ChargeShows
    <3>. QED  BY <3>1, <3>2, FirstIs DEF Having, LookupCost
  <2>3. Unhurt' /\ op = "kernel" => Having # {} /\ length = FileOn(Min(Having)).len
    BY <2>1, <1>3 DEF HistoryKnown
  <2>. QED  BY <2>1, <2>2, <2>3, <1>2, <1>5 DEF HistoryKnown, Ended
<1>d. CASE SBC_ReadFile
  <2>1. /\ pc = "read" /\ hndl' = hndl
        /\ \/ pc' \in {"trailer", "fail"} /\ op' = op /\ (pc' = "trailer" => op = "verify")
           \/ pc' = "start" /\ op = "kernel" /\ op' = "grub"
    BY <1>d DEF SBC_ReadFile, Fail
  <2>. QED  BY <2>1, <1>2 DEF HistoryKnown, Ended
<1>e. CASE ParseTrailer
  BY <1>e, <1>0, <1>2 DEF ParseTrailer, HistoryKnown, Ended, OpKnown, Wild
<1>f. CASE VerifySignature
  BY <1>f, <1>0, <1>2 DEF VerifySignature, HistoryKnown, Ended, OpKnown, Wild, Fail
<1>g. CASE ReturnAnswer
  BY <1>g, <1>0, <1>2 DEF ReturnAnswer, HistoryKnown, Ended, OpKnown, Fail
<1>h. CASE SetWriteData
  <2>1. /\ pc = "copy" /\ op = "copy" /\ op' = op /\ hndl' = hndl /\ vol' = 1
        /\ pc' \in {"write", "fail"}
        /\ faults' = faults /\ pc' = "write" => length' = ImgLen
    BY <1>h, <1>0, <1>1 DEF SetWriteData, Fail, OpKnown, Charge
  <2>2. \A u \in Vol : ~(u < 1)
    BY <1>4
  <2>. QED  BY <2>1, <2>2, <1>2, <1>3, <1>4 DEF HistoryKnown, Ended
<1>i. CASE SBC_WriteFile
  <2>1. pc = "write" /\ op = "copy" /\ vol \in Vol /\ hndl' = hndl /\ hndl
    BY <1>i, <1>0 DEF SBC_WriteFile, OpKnown, HistoryKnown, Ended
  <2>2. CASE op' = "start" /\ pc' = "start"
    BY <2>1, <2>2, <1>2 DEF HistoryKnown, Ended
  <2>3. CASE ~(op' = "start" /\ pc' = "start")
    <3>1. op' = op /\ NextVolume
      BY <1>i, <2>3 DEF SBC_WriteFile
    <3>2. CASE vol < N
      <4>1. vol' = vol + 1 /\ pc' = "write" /\ vol' \in Vol
        BY <3>1, <3>2, <2>1, <1>4 DEF NextVolume
      <4>2. ASSUME Unhurt' PROVE length' < Word /\ vols[vol].kind # "ok"
        <5>1. Unhurt /\ faults' = faults /\ length < Word
          BY <4>2, <3>1, <2>1, <1>3 DEF HistoryKnown
        <5>. QED  BY <1>i, <2>3, <5>1, <1>1, <1>4 DEF SBC_WriteFile, Fails, Charge, Fits
      <4>3. ASSUME Unhurt', NEW u \in Vol, u < vol' PROVE vols[u].kind # "ok"
        <5>1. Unhurt /\ (u < vol \/ u = vol)
          BY <4>1, <4>3, <3>1, <2>1, <1>3, <1>4
        <5>. QED  BY <5>1, <4>2, <4>3, <2>1 DEF HistoryKnown
      <4>. QED  BY <4>1, <4>2, <4>3, <3>1, <2>1, <1>1, <1>2 DEF HistoryKnown, Ended
    <3>3. CASE ~(vol < N)
      <4>1. pc' = "fail"
        BY <3>1, <3>3 DEF NextVolume, Fail
      <4>. QED  BY <4>1, <3>1, <2>1, <1>2 DEF HistoryKnown, Ended
    <3>. QED  BY <3>2, <3>3
  <2>. QED  BY <2>2, <2>3
<1>j. CASE LocateImages
  <2>1. /\ pc = "start" /\ op \in {"start", "grub"} /\ op' = op
        /\ \/ vol' = 1 /\ pc' = "load" /\ hndl' = hndl
           \/ pc' \in {"returned", "fail", "hang"}
    BY <1>j, <1>0 DEF LocateImages, NoImage, OpKnown
  <2>2. \A u \in Vol : ~(u < 1)
    BY <1>4
  <2>. QED  BY <2>1, <2>2, <1>2 DEF HistoryKnown, Ended
<1>k. CASE LoadImage
  <2>1. pc = "load" /\ op \in {"start", "grub"} /\ hndl' = hndl /\ hndl /\ vol \in Vol
    BY <1>k, <1>0 DEF LoadImage, OpKnown, HistoryKnown, FilesInv, StartKnown, Ended
  <2>2. CASE op' = "kernel" /\ pc' = "size"
    BY <2>1, <2>2, <1>2 DEF HistoryKnown, Ended
  <2>3. CASE pc' \in Ended
    <3>1. op' \in {"start", "grub"}
      BY <1>k, <2>1, <2>3 DEF LoadImage, Ended
    <3>. QED  BY <2>1, <2>3, <3>1, <1>2 DEF HistoryKnown, Ended
  <2>4. CASE ~(op' = "kernel" /\ pc' = "size") /\ pc' \notin Ended
    <3>1. Fails(Loadable(vol)) /\ op' = op /\ vol < N /\ vol' = vol + 1 /\ pc' = "load"
      BY <1>k, <2>1, <2>4 DEF LoadImage, NoImage, Ended
    <3>2. ASSUME Unhurt', NEW u \in Vol, u < vol' PROVE ~Loadable(u)
      <4>1. Unhurt /\ faults' = faults /\ (u < vol \/ u = vol)
        BY <3>1, <3>2, <2>1, <1>3, <1>4
      <4>2. ~Loadable(vol)
        BY <3>1, <4>1, <1>1 DEF Fails, Charge
      <4>. QED  BY <4>1, <4>2, <2>1, <3>2 DEF HistoryKnown
    <3>. QED  BY <3>1, <3>2, <2>1, <1>2, <1>5 DEF HistoryKnown, Ended
  <2>. QED  BY <2>2, <2>3, <2>4
<1>. QED  BY <1>0, <1>a, <1>b, <1>c, <1>d, <1>e, <1>f, <1>g, <1>h, <1>i, <1>j, <1>k DEF Next

-----------------------------------------------------------------------------
(* The files decide, in every state of a boot, in the same way. *)
LEMMA SiteKept ==
  ASSUME vols' = vols
  PROVE  /\ UNCHANGED [o \in FileOps |-> May(o)]
         /\ UNCHANGED [o \in FileOps |-> Sure(o)]
<1>1. /\ FirstWith(HasFsbl)' = FirstWith(HasFsbl) /\ FirstWith(HasKernel)' = FirstWith(HasKernel)
      /\ \A v \in Vol : HasFsbl(v)' = HasFsbl(v) /\ HasKernel(v)' = HasKernel(v)
  BY DEF FirstWith, HasFsbl, HasKernel
<1>2. \A o \in FileOps : May(o)' = May(o)
  BY <1>1 DEF May, SignedTo
<1>3. \A o \in FileOps : Sure(o)' = Sure(o)
  BY <1>1, <1>2 DEF Sure, Signed, Proper
<1>. QED  BY <1>2, <1>3

(* A step inside an operation: nothing its caller sees, or a failure. *)
LEMMA StaysMaps ==
  ASSUME vols' = vols, op \in FileOps, op' = op, pc \notin Ended, pc' \notin Ended, mark' = mark,
         mark \in Nat, faults \in Nat, faults' \in Nat, mark <= faults, faults <= faults'
  PROVE  [Service!Next]_(Service!vars)
<1>1. Unhurt' => Unhurt
  BY DEF Unhurt
<1>2. CASE Unhurt' <=> Unhurt
  BY <1>2, SiteKept DEF Service!vars, Ended
<1>3. CASE ~Unhurt'
  <2>1. Service!Trouble
    BY <1>3, SiteKept DEF Service!Trouble, Service!Ops, FileOps, Ended
  <2>. QED  BY <2>1 DEF Service!Next
<1>. QED  BY <1>1, <1>2, <1>3

(* The end of an operation that does not do its work. *)
LEMMA RefusalMaps ==
  ASSUME vols' = vols, op \in FileOps, pc \notin Ended, pc' \in Service!Refusals(op), mark' = mark,
         mark \in Nat, faults \in Nat, faults' \in Nat, mark <= faults, faults <= faults',
         faults' # mark \/ ~Sure(op)
  PROVE  Service!Next
<1>1. pc' \in {"fail", "hang", "returned"}
  BY DEF Service!Refusals, FileOps
<1>2. Unhurt' => Unhurt
  BY DEF Unhurt
<1>3. Service!Refusal(op)
  BY <1>1, <1>2, SiteKept DEF Service!Refusal, Ended, Unhurt
<1>. QED  BY <1>3 DEF Service!Next, Service!Ops, FileOps

(* The end of an operation that does, and the beginning of the next one. *)
LEMMA SuccessMaps ==
  ASSUME vols' = vols, op \in FileOps, pc \notin Ended,
         \/ op' = Service!After(op) /\ pc' \notin Ended /\ mark' = faults'
         \/ op = "grub" /\ pc' = "done",
         May(op), Unhurt => Sure(op) \/ op = "copy"
  PROVE  Service!Next
<1>1. Service!Success(op)
  BY SiteKept DEF Service!Success, Service!After, Ended, Unhurt, FileOps
<1>. QED  BY <1>1 DEF Service!Next, Service!Ops, FileOps

(* There is a first copy if there is any. *)
LEMMA FirstInside ==
  ASSUME NEW S \in SUBSET Vol, S # {}
  PROVE  Min(S) \in S
<1>. DEFINE R == OpToRel(<, Nat)
<1>1. S \subseteq Nat
  BY VolumeAssumption DEF Vol
<1>2. IsWellFoundedOn(R, Nat)
  BY NatLessThanWellFounded
<1>3. PICK v \in S : \A u \in S : ~(<<u, v>> \in R)
  <2>. HIDE DEF R
  <2>. QED  BY <1>1, <1>2, WFMin
<1>4. \A u \in S : v <= u
  <2>1. ASSUME NEW u \in S, u < v PROVE <<u, v>> \in R
    <3>1. <<u, v>> \in Nat \X Nat /\ <<u, v>>[1] < <<u, v>>[2]
      BY <1>1, <2>1
    <3>. QED  BY <3>1 DEF OpToRel
  <2>2. \A u \in S : ~(u < v)
    BY <1>3, <2>1
  <2>. QED  BY <1>1, <2>2
<1>. QED  BY <1>1, <1>4 DEF Min

LEMMA ServiceInit == BootInit => Service!Init
<1>. SUFFICES ASSUME BootInit PROVE Service!Init
  OBVIOUS
<1>1. \A o \in FileOps : May(o) \in BOOLEAN /\ Sure(o) \in BOOLEAN
  BY DEF May, Sure, FileOps
<1>2. \A o \in FileOps : Sure(o) => May(o)
  <2>1. (\E v \in Vol : HasFsbl(v)) => FirstWith(HasFsbl) \in Vol /\ HasFsbl(FirstWith(HasFsbl))
    BY FirstInside DEF FirstWith
  <2>3. \A v \in Vol : Signed(vols[v].fsbl) => SignedTo(vols[v].fsbl, vols[v].fsbl.len)
    BY DEF Signed, SignedTo, Trailers
  <2>2. (\E v \in Vol : HasKernel(v)) =>
          FirstWith(HasKernel) \in Vol /\ HasKernel(FirstWith(HasKernel))
    BY FirstInside DEF FirstWith
  <2>. QED  BY <2>1, <2>2, <2>3 DEF May, Sure, FileOps
<1>. QED  BY <1>1, <1>2 DEF BootInit, Init, Service!Init, Service!Ops, FileOps, Unhurt

(* Verification is refused without a failure only for the sake of the      *)
(* first copy.                                                             *)
LEMMA VerifyRefused ==
  ASSUME LoadContract', vols \in [Vol -> Volumes], vols' = vols, faults' = 0, op' = "verify", pc' \in {"fail", "hang"}
  PROVE  ~Sure("verify")
<1>. DEFINE first == vols[FirstWith(HasFsbl)].fsbl
<1>1. FirstWith(HasFsbl)' = FirstWith(HasFsbl) /\ \A v \in Vol : HasFsbl(v)' = HasFsbl(v)
  BY DEF FirstWith, HasFsbl
<1>2. /\ pc' = "fail" /\ (\E v \in Vol : HasFsbl(v)) => ~Signed(first)
      /\ pc' = "hang" => first.len < FSBL_BNIFO_SIZE + first.tail
  BY <1>1 DEF LoadContract, Signed, Proper
<1>3. CASE pc' = "fail"
  BY <1>2, <1>3 DEF Sure
<1>4. CASE pc' = "hang" /\ \E v \in Vol : HasFsbl(v)
  <2>. SUFFICES ~Signed(first)
    BY DEF Sure
  <2>1. FirstWith(HasFsbl) \in Vol
    BY <1>4, FirstInside DEF FirstWith
  <2>2. first.len \in Nat /\ first.tail \in Nat
    BY <2>1, FileFacts DEF File
  <2>. QED  BY <1>2, <1>4, <2>2 DEF Signed, Proper, FSBL_BNIFO_SIZE
<1>5. CASE ~\E v \in Vol : HasFsbl(v)
  BY <1>5 DEF Sure
<1>. QED  BY <1>3, <1>4, <1>5

LEMMA ServiceStep ==
  ASSUME FilesInv, FilesInv', HistoryKnown, [BootNext]_bootvars
  PROVE  [Service!Next]_(Service!vars)
<1>0. CASE UNCHANGED bootvars
  <2>1. vols' = vols /\ pc' = pc /\ op' = op /\ (Unhurt' <=> Unhurt)
    BY <1>0 DEF bootvars, vars, Unhurt
  <2>. QED  BY <2>1, SiteKept DEF Service!vars
<1>. SUFFICES ASSUME BootNext PROVE [Service!Next]_(Service!vars)
  BY <1>0
<1>1. /\ TypeOK /\ LoadInv /\ OpKnown /\ OpKnown' /\ Next
      /\ mark' = IF op' = op THEN mark ELSE faults'
  BY DEF FilesInv, LoadInv, BootNext
<1>2. vols' = vols /\ faults \in Nat /\ faults' \in Nat /\ faults <= faults' /\ pc \notin Ended
  BY <1>1, StepKeeps
<1>3. mark \in Nat /\ mark <= faults /\ op \in FileOps /\ (op = "verify" => mark = 0)
  BY <1>1 DEF HistoryKnown, TypeOK, FileOps
<1>4. N \in Nat /\ Vol = 1 .. N
  BY VolumeAssumption DEF Vol
<1>5. LoadContract' /\ VerifiedIsSigned'
  <2>1. LoadContract'
    BY DEF FilesInv, LoadKnown, LoadContract
  <2>. QED  BY <2>1 DEF FilesInv, LoadInv
(* The three ways a step can map. *)
<1>6. ASSUME op' = op, pc' \notin Ended PROVE [Service!Next]_(Service!vars)
  BY <1>1, <1>2, <1>3, <1>6, StaysMaps
<1>7. ASSUME op' = op, pc' \in Service!Refusals(op), faults' # mark \/ ~Sure(op)
      PROVE  Service!Next
  BY <1>1, <1>2, <1>3, <1>7, RefusalMaps
<1>8. ASSUME op' = op, op = "verify", pc' \in {"fail", "hang"} PROVE Service!Next
  <2>1. faults' # mark \/ ~Sure("verify")
    BY <1>1, <1>2, <1>3, <1>5, <1>8, VerifyRefused DEF TypeOK
  <2>. QED  BY <2>1, <1>7, <1>8 DEF Service!Refusals
<1>9. Charge(1) => faults' # mark
  BY <1>2, <1>3 DEF Charge
<1>10. ASSUME op = "kernel", Having = {} PROVE ~Sure("kernel")
  BY <1>10, HavingIs DEF Sure
<1>a. CASE Locate \/ ParseTrailer \/ VerifySignature
  <2>1. op = "verify" /\ op' = op /\ pc' \in {"size", "sign", "answer", "fail", "hang"}
    BY <1>a, <1>1 DEF Locate, ParseTrailer, VerifySignature, Fail, Wild, OpKnown
  <2>. QED  BY <2>1, <1>6, <1>8 DEF Ended
<1>b. CASE SBC_GetFileSize
  <2>1. /\ op' = op /\ op \in {"verify", "kernel"}
        /\ pc' = "find" \/ (pc' = "fail" /\ Fails(Having # {}))
    BY <1>b, <1>1 DEF SBC_GetFileSize, Fail, OpKnown
  <2>2. CASE op = "kernel" /\ pc' = "fail" /\ Fails(Having # {})
    <3>1. faults' # mark \/ ~Sure("kernel")
      BY <2>2, <1>9, <1>10 DEF Fails
    <3>. QED  BY <2>1, <2>2, <3>1, <1>7 DEF Service!Refusals
  <2>. QED  BY <2>1, <2>2, <1>6, <1>8 DEF Ended
<1>c. CASE SBC_FindFileBufHndl
  <2>1. /\ op' = op /\ op \in {"verify", "kernel"} /\ pc = "find"
        /\ \/ pc' = "read"
           \/ ~hndl /\ pc' \in {"hang", "fail"}
           \/ pc' = "fail" /\ Fails(Having # {})
    BY <1>c, <1>1 DEF SBC_FindFileBufHndl, Fail, Wild, OpKnown
  <2>2. op = "kernel" => hndl
    BY <2>1 DEF HistoryKnown, Ended
  <2>3. CASE op = "kernel" /\ pc' = "fail" /\ Fails(Having # {})
    <3>1. faults' # mark \/ ~Sure("kernel")
      BY <2>3, <1>9, <1>10 DEF Fails
    <3>. QED  BY <2>1, <2>3, <3>1, <1>7 DEF Service!Refusals
  <2>. QED  BY <2>1, <2>2, <2>3, <1>6, <1>8 DEF Ended
<1>d. CASE SBC_ReadFile
  <2>1. vol \in Vol /\ FileOn(vol).there /\ pc = "read" /\ op \in {"verify", "kernel"}
        /\ length \in Nat /\ FileOn(vol).len \in Nat
    BY <1>d, <1>1, FileFacts DEF SBC_ReadFile, LoadInv, BufferKnown, OpKnown
  <2>2. CASE op = "verify"
    <3>1. op' = op /\ pc' \in {"trailer", "fail"}
      BY <1>d, <2>2 DEF SBC_ReadFile, Fail
    <3>. QED  BY <2>2, <3>1, <1>6, <1>8 DEF Ended
  <2>3. CASE op = "kernel"
    <3>1. FileOn(vol) = vols[vol].kernel /\ HasKernel(vol)
      BY <2>1, <2>3 DEF FileOn, HasKernel
    <3>2. ASSUME Unhurt PROVE vol = FirstWith(HasKernel) /\ length = vols[vol].kernel.len
      <4>1. vol = Min(Having) /\ length = FileOn(Min(Having)).len
        BY <2>1, <2>3, <3>2 DEF HistoryKnown
      <4>. QED  BY <4>1, <2>3, <3>1, HavingIs DEF FirstWith
    <3>3. CASE Charge(1) /\ pc' = "fail" /\ op' = op
      BY <2>3, <3>3, <1>7, <1>9 DEF Service!Refusals
    <3>4. CASE ~(Charge(1) /\ pc' = "fail" /\ op' = op)
      <4>1. /\ faults' = faults
            /\ length' = IF length < FileOn(vol).len THEN length ELSE FileOn(vol).len
            /\ \/ length' > 0 /\ op' = "grub" /\ pc' = "start"
               \/ length' = 0 /\ pc' = "fail" /\ op' = op
        BY <1>d, <2>3, <3>4 DEF SBC_ReadFile, Fail
      <4>2. CASE op' = "grub" /\ pc' = "start"
        <5>1. length' > 0 /\ vols[vol].kernel.len > 0
          BY <4>1, <4>2, <2>1, <2>3, <3>1
        <5>2. May("kernel")
          BY <5>1, <2>1, <3>1 DEF May
        <5>3. Unhurt => Sure("kernel")
          BY <5>1, <2>1, <3>1, <3>2 DEF Sure
        <5>4. op' = Service!After(op) /\ pc' \notin Ended /\ mark' = faults'
          BY <4>2, <2>3, <1>1 DEF Service!After, Ended
        <5>. QED  BY <5>2, <5>3, <5>4, <2>3, <1>2, <1>3, SuccessMaps
      <4>3. CASE pc' = "fail" /\ op' = op
        <5>1. length' = 0
          BY <4>1, <4>3, <2>3
        <5>2. Unhurt => vols[vol].kernel.len = 0
          BY <5>1, <4>1, <2>1, <3>1, <3>2
        <5>3. Unhurt => ~Sure("kernel")
          <6>1. Unhurt => vols[FirstWith(HasKernel)].kernel.len = 0
            BY <5>2, <3>2
          <6>2. Sure("kernel") => vols[FirstWith(HasKernel)].kernel.len > 0
            BY DEF Sure
          <6>. QED  BY <6>1, <6>2
        <5>4. faults' # mark \/ ~Sure("kernel")
          BY <5>3, <4>1 DEF Unhurt
        <5>. QED  BY <5>4, <4>3, <2>3, <1>7 DEF Service!Refusals
      <4>. QED  BY <4>1, <4>2, <4>3
    <3>. QED  BY <3>3, <3>4
  <2>. QED  BY <2>1, <2>2, <2>3
<1>e. CASE ReturnAnswer
  <2>1. op = "verify"
    BY <1>e, <1>1 DEF ReturnAnswer, OpKnown
  <2>2. CASE pc' = "fail" /\ op' = op
    BY <2>1, <2>2, <1>8
  <2>3. CASE ~(pc' = "fail" /\ op' = op)
    <3>1. faults' = faults /\ op' = "copy" /\ pc' = "copy"
      BY <1>e, <2>3 DEF ReturnAnswer, Fail
    <3>2. /\ ansr'.vol \in Vol /\ SignedTo(vols[ansr'.vol].fsbl, ansr'.len)
          /\ \E u \in Vol : HasFsbl(u) /\ vols[u].fsbl.len = ansr'.len
      BY <3>1, <1>2, <1>5 DEF VerifiedIsSigned, SignedTo, HasFsbl
    <3>3. May("verify")
      BY <3>2 DEF May
    <3>4. ASSUME Unhurt PROVE Sure("verify")
      <4>1. faults' = 0
        BY <3>1, <3>4, <2>1, <1>3 DEF Unhurt
      <4>2. FirstWith(HasFsbl)' = FirstWith(HasFsbl)
        BY <1>2 DEF FirstWith, HasFsbl
      <4>3. /\ ansr' = [vol |-> FirstWith(HasFsbl), len |-> vols[FirstWith(HasFsbl)].fsbl.len]
            /\ Signed(vols[FirstWith(HasFsbl)].fsbl)
        BY <4>1, <4>2, <3>1, <1>2, <1>5 DEF LoadContract, Signed, Proper
      <4>4. ansr'.vol = FirstWith(HasFsbl) /\ HasFsbl(FirstWith(HasFsbl))
        BY <4>3 DEF Signed, HasFsbl
      <4>. QED  BY <4>3, <4>4, <3>2 DEF Sure
    <3>5. op' = Service!After(op) /\ pc' \notin Ended /\ mark' = faults'
      BY <3>1, <2>1, <1>1 DEF Service!After, Ended
    <3>. QED  BY <3>3, <3>4, <3>5, <2>1, <1>2, <1>3, SuccessMaps
  <2>. QED  BY <2>2, <2>3
<1>f. CASE SetWriteData
  <2>1. op = "copy" /\ op' = op /\ (pc' = "write" \/ (pc' = "fail" /\ Charge(1)))
    BY <1>f, <1>1 DEF SetWriteData, Fail, OpKnown
  <2>. QED  BY <2>1, <1>6, <1>7, <1>9 DEF Ended, Service!Refusals
<1>g. CASE SBC_WriteFile
  <2>1. pc = "write" /\ op = "copy" /\ vol \in Vol
    BY <1>g, <1>1 DEF SBC_WriteFile, OpKnown, HistoryKnown
  <2>2. CASE op' = "start" /\ pc' = "start"
    <3>1. vols[vol].kind # "closed"
      BY <1>g, <2>1, <2>2 DEF SBC_WriteFile
    <3>2. May("copy")
      BY <2>1, <3>1 DEF May
    <3>3. op' = Service!After(op) /\ pc' \notin Ended /\ mark' = faults'
      BY <2>1, <2>2, <1>1 DEF Service!After, Ended
    <3>. QED  BY <3>2, <3>3, <2>1, <1>2, <1>3, SuccessMaps
  <2>3. CASE ~(op' = "start" /\ pc' = "start")
    <3>1. op' = op /\ NextVolume
      BY <1>g, <2>3 DEF SBC_WriteFile
    <3>2. CASE vol < N
      BY <3>1, <3>2, <1>6 DEF NextVolume, Ended
    <3>3. CASE ~(vol < N)
      <4>1. pc' = "fail" /\ vol = N
        BY <3>1, <3>3, <2>1, <1>4 DEF NextVolume, Fail
      <4>2. ASSUME faults' = mark PROVE ~Sure("copy")
        <5>1. Unhurt /\ faults' = faults
          BY <4>2, <1>2, <1>3 DEF Unhurt
        <5>2. length < Word /\ \A u \in Vol : u < vol => vols[u].kind # "ok"
          BY <5>1, <2>1 DEF HistoryKnown
        <5>3. vols[vol].kind # "ok"
          BY <1>g, <2>3, <5>1, <5>2, <1>2 DEF SBC_WriteFile, Fails, Charge, Fits
        <5>4. \A u \in Vol : u < vol \/ u = vol
          BY <4>1, <1>4
        <5>. QED  BY <5>2, <5>3, <5>4 DEF Sure
      <4>. QED  BY <4>1, <4>2, <3>1, <2>1, <1>7 DEF Service!Refusals
    <3>. QED  BY <3>2, <3>3
  <2>. QED  BY <2>2, <2>3
<1>h. CASE LocateImages
  <2>1. /\ op \in {"start", "grub"} /\ op' = op
        /\ \/ pc' = "load"
           \/ Charge(1) /\ pc' \in {IF op = "grub" THEN "returned" ELSE "fail", "hang"}
    BY <1>h, <1>1 DEF LocateImages, NoImage, OpKnown
  <2>2. CASE pc' = "load"
    BY <2>1, <2>2, <1>6 DEF Ended
  <2>3. CASE pc' # "load"
    <3>1. pc' \in Service!Refusals(op)
      BY <2>1, <2>3 DEF Service!Refusals
    <3>. QED  BY <2>1, <2>3, <3>1, <1>7, <1>9
  <2>. QED  BY <2>2, <2>3
<1>i. CASE LoadImage
  <2>1. pc = "load" /\ op \in {"start", "grub"} /\ vol \in Vol
    BY <1>i, <1>1 DEF LoadImage, OpKnown, FilesInv, StartKnown
  <2>2. /\ \A v \in Vol : Loadable(v) => May(op)
        /\ (\A v \in Vol : ~Loadable(v)) => ~Sure(op)
        /\ May(op) => Sure(op)
    BY <2>1 DEF Loadable, May, Sure
  <2>3. CASE Loadable(vol) /\ running' = vol /\ pc' \in {"size", "done"}
    <3>1. \/ op' = Service!After(op) /\ pc' \notin Ended /\ mark' = faults'
          \/ op = "grub" /\ pc' = "done"
      BY <1>i, <2>1, <2>3, <1>1 DEF LoadImage, NoImage, Service!After, Ended
    <3>. QED  BY <2>1, <2>2, <2>3, <3>1, <1>2, <1>3, SuccessMaps
  <2>4. CASE ~(Loadable(vol) /\ running' = vol /\ pc' \in {"size", "done"})
    <3>1. /\ Fails(Loadable(vol)) /\ op' = op
          /\ IF vol < N THEN pc' = pc ELSE NoImage
      BY <1>i, <2>1, <2>4 DEF LoadImage
    <3>2. CASE vol < N
      BY <2>1, <3>1, <3>2, <1>6 DEF Ended
    <3>3. CASE ~(vol < N)
      <4>1. vol = N /\ pc' \in Service!Refusals(op)
        BY <2>1, <3>1, <3>3, <1>4 DEF NoImage, Service!Refusals
      <4>2. ASSUME faults' = mark PROVE ~Sure(op)
        <5>1. Unhurt /\ faults' = faults
          BY <4>2, <1>2, <1>3 DEF Unhurt
        <5>2. ~Loadable(vol)
          BY <3>1, <5>1, <1>2 DEF Fails, Charge
        <5>3. \A u \in Vol : u < vol => ~Loadable(u)
          BY <5>1, <2>1 DEF HistoryKnown
        <5>4. \A u \in Vol : u < vol \/ u = vol
          BY <4>1, <1>4
        <5>. QED  BY <5>2, <5>3, <5>4, <2>2
      <4>. QED  BY <4>1, <4>2, <3>1, <1>7
    <3>. QED  BY <3>2, <3>3
  <2>. QED  BY <2>3, <2>4
<1>. QED  BY <1>1, <1>a, <1>b, <1>c, <1>d, <1>e, <1>f, <1>g, <1>h, <1>i DEF Next

(* The history variable only watches. *)
LEMMA HistoryWatches == BootSpec => Spec
<1>1. BootInit => Init
  BY DEF BootInit
<1>2. [BootNext]_bootvars => [Next]_vars
  BY DEF BootNext, bootvars
<1>. QED  BY <1>1, <1>2, PTL DEF BootSpec, Spec

(* For any number of file systems and any failures: verification, copy and *)
(* start are to the boot chain the single steps it takes them for.         *)
THEOREM ServiceImplemented == BootSpec => ServiceSpec
<1>1. BootSpec => []FilesInv
  BY HistoryWatches, FilesAlways, PTL
<1>2. FilesInv /\ HistoryKnown /\ [BootNext]_bootvars => HistoryKnown'
  <2>1. CASE UNCHANGED bootvars /\ HistoryKnown
    BY <2>1 DEF bootvars, vars, HistoryKnown, Unhurt, Having, FileOn, Loadable
  <2>. QED  BY <2>1, HistoryStep
<1>3. BootSpec => []HistoryKnown
  BY <1>1, <1>2, HistoryInit, PTL DEF BootSpec
<1>4. BootSpec => Service!Init /\ [][Service!Next]_(Service!vars)
  BY <1>1, <1>3, ServiceInit, ServiceStep, PTL DEF BootSpec
<1>. QED  BY <1>4 DEF ServiceSpec, Service!Spec

=============================================================================
