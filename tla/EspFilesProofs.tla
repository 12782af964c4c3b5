--------------------------- MODULE EspFilesProofs ---------------------------
(***************************************************************************)
(* For any number of file systems, any files on them and any failures,     *)
(* SBC_FSBL_Verify accepts only what is a signed file to its last byte.    *)
(***************************************************************************)
EXTENDS EspFiles, FiniteSetTheorems, TLAPS

(* Where the operations are in each other's order. *)
OpKnown ==
  /\ pc \in {"locate", "trailer", "sign", "answer"} => op = "verify"
  /\ pc \in {"copy", "write"} => op = "copy"
  /\ pc \in {"size", "find", "read"} => op \in {"verify", "kernel"}
  /\ pc \in {"start", "load"} => op \in {"start", "grub"}
  /\ pc \in {"done", "returned"} => op = "grub"
  /\ op = "copy" => pc \in {"copy", "write", "fail"}
  /\ op = "start" => pc \in {"start", "load", "fail", "hang"}
  /\ op = "grub" => pc \in {"start", "load", "done", "returned", "hang"}

(* The size query found nothing or the length of some copy. *)
SizeKnown == length = 0 \/ \E u \in Vol : HasFsbl(u) /\ vols[u].fsbl.len = length

(* What is known of the buffer: how long it is, and that the image length  *)
(* computed from one that ends with a trailer is the one that trailer      *)
(* gives, or the buffer is too short for one and the length wrapped        *)
(* around.                                                                 *)
BufferKnown ==
  /\ length \in Nat /\ fsbl_len \in Nat
  /\ op = "verify" /\ pc \in {"find", "read", "trailer", "sign", "answer"} => SizeKnown
  /\ pc \in {"read", "trailer", "sign", "answer"} => vol \in Vol /\ FileOn(vol).there
  /\ pc \in {"sign", "answer"} => \A e \in AtEnd :
       \/ /\ length >= FSBL_BNIFO_SIZE
          /\ fsbl_len = Minus(length, FSBL_BNIFO_SIZE + e.tail)
       \/ length < FSBL_BNIFO_SIZE /\ fsbl_len > length
  /\ pc = "answer" => /\ \E e \in AtEnd : fsbl_len = e.over
                      /\ fsbl_len > 0 /\ fsbl_len <= length

LoadInv ==
  /\ vols \in [Vol -> Volumes]
  /\ OpKnown /\ BufferKnown /\ VerifiedIsSigned

-----------------------------------------------------------------------------
(* What the assumptions say of a file on a file system. *)
LEMMA FileFacts ==
  ASSUME vols \in [Vol -> Volumes], NEW v \in Vol
  PROVE  /\ vols[v].fsbl \in File /\ vols[v].kernel \in File
         /\ vols[v].fsbl.len < Word /\ vols[v].fsbl.tail + 1 < Word
         /\ \A e \in Trailers(vols[v].fsbl) :
              e.len \in Nat /\ e.tail \in Nat /\ e.over \in Nat /\ e.tail + 1 < Word
         /\ \A d, e \in Trailers(vols[v].fsbl) :
              d.len = e.len => d.tail = e.tail /\ d.over = e.over
         /\ FileOn(v).len \in Nat /\ FileOn(v).tail \in Nat /\ FileOn(v).over \in Nat
<1>1. vols[v] \in Volumes /\ vols[v] \in Volume
  BY VolumeAssumption
<1>2. vols[v].fsbl \in File /\ vols[v].kernel \in File
  BY <1>1 DEF Volume
<1>3. vols[v].fsbl.len < Word /\ \A e \in Trailers(vols[v].fsbl) : e.tail + 1 < Word
  BY <1>1, LengthAssumption
<1>4. \A e \in Trailers(vols[v].fsbl) : e.len \in Nat /\ e.tail \in Nat /\ e.over \in Nat
  BY <1>2 DEF Trailers, Trailer, File
<1>5. \A d, e \in Trailers(vols[v].fsbl) : d.len = e.len => d.tail = e.tail /\ d.over = e.over
  BY <1>1, TrailerAssumption
<1>6. vols[v].fsbl \in Trailers(vols[v].fsbl)
  BY DEF Trailers
<1>. QED  BY <1>2, <1>3, <1>4, <1>5, <1>6 DEF File, FileOn

(* An image length that lies inside the buffer did not wrap around.        *)
LEMMA MinusInside ==
  ASSUME NEW a \in Nat, NEW b \in Nat, b < Word, Minus(a, b) <= a
  PROVE  b <= a /\ Minus(a, b) = a - b
BY LengthAssumption DEF Minus

LEMMA InitLoad == Init => LoadInv
BY DEF Init, LoadInv, OpKnown, BufferKnown, VerifiedIsSigned

LEMMA NextLoad == LoadInv /\ [Next]_vars => LoadInv'
<1>. SUFFICES ASSUME LoadInv, [Next]_vars PROVE LoadInv'
  OBVIOUS
<1>. USE DEF LoadInv, OpKnown
<1>0. Word \in Nat /\ ImgLen \in Nat
  BY LengthAssumption
<1>13. vols' = vols
  BY DEF Next, vars, Locate, SBC_GetFileSize, SBC_FindFileBufHndl, SBC_ReadFile, ParseTrailer,
         VerifySignature, ReturnAnswer, SetWriteData, SBC_WriteFile, LocateImages, LoadImage
<1>14. UNCHANGED <<op, ansr>> => VerifiedIsSigned'
  BY <1>13 DEF VerifiedIsSigned, SignedTo, HasFsbl
<1>15. length' = length => SizeKnown' = SizeKnown
  BY <1>13 DEF SizeKnown, HasFsbl
<1>16. UNCHANGED <<op, vol, length>> => AtEnd' = AtEnd /\ FileOn(vol)' = FileOn(vol)
  BY <1>13 DEF AtEnd, FileOn
<1>17. UNCHANGED ansr /\ op # "verify" => VerifiedIsSigned'
  BY <1>13 DEF VerifiedIsSigned, SignedTo, HasFsbl
<1>. HIDE DEF VerifiedIsSigned
<1>1. CASE Locate
  BY <1>1, <1>13, <1>14 DEF Locate, BufferKnown
<1>2. CASE SBC_GetFileSize
  <2>1. length' \in Nat
    BY <1>2, FileFacts DEF SBC_GetFileSize, BufferKnown, Having
  <2>2. op = "verify" /\ pc' = "find" => SizeKnown'
    BY <1>2, <1>13 DEF SBC_GetFileSize, SizeKnown, Having, FileOn, HasFsbl, Fail
  <2>. QED  BY <1>2, <2>1, <2>2, <1>13, <1>14 DEF SBC_GetFileSize, BufferKnown, Fail
<1>3. CASE SBC_FindFileBufHndl
  <2>1. pc' = "read" => vol' \in Vol /\ FileOn(vol').there
    BY <1>3 DEF SBC_FindFileBufHndl, Fail, Wild, Having
  <2>2. FileOn(vol)' = FileOn(vol')
    BY <1>3, <1>13 DEF SBC_FindFileBufHndl, FileOn
  <2>. QED  BY <1>3, <1>13, <1>14, <1>15, <2>1, <2>2 DEF SBC_FindFileBufHndl, BufferKnown, Fail, Wild
<1>4. CASE SBC_ReadFile
  <2>1. length' \in Nat
    BY <1>4, FileFacts DEF SBC_ReadFile, BufferKnown
  <2>2. \/ pc' = "trailer" /\ op = "verify" /\ op' = op
        \/ pc' = "fail" /\ op' = op
        \/ pc' = "start" /\ op = "kernel" /\ op' = "grub"
    BY <1>4 DEF SBC_ReadFile, Fail
  <2>3. pc' = "trailer" => SizeKnown'
    <3>. SUFFICES ASSUME pc' = "trailer" PROVE SizeKnown'
      OBVIOUS
    <3>1. op = "verify" /\ vol \in Vol /\ FileOn(vol).there /\ SizeKnown
      BY <1>4, <2>2 DEF SBC_ReadFile, BufferKnown
    <3>2. length' = length \/ length' = FileOn(vol).len
      BY <1>4 DEF SBC_ReadFile
    <3>3. CASE length' = length
      BY <3>1, <3>3, <1>15
    <3>4. CASE length' = FileOn(vol).len
      BY <3>1, <3>4, <1>13 DEF SizeKnown, FileOn, HasFsbl
    <3>. QED  BY <3>2, <3>3, <3>4
  <2>4. op' = op => VerifiedIsSigned'
    BY <1>4, <1>14 DEF SBC_ReadFile
  <2>5. op' = "grub" => VerifiedIsSigned'
    BY <1>4, <1>17, <2>2 DEF SBC_ReadFile
  <2>6. pc' = "trailer" => vol' \in Vol /\ FileOn(vol)'.there
    BY <1>4, <1>13, <2>2 DEF SBC_ReadFile, BufferKnown, FileOn
  <2>7. fsbl_len' \in Nat
    BY <1>4 DEF SBC_ReadFile, BufferKnown
  <2>8. OpKnown'
    BY <1>4, <2>2 DEF SBC_ReadFile
  <2>9. BufferKnown'
    BY <2>1, <2>2, <2>3, <2>6, <2>7 DEF BufferKnown
  <2>. QED  BY <2>2, <2>4, <2>5, <2>8, <2>9, <1>13
<1>5. CASE ParseTrailer
  <2>1. vol \in Vol /\ op = "verify" /\ length \in Nat
    BY <1>5 DEF ParseTrailer, BufferKnown
  <2>2. CASE pc' # "sign"
    BY <1>5, <2>1, <2>2, <1>13, <1>14 DEF ParseTrailer, BufferKnown, Wild
  <2>3. CASE pc' = "sign"
    <3>0. FileOn(vol) = vols[vol].fsbl
      BY <2>1 DEF FileOn
    <3>1. PICK t \in IF AtEnd # {} /\ length >= FSBL_BNIFO_SIZE THEN {e.tail : e \in AtEnd} ELSE Tails :
            fsbl_len' = Minus(length, FSBL_BNIFO_SIZE + t)
      BY <1>5, <2>3 DEF ParseTrailer, Wild
    <3>2. t \in Nat /\ t + 1 < Word
      <4>1. CASE t \in Tails
        BY <4>1, LengthAssumption
      <4>2. CASE \E e \in AtEnd : t = e.tail
        BY <4>2, <3>0, <2>1, FileFacts DEF AtEnd
      <4>. QED  BY <3>1, <4>1, <4>2
    <3>3. fsbl_len' \in Nat
      BY <3>1, <3>2, <2>1, <1>0 DEF Minus, FSBL_BNIFO_SIZE
    <3>4. ASSUME NEW e \in AtEnd
          PROVE  \/ /\ length >= FSBL_BNIFO_SIZE
                    /\ fsbl_len' = Minus(length, FSBL_BNIFO_SIZE + e.tail)
                 \/ length < FSBL_BNIFO_SIZE /\ fsbl_len' > length
      <4>1. CASE length >= FSBL_BNIFO_SIZE
        <5>1. PICK d \in AtEnd : t = d.tail
          BY <3>1, <3>4, <4>1
        <5>2. e.tail = t
          BY <5>1, <3>0, <2>1, FileFacts DEF AtEnd
        <5>. QED  BY <3>1, <4>1, <5>2
      <4>2. CASE length < FSBL_BNIFO_SIZE
        BY <3>1, <3>2, <2>1, <4>2, <1>0 DEF Minus, FSBL_BNIFO_SIZE
      <4>. QED  BY <2>1, <4>1, <4>2 DEF FSBL_BNIFO_SIZE
    <3>5. UNCHANGED <<vols, op, vol, length, ansr>> /\ pc = "trailer"
      BY <1>5 DEF ParseTrailer
    <3>6. AtEnd' = AtEnd /\ FileOn(vol)' = FileOn(vol) /\ SizeKnown' = SizeKnown
      BY <3>5, <1>15, <1>16
    <3>7. BufferKnown'
      BY <2>1, <2>3, <3>3, <3>4, <3>5, <3>6 DEF BufferKnown
    <3>8. VerifiedIsSigned' /\ OpKnown'
      BY <2>1, <2>3, <3>5, <1>14
    <3>. QED  BY <3>5, <3>7, <3>8
  <2>. QED  BY <2>2, <2>3
<1>6. CASE VerifySignature
  <2>1. UNCHANGED <<vols, op, vol, length, fsbl_len, ansr>> /\ pc = "sign"
    BY <1>6 DEF VerifySignature
  <2>2. \/ pc' \in {"fail", "hang"}
        \/ /\ pc' = "answer" /\ fsbl_len <= length
           /\ fsbl_len > 0 /\ \E e \in AtEnd : fsbl_len = e.over
    BY <1>6 DEF VerifySignature, Fail, Wild
  <2>3. AtEnd' = AtEnd /\ FileOn(vol)' = FileOn(vol) /\ SizeKnown' = SizeKnown
    BY <2>1, <1>15, <1>16
  <2>4. BufferKnown'
    BY <2>1, <2>2, <2>3 DEF BufferKnown
  <2>5. VerifiedIsSigned' /\ OpKnown'
    BY <2>1, <2>2, <1>14
  <2>. QED  BY <2>1, <2>4, <2>5
<1>7. CASE ReturnAnswer
  <2>1. CASE pc' = "fail"
    BY <1>7, <2>1, <1>13, <1>14 DEF ReturnAnswer, BufferKnown
  <2>2. CASE pc' # "fail"
    <3>. DEFINE file == vols[vol].fsbl
    <3>1. /\ op = "verify" /\ vol \in Vol /\ file.there /\ SizeKnown
          /\ fsbl_len > 0 /\ fsbl_len <= length /\ length \in Nat /\ fsbl_len \in Nat
      BY <1>7 DEF ReturnAnswer, BufferKnown, FileOn
    <3>2. PICK e \in AtEnd : fsbl_len = e.over
      BY <1>7 DEF ReturnAnswer, BufferKnown
    <3>3. e \in Trailers(file) /\ e.len = length
      BY <3>1 DEF AtEnd, FileOn
    <3>4. e.tail \in Nat /\ FSBL_BNIFO_SIZE + e.tail < Word /\ FSBL_BNIFO_SIZE + e.tail \in Nat
      BY <3>1, <3>3, FileFacts DEF FSBL_BNIFO_SIZE
    <3>5. length >= FSBL_BNIFO_SIZE /\ fsbl_len = Minus(length, FSBL_BNIFO_SIZE + e.tail)
      BY <1>7, <3>1 DEF ReturnAnswer, BufferKnown
    <3>6. FSBL_BNIFO_SIZE + e.tail <= length /\ fsbl_len = length - (FSBL_BNIFO_SIZE + e.tail)
      BY <3>1, <3>4, <3>5, MinusInside
    <3>7. SignedTo(file, length)
      BY <3>1, <3>2, <3>3, <3>6 DEF SignedTo, Proper
    <3>8. \E u \in Vol : HasFsbl(u) /\ vols[u].fsbl.len = length
      BY <3>1, <3>5 DEF SizeKnown, FSBL_BNIFO_SIZE
    <3>9. /\ ansr' = [vol |-> vol, len |-> length] /\ op' = "copy" /\ pc' = "copy"
          /\ UNCHANGED <<vols, length, fsbl_len>>
      BY <1>7, <2>2 DEF ReturnAnswer, Fail
    <3>10. ansr'.vol = vol /\ ansr'.len = length
      BY <3>9
    <3>11. VerifiedIsSigned'
      BY <3>1, <3>7, <3>8, <3>9, <3>10 DEF VerifiedIsSigned, HasFsbl, SignedTo
    <3>. QED  BY <3>1, <3>9, <3>11 DEF BufferKnown
  <2>. QED  BY <2>1, <2>2
<1>8. CASE SetWriteData
  BY <1>8, <1>0, <1>13, <1>14 DEF SetWriteData, BufferKnown, Fail
<1>9. CASE SBC_WriteFile
  <2>1. length' \in Nat
    BY <1>9 DEF SBC_WriteFile, BufferKnown
  <2>2. \/ pc' = "write" /\ op' = op
        \/ pc' = "fail" /\ op' = op
        \/ pc' = "start" /\ op' = "start"
    BY <1>9 DEF SBC_WriteFile, NextVolume, Fail
  <2>. QED  BY <1>9, <2>1, <2>2, <1>13, <1>14, <1>17 DEF SBC_WriteFile, BufferKnown
<1>10. CASE LocateImages
  BY <1>10, <1>13, <1>14 DEF LocateImages, NoImage, BufferKnown
<1>11. CASE LoadImage
  BY <1>11, <1>13, <1>14, <1>17 DEF LoadImage, NoImage, BufferKnown
<1>12. CASE UNCHANGED vars
  BY <1>12, <1>14, <1>15, <1>16 DEF vars, BufferKnown
<1>. QED  BY <1>1, <1>2, <1>3, <1>4, <1>5, <1>6, <1>7, <1>8, <1>9, <1>10, <1>11, <1>12
          DEF Next

(* What SBC_FSBL_Verify accepts is a signed file to its last byte, also    *)
(* when the size query and the read came upon copies on different file     *)
(* systems; of a longer file it is the beginning, and then a copy of that  *)
(* length exists.                                                          *)
THEOREM VerifySound == Spec => []VerifiedIsSigned
<1>1. LoadInv => VerifiedIsSigned
  BY DEF LoadInv
<1>. QED  BY InitLoad, NextLoad, <1>1, PTL DEF Spec

-----------------------------------------------------------------------------
(* Types. *)

(* What was read of FSBL.efi is no longer than a UINT32 can say. *)
LengthKnown == pc \in {"trailer", "sign", "answer"} => length < Word

(* The larger of two lengths. *)
LEMMA MaxOfTwo ==
  ASSUME NEW a \in Nat, NEW b \in Nat
  PROVE  Max({a, b}) \in Nat /\ Max({a, b}) >= a /\ Max({a, b}) >= b
         /\ Max({a, b}) \in {a, b}
<1>1. \E x \in {a, b} : \A y \in {a, b} : x >= y
  OBVIOUS
<1>. QED  BY <1>1 DEF Max

(* What SBC_WriteFile leaves is a file, as long as before or as what was   *)
(* written.                                                                *)
LEMMA OverwriteFile ==
  ASSUME NEW f \in Seq({"old", "new", "junk"}), NEW k \in Nat, NEW n \in Nat
  PROVE  /\ Overwrite(f, k, n) \in Seq({"old", "new", "junk"})
         /\ Len(Overwrite(f, k, n)) = Max({Len(f), n})
<1>1. Len(f) \in Nat
  OBVIOUS
<1>2. PICK m \in Nat : m = Max({Len(f), n})
  BY <1>1, MaxOfTwo
<1>3. \A i \in 1 .. m :
        (IF i <= k THEN "new" ELSE IF i <= Len(f) THEN f[i] ELSE "junk") \in {"old", "new", "junk"}
  BY <1>1
<1>4. Overwrite(f, k, n) =
        [i \in 1 .. m |-> IF i <= k THEN "new" ELSE IF i <= Len(f) THEN f[i] ELSE "junk"]
  BY <1>2 DEF Overwrite
<1>5. /\ [i \in 1 .. m |-> IF i <= k THEN "new" ELSE IF i <= Len(f) THEN f[i] ELSE "junk"]
            \in Seq({"old", "new", "junk"})
      /\ Len([i \in 1 .. m |-> IF i <= k THEN "new" ELSE IF i <= Len(f) THEN f[i] ELSE "junk"]) = m
  BY <1>3
<1>. QED  BY <1>2, <1>4, <1>5

(* A charge for a failing access. *)
LEMMA ChargeTyped ==
  ASSUME faults \in 0 .. MaxFaults, NEW k \in Nat, Charge(k)
  PROVE  faults' \in 0 .. MaxFaults
BY LengthAssumption DEF Charge

(* The number of copies that must fail before file system v is reached:    *)
(* none exactly when there is no earlier one.                              *)
LEMMA CostKnown ==
  ASSUME NEW S \in SUBSET Vol, NEW v \in Vol
  PROVE  /\ IsFiniteSet({u \in S : u < v}) /\ Cardinality({u \in S : u < v}) \in Nat
         /\ Cardinality({u \in S : u < v}) = 0 => \A u \in S : ~(u < v)
<1>1. IsFiniteSet(Vol)
  BY VolumeAssumption, FS_Interval DEF Vol
<1>2. IsFiniteSet({u \in S : u < v})
  BY <1>1, FS_Subset
<1>3. Cardinality({u \in S : u < v}) \in Nat
  BY <1>2, FS_CardinalityType
<1>4. Cardinality({u \in S : u < v}) = 0 => {u \in S : u < v} = {}
  BY <1>2, FS_EmptySet
<1>. QED  BY <1>2, <1>3, <1>4

LEMMA InitTypes == Init => TypeOK /\ LengthKnown
<1>. SUFFICES ASSUME Init PROVE TypeOK /\ LengthKnown
  OBVIOUS
<1>1. \A n \in OldLens : [i \in 1 .. n |-> "old"] \in Seq({"old", "new", "junk"})
  BY LengthAssumption
<1>2. ssbl \in [Vol -> Seq({"old", "new", "junk"})]
  BY <1>1 DEF Init
<1>. QED  BY <1>2, LengthAssumption, VolumeAssumption DEF Init, TypeOK, LengthKnown, NoBuf

LEMMA NextTypes == TypeOK /\ LengthKnown /\ LoadInv /\ [Next]_vars => TypeOK' /\ LengthKnown'
<1>. SUFFICES ASSUME TypeOK, LengthKnown, LoadInv, [Next]_vars PROVE TypeOK' /\ LengthKnown'
  OBVIOUS
<1>. USE DEF LengthKnown
<1>0. /\ Word \in Nat /\ ImgLen \in Nat /\ ImgLen < Word /\ N \in Nat /\ N # 0
      /\ 1 \in Vol /\ Vol \subseteq 0 .. N
  BY LengthAssumption, VolumeAssumption DEF Vol
<1>1. CASE Locate
  BY <1>1, ChargeTyped DEF Locate, TypeOK
<1>2. CASE SBC_GetFileSize
  <2>1. \A v \in Having : v \in Vol /\ LookupCost(v) \in Nat
        /\ FileOn(v).len \in 0 .. Word
    <3>1. ASSUME NEW v \in Having PROVE FileOn(v).len \in 0 .. Word
      <4>1. v \in Vol /\ vols[v] \in Volumes
        BY DEF Having, TypeOK
      <4>2. vols[v].fsbl.len < Word /\ vols[v].kernel.len < Word /\ FileOn(v).len \in Nat
        BY <4>1, LengthAssumption, FileFacts DEF TypeOK
      <4>. QED  BY <4>2, <1>0 DEF FileOn
    <3>. QED  BY <3>1, CostKnown DEF Having, LookupCost
  <2>2. length' \in 0 .. Word
    BY <1>2, <2>1, <1>0 DEF SBC_GetFileSize, TypeOK
  <2>3. faults' \in 0 .. MaxFaults
    <3>1. CASE \E v \in Having : Charge(LookupCost(v)) \/ Charge(LookupCost(v) + 1)
      BY <2>1, <3>1, ChargeTyped DEF TypeOK
    <3>2. CASE Fails(Having # {})
      BY <3>2, ChargeTyped DEF TypeOK, Fails
    <3>. QED  BY <1>2, <3>1, <3>2 DEF SBC_GetFileSize
  <2>. QED  BY <1>2, <2>2, <2>3 DEF SBC_GetFileSize, TypeOK, Fail
<1>3. CASE SBC_FindFileBufHndl
  <2>1. \A v \in Having : v \in Vol /\ LookupCost(v) \in Nat
    BY CostKnown DEF Having, LookupCost
  <2>2. faults' \in 0 .. MaxFaults
    <3>1. CASE \E v \in Having : Charge(LookupCost(v))
      BY <2>1, <3>1, ChargeTyped DEF TypeOK
    <3>2. CASE Fails(Having # {})
      BY <3>2, ChargeTyped DEF TypeOK, Fails
    <3>3. CASE UNCHANGED faults
      BY <3>3 DEF TypeOK
    <3>. QED  BY <1>3, <3>1, <3>2, <3>3 DEF SBC_FindFileBufHndl
  <2>3. vol' \in 0 .. N
    BY <1>3, <2>1, <1>0 DEF SBC_FindFileBufHndl, TypeOK
  <2>4. pc' \in {"read", "hang", "fail"}
    BY <1>3 DEF SBC_FindFileBufHndl, Fail, Wild
  <2>. QED  BY <1>3, <2>2, <2>3, <2>4 DEF SBC_FindFileBufHndl, TypeOK
<1>4. CASE SBC_ReadFile
  <2>1. vol \in Vol /\ op \in {"verify", "kernel"}
    BY <1>4 DEF SBC_ReadFile, LoadInv, BufferKnown, OpKnown
  <2>2. FileOn(vol).len \in Nat /\ FileOn(vol).len < Word
    <3>1. vols[vol] \in Volumes
      BY <2>1 DEF TypeOK
    <3>2. vols[vol].fsbl.len < Word /\ vols[vol].kernel.len < Word
      BY <3>1, LengthAssumption
    <3>. QED  BY <2>1, <3>2, FileFacts DEF FileOn, TypeOK
  <2>3. /\ length' \in 0 .. Word
        /\ pc' = "fail" \/ (length' < Word /\ pc' \in {"trailer", "start", "fail"})
        /\ op' \in {op, "grub"}
    BY <1>4, <2>2, <1>0 DEF SBC_ReadFile, TypeOK, Fail
  <2>4. faults' \in 0 .. MaxFaults
    BY <1>4, ChargeTyped DEF SBC_ReadFile, TypeOK
  <2>. QED  BY <1>4, <2>3, <2>4 DEF SBC_ReadFile, TypeOK
<1>5. CASE ParseTrailer
  <2>1. vol \in Vol /\ op = "verify" /\ length \in Nat /\ length < Word
    BY <1>5 DEF ParseTrailer, LoadInv, BufferKnown, OpKnown
  <2>2. fsbl_len' \in 0 .. Word - 1
    <3>1. CASE UNCHANGED fsbl_len
      BY <3>1 DEF TypeOK
    <3>2. ASSUME NEW t \in IF AtEnd # {} /\ length >= FSBL_BNIFO_SIZE THEN {e.tail : e \in AtEnd} ELSE Tails,
                 fsbl_len' = Minus(length, FSBL_BNIFO_SIZE + t)
          PROVE  fsbl_len' \in 0 .. Word - 1
      <4>1. t \in Nat /\ t + 1 < Word
        <5>1. CASE t \in Tails
          BY <5>1, LengthAssumption
        <5>2. CASE \E e \in AtEnd : t = e.tail
          BY <5>2, <2>1, FileFacts DEF FileOn, AtEnd, TypeOK
        <5>. QED  BY <5>1, <5>2
      <4>. QED  BY <3>2, <4>1, <2>1, <1>0 DEF Minus, FSBL_BNIFO_SIZE
    <3>. QED  BY <1>5, <3>1, <3>2 DEF ParseTrailer
  <2>3. pc' \in {"sign", "hang", "fail"}
    BY <1>5 DEF ParseTrailer, Wild
  <2>. QED  BY <1>5, <2>1, <2>2, <2>3 DEF ParseTrailer, TypeOK
<1>6. CASE VerifySignature
  BY <1>6 DEF VerifySignature, TypeOK, Fail, Wild
<1>7. CASE ReturnAnswer
  <2>1. length \in 0 .. Word - 1
    BY <1>7, <1>0 DEF ReturnAnswer, TypeOK
  <2>2. ansr' \in [vol : 0 .. N, len : 0 .. Word - 1]
    BY <1>7, <2>1 DEF ReturnAnswer, TypeOK
  <2>3. faults' \in 0 .. MaxFaults
    BY <1>7, ChargeTyped DEF ReturnAnswer, TypeOK
  <2>. QED  BY <1>7, <2>2, <2>3 DEF ReturnAnswer, TypeOK, Fail
<1>8. CASE SetWriteData
  <2>1. faults' \in 0 .. MaxFaults
    BY <1>8, ChargeTyped DEF SetWriteData, TypeOK
  <2>2. length' \in 0 .. Word /\ vol' \in 0 .. N
    BY <1>8, <1>0 DEF SetWriteData, TypeOK
  <2>. QED  BY <1>8, <2>1, <2>2 DEF SetWriteData, TypeOK, Fail
<1>9. CASE SBC_WriteFile
  <2>1. faults' \in 0 .. MaxFaults
    BY <1>9, ChargeTyped DEF SBC_WriteFile, TypeOK, Fails
  <2>2. length' \in 0 .. Word
    BY <1>9, <1>0 DEF SBC_WriteFile, TypeOK
  <2>3. vol' \in 0 .. N /\ copied' \in 0 .. N
    BY <1>9, <1>0 DEF SBC_WriteFile, NextVolume, TypeOK
  <2>4. ssbl' \in [Vol -> Seq({"old", "new", "junk"})]
    <3>. DEFINE Files == Seq({"old", "new", "junk"})
    <3>1. length \in Nat /\ ssbl \in [Vol -> Files]
      BY <1>0 DEF TypeOK
    <3>2. ASSUME NEW k \in Nat, NEW v \in Vol
          PROVE  Overwrite(ssbl[v], k, length) \in Files
      <4>1. ssbl[v] \in Files
        BY <3>1
      <4>. QED  BY <3>1, <4>1, OverwriteFile
    <3>3. \/ ssbl' = ssbl
          \/ \E k \in Nat : ssbl' = [ssbl EXCEPT ![vol] = Overwrite(ssbl[vol], k, length)]
      BY <1>9, <1>0 DEF SBC_WriteFile, TypeOK
    <3>. HIDE DEF Files
    <3>4. ssbl' \in [Vol -> Files]
      BY <3>1, <3>2, <3>3
    <3>. QED  BY <3>4 DEF Files
  <2>5. \/ pc' \in {"write", "fail"} /\ op' = op
        \/ pc' = "start" /\ op' = "start"
    BY <1>9 DEF SBC_WriteFile, NextVolume, Fail
  <2>. QED  BY <1>9, <2>1, <2>2, <2>3, <2>4, <2>5 DEF SBC_WriteFile, TypeOK
<1>10. CASE LocateImages
  <2>1. faults' \in 0 .. MaxFaults
    BY <1>10, ChargeTyped DEF LocateImages, TypeOK
  <2>. QED  BY <1>10, <2>1, <1>0 DEF LocateImages, NoImage, TypeOK
<1>11. CASE LoadImage
  <2>1. faults' \in 0 .. MaxFaults
    BY <1>11, ChargeTyped DEF LoadImage, TypeOK, Fails
  <2>2. vol' \in 0 .. N
    BY <1>11, <1>0 DEF LoadImage, TypeOK
  <2>. QED  BY <1>11, <2>1, <2>2 DEF LoadImage, NoImage, TypeOK
<1>12. CASE UNCHANGED vars
  BY <1>12 DEF vars, TypeOK
<1>. QED  BY <1>1, <1>2, <1>3, <1>4, <1>5, <1>6, <1>7, <1>8, <1>9, <1>10, <1>11, <1>12
          DEF Next

(* Lengths stay within a UINT32, and a UINTN with stray upper bits is      *)
(* never one that is read; file system numbers stay within the handles.    *)
THEOREM FilesTyped == Spec => []TypeOK
<1>1. Spec => [](TypeOK /\ LengthKnown /\ LoadInv)
  BY InitTypes, NextTypes, InitLoad, NextLoad, PTL DEF Spec
<1>. QED  BY <1>1, PTL

-----------------------------------------------------------------------------
(* Boots in which nothing fails. *)

(* A file system before which there is no other one is the first. *)
LEMMA FirstIs ==
  ASSUME NEW S \in SUBSET Vol, NEW v \in S, Cardinality({u \in S : u < v}) = 0
  PROVE  v = Min(S)
<1>1. \A u \in S : ~(u < v)
  BY CostKnown
<1>2. \A u \in S : u \in Int
  BY VolumeAssumption DEF Vol
<1>3. \A u \in S : v <= u
  BY <1>1, <1>2
<1>. QED  BY <1>2, <1>3 DEF Min

(* Failing accesses are counted and never forgotten. *)
LEMMA FaultsStay ==
  ASSUME TypeOK, LoadInv, [Next]_vars
  PROVE  faults' \in Nat /\ faults' >= faults /\ (faults' = 0 => faults = 0)
<1>0. faults \in Nat
  BY LengthAssumption DEF TypeOK
<1>1. \A v \in Having : LookupCost(v) \in Nat
  BY CostKnown DEF Having, LookupCost
<1>2. \A k \in Nat : Charge(k) => faults' \in Nat /\ faults' >= faults
  BY <1>0 DEF Charge
<1>3. \/ UNCHANGED faults
      \/ Charge(1)
      \/ \E v \in Having : Charge(LookupCost(v)) \/ Charge(LookupCost(v) + 1)
  BY DEF Next, vars, Locate, SBC_GetFileSize, SBC_FindFileBufHndl, SBC_ReadFile, ParseTrailer,
         VerifySignature, ReturnAnswer, SetWriteData, SBC_WriteFile, LocateImages, LoadImage, Fails
<1>4. faults' \in Nat /\ faults' >= faults
  BY <1>0, <1>1, <1>2, <1>3
<1>. QED  BY <1>0, <1>4

(* What a boot without a failure knows of the file it works on: it is the  *)
(* first one, and the length is that file's.                               *)
LoadKnown ==
  faults = 0 =>
    /\ hndl
    /\ pc \in {"find", "read", "trailer", "sign", "answer"} =>
         Having # {} /\ length = FileOn(Min(Having)).len
    /\ pc \in {"read", "trailer", "sign", "answer"} => vol = Min(Having)
    /\ LoadContract

(* The copies of the file an operation looks for. *)
LEMMA HavingIs ==
  /\ op = "verify" => Having = {v \in Vol : HasFsbl(v)}
  /\ op # "verify" => Having = {v \in Vol : HasKernel(v)}
BY DEF Having, FileOn, HasFsbl, HasKernel

(* What is signed to the end of the file is a signed file. *)
LEMMA SignedWhole ==
  ASSUME vols \in [Vol -> Volumes], NEW v \in Vol, SignedTo(vols[v].fsbl, vols[v].fsbl.len)
  PROVE  Signed(vols[v].fsbl)
<1>. DEFINE f == vols[v].fsbl
<1>1. PICK e \in Trailers(f) : e.len = f.len /\ Proper(e)
  BY DEF SignedTo
<1>2. f \in Trailers(f)
  BY DEF Trailers
<1>3. e.tail = f.tail /\ e.over = f.over
  BY <1>1, <1>2, FileFacts
<1>. QED  BY <1>1, <1>3 DEF Signed, SignedTo, Proper

LEMMA InitLoadKnown == Init => LoadKnown
BY DEF Init, LoadKnown, LoadContract

LEMMA NextLoadKnown ==
  ASSUME TypeOK, LoadInv, LoadInv', LoadKnown, [Next]_vars
  PROVE  LoadKnown'
<1>. SUFFICES ASSUME faults' = 0 PROVE LoadKnown'
  BY DEF LoadKnown
<1>. DEFINE F == FirstWith(HasFsbl)
            K == FirstWith(HasKernel)
<1>1. faults = 0 /\ hndl
  BY FaultsStay DEF LoadKnown
<1>2. vols' = vols
  BY DEF Next, vars, Locate, SBC_GetFileSize, SBC_FindFileBufHndl, SBC_ReadFile, ParseTrailer,
         VerifySignature, ReturnAnswer, SetWriteData, SBC_WriteFile, LocateImages, LoadImage
<1>0. F' = F /\ K' = K
      /\ \A v \in Vol : HasFsbl(v)' = HasFsbl(v) /\ HasKernel(v)' = HasKernel(v)
  BY <1>2 DEF FirstWith, HasFsbl, HasKernel
<1>3. ASSUME op' = op
      PROVE  /\ Having' = Having /\ Min(Having)' = Min(Having)
             /\ FileOn(Min(Having))' = FileOn(Min(Having))
  BY <1>2, <1>3 DEF Having, FileOn
<1>4. /\ op = "verify" => F = Min(Having)
      /\ op # "verify" => K = Min(Having)
  BY HavingIs DEF FirstWith
<1>5. \A k \in Nat : Charge(k) => k = 0
  BY <1>1 DEF Charge
<1>6. ~Charge(1)
  BY <1>5
<1>7. ASSUME NEW v \in Having, Charge(LookupCost(v)) PROVE v = Min(Having)
  <2>1. LookupCost(v) \in Nat
    BY CostKnown DEF Having, LookupCost
  <2>2. LookupCost(v) = 0
    BY <1>5, <1>7, <2>1
  <2>. QED  BY <2>2, FirstIs DEF LookupCost, Having
<1>8. ASSUME NEW v \in Having PROVE ~Charge(LookupCost(v) + 1)
  <2>1. LookupCost(v) \in Nat
    BY CostKnown DEF Having, LookupCost
  <2>2. LookupCost(v) + 1 \in Nat /\ LookupCost(v) + 1 # 0
    BY <2>1
  <2>. QED  BY <1>5, <2>2
<1>9. \A v \in Vol : HasFsbl(v) <=> vols[v].fsbl.there
  BY DEF HasFsbl
<1>13. hndl'
  <2>1. hndl' = hndl \/ Charge(1)
    BY DEF Next, vars, Locate, SBC_GetFileSize, SBC_FindFileBufHndl, SBC_ReadFile, ParseTrailer,
         VerifySignature, ReturnAnswer, SetWriteData, SBC_WriteFile, LocateImages, LoadImage
  <2>. QED  BY <2>1, <1>1, <1>6
<1>. HIDE DEF F, K
<1>10. SUFFICES /\ pc' \in {"find", "read", "trailer", "sign", "answer"} =>
                     Having' # {} /\ length' = FileOn(Min(Having))'.len
                /\ pc' \in {"read", "trailer", "sign", "answer"} => vol' = Min(Having)'
                /\ op' = "verify" /\ pc' = "fail" /\ (\E v \in Vol : HasFsbl(v)) => ~Signed(vols[F].fsbl)
                /\ op' # "verify" => ansr' = [vol |-> F, len |-> vols[F].fsbl.len] /\ Signed(vols[F].fsbl)
                /\ pc' = "hang" => vols[F].fsbl.len < FSBL_BNIFO_SIZE + vols[F].fsbl.tail
                /\ op' = "grub" => length' = vols[K].kernel.len
                /\ op' = "grub" /\ pc' = "start" => vol' = K
                /\ op' = "kernel" /\ pc' = "fail" /\ (\E v \in Vol : HasKernel(v)) => vols[K].kernel.len = 0
  BY <1>2, <1>0, <1>13 DEF LoadKnown, LoadContract, F, K, Signed, Proper
<1>11. /\ pc \in {"find", "read", "trailer", "sign", "answer"} =>
            Having # {} /\ length = FileOn(Min(Having)).len
       /\ pc \in {"read", "trailer", "sign", "answer"} => vol = Min(Having)
       /\ op = "verify" /\ pc = "fail" /\ (\E v \in Vol : HasFsbl(v)) => ~Signed(vols[F].fsbl)
       /\ op # "verify" => ansr = [vol |-> F, len |-> vols[F].fsbl.len] /\ Signed(vols[F].fsbl)
       /\ pc = "hang" => vols[F].fsbl.len < FSBL_BNIFO_SIZE + vols[F].fsbl.tail
       /\ op = "grub" => length = vols[K].kernel.len
       /\ op = "grub" /\ pc = "start" => vol = K
       /\ op = "kernel" /\ pc = "fail" /\ (\E v \in Vol : HasKernel(v)) => vols[K].kernel.len = 0
  BY <1>1 DEF LoadKnown, LoadContract, F, K
<1>12. OpKnown /\ OpKnown'
  BY DEF LoadInv
<1>. USE DEF OpKnown
<1>a. CASE Locate
  BY <1>a, <1>11, <1>12 DEF Locate
<1>b. CASE SBC_GetFileSize
  <2>1. op' = op /\ UNCHANGED <<vol, ansr>> /\ op \in {"verify", "kernel"}
    BY <1>b, <1>12 DEF SBC_GetFileSize
  <2>2. \/ pc' = "find" /\ Having # {} /\ length' = FileOn(Min(Having)).len
        \/ pc' = "fail" /\ Having = {} /\ length' = length
    BY <1>b, <1>6, <1>7, <1>8 DEF SBC_GetFileSize, Fails, Fail
  <2>. QED  BY <2>1, <2>2, <1>1, <1>3, <1>11, HavingIs
<1>c. CASE SBC_FindFileBufHndl
  BY <1>c, <1>1, <1>2, <1>3, <1>6, <1>7, <1>8, <1>11, <1>12, HavingIs DEF SBC_FindFileBufHndl, Fails, Fail
<1>d. CASE SBC_ReadFile
  BY <1>d, <1>1, <1>2, <1>3, <1>4, <1>6, <1>11, <1>12 DEF SBC_ReadFile, Fail, FileOn
<1>e. CASE ParseTrailer
  <2>1. op = "verify" /\ op' = op /\ pc = "trailer" /\ UNCHANGED <<length, vol, ansr>>
    BY <1>e, <1>12 DEF ParseTrailer
  <2>2. vol = F /\ F \in Vol /\ length = vols[F].fsbl.len
    BY <1>e, <2>1, <1>4, <1>11 DEF ParseTrailer, FileOn, LoadInv, BufferKnown
  <2>3. vols[F].fsbl.tail \in Nat /\ vols[F].fsbl.len \in Nat
    BY <2>2, FileFacts DEF LoadInv, File
  <2>4. \/ pc' = "sign"
        \/ pc' \in {"hang", "fail"} /\ vols[F].fsbl.len < FSBL_BNIFO_SIZE + vols[F].fsbl.tail
    BY <1>e, <2>2, <2>3 DEF ParseTrailer, Wild, FSBL_BNIFO_SIZE
  <2>5. pc' # "sign" => ~Signed(vols[F].fsbl)
    BY <2>3, <2>4 DEF Signed, Proper, FSBL_BNIFO_SIZE
  <2>6. Having' = Having /\ Min(Having)' = Min(Having) /\ FileOn(Min(Having))' = FileOn(Min(Having))
    BY <2>1, <1>3
  <2>. QED  BY <2>1, <2>4, <2>5, <2>6, <1>11
<1>f. CASE VerifySignature
  <2>1. op = "verify" /\ op' = op /\ pc = "sign" /\ UNCHANGED <<length, vol, ansr>>
    BY <1>f, <1>12 DEF VerifySignature
  <2>2. vol = F /\ F \in Vol /\ length = vols[F].fsbl.len /\ FileOn(vol) = vols[F].fsbl
    BY <1>f, <2>1, <1>4, <1>11 DEF VerifySignature, FileOn, LoadInv, BufferKnown
  <2>3. /\ vols[F].fsbl.tail \in Nat /\ vols[F].fsbl.len \in Nat /\ Word \in Nat
        /\ FSBL_BNIFO_SIZE + vols[F].fsbl.tail \in Nat
        /\ FSBL_BNIFO_SIZE + vols[F].fsbl.tail < Word
    BY <2>2, FileFacts, LengthAssumption DEF LoadInv, File, FSBL_BNIFO_SIZE
  <2>4. vols[F].fsbl \in AtEnd
    BY <2>2 DEF AtEnd, Trailers
  <2>5. \/ /\ length >= FSBL_BNIFO_SIZE
           /\ fsbl_len = Minus(length, FSBL_BNIFO_SIZE + vols[F].fsbl.tail)
        \/ fsbl_len > length /\ length < FSBL_BNIFO_SIZE
    BY <1>f, <2>2, <2>4 DEF VerifySignature, LoadInv, BufferKnown
  <2>6. Signed(vols[F].fsbl) =>
          fsbl_len = vols[F].fsbl.over /\ fsbl_len > 0 /\ fsbl_len <= length
    BY <2>2, <2>3, <2>5 DEF Signed, Proper, Minus, FSBL_BNIFO_SIZE
  <2>7. fsbl_len > length => vols[F].fsbl.len < FSBL_BNIFO_SIZE + vols[F].fsbl.tail
    BY <2>2, <2>3, <2>5 DEF Minus, FSBL_BNIFO_SIZE
  <2>8. length \in Nat /\ fsbl_len \in Nat
    BY DEF LoadInv, BufferKnown
  <2>9. \/ pc' = "answer"
        \/ pc' = "fail" /\ ~Signed(vols[F].fsbl)
        \/ pc' = "hang" /\ fsbl_len > length
    BY <1>f, <2>2, <2>4, <2>6, <2>8 DEF VerifySignature, Fail, Wild
  <2>10. Having' = Having /\ Min(Having)' = Min(Having) /\ FileOn(Min(Having))' = FileOn(Min(Having))
    BY <2>1, <1>3
  <2>. QED  BY <2>1, <2>7, <2>9, <2>10, <1>11
<1>g. CASE ReturnAnswer
  <2>1. op = "verify" /\ pc = "answer" /\ vol = F /\ F \in Vol /\ length = vols[F].fsbl.len
    BY <1>g, <1>4, <1>11, <1>12 DEF ReturnAnswer, FileOn, LoadInv, BufferKnown
  <2>2. pc' = "copy" /\ op' = "copy" /\ ansr' = [vol |-> F, len |-> vols[F].fsbl.len]
    BY <1>g, <1>6, <2>1 DEF ReturnAnswer
  <2>3. ansr'.vol = F /\ ansr'.len = vols[F].fsbl.len
    BY <2>2
  <2>4. SignedTo(vols[F].fsbl, vols[F].fsbl.len)
    BY <1>2, <2>2, <2>3 DEF LoadInv, VerifiedIsSigned, SignedTo
  <2>. QED  BY <2>1, <2>2, <2>4, SignedWhole DEF LoadInv
<1>h. CASE SetWriteData
  BY <1>h, <1>1, <1>6, <1>11, <1>12 DEF SetWriteData, Fail
<1>i. CASE SBC_WriteFile
  <2>1. /\ op = "copy" /\ UNCHANGED ansr
        /\ pc' \in {"write", "fail", "start"} /\ op' \in {"copy", "start"}
    BY <1>i, <1>12 DEF SBC_WriteFile, NextVolume, Fail
  <2>. QED  BY <2>1, <1>1, <1>11, <1>12
<1>j. CASE LocateImages
  BY <1>j, <1>1, <1>6, <1>11, <1>12 DEF LocateImages
<1>k. CASE LoadImage
  BY <1>k, <1>1, <1>6, <1>11, <1>12 DEF LoadImage, NoImage
<1>l. CASE UNCHANGED vars
  <2>1. UNCHANGED <<pc, op, length, vol, ansr>>
    BY <1>l DEF vars
  <2>2. Having' = Having /\ Min(Having)' = Min(Having) /\ FileOn(Min(Having))' = FileOn(Min(Having))
    BY <2>1, <1>3
  <2>. QED  BY <2>1, <2>2, <1>11
<1>. QED  BY <1>a, <1>b, <1>c, <1>d, <1>e, <1>f, <1>g, <1>h, <1>i, <1>j, <1>k, <1>l DEF Next

-----------------------------------------------------------------------------
(* The copy of the SSBL. *)

AllOld == \A v \in Vol : \A i \in 1 .. Len(ssbl[v]) : ssbl[v][i] = "old"

(* Until the write succeeds nothing has changed, and the file systems gone *)
(* by could not be opened.                                                 *)
CopyKnown ==
  faults = 0 /\ (\A v \in Vol : vols[v].kind # "full") =>
    /\ op = "verify" \/ pc \in {"copy", "write"} => AllOld
    /\ pc = "write" =>
         /\ length = ImgLen /\ vol \in Vol
         /\ \A u \in Vol : u < vol => vols[u].kind = "closed"
    /\ CopyContract

LEMMA InitCopyKnown == Init => CopyKnown
<1>. SUFFICES ASSUME Init PROVE CopyKnown
  OBVIOUS
<1>1. AllOld
  BY LengthAssumption DEF Init, AllOld
<1>. QED  BY <1>1 DEF Init, CopyKnown, CopyContract

LEMMA NextCopyKnown ==
  ASSUME TypeOK, LoadInv, CopyKnown, [Next]_vars
  PROVE  CopyKnown'
<1>0. vols' = vols
  BY DEF Next, vars, Locate, SBC_GetFileSize, SBC_FindFileBufHndl, SBC_ReadFile, ParseTrailer,
         VerifySignature, ReturnAnswer, SetWriteData, SBC_WriteFile, LocateImages, LoadImage
<1>. SUFFICES ASSUME faults' = 0, \A v \in Vol : vols[v].kind # "full" PROVE CopyKnown'
  BY <1>0 DEF CopyKnown
<1>. DEFINE open == {v \in Vol : vols[v].kind # "closed"}
            Whole1 == /\ copied = Min(open) /\ Len(ssbl[copied]) >= ImgLen
                      /\ \A v \in Vol : \A i \in 1 .. Len(ssbl[v]) :
                           ssbl[v][i] = IF v = copied /\ i <= ImgLen THEN "new" ELSE "old"
<1>1. faults = 0 /\ ~Charge(1)
  BY FaultsStay DEF Charge
<1>2. open' = open
  BY <1>0
<1>3. /\ op = "verify" \/ pc \in {"copy", "write"} => AllOld
      /\ pc = "write" => /\ length = ImgLen /\ vol \in Vol
                         /\ \A u \in Vol : u < vol => vols[u].kind = "closed"
      /\ op = "copy" /\ pc = "fail" => open = {}
      /\ op \notin {"verify", "copy"} => Whole1
  BY <1>1 DEF CopyKnown, CopyContract
<1>4. SUFFICES
        /\ op' = "verify" \/ pc' \in {"copy", "write"} => AllOld'
        /\ pc' = "write" => /\ length' = ImgLen /\ vol' \in Vol
                            /\ \A u \in Vol : u < vol' => vols[u].kind = "closed"
        /\ op' = "copy" /\ pc' = "fail" => open = {}
        /\ op' \notin {"verify", "copy"} => Whole1'
  BY <1>0 DEF CopyKnown, CopyContract
<1>5. OpKnown /\ OpKnown'
  BY NextLoad DEF LoadInv
<1>6. UNCHANGED <<ssbl, copied>> => AllOld' = AllOld /\ Whole1' = Whole1
  BY <1>0 DEF AllOld
<1>. HIDE DEF Whole1
<1>7. N \in Nat /\ Vol = 1 .. N /\ ImgLen \in Nat /\ ImgLen < Word /\ Word \in Nat /\ 1 \in Vol
  BY VolumeAssumption, LengthAssumption DEF Vol
<1>a. CASE SetWriteData
  <2>1. /\ pc = "copy" /\ op' = op /\ vol' = 1 /\ length' = ImgLen /\ pc' = "write"
        /\ UNCHANGED <<ssbl, copied>> /\ op = "copy"
    BY <1>a, <1>1, <1>5 DEF SetWriteData, OpKnown
  <2>2. \A u \in Vol : ~(u < 1)
    BY <1>7
  <2>. QED  BY <2>1, <2>2, <1>3, <1>6, <1>7
<1>b. CASE SBC_WriteFile
  <2>1. /\ pc = "write" /\ op = "copy" /\ AllOld /\ length = ImgLen /\ vol \in Vol
        /\ \A u \in Vol : u < vol => vols[u].kind = "closed"
    BY <1>b, <1>3, <1>5 DEF SBC_WriteFile, OpKnown
  <2>2. Fits(vol)
    BY <2>1, <1>7 DEF Fits
  <2>3. CASE vols[vol].kind = "closed"
    <3>1. NextVolume /\ UNCHANGED <<ssbl, length, copied, op>>
      BY <1>b, <2>3 DEF SBC_WriteFile
    <3>2. CASE vol < N
      <4>1. vol' = vol + 1 /\ pc' = "write" /\ vol' \in Vol
        BY <3>1, <3>2, <2>1, <1>7 DEF NextVolume
      <4>2. \A u \in Vol : u < vol' => vols[u].kind = "closed"
        BY <4>1, <2>1, <2>3, <1>7
      <4>. QED  BY <2>1, <3>1, <4>1, <4>2, <1>6
    <3>3. CASE ~(vol < N)
      <4>1. pc' = "fail"
        BY <3>1, <3>3 DEF NextVolume, Fail
      <4>2. vol = N
        BY <3>3, <2>1, <1>7
      <4>3. \A u \in Vol : vols[u].kind = "closed"
        BY <4>2, <2>1, <2>3, <1>7
      <4>. QED  BY <2>1, <3>1, <4>1, <4>3
    <3>. QED  BY <3>2, <3>3
  <2>4. CASE vols[vol].kind # "closed"
    <3>1. /\ ssbl' = [ssbl EXCEPT ![vol] = Overwrite(ssbl[vol], ImgLen, ImgLen)]
          /\ copied' = vol /\ op' = "start" /\ pc' = "start"
      BY <1>b, <1>1, <2>1, <2>2, <2>4 DEF SBC_WriteFile, Fails
    <3>2. vol = Min(open)
      <4>1. vol \in open /\ \A u \in open : u \in Int /\ vol <= u
        BY <2>1, <2>4, <1>7
      <4>2. ASSUME NEW w \in open, \A u \in open : w <= u PROVE w = vol
        <5>1. w <= vol /\ vol <= w /\ w \in Int /\ vol \in Int
          BY <4>1, <4>2
        <5>. QED  BY <5>1
      <4>. QED  BY <4>1, <4>2 DEF Min
    <3>3. ssbl[vol] \in Seq({"old", "new", "junk"}) /\ Len(ssbl[vol]) \in Nat
      BY <2>1 DEF TypeOK
    <3>4. PICK m \in Nat : m = Max({Len(ssbl[vol]), ImgLen})
      BY <3>3, <1>7, MaxOfTwo
    <3>5. m >= ImgLen /\ m >= Len(ssbl[vol]) /\ m \in {Len(ssbl[vol]), ImgLen}
      BY <3>3, <3>4, <1>7, MaxOfTwo
    <3>6. Len(Overwrite(ssbl[vol], ImgLen, ImgLen)) = m
      BY <3>3, <3>4, <1>7, OverwriteFile
    <3>7. \A i \in 1 .. m :
            Overwrite(ssbl[vol], ImgLen, ImgLen)[i] = IF i <= ImgLen THEN "new" ELSE "old"
      <4>1. ASSUME NEW i \in 1 .. m, ~(i <= ImgLen) PROVE i <= Len(ssbl[vol]) /\ ssbl[vol][i] = "old"
        BY <4>1, <3>3, <3>5, <2>1, <1>7 DEF AllOld
      <4>. QED  BY <3>4, <4>1 DEF Overwrite
    <3>8. ssbl'[vol] = Overwrite(ssbl[vol], ImgLen, ImgLen)
          /\ \A v \in Vol : v # vol => ssbl'[v] = ssbl[v]
      BY <3>1, <2>1 DEF TypeOK
    <3>9. Whole1'
      <4>1. copied' = vol /\ vol = Min(open) /\ Len(ssbl'[vol]) >= ImgLen
        BY <3>1, <3>2, <3>5, <3>6, <3>8
      <4>2. ASSUME NEW v \in Vol, NEW i \in 1 .. Len(ssbl'[v])
            PROVE  ssbl'[v][i] = IF v = vol /\ i <= ImgLen THEN "new" ELSE "old"
        <5>1. CASE v = vol
          BY <5>1, <3>6, <3>7, <3>8
        <5>2. CASE v # vol
          BY <5>2, <3>8, <2>1 DEF AllOld
        <5>. QED  BY <5>1, <5>2
      <4>. QED  BY <4>1, <4>2, <1>2 DEF Whole1
    <3>. QED  BY <3>1, <3>9
  <2>. QED  BY <2>3, <2>4
<1>c. CASE ~SetWriteData /\ ~SBC_WriteFile
  <2>1. /\ UNCHANGED <<ssbl, copied>>
        /\ pc' # "write" \/ UNCHANGED <<pc, length, vol>>
        /\ op' = "verify" => op = "verify"
        /\ pc' = "copy" => op = "verify" \/ pc = "copy"
        /\ op' = "copy" /\ pc' = "fail" => op = "copy" /\ pc = "fail"
        /\ op' \notin {"verify", "copy"} => op \notin {"verify", "copy"}
    BY <1>c, <1>5
    DEF Next, vars, Locate, SBC_GetFileSize, SBC_FindFileBufHndl, SBC_ReadFile, ParseTrailer,
        VerifySignature, ReturnAnswer, LocateImages, LoadImage, NoImage, Fail, Wild, OpKnown
  <2>. QED  BY <2>1, <1>3, <1>6
<1>. QED  BY <1>a, <1>b, <1>c

-----------------------------------------------------------------------------
(* Starting an image. *)

(* The loop has gone by file systems without the image, and by no more     *)
(* with it than accesses have failed.                                      *)
StartKnown ==
  /\ pc = "load" =>
       vol \in Vol /\ Cardinality({u \in {v \in Vol : Loadable(v)} : u < vol}) <= faults
  /\ StartContract

(* One more file system gone by. *)
LEMMA CostStep ==
  ASSUME NEW S \in SUBSET Vol, NEW v \in Vol
  PROVE  /\ v \notin S => {u \in S : u < v + 1} = {u \in S : u < v}
         /\ Cardinality({u \in S : u < v + 1}) <= Cardinality({u \in S : u < v}) + 1
         /\ v = N => {u \in S : u < v + 1} = S
<1>1. \A u \in S : u \in Int /\ u <= N /\ v \in Int
  BY VolumeAssumption DEF Vol
<1>2. v \notin S => {u \in S : u < v + 1} = {u \in S : u < v}
  BY <1>1
<1>3. v \in S => {u \in S : u < v + 1} = {u \in S : u < v} \cup {v}
  BY <1>1
<1>4. IsFiniteSet({u \in S : u < v}) /\ Cardinality({u \in S : u < v}) \in Nat
  BY CostKnown
<1>5. v \notin {u \in S : u < v}
  BY VolumeAssumption DEF Vol
<1>6. Cardinality({u \in S : u < v} \cup {v}) = Cardinality({u \in S : u < v}) + 1
  BY <1>4, <1>5, FS_AddElement
<1>7. v = N => {u \in S : u < v + 1} = S
  BY <1>1
<1>8. Cardinality({u \in S : u < v + 1}) <= Cardinality({u \in S : u < v}) + 1
  <2>. DEFINE below == {u \in S : u < v}
              upto == {u \in S : u < v + 1}
  <2>1. upto = below \/ upto = below \cup {v}
    BY <1>2, <1>3
  <2>2. Cardinality(below) \in Nat /\ Cardinality(below \cup {v}) = Cardinality(below) + 1
    BY <1>4, <1>6
  <2>. HIDE DEF below, upto
  <2>3. Cardinality(upto) <= Cardinality(below) + 1
    <3>1. CASE upto = below
      BY <2>2, <3>1
    <3>2. CASE upto = below \cup {v}
      <4>1. Cardinality(upto) = Cardinality(below) + 1
        BY <2>2, <3>2
      <4>. QED  BY <4>1, <2>2
    <3>. QED  BY <2>1, <3>1, <3>2
  <2>. QED  BY <2>3 DEF below, upto
<1>. QED  BY <1>2, <1>7, <1>8

LEMMA InitStartKnown == Init => StartKnown
BY DEF Init, StartKnown, StartContract

LEMMA NextStartKnown ==
  ASSUME TypeOK, LoadInv, StartKnown, [Next]_vars
  PROVE  StartKnown'
<1>. DEFINE Having1 == {v \in Vol : Loadable(v)}
            SsblFirst == Min({v \in Vol : vols[v].ssbl})
<1>0. vols' = vols /\ SsblFirst' = SsblFirst
  BY DEF Next, vars, Locate, SBC_GetFileSize, SBC_FindFileBufHndl, SBC_ReadFile, ParseTrailer,
         VerifySignature, ReturnAnswer, SetWriteData, SBC_WriteFile, LocateImages, LoadImage
<1>1. ASSUME op' = op PROVE Having1' = Having1
  BY <1>0, <1>1 DEF Loadable
<1>2. faults \in Nat /\ faults' \in Nat /\ (faults' = 0 => faults = 0)
  BY FaultsStay, LengthAssumption DEF TypeOK
<1>3. OpKnown /\ OpKnown'
  BY NextLoad DEF LoadInv
<1>4. N \in Nat /\ Vol = 1 .. N /\ 1 \in Vol
  BY VolumeAssumption DEF Vol
<1>5. /\ pc = "load" => vol \in Vol /\ Cardinality({u \in Having1 : u < vol}) <= faults
      /\ pc = "returned" \/ (op = "start" /\ pc = "fail") => ~hndl \/ Cardinality(Having1) <= faults
      /\ faults = 0 /\ op = "kernel" => running = SsblFirst
      /\ faults = 0 /\ pc = "done" => running = Min(Having1)
  BY DEF StartKnown, StartContract
<1>6. SUFFICES
        /\ pc' = "load" => vol' \in Vol /\ Cardinality({u \in Having1' : u < vol'}) <= faults'
        /\ pc' = "returned" \/ (op' = "start" /\ pc' = "fail") =>
             ~hndl' \/ Cardinality(Having1') <= faults'
        /\ faults' = 0 /\ op' = "kernel" => running' = SsblFirst'
        /\ faults' = 0 /\ pc' = "done" => running' = Min(Having1')
  BY DEF StartKnown, StartContract
<1>7. Having1 \in SUBSET Vol /\ Having1' \in SUBSET Vol
  OBVIOUS
<1>8. op = "start" => Having1 = {v \in Vol : vols[v].ssbl}
  BY DEF Loadable
<1>. HIDE DEF Having1, SsblFirst
<1>a. CASE LocateImages
  <2>1. CASE pc' = "load"
    <3>1. vol' = 1 /\ op' = op
      BY <1>a, <2>1 DEF LocateImages, NoImage
    <3>2. {u \in Having1' : u < 1} = {}
      <4>1. \A u \in Having1' : u \in Int /\ ~(u < 1)
        BY <1>4, <1>7
      <4>. QED  BY <4>1
    <3>3. Cardinality({u \in Having1' : u < 1}) = 0
      BY <3>2, FS_EmptySet
    <3>. QED  BY <2>1, <3>1, <3>3, <1>2, <1>3, <1>4 DEF OpKnown
  <2>2. CASE pc' # "load"
    <3>1. hndl' = FALSE /\ op' = op /\ op # "kernel" /\ pc' # "done"
      BY <1>a, <2>2, <1>3 DEF LocateImages, NoImage, OpKnown
    <3>. QED  BY <2>2, <3>1
  <2>. QED  BY <2>1, <2>2
<1>b. CASE LoadImage
  <2>1. vol \in Vol /\ Cardinality({u \in Having1 : u < vol}) <= faults /\ pc = "load"
    BY <1>b, <1>5 DEF LoadImage
  <2>2. op \in {"start", "grub"}
    BY <2>1, <1>3 DEF OpKnown
  <2>3. Loadable(vol) <=> vol \in Having1
    BY <2>1 DEF Having1
  <2>4. Cardinality({u \in Having1 : u < vol}) \in Nat
        /\ Cardinality({u \in Having1 : u < vol + 1}) <= Cardinality({u \in Having1 : u < vol}) + 1
        /\ (vol \notin Having1 => {u \in Having1 : u < vol + 1} = {u \in Having1 : u < vol})
        /\ (vol = N => {u \in Having1 : u < vol + 1} = Having1)
    BY <2>1, <1>7, CostKnown, CostStep
  <2>5. CASE pc' \in {"size", "done"}
    <3>1. Loadable(vol) /\ running' = vol /\ UNCHANGED faults
          /\ (op = "start" => op' = "kernel" /\ pc' = "size")
          /\ (op # "start" => op' = "grub" /\ pc' = "done")
      BY <1>b, <2>1, <2>2, <2>5 DEF LoadImage, NoImage
    <3>2. faults = 0 => vol = Min(Having1)
      <4>1. faults = 0 => Cardinality({u \in Having1 : u < vol}) = 0
        BY <2>1, <2>4
      <4>. QED  BY <4>1, <3>1, <2>3, <1>7, FirstIs
    <3>3. CASE op = "start"
      BY <3>1, <3>2, <3>3, <1>0, <1>8 DEF SsblFirst
    <3>4. CASE op # "start"
      BY <3>1, <3>2, <3>4, <2>2, <1>1
    <3>. QED  BY <3>3, <3>4
  <2>6. CASE pc' \notin {"size", "done"}
    <3>1. Fails(Loadable(vol)) /\ op' = op
          /\ IF vol < N THEN vol' = vol + 1 /\ pc' = pc ELSE NoImage
      BY <1>b, <2>2, <2>6 DEF LoadImage
    <3>2. Cardinality({u \in Having1 : u < vol + 1}) <= faults'
      <4>1. CASE ~Loadable(vol) /\ UNCHANGED faults
        BY <4>1, <2>1, <2>3, <2>4
      <4>2. CASE Charge(1)
        <5>1. faults' = faults + 1
          BY <4>2 DEF Charge
        <5>2. Cardinality({u \in Having1 : u < vol + 1}) \in Nat
          <6>1. IsFiniteSet(Vol)
            BY <1>4, FS_Interval
          <6>2. IsFiniteSet({u \in Having1 : u < vol + 1})
            <7>1. {u \in Having1 : u < vol + 1} \subseteq Vol
              BY <1>7
            <7>. QED  BY <6>1, <7>1, FS_Subset
          <6>. QED  BY <6>2, FS_CardinalityType
        <5>. QED  BY <5>1, <5>2, <2>1, <2>4, <1>2
      <4>. QED  BY <3>1, <4>1, <4>2 DEF Fails
    <3>3. CASE vol < N
      <4>1. vol' = vol + 1 /\ vol' \in Vol /\ pc' = "load"
        BY <3>1, <3>3, <2>1, <1>4
      <4>. QED  BY <3>1, <3>2, <4>1, <2>2, <1>1
    <3>4. CASE ~(vol < N)
      <4>1. vol = N /\ NoImage
        BY <3>1, <3>4, <2>1, <1>4
      <4>2. Cardinality(Having1') <= faults'
        BY <3>1, <3>2, <4>1, <2>4, <1>1
      <4>3. pc' \in {"returned", "fail"} /\ op' # "kernel"
        BY <4>1, <3>1, <2>2 DEF NoImage
      <4>. QED  BY <4>2, <4>3
    <3>. QED  BY <3>3, <3>4
  <2>. QED  BY <2>5, <2>6
<1>c. CASE UNCHANGED vars
  <2>1. UNCHANGED <<pc, op, vol, running, faults>> /\ hndl' = hndl
    BY <1>c DEF vars
  <2>. QED  BY <2>1, <1>0, <1>1, <1>5
<1>d. CASE ~LocateImages /\ ~LoadImage /\ ~UNCHANGED vars
  <2>1. /\ pc' \notin {"load", "returned", "done"} /\ ~(op' = "start" /\ pc' = "fail")
        /\ op' = "kernel" => op = "kernel" /\ running' = running
    BY <1>d, <1>3
    DEF Next, Locate, SBC_GetFileSize, SBC_FindFileBufHndl, SBC_ReadFile, ParseTrailer,
        VerifySignature, ReturnAnswer, SetWriteData, SBC_WriteFile, NextVolume, Fail, Wild, OpKnown
  <2>. QED  BY <2>1, <1>0, <1>2, <1>5
<1>. QED  BY <1>a, <1>b, <1>c, <1>d

-----------------------------------------------------------------------------
(* All of it together. *)
FilesInv ==
  /\ TypeOK /\ LengthKnown /\ LoadInv
  /\ LoadKnown /\ CopyKnown /\ StartKnown

LEMMA FilesAlways == Spec => []FilesInv
<1>1. Init => FilesInv
  BY InitTypes, InitLoad, InitLoadKnown, InitCopyKnown, InitStartKnown DEF FilesInv
<1>2. FilesInv /\ [Next]_vars => FilesInv'
  BY NextTypes, NextLoad, NextLoadKnown, NextCopyKnown, NextStartKnown DEF FilesInv
<1>. QED  BY <1>1, <1>2, PTL DEF Spec

(* A boot in which nothing fails verifies the first copy of FSBL.efi,      *)
(* accepts it exactly when it is signed, and hashes the whole first kernel.*)
THEOREM LoadCorrect == Spec => []LoadContract
<1>1. FilesInv => LoadContract
  <2>1. FilesInv /\ faults = 0 => LoadContract
    BY DEF FilesInv, LoadKnown
  <2>2. faults # 0 => LoadContract
    BY DEF LoadContract
  <2>. QED  BY <2>1, <2>2
<1>. QED  BY <1>1, FilesAlways, PTL

(* A boot in which nothing fails copies the SSBL whole, to the first file  *)
(* system that can be written and to no other.                             *)
THEOREM CopyCorrect == Spec => []CopyContract
<1>1. FilesInv => CopyContract
  BY DEF FilesInv, CopyKnown, CopyContract
<1>. QED  BY <1>1, FilesAlways, PTL

(* SSBL and GRUB are given up only when every file system that has the     *)
(* image failed, or there was no handle buffer.                            *)
THEOREM StartCorrect == Spec => []StartContract
<1>1. FilesInv => StartContract
  BY DEF FilesInv, StartKnown
<1>. QED  BY <1>1, FilesAlways, PTL

-----------------------------------------------------------------------------
(* Every step of an operation brings the boot nearer to its end. *)
LEMMA FilesStep ==
  ASSUME TypeOK, OpKnown, Next
  PROVE  FilesRank' \in Nat /\ FilesRank' < FilesRank
<1>. USE DEF OpKnown
<1>0. N \in Nat /\ N # 0 /\ vol \in Int /\ 0 <= vol /\ vol <= N
  BY VolumeAssumption DEF TypeOK
<1>1. pc' \in {"fail", "hang", "done", "returned"} => FilesRank' = 0
  BY DEF FilesRank
<1>a. CASE Locate
  BY <1>a, <1>0 DEF Locate, FilesRank
<1>b. CASE SBC_GetFileSize
  <2>1. pc = "size" /\ op' = op /\ pc' \in {"find", "fail"} /\ op \in {"verify", "kernel"}
    BY <1>b DEF SBC_GetFileSize, Fail
  <2>. QED  BY <2>1, <1>0, <1>1 DEF FilesRank
<1>c. CASE SBC_FindFileBufHndl
  <2>1. pc = "find" /\ op' = op /\ pc' \in {"read", "fail", "hang"} /\ op \in {"verify", "kernel"}
    BY <1>c DEF SBC_FindFileBufHndl, Fail, Wild
  <2>. QED  BY <2>1, <1>0, <1>1 DEF FilesRank
<1>d. CASE SBC_ReadFile
  <2>1. /\ pc = "read"
        /\ \/ pc' = "fail"
           \/ op = "verify" /\ op' = op /\ pc' = "trailer"
           \/ op = "kernel" /\ op' = "grub" /\ pc' = "start"
    BY <1>d DEF SBC_ReadFile, Fail
  <2>. QED  BY <2>1, <1>0, <1>1 DEF FilesRank
<1>e. CASE ParseTrailer
  <2>1. pc = "trailer" /\ op = "verify" /\ op' = op /\ pc' \in {"sign", "fail", "hang"}
    BY <1>e DEF ParseTrailer, Wild
  <2>. QED  BY <2>1, <1>0, <1>1 DEF FilesRank
<1>f. CASE VerifySignature
  <2>1. pc = "sign" /\ op = "verify" /\ op' = op /\ pc' \in {"answer", "fail", "hang"}
    BY <1>f DEF VerifySignature, Fail, Wild
  <2>. QED  BY <2>1, <1>0, <1>1 DEF FilesRank
<1>g. CASE ReturnAnswer
  <2>1. pc = "answer" /\ op = "verify" /\ pc' \in {"copy", "fail"}
    BY <1>g DEF ReturnAnswer, Fail
  <2>. QED  BY <2>1, <1>0, <1>1 DEF FilesRank
<1>h. CASE SetWriteData
  <2>1. pc = "copy" /\ op = "copy" /\ pc' \in {"write", "fail"} /\ vol' = 1
    BY <1>h DEF SetWriteData, Fail
  <2>. QED  BY <2>1, <1>0, <1>1 DEF FilesRank
<1>i. CASE SBC_WriteFile
  <2>1. /\ pc = "write" /\ op = "copy"
        /\ \/ pc' = "fail"
           \/ vol < N /\ vol' = vol + 1 /\ pc' = "write"
           \/ op' = "start" /\ pc' = "start"
    BY <1>i DEF SBC_WriteFile, NextVolume, Fail
  <2>. QED  BY <2>1, <1>0, <1>1 DEF FilesRank
<1>j. CASE LocateImages
  <2>1. /\ pc = "start" /\ op \in {"start", "grub"} /\ op' = op
        /\ (pc' = "load" /\ vol' = 1) \/ pc' \in {"returned", "fail", "hang"}
    BY <1>j DEF LocateImages, NoImage
  <2>. QED  BY <2>1, <1>0, <1>1 DEF FilesRank
<1>k. CASE LoadImage
  <2>1. /\ pc = "load" /\ op \in {"start", "grub"}
        /\ \/ op = "start" /\ op' = "kernel" /\ pc' = "size"
           \/ pc' \in {"done", "returned", "fail"}
           \/ op' = op /\ vol < N /\ vol' = vol + 1 /\ pc' = "load"
    BY <1>k DEF LoadImage, NoImage
  <2>. QED  BY <2>1, <1>0, <1>1 DEF FilesRank
<1>. QED  BY <1>a, <1>b, <1>c, <1>d, <1>e, <1>f, <1>g, <1>h, <1>i, <1>j, <1>k DEF Next

(* Whatever fails, a boot's work on files ends: no loop over the file      *)
(* systems goes back, and no operation is done twice.                      *)
THEOREM FilesEnd == Spec => FilesProgress
<1>1. FilesInv /\ [Next]_vars => [FilesRank' \in Nat /\ FilesRank' < FilesRank]_vars
  BY FilesStep DEF FilesInv, LoadInv
<1>. QED  BY <1>1, FilesAlways, PTL DEF Spec, FilesProgress

=============================================================================
