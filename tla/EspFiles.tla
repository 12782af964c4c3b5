------------------------------ MODULE EspFiles ------------------------------
(***************************************************************************)
(* What the loaders do with files in one boot: verify FSBL.efi, copy a     *)
(* bank's SSBL to \EFI\boot\SSBL.efi, start \EFI\rocky\SSBL.efi, load the  *)
(* kernel for the OS id, start GRUB.  There may be several file systems,   *)
(* each with its own copy of a file; every access looks the file up again, *)
(* and the lookups of the size query and of the read need not find the     *)
(* same copy.  The boot chain takes each of the five as one step.          *)
(*                                                                         *)
(* Lengths are in units of the 8-byte trailer of a signed image, numbers   *)
(* of the code's UINT32 wrap at Word.                                      *)
(***************************************************************************)
EXTENDS Integers, Sequences, FiniteSetsExt

CONSTANTS
  N,           \* the number of file systems
  Volumes,     \* what a file system may hold: see Volume
  OldLens,     \* lengths an SSBL.efi left by an earlier boot may have
  ImgLen,      \* length of the image that is copied
  Tails,       \* what a trailer may give as the length of the signed information
  Word,        \* 2^32
  MaxFaults    \* failing accesses in a boot

(* A trailer: where it ends, how long it says the signed information is,   *)
(* and for an image of which length a signature in front of it is valid.   *)
(* A file is told by the trailer at its end and by those inside it at      *)
(* which its beginning would be a signed file.                             *)
Trailer == [len : Nat, tail : Nat, over : Nat]
File    == [there : BOOLEAN, len : Nat, tail : Nat, over : Nat, inner : SUBSET Trailer]

Trailers(f) == {f} \cup f.inner

(* ssbl, grub: would LoadImage take \EFI\rocky\SSBL.efi, grubx64.efi?      *)
Volume == [fsbl : File, kernel : File, ssbl : BOOLEAN, grub : BOOLEAN,
           kind : {"ok", "closed", "full"}]

ASSUME VolumeAssumption == N \in Nat \ {0} /\ Volumes \subseteq Volume
ASSUME LengthAssumption ==
  /\ ImgLen \in Nat \ {0} /\ OldLens \subseteq Nat /\ MaxFaults \in Nat
  /\ Tails \subseteq Nat /\ Word \in Nat
  /\ ImgLen < Word /\ \A t \in Tails : t + 1 < Word
  /\ \A v \in Volumes : /\ v.fsbl.len < Word /\ v.kernel.len < Word
                        /\ \A e \in Trailers(v.fsbl) : e.tail + 1 < Word
(* At one place of a file there is one trailer. *)
ASSUME TrailerAssumption ==
  \A v \in Volumes : \A d, e \in Trailers(v.fsbl) :
    d.len = e.len => d.tail = e.tail /\ d.over = e.over

VARIABLES
  vols,      \* the file systems, in the order of their handles
  ssbl,      \* SSBL.efi on each of them: whose bytes it consists of
  op, pc,    \* the operation that runs and its step
  hndl,      \* did the operation's search for handles give a buffer?
  length,    \* rdlv.length, wrlv.length
  vol,       \* the file system the file was found on
  fsbl_len,  \* length of the image inside FSBL.efi, as computed
  ansr,      \* file system and length of the file that verified
  copied,    \* file system the SSBL was copied to, 0 for none
  running,   \* file system the last image was started from, 0 for none
  faults

vars == <<vols, ssbl, op, pc, hndl, length, vol, fsbl_len, ansr, copied, running, faults>>

Vol == 1 .. N
NoBuf == [vol |-> 0, len |-> 0]
FSBL_BNIFO_SIZE == 1

(* Types of what the operations keep. *)
TypeOK ==
  /\ vols \in [Vol -> Volumes]
  /\ ssbl \in [Vol -> Seq({"old", "new", "junk"})]
  /\ op \in {"verify", "copy", "start", "kernel", "grub"}
  /\ pc \in {"locate", "size", "find", "read", "trailer", "sign", "answer",
             "copy", "write", "start", "load", "done", "returned", "fail", "hang"}
  /\ hndl \in BOOLEAN
  /\ length \in 0 .. Word
  /\ vol \in 0 .. N
  /\ fsbl_len \in 0 .. Word - 1
  /\ ansr \in [vol : 0 .. N, len : 0 .. Word - 1]
  /\ copied \in 0 .. N /\ running \in 0 .. N
  /\ faults \in 0 .. MaxFaults

Init ==
  /\ vols \in [Vol -> Volumes]
  /\ ssbl \in [Vol -> {[i \in 1 .. n |-> "old"] : n \in OldLens}]
  /\ op = "verify" /\ pc = "locate"
  /\ hndl = TRUE /\ length = 0 /\ vol = 0 /\ fsbl_len = 0
  /\ ansr = NoBuf /\ copied = 0 /\ running = 0 /\ faults = 0

-----------------------------------------------------------------------------
Charge(k) == faults + k <= MaxFaults /\ faults' = faults + k
Fails(c) == (~c /\ UNCHANGED faults) \/ Charge(1)

Fail == pc' = "fail"
(* An access outside the buffer: a processor fault, or arbitrary bytes in  *)
(* which no certificate is found.                                          *)
Wild == pc' \in {"hang", "fail"}

FileOn(v) == IF op = "verify" THEN vols[v].fsbl ELSE vols[v].kernel
Having == {v \in Vol : FileOn(v).there}

(* Mutant: the loop has no break. *)
LookupCost_NoBreak(v) == Cardinality({u \in Having : u > v})

(* The loop over SBC_IsFlieAccess ends at the first file system on which   *)
(* the file can be opened: to get to v, every earlier copy must fail.      *)
LookupCost(v) == Cardinality({u \in Having : u < v})

(* SBC_FSBL_Verify asks for the handles first and ignores a failure. *)
Locate ==
  /\ pc = "locate" /\ pc' = "size"
  /\ \/ UNCHANGED <<hndl, faults>>
     \/ Charge(1) /\ hndl' = FALSE
  /\ UNCHANGED <<vols, ssbl, op, length, vol, fsbl_len, ansr, copied, running>>

(* SBC_GetFileSize, with handles and a lookup of its own.  When the second *)
(* GetInfo fails it reports success and leaves the size at 0.              *)
SBC_GetFileSize ==
  /\ pc = "size"
  /\ \/ /\ pc' = "find"
        /\ \E v \in Having :
             \/ Charge(LookupCost(v)) /\ length' = FileOn(v).len
             \/ Charge(LookupCost(v) + 1) /\ length' = 0
     \/ Fails(Having # {}) /\ Fail /\ UNCHANGED length
  /\ UNCHANGED <<vols, ssbl, op, hndl, vol, fsbl_len, ansr, copied, running>>

(* The buffer, and the file again: SBC_FindFileBufHndl for the FSBL, the   *)
(* loop of _kernel_image_load for the kernel.  Without a handle buffer     *)
(* SBC_FindFileBufHndl reads through a null pointer.                       *)
SBC_FindFileBufHndl ==
  /\ pc = "find"
  /\ \/ hndl /\ pc' = "read" /\ \E v \in Having : Charge(LookupCost(v)) /\ vol' = v
     \/ ~hndl /\ Wild /\ UNCHANGED <<vol, faults>>
     \/ Fails(Having # {}) /\ Fail /\ UNCHANGED vol
  /\ UNCHANGED <<vols, ssbl, op, hndl, length, fsbl_len, ansr, copied, running>>

(* SBC_ReadFile: at most length bytes, and length is what was read.  Of    *)
(* the kernel nothing more is asked than that it is not empty              *)
(* (SBC_HashCompute).                                                      *)
SBC_ReadFile ==
  /\ pc = "read"
  /\ \/ /\ UNCHANGED faults
        /\ length' = IF length < FileOn(vol).len THEN length ELSE FileOn(vol).len
        /\ \/ op = "verify" /\ pc' = "trailer" /\ UNCHANGED op
           \/ op = "kernel" /\ length' > 0 /\ op' = "grub" /\ pc' = "start"
           \/ op = "kernel" /\ length' = 0 /\ Fail /\ UNCHANGED op
     \/ Charge(1) /\ Fail /\ UNCHANGED <<length, op>>
  /\ UNCHANGED <<vols, ssbl, hndl, vol, fsbl_len, ansr, copied, running>>

-----------------------------------------------------------------------------
(* The trailer that what was read ends with, if there is one. *)
AtEnd == {e \in Trailers(FileOn(vol)) : e.len = length}

(* UINT32 subtraction: (a - b) % Word for two numbers below Word. *)
Minus(a, b) == IF b <= a THEN a - b ELSE Word + a - b

(* SBC_FSBL_Verify: the trailer at the end of what was read tells how long *)
(* the signed information before it is.  In a buffer that ends elsewhere   *)
(* other bytes are taken for a trailer; with less than a trailer the       *)
(* offset wraps around.                                                    *)
ParseTrailer ==
  /\ pc = "trailer"
  /\ \/ /\ \E t \in IF AtEnd # {} /\ length >= FSBL_BNIFO_SIZE THEN {e.tail : e \in AtEnd} ELSE Tails :
             fsbl_len' = Minus(length, FSBL_BNIFO_SIZE + t)
        /\ pc' = "sign"
     \/ length < FSBL_BNIFO_SIZE /\ Wild /\ UNCHANGED fsbl_len
  /\ UNCHANGED <<vols, ssbl, op, hndl, length, vol, ansr, copied, running, faults>>

(* Mutant: the result of EcDsaVerify is printed only. *)
VerifySignature_NoGoto ==
  /\ pc = "sign"
  /\ \/ fsbl_len <= length /\ pc' = "answer"
     \/ fsbl_len > length /\ Wild
  /\ UNCHANGED <<vols, ssbl, op, hndl, length, vol, fsbl_len, ansr, copied, running, faults>>

(* The certificate, the hash over the image, which must not be empty, and  *)
(* EcDsaVerify.  Certificate and signature are found, and fit, when a      *)
(* trailer ends the buffer and the image is the one that was signed: of    *)
(* the rest of the file the code knows nothing.  A length that wrapped     *)
(* around puts them outside the buffer.                                    *)
VerifySignature ==
  LET accepts == fsbl_len > 0 /\ \E e \in AtEnd : fsbl_len = e.over IN
  /\ pc = "sign"
  /\ \/ fsbl_len <= length /\ accepts /\ pc' = "answer"
     \/ fsbl_len <= length /\ ~accepts /\ Fail
     \/ fsbl_len > length /\ Wild
  /\ UNCHANGED <<vols, ssbl, op, hndl, length, vol, fsbl_len, ansr, copied, running, faults>>

(* The base answer is copied out and the buffer is freed. *)
ReturnAnswer ==
  /\ pc = "answer"
  /\ \/ /\ UNCHANGED faults
        /\ ansr' = [vol |-> vol, len |-> length]
        /\ op' = "copy" /\ pc' = "copy"
     \/ Charge(1) /\ Fail /\ UNCHANGED <<op, ansr>>
  /\ UNCHANGED <<vols, ssbl, hndl, length, vol, fsbl_len, copied, running>>

-----------------------------------------------------------------------------
(* SBC_BootModeNormalAndpUdate: the handles, and wrlv, whose length is a   *)
(* UINT32 that SBC_WriteFile passes on as a UINTN: the upper half is what  *)
(* the stack held, and counted as a fault when it is not zero.             *)
SetWriteData ==
  /\ pc = "copy" /\ vol' = 1
  /\ \/ UNCHANGED faults /\ length' = ImgLen /\ pc' = "write"
     \/ Charge(1) /\ length' = Word /\ pc' = "write"
     \/ Charge(1) /\ Fail /\ UNCHANGED length
  /\ UNCHANGED <<vols, ssbl, op, hndl, fsbl_len, ansr, copied, running>>

(* A file after k of n bytes were written from its start: it grows to n    *)
(* first and is never cut.                                                 *)
Overwrite(f, k, n) ==
  [i \in 1 .. Max({Len(f), n}) |->
     IF i <= k THEN "new" ELSE IF i <= Len(f) THEN f[i] ELSE "junk"]

(* Mutant: a file that cannot be opened ends the copy. *)
NextVolume_Stop == Fail /\ UNCHANGED vol

(* Mutant: the file system that failed is tried again. *)
NextVolume_Retry == UNCHANGED vol /\ pc' = "write"

(* Mutant: the loop has no end. *)
NextVolume_Past == vol' = vol + 1 /\ pc' = "write"

(* The loop goes on to the next file system, with the same wrlv. *)
NextVolume ==
  IF vol < N THEN vol' = vol + 1 /\ pc' = "write" ELSE Fail /\ UNCHANGED vol

(* Is there room for the file? *)
Fits(v) == length < Word /\ (vols[v].kind = "full" => length <= Len(ssbl[v]))

(* SBC_WriteFile.  The file cannot be opened; or the volume is full, or    *)
(* the device fails on the way, and length becomes what was written; or    *)
(* the write is done and FSBL goes on to start SSBL.                       *)
SBC_WriteFile ==
  /\ pc = "write"
  /\ \/ /\ Fails(vols[vol].kind # "closed") /\ NextVolume
        /\ UNCHANGED <<ssbl, length, copied, op>>
     \/ /\ vols[vol].kind # "closed" /\ ~Fits(vol) /\ NextVolume
        /\ length' = 0
        /\ UNCHANGED <<ssbl, copied, op, faults>>
     \/ /\ vols[vol].kind # "closed" /\ Fits(vol) /\ Charge(1) /\ NextVolume
        /\ \E k \in 0 .. length - 1 :
             length' = k /\ ssbl' = [ssbl EXCEPT ![vol] = Overwrite(@, k, length)]
        /\ UNCHANGED <<copied, op>>
     \/ /\ vols[vol].kind # "closed" /\ Fits(vol) /\ UNCHANGED faults
        /\ ssbl' = [ssbl EXCEPT ![vol] = Overwrite(@, length, length)]
        /\ copied' = vol /\ op' = "start" /\ pc' = "start" /\ vol' = 0 /\ length' = 0
  /\ UNCHANGED <<vols, hndl, fsbl_len, ansr, running>>

-----------------------------------------------------------------------------
(* Would LoadImage take the image of this operation? *)
Loadable(v) == IF op = "start" THEN vols[v].ssbl ELSE vols[v].grub

(* No image was loaded.  SBC_SSBL_LoadAndStart reports SBCFAIL and FSBL    *)
(* ends; SBC_GRUB_LoadAndStart reports SBCOK, so SSBL does not shut down   *)
(* but returns to the platform firmware.                                   *)
NoImage == pc' = IF op = "grub" THEN "returned" ELSE "fail"

(* SBC_SSBL_LoadAndStart and SBC_GRUB_LoadAndStart ask for the handles and *)
(* do not look at the result: count and buffer are then stack contents.    *)
LocateImages ==
  /\ pc = "start"
  /\ \/ vol' = 1 /\ pc' = "load" /\ UNCHANGED <<hndl, faults>>
     \/ Charge(1) /\ hndl' = FALSE /\ (NoImage \/ pc' = "hang") /\ UNCHANGED vol
  /\ UNCHANGED <<vols, ssbl, op, length, fsbl_len, ansr, copied, running>>

(* Mutant: an image that cannot be loaded ends the loop. *)
LoadImage_Stop ==
  /\ pc = "load"
  /\ \/ /\ Loadable(vol) /\ running' = vol /\ UNCHANGED <<vol, faults>>
        /\ IF op = "start" THEN op' = "kernel" /\ pc' = "size" ELSE pc' = "done" /\ UNCHANGED op
     \/ Fails(Loadable(vol)) /\ NoImage /\ UNCHANGED <<op, vol, running>>
  /\ UNCHANGED <<vols, ssbl, hndl, length, fsbl_len, ansr, copied>>

(* The loop over the file systems: the first image that loads is started,  *)
(* and what StartImage returns is not looked at.  SSBL goes on to load the *)
(* kernel; with GRUB the loaders are done.                                 *)
LoadImage ==
  /\ pc = "load"
  /\ \/ /\ Loadable(vol) /\ running' = vol /\ UNCHANGED <<vol, faults>>
        /\ IF op = "start" THEN op' = "kernel" /\ pc' = "size" ELSE pc' = "done" /\ UNCHANGED op
     \/ /\ Fails(Loadable(vol)) /\ UNCHANGED <<op, running>>
        /\ IF vol < N THEN vol' = vol + 1 /\ UNCHANGED pc ELSE NoImage /\ UNCHANGED vol
  /\ UNCHANGED <<vols, ssbl, hndl, length, fsbl_len, ansr, copied>>

Next ==
  \/ Locate \/ SBC_GetFileSize \/ SBC_FindFileBufHndl \/ SBC_ReadFile
  \/ ParseTrailer \/ VerifySignature \/ ReturnAnswer
  \/ SetWriteData \/ SBC_WriteFile \/ LocateImages \/ LoadImage

Spec == Init /\ [][Next]_vars

-----------------------------------------------------------------------------
(* A file as fw_sign.py makes it: the trailer fits and the signature is    *)
(* over everything before the signed information, which is not nothing.    *)
Proper(e) ==
  /\ FSBL_BNIFO_SIZE + e.tail <= e.len
  /\ e.over = e.len - (FSBL_BNIFO_SIZE + e.tail) /\ e.over > 0

Signed(f) == f.there /\ Proper(f)

(* Its first n units are such a file. *)
SignedTo(f, n) == f.there /\ \E e \in Trailers(f) : e.len = n /\ Proper(e)

(* The copy a loader uses when nothing fails. *)
FirstWith(there(_)) == Min({v \in Vol : there(v)})
HasFsbl(v) == vols[v].fsbl.there
HasKernel(v) == vols[v].kernel.there

(* Whatever copies the size query and the read come upon, and whatever     *)
(* fails in between: what SBC_FSBL_Verify accepts is, from its first to    *)
(* its last byte, a signed file, with no offset that wrapped around.  It   *)
(* need not be all of the file it was read from: of a longer one the       *)
(* beginning is accepted, but only if a copy of just that length is on     *)
(* some file system.                                                       *)
VerifiedIsSigned ==
  op # "verify" =>
    /\ ansr.vol \in Vol /\ SignedTo(vols[ansr.vol].fsbl, ansr.len)
    /\ \E u \in Vol : HasFsbl(u) /\ vols[u].fsbl.len = ansr.len

(* When nothing fails, verification accepts exactly when the first copy of *)
(* FSBL.efi is signed, takes a processor fault only when the trailer of    *)
(* that copy does not fit its length, and the kernel that is hashed is the *)
(* whole of the first one.                                                 *)
LoadContract ==
  faults = 0 =>
    LET fsbl == vols[FirstWith(HasFsbl)].fsbl
        kernel == vols[FirstWith(HasKernel)].kernel IN
    /\ op = "verify" /\ pc = "fail" /\ (\E v \in Vol : HasFsbl(v)) => ~Signed(fsbl)
    /\ op # "verify" => ansr = [vol |-> FirstWith(HasFsbl), len |-> fsbl.len] /\ Signed(fsbl)
    /\ pc = "hang" => fsbl.len < FSBL_BNIFO_SIZE + fsbl.tail
    /\ op = "grub" => length = kernel.len
    /\ op = "grub" /\ pc = "start" => vol = FirstWith(HasKernel)
    /\ op = "kernel" /\ pc = "fail" /\ (\E v \in Vol : HasKernel(v)) => kernel.len = 0

(* When nothing fails and no file system is full, the SSBL is copied if    *)
(* some file system can be written: to the first such one, whole from its  *)
(* first byte, and the others keep what they had.  A longer file keeps its *)
(* tail.                                                                   *)
CopyContract ==
  LET open == {v \in Vol : vols[v].kind # "closed"} IN
  faults = 0 /\ (\A v \in Vol : vols[v].kind # "full") =>
    /\ op = "copy" /\ pc = "fail" => open = {}
    /\ op \notin {"verify", "copy"} =>
         /\ copied = Min(open)
         /\ Len(ssbl[copied]) >= ImgLen
         /\ \A v \in Vol : \A i \in 1 .. Len(ssbl[v]) :
              ssbl[v][i] = IF v = copied /\ i <= ImgLen THEN "new" ELSE "old"

(* A file system without the image, or with one that does not load, never  *)
(* keeps SSBL or GRUB on another one from being started: the loaders give  *)
(* up only when there is no handle buffer or every file system that has    *)
(* the image failed.  Only then does SBC_GRUB_LoadAndStart's SBCOK hide    *)
(* that nothing was started.  When nothing fails, the first one runs.      *)
StartContract ==
  LET having == {v \in Vol : Loadable(v)} IN
  /\ pc = "returned" \/ (op = "start" /\ pc = "fail") =>
       ~hndl \/ Cardinality(having) <= faults
  /\ faults = 0 =>
       /\ op = "kernel" => running = Min({v \in Vol : vols[v].ssbl})
       /\ pc = "done" => running = Min(having)

(* How much of the boot is left at most: the steps of one lookup and read, *)
(* and a try of each file system in each of the three loops.               *)
FilesRank ==
  CASE op = "verify" /\ pc = "locate"   -> 3 * N + 13
    [] op = "verify" /\ pc = "size"     -> 3 * N + 12
    [] op = "verify" /\ pc = "find"     -> 3 * N + 11
    [] op = "verify" /\ pc = "read"     -> 3 * N + 10
    [] op = "verify" /\ pc = "trailer"  -> 3 * N + 9
    [] op = "verify" /\ pc = "sign"     -> 3 * N + 8
    [] op = "verify" /\ pc = "answer"   -> 3 * N + 7
    [] pc = "copy"                      -> 3 * N + 6
    [] pc = "write"                     -> 3 * N + 6 - vol
    [] op = "start" /\ pc = "start"     -> 2 * N + 5
    [] op = "start" /\ pc = "load"      -> 2 * N + 5 - vol
    [] op = "kernel" /\ pc = "size"     -> N + 4
    [] op = "kernel" /\ pc = "find"     -> N + 3
    [] op = "kernel" /\ pc = "read"     -> N + 2
    [] op = "grub" /\ pc = "start"      -> N + 1
    [] op = "grub" /\ pc = "load"       -> N + 1 - vol
    [] OTHER                            -> 0

(* The three loops over the file systems, with what they do on a failure,  *)
(* always come to an end: no failing write or load makes one go back to a  *)
(* file system it has left, or the boot to an operation it has finished,   *)
(* so a boot is over after at most 3 * N + 13 steps.                       *)
FilesProgress == [][FilesRank' \in Nat /\ FilesRank' < FilesRank]_vars

=============================================================================
