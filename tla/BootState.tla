------------------------------ MODULE BootState ------------------------------
(***************************************************************************)
(* The state FSBL and SSBL work on.  Some of it survives a power cycle     *)
(* (the raw device and the EFI system partition), the rest is the RAM of   *)
(* the loader that is running.  Device operations can fail; each failure,  *)
(* and each power cut, is charged to a budget so that behaviours in which  *)
(* faults eventually stop can be told from those in which they never do.   *)
(***************************************************************************)
EXTENDS BootTypes

CONSTANTS
  InitHeaders,     \* headers the partition tool may have written
  ForeignHeaders,  \* first 128 bytes of LBA 0 of the devices that are not ours
  GapUsable,       \* do the bytes 1 MiB into bank 1's SSBL read as an image length?
  MaxFaults,       \* device failures and power cuts in a behaviour
  MaxEdits         \* changes made from outside the loaders in a behaviour

ASSUME HeaderAssumption == InitHeaders \subseteq Header /\ ForeignHeaders \subseteq Header
ASSUME GapAssumption == GapUsable \in BOOLEAN
ASSUME BoundAssumption == MaxFaults \in Nat /\ MaxEdits \in Nat

VARIABLES
  \* on the raw device
  hdr,    \* the header, LBA 0
  ans,    \* which key the stored base answer is sealed with
  full,   \* banks that hold an image
  \* on the EFI system partition
  esp,    \* SSBL.efi in \EFI\boot and in \EFI\rocky
  good,   \* directories whose FSBL.efi has a valid signature
  file,   \* what SBC_ReadBootMode makes of the boot-mode file
  \* in RAM
  pc,     \* the step the machine is at
  blk,    \* h_blkio: null, or the raw device
  ram,    \* h_rawprtheader
  cur,    \* currbank_id
  prev,   \* prevbank_id
  sel,    \* bank whose SSBL the FSBL copies, 0 if none
  img,    \* image of the SSBL that runs
  bm, km, st,  \* btproc.bm, btproc.km, btproc.bootst
  mode,   \* bootmd, the value SSBL switches on
  ret,    \* the SSBL's ret
  heap,   \* the base answer buffer of SBC_SSBL_Verify
  done,   \* checks and derivations completed since power-on
  \* history
  faults, edits

disk == <<hdr, ans, full>>
site == <<esp, good, file>>
ramvars == <<blk, ram, cur, prev, sel, img, bm, km, st, mode, ret, heap, done>>
vars == <<disk, site, pc, ramvars, faults, edits>>

-----------------------------------------------------------------------------
FsblSteps == {"fsbl_scan", "fsbl_verify", "fsbl_dice", "fsbl_mode", "fsbl_copy",
              "fsbl_write", "fsbl_start", "fsbl_errdone"}
SsblSteps == {"ssbl_scan", "ssbl_verify", "ssbl_dice", "ssbl_mode", "ssbl_normal",
              "ssbl_factory", "ssbl_migkey", "ssbl_check", "ssbl_update",
              "ssbl_reset", "ssbl_recovery", "ssbl_commit", "ssbl_errdone", "grub"}
(* The machine is off, runs the OS, is back in the platform firmware, or   *)
(* has taken a processor fault.                                            *)
RestSteps == {"off", "os", "firmware", "hang"}

Checks == {"FSBL_Verify", "FSBL_DevId", "SSBL_Verify", "DiceKeys", "MigKey"}

ZeroHeader ==
  [bm |-> 0, km |-> 0,
   pres |-> [low |-> [id |-> 0, tag |-> "other"], hi |-> [id |-> 0, tag |-> "other"]]]

(* The types of the header's 16-bit fields, of the bank numbers and of the *)
(* rest of what the loaders keep.                                          *)
TypeOK ==
  /\ hdr \in Header
  /\ ans \in {"none", "migid", "osid"}
  /\ full \in SUBSET Banks
  /\ esp \in [boot : Images, rocky : Images]
  /\ good \in SUBSET {"boot", "rocky"}
  /\ file \in FileModes
  /\ pc \in FsblSteps \cup SsblSteps \cup RestSteps
  /\ blk \in {NULL, RAW}
  /\ ram \in Header
  /\ cur \in UINT16
  /\ prev \in 0 .. NoBank32
  /\ sel \in 0 .. NoBank32
  /\ img \in Images
  /\ bm \in UINT16
  /\ km \in UINT16
  /\ st \in {NRMA, ABNRAM}
  /\ mode \in UINT16
  /\ ret \in {SBCOK, SBCFAIL}
  /\ heap \in {"none", "live", "freed"}
  /\ done \in SUBSET Checks
  /\ faults \in 0 .. MaxFaults
  /\ edits \in 0 .. MaxEdits

-----------------------------------------------------------------------------
(* Faults: an operation that would succeed under condition c either        *)
(* succeeds, or fails because c is false or because a fault strikes.       *)
NoFault == UNCHANGED faults
Fault == faults < MaxFaults /\ faults' = faults + 1
Succeeds(c) == c /\ NoFault
Fails(c) == (~c /\ NoFault) \/ Fault

(* SBC_RawPrtBlockWrite of len bytes: refused outright, done, or reported  *)
(* as failed with the blocks lost or with the blocks written all the same. *)
WriteOutcomes(len) ==
  IF ~WholeBlocks(len) THEN {"refused"}
  ELSE IF faults < MaxFaults THEN {"done", "lost", "late"} ELSE {"done"}

Applied(o) == o \in {"done", "late"}
Cost(o) == IF o \in {"lost", "late"} THEN 1 ELSE 0

(* Does reading bank b's SSBL where the loaders look for it give an image? *)
SsblReadable(b) ==
  LET image == ImageAt(SsblReadOfs(b)) IN
  IF image = "gap" THEN GapUsable ELSE image \in {BankImage(x) : x \in full}

(* RAM when an image starts: nothing read, nothing allocated. *)
FreshRam ==
  /\ blk' = NULL /\ ram' = ZeroHeader /\ cur' = 0 /\ prev' = 0
  /\ bm' = 0 /\ km' = 0 /\ st' = NRMA /\ mode' = 0 /\ ret' = SBCOK /\ heap' = "none"

(* A reset or a loss of power leaves nothing of it. *)
Restart(step) ==
  /\ pc' = step
  /\ FreshRam
  /\ sel' = 0 /\ img' = "none" /\ done' = {}

=============================================================================
