------------------------------ MODULE BootChain ------------------------------
(***************************************************************************)
(* The whole chain over any number of power cycles: FSBL starts SSBL, SSBL *)
(* starts the operating system, and around them the operator, the tools    *)
(* that run under the system, faults and power cuts.                       *)
(***************************************************************************)
EXTENDS FSBL, SSBL

CONSTANTS
  StagedHeaders,   \* headers an update tool may write from the running system
  InitFiles        \* boot modes the boot-mode file may stand for

ASSUME StagedAssumption ==
  /\ StagedHeaders \subseteq {h \in Header : h.bm = BOOT_MODE_UPDATE}
  /\ InitFiles \subseteq FileModes

(* A provisioned machine, switched off. *)
Init ==
  /\ hdr \in InitHeaders
  /\ ans \in {"none", "migid", "osid"}
  /\ full \in {Banks, {2}}
  /\ esp \in [boot : {"none"}, rocky : {"none", "bank1"}]
  /\ good \in {{"boot", "rocky"}, {"rocky"}}
  /\ file \in InitFiles
  /\ pc = "off"
  /\ blk = NULL /\ ram = ZeroHeader /\ cur = 0 /\ prev = 0 /\ sel = 0 /\ img = "none"
  /\ bm = 0 /\ km = 0 /\ st = NRMA /\ mode = 0 /\ ret = SBCOK /\ heap = "none" /\ done = {}
  /\ faults = 0 /\ edits = 0

-----------------------------------------------------------------------------
(* The platform firmware starts FSBL. *)
PowerOn ==
  /\ pc = "off"
  /\ Restart("fsbl_scan")
  /\ UNCHANGED <<disk, site, faults, edits>>

(* Power is lost while a loader runs.  A block write is atomic, the file   *)
(* FSBL is writing is not.                                                 *)
PowerCut ==
  /\ pc \notin RestSteps
  /\ Fault
  /\ pc' = "off"
  /\ \/ UNCHANGED esp
     \/ pc = "fsbl_write" /\ esp' = [esp EXCEPT !.boot = "torn"]
  /\ UNCHANGED <<disk, good, file, ramvars, edits>>

(* The operator or the system switches a machine off that is not in one of *)
(* the loaders.                                                            *)
SwitchOff ==
  /\ pc \in {"os", "firmware", "hang"}
  /\ pc' = "off"
  /\ UNCHANGED <<disk, site, ramvars, faults, edits>>

Edit == edits < MaxEdits /\ edits' = edits + 1

(* An update tool under the running system asks for an update. *)
StageUpdate ==
  /\ pc = "os"
  /\ hdr.bm \notin {BOOT_MODE_UPDATE, BOOT_MODE_RECOVERY, BOOT_MODE_FACTORY}
  /\ Edit
  /\ hdr' \in StagedHeaders
  /\ UNCHANGED <<ans, full, site, pc, ramvars, faults>>

(* Under the running system or with the disk in another machine, files and *)
(* bank images come and go.                                                *)
ReplaceImages ==
  /\ pc \in {"off", "os"}
  /\ Edit
  /\ \/ good' \in SUBSET {"boot", "rocky"} /\ UNCHANGED <<full, file>>
     \/ full' \in SUBSET Banks /\ UNCHANGED <<good, file>>
     \/ file' \in InitFiles /\ UNCHANGED <<good, full>>
  /\ UNCHANGED <<hdr, ans, esp, pc, ramvars, faults>>

Environment == PowerOn \/ PowerCut \/ SwitchOff \/ StageUpdate \/ ReplaceImages

Next == FSBL_Next \/ SSBL_Next \/ Environment

Spec == Init /\ [][Next]_vars

(* The loaders run without waiting for anyone.  Someone switches on a      *)
(* machine that is off, and switches off one that has stopped outside the  *)
(* system or in which an update is staged.                                 *)
RestartStopped == (pc # "os" \/ hdr.bm = BOOT_MODE_UPDATE) /\ SwitchOff
FairSpec == Spec /\ WF_vars(FSBL_Next) /\ WF_vars(SSBL_Next)
                 /\ WF_vars(PowerOn) /\ WF_vars(RestartStopped)

-----------------------------------------------------------------------------
(* The operating system is started only in a boot in which both copies of  *)
(* FSBL.efi verified and every DICE key was derived, whichever of the      *)
(* early exits of the two UefiMain functions the boot could have taken.    *)
HandoffChecked ==
  pc \in {"grub", "os"} =>
    /\ {"FSBL_Verify", "FSBL_DevId", "SSBL_Verify", "DiceKeys"} \subseteq done
    /\ st = NRMA

(* Work the header still asks for is never skipped: GRUB is not started    *)
(* while an update, a recovery or a factory boot is pending on the disk.   *)
NoPendingWorkAtHandoff ==
  pc = "grub" => hdr.bm \notin {BOOT_MODE_UPDATE, BOOT_MODE_RECOVERY, BOOT_MODE_FACTORY}

(* The base answer is encrypted from a live buffer and with a key derived  *)
(* in this boot: SBC_BaseAnswerEncryptStore frees what it is given, and    *)
(* diceid is an uninitialised stack object.                                *)
SealInputsValid ==
  /\ pc = "ssbl_update" => heap = "live" /\ "MigKey" \in done
  /\ pc = "ssbl_recovery" => heap = "live" /\ "DiceKeys" \in done

(* Only tools outside the loaders select banks: a loader never writes back *)
(* a header whose bootpres is not the one on the disk, although a failed   *)
(* scan leaves another device's bytes in the header it works with.         *)
BankSelectionKept == [][pc # "os" => hdr'.pres = hdr.pres]_vars

-----------------------------------------------------------------------------
(* The steps of SSBL that follow a successful scan, verification, key      *)
(* derivation.                                                             *)
AfterScan == SsblSteps \ {"ssbl_scan", "ssbl_errdone"}
AfterVerify == AfterScan \ {"ssbl_verify"}
AfterDice == AfterVerify \ {"ssbl_dice"}

(* What the RAM of the loaders has to do with the disk and with the checks *)
(* already passed, step by step; the strengthening the safety proofs need. *)
FsblKnows ==
  /\ pc \in FsblSteps \ {"fsbl_scan"} /\ blk # NULL => ram = hdr
  /\ pc \in FsblSteps \ {"fsbl_scan", "fsbl_verify", "fsbl_errdone"} => "FSBL_Verify" \in done
  /\ pc \in {"fsbl_mode", "fsbl_copy", "fsbl_write", "fsbl_start"} => "FSBL_DevId" \in done
  /\ pc \in SsblSteps \cup {"os"} => {"FSBL_Verify", "FSBL_DevId"} \subseteq done

SsblKnows ==
  /\ pc \in AfterScan => blk = RAW /\ ram.pres = hdr.pres
  /\ pc \in AfterScan \cup {"os", "ssbl_scan"} => st = NRMA
  /\ pc \in AfterVerify \cup {"os"} => "SSBL_Verify" \in done
  /\ pc \in AfterDice \cup {"os"} => "DiceKeys" \in done
  /\ pc \in AfterVerify \ {"ssbl_reset", "ssbl_commit", "grub"} => heap = "live"

ModeKnown ==
  /\ pc \in AfterScan \ {"ssbl_check", "grub"} => ram = hdr
  /\ pc \in {"ssbl_verify", "ssbl_dice", "ssbl_mode"} => bm = hdr.bm
  /\ pc = "ssbl_normal" => bm = hdr.bm /\ hdr.bm \in {BOOT_MODE_NONE, BOOT_MODE_NORMAL}
  /\ pc = "ssbl_migkey" => hdr.bm \in {BOOT_MODE_NONE, BOOT_MODE_UPDATE}
  /\ pc = "ssbl_check" =>
       \/ bm \in {BOOT_MODE_NONE, BOOT_MODE_NORMAL} /\ hdr.bm \in {BOOT_MODE_NONE, BOOT_MODE_NORMAL}
       \/ /\ bm = BOOT_MODE_UPDATE /\ hdr.bm \in {BOOT_MODE_NONE, BOOT_MODE_UPDATE}
          /\ km = KEY_MODE_NORMAL /\ ram = hdr /\ "MigKey" \in done
       \/ bm = BOOT_MODE_RECOVERY /\ hdr.bm = BOOT_MODE_RECOVERY /\ ram = hdr
  /\ pc \in {"ssbl_update", "ssbl_reset"} =>
       /\ hdr.bm \in {BOOT_MODE_NONE, BOOT_MODE_UPDATE}
       /\ km = KEY_MODE_NORMAL /\ "MigKey" \in done
  /\ pc \in {"ssbl_recovery", "ssbl_commit"} => hdr.bm = BOOT_MODE_RECOVERY
  /\ pc = "ssbl_commit" => ans = "osid"
  /\ NoPendingWorkAtHandoff

(* The whole of it: an inductive invariant of every boot of the chain.     *)
ChainInv == FsblKnows /\ SsblKnows /\ ModeKnown

-----------------------------------------------------------------------------
Modes == INSTANCE ModeMachine WITH hdr <- hdr, ans <- ans, InitHeaders <- InitHeaders

(* The chain implements the mode machine: on the raw device, boot mode,    *)
(* stored base answer and bank selection change only as it allows, through *)
(* every fault, power cut and retry.                                       *)
ModeSpec == Modes!Spec

(* The parts of the site an update depends on. *)
Healthy ==
  /\ good = {"boot", "rocky"} /\ full = Banks /\ GapUsable
  /\ esp.rocky # "none" /\ CurrBank(hdr.pres) \in Banks

(* A staged update on a healthy site ends in normal mode with the base     *)
(* answer sealed for normal boots, however the faults fall.                *)
UpdateCompletes ==
  hdr.bm = BOOT_MODE_UPDATE /\ Healthy
    ~> (hdr.bm = BOOT_MODE_NORMAL /\ ans = "osid") \/ ~Healthy

(* No reboot loop: again and again the machine is off, in the system, in   *)
(* the platform firmware or stopped.                                       *)
BootSettles == []<>(pc \in RestSteps)

-----------------------------------------------------------------------------
(* The two liveness properties without fairness, as what single steps do.  *)

(* Steps to rest, should none of them reset the machine. *)
StepsLeft(step) ==
  CASE step \in RestSteps -> 0
    [] step \in {"fsbl_errdone", "ssbl_errdone", "grub"} -> 1
    [] step \in {"ssbl_reset", "ssbl_commit"} -> 2
    [] step \in {"ssbl_update", "ssbl_recovery"} -> 3
    [] step = "ssbl_check" -> 4
    [] step \in {"ssbl_normal", "ssbl_factory", "ssbl_migkey"} -> 5
    [] step = "ssbl_mode" -> 6
    [] step = "ssbl_dice" -> 7
    [] step = "ssbl_verify" -> 8
    [] step = "ssbl_scan" -> 9
    [] step = "fsbl_start" -> 10
    [] step = "fsbl_write" -> 11
    [] step = "fsbl_copy" -> 12
    [] step = "fsbl_mode" -> 13
    [] step = "fsbl_dice" -> 14
    [] step = "fsbl_verify" -> 15
    [] step = "fsbl_scan" -> 16

(* Resets to come: one for each mode between the header's and normal mode, *)
(* one for each fault that could undo a change of mode.                    *)
ResetsLeft ==
  (MaxFaults - faults)
    + (IF hdr.bm \in {BOOT_MODE_NONE, BOOT_MODE_UPDATE} THEN 2
       ELSE IF hdr.bm = BOOT_MODE_RECOVERY THEN 1 ELSE 0)

BootRank == 17 * ResetsLeft + StepsLeft(pc)

(* Every step of a loader, each reset of SBC_SystemControl.c included,     *)
(* brings the machine nearer to rest: it resets itself twice at most, and  *)
(* once more for each failure.                                             *)
BootProgress == [][pc \notin RestSteps => BootRank' < BootRank]_vars

(* The header asks for an update or for the recovery boot that ends one.   *)
Updating ==
  \/ hdr.bm = BOOT_MODE_UPDATE
  \/ hdr.bm = BOOT_MODE_RECOVERY /\ hdr.km \in {KEY_MODE_NORMAL, KEY_MODE_BOOT, KEY_MODE_UPDATE}

(* A loader at work that has found the raw device, or will look for it. *)
Working ==
  /\ pc \in (FsblSteps \cup SsblSteps) \ {"fsbl_errdone", "ssbl_errdone"}
  /\ pc \in FsblSteps \ {"fsbl_scan"} => blk # NULL

(* On a healthy site nothing but a failure keeps the loaders from ending   *)
(* an update they have begun: none of their other exits (bank number, key  *)
(* mode, missing image, ret) is taken before the header is in normal mode. *)
OnlyFaultsStopUpdate ==
  [][Updating /\ Healthy /\ Working => faults' > faults \/ Working']_vars

(* Only a tool under the running system ends factory mode: neither FSBL's  *)
(* rewrite of the key mode (FSBL.c:855), nor SSBL's factory case, nor a    *)
(* boot with another device's header or with a power cut anywhere takes    *)
(* boot mode or bank selection away from what the header holds.  The key   *)
(* mode is free: FSBL means to change it (see FactoryKeyModeNormal).       *)
FactoryKept ==
  hdr.bm = BOOT_MODE_FACTORY => hdr'.bm = BOOT_MODE_FACTORY /\ hdr'.pres = hdr.pres
FactoryStays == [][pc # "os" => FactoryKept]_vars

=============================================================================
