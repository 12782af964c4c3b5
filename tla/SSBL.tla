--------------------------------- MODULE SSBL ---------------------------------
(***************************************************************************)
(* The second stage boot loader: UefiMain of SSBL.c with the mode handlers *)
(* of SBC_SystemControl.c.  It verifies \EFI\boot\FSBL.efi, derives the    *)
(* DICE keys, acts on the boot mode and starts GRUB.                       *)
(***************************************************************************)
EXTENDS BootState

Reboot == Restart("fsbl_scan")                       \* SBC_RebootSystem
Shutdown == pc' = "off" /\ UNCHANGED ramvars          \* SBC_ShutdownSystem

(* SBC_BlkIoHandleInit, the parse of bootpres and the filling of btproc. *)
SSBL_Scan ==
  /\ pc = "ssbl_scan"
  /\ \/ /\ NoFault
        /\ ram' = hdr /\ blk' = RAW
        /\ cur' = CurrBank(hdr.pres) /\ prev' = FindPreviouslyBank(cur')
        /\ bm' = hdr.bm /\ km' = hdr.km
        /\ pc' = "ssbl_verify" /\ UNCHANGED ret
     \/ /\ Fault
        /\ ram' \in ForeignHeaders /\ ret' = SBCFAIL
        /\ pc' = "ssbl_errdone" /\ UNCHANGED <<blk, cur, prev, bm, km>>
     \/ Fault /\ pc' = "hang" /\ UNCHANGED <<ram, blk, cur, prev, bm, km, ret>>
  /\ UNCHANGED <<disk, site, sel, img, st, mode, heap, done, edits>>

(* Mutant: the goto errdone after a failed verification is missing. *)
SSBL_Verify_NoGoto ==
  /\ pc = "ssbl_verify"
  /\ pc' = "ssbl_dice"
  /\ \/ Succeeds("boot" \in good) /\ heap' = "live" /\ done' = done \cup {"SSBL_Verify"} /\ UNCHANGED st
     \/ Fails("boot" \in good) /\ st' = ABNRAM /\ UNCHANGED <<heap, done>>
  /\ UNCHANGED <<disk, site, blk, ram, cur, prev, sel, img, bm, km, mode, ret, edits>>

(* SBC_SSBL_Verify of \EFI\boot\FSBL.efi; it allocates the base answer. *)
SSBL_Verify ==
  /\ pc = "ssbl_verify"
  /\ \/ /\ Succeeds("boot" \in good)
        /\ pc' = "ssbl_dice" /\ heap' = "live" /\ done' = done \cup {"SSBL_Verify"}
        /\ UNCHANGED <<st, ret>>
     \/ /\ Fails("boot" \in good)
        /\ pc' = "ssbl_errdone" /\ st' = ABNRAM /\ ret' = SBCFAIL
        /\ UNCHANGED <<heap, done>>
     \/ /\ Fails("boot" \in good)
        /\ pc' = "hang" /\ UNCHANGED <<st, ret, heap, done>>
  /\ UNCHANGED <<disk, site, blk, ram, cur, prev, sel, img, bm, km, mode, edits>>

(* SBC_DiceKeysGen(.., BOOT_MODE_NORMAL, currbank_id), whose parameters    *)
(* are (.., normbank, bm): the SSBL it measures is that of bank            *)
(* BOOT_MODE_NORMAL, whatever the current bank is.                         *)
SSBL_DiceKeysGen ==
  /\ pc = "ssbl_dice"
  /\ \/ /\ Succeeds(SsblReadable(BOOT_MODE_NORMAL))
        /\ pc' = "ssbl_mode" /\ done' = done \cup {"DiceKeys"}
        /\ UNCHANGED <<st, ret>>
     \/ /\ Fails(SsblReadable(BOOT_MODE_NORMAL))
        /\ pc' = "ssbl_errdone" /\ st' = ABNRAM /\ ret' = SBCFAIL
        /\ UNCHANGED done
  /\ UNCHANGED <<disk, site, blk, ram, cur, prev, sel, img, bm, km, mode, heap, edits>>

(* Mutant: the switch has no case for recovery. *)
ModeStep_NoRecovery(m) ==
  CASE m = BOOT_MODE_NORMAL  -> "ssbl_normal"
    [] m = BOOT_MODE_FACTORY -> "ssbl_factory"
    [] m = BOOT_MODE_UPDATE  -> "ssbl_migkey"
    [] OTHER -> "grub"

(* Mutant: the label of the factory case stands on the normal case. *)
ModeStep_FactoryAsNormal(m) ==
  CASE m \in {BOOT_MODE_NORMAL, BOOT_MODE_FACTORY} -> "ssbl_normal"
    [] m = BOOT_MODE_UPDATE   -> "ssbl_migkey"
    [] m = BOOT_MODE_RECOVERY -> "ssbl_check"
    [] OTHER -> "grub"

(* The switch on the boot mode; its default case goes on to GRUB. *)
ModeStep(m) ==
  CASE m = BOOT_MODE_NORMAL   -> "ssbl_normal"
    [] m = BOOT_MODE_FACTORY  -> "ssbl_factory"
    [] m = BOOT_MODE_UPDATE   -> "ssbl_migkey"
    [] m = BOOT_MODE_RECOVERY -> "ssbl_check"
    [] OTHER -> "grub"

(* SBC_ReadBootMode: the file counts only when the header holds no boot    *)
(* mode.  An unreadable file reads as BOOT_MODE_UNKNOWN.                   *)
SSBL_BootMode ==
  /\ pc = "ssbl_mode"
  /\ \/ NoFault /\ mode' = IF ram.bm # 0 THEN ram.bm ELSE file
     \/ Fault /\ mode' = IF ram.bm # 0 THEN ram.bm ELSE BOOT_MODE_UNKNOWN
  /\ pc' = ModeStep(mode')
  /\ UNCHANGED <<disk, site, blk, ram, cur, prev, sel, img, bm, km, st, ret, heap, done, edits>>

-----------------------------------------------------------------------------
(***************************************************************************)
(* SBC_BootKeyModeChange: the header in RAM takes the new modes, then 512  *)
(* bytes of it are written unless the block handle is null.                *)
(***************************************************************************)
HeaderOutcomes ==
  IF blk # NULL THEN WriteOutcomes(SBC_RAWPRT_DFLT_BLK_SZ)
         ELSE {"refused"}

(* Mutant: the header is built afresh, not from the one that was read. *)
WithModes_Fresh(newbm, newkey) == [ZeroHeader EXCEPT !.bm = newbm, !.km = newkey]

WithModes(newbm, newkey) == [ram EXCEPT !.bm = newbm, !.km = newkey]

SBC_BootKeyModeChange(o, newbm, newkey) ==
  /\ hdr' = IF Applied(o) THEN WithModes(newbm, newkey) ELSE hdr
  /\ faults' = faults + Cost(o)

(***************************************************************************)
(* SBC_BaseAnswerEncryptStore: seal the base answer with a key, write the  *)
(* system configuration back, free the buffer whatever happened.           *)
(***************************************************************************)
SYS_SETTING_BLOCKS_LEN == 16896

StoreOutcomes ==
  IF blk # NULL THEN WriteOutcomes(SYS_SETTING_BLOCKS_LEN)
         ELSE {"refused"}

SBC_BaseAnswerEncryptStore(o, key) ==
  /\ ans' = IF Applied(o) THEN key ELSE ans
  /\ heap' = "freed"
  /\ faults' = faults + Cost(o)

-----------------------------------------------------------------------------
(* case BOOT_MODE_NORMAL: the result of the mode change is ignored. *)
SSBL_Normal ==
  /\ pc = "ssbl_normal"
  /\ \E o \in HeaderOutcomes :
       SBC_BootKeyModeChange(o, BOOT_MODE_NORMAL, KEY_MODE_NORMAL)
  /\ ram' = WithModes(BOOT_MODE_NORMAL, KEY_MODE_NORMAL)
  /\ pc' = "ssbl_check"
  /\ UNCHANGED <<ans, full, site, blk, cur, prev, sel, img, bm, km, st, mode, ret, heap, done, edits>>

(* case BOOT_MODE_FACTORY: SBC_BootKeyModeChange is given a null context.  *)
(* Reading through it takes a processor fault, or finds zeros and returns  *)
(* SBCNULLP; the second way out ends in errdone with ret not SBCOK.        *)
SSBL_Factory ==
  /\ pc = "ssbl_factory"
  /\ \/ pc' = "hang" /\ UNCHANGED <<ret, st>>
     \/ pc' = "ssbl_errdone" /\ ret' = SBCFAIL /\ st' = NRMA
  /\ UNCHANGED <<disk, site, blk, ram, cur, prev, sel, img, bm, km, mode, heap, done, faults, edits>>

(* Mutant: a migration key that could not be derived is used all the same. *)
SSBL_MigrationKey_Unchecked ==
  /\ pc = "ssbl_migkey"
  /\ bm' = BOOT_MODE_UPDATE /\ km' = KEY_MODE_NORMAL
  /\ pc' = "ssbl_check"
  /\ \/ Succeeds(cur \in Banks => cur \in full) /\ done' = done \cup {"MigKey"}
     \/ Fails(cur \in full) /\ UNCHANGED done
  /\ UNCHANGED <<disk, site, blk, ram, cur, prev, sel, img, st, mode, ret, heap, edits>>

(* case BOOT_MODE_UPDATE up to SBC_GenMigrationKey, which reads the        *)
(* current bank whole and the head of the other one.  For a bank number    *)
(* that names no bank it reads wherever the arithmetic leads.              *)
SSBL_MigrationKey ==
  /\ pc = "ssbl_migkey"
  /\ bm' = BOOT_MODE_UPDATE /\ km' = KEY_MODE_NORMAL
  /\ \/ /\ Succeeds(cur \in Banks => cur \in full)
        /\ pc' = "ssbl_check" /\ done' = done \cup {"MigKey"}
        /\ UNCHANGED <<st, ret>>
     \/ /\ Fails(cur \in full)
        /\ pc' = "ssbl_errdone" /\ st' = ABNRAM /\ ret' = SBCFAIL
        /\ UNCHANGED done
  /\ UNCHANGED <<disk, site, blk, ram, cur, prev, sel, img, mode, heap, edits>>

-----------------------------------------------------------------------------
(***************************************************************************)
(* SBC_SecureBootCheck.  The handlers choose a target for the header: the  *)
(* modes to write, or none.                                                *)
(***************************************************************************)
NoTarget == <<>>

(* _sbc_abnormal_processing *)
AbnormalTarget ==
  CASE km # KEY_MODE_NORMAL -> NoTarget
    [] km = KEY_MODE_NORMAL /\ prev = 0 -> <<BOOT_MODE_FACTORY, KEY_MODE_UPDATE>>
    [] OTHER -> <<BOOT_MODE_RECOVERY, KEY_MODE_UPDATE>>

(* Mutants: an update that skips recovery, and one that never leaves update *)
(* mode.                                                                   *)
ResetTarget_Normal == <<BOOT_MODE_NORMAL, KEY_MODE_NORMAL>>
ResetTarget_Update == <<BOOT_MODE_UPDATE, KEY_MODE_NORMAL>>

(* _update_reset_check_and_behavior, for key mode normal *)
ResetTarget ==
  CASE st = NRMA -> <<BOOT_MODE_RECOVERY, KEY_MODE_NORMAL>>
    [] st # NRMA /\ prev # 0 -> <<BOOT_MODE_RECOVERY, KEY_MODE_UPDATE>>
    [] OTHER -> <<BOOT_MODE_FACTORY, KEY_MODE_UPDATE>>

(* Mutant: key mode normal is not among the cases. *)
RecoveryTarget_NoNormal ==
  IF st = NRMA /\ km \in {KEY_MODE_BOOT, KEY_MODE_UPDATE}
  THEN <<BOOT_MODE_NORMAL, KEY_MODE_NORMAL>> ELSE NoTarget

(* The last switch of SBC_RecoveryBootProcessing *)
RecoveryTarget ==
  CASE st = NRMA /\ km \in {KEY_MODE_BOOT, KEY_MODE_UPDATE, KEY_MODE_NORMAL} ->
         <<BOOT_MODE_NORMAL, KEY_MODE_NORMAL>>
    [] st = NRMA /\ km \notin {KEY_MODE_BOOT, KEY_MODE_UPDATE, KEY_MODE_NORMAL} -> NoTarget
    [] OTHER -> <<BOOT_MODE_FACTORY, KEY_MODE_BOOT>>

(* Write the target and reset the machine whatever the write returned. *)
ChangeAndReboot(target) ==
  /\ IF target = NoTarget
     THEN UNCHANGED <<hdr, faults>>
     ELSE \E o \in HeaderOutcomes : SBC_BootKeyModeChange(o, target[1], target[2])
  /\ Reboot

(* The switch on bp->bm; SBC_ResetScenario follows, which acts on update   *)
(* mode only.                                                              *)
SSBL_SecureBootCheck ==
  /\ pc = "ssbl_check"
  /\ IF bm = BOOT_MODE_NORMAL /\ st = ABNRAM
     THEN ChangeAndReboot(AbnormalTarget)
     ELSE /\ pc' = CASE bm = BOOT_MODE_RECOVERY -> "ssbl_recovery"
                     [] bm = BOOT_MODE_UPDATE -> "ssbl_update"
                     [] OTHER -> IF ret = SBCOK THEN "grub" ELSE "ssbl_errdone"
          /\ UNCHANGED <<hdr, faults, ramvars>>
  /\ UNCHANGED <<ans, full, site, edits>>

(* SBC_UpdateBootPorcsesing and _update_behavior_for_km: seal the base     *)
(* answer with the migration key.                                          *)
SSBL_UpdateProcessing ==
  /\ pc = "ssbl_update"
  /\ IF km \in {KEY_MODE_NORMAL, KEY_MODE_UPDATE} /\ st = NRMA
     THEN \E o \in StoreOutcomes :
            /\ SBC_BaseAnswerEncryptStore(o, "migid")
            /\ ret' = IF o = "done" THEN SBCOK ELSE SBCFAIL
     ELSE /\ ret' = IF km \in {KEY_MODE_NONE, KEY_MODE_NORMAL, KEY_MODE_BOOT, KEY_MODE_UPDATE}
                   THEN SBCOK ELSE SBCFAIL
          /\ UNCHANGED <<ans, heap, faults>>
  /\ pc' = "ssbl_reset"
  /\ UNCHANGED <<hdr, full, site, blk, ram, cur, prev, sel, img, bm, km, st, mode, done, edits>>

(* SBC_ResetScenario in update mode; a key mode other than normal leaves   *)
(* it to UefiMain to go by ret.                                            *)
SSBL_ResetScenario ==
  /\ pc = "ssbl_reset"
  /\ IF km = KEY_MODE_NORMAL
     THEN ChangeAndReboot(ResetTarget)
     ELSE /\ pc' = IF ret = SBCOK THEN "grub" ELSE "ssbl_errdone"
          /\ UNCHANGED <<hdr, faults, ramvars>>
  /\ UNCHANGED <<ans, full, site, edits>>

(* Mutant: the result of the store is not looked at. *)
SSBL_RecoveryProcessing_Unchecked ==
  /\ pc = "ssbl_recovery"
  /\ \E o \in StoreOutcomes : SBC_BaseAnswerEncryptStore(o, "osid")
  /\ pc' = "ssbl_commit"
  /\ UNCHANGED <<hdr, full, site, blk, ram, cur, prev, sel, img, bm, km, st, mode, ret, done, edits>>

(* SBC_RecoveryBootProcessing up to the store: an abnormal boot goes to    *)
(* factory mode, a missing previous bank and a failed store shut down.     *)
SSBL_RecoveryProcessing ==
  /\ pc = "ssbl_recovery"
  /\ IF st = ABNRAM
     THEN ChangeAndReboot(<<BOOT_MODE_FACTORY, KEY_MODE_BOOT>>) /\ UNCHANGED ans
     ELSE IF prev = 0
     THEN Shutdown /\ UNCHANGED <<hdr, ans, faults>>
     ELSE \E o \in StoreOutcomes :
            /\ SBC_BaseAnswerEncryptStore(o, "osid")
            /\ pc' = IF o = "done" THEN "ssbl_commit" ELSE "off"
            /\ UNCHANGED <<hdr, blk, ram, cur, prev, sel, img, bm, km, st, mode, ret, done>>
  /\ UNCHANGED <<full, site, edits>>

(* SBC_RecoveryBootProcessing after the store: change the mode, and reset  *)
(* only if the change was written.                                         *)
SSBL_RecoveryCommit ==
  /\ pc = "ssbl_commit"
  /\ IF RecoveryTarget = NoTarget
     THEN Shutdown /\ UNCHANGED <<hdr, faults>>
     ELSE \E o \in HeaderOutcomes :
            /\ SBC_BootKeyModeChange(o, RecoveryTarget[1], RecoveryTarget[2])
            /\ IF o = "done" THEN Reboot ELSE Shutdown
  /\ UNCHANGED <<ans, full, site, edits>>

(* SBC_GRUB_LoadAndStart returns SBCOK also when nothing could be loaded:  *)
(* both loaders then return to the platform firmware.  Without a handle    *)
(* buffer its loop may take a processor fault.                             *)
SSBL_StartGrub ==
  /\ pc = "grub"
  /\ \/ NoFault /\ pc' = "os"
     \/ Fault /\ pc' \in {"firmware", "hang"}
  /\ UNCHANGED <<disk, site, ramvars, edits>>

(* errdone: ret is not SBCOK. *)
SSBL_Errdone ==
  /\ pc = "ssbl_errdone"
  /\ Shutdown
  /\ UNCHANGED <<disk, site, faults, edits>>

SSBL_Next ==
  \/ SSBL_Scan \/ SSBL_Verify \/ SSBL_DiceKeysGen \/ SSBL_BootMode
  \/ SSBL_Normal \/ SSBL_Factory \/ SSBL_MigrationKey \/ SSBL_SecureBootCheck
  \/ SSBL_UpdateProcessing \/ SSBL_ResetScenario \/ SSBL_RecoveryProcessing
  \/ SSBL_RecoveryCommit \/ SSBL_StartGrub \/ SSBL_Errdone

=============================================================================
