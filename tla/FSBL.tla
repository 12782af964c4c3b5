--------------------------------- MODULE FSBL ---------------------------------
(***************************************************************************)
(* The first stage boot loader, UefiMain of FSBL.c: find the raw device,   *)
(* verify FSBL.efi, derive the device id, copy the selected bank's SSBL to *)
(* the EFI system partition and start SSBL.  One action per call that can  *)
(* fail or that changes persistent state.                                  *)
(***************************************************************************)
EXTENDS BootState

(* SBC_BlkIoHandleInit and the parse of bootpres.  A failed scan is        *)
(* reported and UefiMain goes on: its ASSERT holds exactly when the scan   *)
(* failed.  The header then is whatever the last probed device held.  The  *)
(* scan itself may take a processor fault (see BlkIoScan).                 *)
FSBL_Scan ==
  /\ pc = "fsbl_scan"
  /\ \/ /\ \/ NoFault /\ ram' = hdr /\ blk' = RAW
           \/ Fault /\ ram' \in ForeignHeaders /\ blk' = NULL
        /\ cur' = CurrBank(ram'.pres)
        /\ prev' = FSBL_FindPreviouslyBank(cur')
        /\ pc' = IF prev' < 1 THEN "firmware" ELSE "fsbl_verify"
     \/ Fault /\ pc' = "hang" /\ UNCHANGED <<ram, blk, cur, prev>>
  /\ UNCHANGED <<disk, site, sel, img, bm, km, st, mode, ret, heap, done, edits>>

(* SBC_FSBL_Verify of \EFI\rocky\FSBL.efi.  Failed lookups and trailers   *)
(* that do not fit may make it read outside its buffer (see EspFiles).     *)
FSBL_Verify ==
  /\ pc = "fsbl_verify"
  /\ \/ /\ Succeeds("rocky" \in good)
        /\ pc' = "fsbl_dice" /\ done' = done \cup {"FSBL_Verify"}
     \/ /\ Fails("rocky" \in good)
        /\ pc' \in {"fsbl_errdone", "hang"} /\ UNCHANGED done
  /\ UNCHANGED <<disk, site, blk, ram, cur, prev, sel, img, bm, km, st, mode, ret, heap, edits>>

(* SBC_DiceKeysGen, which in the FSBL derives the device id only.  It      *)
(* reads \EFI\BOOT\FSBL.efi without verifying it: a file with no valid     *)
(* signature may be there all the same, or be missing.                     *)
FSBL_DiceKeysGen ==
  /\ pc = "fsbl_dice"
  /\ \/ /\ NoFault
        /\ pc' = "fsbl_mode" /\ done' = done \cup {"FSBL_DevId"}
     \/ /\ Fails("boot" \in good)
        /\ pc' = "fsbl_errdone" /\ UNCHANGED done
  /\ UNCHANGED <<disk, site, blk, ram, cur, prev, sel, img, bm, km, st, mode, ret, heap, edits>>

(* Writing the header back with key mode normal, 128 bytes, result         *)
(* ignored; through a null handle the call faults.                         *)
KeyModeToNormal(step) ==
  IF ram.km = KEY_MODE_NORMAL
  THEN pc' = step /\ UNCHANGED <<hdr, faults>>
  ELSE IF blk # NULL
  THEN \E o \in WriteOutcomes(RAWPRT_HDR_LEN) :
         /\ hdr' = IF Applied(o) THEN [ram EXCEPT !.km = KEY_MODE_NORMAL] ELSE hdr
         /\ faults' = faults + Cost(o)
         /\ pc' = step
  ELSE pc' = "hang" /\ UNCHANGED <<hdr, faults>>

(* The switch on the boot mode. *)
FSBL_BootMode ==
  /\ pc = "fsbl_mode"
  /\ \/ /\ ram.bm \in {BOOT_MODE_NORMAL, BOOT_MODE_UPDATE}
        /\ sel' = cur /\ pc' = "fsbl_copy" /\ UNCHANGED <<hdr, faults>>
     \/ /\ ram.bm = BOOT_MODE_RECOVERY
        /\ sel' = prev /\ pc' = "fsbl_copy" /\ UNCHANGED <<hdr, faults>>
     \/ /\ ram.bm = BOOT_MODE_FACTORY
        /\ KeyModeToNormal("fsbl_start") /\ UNCHANGED sel
     \/ /\ ram.bm \notin {BOOT_MODE_NORMAL, BOOT_MODE_UPDATE, BOOT_MODE_RECOVERY, BOOT_MODE_FACTORY}
        /\ pc' = "fsbl_errdone" /\ UNCHANGED <<sel, hdr, faults>>
  /\ UNCHANGED <<ans, full, site, blk, ram, cur, prev, img, bm, km, st, mode, ret, heap, done, edits>>

(* SBC_BootModeNormalAndpUdate up to the second read of the bank. *)
FSBL_ReadBank ==
  LET ok == sel > 0 /\ sel < 3 /\ blk # NULL /\ SsblReadable(sel) IN
  /\ pc = "fsbl_copy"
  /\ \/ Succeeds(ok) /\ pc' = "fsbl_write"
     \/ Fails(ok) /\ pc' = "fsbl_errdone"
  /\ UNCHANGED <<disk, site, ramvars, edits>>

(* SBC_BootModeNormalAndpUdate: the write of \EFI\boot\SSBL.efi.  A write  *)
(* that fails on one file system leaves its short length to the next, so   *)
(* that a short file may pass for the whole one (see EspFiles).            *)
FSBL_WriteFile ==
  /\ pc = "fsbl_write"
  /\ \/ /\ NoFault
        /\ esp' = [esp EXCEPT !.boot = ImageAt(SsblReadOfs(sel))]
        /\ pc' = "fsbl_start"
     \/ /\ Fault
        /\ \E i \in {esp.boot, "torn"} : esp' = [esp EXCEPT !.boot = i]
        /\ pc' \in {"fsbl_errdone", "fsbl_start"}
  /\ UNCHANGED <<disk, good, file, ramvars, edits>>

(* SBC_SSBL_LoadAndStart of \EFI\rocky\SSBL.efi; when it fails, factory    *)
(* mode leaves UefiMain with is_boot_status still TRUE.  Without a handle  *)
(* buffer its loop may take a processor fault (see EspFiles).              *)
FSBL_StartSSBL ==
  /\ pc = "fsbl_start"
  /\ \/ /\ Succeeds(esp.rocky # "none")
        /\ pc' = "ssbl_scan" /\ FreshRam /\ img' = esp.rocky
     \/ /\ \/ /\ Fails(esp.rocky # "none")
              /\ pc' = IF ram.bm = BOOT_MODE_FACTORY THEN "firmware" ELSE "fsbl_errdone"
           \/ Fault /\ pc' = "hang"
        /\ UNCHANGED <<blk, ram, cur, prev, bm, km, st, mode, ret, heap, img>>
  /\ UNCHANGED <<disk, site, sel, done, edits>>

(* errdone with is_boot_status FALSE: factory mode normalises the key mode *)
(* and shuts down, any other mode returns to the platform firmware.        *)
FSBL_Errdone ==
  /\ pc = "fsbl_errdone"
  /\ \/ ram.bm = BOOT_MODE_FACTORY /\ KeyModeToNormal("off")
     \/ ram.bm # BOOT_MODE_FACTORY /\ pc' = "firmware" /\ UNCHANGED <<hdr, faults>>
  /\ UNCHANGED <<ans, full, site, ramvars, edits>>

FSBL_Next ==
  \/ FSBL_Scan \/ FSBL_Verify \/ FSBL_DiceKeysGen \/ FSBL_BootMode
  \/ FSBL_ReadBank \/ FSBL_WriteFile \/ FSBL_StartSSBL \/ FSBL_Errdone

=============================================================================
