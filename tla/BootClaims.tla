----------------------------- MODULE BootClaims -----------------------------
(***************************************************************************)
(* What comments and messages in the loaders say of the boot chain, stated *)
(* as properties of the model.  Each one is refuted by a run of its own:   *)
(* the code does something else.                                           *)
(***************************************************************************)
EXTENDS MCBootChain

(* SSBL.c:555 prints "Unknown Boot Mode ... SHOULD go to Abort": GRUB is   *)
(* started only for a boot mode the switch knows.                          *)
UnknownModeAborts ==
  pc = "grub" => mode \in {BOOT_MODE_NORMAL, BOOT_MODE_UPDATE, BOOT_MODE_RECOVERY, BOOT_MODE_FACTORY}

(* FSBL.c:855, "Change the key mode to normal based on key mode behavior   *)
(* scenario": when FSBL hands a factory boot to SSBL the header's key mode *)
(* is normal.                                                              *)
FactoryKeyModeNormal ==
  pc = "ssbl_scan" /\ hdr.bm = BOOT_MODE_FACTORY /\ faults = 0 => hdr.km = KEY_MODE_NORMAL

(* FSBL.c:289 prints "Normal Boot SSBL running ( Bank Id : .. )": the SSBL *)
(* that runs is the image of the bank FSBL selected.                       *)
SelectedSSBLRuns ==
  pc = "ssbl_scan" /\ sel # 0 => img = BankImage(sel)

(* SSBL.c:543-546, "Secure Boot check fail for BOOT_MODE_UPDATE" and goto  *)
(* errdone: when the base answer could not be sealed, the update boot ends *)
(* in errdone with the header still in update mode.                        *)
FailedSealStops ==
  [][pc = "ssbl_reset" /\ ret # SBCOK => hdr' = hdr]_vars
=============================================================================
