----------------------------- MODULE ModeMachine -----------------------------
(***************************************************************************)
(* What the two loaders promise about the raw device, whatever fails and   *)
(* whenever the power goes: the boot mode moves along a fixed path, the    *)
(* stored base answer follows it, and the bank selection is not theirs to  *)
(* change.                                                                 *)
(*                                                                         *)
(*        stage            update done           recovery done             *)
(*   NORMAL ----> UPDATE ----------> RECOVERY ------------> NORMAL         *)
(*                seals: migid       seals: osid first                     *)
(*                                                                         *)
(* A header without a boot mode enters this path where the boot-mode file  *)
(* says.  FACTORY has no way out.                                          *)
(***************************************************************************)
EXTENDS BootTypes

CONSTANT InitHeaders

VARIABLES hdr, ans

mvars == <<hdr, ans>>

Init == hdr \in InitHeaders /\ ans \in {"none", "migid", "osid"}

(* A tool under the running system selects banks and asks for an update. *)
Stage ==
  /\ hdr.bm \notin {BOOT_MODE_UPDATE, BOOT_MODE_RECOVERY, BOOT_MODE_FACTORY}
  /\ hdr' \in Header /\ hdr'.bm = BOOT_MODE_UPDATE
  /\ UNCHANGED ans

SealForUpdate ==
  /\ hdr.bm \in {BOOT_MODE_NONE, BOOT_MODE_UPDATE}
  /\ ans' = "migid"
  /\ UNCHANGED hdr

EnterRecovery ==
  /\ hdr.bm \in {BOOT_MODE_NONE, BOOT_MODE_UPDATE}
  /\ hdr' = [hdr EXCEPT !.bm = BOOT_MODE_RECOVERY, !.km = KEY_MODE_NORMAL]
  /\ UNCHANGED ans

SealForNormal ==
  /\ hdr.bm = BOOT_MODE_RECOVERY
  /\ ans' = "osid"
  /\ UNCHANGED hdr

EnterNormal ==
  /\ \/ hdr.bm \in {BOOT_MODE_NONE, BOOT_MODE_NORMAL}
     \/ hdr.bm = BOOT_MODE_RECOVERY /\ ans = "osid"
  /\ hdr' = [hdr EXCEPT !.bm = BOOT_MODE_NORMAL, !.km = KEY_MODE_NORMAL]
  /\ UNCHANGED ans

Next == Stage \/ SealForUpdate \/ EnterRecovery \/ SealForNormal \/ EnterNormal

Spec == Init /\ [][Next]_mvars

=============================================================================
