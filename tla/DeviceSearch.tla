---------------------------- MODULE DeviceSearch ----------------------------
(***************************************************************************)
(* What both UefiMain functions take SBC_BlkIoHandleInit to be: one step   *)
(* that finds a raw device together with its own header, or fails with no  *)
(* device and a header that is not a raw device's, or takes a processor    *)
(* fault.  FSBL_Scan and SSBL_Scan of the boot chain have exactly these    *)
(* three outcomes; BlkIoScan implements it handle by handle.               *)
(***************************************************************************)
CONSTANTS
  Handles,   \* numbers of the handles there may be
  Lba0,      \* what the first sector of a device may hold
  Raw,       \* the first sectors that carry the magic number
  Zeroed     \* the caller's header before the search

VARIABLES
  devs,      \* the first sectors of the devices
  outcome,   \* of the search
  hblk,      \* the device handed to the caller, 0 for none
  hdr        \* the caller's header when the search has returned

vars == <<devs, outcome, hblk, hdr>>

Init ==
  /\ devs \in [Handles -> Lba0]
  /\ outcome = "searching" /\ hblk = 0 /\ hdr = Zeroed

(* A raw device: not necessarily the first one, when devices fail. *)
Found ==
  /\ outcome = "searching" /\ outcome' = "found"
  /\ hblk' \in {d \in Handles : devs[d] \in Raw}
  /\ hdr' = devs[hblk']
  /\ UNCHANGED devs

NotFound ==
  /\ outcome = "searching" /\ outcome' = "failed"
  /\ hdr' \in (Lba0 \cup {Zeroed}) \ Raw
  /\ UNCHANGED <<devs, hblk>>

Faulted ==
  /\ outcome = "searching" /\ outcome' = "fault"
  /\ UNCHANGED <<devs, hblk, hdr>>

Next == Found \/ NotFound \/ Faulted

Spec == Init /\ [][Next]_vars

=============================================================================
