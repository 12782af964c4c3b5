---------------------------- MODULE FileService ----------------------------
(***************************************************************************)
(* What the boot chain takes a loader's work on files to be: operations    *)
(* done one after the other, each of them one step that succeeds or that   *)
(* is refused.  With one copy of each file an operation succeeds exactly   *)
(* if its file is right and no access fails, as FSBL_Verify,               *)
(* FSBL_StartSSBL and the others have it.  With several file systems two   *)
(* conditions take the place of one: sure, under which an operation that   *)
(* meets no failing access succeeds, and may, without which it never does. *)
(***************************************************************************)
VARIABLES
  may, sure,   \* of each operation, given by the files
  stage,       \* the operation at hand, or how the boot ended
  hurt         \* has an access failed in this operation?

vars == <<may, sure, stage, hurt>>

Ops == {"verify", "copy", "start", "kernel", "grub"}

After(o) ==
  CASE o = "verify" -> "copy" [] o = "copy" -> "start" [] o = "start" -> "kernel"
    [] o = "kernel" -> "grub" [] o = "grub" -> "done"

(* How an operation can be refused: an error, SBCOK with nothing started,  *)
(* or a processor fault.                                                   *)
Refusals(o) ==
  CASE o \in {"verify", "start"} -> {"fail", "hang"}
    [] o \in {"copy", "kernel"} -> {"fail"}
    [] o = "grub" -> {"returned", "hang"}

Init ==
  /\ may \in [Ops -> BOOLEAN] /\ sure \in [Ops -> BOOLEAN]
  /\ \A o \in Ops : sure[o] => may[o]
  /\ stage = "verify" /\ hurt = FALSE

(* An access fails, and the operation goes on. *)
Trouble ==
  /\ stage \in Ops /\ hurt' = TRUE
  /\ UNCHANGED <<may, sure, stage>>

(* The operation succeeds.  Only the copy may do so without being sure to: *)
(* past a full file system it writes an empty file.                        *)
Success(o) ==
  /\ stage = o /\ may[o]
  /\ ~hurt => sure[o] \/ o = "copy"
  /\ stage' = After(o) /\ hurt' = FALSE
  /\ UNCHANGED <<may, sure>>

Refusal(o) ==
  /\ stage = o /\ stage' \in Refusals(o)
  /\ hurt' \/ ~sure[o]
  /\ hurt' \in {hurt, TRUE}
  /\ UNCHANGED <<may, sure>>

Next == Trouble \/ \E o \in Ops : Success(o) \/ Refusal(o)

Spec == Init /\ [][Next]_vars

=============================================================================
