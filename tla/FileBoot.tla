------------------------------ MODULE FileBoot ------------------------------
(***************************************************************************)
(* EspFiles with a history variable: what had failed when the operation at *)
(* hand began.  With it the work on files, copy by copy, can be compared   *)
(* with FileService, operation by operation.                               *)
(***************************************************************************)
EXTENDS EspFiles

VARIABLE mark   \* faults when the operation began

bootvars == <<vars, mark>>

BootInit == Init /\ mark = 0
BootNext == Next /\ mark' = IF op' = op THEN mark ELSE faults'
BootSpec == BootInit /\ [][BootNext]_bootvars

-----------------------------------------------------------------------------
(* No access has failed in this operation. *)
Unhurt == faults = mark

(* There is a file system the operation can succeed with. *)
May(o) ==
  CASE o = "verify" -> \E u, v \in Vol : HasFsbl(u) /\ SignedTo(vols[v].fsbl, vols[u].fsbl.len)
    [] o = "copy"   -> \E v \in Vol : vols[v].kind # "closed"
    [] o = "start"  -> \E v \in Vol : vols[v].ssbl
    [] o = "kernel" -> \E v \in Vol : HasKernel(v) /\ vols[v].kernel.len > 0
    [] o = "grub"   -> \E v \in Vol : vols[v].grub

(* It succeeds when no access fails: the first copy is the right one, or   *)
(* any copy will do.                                                       *)
Sure(o) ==
  CASE o = "verify" -> (\E v \in Vol : HasFsbl(v)) /\ Signed(vols[FirstWith(HasFsbl)].fsbl)
    [] o = "copy"   -> \E v \in Vol : vols[v].kind = "ok"
    [] o = "kernel" -> (\E v \in Vol : HasKernel(v)) /\ vols[FirstWith(HasKernel)].kernel.len > 0
    [] OTHER        -> May(o)

FileOps == {"verify", "copy", "start", "kernel", "grub"}

Service ==
  INSTANCE FileService WITH
    may <- [o \in FileOps |-> May(o)],
    sure <- [o \in FileOps |-> Sure(o)],
    stage <- IF pc \in {"done", "returned", "fail", "hang"} THEN pc ELSE op,
    hurt <- pc # "done" /\ ~Unhurt

(* Over any number of file systems, with copies that differ and with       *)
(* lookups that need not agree, each operation is to its caller what the   *)
(* boot chain takes it for: it is refused only because of its files or of  *)
(* a failing access of its own, never of one in an earlier operation; it   *)
(* succeeds only with a file system that has what it needs; and the next   *)
(* one begins only then.                                                   *)
ServiceSpec == Service!Spec

=============================================================================
