---- MODULE MCEspFiles ----
(* Three file systems.  FSBL.efi is missing, signed (two lengths), a       *)
(* signed file with something behind it, signed over nothing, has a        *)
(* trailer that does not fit, or is shorter than a trailer; the kernel is  *)
(* missing, empty, short or long; SSBL and GRUB load or not.               *)
EXTENDS FileBoot

MCFile(l, t, o) == [there |-> TRUE, len |-> l, tail |-> t, over |-> o, inner |-> {}]
MCNone == [there |-> FALSE, len |-> 0, tail |-> 0, over |-> 0, inner |-> {}]

MCShort == MCFile(4, 2, 1)
MCLong == MCFile(6, 2, 3)
MCLonger == [MCFile(5, 1, 0) EXCEPT !.inner = {[len |-> 4, tail |-> 2, over |-> 1]}]
MCVolume(f, k, w, s, g) == [fsbl |-> f, kernel |-> k, kind |-> w, ssbl |-> s, grub |-> g]
MCVolumes ==
  { MCVolume(MCShort, MCFile(2, 0, 0), "ok", TRUE, TRUE),
    MCVolume(MCLong, MCFile(3, 0, 0), "closed", TRUE, FALSE),
    MCVolume(MCLong, MCNone, "full", FALSE, TRUE),
    MCVolume(MCNone, MCFile(3, 0, 0), "ok", FALSE, FALSE),
    MCVolume(MCLonger, MCFile(0, 0, 0), "ok", TRUE, TRUE),
    MCVolume(MCFile(2, 5, 0), MCNone, "closed", FALSE, TRUE),
    MCVolume(MCFile(0, 0, 0), MCFile(0, 0, 0), "ok", FALSE, FALSE),
    MCVolume(MCFile(3, 2, 0), MCNone, "closed", TRUE, FALSE) }
====
