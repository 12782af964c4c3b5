---- MODULE MCBlkIoScan ----
(* Two foreign first sectors and two raw devices, up to four handles. *)
EXTENDS BlkIoScan

MCRaw == {"raw1", "raw2"}
MCLba0 == {"mbr", "data"} \cup MCRaw
====
