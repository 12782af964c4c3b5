---- MODULE MCRawLayout ----
(* Words of two bytes, blocks of four, sectors of four to six blocks; the  *)
(* files end at, before and behind a block and a sector.                   *)
EXTENDS RawLayout
MCFileLens == {0, 1, 2, 3, 4, 6, 7, 8, 11, 13, 14, 15, 17}
====
