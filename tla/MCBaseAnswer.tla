---- MODULE MCBaseAnswer ----
(* Three blocks, two keys, the shortest answer, the longest that the slot   *)
(* has room for, the next and the longest that the trailer can announce.    *)
EXTENDS BaseAnswer
MCLens == {1, 16, 17, 255}
MCKeys == {"migid", "osid"}
====
