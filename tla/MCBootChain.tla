---- MODULE MCBootChain ----
(* Small instances of BootChain for TLC. *)
EXTENDS BootChain

OnePres(id1, tag1, id2, tag2) ==
  [low |-> [id |-> id1, tag |-> tag1], hi |-> [id |-> id2, tag |-> tag2]]

Bank1Pres == OnePres(1, "C", 2, "P")
Bank2Pres == OnePres(1, "P", 2, "C")
NoPres    == OnePres(1, "P", 2, "P")

MCInitHeaders ==
  {[bm |-> b, km |-> k, pres |-> p] :
     b \in 0 .. 5, k \in {KEY_MODE_NONE, KEY_MODE_NORMAL}, p \in {Bank1Pres, NoPres}}
MCForeignHeaders ==
  {ZeroHeader, [bm |-> BOOT_MODE_NORMAL, km |-> 7, pres |-> Bank2Pres]} \cup
  {[bm |-> BOOT_MODE_FACTORY, km |-> k, pres |-> Bank2Pres] : k \in {KEY_MODE_NORMAL, 9}}
MCStagedHeaders ==
  {[bm |-> BOOT_MODE_UPDATE, km |-> k, pres |-> p] :
     k \in {KEY_MODE_UPDATE}, p \in {Bank1Pres, Bank2Pres}}
MCInitFiles == FileModes
====
