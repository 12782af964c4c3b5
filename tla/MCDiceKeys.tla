---- MODULE MCDiceKeys ----
(* Small instances of DiceKeys for TLC: a reference site, the sites that   *)
(* differ from it in one thing (also in one that the reference site reads  *)
(* when an access fails), one with other loaders, one with the banks       *)
(* exchanged and one whose serial numbers divide the same characters       *)
(* differently.                                                            *)
EXTENDS DiceKeys

Images(v) == [fsbl |-> "fsbl" , ssbl |-> v, os |-> v]
MCSite ==
  [mb |-> <<"mb">>, mm |-> <<"mm">>, nvme |-> <<"nv">>, spare |-> <<"nv2">>,
   fsbl |-> [head |-> "mz", body |-> "f1"], kernel |-> "k1",
   copy |-> [head |-> "mz2", kernel |-> "k2"],
   bank |-> <<Images("v1"), Images("v2")>>, curr |-> 1]

MCChars == {"mb", "mm", "nv", "mb2", "mm2", "nv2", "mz", "mz2"}

MCSites ==
  {MCSite,
   [MCSite EXCEPT !.mb = <<"mb2">>], [MCSite EXCEPT !.mm = <<"mm2">>],
   [MCSite EXCEPT !.nvme = <<"nv2">>],
   [MCSite EXCEPT !.mb = <<"mb", "mm">>, !.mm = <<>>],
   [MCSite EXCEPT !.mb = <<>>], [MCSite EXCEPT !.mm = <<>>], [MCSite EXCEPT !.nvme = <<>>],
   [MCSite EXCEPT !.fsbl.head = "mz2"], [MCSite EXCEPT !.fsbl.body = "f2"],
   [MCSite EXCEPT !.kernel = "k2"],
   [MCSite EXCEPT !.bank[1].fsbl = "fsbl2"],
   [MCSite EXCEPT !.bank[1].ssbl = "v3"],
   [MCSite EXCEPT !.fsbl.body = "f2", !.bank[1].ssbl = "v3"],
   [MCSite EXCEPT !.bank[1].os = "v3"],
   [MCSite EXCEPT !.bank[2].ssbl = "v3"], [MCSite EXCEPT !.bank[2].os = "v3"],
   [MCSite EXCEPT !.curr = 2],
   [MCSite EXCEPT !.bank = <<Images("v2"), Images("v1")>>]}
====
