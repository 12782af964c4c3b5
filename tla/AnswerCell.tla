----------------------------- MODULE AnswerCell -----------------------------
(***************************************************************************)
(* What the boot chain takes the stored base answer to be: a cell that is  *)
(* empty or holds one sealed answer, and that a later store replaces in    *)
(* one step.  BaseAnswer implements it with a record in a multi-block      *)
(* area, whatever a torn write leaves of the other blocks.                 *)
(***************************************************************************)
EXTENDS Naturals

CONSTANT Sealed   \* the answers that may be stored, numbered by their store

VARIABLE cell

Init == cell = {}

(* A store takes effect: never one older than what is there. *)
Put(s) ==
  /\ \A r \in cell : r.n < s.n
  /\ cell' = {s}

Next == \E s \in Sealed : Put(s)

Spec == Init /\ [][Next]_cell

=============================================================================
