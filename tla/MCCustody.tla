----------------------------- MODULE MCCustody -----------------------------
(***************************************************************************)
(* Two interchangeable workers around one job; the .cfg files choose the   *)
(* calls, the clock and the failures an instance is about.  `result'       *)
(* guards no action, so ButResult identifies states that differ in it      *)
(* only: the property about results is one of steps, checked on each step. *)
(***************************************************************************)
EXTENDS CustodyOracle, TLC

WorkerSymmetry == Permutations(Workers)
ButResult == <<now, store, hint, late, pc, op, floor, todo, tail, hinted,
               known, draft, handle>>

============================================================================
