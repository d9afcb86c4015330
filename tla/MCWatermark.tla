---------------------------- MODULE MCWatermark ----------------------------
(***************************************************************************)
(* Two tasks, either in one process, where they share a floor cache, or in *)
(* two.  `outcome' guards no action, so ButOutcome identifies states that  *)
(* differ in it only; the property that reads it is one of steps.          *)
(***************************************************************************)
EXTENDS Watermark

CONSTANTS t1, t2, q1, q2

OneProcess == [t \in {t1, t2} |-> q1]
TwoProcesses == [t \in {t1, t2} |-> IF t = t1 THEN q1 ELSE q2]

ButOutcome == <<now, wm, cache, pc, floor, beacon, seen, version>>

============================================================================
