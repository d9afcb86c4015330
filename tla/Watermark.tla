----------------------------- MODULE Watermark -----------------------------
(***************************************************************************)
(* Wall floors and the watermark (establish_floor, advance_watermark and   *)
(* the floor cache of crates/stowq-core/src/lib.rs).                       *)
(*                                                                         *)
(* Tasks share the floor cache of the Queue they belong to, and all queues *)
(* share the watermark object.  The store is honest: `now' is its true     *)
(* time and a beacon's stamp lags it by at most Dispersion.  Every store   *)
(* operation is a step, so a task may rest between any two of them.  A     *)
(* beacon and its HEAD are one step: nobody else knows the nonce.  The     *)
(* record's `sequence' is written and never read, and is left out.         *)
(***************************************************************************)
EXTENDS Integers, FiniteSetsExt

CONSTANTS
  Queues,       \* processes, each with one floor cache
  Tasks,        \* tasks that establish floors and advance the watermark
  Home,         \* Home[t]: the queue task t runs in
  Width,        \* format.delayed_bucket_width_ns
  SkewGuard,    \* opts.skew_guard_ns
  Dispersion,   \* how far a stamp may lag true store time
  Staleness,    \* FLOOR_STALENESS_NS
  MaxTime       \* bound: true store time

ASSUME WatermarkConstants ==
  /\ Home \in [Tasks -> Queues]
  /\ Width \in Nat \ {0}
  /\ SkewGuard \in Nat
  /\ Dispersion \in Nat
  /\ Staleness \in Nat
  /\ MaxTime \in Nat

\* "skew_guard >= G": the deployment rule of spec/time.md.
ASSUME WatermarkSkew == SkewGuard >= Dispersion

VARIABLES
  now,      \* true store time
  wm,       \* meta/watermark: its bucket and version, version 0 when absent
  cache,    \* cache[q]: the floor cache, floor 0 when empty
  pc,       \* pc[t]: where task t is in its call
  floor,    \* floor[t]: the floor t's caller holds, 0 for none
  beacon,   \* beacon[t]: the stamp of the beacon t has put
  seen,     \* seen[t]: the watermark as t last read it
  version,  \* version[t]: the version t is going to CAS against
  outcome   \* outcome[t]: what t's last call returned

vars == <<now, wm, cache, pc, floor, beacon, seen, version, outcome>>

NoWatermark == [bucket |-> 0, version |-> 0]
NoCache == [floor |-> 0, at |-> 0]

Stamps == {s \in 1..now : now <= s + Dispersion}

\* Deviations of the bucket arithmetic: rounding up; the bucket before.
bucket_ceiling(ns) == (ns + Width - 1) \div Width
bucket_before(ns) == ns \div Width - 1

bucket_number(ns) == ns \div Width

effective_floor(ns, w) == Max({ns, w.bucket * Width})

\* The call of t returns r.
Return(t, r) ==
  /\ pc' = [pc EXCEPT ![t] = "idle"]
  /\ beacon' = [beacon EXCEPT ![t] = 0]
  /\ seen' = [seen EXCEPT ![t] = NoWatermark]
  /\ version' = [version EXCEPT ![t] = 0]
  /\ outcome' = [outcome EXCEPT ![t] = r]

Goto(t, label) == pc' = [pc EXCEPT ![t] = label]

----------------------------------------------------------------------------
(* establish_floor                                                         *)

CacheFresh(t) ==
  /\ cache[Home[t]].floor > 0
  /\ now - cache[Home[t]].at < Staleness

FloorCached(t) ==
  /\ pc[t] = "idle"
  /\ CacheFresh(t)
  /\ floor' = [floor EXCEPT ![t] = cache[Home[t]].floor]
  /\ outcome' = [outcome EXCEPT ![t] = "floor"]
  /\ UNCHANGED <<now, wm, cache, pc, beacon, seen, version>>

\* A beacon whose outcome is unknown is abandoned for one with a fresh
\* nonce, so only the one that is answered counts.
PutBeacon(t) ==
  /\ pc[t] = "idle"
  /\ ~CacheFresh(t)
  /\ Goto(t, "gate")
  /\ \E s \in Stamps : beacon' = [beacon EXCEPT ![t] = s]
  /\ UNCHANGED <<now, wm, cache, floor, seen, version, outcome>>

ReadGate(t) ==
  /\ pc[t] = "gate"
  /\ Goto(t, "publish")
  /\ seen' = [seen EXCEPT ![t] = wm]
  /\ UNCHANGED <<now, wm, cache, floor, beacon, version, outcome>>

\* Deviation of the gate: it runs after the raise.
RegressedMasked(t) ==
  effective_floor(beacon[t], seen[t]) + SkewGuard < seen[t].bucket * Width

\* The stored bucket lies further above the raw beacon than the guard allows.
Regressed(t) == beacon[t] + SkewGuard < seen[t].bucket * Width

Refuse(t) ==
  /\ pc[t] = "publish"
  /\ Regressed(t)
  /\ Return(t, "regression")
  /\ UNCHANGED <<now, wm, cache, floor>>

Publish(t) ==
  /\ pc[t] = "publish"
  /\ ~Regressed(t)
  /\ LET f == effective_floor(beacon[t], seen[t])
     IN /\ cache' = [cache EXCEPT ![Home[t]] = [floor |-> f, at |-> now]]
        /\ floor' = [floor EXCEPT ![t] = f]
  /\ Return(t, "floor")
  /\ UNCHANGED <<now, wm>>

----------------------------------------------------------------------------
(* advance_watermark(floor)                                                *)

Target(t) == bucket_number(floor[t])

StartAdvance(t) ==
  /\ pc[t] = "idle"
  /\ floor[t] > 0
  /\ Goto(t, "read")
  /\ UNCHANGED <<now, wm, cache, floor, beacon, seen, version, outcome>>

\* The loop head: a stored bucket at or above ours covers the call.
ReadCurrent(t) ==
  /\ pc[t] = "read"
  /\ IF wm.version # 0 /\ Target(t) <= wm.bucket
     THEN Return(t, "advanced")
     ELSE /\ Goto(t, IF wm.version = 0 THEN "create" ELSE "head")
          /\ UNCHANGED <<beacon, seen, version, outcome>>
  /\ UNCHANGED <<now, wm, cache, floor>>

\* The version comes from a HEAD of its own, after the read.
HeadVersion(t) ==
  /\ pc[t] = "head"
  /\ Goto(t, "cas")
  /\ version' = [version EXCEPT ![t] = wm.version]
  /\ UNCHANGED <<now, wm, cache, floor, beacon, seen, outcome>>

\* version[t] is 0 for put_if_absent, so one comparison serves both writes.
Matches(t) == version[t] = wm.version

Store(t) == wm' = [bucket |-> Target(t), version |-> wm.version + 1]

WriteCommitted(t) ==
  /\ pc[t] \in {"create", "cas"}
  /\ Matches(t)
  /\ Store(t)
  /\ Return(t, "advanced")
  /\ UNCHANGED <<now, cache, floor>>

\* Deviations of the lost race: taken for success; retried without a read.
WriteLostDone(t) ==
  /\ pc[t] \in {"create", "cas"}
  /\ ~Matches(t)
  /\ Return(t, "advanced")
  /\ UNCHANGED <<now, wm, cache, floor>>

WriteLostBlind(t) ==
  /\ pc[t] \in {"create", "cas"}
  /\ ~Matches(t)
  /\ UNCHANGED vars

WriteLost(t) ==
  /\ pc[t] \in {"create", "cas"}
  /\ ~Matches(t)
  /\ Goto(t, "read")
  /\ version' = [version EXCEPT ![t] = 0]
  /\ UNCHANGED <<now, wm, cache, floor, beacon, seen, outcome>>

\* OutcomeUnknown: applied or not, the answer is lost.
WriteUnanswered(t) ==
  /\ pc[t] \in {"create", "cas"}
  /\ \/ Matches(t) /\ Store(t)
     \/ UNCHANGED wm
  /\ Goto(t, "cover")
  /\ version' = [version EXCEPT ![t] = 0]
  /\ UNCHANGED <<now, cache, floor, beacon, seen, outcome>>

watermark_covers(t) == wm.version # 0 /\ wm.bucket >= Target(t)

ReadCover(t) ==
  /\ pc[t] = "cover"
  /\ IF watermark_covers(t)
     THEN Return(t, "advanced")
     ELSE Goto(t, "read") /\ UNCHANGED <<beacon, seen, version, outcome>>
  /\ UNCHANGED <<now, wm, cache, floor>>

----------------------------------------------------------------------------
(* Failures and the environment                                            *)

\* The budget or the transport retries run out.
GiveUp(t) ==
  /\ pc[t] # "idle"
  /\ Return(t, "error")
  /\ UNCHANGED <<now, wm, cache, floor>>

\* The process restarts: its cache and its tasks' calls and floors are gone.
Restart(q) ==
  LET mine == {t \in Tasks : Home[t] = q}
      Reset(f, v) == [t \in Tasks |-> IF t \in mine THEN v ELSE f[t]]
  IN /\ cache[q] # NoCache
     /\ cache' = [cache EXCEPT ![q] = NoCache]
     /\ pc' = Reset(pc, "idle")
     /\ floor' = Reset(floor, 0)
     /\ beacon' = Reset(beacon, 0)
     /\ seen' = Reset(seen, NoWatermark)
     /\ version' = Reset(version, 0)
     /\ outcome' = Reset(outcome, "none")
     /\ UNCHANGED <<now, wm>>

Tick ==
  /\ now < MaxTime
  /\ now' = now + 1
  /\ UNCHANGED <<wm, cache, pc, floor, beacon, seen, version, outcome>>

----------------------------------------------------------------------------
Init ==
  /\ now = 1
  /\ wm = NoWatermark
  /\ cache = [q \in Queues |-> NoCache]
  /\ pc = [t \in Tasks |-> "idle"]
  /\ floor = [t \in Tasks |-> 0]
  /\ beacon = [t \in Tasks |-> 0]
  /\ seen = [t \in Tasks |-> NoWatermark]
  /\ version = [t \in Tasks |-> 0]
  /\ outcome = [t \in Tasks |-> "none"]

Call(t) == FloorCached(t) \/ PutBeacon(t) \/ StartAdvance(t)

Step(t) ==
  \/ ReadGate(t) \/ Refuse(t) \/ Publish(t)
  \/ ReadCurrent(t) \/ HeadVersion(t)
  \/ WriteCommitted(t) \/ WriteLost(t) \/ ReadCover(t)

Next ==
  \/ \E t \in Tasks : Call(t) \/ Step(t) \/ WriteUnanswered(t) \/ GiveUp(t)
  \/ \E q \in Queues : Restart(q)
  \/ Tick

Spec == Init /\ [][Next]_vars

\* A task that is in a call goes on with it, and answers eventually arrive.
LiveSpec ==
  /\ Spec
  /\ \A t \in Tasks : WF_vars(Step(t))
  /\ <>[][\A t \in Tasks : ~WriteUnanswered(t)]_vars

----------------------------------------------------------------------------
(* Properties                                                              *)

\* The shape of the state.
TypeOK ==
  /\ now \in Nat
  /\ wm \in [bucket : Nat, version : Nat]
  /\ cache \in [Queues -> [floor : Nat, at : Nat]]
  /\ pc \in [Tasks -> {"idle", "gate", "publish", "read", "create", "head",
                       "cas", "cover"}]
  /\ floor \in [Tasks -> Nat]
  /\ beacon \in [Tasks -> Nat]
  /\ seen \in [Tasks -> [bucket : Nat, version : Nat]]
  /\ version \in [Tasks -> Nat]
  /\ outcome \in [Tasks -> {"none", "floor", "advanced", "regression", "error"}]

\* "The floor is a proven lower bound on store time" (establish_floor), also
\* when it was raised to the watermark, whose bucket is one as well: no floor
\* that a caller or a cache holds is ever ahead of true store time.
FloorsSound ==
  /\ wm.bucket * Width <= now
  /\ \A t \in Tasks : floor[t] <= now
  /\ \A q \in Queues : cache[q].floor <= now

\* The raise is bounded: the floor a call publishes is at most the skew guard
\* above the stamp of its own beacon (the gate before the raise).
RaiseBounded ==
  [][\A t \in Tasks :
       pc[t] = "publish" /\ floor'[t] # floor[t] /\ floor'[t] # 0 =>
         /\ beacon[t] <= floor'[t]
         /\ floor'[t] <= beacon[t] + SkewGuard]_vars

\* When advance_watermark returns Ok, the stored bucket covers the caller's:
\* through its own write, a lost race or a lost answer.
AdvanceCovers ==
  [][\A t \in Tasks :
       outcome'[t] = "advanced" /\ pc[t] # "idle" /\ pc'[t] = "idle" =>
         wm'.version # 0 /\ wm'.bucket >= Target(t)]_vars

\* Contention on the CAS does not keep a call from returning.
CallsReturn == \A t \in Tasks : pc[t] # "idle" ~> pc[t] = "idle"

----------------------------------------------------------------------------
(* What comments and specification pages say that the code does not do.    *)

\* "Advances the watermark monotonically" (comment on advance_watermark and
\* spec/time.md).
WatermarkMonotone == [][wm'.bucket >= wm.bucket]_vars

\* "A fresh floor below the watermark means store time moved backwards"
\* (comment in establish_floor): with an honest store it is never reported.
NoFalseRegression == \A t \in Tasks : outcome[t] # "regression"

============================================================================
