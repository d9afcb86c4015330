-------------------------- MODULE WatermarkProofs --------------------------
(***************************************************************************)
(* Proofs about Watermark, for any number of processes and tasks, any      *)
(* bucket width, guard, dispersion and staleness window.                   *)
(***************************************************************************)
EXTENDS Watermark, TLAPS

----------------------------------------------------------------------------
(* The inductive invariant: every value that can become a floor or a       *)
(* bucket is a lower bound on store time, the ones a task has read but not *)
(* yet used included.                                                      *)

Bounded(w) == w.bucket * Width <= now

IInv ==
  /\ TypeOK
  /\ FloorsSound
  /\ \A t \in Tasks : beacon[t] <= now /\ Bounded(seen[t])

----------------------------------------------------------------------------
(* Arithmetic                                                              *)

\* bucket_number rounds down: a bucket starts no later than the instant it
\* was computed from.
LEMMA BucketFloor ==
  ASSUME NEW n \in Nat
  PROVE  bucket_number(n) \in Nat /\ bucket_number(n) * Width <= n
<1>1. Width \in Nat /\ Width > 0
  BY WatermarkConstants
<1> QED
  BY <1>1 DEF bucket_number

\* The watermark can only raise a floor, and only to its own bucket.
LEMMA RaisedFloor ==
  ASSUME NEW n \in Nat, NEW w \in [bucket : Nat, version : Nat]
  PROVE  /\ effective_floor(n, w) \in Nat
         /\ effective_floor(n, w) = n \/ effective_floor(n, w) = w.bucket * Width
         /\ effective_floor(n, w) >= n
         /\ effective_floor(n, w) >= w.bucket * Width
<1>1. PICK m \in Nat : m = w.bucket * Width
  BY WatermarkConstants
<1>2. \E x \in {n, m} : \A y \in {n, m} : x >= y
  BY <1>1
<1> QED
  BY <1>1, <1>2 DEF effective_floor, Max

\* What is bounded now stays bounded as time passes.
LEMMA BoundedLater ==
  ASSUME NEW w \in [bucket : Nat, version : Nat], now \in Nat, now' \in Nat,
         now <= now', Bounded(w)
  PROVE  Bounded(w)'
<1>1. PICK m \in Nat : m = w.bucket * Width
  BY WatermarkConstants
<1> QED
  BY <1>1 DEF Bounded

\* The empty record is bounded.
LEMMA NoneBounded ==
  ASSUME now \in Nat
  PROVE  NoWatermark \in [bucket : Nat, version : Nat] /\ Bounded(NoWatermark)
BY WatermarkConstants DEF NoWatermark, Bounded

----------------------------------------------------------------------------
(* Steps                                                                   *)

\* What one task's step may change, the calls' local state, stays typed and
\* bounded: here is the part that a returning call touches.
LEMMA ReturnLocal ==
  ASSUME IInv, NEW t \in Tasks, now' = now,
         NEW r \in {"none", "floor", "advanced", "regression", "error"},
         Return(t, r)
  PROVE  /\ pc' \in [Tasks -> {"idle", "gate", "publish", "read", "create",
                               "head", "cas", "cover"}]
         /\ beacon' \in [Tasks -> Nat]
         /\ seen' \in [Tasks -> [bucket : Nat, version : Nat]]
         /\ version' \in [Tasks -> Nat]
         /\ outcome' \in [Tasks -> {"none", "floor", "advanced", "regression",
                                    "error"}]
         /\ \A v \in Tasks : beacon'[v] <= now' /\ Bounded(seen[v])'
<1>1. /\ now \in Nat
      /\ beacon \in [Tasks -> Nat]
      /\ seen \in [Tasks -> [bucket : Nat, version : Nat]]
      /\ \A v \in Tasks : beacon[v] <= now /\ Bounded(seen[v])
  BY DEF IInv, TypeOK
<1>2. NoWatermark \in [bucket : Nat, version : Nat] /\ Bounded(NoWatermark)
  BY <1>1, NoneBounded
<1>3. \A v \in Tasks : beacon'[v] <= now' /\ Bounded(seen[v])'
  <2>1. SUFFICES ASSUME NEW v \in Tasks
                 PROVE  beacon'[v] <= now' /\ seen'[v].bucket * Width <= now'
    BY DEF Bounded
  <2>2. CASE v = t
    BY <1>1, <1>2, <2>2 DEF Return, Bounded
  <2>3. CASE v # t
    BY <1>1, <2>3 DEF Return, Bounded
  <2> QED
    BY <2>2, <2>3
<1> QED
  BY <1>1, <1>2, <1>3 DEF Return, IInv, TypeOK

\* A floor is published: its own beacon, or the bucket it has read.
LEMMA PublishInv ==
  ASSUME IInv, NEW t \in Tasks, Publish(t)
  PROVE  IInv'
<1>1. /\ TypeOK /\ FloorsSound /\ now' = now /\ wm' = wm
      /\ beacon[t] \in Nat /\ beacon[t] <= now
      /\ seen[t] \in [bucket : Nat, version : Nat]
      /\ seen[t].bucket * Width <= now
  BY DEF IInv, TypeOK, Bounded, Publish
<1>2. PICK f : f = effective_floor(beacon[t], seen[t])
  OBVIOUS
<1>3. f \in Nat /\ f <= now
  BY <1>1, <1>2, RaisedFloor
<1>4. /\ cache' = [cache EXCEPT ![Home[t]] = [floor |-> f, at |-> now]]
      /\ floor' = [floor EXCEPT ![t] = f]
      /\ Return(t, "floor")
  BY <1>2 DEF Publish
<1>5. /\ cache' \in [Queues -> [floor : Nat, at : Nat]]
      /\ floor' \in [Tasks -> Nat]
  BY <1>1, <1>3, <1>4, WatermarkConstants DEF TypeOK
<1>6. /\ \A v \in Tasks : floor'[v] <= now'
      /\ \A q \in Queues : cache'[q].floor <= now'
  BY <1>1, <1>3, <1>4 DEF TypeOK, FloorsSound
<1>7. TypeOK'
  BY <1>1, <1>4, <1>5, ReturnLocal DEF TypeOK
<1>8. FloorsSound'
  BY <1>1, <1>6 DEF FloorsSound
<1> QED
  BY <1>1, <1>4, <1>7, <1>8, ReturnLocal DEF IInv

\* A write stores the bucket of the caller's floor, which rounds down.
LEMMA StoreBounded ==
  ASSUME IInv, NEW t \in Tasks, Store(t), now' = now
  PROVE  wm' \in [bucket : Nat, version : Nat] /\ wm'.bucket * Width <= now'
<1>1. floor[t] \in Nat /\ floor[t] <= now /\ now \in Nat /\ wm.version \in Nat
  BY DEF IInv, TypeOK, FloorsSound
<1>2. Target(t) \in Nat /\ Target(t) * Width <= floor[t]
  BY <1>1, BucketFloor DEF Target
<1>3. PICK m \in Nat : m = Target(t) * Width
  BY <1>2, WatermarkConstants
<1> QED
  BY <1>1, <1>2, <1>3 DEF Store

\* A call that returns without publishing, with or without a write.
LEMMA ReturnInv ==
  ASSUME IInv, NEW t \in Tasks, now' = now, UNCHANGED <<cache, floor>>,
         NEW r \in {"none", "floor", "advanced", "regression", "error"},
         Return(t, r), wm' = wm \/ Store(t)
  PROVE  IInv'
<1>1. wm' \in [bucket : Nat, version : Nat] /\ wm'.bucket * Width <= now'
  BY StoreBounded DEF IInv, TypeOK, FloorsSound
<1>2. TypeOK'
  BY <1>1, ReturnLocal DEF IInv, TypeOK
<1>3. FloorsSound'
  BY <1>1 DEF IInv, FloorsSound
<1> QED
  BY <1>2, <1>3, ReturnLocal DEF IInv

\* A call that moves on: what it reads is bounded.
LEMMA MoveInv ==
  ASSUME IInv, NEW t \in Tasks, now' = now, UNCHANGED <<cache, floor>>,
         NEW q \in {"gate", "publish", "read", "create", "head", "cas", "cover"},
         Goto(t, q), wm' = wm \/ Store(t),
         UNCHANGED beacon \/ \E s \in Stamps : beacon' = [beacon EXCEPT ![t] = s],
         UNCHANGED seen \/ seen' = [seen EXCEPT ![t] = wm],
         UNCHANGED version \/ \E n \in Nat : version' = [version EXCEPT ![t] = n],
         UNCHANGED outcome
  PROVE  IInv'
<1>1. /\ TypeOK /\ FloorsSound /\ now \in Nat
      /\ \A v \in Tasks : beacon[v] <= now /\ Bounded(seen[v])
  BY DEF IInv, TypeOK
<1>2. wm' \in [bucket : Nat, version : Nat] /\ wm'.bucket * Width <= now'
  BY StoreBounded DEF IInv, TypeOK, FloorsSound
<1>3. /\ beacon' \in [Tasks -> Nat]
      /\ \A v \in Tasks : beacon'[v] <= now'
  BY <1>1 DEF TypeOK, Stamps
<1>4. /\ seen' \in [Tasks -> [bucket : Nat, version : Nat]]
      /\ \A v \in Tasks : Bounded(seen[v])'
  <2>1. seen' \in [Tasks -> [bucket : Nat, version : Nat]]
    BY <1>1 DEF TypeOK
  <2>2. ASSUME NEW v \in Tasks
        PROVE  seen'[v].bucket * Width <= now'
    <3>1. seen'[v] = seen[v] \/ seen'[v] = wm
      BY <1>1 DEF TypeOK
    <3> QED
      BY <1>1, <3>1 DEF FloorsSound, Bounded
  <2> QED
    BY <2>1, <2>2 DEF Bounded
<1>5. version' \in [Tasks -> Nat]
  BY <1>1 DEF TypeOK
<1>6. TypeOK'
  BY <1>1, <1>2, <1>3, <1>4, <1>5 DEF TypeOK, Goto
<1>7. FloorsSound'
  BY <1>1, <1>2 DEF FloorsSound
<1> QED
  BY <1>3, <1>4, <1>6, <1>7 DEF IInv

\* A cached floor is one that was published before.
LEMMA FloorCachedInv ==
  ASSUME IInv, NEW t \in Tasks, FloorCached(t)
  PROVE  IInv'
<1>1. /\ floor' = [floor EXCEPT ![t] = cache[Home[t]].floor]
      /\ outcome' = [outcome EXCEPT ![t] = "floor"]
      /\ UNCHANGED <<now, wm, cache, pc, beacon, seen, version>>
  BY DEF FloorCached
<1>2. TypeOK /\ FloorsSound /\ Home[t] \in Queues
  BY WatermarkConstants DEF IInv
<1>3. TypeOK'
  BY <1>1, <1>2 DEF TypeOK
<1>4. FloorsSound'
  BY <1>1, <1>2 DEF FloorsSound, TypeOK
<1> QED
  BY <1>1, <1>3, <1>4 DEF IInv, Bounded

\* A restarted process keeps none of its floors.
LEMMA RestartInv ==
  ASSUME IInv, NEW q \in Queues, Restart(q)
  PROVE  IInv'
<1>1. PICK mine \in SUBSET Tasks :
        /\ cache' = [cache EXCEPT ![q] = NoCache]
        /\ pc' = [t \in Tasks |-> IF t \in mine THEN "idle" ELSE pc[t]]
        /\ floor' = [t \in Tasks |-> IF t \in mine THEN 0 ELSE floor[t]]
        /\ beacon' = [t \in Tasks |-> IF t \in mine THEN 0 ELSE beacon[t]]
        /\ seen' = [t \in Tasks |-> IF t \in mine THEN NoWatermark ELSE seen[t]]
        /\ version' = [t \in Tasks |-> IF t \in mine THEN 0 ELSE version[t]]
        /\ outcome' = [t \in Tasks |-> IF t \in mine THEN "none" ELSE outcome[t]]
        /\ UNCHANGED <<now, wm>>
  BY DEF Restart
<1>2. /\ TypeOK /\ FloorsSound /\ now \in Nat
      /\ \A t \in Tasks : beacon[t] <= now /\ Bounded(seen[t])
  BY DEF IInv, TypeOK
<1>3. NoWatermark \in [bucket : Nat, version : Nat] /\ Bounded(NoWatermark)
  BY <1>2, NoneBounded
<1>4. TypeOK'
  BY <1>1, <1>2, <1>3 DEF TypeOK, NoCache
<1>5. FloorsSound'
  BY <1>1, <1>2 DEF FloorsSound, TypeOK, NoCache
<1>6. \A t \in Tasks : beacon'[t] <= now' /\ Bounded(seen[t])'
  BY <1>1, <1>2, <1>3 DEF Bounded
<1> QED
  BY <1>4, <1>5, <1>6 DEF IInv

\* Time only moves forward.
LEMMA TickInv ==
  ASSUME IInv, Tick
  PROVE  IInv'
<1>1. /\ now \in Nat /\ now' \in Nat /\ now <= now'
      /\ UNCHANGED <<wm, cache, pc, floor, beacon, seen, version, outcome>>
  BY DEF IInv, TypeOK, Tick
<1>2. TypeOK /\ FloorsSound
  BY DEF IInv
<1>3. TypeOK'
  BY <1>1, <1>2 DEF TypeOK
<1>4. FloorsSound'
  <2>1. PICK m \in Nat : m = wm.bucket * Width
    BY <1>2, WatermarkConstants DEF TypeOK
  <2>2. wm'.bucket * Width <= now'
    BY <1>1, <1>2, <2>1 DEF FloorsSound
  <2> QED
    BY <1>1, <1>2, <2>2 DEF FloorsSound, TypeOK
<1>5. \A t \in Tasks : beacon'[t] <= now' /\ Bounded(seen[t])'
  <2>1. SUFFICES ASSUME NEW t \in Tasks
                 PROVE  beacon[t] <= now' /\ seen[t].bucket * Width <= now'
    BY <1>1 DEF Bounded
  <2>2. PICK m \in Nat : m = seen[t].bucket * Width
    BY <1>2, WatermarkConstants DEF TypeOK
  <2> QED
    BY <1>1, <1>2, <2>2 DEF IInv, TypeOK, Bounded
<1> QED
  BY <1>3, <1>4, <1>5 DEF IInv

----------------------------------------------------------------------------
(* The theorems                                                            *)

\* The invariant holds at the start.
LEMMA InitInv == Init => IInv
<1>1. SUFFICES ASSUME Init
               PROVE  IInv
  OBVIOUS
<1>2. 0 * Width = 0
  BY WatermarkConstants
<1>3. TypeOK
  BY <1>1 DEF Init, TypeOK, NoWatermark, NoCache
<1>4. FloorsSound
  BY <1>1, <1>2 DEF Init, FloorsSound, NoWatermark, NoCache
<1> QED
  BY <1>1, <1>2, <1>3, <1>4 DEF Init, IInv, Bounded, NoWatermark

\* Every step keeps the invariant.
LEMMA StepInv == IInv /\ [Next]_vars => IInv'
<1>1. SUFFICES ASSUME IInv, [Next]_vars
               PROVE  IInv'
  OBVIOUS
<1>2. ASSUME NEW t \in Tasks, Call(t)
      PROVE  IInv'
  <2>1. CASE PutBeacon(t) \/ StartAdvance(t)
    BY <1>1, <2>1, MoveInv DEF PutBeacon, StartAdvance
  <2> QED
    BY <1>1, <1>2, <2>1, FloorCachedInv DEF Call
<1>3. ASSUME NEW t \in Tasks, Step(t)
      PROVE  IInv'
  <2>1. CASE ReadGate(t)
    BY <1>1, <2>1, MoveInv DEF ReadGate
  <2>2. CASE Refuse(t)
    BY <1>1, <2>2, ReturnInv DEF Refuse
  <2>3. CASE Publish(t)
    BY <1>1, <2>3, PublishInv
  <2>4. CASE ReadCurrent(t)
    <3>1. CASE Return(t, "advanced")
      BY <1>1, <2>4, <3>1, ReturnInv DEF ReadCurrent
    <3>2. CASE Goto(t, "create") \/ Goto(t, "head")
      BY <1>1, <2>4, <3>2, ReturnInv, MoveInv DEF ReadCurrent
    <3> QED
      BY <2>4, <3>1, <3>2 DEF ReadCurrent
  <2>5. CASE HeadVersion(t)
    <3>1. wm.version \in Nat
      BY <1>1 DEF IInv, TypeOK
    <3> QED
      BY <1>1, <2>5, <3>1, MoveInv DEF HeadVersion
  <2>6. CASE WriteCommitted(t)
    BY <1>1, <2>6, ReturnInv DEF WriteCommitted
  <2>7. CASE WriteLost(t)
    BY <1>1, <2>7, MoveInv DEF WriteLost
  <2>8. CASE ReadCover(t)
    BY <1>1, <2>8, ReturnInv, MoveInv DEF ReadCover
  <2> QED
    BY <1>3, <2>1, <2>2, <2>3, <2>4, <2>5, <2>6, <2>7, <2>8 DEF Step
<1>4. ASSUME NEW t \in Tasks, WriteUnanswered(t)
      PROVE  IInv'
  BY <1>1, <1>4, MoveInv DEF WriteUnanswered
<1>5. ASSUME NEW t \in Tasks, GiveUp(t)
      PROVE  IInv'
  BY <1>1, <1>5, ReturnInv DEF GiveUp
<1>6. ASSUME NEW q \in Queues, Restart(q)
      PROVE  IInv'
  BY <1>1, <1>6, RestartInv
<1>7. CASE Tick
  BY <1>1, <1>7, TickInv
<1>8. CASE UNCHANGED vars
  BY <1>1, <1>8 DEF vars, IInv, TypeOK, FloorsSound, Bounded
<1> QED
  BY <1>1, <1>2, <1>3, <1>4, <1>5, <1>6, <1>7, <1>8 DEF Next

\* The inductive invariant holds throughout.
THEOREM Invariance == Spec => []IInv
BY InitInv, StepInv, PTL DEF Spec

\* "The floor is a proven lower bound on store time" (establish_floor): so is
\* every cached and every raised floor, and so is the watermark's bucket,
\* whatever the order of reads, CAS races and lost answers, the regressions
\* of the watermark included.
THEOREM FloorsSoundTheorem == Spec => []FloorsSound
<1>1. IInv => FloorsSound
  BY DEF IInv
<1> QED
  BY <1>1, Invariance, PTL

\* Only the task itself, publishing or restarting, changes the floor that a
\* task about to publish holds.
LEMMA FloorChange ==
  ASSUME IInv, [Next]_vars, NEW t \in Tasks, pc[t] = "publish",
         floor'[t] # floor[t], floor'[t] # 0
  PROVE  Publish(t)
<1>1. floor \in [Tasks -> Nat]
  BY DEF IInv, TypeOK
<1>2. ASSUME NEW v \in Tasks, FloorCached(v)
      PROVE  FALSE
  BY <1>1, <1>2 DEF FloorCached
<1>3. ASSUME NEW v \in Tasks, Publish(v)
      PROVE  Publish(t)
  <2>1. CASE v = t
    BY <1>3, <2>1
  <2>2. CASE v # t
    BY <1>1, <1>3, <2>2 DEF Publish
  <2> QED
    BY <2>1, <2>2
<1>4. ASSUME NEW q \in Queues, Restart(q)
      PROVE  FALSE
  BY <1>1, <1>4 DEF Restart
<1>5. floor' # floor
  BY <1>1
<1> QED
  BY <1>2, <1>3, <1>4, <1>5 DEF Next, vars, Call, Step, PutBeacon, StartAdvance,
     ReadGate, Refuse, ReadCurrent, HeadVersion, WriteCommitted, WriteLost,
     ReadCover, WriteUnanswered, GiveUp, Tick

\* The raise is bounded by the skew guard (the gate of establish_floor).
THEOREM RaiseBoundedTheorem == Spec => RaiseBounded
<1>1. ASSUME IInv, [Next]_vars
      PROVE  [\A t \in Tasks :
                pc[t] = "publish" /\ floor'[t] # floor[t] /\ floor'[t] # 0 =>
                  /\ beacon[t] <= floor'[t]
                  /\ floor'[t] <= beacon[t] + SkewGuard]_vars
  <2>1. SUFFICES ASSUME NEW t \in Tasks, pc[t] = "publish",
                        floor'[t] # floor[t], floor'[t] # 0
                 PROVE  /\ beacon[t] <= floor'[t]
                        /\ floor'[t] <= beacon[t] + SkewGuard
    OBVIOUS
  <2>2. Publish(t)
    BY <1>1, <2>1, FloorChange
  <2>3. /\ floor \in [Tasks -> Nat] /\ beacon[t] \in Nat
        /\ seen[t] \in [bucket : Nat, version : Nat]
    BY <1>1 DEF IInv, TypeOK
  <2>4. floor'[t] = effective_floor(beacon[t], seen[t])
    BY <2>2, <2>3 DEF Publish
  <2>5. PICK m \in Nat : m = seen[t].bucket * Width
    BY <2>3, WatermarkConstants
  <2>6. m <= beacon[t] + SkewGuard
    BY <2>2, <2>3, <2>5, WatermarkConstants DEF Publish, Regressed
  <2>7. /\ floor'[t] \in Nat
        /\ floor'[t] = beacon[t] \/ floor'[t] = m
        /\ floor'[t] >= beacon[t]
    BY <2>3, <2>4, <2>5, RaisedFloor
  <2> QED
    BY <2>3, <2>6, <2>7, WatermarkConstants
<1> QED
  BY <1>1, Invariance, PTL DEF Spec, RaiseBounded

============================================================================
