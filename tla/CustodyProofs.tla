--------------------------- MODULE CustodyProofs ---------------------------
(***************************************************************************)
(* Proofs about Custody, for every number of workers, attempts and         *)
(* generations, every set of durations and backoffs, every dispersion that *)
(* the skew guard covers, with and without hints and late writes: the      *)
(* writes and failures preserve the invariant, and the theorems follow.    *)
(***************************************************************************)
EXTENDS CustodyReads

\* Time limits of the two provers, in seconds.
USE SMTT(30), ZenonT(30)

----------------------------------------------------------------------------
(* Writes, failures and the environment: one lemma for each action         *)

\* The outcome Committed: the caller's record is in the store.
LEMMA CommittedLocal ==
  ASSUME Grows, LocalTypes, NEW w \in Workers, WorkerInv(w), Drafting(w),
         Committed(w), draft[w].key \in DOMAIN store',
         store'[draft[w].key].rec = draft[w].rec
  PROVE  Local(w)
<1>1. CASE /\ op[w] \in {"claim", "renew"}
           /\ pc' = [pc EXCEPT ![w] = "committed"]
           /\ UNCHANGED <<op, floor, todo, tail, hinted, known, draft, handle,
                          result>>
  BY Zenon, <1>1, PcMove
<1>2. CASE \E r : Return(w, r, handle)
  BY <1>2, ReturnKeeping
<1>3. CASE \E r : Return(w, r, Forget(handle, w))
  BY <1>3, ReturnDropping
<1> QED
  BY <1>1, <1>2, <1>3 DEF Committed

\* The outcome Lost: the caller gives up its draft.
LEMMA LostLocal ==
  ASSUME Grows, LocalTypes, NEW w \in Workers, WorkerInv(w), Lost(w)
  PROVE  Local(w)
<1>1. CASE /\ pc' = [pc EXCEPT ![w] = "relist"]
           /\ draft' = Forget(draft, w)
           /\ UNCHANGED <<op, floor, todo, tail, hinted, known, handle, result>>
  <2>1. /\ DOMAIN draft' \subseteq Workers
        /\ \A v \in DOMAIN draft' : IsPut(draft'[v].key, draft'[v].rec)
    BY <1>1, ForgetDraft
  <2>2. w \notin DOMAIN draft' /\ \A v \in Workers \ {w} : SameDraft(v)
    BY <1>1 DEF Forget, SameDraft
  <2>3. /\ pc'[w] = "relist" /\ \A v \in Workers \ {w} : pc'[v] = pc[v]
        /\ pc' \in [Workers -> {"idle", "probe", "decide", "relist", "put",
                                "resolve", "committed"}]
    BY <1>1 DEF LocalTypes
  <2>4. LocalTypes'
    BY <1>1, <2>1, <2>3 DEF LocalTypes, Handles
  <2>5. DraftOK(w)'
    BY <2>2, <2>3 DEF DraftOK, Drafting
  <2>6. TailOK(w)'
    BY <1>1, TailKept DEF WorkerInv
  <2>7. HandleOK(w)'
    BY <1>1, HandleKept DEF WorkerInv, SameHandle
  <2>8. floor'[w] <= now'
    BY <1>1 DEF WorkerInv, Grows, LocalTypes
  <2>9. \A v \in Workers \ {w} : Frame(v)
    BY <1>1, <2>2, <2>3 DEF Frame, SameHandle
  <2> QED
    BY <2>4, <2>5, <2>6, <2>7, <2>8, <2>9 DEF Local, WorkerInv
<1>2. CASE \E r : Return(w, r, handle)
  BY <1>2, ReturnKeeping
<1>3. CASE \E r : Return(w, r, Forget(handle, w))
  BY <1>3, ReturnDropping
<1> QED
  BY <1>1, <1>2, <1>3 DEF Lost

\* A step in which the store applies a grounded put.
LEMMA WriteStep ==
  ASSUME IInv, now' = now, hint' = hint, late' \subseteq late,
         NEW put, IsPut(put.key, put.rec), GroundedPut(put),
         ~Present(put.key), Apply(put), LocalTypes',
         \A v \in Workers : Frame(v) \/ WorkerInv(v)'
  PROVE  IInv'
<1>1. now \in Nat /\ StoreTypes /\ LocalTypes /\ StoreInv
  BY TypeParts DEF IInv
<1>2. Grows
  BY <1>1, ApplyGrows
<1>3. StoreTypes'
  BY <1>1, ApplyTypes
<1>4. StoreInv'
  BY <1>1, ApplyInv
<1>5. \A p \in late : IsPut(p.key, p.rec) /\ GroundedPut(p)
  BY TypeParts DEF IInv
<1>6. \A p \in late' : IsPut(p.key, p.rec) /\ GroundedPut(p)'
  BY <1>2, <1>5, PutStable
<1>7. TypeOK'
  BY <1>1, <1>3, <1>6, TypePartsNext, TypeParts DEF IInv
<1>8. \A v \in Workers : WorkerInv(v)'
  BY <1>1, <1>2, FrameInv DEF IInv
<1> QED
  BY <1>4, <1>6, <1>7, <1>8 DEF IInv

\* A worker at its put has a grounded draft.
LEMMA DraftFacts ==
  ASSUME IInv, NEW w \in Workers, pc[w] \in {"put", "resolve", "committed"}
  PROVE  /\ w \in DOMAIN draft /\ Drafting(w)
         /\ IsPut(draft[w].key, draft[w].rec)
         /\ GroundedPut(draft[w])
<1>1. LocalTypes /\ WorkerInv(w)
  BY TypeParts DEF IInv
<1>2. Drafting(w) /\ w \in DOMAIN draft
  BY <1>1 DEF WorkerInv, DraftOK, Drafting
<1> QED
  BY <1>1, <1>2 DEF WorkerInv, DraftOK, LocalTypes

\* The put is applied and answered.
LEMMA PutCommittedInv ==
  ASSUME IInv, NEW w \in Workers, PutCommitted(w)
  PROVE  IInv'
<1>1. PICK p : p = draft[w]
  OBVIOUS
<1>2. /\ IsPut(p.key, p.rec) /\ GroundedPut(p) /\ Drafting(w)
      /\ ~Present(p.key) /\ Apply(p) /\ Committed(w)
      /\ now' = now /\ hint' = hint /\ late' = late
  BY <1>1, DraftFacts DEF PutCommitted
<1>3. now \in Nat /\ LocalTypes /\ WorkerInv(w)
  BY TypeParts DEF IInv
<1>4. Grows
  BY <1>2, <1>3, ApplyGrows
<1>5. p.key \in DOMAIN store' /\ store'[p.key].rec = p.rec
  BY <1>2 DEF Apply, Extend
<1>6. Local(w)
  BY <1>1, <1>2, <1>3, <1>4, <1>5, CommittedLocal
<1> QED
  BY <1>2, <1>6, WriteStep DEF Local

\* The put finds its key taken.
LEMMA PutRejectedInv ==
  ASSUME IInv, NEW w \in Workers, PutRejected(w)
  PROVE  IInv'
<1>1. Still /\ hint' = hint
  BY DEF PutRejected, Still
<1>2. Grows /\ LocalTypes /\ WorkerInv(w)
  BY <1>1, QuietFacts
<1>3. Local(w)
  BY <1>2, LostLocal DEF PutRejected
<1> QED
  BY <1>1, <1>3, QuietStep, TypeParts DEF IInv

\* The put has no answer: it was applied, or lost, or is on its way.
LEMMA PutUnansweredInv ==
  ASSUME IInv, NEW w \in Workers, PutUnanswered(w)
  PROVE  IInv'
<1>1. PICK p : p = draft[w]
  OBVIOUS
<1>2. /\ IsPut(p.key, p.rec) /\ GroundedPut(p) /\ Drafting(w)
      /\ now' = now /\ hint' = hint
      /\ pc' = [pc EXCEPT ![w] = "resolve"]
      /\ UNCHANGED <<op, floor, todo, tail, hinted, known, draft, handle>>
  BY <1>1, DraftFacts DEF PutUnanswered
<1>3. now \in Nat /\ LocalTypes /\ WorkerInv(w)
  BY TypeParts DEF IInv
<1>4. CASE ~Present(p.key) /\ Apply(p) /\ late' = late
  <2>1. Grows
    BY <1>2, <1>3, <1>4, ApplyGrows
  <2>2. Local(w)
    BY Zenon, <1>2, <1>3, <2>1, PcMove
  <2> QED
    BY <1>2, <1>4, <2>2, WriteStep DEF Local
<1>5. CASE store' = store /\ late' = late
  <2>1. Still
    BY <1>2, <1>5 DEF Still
  <2>2. Local(w)
    BY Zenon, <1>2, <1>3, <2>1, QuietFacts, PcMove
  <2> QED
    BY <1>2, <2>1, <2>2, QuietStep, TypeParts DEF IInv
<1>6. CASE store' = store /\ late' = late \cup {p}
  <2>1. Grows
    BY <1>2, <1>3, <1>6 DEF Grows
  <2>2. Local(w)
    BY Zenon, <1>2, <1>3, <2>1, PcMove
  <2>3. \A q \in late' : IsPut(q.key, q.rec) /\ GroundedPut(q)
    BY <1>2, <1>6, TypeParts DEF IInv
  <2>4. \A q \in late' : IsPut(q.key, q.rec) /\ GroundedPut(q)'
    BY <2>1, <2>3, PutStable
  <2>5. StoreTypes' /\ StoreInv'
    <3>1. StoreTypes /\ StoreInv
      BY TypeParts DEF IInv
    <3>2. StoreTypes'
      BY <1>6, <3>1 DEF StoreTypes
    <3> QED
      BY <1>6, <2>1, <3>1, <3>2, StoreKept
  <2>6. TypeOK'
    BY <1>2, <1>3, <2>2, <2>4, <2>5, TypePartsNext, TypeParts DEF IInv, Local
  <2>7. \A v \in Workers : WorkerInv(v)'
    BY <1>3, <2>1, <2>2, FrameInv DEF IInv, Local
  <2> QED
    BY <2>4, <2>5, <2>6, <2>7 DEF IInv
<1> QED
  BY <1>1, <1>4, <1>5, <1>6 DEF PutUnanswered

\* resolve_unknown: retry, committed or lost.
LEMMA ResolveInv ==
  ASSUME IInv, NEW w \in Workers, Resolve(w)
  PROVE  IInv'
<1>1. Still /\ hint' = hint
  BY DEF Resolve, Still
<1>2. Grows /\ LocalTypes /\ WorkerInv(w) /\ Drafting(w)
  BY <1>1, QuietFacts, DraftFacts DEF Resolve
<1>3. Local(w)
  <2>1. CASE /\ pc' = [pc EXCEPT ![w] = "put"]
             /\ UNCHANGED <<op, floor, todo, tail, hinted, known, draft,
                            handle, result>>
    BY Zenon, <1>2, <2>1, PcMove
  <2>2. CASE /\ Present(draft[w].key)
             /\ store[draft[w].key].rec = draft[w].rec
             /\ Committed(w)
    BY <1>1, <1>2, <2>2, CommittedLocal DEF Still, Present
  <2>3. CASE Lost(w)
    BY <1>2, <2>3, LostLocal
  <2> QED
    BY <2>1, <2>2, <2>3 DEF Resolve
<1> QED
  BY <1>1, <1>3, QuietStep, TypeParts DEF IInv

\* After the commit the caller gets a handle on the record it wrote.
LEMMA SettleInv ==
  ASSUME IInv, NEW w \in Workers, Settle(w)
  PROVE  IInv'
<1>1. Still /\ pc[w] = "committed"
  BY DEF Settle, Still
<1>2. Grows /\ LocalTypes /\ StoreTypes /\ WorkerInv(w) /\ w \in DOMAIN draft
  BY <1>1, QuietFacts, DraftFacts
<1>3. PICK g \in Generations : draft[w].key = ClaimKey(g)
  BY <1>1, <1>2 DEF WorkerInv, DraftOK, Drafting
<1>4. PICK rec : rec = draft[w].rec
  OBVIOUS
<1>5. /\ g \in Chain /\ ClaimAt(g).rec = rec /\ rec.worker = w
      /\ draft[w].key[2] = g
  BY <1>1, <1>2, <1>3, <1>4 DEF WorkerInv, DraftOK, Chain, Present, ClaimAt,
     ClaimKey
<1>6. rec \in ClaimRecs
  BY <1>2, <1>5, ClaimTypes
<1>7. hint' \in NoHint..MaxGen
  <2>1. hint \in NoHint..MaxGen
    BY TypeParts DEF IInv
  <2>2. g \in NoHint..MaxGen
    BY <1>3, ConstantsAssumption DEF Generations, NoHint
  <2>3. hint' = hint \/ hint' = draft[w].key[2]
    BY DEF Settle, RefreshHint
  <2> QED
    BY <1>5, <2>1, <2>2, <2>3
<1>8. PICK n : n = [gen |-> g, attempt |-> rec.attempt, token |-> rec.token,
                    dur |-> rec.dur]
  BY Zenon
<1>9. n \in Handles
  BY <1>6, <1>8 DEF Handles, ClaimRecs
<1>10. PICK r, h : Return(w, r, h) /\ h = Extend(handle, w, n)
  BY <1>4, <1>5, <1>8 DEF Settle
<1>11. DOMAIN h \subseteq Workers /\ h \in [DOMAIN h -> Handles]
  BY <1>2, <1>9, <1>10, ExtendHandle
<1>12. /\ \A v \in Workers \ {w} :
            /\ v \in DOMAIN h <=> v \in DOMAIN handle
            /\ v \in DOMAIN handle => h[v] = handle[v]
       /\ h[w] = n /\ handle' = h
  BY <1>10 DEF Extend, Return
<1>13. HandleOK(w)'
  <2>1. g \in Chain' /\ ClaimAt(g)' = ClaimAt(g)
    BY <1>2, <1>5, ChainGrows
  <2>2. /\ handle'[w].gen = g
        /\ handle'[w].attempt = rec.attempt
        /\ handle'[w].token = rec.token
        /\ handle'[w].dur = rec.dur
    BY <1>8, <1>12
  <2> QED
    BY <1>5, <2>1, <2>2 DEF HandleOK
<1>14. Local(w)
  BY <1>2, <1>10, <1>11, <1>12, <1>13, ReturnLocal
<1> QED
  BY <1>1, <1>7, <1>14, QuietStep

\* A step that leaves every worker alone.
Idle == UNCHANGED <<pc, op, floor, todo, tail, hinted, known, draft, handle>>

\* Such a step keeps what the invariant says of the workers.
LEMMA IdleFrame ==
  ASSUME LocalTypes, Idle
  PROVE  LocalTypes' /\ \A v \in Workers : Frame(v)
<1>1. \A v \in Workers : Frame(v)
  BY DEF Idle, Frame, SameHandle, SameDraft
<1>2. LocalTypes'
  BY DEF Idle, LocalTypes, Handles, IsPut, ClaimKey, FailKey, ReceiptKey,
     DeadKey, TerminalKey
<1> QED
  BY <1>1, <1>2

\* A write that arrives after its sender stopped waiting: its evidence is
\* still sound, so a late record is as good as a timely one.
LEMMA LandLateInv ==
  ASSUME IInv, LandLate
  PROVE  IInv'
<1>1. PICK put \in late :
        /\ late' = late \ {put}
        /\ IF Present(put.key) THEN store' = store ELSE Apply(put)
  BY DEF LandLate
<1>2. now' = now /\ hint' = hint /\ Idle
  BY DEF LandLate, Idle
<1>3. /\ now \in Nat /\ LocalTypes /\ StoreTypes /\ StoreInv
      /\ IsPut(put.key, put.rec) /\ GroundedPut(put)
      /\ hint \in NoHint..MaxGen
  BY TypeParts DEF IInv
<1>4. LocalTypes' /\ \A v \in Workers : Frame(v)
  BY <1>2, <1>3, IdleFrame
<1>5. CASE Present(put.key)
  <2>1. store' = store /\ Grows
    BY <1>1, <1>2, <1>3, <1>5 DEF Grows
  <2>2. StoreTypes'
    BY <1>3, <2>1 DEF StoreTypes
  <2>3. StoreInv'
    BY <1>3, <2>1, StoreKept
  <2>4. \A p \in late : IsPut(p.key, p.rec) /\ GroundedPut(p)
    BY TypeParts DEF IInv
  <2>5. \A p \in late' : IsPut(p.key, p.rec) /\ GroundedPut(p)'
    BY <1>1, <2>1, <2>4, PutStable
  <2>6. TypeOK'
    BY <1>2, <1>3, <1>4, <2>2, <2>5, TypePartsNext
  <2>7. \A v \in Workers : WorkerInv(v)'
    BY <1>3, <1>4, <2>1, FrameInv DEF IInv
  <2> QED
    BY <2>3, <2>5, <2>6, <2>7 DEF IInv
<1>6. CASE ~Present(put.key)
  <2>1. Apply(put)
    BY <1>1, <1>6
  <2>2. late' \subseteq late
    BY <1>1
  <2> QED
    BY <1>2, <1>3, <1>4, <1>6, <2>1, <2>2, WriteStep
<1> QED
  BY <1>5, <1>6

\* Hints are outside the invariant, and time only moves forward.
LEMMA EnvironmentInv ==
  ASSUME IInv, HintFault \/ Tick \/ UNCHANGED vars
  PROVE  IInv'
<1>1. /\ now \in Nat /\ LocalTypes /\ StoreTypes /\ StoreInv
      /\ hint \in NoHint..MaxGen
      /\ \A p \in late : IsPut(p.key, p.rec) /\ GroundedPut(p)
  BY TypeParts DEF IInv
<1>2. /\ store' = store /\ late' = late /\ Idle
      /\ now' \in Nat /\ now <= now'
      /\ hint' \in NoHint..MaxGen
  BY <1>1 DEF HintFault, Tick, vars, Idle
<1>3. Grows
  BY <1>1, <1>2 DEF Grows
<1>4. LocalTypes' /\ \A v \in Workers : Frame(v)
  BY <1>1, <1>2, IdleFrame
<1>5. StoreTypes'
  BY <1>1, <1>2 DEF StoreTypes
<1>6. StoreInv'
  BY <1>1, <1>2, <1>3, StoreKept
<1>7. \A p \in late' : IsPut(p.key, p.rec) /\ GroundedPut(p)'
  BY <1>1, <1>2, <1>3, PutStable
<1>8. TypeOK'
  BY <1>2, <1>4, <1>5, <1>7, TypePartsNext
<1>9. \A v \in Workers : WorkerInv(v)'
  BY <1>1, <1>3, <1>4, FrameInv DEF IInv
<1> QED
  BY <1>6, <1>7, <1>8, <1>9 DEF IInv

----------------------------------------------------------------------------
(* The theorems                                                            *)

\* The invariant holds of the empty job prefix.
LEMMA InitInv == Init => IInv
<1>1. SUFFICES ASSUME Init
               PROVE  IInv
  OBVIOUS
<1>2. DOMAIN store = {} /\ DOMAIN draft = {} /\ DOMAIN handle = {} /\ late = {}
  BY <1>1 DEF Init
<1>3. Chain = {}
  BY <1>2 DEF Chain, Present
<1>4. TypeOK
  <2>1. /\ NoTail \in [gen : 0..MaxGen, attempt : Nat, at : Nat, dur : Nat]
        /\ NoHint \in NoHint..MaxGen
    BY ConstantsAssumption DEF NoTail, NoHint
  <2> QED
    BY <1>1, <1>2, <2>1 DEF TypeOK, Init
<1>5. StoreInv
  <2>1. 0 \in 0..MaxGen /\ 1..0 = {}
    BY ConstantsAssumption
  <2> QED
    BY <1>2, <1>3, <2>1 DEF StoreInv, Contiguous, Ordered
<1>6. \A w \in Workers : WorkerInv(w)
  BY <1>1, <1>2 DEF Init, WorkerInv, TailOK, HandleOK, DraftOK, Drafting, NoTail
<1> QED
  BY <1>2, <1>4, <1>5, <1>6 DEF IInv

\* Every step keeps the invariant.
LEMMA StepInv == IInv /\ [Next]_vars => IInv'
<1>1. SUFFICES ASSUME IInv, [Next]_vars
               PROVE  IInv'
  OBVIOUS
<1>2. ASSUME NEW w \in Workers, Start(w)
      PROVE  IInv'
  BY <1>1, <1>2, StartClaimInv, RenewInv, AckInv, NackInv, BuryInv DEF Start
<1>3. ASSUME NEW w \in Workers, Read(w)
      PROVE  IInv'
  BY <1>1, <1>3, ProbeInv, DiscoverTailInv, RelistInv DEF Read
<1>4. ASSUME NEW w \in Workers, Decide(w)
      PROVE  IInv'
  BY <1>1, <1>4, ClaimRefusedInv, ClaimRecheckInv, ClaimExhaustInv,
     ClaimTakeoverInv DEF Decide
<1>5. ASSUME NEW w \in Workers, Write(w)
      PROVE  IInv'
  BY <1>1, <1>5, PutCommittedInv, PutRejectedInv, PutUnansweredInv,
     ResolveInv, SettleInv DEF Write
<1>6. ASSUME NEW w \in Workers, Fault(w)
      PROVE  IInv'
  BY <1>1, <1>6, ClaimRefusedInv, CrashInv DEF Fault
<1>7. CASE LandLate
  BY <1>1, <1>7, LandLateInv
<1>8. CASE HintFault \/ Tick \/ UNCHANGED vars
  BY <1>1, <1>8, EnvironmentInv
<1> QED
  BY <1>1, <1>2, <1>3, <1>4, <1>5, <1>6, <1>7, <1>8 DEF Next

\* The inductive invariant holds throughout.
THEOREM Invariance == Spec => []IInv
BY InitInv, StepInv, PTL DEF Spec

\* The state keeps its shape: in particular every generation a handle, a
\* draft or a late write names stays within the generation space (the checks
\* of renew and try_claim).
THEOREM TypeCorrectness == Spec => []TypeOK
<1>1. IInv => TypeOK
  BY DEF IInv
<1> QED
  BY <1>1, Invariance, PTL

\* Lease exclusion (the expiry test of try_claim with its skew guard): no
\* takeover is created before every lease it supersedes has ended in true
\* store time, for any number of workers, renewals, lost answers, late writes
\* and stale hints, whenever the skew guard covers the dispersion.
THEOREM LeaseExclusionTheorem == Spec => []LeaseExclusion
<1>1. IInv => LeaseExclusion
  BY DEF IInv, StoreInv, Ordered, LeaseExclusion
<1> QED
  BY <1>1, Invariance, PTL

\* The chain that claim and renew build always passes audit_claim_chain: it
\* has no gap and every generation is admissible.
THEOREM AuditCleanTheorem == Spec => []AuditClean
<1>1. IInv => AuditClean
  <2>1. SUFFICES ASSUME IInv
                 PROVE  AuditClean
    OBVIOUS
  <2>2. StoreTypes /\ StoreInv
    BY <2>1, TypeParts DEF IInv
  <2>3. ChainGaps = {}
    <3>1. PICK n \in 0..MaxGen : Chain = 1..n
      BY <2>2 DEF StoreInv, Contiguous
    <3> QED
      BY <3>1, ConstantsAssumption DEF ChainGaps, Generations
  <2>4. ASSUME NEW g \in Chain, g - 1 \in Chain
        PROVE  ~Inadmissible(g)
    <3>1. /\ g \in Nat /\ g > 1 /\ Grounded(g, ClaimAt(g).rec)
          /\ ClaimAt(g).rec \in ClaimRecs
      BY <2>2, <2>4, ClaimTypes DEF StoreInv, Generations
    <3>2. ClaimAt(g - 1).at \in Nat /\ ClaimAt(g - 1).rec.dur \in Nat
      BY <2>2, <2>4, ClaimTypes DEF ClaimRecs
    <3> QED
      BY <3>1, <3>2, ConstantsAssumption DEF Grounded, Inadmissible, ClaimRecs
  <2> QED
    BY <2>3, <2>4 DEF AuditClean
<1> QED
  BY <1>1, Invariance, PTL

============================================================================
