--------------------------- MODULE CustodySteps ----------------------------
(***************************************************************************)
(* What a step of Custody does to the workers, and the calls as they start *)
(* and as they write through a handle: claim, renew, ack, bury and nack    *)
(* preserve the invariant.                                                 *)
(***************************************************************************)
EXTENDS CustodyInvariant

\* Time limits of the two provers, in seconds.
USE SMTT(30), ZenonT(30)

----------------------------------------------------------------------------
(* What a step does to the workers                                         *)

\* What a step does not touch keeps its part of the invariant.
LEMMA FrameInv ==
  ASSUME Grows, LocalTypes, NEW v \in Workers, WorkerInv(v), Frame(v)
  PROVE  WorkerInv(v)'
<1>1. floor'[v] <= now'
  BY DEF WorkerInv, Frame, Grows, LocalTypes
<1>2. TailOK(v)'
  BY TailKept DEF WorkerInv, Frame
<1>3. HandleOK(v)'
  BY HandleKept DEF WorkerInv, Frame
<1>4. DraftOK(v)'
  <2>1. CASE v \in DOMAIN draft
    <3>1. IsPut(draft[v].key, draft[v].rec)
      BY <2>1 DEF LocalTypes
    <3>2. /\ v \in DOMAIN draft'
          /\ GroundedPut(draft[v])'
          /\ \A g \in Generations : draft'[v].key = ClaimKey(g) =>
               draft'[v].rec.worker = v
          /\ (\E g \in Generations : draft[v].key = ClaimKey(g)) =>
               \E g \in Generations : draft'[v].key = ClaimKey(g)
          /\ Present(draft[v].key) /\ store[draft[v].key].rec = draft[v].rec =>
               /\ Present(draft[v].key)'
               /\ store'[draft'[v].key].rec = draft'[v].rec
      BY <2>1, <3>1, DraftKept DEF WorkerInv, Frame
    <3> QED
      BY <2>1, <3>2 DEF DraftOK, WorkerInv, Frame, Drafting
  <2>2. CASE v \notin DOMAIN draft
    BY <2>2 DEF DraftOK, WorkerInv, Frame, SameDraft, Drafting
  <2> QED
    BY <2>1, <2>2
<1> QED
  BY <1>1, <1>2, <1>3, <1>4 DEF WorkerInv

\* A step of worker w keeps the local state in order and touches only w.
Local(w) ==
  /\ LocalTypes'
  /\ WorkerInv(w)'
  /\ \A v \in Workers \ {w} : Frame(v)

\* A call that returns with handles h, which differ from the old ones for w
\* only, and whose handle for w, if any, is a record w wrote.
LEMMA ReturnLocal ==
  ASSUME Grows, LocalTypes, NEW w \in Workers, NEW r, NEW h,
         DOMAIN h \subseteq Workers, h \in [DOMAIN h -> Handles],
         \A v \in Workers \ {w} :
           /\ v \in DOMAIN h <=> v \in DOMAIN handle
           /\ v \in DOMAIN handle => h[v] = handle[v],
         Return(w, r, h), HandleOK(w)'
  PROVE  Local(w)
<1>1. LocalTypes'
  BY ReturnTypes
<1>2. w \notin DOMAIN draft' /\ \A v \in Workers \ {w} : SameDraft(v)
  BY DEF Return, Forget, SameDraft
<1>3. /\ pc'[w] = "idle" /\ floor'[w] = 0 /\ tail'[w] = NoTail
      /\ \A v \in Workers \ {w} :
           /\ pc'[v] = pc[v] /\ op'[v] = op[v]
           /\ floor'[v] = floor[v] /\ tail'[v] = tail[v]
  BY DEF Return, LocalTypes
<1>4. \A v \in Workers \ {w} : SameHandle(v)
  BY DEF Return, SameHandle
<1>5. DraftOK(w)'
  BY <1>2, <1>3 DEF DraftOK, Drafting
<1>6. TailOK(w)' /\ floor'[w] <= now'
  BY <1>3 DEF TailOK, NoTail, Grows
<1> QED
  BY <1>1, <1>2, <1>3, <1>4, <1>5, <1>6 DEF Local, WorkerInv, Frame

\* A call that returns and keeps the handles.
LEMMA ReturnKeeping ==
  ASSUME Grows, LocalTypes, NEW w \in Workers, WorkerInv(w), NEW r,
         Return(w, r, handle)
  PROVE  Local(w)
<1>1. handle' = handle
  BY DEF Return
<1>2. HandleOK(w)'
  BY <1>1, HandleKept DEF WorkerInv, SameHandle
<1>3. DOMAIN handle \subseteq Workers /\ handle \in [DOMAIN handle -> Handles]
  BY DEF LocalTypes
<1>4. PICK h : h = handle
  OBVIOUS
<1> QED
  BY <1>2, <1>3, <1>4, ReturnLocal

\* A call that returns and drops the handle of its caller.
LEMMA ReturnDropping ==
  ASSUME Grows, LocalTypes, NEW w \in Workers, NEW r,
         Return(w, r, Forget(handle, w))
  PROVE  Local(w)
<1>1. PICK h : h = Forget(handle, w)
  OBVIOUS
<1>2. DOMAIN h \subseteq Workers /\ h \in [DOMAIN h -> Handles]
  BY <1>1, ForgetHandle
<1>3. \A v \in Workers \ {w} :
        /\ v \in DOMAIN h <=> v \in DOMAIN handle
        /\ v \in DOMAIN handle => h[v] = handle[v]
  BY <1>1 DEF Forget
<1>4. w \notin DOMAIN h /\ handle' = h
  BY <1>1 DEF Forget, Return
<1>5. HandleOK(w)'
  BY <1>4 DEF HandleOK
<1> QED
  BY <1>1, <1>2, <1>3, <1>5, ReturnLocal

\* A call that drafts its put: the rest of w's state is kept or checked.
LEMMA DraftLocal ==
  ASSUME Grows, LocalTypes, NEW w \in Workers, WorkerInv(w), LocalTypes',
         NEW key, NEW rec, IsPut(key, rec), Intend(w, key, rec),
         GroundedPut([key |-> key, rec |-> rec])',
         \A g \in Generations : key = ClaimKey(g) => rec.worker = w,
         op'[w] \in {"claim", "renew"} =>
           \E g \in Generations : key = ClaimKey(g),
         pc'[w] # "committed",
         floor' = floor, tail' = tail, handle' = handle,
         \A v \in Workers \ {w} : pc'[v] = pc[v] /\ op'[v] = op[v]
  PROVE  Local(w)
<1>1. /\ DOMAIN draft' = DOMAIN draft \cup {w}
      /\ draft'[w] = [key |-> key, rec |-> rec]
      /\ \A v \in DOMAIN draft : v # w => draft'[v] = draft[v]
  BY DEF Intend, Extend
<1>2. PICK p : p = [key |-> key, rec |-> rec]
  OBVIOUS
<1>3. p.key = key /\ p.rec = rec /\ draft'[w] = p /\ GroundedPut(p)'
  BY <1>1, <1>2
<1>4. DraftOK(w)'
  BY <1>1, <1>3 DEF DraftOK, GroundedPut
<1>5. TailOK(w)'
  BY TailKept DEF WorkerInv
<1>6. HandleOK(w)'
  BY HandleKept DEF WorkerInv, SameHandle
<1>7. floor'[w] <= now'
  BY DEF WorkerInv, Grows, LocalTypes
<1>8. \A v \in Workers \ {w} : Frame(v)
  BY <1>1 DEF Frame, SameDraft, SameHandle
<1> QED
  BY <1>4, <1>5, <1>6, <1>7, <1>8 DEF Local, WorkerInv

\* A call that moves on without touching its draft or its handle.
LEMMA MoveLocal ==
  ASSUME Grows, LocalTypes, NEW w \in Workers, WorkerInv(w), LocalTypes',
         draft' = draft, handle' = handle, floor' = floor, op' = op,
         TailOK(w)',
         \A v \in Workers \ {w} : pc'[v] = pc[v] /\ tail'[v] = tail[v],
         Drafting(w)' => Drafting(w),
         pc'[w] = "committed" =>
           /\ op[w] \in {"claim", "renew"}
           /\ Present(draft[w].key)'
           /\ store'[draft[w].key].rec = draft[w].rec
  PROVE  Local(w)
<1>1. HandleOK(w)'
  BY HandleKept DEF WorkerInv, SameHandle
<1>2. floor'[w] <= now'
  BY DEF WorkerInv, Grows, LocalTypes
<1>3. \A v \in Workers \ {w} : Frame(v)
  BY DEF Frame, SameDraft, SameHandle
<1>4. DraftOK(w)'
  <2>1. CASE w \in DOMAIN draft
    <3>1. IsPut(draft[w].key, draft[w].rec)
      BY <2>1 DEF LocalTypes
    <3>2. /\ w \in DOMAIN draft'
          /\ GroundedPut(draft[w])'
          /\ \A g \in Generations : draft'[w].key = ClaimKey(g) =>
               draft'[w].rec.worker = w
          /\ (\E g \in Generations : draft[w].key = ClaimKey(g)) =>
               \E g \in Generations : draft'[w].key = ClaimKey(g)
      BY <2>1, <3>1, DraftKept DEF WorkerInv, SameDraft
    <3> QED
      BY <2>1, <3>2 DEF DraftOK, WorkerInv
  <2>2. CASE w \notin DOMAIN draft
    <3>1. ~Drafting(w)
      BY <2>2 DEF DraftOK, WorkerInv
    <3>2. ~Drafting(w)' /\ pc'[w] # "committed"
      BY <3>1 DEF Drafting
    <3> QED
      BY <2>2, <3>2 DEF DraftOK
  <2> QED
    BY <2>1, <2>2
<1> QED
  BY <1>1, <1>2, <1>3, <1>4 DEF Local, WorkerInv

\* A step that writes nothing to the store.
Still == now' = now /\ store' = store /\ late' = late

\* Such a step is harmless when it is local to one worker.
LEMMA QuietStep ==
  ASSUME IInv, Still, hint' \in NoHint..MaxGen, NEW w \in Workers, Local(w)
  PROVE  IInv'
<1>1. now \in Nat /\ StoreTypes /\ LocalTypes
  BY TypeParts DEF IInv
<1>2. Grows
  BY <1>1 DEF Still, Grows
<1>3. StoreTypes'
  BY <1>1 DEF StoreTypes, Still
<1>4. StoreInv'
  BY <1>1, <1>2, StoreKept DEF IInv, Still
<1>5. \A p \in late : IsPut(p.key, p.rec) /\ GroundedPut(p)
  BY TypeParts DEF IInv
<1>6. \A p \in late' : IsPut(p.key, p.rec) /\ GroundedPut(p)'
  BY <1>2, <1>5, PutStable DEF Still
<1>7. TypeOK'
  BY <1>1, <1>3, <1>6, TypePartsNext DEF Still, Local
<1>8. \A v \in Workers : WorkerInv(v)'
  <2>1. ASSUME NEW v \in Workers \ {w}
        PROVE  WorkerInv(v)'
    BY <1>1, <1>2, <2>1, FrameInv DEF IInv, Local
  <2> QED
    BY <2>1 DEF Local
<1> QED
  BY <1>4, <1>6, <1>7, <1>8 DEF IInv

\* What the invariant gives a step of worker w that writes nothing.
LEMMA QuietFacts ==
  ASSUME IInv, Still, NEW w \in Workers
  PROVE  Grows /\ LocalTypes /\ StoreTypes /\ StoreInv /\ WorkerInv(w)
BY TypeParts DEF IInv, Still, Grows


----------------------------------------------------------------------------
(* The actions, one lemma for each                                         *)

\* claim: the floor is a beacon's stamp, so it is not ahead of store time.
LEMMA StartClaimInv ==
  ASSUME IInv, NEW w \in Workers, StartClaim(w)
  PROVE  IInv'
<1>1. Still /\ hint' = hint
  BY DEF StartClaim, Still
<1>2. Grows /\ LocalTypes /\ WorkerInv(w) /\ now \in Nat
  BY <1>1, QuietFacts, TypeParts DEF IInv
<1>3. PICK f \in Floors : floor' = [floor EXCEPT ![w] = f]
  BY Zenon DEF StartClaim
<1>4. f \in Nat /\ f <= now
  BY <1>2 DEF Floors
<1>5. /\ pc'[w] = "probe" /\ op'[w] = "claim" /\ floor'[w] = f
      /\ draft' = draft /\ handle' = handle /\ tail' = tail
      /\ \A v \in Workers \ {w} :
           pc'[v] = pc[v] /\ op'[v] = op[v] /\ floor'[v] = floor[v]
  BY <1>2, <1>3 DEF StartClaim, Begin, LocalTypes
<1>6. LocalTypes'
  <2>1. /\ pc' \in [Workers -> {"idle", "probe", "decide", "relist", "put",
                                "resolve", "committed"}]
        /\ op' \in [Workers -> {"none", "claim", "exhaust", "renew", "ack",
                                "nack", "bury"}]
        /\ floor' \in [Workers -> Nat]
        /\ todo' \in [Workers -> SUBSET {"receipt", "dead", "tail"}]
        /\ hinted' = hinted /\ known' = known
    BY <1>2, <1>3, <1>4 DEF StartClaim, Begin, LocalTypes
  <2> QED
    BY <1>2, <1>5, <2>1 DEF LocalTypes, Handles, IsPut, ClaimKey, FailKey,
       ReceiptKey, DeadKey, TerminalKey
<1>7. WorkerInv(w)'
  <2>1. TailOK(w)'
    BY <1>2, <1>5, TailKept DEF WorkerInv
  <2>2. HandleOK(w)'
    BY <1>2, <1>5, HandleKept DEF WorkerInv, SameHandle
  <2>3. ~Drafting(w)'
    BY <1>5 DEF Drafting
  <2>4. DraftOK(w)'
    <3>1. CASE w \in DOMAIN draft
      <4>1. GroundedPut(draft[w])' /\
            \A g \in Generations : draft'[w].key = ClaimKey(g) =>
              draft'[w].rec.worker = w
        <5>1. IsPut(draft[w].key, draft[w].rec)
          BY <1>2, <3>1 DEF LocalTypes
        <5> QED
          BY <1>2, <1>5, <3>1, <5>1, DraftKept DEF WorkerInv, SameDraft
      <4> QED
        BY <1>5, <2>3, <3>1, <4>1 DEF DraftOK
    <3>2. CASE w \notin DOMAIN draft
      BY <1>5, <2>3, <3>2 DEF DraftOK
    <3> QED
      BY <3>1, <3>2
  <2> QED
    BY <1>1, <1>4, <1>5, <2>1, <2>2, <2>4 DEF WorkerInv, Still
<1>8. \A v \in Workers \ {w} : Frame(v)
  BY <1>5 DEF Frame, SameDraft, SameHandle
<1> QED
  BY <1>1, <1>6, <1>7, <1>8, QuietStep, TypeParts DEF Local, IInv

\* A holder's call that begins with the HEAD of a terminal record.
LEMMA GuardedInv ==
  ASSUME IInv, NEW w \in Workers, NEW kind, NEW r,
         NEW call \in {"renew", "ack", "bury"}, NEW reads, NEW key, NEW rec,
         reads \in SUBSET {"receipt", "dead", "tail"},
         IsPut(key, rec), GroundedPut([key |-> key, rec |-> rec]),
         \A g \in Generations : key = ClaimKey(g) => rec.worker = w,
         call = "renew" => \E g \in Generations : key = ClaimKey(g),
         Guarded(w, kind, r, call, reads, key, rec)
  PROVE  IInv'
<1>1. Still /\ hint' = hint
  BY DEF Guarded, Still
<1>2. Grows /\ LocalTypes /\ WorkerInv(w)
  BY <1>1, QuietFacts
<1>3. CASE Present(TerminalKey(kind))
  <2>1. Local(w)
    BY <1>2, <1>3, ReturnDropping DEF Guarded
  <2> QED
    BY <1>1, <2>1, QuietStep, TypeParts DEF IInv
<1>4. CASE ~Present(TerminalKey(kind))
  <2>1. /\ Begin(w, call, reads) /\ Intend(w, key, rec)
        /\ UNCHANGED <<floor, tail, hinted, known, handle>>
    BY <1>4 DEF Guarded
  <2>2. /\ DOMAIN draft' \subseteq Workers
        /\ \A v \in DOMAIN draft' : IsPut(draft'[v].key, draft'[v].rec)
    BY <1>2, <2>1, IntendDraft
  <2>3. /\ pc' \in [Workers -> {"idle", "probe", "decide", "relist", "put",
                                "resolve", "committed"}]
        /\ op' \in [Workers -> {"none", "claim", "exhaust", "renew", "ack",
                                "nack", "bury"}]
        /\ todo' \in [Workers -> SUBSET {"receipt", "dead", "tail"}]
        /\ op'[w] = call /\ pc'[w] # "committed"
        /\ \A v \in Workers \ {w} : pc'[v] = pc[v] /\ op'[v] = op[v]
    BY <1>2, <2>1 DEF Begin, LocalTypes
  <2>4. LocalTypes'
    BY <1>2, <2>1, <2>2, <2>3 DEF LocalTypes, Handles
  <2>5. PICK p : p = [key |-> key, rec |-> rec]
    OBVIOUS
  <2>6. IsPut(p.key, p.rec) /\ GroundedPut(p)
    BY <2>5
  <2>7. GroundedPut(p)'
    BY <1>2, <2>6, PutStable
  <2>8. GroundedPut([key |-> key, rec |-> rec])'
    BY <2>5, <2>7
  <2>9. Local(w)
    BY <1>2, <2>1, <2>3, <2>4, <2>8, DraftLocal
  <2> QED
    BY <1>1, <2>9, QuietStep, TypeParts DEF IInv
<1> QED
  BY <1>3, <1>4

\* renew: the draft continues the claim the handle stands for.
LEMMA RenewInv ==
  ASSUME IInv, NEW w \in Workers, Renew(w)
  PROVE  IInv'
<1>1. w \in DOMAIN handle /\ handle[w].gen < MaxGen
  BY DEF Renew
<1>2. LocalTypes /\ StoreTypes /\ StoreInv /\ WorkerInv(w)
  BY TypeParts DEF IInv
<1>3. PICK key, rec :
        /\ key = ClaimKey(handle[w].gen + 1)
        /\ rec = [attempt |-> handle[w].attempt, worker |-> w,
                  token |-> handle[w].token, dur |-> handle[w].dur,
                  continuation |-> TRUE, basis |-> NoBasis,
                  prevToken |-> handle[w].token]
  BY Zenon
<1>4. IsPut(key, rec)
  BY <1>1, <1>2, <1>3, RenewDraft
<1>5. Guarded(w, "receipt", "leaseLost", "renew", {"dead"}, key, rec)
  BY <1>3 DEF Renew
<1>6. handle[w] \in Handles /\ handle[w].gen + 1 \in Generations
  BY <1>1, <1>2, ConstantsAssumption DEF LocalTypes, Handles, Generations
<1>7. PICK h \in Generations : h = handle[w].gen
  BY <1>6 DEF Handles
<1>8. /\ h \in Chain
      /\ ClaimAt(h).rec.worker = w
      /\ ClaimAt(h).rec.token = rec.prevToken
      /\ ClaimAt(h).rec.attempt = rec.attempt
      /\ ClaimAt(h).rec.dur = rec.dur
      /\ rec.worker = w /\ rec.continuation = TRUE
  BY <1>1, <1>2, <1>3, <1>7 DEF WorkerInv, HandleOK
<1>9. rec.attempt <= MaximumAttempts
  BY <1>2, <1>8 DEF StoreInv, Grounded
<1>10. (h + 1) - 1 = h /\ h + 1 > 1
  BY <1>7 DEF Generations
<1>11. Grounded(h + 1, rec)
  BY <1>8, <1>9, <1>10 DEF Grounded
<1>12. \A g \in Generations : key = ClaimKey(g) => g = h + 1
  BY <1>3, <1>7 DEF ClaimKey
<1>13. GroundedPut([key |-> key, rec |-> rec])
  BY <1>11, <1>12 DEF GroundedPut
<1>14. /\ \A g \in Generations : key = ClaimKey(g) => rec.worker = w
       /\ \E g \in Generations : key = ClaimKey(g)
  BY <1>3, <1>6, <1>8
<1> QED
  BY <1>4, <1>5, <1>13, <1>14, GuardedInv

\* ack and bury: a terminal record carries no claim evidence of its own.
LEMMA AckInv ==
  ASSUME IInv, NEW w \in Workers, Ack(w)
  PROVE  IInv'
<1>1. w \in DOMAIN handle
  BY DEF Ack, Guarded
<1>2. LocalTypes
  BY TypeParts DEF IInv
<1>3. PICK rec : rec = [gen |-> handle[w].gen, attempt |-> handle[w].attempt,
                        worker |-> w, token |-> handle[w].token]
  BY Zenon
<1>4. IsPut(ReceiptKey, rec)
  BY Zenon, <1>1, <1>2, <1>3, TerminalDrafts
<1>5. Guarded(w, "dead", "supersededByDead", "ack", {}, ReceiptKey, rec)
  BY <1>3 DEF Ack
<1>6. \A g \in Generations : ReceiptKey # ClaimKey(g)
  BY DEF ReceiptKey, TerminalKey, ClaimKey
<1>7. GroundedPut([key |-> ReceiptKey, rec |-> rec])
  BY <1>6 DEF GroundedPut
<1> QED
  BY <1>4, <1>5, <1>6, <1>7, GuardedInv

\* bury: as ack, with the dead record.
LEMMA BuryInv ==
  ASSUME IInv, NEW w \in Workers, Bury(w)
  PROVE  IInv'
<1>1. w \in DOMAIN handle
  BY DEF Bury, Guarded
<1>2. LocalTypes
  BY TypeParts DEF IInv
<1>3. PICK rec : rec = [gen |-> handle[w].gen, attempt |-> handle[w].attempt,
                        reason |-> "bury"]
  BY Zenon
<1>4. IsPut(DeadKey, rec)
  BY Zenon, <1>1, <1>2, <1>3, TerminalDrafts
<1>5. Guarded(w, "receipt", "supersededByReceipt", "bury", {}, DeadKey, rec)
  BY <1>3 DEF Bury
<1>6. \A g \in Generations : DeadKey # ClaimKey(g)
  BY DEF DeadKey, TerminalKey, ClaimKey
<1>7. GroundedPut([key |-> DeadKey, rec |-> rec])
  BY <1>6 DEF GroundedPut
<1> QED
  BY <1>4, <1>5, <1>6, <1>7, GuardedInv

\* nack: neither does a fail record.
LEMMA NackInv ==
  ASSUME IInv, NEW w \in Workers, Nack(w)
  PROVE  IInv'
<1>1. Still /\ hint' = hint
  BY DEF Nack, Still
<1>2. Grows /\ LocalTypes /\ WorkerInv(w) /\ now \in Nat
  BY <1>1, QuietFacts, TypeParts DEF IInv
<1>3. PICK f \in Floors, b \in Backoffs :
        Intend(w, FailKey(handle[w].gen),
               [attempt |-> handle[w].attempt, retry |-> f + b])
  BY DEF Nack
<1>4. PICK key, rec :
        /\ key = FailKey(handle[w].gen)
        /\ rec = [attempt |-> handle[w].attempt, retry |-> f + b]
  BY Zenon
<1>5. IsPut(key, rec)
  BY <1>2, <1>4, FailDraft DEF Nack
<1>6. Intend(w, key, rec)
  BY <1>3, <1>4
<1>7. \A g \in Generations : key # ClaimKey(g)
  BY <1>4 DEF FailKey, ClaimKey
<1>8. GroundedPut([key |-> key, rec |-> rec])'
  BY <1>7 DEF GroundedPut
<1>9. /\ DOMAIN draft' \subseteq Workers
      /\ \A v \in DOMAIN draft' : IsPut(draft'[v].key, draft'[v].rec)
  BY <1>2, <1>5, <1>6, IntendDraft
<1>10. /\ pc' \in [Workers -> {"idle", "probe", "decide", "relist", "put",
                               "resolve", "committed"}]
       /\ op' \in [Workers -> {"none", "claim", "exhaust", "renew", "ack",
                               "nack", "bury"}]
       /\ todo' \in [Workers -> SUBSET {"receipt", "dead", "tail"}]
       /\ op'[w] = "nack" /\ pc'[w] # "committed"
       /\ \A v \in Workers \ {w} : pc'[v] = pc[v] /\ op'[v] = op[v]
       /\ UNCHANGED <<floor, tail, hinted, known, handle>>
  BY <1>2 DEF Nack, Begin, LocalTypes
<1>11. LocalTypes'
  BY <1>2, <1>9, <1>10 DEF LocalTypes, Handles
<1>12. Local(w)
  BY <1>2, <1>5, <1>6, <1>7, <1>8, <1>10, <1>11, DraftLocal
<1> QED
  BY <1>1, <1>12, QuietStep, TypeParts DEF IInv

============================================================================
