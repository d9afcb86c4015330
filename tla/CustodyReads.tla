--------------------------- MODULE CustodyReads ----------------------------
(***************************************************************************)
(* The reads of a call of Custody and the branches of the claim decision   *)
(* that follow them preserve the invariant.                                *)
(***************************************************************************)
EXTENDS CustodySteps

\* Time limits of the two provers, in seconds.
USE SMTT(30), ZenonT(30)

----------------------------------------------------------------------------
(* Reads, and what claim decides from them: one lemma for each action      *)

\* HEAD of a terminal record.
LEMMA ProbeInv ==
  ASSUME IInv, NEW w \in Workers, NEW kind, Probe(w, kind)
  PROVE  IInv'
<1>1. Still /\ hint' = hint
  BY DEF Probe, Still
<1>2. Grows /\ LocalTypes /\ WorkerInv(w)
  BY <1>1, QuietFacts
<1>3. CASE Present(TerminalKey(kind))
  <2>1. PICK r : Return(w, r, Forget(handle, w))
    BY <1>3 DEF Probe
  <2>2. Local(w)
    BY <1>2, <2>1, ReturnDropping
  <2> QED
    BY <1>1, <2>2, QuietStep, TypeParts DEF IInv
<1>4. CASE ~Present(TerminalKey(kind))
  <2>1. /\ pc[w] = "probe" /\ Done(w, kind)
        /\ UNCHANGED <<op, floor, tail, hinted, known, draft, handle, result>>
    BY <1>4 DEF Probe
  <2>2. /\ pc' \in [Workers -> {"idle", "probe", "decide", "relist", "put",
                                "resolve", "committed"}]
        /\ todo' \in [Workers -> SUBSET {"receipt", "dead", "tail"}]
        /\ pc'[w] \in {"probe", "decide", "put"}
        /\ op[w] = "claim" => pc'[w] # "put"
        /\ \A v \in Workers \ {w} : pc'[v] = pc[v]
    BY <1>2, <2>1 DEF Done, LocalTypes
  <2>3. LocalTypes'
    BY <1>2, <2>1, <2>2 DEF LocalTypes, Handles, IsPut, ClaimKey, FailKey,
       ReceiptKey, DeadKey, TerminalKey
  <2>4. TailOK(w)'
    BY <1>2, <2>1, TailKept DEF WorkerInv
  <2>5. Drafting(w)' => Drafting(w)
    BY <2>1, <2>2 DEF Drafting
  <2>6. Local(w)
    BY <1>2, <2>1, <2>2, <2>3, <2>4, <2>5, MoveLocal
  <2> QED
    BY <1>1, <2>6, QuietStep, TypeParts DEF IInv
<1> QED
  BY <1>3, <1>4

\* Tail evidence read now is what the store holds.
LEMMA ReadTail ==
  ASSUME StoreTypes, store' = store, NEW w \in Workers,
         tail'[w] = NoTail \/ \E g \in Chain : tail'[w] = Evidence(g)
  PROVE  /\ TailOK(w)'
         /\ tail'[w] \in [gen : 0..MaxGen, attempt : Nat, at : Nat, dur : Nat]
<1>1. CASE tail'[w] = NoTail
  BY <1>1, ConstantsAssumption DEF NoTail, TailOK
<1>2. ASSUME NEW g \in Chain, tail'[w] = Evidence(g)
      PROVE  /\ TailOK(w)'
             /\ tail'[w] \in [gen : 0..MaxGen, attempt : Nat, at : Nat, dur : Nat]
  <2>1. /\ tail'[w].gen = g
        /\ tail'[w].attempt = ClaimAt(g).rec.attempt
        /\ tail'[w].at = ClaimAt(g).at
        /\ tail'[w].dur = ClaimAt(g).rec.dur
    BY <1>2 DEF Evidence, ClaimAt
  <2>2. Chain' = Chain /\ ClaimAt(g)' = ClaimAt(g)
    BY DEF Chain, Present, ClaimAt
  <2>3. TailOK(w)'
    BY <2>1, <2>2 DEF TailOK
  <2> QED
    BY <1>2, <2>3, EvidenceType
<1> QED
  BY <1>1, <1>2

\* Tail discovery, through the hint or the listing.
LEMMA DiscoverTailInv ==
  ASSUME IInv, NEW w \in Workers, DiscoverTail(w)
  PROVE  IInv'
<1>1. Still /\ hint' = hint
  BY DEF DiscoverTail, Still
<1>2. Grows /\ LocalTypes /\ StoreTypes /\ StoreInv /\ WorkerInv(w)
  BY <1>1, QuietFacts
<1>3. hint \in NoHint..MaxGen
  BY TypeParts DEF IInv
<1>4. PICK t : /\ tail' = [tail EXCEPT ![w] = t]
               /\ t = ListTail \/ (hint \in Chain /\ t = Evidence(hint))
  BY Zenon DEF DiscoverTail
<1>5. tail'[w] = t /\ \A v \in Workers \ {w} : tail'[v] = tail[v]
  BY <1>2, <1>4 DEF LocalTypes
<1>6. t = NoTail \/ \E g \in Chain : t = Evidence(g)
  BY <1>2, <1>4, ListTailChain DEF StoreInv
<1>7. /\ TailOK(w)'
      /\ t \in [gen : 0..MaxGen, attempt : Nat, at : Nat, dur : Nat]
  BY <1>1, <1>2, <1>5, <1>6, ReadTail DEF Still
<1>8. /\ pc[w] = "probe" /\ Done(w, "tail")
      /\ UNCHANGED <<op, floor, draft, handle>>
      /\ known' = [known EXCEPT ![w] = hint]
      /\ hinted' = [hinted EXCEPT ![w] = Hints /\ hint \in Chain]
  BY DEF DiscoverTail
<1>9. /\ pc' \in [Workers -> {"idle", "probe", "decide", "relist", "put",
                              "resolve", "committed"}]
      /\ todo' \in [Workers -> SUBSET {"receipt", "dead", "tail"}]
      /\ pc'[w] \in {"probe", "decide", "put"}
      /\ op[w] = "claim" => pc'[w] # "put"
      /\ \A v \in Workers \ {w} : pc'[v] = pc[v]
  BY <1>2, <1>8 DEF Done, LocalTypes
<1>10. /\ tail' \in [Workers -> [gen : 0..MaxGen, attempt : Nat, at : Nat,
                                 dur : Nat]]
       /\ known' \in [Workers -> NoHint..MaxGen]
  BY <1>2, <1>3, <1>4, <1>7, <1>8 DEF LocalTypes
<1>11. hinted' \in [Workers -> BOOLEAN]
  <2>1. PICK u \in BOOLEAN : u = (Hints /\ hint \in Chain)
    BY Zenon
  <2> QED
    BY <1>2, <1>8, <2>1 DEF LocalTypes
<1>12. LocalTypes'
  BY <1>2, <1>8, <1>9, <1>10, <1>11 DEF LocalTypes, Handles, IsPut, ClaimKey,
     FailKey, ReceiptKey, DeadKey, TerminalKey
<1>13. Drafting(w)' => Drafting(w)
  BY <1>8, <1>9 DEF Drafting
<1>14. Local(w)
  BY <1>2, <1>5, <1>7, <1>8, <1>9, <1>12, <1>13, MoveLocal
<1> QED
  BY <1>1, <1>3, <1>14, QuietStep

\* The authoritative listing replaces the hint's evidence.
LEMMA RelistInv ==
  ASSUME IInv, NEW w \in Workers, Relist(w)
  PROVE  IInv'
<1>1. Still /\ hint' = hint
  BY DEF Relist, Still
<1>2. Grows /\ LocalTypes /\ StoreTypes /\ StoreInv /\ WorkerInv(w)
  BY <1>1, QuietFacts
<1>3. /\ tail' = [tail EXCEPT ![w] = ListTail]
      /\ pc' = [pc EXCEPT ![w] = "decide"]
      /\ hinted' = [hinted EXCEPT ![w] = FALSE]
      /\ UNCHANGED <<op, floor, todo, known, draft, handle>>
  BY DEF Relist
<1>4. /\ tail'[w] = ListTail /\ pc'[w] = "decide"
      /\ \A v \in Workers \ {w} : pc'[v] = pc[v] /\ tail'[v] = tail[v]
  BY <1>2, <1>3 DEF LocalTypes
<1>5. ListTail = NoTail \/ \E g \in Chain : ListTail = Evidence(g)
  BY <1>2, ListTailChain DEF StoreInv
<1>6. /\ TailOK(w)'
      /\ ListTail \in [gen : 0..MaxGen, attempt : Nat, at : Nat, dur : Nat]
  BY <1>1, <1>2, <1>4, <1>5, ReadTail DEF Still
<1>7. LocalTypes'
  <2>1. /\ tail' \in [Workers -> [gen : 0..MaxGen, attempt : Nat, at : Nat,
                                  dur : Nat]]
        /\ pc' \in [Workers -> {"idle", "probe", "decide", "relist", "put",
                                "resolve", "committed"}]
        /\ hinted' \in [Workers -> BOOLEAN]
    BY <1>2, <1>3, <1>6 DEF LocalTypes
  <2> QED
    BY <1>2, <1>3, <2>1 DEF LocalTypes, Handles, IsPut, ClaimKey, FailKey,
       ReceiptKey, DeadKey, TerminalKey
<1>8. ~Drafting(w)'
  BY <1>4 DEF Drafting
<1>9. Local(w)
  BY <1>2, <1>3, <1>4, <1>6, <1>7, <1>8, MoveLocal
<1> QED
  BY <1>1, <1>9, QuietStep, TypeParts DEF IInv

\* A step that only moves a worker's program counter.
LEMMA PcMove ==
  ASSUME Grows, LocalTypes, NEW w \in Workers, WorkerInv(w),
         NEW q \in {"relist", "put", "resolve", "committed"},
         pc' = [pc EXCEPT ![w] = q],
         UNCHANGED <<op, floor, todo, tail, hinted, known, draft, handle>>,
         q # "relist" => Drafting(w),
         q = "committed" =>
           /\ op[w] \in {"claim", "renew"}
           /\ draft[w].key \in DOMAIN store'
           /\ store'[draft[w].key].rec = draft[w].rec
  PROVE  Local(w)
<1>1. /\ pc'[w] = q /\ \A v \in Workers \ {w} : pc'[v] = pc[v]
      /\ pc' \in [Workers -> {"idle", "probe", "decide", "relist", "put",
                              "resolve", "committed"}]
  BY DEF LocalTypes
<1>2. LocalTypes'
  BY <1>1 DEF LocalTypes, Handles, IsPut, ClaimKey, FailKey, ReceiptKey,
     DeadKey, TerminalKey
<1>3. TailOK(w)'
  BY TailKept DEF WorkerInv
<1>4. Drafting(w)' => Drafting(w)
  BY <1>1 DEF Drafting
<1>5. pc'[w] = "committed" =>
        /\ op[w] \in {"claim", "renew"}
        /\ Present(draft[w].key)'
        /\ store'[draft[w].key].rec = draft[w].rec
  BY <1>1 DEF Present
<1> QED
  BY <1>1, <1>2, <1>3, <1>4, <1>5, MoveLocal

\* The ends of the decision that write nothing.
LEMMA ClaimRefusedInv ==
  ASSUME IInv, NEW w \in Workers,
         ClaimNotReady(w) \/ ClaimNoGeneration(w) \/ GiveUp(w)
  PROVE  IInv'
<1>1. Still /\ hint' = hint
  BY DEF ClaimNotReady, ClaimNoGeneration, GiveUp, Still
<1>2. Grows /\ LocalTypes /\ WorkerInv(w)
  BY <1>1, QuietFacts
<1>3. PICK r : Return(w, r, handle)
  BY DEF ClaimNotReady, ClaimNoGeneration, GiveUp
<1>4. Local(w)
  BY <1>2, <1>3, ReturnKeeping
<1> QED
  BY <1>1, <1>4, QuietStep, TypeParts DEF IInv

\* A process that dies loses its handle and its draft.
LEMMA CrashInv ==
  ASSUME IInv, NEW w \in Workers, Crash(w)
  PROVE  IInv'
<1>1. Still /\ hint' = hint
  BY DEF Crash, Still
<1>2. Grows /\ LocalTypes
  BY <1>1, QuietFacts
<1>3. Local(w)
  BY <1>2, ReturnDropping DEF Crash
<1> QED
  BY <1>1, <1>3, QuietStep, TypeParts DEF IInv

\* Exhaustion on a hint's evidence sends the claimant to the listing.
LEMMA ClaimRecheckInv ==
  ASSUME IInv, NEW w \in Workers, ClaimRecheck(w)
  PROVE  IInv'
<1>1. Still /\ hint' = hint
  BY DEF ClaimRecheck, Still
<1>2. Grows /\ LocalTypes /\ WorkerInv(w)
  BY <1>1, QuietFacts
<1>3. Local(w)
  BY Zenon, <1>2, PcMove DEF ClaimRecheck
<1> QED
  BY <1>1, <1>3, QuietStep, TypeParts DEF IInv

\* Exhaustion drafts the dead record.
LEMMA ClaimExhaustInv ==
  ASSUME IInv, NEW w \in Workers, ClaimExhaust(w)
  PROVE  IInv'
<1>1. Still /\ hint' = hint
  BY DEF ClaimExhaust, Still
<1>2. Grows /\ LocalTypes /\ WorkerInv(w)
  BY <1>1, QuietFacts
<1>3. PICK rec : rec = [gen |-> tail[w].gen, attempt |-> tail[w].attempt,
                        reason |-> "exhausted"]
  BY Zenon
<1>4. IsPut(DeadKey, rec) /\ Intend(w, DeadKey, rec)
  BY <1>2, <1>3, ExhaustDraft DEF ClaimExhaust
<1>5. \A g \in Generations : DeadKey # ClaimKey(g)
  BY DEF DeadKey, TerminalKey, ClaimKey
<1>6. GroundedPut([key |-> DeadKey, rec |-> rec])'
  BY <1>5 DEF GroundedPut
<1>7. /\ DOMAIN draft' \subseteq Workers
      /\ \A v \in DOMAIN draft' : IsPut(draft'[v].key, draft'[v].rec)
  BY <1>2, <1>4, IntendDraft
<1>8. /\ pc' \in [Workers -> {"idle", "probe", "decide", "relist", "put",
                              "resolve", "committed"}]
      /\ op' \in [Workers -> {"none", "claim", "exhaust", "renew", "ack",
                              "nack", "bury"}]
      /\ op'[w] = "exhaust" /\ pc'[w] # "committed"
      /\ \A v \in Workers \ {w} : pc'[v] = pc[v] /\ op'[v] = op[v]
      /\ UNCHANGED <<floor, todo, tail, hinted, known, handle>>
  BY <1>2 DEF ClaimExhaust, LocalTypes
<1>9. LocalTypes'
  BY <1>2, <1>7, <1>8 DEF LocalTypes, Handles
<1>10. Local(w)
  BY <1>2, <1>4, <1>5, <1>6, <1>8, <1>9, DraftLocal
<1> QED
  BY <1>1, <1>10, QuietStep, TypeParts DEF IInv

\* A takeover rests on the recorded expiry of the tail it read.
LEMMA ClaimTakeoverInv ==
  ASSUME IInv, NEW w \in Workers, ClaimTakeover(w)
  PROVE  IInv'
<1>1. Still /\ hint' = hint
  BY DEF ClaimTakeover, Still
<1>2. Grows /\ LocalTypes /\ WorkerInv(w)
  BY <1>1, QuietFacts
<1>3. PICK t \in Tokens, d \in Durations :
        Intend(w, ClaimKey(tail[w].gen + 1),
               [attempt |-> tail[w].attempt + 1, worker |-> w,
                token |-> t, dur |-> d, continuation |-> FALSE,
                basis |-> [prevTime |-> tail[w].at, prevDur |-> tail[w].dur,
                           floor |-> floor[w]],
                prevToken |-> NoToken])
  BY Zenon DEF ClaimTakeover
<1>4. PICK key, rec :
        /\ key = ClaimKey(tail[w].gen + 1)
        /\ rec = [attempt |-> tail[w].attempt + 1, worker |-> w,
                  token |-> t, dur |-> d, continuation |-> FALSE,
                  basis |-> [prevTime |-> tail[w].at, prevDur |-> tail[w].dur,
                             floor |-> floor[w]],
                  prevToken |-> NoToken]
  BY Zenon
<1>5. IsPut(key, rec) /\ Intend(w, key, rec)
  BY <1>2, <1>3, <1>4, TakeoverDraft DEF ClaimTakeover
<1>6. /\ tail[w] \in [gen : 0..MaxGen, attempt : Nat, at : Nat, dur : Nat]
      /\ floor[w] \in Nat /\ floor[w] <= now
  BY <1>2 DEF LocalTypes, WorkerInv
<1>7. PICK h \in 0..MaxGen : h = tail[w].gen
  BY <1>6
<1>8. h + 1 \in Generations /\ (h + 1) - 1 = h /\ (h + 1 > 1 <=> h > 0)
  BY <1>7, ConstantsAssumption DEF ClaimTakeover, Generations
<1>9. /\ rec.attempt <= MaximumAttempts
      /\ rec.basis.floor <= now
      /\ ~rec.continuation
      /\ rec.worker = w
      /\ h > 0 =>
           /\ h \in Chain
           /\ rec.basis.prevTime = ClaimAt(h).at
           /\ rec.basis.prevDur = ClaimAt(h).rec.dur
           /\ ClaimAt(h).at + ClaimAt(h).rec.dur + SkewGuard <= rec.basis.floor
  <2>1. /\ rec.attempt = tail[w].attempt + 1 /\ rec.basis.floor = floor[w]
        /\ rec.basis.prevTime = tail[w].at /\ rec.basis.prevDur = tail[w].dur
        /\ rec.continuation = FALSE /\ rec.worker = w
    BY <1>4
  <2>2. ~Exhausted(w) /\ Expired(w)
    BY DEF ClaimTakeover, Ready
  <2>3. rec.attempt <= MaximumAttempts
    BY <1>6, <2>1, <2>2, ConstantsAssumption DEF Exhausted
  <2>4. h > 0 => tail[w].at + tail[w].dur + SkewGuard <= floor[w]
    BY <1>6, <1>7, <2>2, ConstantsAssumption DEF Expired
  <2> QED
    BY <1>2, <1>6, <1>7, <2>1, <2>3, <2>4 DEF WorkerInv, TailOK
<1>10. Grounded(h + 1, rec)
  BY <1>8, <1>9 DEF Grounded
<1>11. \A g \in Generations : key = ClaimKey(g) => g = h + 1
  BY <1>4, <1>7 DEF ClaimKey
<1>12. PICK p : p = [key |-> key, rec |-> rec]
  BY Zenon
<1>13. IsPut(p.key, p.rec) /\ GroundedPut(p)
  BY <1>5, <1>10, <1>11, <1>12 DEF GroundedPut
<1>14. GroundedPut([key |-> key, rec |-> rec])'
  BY <1>2, <1>12, <1>13, PutStable
<1>15. /\ DOMAIN draft' \subseteq Workers
       /\ \A v \in DOMAIN draft' : IsPut(draft'[v].key, draft'[v].rec)
  BY <1>2, <1>5, IntendDraft
<1>16. /\ pc' \in [Workers -> {"idle", "probe", "decide", "relist", "put",
                               "resolve", "committed"}]
       /\ pc'[w] # "committed"
       /\ \A v \in Workers \ {w} : pc'[v] = pc[v]
       /\ UNCHANGED <<op, floor, todo, tail, hinted, known, handle>>
  BY <1>2 DEF ClaimTakeover, LocalTypes
<1>17. LocalTypes'
  BY <1>2, <1>15, <1>16 DEF LocalTypes, Handles
<1>18. \E g \in Generations : key = ClaimKey(g)
  BY <1>4, <1>7, <1>8
<1>19. \A g \in Generations : key = ClaimKey(g) => rec.worker = w
  BY <1>9
<1>20. Local(w)
  BY <1>2, <1>5, <1>14, <1>16, <1>17, <1>18, <1>19, DraftLocal
<1> QED
  BY <1>1, <1>20, QuietStep, TypeParts DEF IInv

============================================================================
