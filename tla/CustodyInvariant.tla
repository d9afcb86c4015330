------------------------- MODULE CustodyInvariant --------------------------
(***************************************************************************)
(* The inductive invariant of Custody, and what the proofs of its steps    *)
(* share about types, the store and what a worker knows of it.             *)
(***************************************************************************)
EXTENDS Custody, FiniteSetTheorems, TLAPS

\* Time limits of the two provers, in seconds.
USE SMTT(30), ZenonT(30)

----------------------------------------------------------------------------
(* The inductive invariant                                                 *)

\* The chain is the generations 1..n for some n.
Contiguous == \E n \in 0..MaxGen : Chain = 1..n

\* The evidence a claim record carries is about the generation before it:
\* a renewal continues that claim, a takeover rests on its recorded expiry.
\* Nothing in it can be falsified later, as objects never change.
Grounded(g, rec) ==
  LET prev == ClaimAt(g - 1)
  IN /\ g > 1 => g - 1 \in Chain
     /\ rec.attempt <= MaximumAttempts
     /\ rec.continuation =>
          /\ g > 1
          /\ rec.worker = prev.rec.worker
          /\ rec.prevToken = prev.rec.token
          /\ rec.dur = prev.rec.dur
     /\ ~rec.continuation =>
          /\ rec.basis.floor <= now
          /\ g > 1 => /\ rec.basis.prevTime = prev.at
                      /\ rec.basis.prevDur = prev.rec.dur
                      /\ prev.at + prev.rec.dur + SkewGuard <= rec.basis.floor

GroundedPut(p) ==
  \A g \in Generations : p.key = ClaimKey(g) => Grounded(g, p.rec)

\* Stamps lie within the dispersion of the true time of creation.
Stamped(k) ==
  /\ store[k].at <= store[k].born
  /\ store[k].born <= store[k].at + Dispersion
  /\ store[k].born <= now

\* Leases end in the order of their generations, and a takeover comes after
\* the end of all the leases before it.
Ordered ==
  \A g, h \in Chain : g < h =>
    /\ LeaseEnd(g) <= LeaseEnd(h)
    /\ Takeover(h) => LeaseEnd(g) <= ClaimAt(h).born

StoreInv ==
  /\ Contiguous
  /\ \A k \in DOMAIN store : Stamped(k)
  /\ \A g \in Chain : Grounded(g, ClaimAt(g).rec)
  /\ Ordered

\* A claimant's tail evidence is what the store holds.
TailOK(w) ==
  tail[w].gen > 0 =>
    /\ tail[w].gen \in Chain
    /\ tail[w].attempt = ClaimAt(tail[w].gen).rec.attempt
    /\ tail[w].at = ClaimAt(tail[w].gen).at
    /\ tail[w].dur = ClaimAt(tail[w].gen).rec.dur

\* A handle is the record its holder wrote.
HandleOK(w) ==
  w \in DOMAIN handle =>
    /\ handle[w].gen \in Chain
    /\ ClaimAt(handle[w].gen).rec.worker = w
    /\ ClaimAt(handle[w].gen).rec.token = handle[w].token
    /\ ClaimAt(handle[w].gen).rec.attempt = handle[w].attempt
    /\ ClaimAt(handle[w].gen).rec.dur = handle[w].dur

Drafting(w) ==
  \/ pc[w] \in {"put", "resolve", "committed"}
  \/ pc[w] = "probe" /\ op[w] # "claim"

DraftOK(w) ==
  /\ w \in DOMAIN draft =>
       /\ GroundedPut(draft[w])
       /\ \A g \in Generations : draft[w].key = ClaimKey(g) =>
            draft[w].rec.worker = w
  /\ Drafting(w) => w \in DOMAIN draft
  /\ Drafting(w) /\ op[w] \in {"claim", "renew"} =>
       \E g \in Generations : draft[w].key = ClaimKey(g)
  /\ pc[w] = "committed" =>
       /\ op[w] \in {"claim", "renew"}
       /\ Present(draft[w].key)
       /\ store[draft[w].key].rec = draft[w].rec

WorkerInv(w) ==
  /\ floor[w] <= now
  /\ TailOK(w)
  /\ HandleOK(w)
  /\ DraftOK(w)

IInv ==
  /\ TypeOK
  /\ StoreInv
  /\ \A p \in late : GroundedPut(p)
  /\ \A w \in Workers : WorkerInv(w)

----------------------------------------------------------------------------
(* Type correctness                                                        *)

StoreTypes ==
  \A k \in DOMAIN store :
    /\ IsPut(k, store[k].rec)
    /\ store[k].at \in Nat /\ store[k].born \in Nat /\ store[k].depth \in Nat

\* The chain is finite, so the history field `depth' is a number.
LEMMA DepthType == Cardinality(Chain) \in Nat
<1>1. MaxGen \in Nat
  BY ConstantsAssumption
<1>2. IsFiniteSet(Generations)
  BY <1>1, FS_Interval DEF Generations
<1>3. Chain \subseteq Generations
  BY DEF Chain
<1>4. IsFiniteSet(Chain)
  BY <1>2, <1>3, FS_Subset
<1> QED
  BY <1>4, FS_CardinalityType

\* A put that the store applies leaves the store well-formed.
LEMMA ApplyTypes ==
  ASSUME NEW put, now \in Nat, StoreTypes, IsPut(put.key, put.rec), Apply(put)
  PROVE  StoreTypes'
<1>1. PICK t \in IF put.key[1] = "claim" THEN Stamps ELSE {now} :
        store' = Extend(store, put.key,
                    [rec |-> put.rec, at |-> t, born |-> now,
                     depth |-> Cardinality(Chain)])
  BY DEF Apply
<1>2. t \in Nat
  BY <1>1 DEF Stamps
<1>3. Cardinality(Chain) \in Nat
  BY DepthType
<1>4. DOMAIN store' = DOMAIN store \cup {put.key}
  BY <1>1 DEF Extend
<1>5. \A k \in DOMAIN store' :
        store'[k] = IF k = put.key
                    THEN [rec |-> put.rec, at |-> t, born |-> now,
                          depth |-> Cardinality(Chain)]
                    ELSE store[k]
  BY <1>1 DEF Extend
<1>6. ASSUME NEW k \in DOMAIN store'
      PROVE  /\ IsPut(k, store'[k].rec)
             /\ store'[k].at \in Nat /\ store'[k].born \in Nat
             /\ store'[k].depth \in Nat
  <2>1. CASE k = put.key
    <3>1. store'[k] = [rec |-> put.rec, at |-> t, born |-> now,
                       depth |-> Cardinality(Chain)]
      BY <1>5, <2>1
    <3> QED
      BY <3>1, <2>1, <1>2, <1>3
  <2>2. CASE k # put.key
    <3>1. k \in DOMAIN store /\ store'[k] = store[k]
      BY <1>4, <1>5, <2>2
    <3> QED
      BY <3>1 DEF StoreTypes
  <2> QED
    BY <2>1, <2>2
<1> QED
  BY <1>6 DEF StoreTypes, IsPut, ClaimKey, FailKey, ReceiptKey, DeadKey,
     TerminalKey, Generations, ClaimRecs, FailRecs, ReceiptRecs, DeadRecs

Handles == [gen : Generations, attempt : Nat, token : Tokens, dur : Nat]

LocalTypes ==
  /\ pc \in [Workers -> {"idle", "probe", "decide", "relist", "put", "resolve",
                         "committed"}]
  /\ op \in [Workers -> {"none", "claim", "exhaust", "renew", "ack", "nack",
                         "bury"}]
  /\ floor \in [Workers -> Nat]
  /\ todo \in [Workers -> SUBSET {"receipt", "dead", "tail"}]
  /\ tail \in [Workers -> [gen : 0..MaxGen, attempt : Nat, at : Nat, dur : Nat]]
  /\ hinted \in [Workers -> BOOLEAN]
  /\ known \in [Workers -> NoHint..MaxGen]
  /\ DOMAIN draft \subseteq Workers
  /\ \A w \in DOMAIN draft : IsPut(draft[w].key, draft[w].rec)
  /\ DOMAIN handle \subseteq Workers
  /\ handle \in [DOMAIN handle -> Handles]

\* Type correctness splits into the parts the lemmas below speak of.
LEMMA TypeParts ==
  TypeOK <=> /\ now \in Nat
             /\ StoreTypes
             /\ hint \in NoHint..MaxGen
             /\ \A p \in late : IsPut(p.key, p.rec)
             /\ LocalTypes
BY DEF TypeOK, StoreTypes, LocalTypes, Handles

\* The same after a step.
LEMMA TypePartsNext ==
  ASSUME now' \in Nat, StoreTypes', hint' \in NoHint..MaxGen,
         \A p \in late' : IsPut(p.key, p.rec), LocalTypes'
  PROVE  TypeOK'
BY DEF TypeOK, StoreTypes, LocalTypes, Handles, IsPut, ClaimKey, FailKey,
   ReceiptKey, DeadKey, TerminalKey, Generations, ClaimRecs, FailRecs,
   ReceiptRecs, DeadRecs

\* The set of the handles a call may return with is well-typed.
LEMMA ForgetHandle ==
  ASSUME NEW w, LocalTypes
  PROVE  /\ DOMAIN Forget(handle, w) \subseteq Workers
         /\ Forget(handle, w) \in [DOMAIN Forget(handle, w) -> Handles]
BY DEF Forget, LocalTypes

\* The handle a claim or a renewal returns joins the others.
LEMMA ExtendHandle ==
  ASSUME NEW w \in Workers, LocalTypes, NEW h \in Handles
  PROVE  /\ DOMAIN Extend(handle, w, h) \subseteq Workers
         /\ Extend(handle, w, h) \in [DOMAIN Extend(handle, w, h) -> Handles]
BY DEF Extend, LocalTypes

\* Dropping a draft keeps the others.
LEMMA ForgetDraft ==
  ASSUME NEW w \in Workers, LocalTypes, draft' = Forget(draft, w)
  PROVE  /\ DOMAIN draft' \subseteq Workers
         /\ \A v \in DOMAIN draft' : v \in DOMAIN draft /\ draft'[v] = draft[v]
         /\ \A v \in DOMAIN draft' : IsPut(draft'[v].key, draft'[v].rec)
BY DEF Forget, LocalTypes

\* A drafted put is well-typed and leaves the other drafts alone.
LEMMA IntendDraft ==
  ASSUME NEW w \in Workers, LocalTypes, NEW key, NEW rec, IsPut(key, rec),
         Intend(w, key, rec)
  PROVE  /\ DOMAIN draft' \subseteq Workers
         /\ \A v \in DOMAIN draft' : IsPut(draft'[v].key, draft'[v].rec)
<1>1. draft' = Extend(draft, w, [key |-> key, rec |-> rec])
  BY DEF Intend
<1>2. \A v \in DOMAIN draft' :
        draft'[v] = IF v = w THEN [key |-> key, rec |-> rec] ELSE draft[v]
  BY <1>1 DEF Extend
<1>3. DOMAIN draft' = DOMAIN draft \cup {w}
  BY <1>1 DEF Extend
<1>4. ASSUME NEW v \in DOMAIN draft'
      PROVE  IsPut(draft'[v].key, draft'[v].rec)
  <2>1. CASE v = w
    <3>1. draft'[v] = [key |-> key, rec |-> rec]
      BY <1>2, <2>1
    <3> QED
      BY <3>1
  <2>2. CASE v # w
    <3>1. v \in DOMAIN draft /\ draft'[v] = draft[v]
      BY <1>2, <1>3, <2>2
    <3> QED
      BY <3>1 DEF LocalTypes
  <2> QED
    BY <2>1, <2>2
<1> QED
  BY <1>3, <1>4 DEF LocalTypes

\* A call that returns leaves the local state well-typed.
LEMMA ReturnTypes ==
  ASSUME NEW w \in Workers, NEW r, NEW h, LocalTypes, Return(w, r, h),
         DOMAIN h \subseteq Workers, h \in [DOMAIN h -> Handles]
  PROVE  LocalTypes'
<1>1. /\ DOMAIN draft' \subseteq Workers
      /\ \A v \in DOMAIN draft' : IsPut(draft'[v].key, draft'[v].rec)
  BY ForgetDraft DEF Return
<1>2. handle' = h
  BY DEF Return
<1>3. NoTail \in [gen : 0..MaxGen, attempt : Nat, at : Nat, dur : Nat]
  BY ConstantsAssumption DEF NoTail
<1>4. NoHint \in NoHint..MaxGen
  BY ConstantsAssumption DEF NoHint
<1>5. /\ pc' \in [Workers -> {"idle", "probe", "decide", "relist", "put",
                              "resolve", "committed"}]
      /\ op' \in [Workers -> {"none", "claim", "exhaust", "renew", "ack",
                              "nack", "bury"}]
      /\ floor' \in [Workers -> Nat]
      /\ todo' \in [Workers -> SUBSET {"receipt", "dead", "tail"}]
      /\ tail' \in [Workers -> [gen : 0..MaxGen, attempt : Nat, at : Nat,
                                dur : Nat]]
      /\ hinted' \in [Workers -> BOOLEAN]
      /\ known' \in [Workers -> NoHint..MaxGen]
  BY <1>3, <1>4 DEF Return, LocalTypes
<1> QED
  BY <1>1, <1>2, <1>5 DEF LocalTypes, Handles

\* The claim record of renew.
LEMMA RenewDraft ==
  ASSUME LocalTypes, NEW w \in DOMAIN handle, handle[w].gen < MaxGen
  PROVE  IsPut(ClaimKey(handle[w].gen + 1),
               [attempt |-> handle[w].attempt, worker |-> w,
                token |-> handle[w].token, dur |-> handle[w].dur,
                continuation |-> TRUE, basis |-> NoBasis,
                prevToken |-> handle[w].token])
<1>1. w \in Workers /\ handle[w] \in Handles
  BY DEF LocalTypes
<1>2. handle[w].gen + 1 \in Generations
  BY <1>1, ConstantsAssumption DEF Handles, Generations
<1>3. NoBasis \in [prevTime : Nat, prevDur : Nat, floor : Nat]
  BY DEF NoBasis
<1> QED
  BY <1>1, <1>2, <1>3 DEF IsPut, ClaimRecs, Handles

\* The receipt of ack and the dead record of bury.
LEMMA TerminalDrafts ==
  ASSUME LocalTypes, NEW w \in DOMAIN handle
  PROVE  /\ IsPut(ReceiptKey, [gen |-> handle[w].gen,
                               attempt |-> handle[w].attempt,
                               worker |-> w, token |-> handle[w].token])
         /\ IsPut(DeadKey, [gen |-> handle[w].gen,
                            attempt |-> handle[w].attempt,
                            reason |-> "bury"])
<1>1. w \in Workers /\ handle[w] \in Handles
  BY DEF LocalTypes
<1> QED
  BY <1>1, ConstantsAssumption DEF IsPut, ReceiptRecs, DeadRecs, Handles,
     Generations

\* The fail record of nack.
LEMMA FailDraft ==
  ASSUME now \in Nat, LocalTypes, NEW w \in DOMAIN handle, NEW f \in Floors,
         NEW b \in Backoffs
  PROVE  IsPut(FailKey(handle[w].gen),
               [attempt |-> handle[w].attempt, retry |-> f + b])
<1>1. handle[w] \in Handles
  BY DEF LocalTypes
<1>2. f \in Nat /\ b \in Nat
  BY ConstantsAssumption DEF Floors
<1> QED
  BY <1>1, <1>2 DEF IsPut, FailRecs, Handles

\* The claim record of a takeover.
LEMMA TakeoverDraft ==
  ASSUME LocalTypes, NEW w \in Workers, NEW t \in Tokens, NEW d \in Durations,
         tail[w].gen < MaxGen
  PROVE  IsPut(ClaimKey(tail[w].gen + 1),
               [attempt |-> tail[w].attempt + 1, worker |-> w,
                token |-> t, dur |-> d, continuation |-> FALSE,
                basis |-> [prevTime |-> tail[w].at, prevDur |-> tail[w].dur,
                           floor |-> floor[w]],
                prevToken |-> NoToken])
<1>1. /\ tail[w] \in [gen : 0..MaxGen, attempt : Nat, at : Nat, dur : Nat]
      /\ floor[w] \in Nat
  BY DEF LocalTypes
<1>2. tail[w].gen + 1 \in Generations
  BY <1>1, ConstantsAssumption DEF Generations
<1>3. d \in Nat
  BY ConstantsAssumption
<1> QED
  BY <1>1, <1>2, <1>3 DEF IsPut, ClaimRecs

\* The dead record of an exhausted job.
LEMMA ExhaustDraft ==
  ASSUME LocalTypes, NEW w \in Workers
  PROVE  IsPut(DeadKey, [gen |-> tail[w].gen, attempt |-> tail[w].attempt,
                         reason |-> "exhausted"])
<1>1. tail[w] \in [gen : 0..MaxGen, attempt : Nat, at : Nat, dur : Nat]
  BY DEF LocalTypes
<1> QED
  BY <1>1 DEF IsPut, DeadRecs

----------------------------------------------------------------------------
(* Facts about the store                                                   *)

\* Under a claim key the store holds a claim record.
LEMMA ClaimTypes ==
  ASSUME StoreTypes, NEW g \in Chain
  PROVE  /\ g \in Generations
         /\ ClaimKey(g) \in DOMAIN store
         /\ ClaimAt(g).rec \in ClaimRecs
         /\ ClaimAt(g).at \in Nat
         /\ ClaimAt(g).born \in Nat
<1>1. g \in Generations /\ ClaimKey(g) \in DOMAIN store
  BY DEF Chain, Present
<1>2. IsPut(ClaimKey(g), store[ClaimKey(g)].rec)
  BY <1>1 DEF StoreTypes
<1>3. store[ClaimKey(g)].rec \in ClaimRecs
  BY <1>2 DEF IsPut, ClaimKey, FailKey, ReceiptKey, DeadKey, TerminalKey
<1> QED
  BY <1>1, <1>3 DEF StoreTypes, ClaimAt

\* What a read of the chain tells a claimant is well-typed.
LEMMA EvidenceType ==
  ASSUME StoreTypes, NEW g \in Chain
  PROVE  Evidence(g) \in [gen : 0..MaxGen, attempt : Nat, at : Nat, dur : Nat]
<1>1. /\ g \in Generations
      /\ store[ClaimKey(g)].rec \in ClaimRecs
      /\ store[ClaimKey(g)].at \in Nat
  BY ClaimTypes DEF ClaimAt
<1> QED
  BY <1>1, ConstantsAssumption DEF Evidence, ClaimRecs, Generations

\* The listing returns nothing or the evidence of a generation of the chain.
LEMMA ListTailChain ==
  ASSUME Contiguous
  PROVE  ListTail = NoTail \/ \E g \in Chain : ListTail = Evidence(g)
<1>1. PICK n \in 0..MaxGen : Chain = 1..n
  BY DEF Contiguous
<1>2. CASE n = 0
  BY <1>1, <1>2 DEF ListTail
<1>3. CASE n # 0
  <2>1. n \in Chain /\ \A h \in Chain : h <= n
    BY <1>1, <1>3
  <2>2. (CHOOSE g \in Chain : \A h \in Chain : h <= g) \in Chain
    BY Zenon, <2>1
  <2> QED
    BY Zenon, <2>1, <2>2 DEF ListTail
<1> QED
  BY <1>2, <1>3

\* Objects are never changed or removed, and time does not run backwards.
Grows ==
  /\ now \in Nat
  /\ now' \in Nat
  /\ now <= now'
  /\ \A k \in DOMAIN store : k \in DOMAIN store' /\ store'[k] = store[k]

\* A generation of the chain stays there with the same object.
LEMMA ChainGrows ==
  ASSUME Grows, NEW g \in Chain
  PROVE  g \in Chain' /\ ClaimAt(g)' = ClaimAt(g)
BY DEF Grows, Chain, Present, ClaimAt

\* Evidence that was sound when drafted is sound when it is written, however
\* much later that is.
LEMMA GroundedStable ==
  ASSUME Grows, NEW g \in Generations, NEW rec \in ClaimRecs, Grounded(g, rec)
  PROVE  Grounded(g, rec)'
<1>1. CASE g > 1
  <2>1. g - 1 \in Chain
    BY <1>1 DEF Grounded
  <2>2. g - 1 \in Chain' /\ ClaimAt(g - 1)' = ClaimAt(g - 1)
    BY <2>1, ChainGrows
  <2> QED
    BY <1>1, <2>1, <2>2 DEF Grounded, Grows, ClaimRecs
<1>2. CASE ~(g > 1)
  BY <1>2 DEF Grounded, Grows, ClaimRecs
<1> QED
  BY <1>1, <1>2

\* The same for a put.
LEMMA PutStable ==
  ASSUME Grows, NEW p, IsPut(p.key, p.rec), GroundedPut(p)
  PROVE  GroundedPut(p)'
<1>1. SUFFICES ASSUME NEW g \in Generations, p.key = ClaimKey(g)
               PROVE  Grounded(g, p.rec)'
  BY DEF GroundedPut
<1>2. p.rec \in ClaimRecs
  BY <1>1 DEF IsPut, ClaimKey, FailKey, ReceiptKey, DeadKey, TerminalKey
<1>3. Grounded(g, p.rec)
  BY <1>1 DEF GroundedPut
<1> QED
  BY <1>2, <1>3, GroundedStable

\* A put-if-absent that wins its key changes no other object.
LEMMA ApplyGrows ==
  ASSUME now \in Nat, now' = now, NEW put, ~Present(put.key), Apply(put)
  PROVE  Grows
BY DEF Apply, Extend, Grows, Present

\* Time may pass without disturbing what is known about the store.
LEMMA StoreKept ==
  ASSUME Grows, StoreTypes, StoreInv, store' = store
  PROVE  StoreInv'
<1>1. Chain' = Chain /\ \A g : ClaimAt(g)' = ClaimAt(g)
  BY DEF Chain, Present, ClaimAt
<1>2. Contiguous'
  BY <1>1 DEF StoreInv, Contiguous
<1>3. \A k \in DOMAIN store' : Stamped(k)'
  BY DEF StoreInv, Stamped, Grows, StoreTypes
<1>4. ASSUME NEW g \in Chain'
      PROVE  Grounded(g, ClaimAt(g).rec)'
  <2>1. g \in Generations /\ ClaimAt(g).rec \in ClaimRecs
    BY <1>1, <1>4, ClaimTypes
  <2>2. PICK rec \in ClaimRecs : rec = ClaimAt(g).rec
    BY <2>1
  <2>3. Grounded(g, rec)
    BY <1>1, <1>4, <2>2 DEF StoreInv
  <2>4. Grounded(g, rec)'
    BY <2>1, <2>3, GroundedStable
  <2> QED
    BY <1>1, <2>2, <2>4
<1>5. Ordered'
  BY <1>1 DEF StoreInv, Ordered, LeaseEnd, Takeover
<1> QED
  BY <1>2, <1>3, <1>4, <1>5 DEF StoreInv

\* The heart of the argument: a grounded put that wins its key keeps the
\* chain contiguous, its evidence sound and its leases in order.
LEMMA ApplyInv ==
  ASSUME now \in Nat, now' = now, StoreTypes, StoreInv,
         NEW put, IsPut(put.key, put.rec), GroundedPut(put),
         ~Present(put.key), Apply(put)
  PROVE  StoreInv'
<1>1. PICK t \in IF put.key[1] = "claim" THEN Stamps ELSE {now} :
        store' = Extend(store, put.key,
                    [rec |-> put.rec, at |-> t, born |-> now,
                     depth |-> Cardinality(Chain)])
  BY DEF Apply
<1>2. t \in Nat /\ t <= now /\ now <= t + Dispersion
  BY <1>1, ConstantsAssumption DEF Stamps
<1>3. /\ DOMAIN store' = DOMAIN store \cup {put.key}
      /\ \A k \in DOMAIN store : store'[k] = store[k]
      /\ store'[put.key].rec = put.rec
      /\ store'[put.key].at = t
      /\ store'[put.key].born = now
  BY <1>1 DEF Extend, Present
<1>4. Grows
  BY ApplyGrows
<1>5. \A k \in DOMAIN store' : Stamped(k)'
  BY <1>2, <1>3 DEF StoreInv, Stamped
<1>6. CASE \A g \in Generations : put.key # ClaimKey(g)
  <2>1. Chain' = Chain
    BY <1>3, <1>6 DEF Chain, Present
  <2>2. \A g \in Chain : ClaimAt(g)' = ClaimAt(g)
    BY <1>4, ChainGrows
  <2>3. Contiguous'
    BY <2>1 DEF StoreInv, Contiguous
  <2>4. ASSUME NEW g \in Chain'
        PROVE  Grounded(g, ClaimAt(g).rec)'
    <3>1. g \in Generations /\ ClaimAt(g).rec \in ClaimRecs
      BY <2>1, <2>4, ClaimTypes
    <3>2. PICK rec \in ClaimRecs : rec = ClaimAt(g).rec
      BY <3>1
    <3>3. Grounded(g, rec)
      BY <2>1, <2>4, <3>2 DEF StoreInv
    <3>4. Grounded(g, rec)'
      BY <1>4, <3>1, <3>3, GroundedStable
    <3> QED
      BY <2>1, <2>2, <3>2, <3>4
  <2>5. Ordered'
    BY <2>1, <2>2 DEF StoreInv, Ordered, LeaseEnd, Takeover
  <2> QED
    BY <1>5, <2>3, <2>4, <2>5 DEF StoreInv
<1>7. ASSUME NEW g \in Generations, put.key = ClaimKey(g)
      PROVE  StoreInv'
  <2>1. put.rec \in ClaimRecs /\ Grounded(g, put.rec)
    BY <1>7 DEF GroundedPut, IsPut, ClaimKey, FailKey, ReceiptKey, DeadKey,
       TerminalKey
  <2>2. PICK n \in 0..MaxGen : Chain = 1..n
    BY DEF StoreInv, Contiguous
  <2>3. g = n + 1
    BY <1>7, <2>1, <2>2 DEF Chain, Present, Grounded, Generations
  <2>4. Chain' = Chain \cup {g}
    BY <1>3, <1>7 DEF Chain, Present, ClaimKey
  <2>5. Chain' = 1..g /\ g \in 0..MaxGen
    BY <1>7, <2>2, <2>3, <2>4 DEF Generations
  <2>6. \A h \in Chain : ClaimAt(h)' = ClaimAt(h)
    BY <1>4, ChainGrows
  <2>7. /\ ClaimAt(g)'.rec = put.rec
        /\ ClaimAt(g)'.at = t
        /\ ClaimAt(g)'.born = now
    BY <1>3, <1>7 DEF ClaimAt
  <2>8. Contiguous'
    BY <2>5 DEF Contiguous
  <2>9. ASSUME NEW h \in Chain'
        PROVE  Grounded(h, ClaimAt(h).rec)'
    <3>1. PICK rec \in ClaimRecs : rec = ClaimAt(h)'.rec /\ Grounded(h, rec)
      <4>1. CASE h = g
        BY <4>1, <2>1, <2>7
      <4>2. CASE h # g
        <5>1. h \in Chain
          BY <4>2, <2>4, <2>9
        <5> QED
          BY <5>1, <2>6, ClaimTypes DEF StoreInv
      <4> QED
        BY <4>1, <4>2
    <3>2. h \in Generations
      BY <2>5, <2>9, <1>7, ConstantsAssumption DEF Generations
    <3>3. Grounded(h, rec)'
      BY <1>4, <3>1, <3>2, GroundedStable
    <3> QED
      BY <3>1, <3>3
  <2>10. g > 1 => /\ LeaseEnd(g - 1) <= now + put.rec.dur
                  /\ ~put.rec.continuation => LeaseEnd(g - 1) <= now
    <3>1. SUFFICES ASSUME g > 1
                   PROVE  /\ LeaseEnd(g - 1) <= now + put.rec.dur
                          /\ ~put.rec.continuation => LeaseEnd(g - 1) <= now
      OBVIOUS
    <3>2. g - 1 \in Chain
      BY <2>1, <3>1 DEF Grounded
    <3>3. /\ ClaimAt(g - 1).rec.dur \in Nat
          /\ ClaimAt(g - 1).at \in Nat
          /\ ClaimAt(g - 1).born \in Nat
          /\ put.rec.dur \in Nat
          /\ put.rec.basis.floor \in Nat
          /\ put.rec.continuation \in BOOLEAN
      BY <2>1, <3>2, ClaimTypes DEF ClaimRecs
    <3>4. /\ ClaimAt(g - 1).born <= ClaimAt(g - 1).at + Dispersion
          /\ ClaimAt(g - 1).born <= now
      BY <3>2, ClaimTypes DEF StoreInv, Stamped, ClaimAt
    <3>5. CASE put.rec.continuation
      BY <2>1, <3>1, <3>3, <3>4, <3>5 DEF Grounded, LeaseEnd
    <3>6. CASE ~put.rec.continuation
      BY <2>1, <3>1, <3>3, <3>4, <3>6, SkewGuardAssumption,
         ConstantsAssumption DEF Grounded, LeaseEnd
    <3> QED
      BY <3>5, <3>6
  <2>11. Ordered'
    <3>1. SUFFICES ASSUME NEW a \in Chain', NEW b \in Chain', a < b
                   PROVE  /\ (LeaseEnd(a) <= LeaseEnd(b))'
                          /\ (Takeover(b) => LeaseEnd(a) <= ClaimAt(b).born)'
      BY DEF Ordered
    <3>2. a \in Chain
      BY <2>2, <2>3, <2>5, <3>1
    <3>3. CASE b \in Chain
      BY <2>6, <3>1, <3>2, <3>3 DEF StoreInv, Ordered, LeaseEnd, Takeover
    <3>4. CASE b = g
      <4>1. g > 1 /\ g - 1 \in Chain /\ a <= g - 1
        BY <2>2, <2>3, <3>1, <3>2, <3>4
      <4>2. LeaseEnd(a) <= LeaseEnd(g - 1)
        <5>1. CASE a = g - 1
          <6>1. ClaimAt(a).born \in Nat /\ ClaimAt(a).rec.dur \in Nat
            BY <3>2, ClaimTypes DEF ClaimRecs
          <6> QED
            BY <5>1, <6>1 DEF LeaseEnd
        <5>2. CASE a # g - 1
          <6>1. a < g - 1
            BY <4>1, <5>2, <2>2, <3>2
          <6> QED
            BY <6>1, <3>2, <4>1 DEF StoreInv, Ordered
        <5> QED
          BY <5>1, <5>2
      <4>3. /\ LeaseEnd(a)' = LeaseEnd(a)
            /\ LeaseEnd(b)' = now + put.rec.dur
            /\ Takeover(b)' <=> ~put.rec.continuation
            /\ ClaimAt(b)'.born = now
        BY <2>6, <2>7, <3>2, <3>4 DEF LeaseEnd, Takeover
      <4>4. /\ ClaimAt(a).born \in Nat /\ ClaimAt(a).rec.dur \in Nat
            /\ ClaimAt(g - 1).born \in Nat /\ ClaimAt(g - 1).rec.dur \in Nat
            /\ put.rec.dur \in Nat
        BY <2>1, <3>2, <4>1, ClaimTypes DEF ClaimRecs
      <4>5. LeaseEnd(a) \in Nat /\ LeaseEnd(g - 1) \in Nat
        BY <4>4 DEF LeaseEnd
      <4> QED
        <5>1. (LeaseEnd(a) <= LeaseEnd(b))'
          BY <2>10, <4>1, <4>2, <4>3, <4>4, <4>5
        <5>2. (Takeover(b) => LeaseEnd(a) <= ClaimAt(b).born)'
          BY <2>10, <4>1, <4>2, <4>3, <4>4, <4>5
        <5> QED
          BY <5>1, <5>2
    <3> QED
      BY <2>4, <3>1, <3>3, <3>4
  <2> QED
    BY <1>5, <2>8, <2>9, <2>11 DEF StoreInv
<1> QED
  BY <1>6, <1>7

----------------------------------------------------------------------------
(* What a worker knows stays true                                          *)

\* Nothing of worker v that the invariant speaks of changes.
SameHandle(v) ==
  /\ v \in DOMAIN handle' <=> v \in DOMAIN handle
  /\ v \in DOMAIN handle => handle'[v] = handle[v]

SameDraft(v) ==
  /\ v \in DOMAIN draft' <=> v \in DOMAIN draft
  /\ v \in DOMAIN draft => draft'[v] = draft[v]

Frame(v) ==
  /\ pc'[v] = pc[v] /\ op'[v] = op[v]
  /\ floor'[v] = floor[v] /\ tail'[v] = tail[v]
  /\ SameHandle(v)
  /\ SameDraft(v)

\* Evidence once read stays true, as the store only grows.
LEMMA TailKept ==
  ASSUME Grows, NEW w \in Workers, TailOK(w), tail'[w] = tail[w]
  PROVE  TailOK(w)'
<1>1. SUFFICES ASSUME tail[w].gen > 0
               PROVE  TailOK(w)'
  BY DEF TailOK
<1>2. tail[w].gen \in Chain
  BY <1>1 DEF TailOK
<1>3. PICK g : g = tail[w].gen
  OBVIOUS
<1>4. g \in Chain' /\ ClaimAt(g)' = ClaimAt(g)
  BY <1>2, <1>3, ChainGrows
<1> QED
  BY <1>1, <1>3, <1>4 DEF TailOK

\* A handle that was the record its holder wrote remains so.
LEMMA HandleKept ==
  ASSUME Grows, NEW w \in Workers, HandleOK(w), SameHandle(w)
  PROVE  HandleOK(w)'
<1>1. SUFFICES ASSUME w \in DOMAIN handle
               PROVE  HandleOK(w)'
  BY DEF HandleOK, SameHandle
<1>2. handle[w].gen \in Chain
  BY <1>1 DEF HandleOK
<1>3. PICK g : g = handle[w].gen
  OBVIOUS
<1>4. g \in Chain' /\ ClaimAt(g)' = ClaimAt(g)
  BY <1>2, <1>3, ChainGrows
<1> QED
  BY <1>1, <1>3, <1>4 DEF HandleOK, SameHandle

\* A grounded draft stays grounded, and a committed one stays committed.
LEMMA DraftKept ==
  ASSUME Grows, NEW w \in DOMAIN draft, IsPut(draft[w].key, draft[w].rec),
         DraftOK(w), SameDraft(w)
  PROVE  /\ w \in DOMAIN draft'
         /\ GroundedPut(draft[w])'
         /\ \A g \in Generations : draft'[w].key = ClaimKey(g) =>
              draft'[w].rec.worker = w
         /\ (\E g \in Generations : draft[w].key = ClaimKey(g)) =>
              \E g \in Generations : draft'[w].key = ClaimKey(g)
         /\ Present(draft[w].key) /\ store[draft[w].key].rec = draft[w].rec =>
              /\ Present(draft[w].key)'
              /\ store'[draft'[w].key].rec = draft'[w].rec
<1>1. PICK p : p = draft[w]
  OBVIOUS
<1>2. draft'[w] = p /\ w \in DOMAIN draft'
  BY <1>1 DEF SameDraft
<1>3. GroundedPut(p)
  BY <1>1 DEF DraftOK
<1>4. GroundedPut(p)'
  BY <1>1, <1>3, PutStable
<1>5. Present(p.key) => Present(p.key)' /\ store'[p.key] = store[p.key]
  BY DEF Grows, Present
<1> QED
  BY <1>1, <1>2, <1>4, <1>5 DEF DraftOK, GroundedPut

============================================================================
