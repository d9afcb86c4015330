------------------------------ MODULE Custody ------------------------------
(***************************************************************************)
(* Custody of one job: the claim chain and the terminal records, as the    *)
(* protocol core (crates/stowq-core/src/lib.rs) writes them through an     *)
(* object store that offers put-if-absent, get, head and list.             *)
(*                                                                         *)
(* Workers interleave at every store operation.  A worker runs one call at *)
(* a time (claim, renew, ack, nack, bury); a call is a few reads followed  *)
(* by one conditional put that put_resolving drives to an outcome.  Reads  *)
(* of immutable objects whose presence is already known are merged with    *)
(* the step that learnt of them.                                           *)
(*                                                                         *)
(* Time.  `now' is true store time; an object is stamped with any instant  *)
(* in Stamps (the store's granularity and clock dispersion), and a caller  *)
(* brings a wall floor from Floors.  The fields `born' and `depth' of an   *)
(* object are history: true time and chain length when it was created.     *)
(***************************************************************************)
EXTENDS Integers, FiniteSets

CONSTANTS
  Workers,          \* tasks that claim and deliver; each has a worker_id
  Calls,            \* what a holder does with a claim in this instance
  Tokens,           \* naturals standing for the 128-bit worker tokens
  MaximumAttempts,  \* job.maximum_attempts
  MaxGen,           \* the generation space (u32::MAX in the code)
  Durations,        \* lease durations a claimant may ask for
  Backoffs,         \* delays the retry policy may return
  NotBefore,        \* job.not_before_ns, 0 for none
  SkewGuard,        \* opts.skew_guard_ns
  Dispersion,       \* how far a stamp may lag true store time
  Staleness,        \* how long a caller may reuse a floor
  Hints,            \* feature bit 2: advisory tail hints
  MaxLate,          \* bound: writes delayed in the network at one time
  MaxTime           \* bound: true store time

ASSUME ConstantsAssumption ==
  /\ Calls \subseteq {"renew", "ack", "nack", "bury"}
  /\ Tokens \subseteq Nat
  /\ MaximumAttempts \in Nat \ {0}
  /\ MaxGen \in Nat \ {0}
  /\ Durations \subseteq Nat
  /\ Backoffs \subseteq Nat
  /\ NotBefore \in Nat
  /\ SkewGuard \in Nat
  /\ Dispersion \in Nat
  /\ Staleness \in Nat
  /\ Hints \in BOOLEAN
  /\ MaxLate \in Nat
  /\ MaxTime \in Nat

\* "skew_guard >= G": the deployment rule of spec/time.md.
ASSUME SkewGuardAssumption == SkewGuard >= Dispersion

VARIABLES
  now,      \* true store time
  store,    \* the objects of the job: a function on the keys present
  hint,     \* tails/<job>: NoHint, 0 for a corrupt body, else a generation
  late,     \* writes whose sender saw no answer and that may still land
  pc,       \* pc[w]: where worker w is in its call
  op,       \* op[w]: the call
  floor,    \* floor[w]: the wall floor the call works with
  todo,     \* todo[w]: the reads of the call still to be done
  tail,     \* tail[w]: the tail evidence a claim has gathered
  hinted,   \* hinted[w]: hint_used
  known,    \* known[w]: version of the hint object a claim has seen
  draft,    \* draft[w]: the conditional put the call is going to issue
  handle,   \* handle[w]: the Claim value w holds (partial function)
  result    \* result[w]: what w's last call returned

vars == <<now, store, hint, late, pc, op, floor, todo, tail, hinted, known,
          draft, handle, result>>

----------------------------------------------------------------------------
(* Keys, records and the store                                             *)

Generations == 1..MaxGen

ClaimKey(g) == <<"claim", g>>
FailKey(g) == <<"fail", g>>
TerminalKey(kind) == <<kind, 0>>
ReceiptKey == TerminalKey("receipt")
DeadKey == TerminalKey("dead")

Present(k) == k \in DOMAIN store
Chain == {g \in Generations : Present(ClaimKey(g))}
Terminal == Present(ReceiptKey) \/ Present(DeadKey)

\* Partial-function update and removal.
Extend(f, k, v) == [x \in DOMAIN f \cup {k} |-> IF x = k THEN v ELSE f[x]]
Forget(f, k) == [x \in DOMAIN f \ {k} |-> f[x]]

\* Store-assigned times an object written now may carry.
Stamps == {t \in 0..now : now <= t + Dispersion}

\* Wall floors a caller may hold now: the stamp of a beacon, perhaps an old
\* one (module Watermark establishes that no floor is ahead of store time).
Floors == {f \in 0..now : now <= f + Dispersion + Staleness}

\* A conditional put that the store applies at this instant.  The protocol
\* reads the stamps of claims only.
Apply(put) ==
  \E t \in IF put.key[1] = "claim" THEN Stamps ELSE {now} :
    store' = Extend(store, put.key,
                    [rec |-> put.rec, at |-> t, born |-> now,
                     depth |-> Cardinality(Chain)])

NoHint == -1
NoTail == [gen |-> 0, attempt |-> 0, at |-> 0, dur |-> 0]
NoBasis == [prevTime |-> 0, prevDur |-> 0, floor |-> 0]
NoToken == -1

\* What reading generation g tells a claimant.
Evidence(g) ==
  LET c == store[ClaimKey(g)]
  IN [gen |-> g, attempt |-> c.rec.attempt, at |-> c.at, dur |-> c.rec.dur]

\* list_tail: the highest generation under the claims prefix.
ListTail ==
  IF Chain = {} THEN NoTail
  ELSE Evidence(CHOOSE g \in Chain : \A h \in Chain : h <= g)

\* fresh_token: a token nobody has used.  Tokens are compared for equality
\* only, so the least unused one stands for any.
TokensInUse ==
  {store[ClaimKey(g)].rec.token : g \in Chain}
    \cup {handle[w].token : w \in DOMAIN handle}
    \cup {p.rec.token : p \in {q \in late : q.key[1] = "claim"}}
    \cup {draft[w].rec.token :
            w \in {v \in DOMAIN draft : draft[v].key[1] = "claim"}}

IsFresh(t) ==
  /\ t \notin TokensInUse
  /\ \A u \in Tokens \ TokensInUse : t <= u

----------------------------------------------------------------------------
(* Calls: how one begins and how it returns                                *)

\* The call of w is under way: `reads' are still to be done.
Begin(w, call, reads) ==
  /\ pc' = [pc EXCEPT ![w] = IF reads = {} THEN "put" ELSE "probe"]
  /\ op' = [op EXCEPT ![w] = call]
  /\ todo' = [todo EXCEPT ![w] = reads]
  /\ result' = [result EXCEPT ![w] = "busy"]

\* The call of w returns r and leaves it with the handles h.
Return(w, r, h) ==
  /\ pc' = [pc EXCEPT ![w] = "idle"]
  /\ op' = [op EXCEPT ![w] = "none"]
  /\ floor' = [floor EXCEPT ![w] = 0]
  /\ todo' = [todo EXCEPT ![w] = {}]
  /\ tail' = [tail EXCEPT ![w] = NoTail]
  /\ hinted' = [hinted EXCEPT ![w] = FALSE]
  /\ known' = [known EXCEPT ![w] = NoHint]
  /\ draft' = Forget(draft, w)
  /\ handle' = h
  /\ result' = [result EXCEPT ![w] = r]

\* The put of w is about `key' and writes `rec'.
Intend(w, key, rec) == draft' = Extend(draft, w, [key |-> key, rec |-> rec])

\* Worker w, holding a claim, makes a call whose first operation is the
\* HEAD of a terminal record: it returns r if that is present.
Guarded(w, kind, r, call, reads, key, rec) ==
  /\ pc[w] = "idle"
  /\ call \in Calls
  /\ w \in DOMAIN handle
  /\ IF Present(TerminalKey(kind))
     THEN Return(w, r, Forget(handle, w))
     ELSE /\ Begin(w, call, reads)
          /\ Intend(w, key, rec)
          /\ UNCHANGED <<floor, tail, hinted, known, handle>>
  /\ UNCHANGED <<now, store, hint, late>>

StartClaim(w) ==
  /\ pc[w] = "idle"
  /\ w \notin DOMAIN handle
  /\ Begin(w, "claim", {"receipt", "dead", "tail"})
  /\ \E f \in Floors : floor' = [floor EXCEPT ![w] = f]
  /\ UNCHANGED <<now, store, hint, late, tail, hinted, known, draft, handle>>

\* Deviations of renew: the generation-space check is missing; the dead
\* record is not probed.
RenewUnbounded(w) ==
  Guarded(w, "receipt", "leaseLost", "renew", {"dead"},
          ClaimKey(handle[w].gen + 1),
          [attempt |-> handle[w].attempt, worker |-> w,
           token |-> handle[w].token, dur |-> handle[w].dur,
           continuation |-> TRUE, basis |-> NoBasis,
           prevToken |-> handle[w].token])

RenewUnprobed(w) ==
  /\ w \in DOMAIN handle
  /\ handle[w].gen < MaxGen
  /\ Guarded(w, "receipt", "leaseLost", "renew", {},
             ClaimKey(handle[w].gen + 1),
             [attempt |-> handle[w].attempt, worker |-> w,
              token |-> handle[w].token, dur |-> handle[w].dur,
              continuation |-> TRUE, basis |-> NoBasis,
              prevToken |-> handle[w].token])

Renew(w) ==
  /\ w \in DOMAIN handle
  /\ handle[w].gen < MaxGen
  /\ Guarded(w, "receipt", "leaseLost", "renew", {"dead"},
             ClaimKey(handle[w].gen + 1),
             [attempt |-> handle[w].attempt, worker |-> w,
              token |-> handle[w].token, dur |-> handle[w].dur,
              continuation |-> TRUE, basis |-> NoBasis,
              prevToken |-> handle[w].token])

Ack(w) ==
  Guarded(w, "dead", "supersededByDead", "ack", {}, ReceiptKey,
          [gen |-> handle[w].gen, attempt |-> handle[w].attempt,
           worker |-> w, token |-> handle[w].token])

Bury(w) ==
  Guarded(w, "receipt", "supersededByReceipt", "bury", {}, DeadKey,
          [gen |-> handle[w].gen, attempt |-> handle[w].attempt,
           reason |-> "bury"])

Nack(w) ==
  /\ pc[w] = "idle"
  /\ "nack" \in Calls
  /\ w \in DOMAIN handle
  /\ Begin(w, "nack", {})
  /\ \E f \in Floors, b \in Backoffs :
       Intend(w, FailKey(handle[w].gen),
              [attempt |-> handle[w].attempt, retry |-> f + b])
  /\ UNCHANGED <<now, store, hint, late, floor, tail, hinted, known, handle>>

----------------------------------------------------------------------------
(* Reads                                                                   *)

\* A read is done; the last one moves the call on.
Done(w, read) ==
  /\ todo' = [todo EXCEPT ![w] = @ \ {read}]
  /\ pc' = [pc EXCEPT ![w] = IF todo[w] # {read} THEN "probe"
                             ELSE IF op[w] = "claim" THEN "decide" ELSE "put"]

\* HEAD of a terminal record: a claim issues its reads together, so they
\* take effect in any order; the second read of a renewal is the dead record.
Probe(w, kind) ==
  /\ pc[w] = "probe"
  /\ kind \in todo[w]
  /\ IF Present(TerminalKey(kind))
     THEN Return(w, IF op[w] = "claim" THEN "empty" ELSE "leaseLost",
                 Forget(handle, w))
     ELSE /\ Done(w, kind)
          /\ UNCHANGED <<op, floor, tail, hinted, known, draft, handle, result>>
  /\ UNCHANGED <<now, store, hint, late>>

\* Tail discovery: the hinted generation if the hint names one that exists,
\* the listing otherwise.
DiscoverTail(w) ==
  /\ pc[w] = "probe"
  /\ "tail" \in todo[w]
  /\ Done(w, "tail")
  /\ LET usable == Hints /\ hint \in Chain
     IN /\ hinted' = [hinted EXCEPT ![w] = usable]
        /\ tail' = [tail EXCEPT ![w] = IF usable THEN Evidence(hint)
                                       ELSE ListTail]
  /\ known' = [known EXCEPT ![w] = hint]
  /\ UNCHANGED <<now, store, hint, late, op, floor, draft, handle, result>>

\* The claim loop starts over on the authoritative listing.
Relist(w) ==
  /\ pc[w] = "relist"
  /\ pc' = [pc EXCEPT ![w] = "decide"]
  /\ tail' = [tail EXCEPT ![w] = ListTail]
  /\ hinted' = [hinted EXCEPT ![w] = FALSE]
  /\ UNCHANGED <<now, store, hint, late, op, floor, todo, known, draft,
                 handle, result>>

----------------------------------------------------------------------------
(* The claim decision (the loop body of try_claim)                         *)

\* Deviation of the expiry test: the duration is forgotten.
ExpiredAtOnce(w) ==
  tail[w].gen = 0 \/ floor[w] >= tail[w].at + SkewGuard

\* expired: the tail's lease, plus the skew guard, is behind the floor.
Expired(w) ==
  \/ tail[w].gen = 0
  \/ floor[w] >= tail[w].at + tail[w].dur + SkewGuard

\* Deviation of the backoff gate: one tick too early.
BackedOffShort(w) ==
  /\ Present(FailKey(tail[w].gen))
  /\ floor[w] + 1 < store[FailKey(tail[w].gen)].rec.retry

\* A fail record of the tail generation gates readiness.
BackedOff(w) ==
  /\ Present(FailKey(tail[w].gen))
  /\ floor[w] < store[FailKey(tail[w].gen)].rec.retry

Ready(w) == ~BackedOff(w) /\ Expired(w) /\ floor[w] >= NotBefore

\* Deviations of the attempt limit: off by one either way.
ExhaustedLate(w) == tail[w].attempt > MaximumAttempts

ExhaustedEarly(w) == tail[w].gen > 0 /\ tail[w].attempt + 1 >= MaximumAttempts

Exhausted(w) == tail[w].attempt + 1 > MaximumAttempts

ClaimNotReady(w) ==
  /\ pc[w] = "decide"
  /\ ~Ready(w)
  /\ Return(w, "empty", handle)
  /\ UNCHANGED <<now, store, hint, late>>

\* A hint is not evidence enough to write a terminal record on.
ClaimRecheck(w) ==
  /\ pc[w] = "decide"
  /\ Ready(w)
  /\ Exhausted(w)
  /\ hinted[w]
  /\ pc' = [pc EXCEPT ![w] = "relist"]
  /\ UNCHANGED <<now, store, hint, late, op, floor, todo, tail, hinted, known,
                 draft, handle, result>>

\* Deviation of exhaustion: the dead record is not written.
ClaimExhaustSilent(w) ==
  /\ pc[w] = "decide"
  /\ Ready(w)
  /\ Exhausted(w)
  /\ ~hinted[w]
  /\ Return(w, "empty", handle)
  /\ UNCHANGED <<now, store, hint, late>>

ClaimExhaust(w) ==
  /\ pc[w] = "decide"
  /\ Ready(w)
  /\ Exhausted(w)
  /\ ~hinted[w]
  /\ pc' = [pc EXCEPT ![w] = "put"]
  /\ op' = [op EXCEPT ![w] = "exhaust"]
  /\ Intend(w, DeadKey, [gen |-> tail[w].gen, attempt |-> tail[w].attempt,
                         reason |-> "exhausted"])
  /\ UNCHANGED <<now, store, hint, late, floor, todo, tail, hinted, known,
                 handle, result>>

\* "generation space exhausted"
ClaimNoGeneration(w) ==
  /\ pc[w] = "decide"
  /\ Ready(w)
  /\ ~Exhausted(w)
  /\ tail[w].gen >= MaxGen
  /\ Return(w, "noGeneration", handle)
  /\ UNCHANGED <<now, store, hint, late>>

ClaimTakeover(w) ==
  /\ pc[w] = "decide"
  /\ Ready(w)
  /\ ~Exhausted(w)
  /\ tail[w].gen < MaxGen
  /\ \E t \in Tokens, d \in Durations :
       /\ IsFresh(t)
       /\ Intend(w, ClaimKey(tail[w].gen + 1),
                 [attempt |-> tail[w].attempt + 1, worker |-> w,
                  token |-> t, dur |-> d, continuation |-> FALSE,
                  basis |-> [prevTime |-> tail[w].at,
                             prevDur |-> tail[w].dur,
                             floor |-> floor[w]],
                  prevToken |-> NoToken])
  /\ pc' = [pc EXCEPT ![w] = "put"]
  /\ UNCHANGED <<now, store, hint, late, op, floor, todo, tail, hinted, known,
                 handle, result>>

----------------------------------------------------------------------------
(* put_resolving and what each call makes of its outcome                   *)

Committed(w) ==
  \/ /\ op[w] \in {"claim", "renew"}
     /\ pc' = [pc EXCEPT ![w] = "committed"]
     /\ UNCHANGED <<op, floor, todo, tail, hinted, known, draft, handle, result>>
  \/ op[w] = "exhaust" /\ Return(w, "empty", handle)
  \/ op[w] = "ack" /\ Return(w, "acked", Forget(handle, w))
  \/ op[w] = "nack" /\ Return(w, "nacked", Forget(handle, w))
  \/ op[w] = "bury" /\ Return(w, "buried", Forget(handle, w))

\* Deviation of the idempotence check: any record of the kind will do.
AnyEvidence(w) == Present(draft[w].key)

\* The terminal record that beat w's carries the evidence of w's claim.
SameEvidence(w) ==
  LET r == store[draft[w].key].rec
  IN r.gen = handle[w].gen /\ r.attempt = handle[w].attempt

Lost(w) ==
  \/ /\ op[w] = "claim" /\ hinted[w]
     /\ pc' = [pc EXCEPT ![w] = "relist"]
     /\ draft' = Forget(draft, w)
     /\ UNCHANGED <<op, floor, todo, tail, hinted, known, handle, result>>
  \/ op[w] = "claim" /\ ~hinted[w] /\ Return(w, "empty", handle)
  \/ op[w] = "exhaust" /\ Return(w, "empty", handle)
  \/ op[w] = "renew" /\ Return(w, "leaseLost", Forget(handle, w))
  \/ op[w] = "nack" /\ Return(w, "nacked", Forget(handle, w))
  \/ /\ op[w] = "ack" /\ SameEvidence(w)
     /\ Return(w, "alreadyAcked", Forget(handle, w))
  \/ /\ op[w] = "bury" /\ SameEvidence(w)
     /\ Return(w, "buried", Forget(handle, w))
  \/ /\ op[w] \in {"ack", "bury"} /\ ~SameEvidence(w)
     /\ Return(w, "evidenceMismatch", handle)

PutCommitted(w) ==
  /\ pc[w] = "put"
  /\ ~Present(draft[w].key)
  /\ Apply(draft[w])
  /\ Committed(w)
  /\ UNCHANGED <<now, hint, late>>

PutRejected(w) ==
  /\ pc[w] = "put"
  /\ Present(draft[w].key)
  /\ Lost(w)
  /\ UNCHANGED <<now, store, hint, late>>

\* OutcomeUnknown: the write was applied and the answer lost, or the write
\* never reached the store, or it is still on its way.
PutUnanswered(w) ==
  /\ pc[w] = "put"
  /\ pc' = [pc EXCEPT ![w] = "resolve"]
  /\ \/ ~Present(draft[w].key) /\ Apply(draft[w]) /\ UNCHANGED late
     \/ UNCHANGED <<store, late>>
     \/ /\ Cardinality(late) < MaxLate
        /\ late' = late \cup {draft[w]}
        /\ UNCHANGED store
  /\ UNCHANGED <<now, hint, op, floor, todo, tail, hinted, known, draft,
                 handle, result>>

\* Deviation of the resolver: present is taken for committed.
ResolvePresent(w) ==
  /\ pc[w] = "resolve"
  /\ \/ /\ ~Present(draft[w].key)
        /\ pc' = [pc EXCEPT ![w] = "put"]
        /\ UNCHANGED <<op, floor, todo, tail, hinted, known, draft, handle,
                       result>>
     \/ Present(draft[w].key) /\ Committed(w)
  /\ UNCHANGED <<now, store, hint, late>>

\* resolve_unknown: absent means try again, present means compare.
Resolve(w) ==
  /\ pc[w] = "resolve"
  /\ \/ /\ ~Present(draft[w].key)
        /\ pc' = [pc EXCEPT ![w] = "put"]
        /\ UNCHANGED <<op, floor, todo, tail, hinted, known, draft, handle,
                       result>>
     \/ /\ Present(draft[w].key)
        /\ store[draft[w].key].rec = draft[w].rec
        /\ Committed(w)
     \/ /\ Present(draft[w].key)
        /\ store[draft[w].key].rec # draft[w].rec
        /\ Lost(w)
  /\ UNCHANGED <<now, store, hint, late>>

\* The tail hint is written on a best-effort basis: a claim writes against
\* the version it gathered, a renewal re-reads the hint first.
RefreshHint(w) ==
  LET g == draft[w].key[2]
  IN hint' = IF /\ Hints
                /\ IF op[w] = "claim" THEN hint = known[w] ELSE hint < g
             THEN g ELSE hint

\* After the commit: read the claim's metadata back, refresh the hint, hand
\* the claim to the caller.
Settle(w) ==
  /\ pc[w] = "committed"
  /\ RefreshHint(w) \/ UNCHANGED hint
  /\ LET rec == draft[w].rec
     IN Return(w, IF op[w] = "claim" THEN "claimed" ELSE "renewed",
               Extend(handle, w,
                      [gen |-> draft[w].key[2], attempt |-> rec.attempt,
                       token |-> rec.token, dur |-> rec.dur]))
  /\ UNCHANGED <<now, store, late>>

----------------------------------------------------------------------------
(* Failures and the environment                                            *)

\* An operation budget runs out, the transport retries are used up, or a
\* read fails: the call returns an error.  The caller keeps a handle it had.
GiveUp(w) ==
  /\ pc[w] # "idle"
  /\ Return(w, "error", handle)
  /\ UNCHANGED <<now, store, hint, late>>

\* The process dies and restarts without its handles.
Crash(w) ==
  /\ pc[w] # "idle" \/ w \in DOMAIN handle
  /\ Return(w, "none", Forget(handle, w))
  /\ UNCHANGED <<now, store, hint, late>>

\* A delayed write reaches the store.
LandLate ==
  /\ \E put \in late :
       /\ late' = late \ {put}
       /\ IF Present(put.key) THEN UNCHANGED store ELSE Apply(put)
  /\ UNCHANGED <<now, hint, pc, op, floor, todo, tail, hinted, known, draft,
                 handle, result>>

\* Hints are advisory: one may be lost, restored from the past, or garbage.
HintFault ==
  /\ Hints
  /\ hint' \in (NoHint..MaxGen) \ {hint}
  /\ UNCHANGED <<now, store, late, pc, op, floor, todo, tail, hinted, known,
                 draft, handle, result>>

\* The instants a guard may still compare a floor with.  Time advances past
\* all of them and then rests until a write adds another one; it also rests
\* once the job is terminal, since every later claim is refused by its probes
\* whatever its floor.
Deadlines ==
  {NotBefore}
    \cup {store[ClaimKey(g)].at + store[ClaimKey(g)].rec.dur + SkewGuard :
            g \in Chain}
    \cup {store[FailKey(g)].rec.retry :
            g \in {h \in Generations : Present(FailKey(h))}}

Tick ==
  /\ ~Terminal
  /\ now < MaxTime
  /\ \E d \in Deadlines : now < d + Dispersion + Staleness
  /\ now' = now + 1
  /\ UNCHANGED <<store, hint, late, pc, op, floor, todo, tail, hinted, known,
                 draft, handle, result>>

----------------------------------------------------------------------------
Init ==
  /\ now = 0
  /\ store = [k \in {} |-> 0]
  /\ hint = NoHint
  /\ late = {}
  /\ pc = [w \in Workers |-> "idle"]
  /\ op = [w \in Workers |-> "none"]
  /\ floor = [w \in Workers |-> 0]
  /\ todo = [w \in Workers |-> {}]
  /\ tail = [w \in Workers |-> NoTail]
  /\ hinted = [w \in Workers |-> FALSE]
  /\ known = [w \in Workers |-> NoHint]
  /\ draft = [w \in {} |-> 0]
  /\ handle = [w \in {} |-> 0]
  /\ result = [w \in Workers |-> "none"]

Start(w) ==
  \/ StartClaim(w)
  \/ Renew(w) \/ Ack(w) \/ Nack(w) \/ Bury(w)

Read(w) ==
  \/ \E kind \in {"receipt", "dead"} : Probe(w, kind)
  \/ DiscoverTail(w)
  \/ Relist(w)

Decide(w) ==
  \/ ClaimNotReady(w) \/ ClaimRecheck(w) \/ ClaimExhaust(w)
  \/ ClaimNoGeneration(w) \/ ClaimTakeover(w)

Write(w) ==
  \/ PutCommitted(w) \/ PutRejected(w) \/ PutUnanswered(w)
  \/ Resolve(w) \/ Settle(w)

Fault(w) == GiveUp(w) \/ Crash(w)

Next ==
  \/ \E w \in Workers : Start(w) \/ Read(w) \/ Decide(w) \/ Write(w) \/ Fault(w)
  \/ LandLate
  \/ HintFault
  \/ Tick

Spec == Init /\ [][Next]_vars

----------------------------------------------------------------------------
(* Properties                                                              *)

ClaimRecs ==
  [attempt : Nat, worker : Workers, token : Tokens, dur : Nat,
   continuation : BOOLEAN, basis : [prevTime : Nat, prevDur : Nat, floor : Nat],
   prevToken : Tokens \cup {NoToken}]
FailRecs == [attempt : Nat, retry : Nat]
ReceiptRecs == [gen : Generations, attempt : Nat, worker : Workers, token : Tokens]
DeadRecs == [gen : 0..MaxGen, attempt : Nat, reason : {"bury", "exhausted"}]

\* A put is a key together with a record of the kind that lives under it.
IsPut(key, rec) ==
  \/ \E g \in Generations : key = ClaimKey(g) /\ rec \in ClaimRecs
  \/ \E g \in Generations : key = FailKey(g) /\ rec \in FailRecs
  \/ key = ReceiptKey /\ rec \in ReceiptRecs
  \/ key = DeadKey /\ rec \in DeadRecs

\* The shape of the state.
TypeOK ==
  /\ now \in Nat
  /\ \A k \in DOMAIN store :
       /\ IsPut(k, store[k].rec)
       /\ store[k].at \in Nat /\ store[k].born \in Nat /\ store[k].depth \in Nat
  /\ hint \in NoHint..MaxGen
  /\ \A p \in late : IsPut(p.key, p.rec)
  /\ pc \in [Workers -> {"idle", "probe", "decide", "relist", "put", "resolve",
                         "committed"}]
  /\ op \in [Workers -> {"none", "claim", "exhaust", "renew", "ack", "nack",
                         "bury"}]
  /\ floor \in [Workers -> Nat]
  /\ todo \in [Workers -> SUBSET {"receipt", "dead", "tail"}]
  /\ tail \in [Workers -> [gen : 0..MaxGen, attempt : Nat, at : Nat, dur : Nat]]
  /\ hinted \in [Workers -> BOOLEAN]
  /\ known \in [Workers -> NoHint..MaxGen]
  /\ DOMAIN draft \subseteq Workers
  /\ \A w \in DOMAIN draft : IsPut(draft[w].key, draft[w].rec)
  /\ DOMAIN handle \subseteq Workers
  /\ handle \in [DOMAIN handle -> [gen : Generations, attempt : Nat,
                                    token : Tokens, dur : Nat]]

ClaimAt(g) == store[ClaimKey(g)]
Takeover(g) == ~ClaimAt(g).rec.continuation
LeaseEnd(g) == ClaimAt(g).born + ClaimAt(g).rec.dur

\* Lease exclusion: when a takeover is created, the lease of every earlier
\* generation has ended in true store time, whatever the stamps, the floor's
\* age, the hint, lost answers and late writes (expiry test of try_claim).
LeaseExclusion ==
  \A g, h \in Chain : g < h /\ Takeover(h) => LeaseEnd(g) <= ClaimAt(h).born

\* audit_claim_chain: the generations it reports as missing, and those whose
\* evidence does not match the generation before.
ChainGaps == {g \in Generations : g \notin Chain /\ \E h \in Chain : g < h}

Inadmissible(g) ==
  LET rec == ClaimAt(g).rec
      prev == ClaimAt(g - 1)
  IN IF rec.continuation
     THEN ~(rec.worker = prev.rec.worker /\ rec.prevToken = prev.rec.token)
     ELSE ~(/\ rec.basis.prevTime = prev.at
            /\ rec.basis.prevDur = prev.rec.dur
            /\ rec.basis.prevTime + rec.basis.prevDur <= rec.basis.floor)

\* The repair scan's audit finds nothing wrong with any chain that claim and
\* renew can produce: no gap, and every generation admissible.
AuditClean ==
  /\ ChainGaps = {}
  /\ \A g \in Chain : g - 1 \in Chain => ~Inadmissible(g)

Takeovers(g) == {h \in Chain : h <= g /\ Takeover(h)}

\* The attempt number of a generation is the number of takeovers up to it, a
\* renewal costs none, and maximum_attempts bounds it (spec/contract.md).
AttemptsCounted ==
  \A g \in Chain :
    /\ ClaimAt(g).rec.attempt = Cardinality(Takeovers(g))
    /\ ClaimAt(g).rec.attempt <= MaximumAttempts

\* A handle is the claim record its holder wrote, and no two workers hold the
\* same generation or the same token.
HandlesOwned ==
  /\ \A w \in DOMAIN handle :
       /\ handle[w].gen \in Chain
       /\ LET rec == ClaimAt(handle[w].gen).rec
          IN /\ rec.worker = w
             /\ rec.token = handle[w].token
             /\ rec.attempt = handle[w].attempt
             /\ rec.dur = handle[w].dur
  /\ \A v, w \in DOMAIN handle : handle[v].token = handle[w].token => v = w

\* Once a terminal record exists the chain is fenced: of all the calls that
\* had passed their terminal probes, at most one extends it by a generation.
\* (renew and try_claim probe first and put later, so "A terminal job cannot
\* extend its custody chain", the comment in renew, holds up to that one.)
TerminalFences ==
  0 \notin Durations =>
    \A kind \in {"receipt", "dead"} :
      Present(TerminalKey(kind)) =>
        Cardinality(Chain) <= store[TerminalKey(kind)].depth + 1

\* A job is dead-lettered for exhaustion only on a generation of the last
\* attempt whose lease had ended.  The record kills no other delivery than
\* that one, and never one that was renewed before its lease ended, stale
\* hints notwithstanding (the re-verification in try_claim).
ExhaustionJustified ==
  Present(DeadKey) /\ store[DeadKey].rec.reason = "exhausted" =>
    LET g == store[DeadKey].rec.gen
    IN /\ g \in Chain
       /\ ClaimAt(g).rec.attempt = MaximumAttempts
       /\ LeaseEnd(g) <= store[DeadKey].born
       /\ \A h \in Chain : h > g =>
            /\ ClaimAt(h).rec.token = ClaimAt(g).rec.token
            /\ LeaseEnd(g) <= ClaimAt(h).born

\* A negative acknowledgement that was stored before the instant a claimant
\* took as its floor holds that claimant off until retry_not_before, and no
\* claim is granted before the job's own not_before.
BackoffHonoured ==
  \A g \in Chain : Takeover(g) =>
    LET f == ClaimAt(g).rec.basis.floor
    IN /\ f >= NotBefore
       /\ Present(FailKey(g - 1)) /\ store[FailKey(g - 1)].born < f =>
            f >= store[FailKey(g - 1)].rec.retry

\* What a call reports is so: an acknowledgement or burial is on record with
\* the evidence of the caller's claim, a claim handed out is stored under the
\* caller's token, a lost lease has a successor or a terminal record.
ResultTrue(w) ==
  /\ result'[w] \in {"acked", "alreadyAcked"} =>
       /\ Present(ReceiptKey)'
       /\ store'[ReceiptKey].rec.gen = handle[w].gen
       /\ store'[ReceiptKey].rec.attempt = handle[w].attempt
  /\ result'[w] = "buried" =>
       /\ Present(DeadKey)'
       /\ store'[DeadKey].rec.gen = handle[w].gen
       /\ store'[DeadKey].rec.attempt = handle[w].attempt
  /\ result'[w] = "nacked" => FailKey(handle[w].gen) \in DOMAIN store'
  /\ result'[w] = "leaseLost" =>
       Terminal' \/ handle[w].gen + 1 \in Chain'
  /\ result'[w] = "renewed" =>
       /\ handle'[w].gen = handle[w].gen + 1
       /\ store'[ClaimKey(handle'[w].gen)].rec.token = handle[w].token

ResultsTrue ==
  [][\A w \in Workers : result'[w] # result[w] => ResultTrue(w)]_vars

----------------------------------------------------------------------------
(* What comments and specification pages say that the code does not do.    *)

\* "at most one terminal record per job ever exists" (comments in ack_inner
\* and bury; the interleaving lab's first invariant).
OneTerminalRecord == ~(Present(ReceiptKey) /\ Present(DeadKey))

\* "A stale generation cannot acknowledge, renew, retry, or bury over a later
\* generation" (spec/contract.md): when a terminal record is written, the
\* generation it names has not been taken over.
NoStaleTerminal ==
  \A kind \in {"receipt", "dead"} :
    Present(TerminalKey(kind)) =>
      LET t == store[TerminalKey(kind)]
      IN \A h \in Chain : t.rec.gen < h /\ h <= t.depth => ~Takeover(h)

----------------------------------------------------------------------------
(* Liveness: workers that keep making calls, a store that keeps answering, *)
(* and failures that eventually cease.                                     *)

Step(w) ==
  \/ Start(w) \/ Read(w) \/ Decide(w)
  \/ PutCommitted(w) \/ PutRejected(w) \/ Resolve(w) \/ Settle(w)

Failure ==
  \/ \E w \in Workers : PutUnanswered(w) \/ Fault(w)
  \/ HintFault

Fairness ==
  /\ \A w \in Workers : WF_vars(Step(w))
  /\ WF_vars(Tick)
  /\ <>[][~Failure]_vars

LiveSpec == Spec /\ Fairness

\* A job nobody acknowledges does not stay claimed, backed off or contended
\* for ever: its lease runs out, it is claimed again, and when the attempts
\* are used up a claimant writes the dead record.
EventuallyTerminal == <>Terminal

============================================================================
