------------------------------ MODULE BatchScan -----------------------------
(***************************************************************************)
(* The first half of the consumer harness: a hint starts a batch, whose    *)
(* scan (claim_many) claims jobs in concurrent waves under one operation   *)
(* budget.  run_delivery is a batch of one.  Module Delivery has the other *)
(* half, the delivery of each claim.                                       *)
(*                                                                         *)
(* The queue operations are here in the detail that matters to harnesses   *)
(* racing for a job: probes and puts are separate steps and a lease may    *)
(* run out at any time.  Module Custody has the rest of them (time,        *)
(* evidence, hints, retries).                                              *)
(***************************************************************************)
EXTENDS Integers, Sequences, FiniteSets, SequencesExt

CONSTANTS
  Workers,           \* harness processes
  JobCount,          \* jobs of the shard
  Outputs,           \* per job: what its executor may return, sequences of output bodies
  Failures,          \* per job: how its executor may fail, "nack" or "bury"
  Batches,           \* batch sizes asked for
  Budgets,           \* operation budgets of a scan
  Page,              \* size of a page of the listing
  MaximumAttempts,   \* per job: its maximum_attempts
  MaxGen,            \* bound: generations of a chain
  MaxHints,          \* bound: hints received
  MaxFaults          \* bound: unanswered puts and failed probes

VARIABLES
  chain,     \* per job: the claims, as worker and attempt per generation
  leased,    \* per job: the tail's lease (or the backoff after it) still runs
  outputs,   \* per job: the bodies at its output keys; output n has name n
  receipt,   \* per job: the receipt, as a singleton, or {}
  dead,      \* per job: the dead record, as a singleton, or {}
  fails,     \* per job: generations with a fail record
  hand,      \* per worker: the batch it is in
  task,      \* per worker: its deliveries, in claim order
  hints,     \* how many hints were received
  faults     \* how many faults happened

\* Job ids, in the order of the listing.
Jobs == 1 .. JobCount

store == <<chain, leased, outputs, receipt, dead, fails>>
vars == <<chain, leased, outputs, receipt, dead, fails, hand, task, hints, faults>>

\* A batch: what is left to claim and to spend; the listing's cursor and end;
\* candidates not yet probed; the wave in flight; claims so far.  granted and
\* spent are history: the budget at the start, and the operations done.
NoBatch == [phase |-> "idle", max |-> 0, left |-> 0, granted |-> 0, spent |-> 0, after |-> 0,
            done |-> FALSE, pending |-> <<>>, wave |-> <<>>, claims |-> <<>>]
Phase(w, p) == hand[w].phase = p

Terminal(j) == receipt[j] # {} \/ dead[j] # {}
Gen(j) == Len(chain[j])
Attempt(j) == IF chain[j] = <<>> THEN 0 ELSE Last(chain[j]).attempt

\* A claim handle names a generation of a job.
Claim(j, g) == [job |-> j, gen |-> g, attempt |-> chain[j][g].attempt]

Fault == faults < MaxFaults /\ faults' = faults + 1

Init ==
  /\ chain = [j \in Jobs |-> <<>>]
  /\ leased = [j \in Jobs |-> FALSE]
  /\ outputs = [j \in Jobs |-> <<>>]
  /\ receipt = [j \in Jobs |-> {}]
  /\ dead = [j \in Jobs |-> {}]
  /\ fails = [j \in Jobs |-> {}]
  /\ hand = [w \in Workers |-> NoBatch]
  /\ task = [w \in Workers |-> <<>>]
  /\ hints = 0
  /\ faults = 0

-----------------------------------------------------------------------------
(* The operation budget.  A probe costs one operation, a claim one more. *)

\* OpBudget::split: equal children; the remainder stays with the parent.
SplitEach(left, n) == left \div n

\* OpBudget::merge: what the children have not spent comes back.
\* Deviation: so does what they spent on probes.
MergeUncharged(left, wave) == FoldSeq(LAMBDA c, sum : c.left + 1 + sum, left, wave)
Merge(left, wave) == FoldSeq(LAMBDA c, sum : c.left + sum, left, wave)

-----------------------------------------------------------------------------
(* The scan of one shard: claim_many. *)

\* A hint starts the scan for m claims.
StartBatch(w, m) ==
  /\ Phase(w, "idle")
  /\ hints < MaxHints
  /\ hints' = hints + 1
  /\ \E b \in Budgets :
       hand' = [hand EXCEPT ![w] = [NoBatch EXCEPT
         !.phase = "scan", !.max = m, !.left = b, !.granted = b]]
  /\ UNCHANGED <<store, task, faults>>

\* run_delivery_inner claims one job, run_batch_inner as many as were asked for.
RunDelivery(w) == StartBatch(w, 1)
RunBatch(w) == \E m \in Batches : StartBatch(w, m)

\* The scan returns: claims become deliveries, an error or an empty batch none.
Deliver(w, claims) ==
  /\ hand' = [hand EXCEPT ![w] = [NoBatch EXCEPT !.phase = "deliver", !.max = hand[w].max]]
  /\ task' = [task EXCEPT ![w] = [n \in 1..Len(claims) |->
       [at |-> "exec", claim |-> claims[n], outs |-> <<>>, n |-> 0, report |-> "none"]]]

\* A wave has at most as many candidates as are still wanted.
\* Deviation: it has all there are.
WaveOfAll(b) == Len(b.pending)
WaveSize(b) == LET wanted == b.max - Len(b.claims)
               IN  IF Len(b.pending) < wanted THEN Len(b.pending) ELSE wanted

\* Candidates are drained into a wave, each with an equal slice of the budget.
StartWave(w) ==
  LET b == hand[w]
      n == WaveSize(b)
      each == SplitEach(b.left, n)
  IN  /\ Phase(w, "scan")
      /\ n > 0
      /\ hand' = [hand EXCEPT ![w].phase = "wave",
           ![w].pending = SubSeq(@, n + 1, Len(@)),
           ![w].left = @ - each * n,
           ![w].wave = [i \in 1..n |-> [job |-> b.pending[i], left |-> each, res |-> "probe", gen |-> 0]]]
      /\ UNCHANGED <<store, task, hints, faults>>

\* A page of the shard's jobs is listed; with nothing to list or no budget the
\* scan is over.
ListPage(w) ==
  LET b == hand[w]
      last == IF b.after + Page < JobCount THEN b.after + Page ELSE JobCount
  IN  /\ Phase(w, "scan")
      /\ b.pending = <<>>
      /\ ~b.done
      /\ b.left > 0
      /\ hand' = [hand EXCEPT ![w].left = @ - 1, ![w].spent = @ + 1,
           ![w].pending = [i \in 1 .. last - b.after |-> b.after + i], ![w].after = last,
           ![w].done = last = JobCount]
      /\ UNCHANGED <<store, task, hints, faults>>

\* The scan ends: at its end, or out of budget before a listing.
EndScan(w) ==
  /\ Phase(w, "scan")
  /\ hand[w].pending = <<>>
  /\ hand[w].done \/ hand[w].left = 0
  /\ Deliver(w, hand[w].claims)
  /\ UNCHANGED <<store, hints, faults>>

\* A candidate of the wave spends operations of its own slice.
Child(w, i, cost, res, g) ==
  hand' = [hand EXCEPT ![w].wave[i] = [@ EXCEPT !.left = @ - cost, !.res = res, !.gen = g],
                       ![w].spent = @ + cost]

\* try_claim's gather: a terminal or held job is passed over, an exhausted one
\* is dead-lettered, any other is to be claimed on the tail that was read.  A
\* slice without operations, or a store error, fails the candidate alone.
Probe(w, i) ==
  LET c == hand[w].wave[i] IN
  /\ c.res = "probe"
  /\ \/ /\ c.left = 0
        /\ Child(w, i, 0, "failed", 0)
        /\ UNCHANGED <<dead, faults>>
     \/ /\ c.left > 0
        /\ Fault
        /\ Child(w, i, 1, "failed", 0)
        /\ UNCHANGED dead
     \/ /\ c.left > 0
        /\ IF Terminal(c.job) \/ leased[c.job]
           THEN Child(w, i, 1, "none", 0) /\ UNCHANGED dead
           ELSE IF Attempt(c.job) >= MaximumAttempts[c.job]
           THEN /\ Child(w, i, 1, "none", 0)
                /\ dead' = [dead EXCEPT ![c.job] = {[gen |-> Gen(c.job), attempt |-> Attempt(c.job)]}]
           ELSE /\ Gen(c.job) < MaxGen
                /\ Child(w, i, 1, "put", Gen(c.job))
                /\ UNCHANGED dead
        /\ UNCHANGED faults
  /\ UNCHANGED <<chain, leased, outputs, receipt, fails, task, hints>>

\* The claim's put: it wins the generation or loses it to a rival.  A slice
\* that runs out here ends in an error, before the put or just after it.
PutClaim(w, i) ==
  LET c == hand[w].wave[i]
      won == Gen(c.job) = c.gen
      append == /\ chain' = [chain EXCEPT ![c.job] = Append(@, [worker |-> w, attempt |-> Attempt(c.job) + 1])]
                /\ leased' = [leased EXCEPT ![c.job] = TRUE]
  IN  /\ c.res = "put"
      /\ \/ /\ c.left = 0
            /\ Child(w, i, 0, "failed", 0)
            /\ UNCHANGED <<chain, leased>> \/ (won /\ append)
         \/ /\ c.left > 0
            /\ IF won THEN append /\ Child(w, i, 1, "claimed", c.gen + 1)
               ELSE Child(w, i, 1, "none", 0) /\ UNCHANGED <<chain, leased>>
      /\ UNCHANGED <<outputs, receipt, dead, fails, task, hints, faults>>

\* The wave joins: claims are kept in scan order and slices refunded.  A full
\* batch, a failed candidate, or a budget at zero ends the scan.
JoinWave(w) ==
  LET b == hand[w]
      won == SelectSeq(b.wave, LAMBDA c : c.res = "claimed")
      claims == b.claims \o [n \in 1..Len(won) |-> Claim(won[n].job, won[n].gen)]
      left == Merge(b.left, b.wave)
  IN  /\ Phase(w, "wave")
      /\ \A i \in DOMAIN b.wave : b.wave[i].res \in {"none", "claimed", "failed"}
      /\ IF Len(claims) >= b.max \/ left = 0 \/ \E i \in DOMAIN b.wave : b.wave[i].res = "failed"
         THEN Deliver(w, claims)
         ELSE /\ hand' = [hand EXCEPT ![w].phase = "scan", ![w].claims = claims,
                                      ![w].left = left, ![w].wave = <<>>]
              /\ UNCHANGED task
      /\ UNCHANGED <<store, hints, faults>>
=============================================================================
