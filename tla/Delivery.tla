------------------------------ MODULE Delivery ------------------------------
(***************************************************************************)
(* The delivery of each claim of a batch, by a task of its own             *)
(* (deliver_one, finish_delivery): execution between renewal heartbeats,   *)
(* then outputs through the commit rule and the receipt, or a nack, or a   *)
(* burial.  Several harnesses race for the same jobs, and a harness that   *)
(* was taken over goes on until it notices.  A harness that has died is one *)
(* that takes no further step.                                             *)
(***************************************************************************)
EXTENDS BatchScan

\* Task i of worker w goes on to a step, or ends with a report.
Task(w, i, at) == i \in DOMAIN task[w] /\ task[w][i].at = at
Step(w, i, at) == task' = [task EXCEPT ![w][i].at = at]
Report(w, i, r) ==
  task' = [task EXCEPT ![w][i].at = "done", ![w][i].report = r, ![w][i].n = 0]
ClaimOf(w, i) == task[w][i].claim

\* A put that stays unanswered, applied or not, is looked up afterwards.
Unanswered(w, i, at, apply, unapplied) ==
  /\ Fault
  /\ apply \/ unapplied
  /\ Step(w, i, at)

-----------------------------------------------------------------------------
(* Execution and heartbeats.  While a renewal is in flight the executor is
   not polled. *)

\* The executor returns outputs, or a failure of one of the two classes.
Executed(w, i) ==
  /\ Task(w, i, "exec")
  /\ \/ \E o \in Outputs[ClaimOf(w, i).job] :
          task' = [task EXCEPT ![w][i].at = IF o = <<>> THEN "ack" ELSE "commit", ![w][i].outs = o]
     \/ \E f \in Failures[ClaimOf(w, i).job] : Step(w, i, f)
  /\ UNCHANGED <<store, hand, hints, faults>>

\* The timer fires first: renew probes the terminal records ...
Heartbeat(w, i) ==
  /\ Task(w, i, "exec")
  /\ ClaimOf(w, i).gen < MaxGen
  /\ IF Terminal(ClaimOf(w, i).job) THEN Report(w, i, "lost") ELSE Step(w, i, "renew")
  /\ UNCHANGED <<store, hand, hints, faults>>

\* Deviation: a renewal counts as another attempt.
AppendAttempt(w, i) ==
  LET c == ClaimOf(w, i) IN
  /\ Gen(c.job) = c.gen
  /\ chain' = [chain EXCEPT ![c.job] = Append(@, [worker |-> w, attempt |-> c.attempt + 1])]
  /\ leased' = [leased EXCEPT ![c.job] = TRUE]

AppendRenewal(w, i) ==
  LET c == ClaimOf(w, i) IN
  /\ Gen(c.job) = c.gen
  /\ chain' = [chain EXCEPT ![c.job] = Append(@, [worker |-> w, attempt |-> c.attempt])]
  /\ leased' = [leased EXCEPT ![c.job] = TRUE]

\* ... and puts the next generation, which this claim's own worker or a
\* successor may hold by then.  No action follows a lost lease.
RenewPut(w, i) ==
  LET c == ClaimOf(w, i) IN
  /\ Task(w, i, "renew")
  /\ \/ /\ AppendRenewal(w, i)
        /\ task' = [task EXCEPT ![w][i].at = "exec", ![w][i].claim.gen = @ + 1]
        /\ UNCHANGED faults
     \/ /\ Gen(c.job) > c.gen
        /\ Report(w, i, "lost")
        /\ UNCHANGED <<chain, leased, faults>>
     \/ Unanswered(w, i, "renew_lookup", AppendRenewal(w, i), UNCHANGED <<chain, leased>>)
  /\ UNCHANGED <<outputs, receipt, dead, fails, hand, hints>>

\* resolve_unknown: absent means the put is repeated, the writer's own record
\* that it won, any other that it lost.
RenewLookup(w, i) ==
  LET c == ClaimOf(w, i) IN
  /\ Task(w, i, "renew_lookup")
  /\ IF Gen(c.job) = c.gen THEN Step(w, i, "renew")
     ELSE IF chain[c.job][c.gen + 1] = [worker |-> w, attempt |-> c.attempt]
     THEN task' = [task EXCEPT ![w][i].at = "exec", ![w][i].claim.gen = @ + 1]
     ELSE Report(w, i, "lost")
  /\ UNCHANGED <<store, hand, hints, faults>>

-----------------------------------------------------------------------------
(* Success: outputs first, then the receipt. *)

\* The body of the next output, and the state in which its key holds it.
NextBody(w, i) == task[w][i].outs[task[w][i].n + 1]
OutputAbsent(w, i) == Len(outputs[ClaimOf(w, i).job]) <= task[w][i].n
PutOutput(w, i) ==
  /\ OutputAbsent(w, i)
  /\ outputs' = [outputs EXCEPT ![ClaimOf(w, i).job] = Append(@, NextBody(w, i))]

\* classify_output: the same bytes have converged, others are a conflict.
Classify(w, i) ==
  IF outputs'[ClaimOf(w, i).job][task[w][i].n + 1] = NextBody(w, i)
  THEN task' = [task EXCEPT ![w][i].n = @ + 1,
                  ![w][i].at = IF task[w][i].n + 1 = Len(task[w][i].outs) THEN "ack" ELSE "commit"]
  ELSE Report(w, i, "error")

\* commit_output: the first writer of the key wins, and what it holds decides.
CommitOutput(w, i) ==
  /\ Task(w, i, "commit")
  /\ \/ /\ PutOutput(w, i) \/ (~OutputAbsent(w, i) /\ UNCHANGED outputs)
        /\ Classify(w, i)
        /\ UNCHANGED faults
     \/ Unanswered(w, i, "commit_lookup", PutOutput(w, i), UNCHANGED outputs)
  /\ UNCHANGED <<chain, leased, receipt, dead, fails, hand, hints>>

CommitLookup(w, i) ==
  /\ Task(w, i, "commit_lookup")
  /\ UNCHANGED outputs
  /\ IF OutputAbsent(w, i) THEN Step(w, i, "commit") ELSE Classify(w, i)
  /\ UNCHANGED <<chain, leased, receipt, dead, fails, hand, hints, faults>>

\* ack_with_outputs refuses a dead-lettered job and verifies every output.
Ack(w, i) ==
  LET j == ClaimOf(w, i).job IN
  /\ Task(w, i, "ack")
  /\ IF dead[j] # {} THEN Report(w, i, "lost")
     ELSE IF IsPrefix(task[w][i].outs, outputs[j]) THEN Step(w, i, "put_receipt")
     ELSE Report(w, i, "error")
  /\ UNCHANGED <<store, hand, hints, faults>>

\* The receipt is put.  A receipt of another generation with the same outputs
\* is as good as one's own; with others it is an error.
\* Deviations: any receipt is as good as one's own; none but one's own is.
PutReceiptAny(w, i) ==
  LET c == ClaimOf(w, i)
      mine == [gen |-> c.gen, attempt |-> c.attempt, outs |-> task[w][i].outs]
  IN  /\ Task(w, i, "put_receipt")
      /\ receipt' = [receipt EXCEPT ![c.job] = IF @ = {} THEN {mine} ELSE @]
      /\ Report(w, i, "delivered")
      /\ UNCHANGED <<chain, leased, outputs, dead, fails, hand, hints, faults>>
PutReceiptOwn(w, i) ==
  LET c == ClaimOf(w, i)
      mine == [gen |-> c.gen, attempt |-> c.attempt, outs |-> task[w][i].outs]
  IN  /\ Task(w, i, "put_receipt")
      /\ receipt' = [receipt EXCEPT ![c.job] = IF @ = {} THEN {mine} ELSE @]
      /\ Report(w, i, IF mine \in receipt'[c.job] THEN "delivered" ELSE "error")
      /\ UNCHANGED <<chain, leased, outputs, dead, fails, hand, hints, faults>>

PutReceipt(w, i) ==
  LET c == ClaimOf(w, i)
      mine == [gen |-> c.gen, attempt |-> c.attempt, outs |-> task[w][i].outs]
  IN  /\ Task(w, i, "put_receipt")
      /\ receipt' = [receipt EXCEPT ![c.job] = IF @ = {} THEN {mine} ELSE @]
      /\ Report(w, i, IF \E r \in receipt'[c.job] : r.outs = mine.outs THEN "delivered" ELSE "error")
      /\ UNCHANGED <<chain, leased, outputs, dead, fails, hand, hints, faults>>

-----------------------------------------------------------------------------
(* Failure: a fail record, or a dead record. *)

Nack(w, i) ==
  LET c == ClaimOf(w, i) IN
  /\ Task(w, i, "nack")
  /\ fails' = [fails EXCEPT ![c.job] = @ \cup {c.gen}]
  /\ Report(w, i, "nacked")
  /\ UNCHANGED <<chain, leased, outputs, receipt, dead, hand, hints, faults>>

\* bury stands back from a receipt ...
Bury(w, i) ==
  /\ Task(w, i, "bury")
  /\ IF receipt[ClaimOf(w, i).job] # {} THEN Report(w, i, "superseded") ELSE Step(w, i, "put_dead")
  /\ UNCHANGED <<store, hand, hints, faults>>

\* ... and puts the dead record; one of another generation is an error.
PutDead(w, i) ==
  LET c == ClaimOf(w, i)
      mine == [gen |-> c.gen, attempt |-> c.attempt]
  IN  /\ Task(w, i, "put_dead")
      /\ dead' = [dead EXCEPT ![c.job] = IF @ = {} THEN {mine} ELSE @]
      /\ Report(w, i, IF mine \in dead'[c.job] THEN "buried" ELSE "error")
      /\ UNCHANGED <<chain, leased, outputs, receipt, fails, hand, hints, faults>>

-----------------------------------------------------------------------------
\* All deliveries are through: the batch returns its reports.
Join(w) ==
  /\ Phase(w, "deliver")
  /\ \A i \in DOMAIN task[w] : task[w][i].at = "done"
  /\ hand' = [hand EXCEPT ![w] = NoBatch]
  /\ task' = [task EXCEPT ![w] = <<>>]
  /\ UNCHANGED <<store, hints, faults>>

\* The tail's lease runs out, or its backoff does.
Expire(j) ==
  /\ leased[j]
  /\ leased' = [leased EXCEPT ![j] = FALSE]
  /\ UNCHANGED <<chain, outputs, receipt, dead, fails, hand, task, hints, faults>>

TaskStep(w, i) ==
  \/ Heartbeat(w, i) \/ RenewPut(w, i) \/ RenewLookup(w, i)
  \/ CommitOutput(w, i) \/ CommitLookup(w, i) \/ Ack(w, i) \/ PutReceipt(w, i)
  \/ Nack(w, i) \/ Bury(w, i) \/ PutDead(w, i)

ScanStep(w) ==
  \/ StartWave(w) \/ ListPage(w) \/ EndScan(w) \/ JoinWave(w)
  \/ \E i \in DOMAIN hand[w].wave : Probe(w, i) \/ PutClaim(w, i)

Next ==
  \/ \E w \in Workers : RunDelivery(w) \/ RunBatch(w) \/ ScanStep(w) \/ Join(w)
  \/ \E w \in Workers : \E i \in DOMAIN task[w] : TaskStep(w, i) \/ Executed(w, i)
  \/ \E j \in Jobs : Expire(j)

Spec == Init /\ [][Next]_vars

-----------------------------------------------------------------------------
(* Properties. *)

Reports == {"none", "delivered", "lost", "nacked", "buried", "superseded", "error"}

\* Type invariant: chains are within their bound, attempts within the job's, and
\* no batch is larger than asked for.
TypeOK ==
  /\ \A j \in Jobs : /\ Len(chain[j]) <= MaxGen
                     /\ \A g \in DOMAIN chain[j] : chain[j][g].attempt \in 1..MaximumAttempts[j]
                     /\ Cardinality(receipt[j]) <= 1 /\ Cardinality(dead[j]) <= 1
                     /\ fails[j] \subseteq DOMAIN chain[j]
  /\ \A w \in Workers : /\ Len(hand[w].claims) <= hand[w].max /\ Len(task[w]) <= hand[w].max
                        /\ hand[w].left >= 0
                        /\ \A i \in DOMAIN task[w] : task[w][i].report \in Reports

\* The work bound (OpBudget::split and merge across waves): operations done,
\* the rest, and the slices of the wave in flight make up the budget granted.
BudgetConserved ==
  \A w \in Workers :
    LET b == hand[w] IN b.granted = b.spent + FoldSeq(LAMBDA c, sum : c.left + sum, b.left, b.wave)

\* The commit rule (finish_delivery, ack_with_outputs): a receipt implies that
\* its outputs exist as recorded, whichever attempts wrote them, and that the
\* generation it names was claimed with that attempt.
ReceiptBacked ==
  \A j \in Jobs : \A r \in receipt[j] :
    /\ IsPrefix(r.outs, outputs[j])
    /\ r.gen \in DOMAIN chain[j] /\ chain[j][r.gen].attempt = r.attempt

\* Reports are true of the store: a delivery has its receipt with its outputs, a
\* burial its dead record, a nack its fail record; and a lease is reported lost
\* only when the job is another's or over.
ReportsTrue ==
  \A w \in Workers : \A i \in DOMAIN task[w] :
    LET c == ClaimOf(w, i)
        r == task[w][i].report
    IN  /\ r = "delivered" => \E x \in receipt[c.job] : x.outs = task[w][i].outs
        /\ r = "buried" => [gen |-> c.gen, attempt |-> c.attempt] \in dead[c.job]
        /\ r = "nacked" => c.gen \in fails[c.job]
        /\ r = "superseded" => receipt[c.job] # {}
        /\ r = "lost" => Terminal(c.job) \/ chain[c.job][Gen(c.job)].worker # w \/ Gen(c.job) > c.gen

\* Duplicate deliveries converge (finish_delivery's receipt comparison): a task
\* ends in an error only if another execution produced other outputs, or if
\* another generation buried the job.
ErrorsExplained ==
  \A w \in Workers : \A i \in DOMAIN task[w] :
    LET c == ClaimOf(w, i)
        t == task[w][i]
    IN  t.report = "error" =>
          \/ ~IsPrefix(t.outs, outputs[c.job])
          \/ \E r \in receipt[c.job] : r.outs # t.outs
          \/ \E d \in dead[c.job] : d.gen # c.gen
=============================================================================
