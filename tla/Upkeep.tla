------------------------------- MODULE Upkeep -------------------------------
(***************************************************************************)
(* The advisory indexes and the passes that keep them (the lease and delay *)
(* sweeps, the repair scan), together with garbage collection and the      *)
(* clients of one job id.  What clients read is never an index: sweeps     *)
(* only prune, and repair restores from the authoritative objects.         *)
(***************************************************************************)
EXTENDS Collector, Schedule

CONSTANT MaxStale   \* bound: for how many epochs a call goes on with its floor

-----------------------------------------------------------------------------
(* Sweeps. *)

\* The entries of an index whose bucket is due at floor f.
Due(kind, f) == {Listed(k) : k \in {x \in Keys({kind}) : x[3] <= f}}

\* sweep_once of a worker: a floor, then both sweeps under it.
StartSweep(a) ==
  /\ At(a, "idle")
  /\ agent' = [agent EXCEPT ![a] = [Idle EXCEPT
       !.op = "sweep_leases", !.f = Now, !.todo = Due("leases", Now)]]
  /\ UNCHANGED <<store, memo, lives, ended, faults>>

\* A due entry is evaluated against the authoritative objects, which decides
\* only what the report counts, and pruned whatever the verdict.
Prune(a) ==
  \E x \in agent[a].todo :
    /\ At(a, "sweep_leases") \/ At(a, "sweep_delayed")
    /\ IgnoredDelete(x.key)
    /\ agent' = [agent EXCEPT ![a].todo = @ \ {x}]
    /\ UNCHANGED <<memo, lives, ended>>

NextSweep(a) ==
  /\ agent[a].todo = {}
  /\ \/ /\ At(a, "sweep_leases")
        /\ agent' = [agent EXCEPT ![a].op = "sweep_delayed",
                                  ![a].todo = Due("delayed", agent[a].f)]
     \/ /\ At(a, "sweep_delayed")
        /\ Return(a)
  /\ UNCHANGED <<store, memo, lives, ended, faults>>

-----------------------------------------------------------------------------
(* Repair scan of the shard.  c is the job's content as listed, 0 if it was
   not there; g is 1 once a receipt was listed.  A finding is reported, and its
   quarantine record written, in the step that makes it. *)

Found(a, kinds) == agent[a].found \cup kinds

\* repair_shard lists the jobs.
StartRepair(a) ==
  /\ At(a, "idle")
  /\ agent' = [agent EXCEPT ![a] = [Idle EXCEPT
       !.op = "repair_job", !.c = IF Present(JobKey) THEN store[JobKey].rec ELSE 0]]
  /\ UNCHANGED <<store, memo, lives, ended, faults>>

\* A listed job is read; it may be gone by now.  The entry a delayed job should
\* have is noted.
RepairJob(a) ==
  /\ At(a, "repair_job")
  /\ IF agent[a].c = 0 \/ ~Present(JobKey)
     THEN Goto(a, "repair_claims")
     ELSE agent' = [agent EXCEPT ![a].op = "repair_payload", ![a].c = store[JobKey].rec,
            ![a].graph = {k \in {DelayIndex(NotBefore(store[JobKey]))} : store[JobKey].rec \in Delayed}]
  /\ UNCHANGED <<store, memo, lives, ended, faults>>

\* Deviation: a payload is looked for whether or not the job has one.
RepairPayloadOfAny(a) ==
  /\ At(a, "repair_payload")
  /\ agent' = [agent EXCEPT
       ![a].op = IF agent[a].graph = {} THEN "repair_claims" ELSE "ensure_delay",
       ![a].found = Found(a, {kind \in {"payload"} : ~Present(PayloadKey(agent[a].c))})]
  /\ UNCHANGED <<store, memo, lives, ended, faults>>

\* The payload of a detached job is looked for.
RepairPayload(a) ==
  /\ At(a, "repair_payload")
  /\ agent' = [agent EXCEPT
       ![a].op = IF agent[a].graph = {} THEN "repair_claims" ELSE "ensure_delay",
       ![a].found = Found(a, {kind \in {"payload"} :
          agent[a].c \notin Inline /\ ~Present(PayloadKey(agent[a].c))})]
  /\ UNCHANGED <<store, memo, lives, ended, faults>>

\* The claims are listed: a chain whose job was not in the earlier listing is an
\* orphan, and a chain that does not run from 1 without holes has a gap.
RepairClaims(a) ==
  LET gens == {k[2] : k \in Keys({"claim"})} IN
  /\ At(a, "repair_claims")
  /\ IF gens = {}
     THEN Goto(a, "repair_receipts")
     ELSE agent' = [agent EXCEPT ![a].op = "repair_audit", ![a].item = {Listed(ClaimKey(LastGen))},
            ![a].found = Found(a, {kind \in {"orphan", "gap"} :
               IF kind = "orphan" THEN agent[a].c = 0 ELSE gens # 1..LastGen})]
  /\ UNCHANGED <<store, memo, lives, ended, faults>>

\* audit_claim_chain reads the generations; of the tail comes the lease's end,
\* or its start when the tail is gone by now.
RepairAudit(a) ==
  \E x \in agent[a].item :
    /\ At(a, "repair_audit")
    /\ agent' = [agent EXCEPT ![a].op = "ensure_lease", ![a].item = {},
         ![a].graph = {LeaseIndex(x.key[2], x.at + IF Present(x.key) THEN Lease ELSE 0)}]
    /\ UNCHANGED <<store, memo, lives, ended, faults>>

\* Deviation: terminal index entries are not restored.
RepairNoTerminals(a) ==
  /\ At(a, "repair_receipts")
  /\ Return(a)
  /\ UNCHANGED <<store, memo, lives, ended, faults>>

\* The terminal listings: each record has its index entry restored, and a job
\* with both is reported.
RepairTerminals(a) ==
  \E step \in {<<"repair_receipts", "receipt", "ensure_receipt", "repair_dead">>,
               <<"repair_dead", "dead", "ensure_dead", "idle">>} :
    /\ At(a, step[1])
    /\ IF Present(TerminalKey(step[2]))
       THEN agent' = [agent EXCEPT ![a].op = step[3], ![a].graph = {TermIndex(step[2])}, ![a].g = 1,
              ![a].found = Found(a, IF agent[a].g = 1 THEN {"duplicate"} ELSE {})]
       ELSE IF step[4] = "idle" THEN Return(a) ELSE Goto(a, step[4])
    /\ UNCHANGED <<store, memo, lives, ended, faults>>

\* ensure_index: an absent entry is put, without regard to the outcome.
EnsureIndex(a) ==
  \E step \in {<<"ensure_delay", "repair_claims">>, <<"ensure_lease", "repair_receipts">>,
               <<"ensure_receipt", "repair_dead">>, <<"ensure_dead", "idle">>},
     k \in agent[a].graph :
    /\ At(a, step[1])
    /\ BestEffort(k)
    /\ IF step[2] = "idle" THEN Return(a)
       ELSE agent' = [agent EXCEPT ![a].op = step[2], ![a].graph = {}]
    /\ UNCHANGED <<memo, lives, ended>>

UpkeepStep(a) ==
  GcStep(a) \/ Prune(a) \/ NextSweep(a)
  \/ RepairJob(a) \/ RepairPayload(a) \/ RepairClaims(a) \/ RepairAudit(a)
  \/ RepairTerminals(a) \/ EnsureIndex(a)

-----------------------------------------------------------------------------
(* Time. *)

Earlier(t) == IF t = 0 THEN 0 ELSE t - 1
EarlierKey(k) == <<k[1], k[2], Earlier(k[3])>>
EarlierItems(S) == {[key |-> EarlierKey(x.key), at |-> Earlier(x.at)] : x \in S}

\* An epoch passes; memo entries (TERMINAL_MEMO_TTL) lapse.  A producer that has
\* not crashed is through with its enqueue within the epoch.
Tick ==
  /\ \A a \in Clients : agent[a].op \in {"idle", "gather", "read_job", "put_claim",
       "put_lease", "hold", "put_receipt", "put_dead", "put_termidx.r", "put_termidx.d"}
  /\ \A a \in Agents : agent[a].f = 0 \/ agent[a].f + MaxStale > Now
  /\ store' = [k \in {EarlierKey(x) : x \in DOMAIN store} |->
       LET o == store[CHOOSE x \in DOMAIN store : EarlierKey(x) = k]
       IN  [o EXCEPT !.at = Earlier(@)]]
  /\ agent' = [a \in Agents |-> [agent[a] EXCEPT
       !.f = Earlier(@), !.todo = EarlierItems(@), !.item = EarlierItems(@),
       !.graph = {EarlierKey(k) : k \in @}]]
  /\ memo' = [a \in Clients |-> 0]
  /\ UNCHANGED <<lives, ended, faults>>

Next ==
  \/ \E a \in Clients : ClientStep(a) \/ \E c \in Contents : Enqueue(a, c)
  \/ \E a \in Keepers : UpkeepStep(a) \/ StartGc(a) \/ StartSweep(a) \/ StartRepair(a)
  \/ \E a \in Agents : Abandon(a)
  \/ Tick

Spec == Init /\ [][Next]_vars

\* Fairness: a started call goes on, workers poll, time passes, and each
\* maintenance pass is started again and again (the command line, cron, or the
\* sweeper loop of a worker).
LiveSpec ==
  /\ Spec
  /\ WF_vars(Tick)
  /\ \A a \in Clients : WF_vars(ClientStep(a))
  /\ \A a \in Keepers : /\ WF_vars(UpkeepStep(a))
                        /\ SF_vars(StartGc(a))
                        /\ SF_vars(StartSweep(a))
                        /\ SF_vars(StartRepair(a))

-----------------------------------------------------------------------------
(* Properties. *)

Gens == 1 .. MaximumAttempts
Times == 0 .. Now + Lease + Delay
StoreKeys ==
  {JobKey} \cup {PayloadKey(c) : c \in Contents} \cup {ClaimKey(g) : g \in Gens}
  \cup {TerminalKey(kind) : kind \in Terminals} \cup {TermIndex(kind) : kind \in Terminals}
  \cup {LeaseIndex(g, t) : g \in Gens, t \in Times} \cup {DelayIndex(t) : t \in Times}
Items == [key : StoreKeys, at : 0..Now]

\* Type invariant: the keys are those of one job, and what a task remembers of
\* a listing are such keys with a store time.
TypeOK ==
  /\ DOMAIN store \subseteq StoreKeys
  /\ \A k \in DOMAIN store : store[k].at \in 0..Now /\ store[k].life \in 0..MaxLives
  /\ \A a \in Agents : /\ agent[a].todo \in SUBSET Items
                       /\ agent[a].item \in SUBSET Items /\ Cardinality(agent[a].item) <= 1
                       /\ agent[a].graph \in SUBSET StoreKeys
                       /\ agent[a].found \in SUBSET {"orphan", "gap", "payload", "duplicate"}
  /\ memo \in [Clients -> Contents \cup {0}]
  /\ ended \in SUBSET (1..MaxLives)
  /\ lives \in 0..MaxLives
  /\ faults \in 0..MaxFaults

\* No resurrection (delete_terminal_graph keeps the terminal record for last):
\* the job record of a life that ended never stands without a terminal record.
NoResurrection ==
  Present(JobKey) /\ store[JobKey].life \in ended => Finished

\* A live job has its payload: gc's orphan passes and a graph's deletion never
\* take the payload of a job that is still to be delivered.
PayloadKept ==
  Present(JobKey) /\ store[JobKey].life \notin ended /\ store[JobKey].rec \notin Inline
    => Present(PayloadKey(store[JobKey].rec))

\* Nothing is left behind: in the end every object of the job is collected.
EventuallyEmpty == <>[](DOMAIN store = {})

\* The repair scan never reports a hole in the chain or a missing payload of a
\* job that is still to be delivered, whatever gc and the workers do meanwhile
\* (repair_shard, audit_claim_chain).
LiveJobsNotReported ==
  [][\A a \in Keepers : agent'[a].found \cap {"payload", "gap"} # agent[a].found \cap {"payload", "gap"}
       => agent'[a] = Idle \/ ~Present(JobKey) \/ store[JobKey].life \in ended]_vars

\* Index entries are filed by bucket (bucket_number in enqueue, nack, try_claim and
\* the sweeps): none is missed or taken a bucket early, for all times and widths.
BucketsSound ==
  Init => \A t \in Words, width \in Words \ {0} : BucketSound(t, width)

\* Backoff doubles up to the cap without wrapping, and jitter is fair and takes
\* away at most half (retry_delay_ms, sample_offset, nack), for all policies.
BackoffsSound ==
  Init => /\ \A p \in {q \in Policies : Valid(q)}, attempt \in 1..(WordBits + 1),
               x \in {0, MaxWord} : BackoffSound(p, attempt, [i \in 1..Rejections |-> x])
          /\ \A span \in Words \ {0} :
               /\ SamplingFair(span)
               /\ \A draws \in [1..Rejections -> Words] : SampleOffset(span, draws) < span
=============================================================================
