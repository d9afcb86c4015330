----------------------------- MODULE Lifecycle -----------------------------
(***************************************************************************)
(* The objects of one job id from enqueue to collection, and the client    *)
(* calls that write them: enqueue and, in the shape that matters to the    *)
(* maintenance passes, claim and ack (module Custody has these in full).   *)
(*                                                                         *)
(* `store' maps the keys that are present to an object.  A key is a tuple  *)
(* <<kind, n, due>>: n is a content (payload) or a generation (claim,      *)
(* lease), due the time in the key of a lease or delay entry.  Terminal    *)
(* index entries have a bucket too, which gc and repair never read.        *)
(*                                                                         *)
(* Time is counted in epochs, relative to the current one: the present is  *)
(* always Now, and when the clock ticks every time in the state moves one  *)
(* epoch into the past.  0 stands for Now epochs ago or more.              *)
(***************************************************************************)
EXTENDS Integers, FiniteSets

CONSTANTS
  Clients,          \* tasks that enqueue, claim and acknowledge
  Keepers,          \* tasks that run gc, the sweeps and the repair scan
  Contents,         \* what an enqueue may be asked to store (naturals)
  Inline,           \* contents within the inline limit
  Delayed,          \* contents enqueued with not_before
  Delay,            \* how far ahead not_before lies
  Lease,            \* lease duration
  MaximumAttempts,  \* job.maximum_attempts
  MaxLives,         \* bound: how many enqueue calls are made
  MaxFaults,        \* bound: how many faults happen
  Faults,           \* the kinds of fault of this instance
  Reuse,            \* whether an id is enqueued again before it is collected
  Now               \* bound: how many epochs are told apart

VARIABLES
  store,   \* the objects that are present
  agent,   \* per task: the call it is in, and what it has read
  memo,    \* per client: version of the job it has proved terminal, or 0
  lives,   \* history: how many enqueue calls were made
  ended,   \* history: the lives for which a terminal record was committed
  faults   \* how many faults happened

vars == <<store, agent, memo, lives, ended, faults>>

Agents == Clients \cup Keepers
Terminals == {"receipt", "dead"}

JobKey == <<"job", 0, 0>>
PayloadKey(c) == <<"payload", c, 0>>
ClaimKey(g) == <<"claim", g, 0>>
TerminalKey(kind) == <<kind, 0, 0>>
LeaseIndex(g, due) == <<"leases", g, due>>
DelayIndex(due) == <<"delayed", 0, due>>
TermIndex(kind) == <<IF kind = "receipt" THEN "termidx.r" ELSE "termidx.d", 0, 0>>

Present(k) == k \in DOMAIN store
Keys(kinds) == {k \in DOMAIN store : k[1] \in kinds}
Finished == \E kind \in Terminals : Present(TerminalKey(kind))

\* The last generation that is there, as list_tail and claim_tail read it; 0
\* for an empty chain.
LastGen == LET gens == {k[2] : k \in Keys({"claim"})}
        IN  IF gens = {} THEN 0 ELSE CHOOSE g \in gens : \A h \in gens : h <= g

\* job.not_before_ns, which the producer chose when it enqueued.
NotBefore(job) == IF job.rec \in Delayed THEN job.at + Delay ELSE 0

\* An object has its store time, what its record says, and (history) the life
\* of the job it was written for.
Object(rec, life) == [at |-> Now, rec |-> rec, life |-> life]

\* A conditional put writes an absent key and leaves a present one alone.
With(k, o) == [x \in DOMAIN store \cup {k} |-> IF x \in DOMAIN store THEN store[x] ELSE o]
Without(k) == [x \in DOMAIN store \ {k} |-> store[x]]

\* What a task remembers: the step it is at; content, floor, generation and
\* life it works on; listed keys still to visit, the one in hand ({} for none),
\* the keys of a graph still to delete (or of an index entry still to write), how
\* far the deletion has come, and what a repair scan has reported so far.
Idle == [op |-> "idle", c |-> 0, f |-> 0, g |-> 0, life |-> 0,
         todo |-> {}, item |-> {}, graph |-> {}, stage |-> 0, found |-> {}]
At(a, op) == agent[a].op = op
Goto(a, op) == agent' = [agent EXCEPT ![a].op = op]
Return(a) == agent' = [agent EXCEPT ![a] = Idle]

\* A fault of this kind may still happen, and happens.
Fault(kind) == /\ kind \in Faults
               /\ faults < MaxFaults
               /\ faults' = faults + 1

\* A best-effort write of an advisory entry: done, or lost without notice.
BestEffort(k) ==
  \/ store' = With(k, [at |-> 0, rec |-> 0, life |-> 0]) /\ UNCHANGED faults
  \/ ~Present(k) /\ Fault("index") /\ UNCHANGED store

Init ==
  /\ store = [k \in {} |-> Idle]
  /\ agent = [a \in Agents |-> Idle]
  /\ memo = [a \in Clients |-> 0]
  /\ lives = 0
  /\ ended = {}
  /\ faults = 0

-----------------------------------------------------------------------------
(* Enqueue: payload, then job record, then delay index. *)

\* The call of a producer with a deterministic job id.
Enqueue(a, c) ==
  /\ At(a, "idle")
  /\ lives < MaxLives
  /\ Reuse \/ \A k \in DOMAIN store : k[1] \in {"job", "payload"} => store[k].at = Now
  /\ Reuse \/ Keys({"receipt", "dead"}) = {}
  /\ lives' = lives + 1
  /\ agent' = [agent EXCEPT ![a] = [Idle EXCEPT
       !.op = IF c \in Inline THEN "put_job" ELSE "put_payload", !.c = c, !.f = Now,
       !.life = lives + 1]]
  /\ UNCHANGED <<store, memo, ended, faults>>

\* put_bytes_resolving, answered: winning and losing the key both mean that the
\* bytes are in place.
PutPayload(a) ==
  /\ At(a, "put_payload")
  /\ store' = With(PayloadKey(agent[a].c), Object(0, agent[a].life))
  /\ Goto(a, "put_job")
  /\ UNCHANGED <<memo, lives, ended, faults>>

\* A put of the payload or of the job record that gets no answer, applied or
\* not; the caller goes on to look.
PutUnanswered(a) ==
  /\ \E step \in {<<"put_payload", "resolve_presence">>, <<"put_job", "resolve_unknown">>} :
       At(a, step[1]) /\ Goto(a, step[2])
  /\ Fault("unanswered")
  /\ \/ UNCHANGED store
     \/ At(a, "put_payload") /\ store' = With(PayloadKey(agent[a].c), Object(0, agent[a].life))
     \/ At(a, "put_job") /\ store' = With(JobKey, Object(agent[a].c, agent[a].life))
  /\ UNCHANGED <<memo, lives, ended>>

\* resolve_presence: the payload is there, or the put is repeated.
ResolvePresence(a) ==
  /\ At(a, "resolve_presence")
  /\ Goto(a, IF Present(PayloadKey(agent[a].c)) THEN "put_job" ELSE "put_payload")
  /\ UNCHANGED <<store, memo, lives, ended, faults>>

\* After the job record is known to be ours: the delay index, if any.
JobCommitted(a) == IF agent[a].c \in Delayed THEN Goto(a, "put_delay") ELSE Return(a)

\* The enqueue linearization point.  A loser reads the winner's record, which
\* decides between Committed and IdTaken, and writes no delay index.
PutJob(a) ==
  /\ At(a, "put_job")
  /\ store' = With(JobKey, Object(agent[a].c, agent[a].life))
  /\ IF Present(JobKey) THEN Return(a) ELSE JobCommitted(a)
  /\ UNCHANGED <<memo, lives, ended, faults>>

\* resolve_unknown: absent repeats the put, an identical record is ours,
\* anything else has lost.
ResolveUnknown(a) ==
  /\ At(a, "resolve_unknown")
  /\ IF ~Present(JobKey) THEN Goto(a, "put_job")
     ELSE IF store[JobKey].rec = agent[a].c THEN JobCommitted(a) ELSE Return(a)
  /\ UNCHANGED <<store, memo, lives, ended, faults>>

\* The best-effort delay index, in the bucket of not_before.
PutDelay(a) ==
  /\ At(a, "put_delay")
  /\ BestEffort(DelayIndex(agent[a].f + Delay))
  /\ Return(a)
  /\ UNCHANGED <<memo, lives, ended>>

-----------------------------------------------------------------------------
(* Claim and ack. *)

\* claim_many lists the shard's jobs; a job this handle has proved terminal at
\* the listed version is skipped.  The version is the content's: stores with
\* content-addressed ETags repeat it.
Scan(a) ==
  /\ At(a, "idle")
  /\ Present(JobKey)
  /\ memo[a] # store[JobKey].rec
  /\ agent' = [agent EXCEPT ![a] = [Idle EXCEPT
       !.op = "gather", !.c = store[JobKey].rec, !.f = Now, !.life = store[JobKey].life]]
  /\ UNCHANGED <<store, memo, lives, ended, faults>>

\* try_claim gathers the terminal probes and the chain's tail in one window: a
\* terminal record is memoized, a lease that has not expired ends the attempt.
Gather(a) ==
  /\ At(a, "gather")
  /\ IF Finished
     THEN memo' = [memo EXCEPT ![a] = agent[a].c] /\ Return(a)
     ELSE /\ UNCHANGED memo
          /\ IF LastGen > 0 /\ agent[a].f < store[ClaimKey(LastGen)].at + Lease
             THEN Return(a)
             ELSE agent' = [agent EXCEPT ![a].op = "read_job", ![a].g = LastGen]
  /\ UNCHANGED <<store, lives, ended, faults>>

\* Deviation: an exhausted job is claimed again.
ReadJobUnbounded(a) ==
  /\ At(a, "read_job")
  /\ IF ~Present(JobKey) \/ agent[a].f < NotBefore(store[JobKey]) THEN Return(a)
     ELSE agent' = [agent EXCEPT ![a].op = "put_claim", ![a].f = 0, ![a].life = store[JobKey].life]
  /\ UNCHANGED <<store, memo, lives, ended, faults>>

\* The job record decides: gone, not due, exhausted, or to be claimed.
ReadJob(a) ==
  /\ At(a, "read_job")
  /\ IF ~Present(JobKey) THEN Return(a)
     ELSE IF agent[a].f < NotBefore(store[JobKey]) THEN Return(a)
     ELSE IF agent[a].g >= MaximumAttempts
          THEN agent' = [agent EXCEPT ![a].op = "put_dead", ![a].f = 0, ![a].life = store[JobKey].life]
     ELSE agent' = [agent EXCEPT ![a].op = "put_claim", ![a].f = 0, ![a].life = store[JobKey].life]
  /\ UNCHANGED <<store, memo, lives, ended, faults>>

\* The claim linearization point.
PutClaim(a) ==
  /\ At(a, "put_claim")
  /\ LET k == ClaimKey(agent[a].g + 1)
     IN  /\ store' = With(k, Object(0, agent[a].life))
         /\ IF Present(k) THEN Return(a)
            ELSE agent' = [agent EXCEPT ![a].op = "put_lease", ![a].g = @ + 1,
                             ![a].graph = {LeaseIndex(agent[a].g + 1, Now + Lease)}]
  /\ UNCHANGED <<memo, lives, ended, faults>>

\* The best-effort lease index, in the bucket of the lease's end.
PutLease(a) ==
  /\ At(a, "put_lease")
  /\ \E k \in agent[a].graph : BestEffort(k)
  /\ agent' = [agent EXCEPT ![a].op = "hold", ![a].graph = {}]
  /\ UNCHANGED <<memo, lives, ended>>

\* ack refuses a dead-lettered job and re-verifies the payload.
Ack(a) ==
  /\ At(a, "hold")
  /\ IF \/ Present(TerminalKey("dead"))
        \/ agent[a].c \notin Inline /\ ~Present(PayloadKey(agent[a].c))
     THEN Return(a)
     ELSE Goto(a, "put_receipt")
  /\ UNCHANGED <<store, memo, lives, ended, faults>>

\* The receipt of an ack, or the dead record of an exhausted claim.
PutTerminal(a) ==
  \E kind \in Terminals :
    /\ At(a, IF kind = "receipt" THEN "put_receipt" ELSE "put_dead")
    /\ store' = With(TerminalKey(kind), Object(0, agent[a].life))
    /\ IF Present(TerminalKey(kind))
       THEN Return(a) /\ UNCHANGED ended
       ELSE /\ Goto(a, IF kind = "receipt" THEN "put_termidx.r" ELSE "put_termidx.d")
            /\ ended' = ended \cup {agent[a].life}
    /\ UNCHANGED <<memo, lives, faults>>

\* write_termidx: best effort.
WriteTermidx(a) ==
  \E kind \in Terminals :
    /\ At(a, IF kind = "receipt" THEN "put_termidx.r" ELSE "put_termidx.d")
    /\ BestEffort(TermIndex(kind))
    /\ Return(a)
    /\ UNCHANGED <<memo, lives, ended>>

-----------------------------------------------------------------------------
\* Any call may end early: the process dies, the operation budget or the
\* transport retries run out, a read fails.  What was written stays.
Abandon(a) ==
  /\ ~At(a, "idle")
  /\ Fault("crash")
  /\ Return(a)
  /\ UNCHANGED <<store, memo, lives, ended>>

ClientStep(a) ==
  \/ PutPayload(a) \/ PutUnanswered(a) \/ ResolvePresence(a)
  \/ PutJob(a) \/ ResolveUnknown(a) \/ PutDelay(a)
  \/ Scan(a) \/ Gather(a) \/ ReadJob(a)
  \/ PutClaim(a) \/ PutLease(a) \/ Ack(a) \/ PutTerminal(a) \/ WriteTermidx(a)
=============================================================================
