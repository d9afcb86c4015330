----------------------------- MODULE Collector -----------------------------
(***************************************************************************)
(* Garbage collection (Queue::gc, delete_terminal_graph): orphan payloads  *)
(* and orphan claims past the horizon, then the graphs of jobs whose       *)
(* terminal record is past retention, object by object.  Every store       *)
(* operation is a step, so the pass interleaves with clients and may be    *)
(* abandoned anywhere.  A failed delete goes unnoticed, as in the code.    *)
(*                                                                         *)
(* The passes are gc's loops; one page holds everything there is.          *)
(***************************************************************************)
EXTENDS Lifecycle, Sequences

CONSTANTS
  Retention,   \* retention_ns
  Horizon      \* orphan_horizon_ns

\* A delete of which the outcome is ignored: done, or failed without notice.
IgnoredDelete(k) ==
  \/ store' = Without(k) /\ UNCHANGED faults
  \/ Present(k) /\ Fault("delete") /\ UNCHANGED store

\* A key as the listing showed it: with the store time of then.
Listed(k) == [key |-> k, at |-> store[k].at]

\* Deviation: the orphan passes have no horizon.
OrphansOfAnyAge(kind, f) == {Listed(k) : k \in Keys({kind})}

\* What the two orphan passes visit: objects older than the horizon.
OrphanCandidates(kind, f) == {Listed(k) : k \in {x \in Keys({kind}) : store[x].at + Horizon < f}}

\* gc takes its present from a floor established just before; it lists payloads.
StartGc(a) ==
  /\ At(a, "idle")
  /\ agent' = [agent EXCEPT ![a] = [Idle EXCEPT
       !.op = "gc_payloads", !.f = Now, !.todo = OrphanCandidates("payload", Now)]]
  /\ UNCHANGED <<store, memo, lives, ended, faults>>

\* A candidate whose job record is there is no orphan.
HeadJob(a) ==
  \E pass \in {<<"gc_payloads", "rehead_payload">>, <<"gc_claims", "rehead_claim">>},
     x \in agent[a].todo :
    /\ At(a, pass[1])
    /\ IF Present(JobKey)
       THEN agent' = [agent EXCEPT ![a].todo = @ \ {x}]
       ELSE agent' = [agent EXCEPT ![a].op = pass[2], ![a].todo = @ \ {x}, ![a].item = {x}]
    /\ UNCHANGED <<store, memo, lives, ended, faults>>

\* The candidate is looked at again: the same store time means the same object.
Rehead(a) ==
  \E step \in {<<"rehead_payload", "gc_payloads", "delete_payload">>,
               <<"rehead_claim", "gc_claims", "delete_claim">>},
     x \in agent[a].item :
    /\ At(a, step[1])
    /\ IF Present(x.key) /\ store[x.key].at = x.at
       THEN Goto(a, step[3])
       ELSE agent' = [agent EXCEPT ![a].op = step[2], ![a].item = {}]
    /\ UNCHANGED <<store, memo, lives, ended, faults>>

DeleteOrphan(a) ==
  \E step \in {<<"delete_payload", "gc_payloads">>, <<"delete_claim", "gc_claims">>},
     x \in agent[a].item :
    /\ At(a, step[1])
    /\ IgnoredDelete(x.key)
    /\ agent' = [agent EXCEPT ![a].op = step[2], ![a].item = {}]
    /\ UNCHANGED <<memo, lives, ended>>

\* The next pass begins with its listing; after the last one gc returns.
NextPass(a) ==
  /\ agent[a].todo = {}
  /\ \/ /\ At(a, "gc_payloads")
        /\ agent' = [agent EXCEPT ![a].op = "gc_claims",
                                  ![a].todo = OrphanCandidates("claim", agent[a].f)]
     \/ /\ At(a, "gc_claims")
        /\ agent' = [agent EXCEPT ![a].op = "gc_terms",
                                  ![a].todo = {Listed(k) : k \in Keys({"termidx.r", "termidx.d"})}]
     \/ /\ At(a, "gc_terms")
        /\ Return(a)
  /\ UNCHANGED <<store, memo, lives, ended, faults>>

\* The terminal record an index entry stands for.
TerminalOf(entry) == TerminalKey(IF entry[1] = "termidx.r" THEN "receipt" ELSE "dead")

\* Deviation: the terminal record goes before the job record.
StagesTerminalFirst(entry) ==
  << Keys({"leases"}), Keys({"delayed"}), {entry}, Keys({"claim"}), Keys({"payload"}),
     {TerminalOf(entry)}, {JobKey} >>

\* The strict order of delete_terminal_graph.  Most stages list what they
\* delete; the index entry, the job and the terminal record are known keys.
Stages(entry) ==
  << Keys({"leases"}), Keys({"delayed"}), {entry}, Keys({"claim"}), Keys({"payload"}),
     {JobKey}, {TerminalOf(entry)} >>

\* An entry is checked against its terminal record: gone, too young, or due.
HeadTerminal(a) ==
  \E x \in agent[a].todo :
    /\ At(a, "gc_terms")
    /\ LET terminal == TerminalOf(x.key) IN
       IF Present(terminal) /\ store[terminal].at + Retention >= agent[a].f
       THEN agent' = [agent EXCEPT ![a].todo = @ \ {x}]
       ELSE agent' = [agent EXCEPT ![a].todo = @ \ {x}, ![a].item = {x},
                        ![a].op = IF Present(terminal) THEN "delete_graph" ELSE "prune_termidx"]
    /\ UNCHANGED <<store, memo, lives, ended, faults>>

PruneTermidx(a) ==
  \E x \in agent[a].item :
    /\ At(a, "prune_termidx")
    /\ IgnoredDelete(x.key)
    /\ agent' = [agent EXCEPT ![a].op = "gc_terms", ![a].item = {}]
    /\ UNCHANGED <<memo, lives, ended>>

\* One stage is done: the next one that lists anything begins, and after the
\* terminal record the pass goes on to the next entry.
NextStage(a) ==
  \E x \in agent[a].item :
    LET next == {n \in agent[a].stage + 1 .. Len(Stages(x.key)) : Stages(x.key)[n] # {}} IN
    /\ At(a, "delete_graph")
    /\ agent[a].graph = {}
    /\ IF next = {}
       THEN agent' = [agent EXCEPT ![a].op = "gc_terms", ![a].item = {}, ![a].stage = 0]
       ELSE \E n \in next :
              /\ \A m \in next : n <= m
              /\ agent' = [agent EXCEPT ![a].stage = n, ![a].graph = Stages(x.key)[n]]
    /\ UNCHANGED <<store, memo, lives, ended, faults>>

\* One object of the graph is deleted.
DeleteFromGraph(a) ==
  \E k \in agent[a].graph :
    /\ At(a, "delete_graph")
    /\ IgnoredDelete(k)
    /\ agent' = [agent EXCEPT ![a].graph = @ \ {k}]
    /\ UNCHANGED <<memo, lives, ended>>

GcStep(a) ==
  \/ HeadJob(a) \/ Rehead(a) \/ DeleteOrphan(a) \/ NextPass(a)
  \/ HeadTerminal(a) \/ PruneTermidx(a) \/ NextStage(a) \/ DeleteFromGraph(a)
=============================================================================
