--------------------------- MODULE CustodyOracle ---------------------------
(***************************************************************************)
(* Custody implements the oracle.  The phases of the job are read off the  *)
(* store: every claim and every fail record is one, up to the first        *)
(* terminal record, after which the oracle no longer looks at the chain.   *)
(***************************************************************************)
EXTENDS Custody

\* The claims that were there when the first terminal record was written.
Counted ==
  {g \in Chain : /\ Present(ReceiptKey) => g <= store[ReceiptKey].depth
                 /\ Present(DeadKey) => g <= store[DeadKey].depth}

Phases ==
  LET counted == Counted
  IN {[kind |-> "ready", gen |-> 0, attempt |-> 0, until |-> NotBefore]}
       \cup {[kind |-> "claimed", gen |-> g, attempt |-> ClaimAt(g).rec.attempt,
              until |-> ClaimAt(g).at + ClaimAt(g).rec.dur] : g \in counted}
       \cup {[kind |-> "backoff", gen |-> g,
              attempt |-> store[FailKey(g)].rec.attempt,
              until |-> store[FailKey(g)].rec.retry] :
               g \in {h \in counted : Present(FailKey(h))}}

Outcome ==
  {o \in {"receipt"} : Present(ReceiptKey)}
    \cup {o \in {"buried"} :
            Present(DeadKey) /\ store[DeadKey].rec.reason = "bury"}
    \cup {o \in {"exhausted"} :
            Present(DeadKey) /\ store[DeadKey].rec.reason = "exhausted"}

Job == INSTANCE Oracle WITH
         Leases <- Durations, Delays <- Backoffs,
         clock <- now, phases <- Phases, outcome <- Outcome

\* Whatever two workers, a network that loses and delays answers, stale hints
\* and crashes do to it, the job goes through phases the oracle allows: the
\* store operations of claim, renew, ack, nack and bury (stowq-core) implement
\* the oracle's operations, one conditional put each, and all else is hidden.
ImplementsOracle == Job!Spec

\* The same of every step that moves `now' or `store', which is all that the
\* phases and the outcome are read off (try_claim, renew, ack and bury).
OracleSteps ==
  [][now' # now \/ store' # store => [Job!Next]_(Job!vars)]_vars

============================================================================
