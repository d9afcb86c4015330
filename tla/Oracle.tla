------------------------------- MODULE Oracle -------------------------------
(***************************************************************************)
(* What the queue promises about one job: the logical oracle of the test   *)
(* kit (crates/stowq-testkit/src/oracle.rs), lifted from one caller at a   *)
(* time to concurrent callers.                                             *)
(*                                                                         *)
(* The oracle keeps the current phase.  Here a caller acts on any phase    *)
(* the job has been in: it may have looked at the job before another       *)
(* caller moved it on.  Only claim and renew name the next generation, and *)
(* so succeed only on a phase of the last one.  `phases' holds the phases  *)
(* the job has been in before its first terminal record.                   *)
(***************************************************************************)
EXTENDS Integers

CONSTANTS
  MaximumAttempts,  \* JobState.maximum_attempts
  NotBefore,        \* the delay of the job, 0 for none
  Leases,           \* lease durations callers ask for
  Delays            \* delays of the retry policy

VARIABLES
  clock,            \* Oracle.clock
  phases,           \* the phases the job has been in
  outcome           \* its terminal records: receipt, buried or exhausted

vars == <<clock, phases, outcome>>

Ready == [kind |-> "ready", gen |-> 0, attempt |-> 0, until |-> NotBefore]
Claimed(g, a, expiry) ==
  [kind |-> "claimed", gen |-> g, attempt |-> a, until |-> expiry]
Backoff(g, a, notBefore) ==
  [kind |-> "backoff", gen |-> g, attempt |-> a, until |-> notBefore]

Held == {p \in phases : p.kind = "claimed"}
Last(p) == \A q \in phases : q.gen <= p.gen

Init ==
  /\ clock = 0
  /\ phases = {Ready}
  /\ outcome = {}

AdvanceClock ==
  /\ clock' > clock
  /\ UNCHANGED <<phases, outcome>>

\* The lease is based on the store time of the claim object.
Lease(g, a) ==
  \E base \in 0..clock, lease \in Leases :
    phases' = phases \cup {Claimed(g, a, base + lease)}

CanClaim(p) == clock >= p.until /\ p.attempt < MaximumAttempts

Claim ==
  /\ outcome = {}
  /\ \E p \in phases : Last(p) /\ CanClaim(p) /\ Lease(p.gen + 1, p.attempt + 1)
  /\ UNCHANGED <<clock, outcome>>

Renew ==
  /\ outcome = {}
  /\ \E p \in Held : Last(p) /\ Lease(p.gen + 1, p.attempt)
  /\ UNCHANGED <<clock, outcome>>

\* First write wins: a generation is nacked once.
Nack ==
  /\ \E p \in Held, floor \in 0..clock, delay \in Delays :
       /\ \A q \in phases : q.gen = p.gen => q.kind = "claimed"
       /\ phases' = phases \cup {Backoff(p.gen, p.attempt, floor + delay)}
  /\ UNCHANGED <<clock, outcome>>

\* The terminal records of a kind exist once, whichever caller writes first.
Dead == outcome \cap {"buried", "exhausted"} # {}

Ack ==
  /\ Held # {}
  /\ outcome' = outcome \cup {"receipt"}
  /\ UNCHANGED <<clock, phases>>

Bury ==
  /\ Held # {}
  /\ ~Dead
  /\ outcome' = outcome \cup {"buried"}
  /\ UNCHANGED <<clock, phases>>

ExhaustIfDue ==
  /\ \E p \in Held : clock >= p.until /\ p.attempt + 1 > MaximumAttempts
  /\ ~Dead
  /\ outcome' = outcome \cup {"exhausted"}
  /\ UNCHANGED <<clock, phases>>

Move == phases' # phases /\ (Claim \/ Renew \/ Nack)
Settle == outcome' # outcome /\ (Ack \/ Bury \/ ExhaustIfDue)

Next == AdvanceClock \/ Move \/ Settle

Spec == Init /\ [][Next]_vars

============================================================================
