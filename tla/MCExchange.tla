----------------------------- MODULE MCExchange -----------------------------
(* Exchange for TLC. *)
EXTENDS Exchange, TLC

\* Four years from 1970, and the turns of February in 2000 and in 2100, the leap
\* century and the one that is none.
SomeDays == (0 .. 1500) \cup (11000 .. 11050) \cup (47520 .. 47570)

\* A listing ends with the first of its exchanges that goes wrong.
SomeSuites ==
  {[calls |-> {"put", "delete", "list"}, faults |-> 1]}
  \cup [calls : {{"put", "delete"}, {"bytes"}, {"hint"}}, faults : {2}]

ClientSymmetry == Permutations(Clients)
=============================================================================
