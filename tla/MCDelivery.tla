----------------------------- MODULE MCDelivery -----------------------------
(* Delivery for TLC: two jobs of different kinds.  Two executions of the first
   may disagree about its output, or bury it; the second has one attempt. *)
EXTENDS Delivery, TLC

TwoOutputs == <<{<<>>, <<"a">>, <<"b">>}, {<<>>}>>
TwoFailures == <<{"bury"}, {"nack"}>>
TwoAttempts == <<2, 1>>

WorkerSymmetry == Permutations(Workers)
=============================================================================
