-------------------------- MODULE MCSandboxPayout --------------------------
(***************************************************************************)
(* An instance of SandboxPayout for TLC: two quotes on one balance that    *)
(* does not cover both until it is topped up twice, ordered under two keys  *)
(* with every scenario, with and without a settlement invoice.  Key k1 is  *)
(* reused for another quote and for another scenario.                      *)
(***************************************************************************)
EXTENDS SandboxPayout, TLC

CONSTANTS k1, k2, q1, q2

MCKeys == {k1, k2}
MCQuotes == {q1, q2}
MCAmount == q1 :> 2 @@ q2 :> 1

Ordered(k, q, s, i) == [key |-> k, quote |-> q, outcome |-> s, invoiced |-> i]

MCOrders == {Ordered(k1, q1, "success", TRUE), Ordered(k1, q1, "timeout", TRUE),
             Ordered(k1, q2, "failure", FALSE), Ordered(k2, q1, "failure", TRUE),
             Ordered(k2, q2, "timeout", TRUE), Ordered(k2, q2, "success", FALSE)}

Symmetry == Permutations(Handlers)

=============================================================================
