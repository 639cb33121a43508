-------------------------- MODULE MCPaymentEngine --------------------------
(***************************************************************************)
(* Instances of PaymentEngine for TLC.  Invoice i1 is submitted under two  *)
(* keys, i2 under k2 only; k2 is also submitted with two different bodies. *)
(***************************************************************************)
EXTENDS PaymentEngine, TLC

CONSTANTS k1, k2, i1, i2

MCKeys == {k1, k2}
MCInvoices == {i1, i2}
MCBodies == {<<k1, i1>>, <<k2, i1>>, <<k2, i2>>}

Symmetry == Permutations(Requests)

=============================================================================
