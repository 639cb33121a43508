-------------------------- MODULE MCDepositWatcher --------------------------
(***************************************************************************)
(* An instance of DepositWatcher for TLC: two addresses that require one   *)
(* and two confirmations, with one deposit each.                           *)
(***************************************************************************)
EXTENDS DepositWatcher, TLC

CONSTANTS a1, a2, d1, d2

MCAddresses == {a1, a2}
MCDeposits == {d1, d2}
MCAddressOf == d1 :> a1 @@ d2 :> a2
MCRequired == a1 :> 2 @@ a2 :> 1

=============================================================================
