-------------------------- MODULE PaymentLifecycle --------------------------
(***************************************************************************)
(* What the outgoing payment engine promises its callers, API clients and  *)
(* the sandbox alike: under one idempotency key there is one payment, at   *)
(* most one caller gets it to the node, the payment runs once through its  *)
(* states, and each outcome is announced once, when it is recorded.        *)
(* PaymentEngine implements this; SandboxPayout is built on it.            *)
(***************************************************************************)
EXTENDS Sequences

CONSTANTS
    Keys,    \* idempotency keys
    Callers  \* calls of send_payment

VARIABLES
    status,   \* the status of each key's payment
    emitted,  \* the events announced for it
    askers    \* the callers that have handed it to the node

vars == <<status, emitted, askers>>

Init ==
    /\ status = [k \in Keys |-> "absent"]
    /\ emitted = [k \in Keys |-> <<>>]
    /\ askers = [k \in Keys |-> {}]

\* A payment moves on without an announcement.
Move(k, from, to) ==
    /\ status[k] = from
    /\ status' = [status EXCEPT ![k] = to]
    /\ UNCHANGED <<emitted, askers>>

\* A payment reaches a status that callers are told of.
Announce(k, from, to) ==
    /\ status[k] \in from
    /\ status' = [status EXCEPT ![k] = to]
    /\ emitted' = [emitted EXCEPT ![k] = Append(@, to)]
    /\ UNCHANGED askers

\* The first caller under a key creates the payment.
Create(k) == Move(k, "absent", "created")

\* `pending` comes before the node is asked.
Submit(k) == Move(k, "created", "pending")

\* One caller, and no other after it, hands the payment to the node.
Ask(k, c) ==
    /\ status[k] \notin {"absent", "created"} /\ askers[k] = {}
    /\ askers' = [askers EXCEPT ![k] = {c}]
    /\ UNCHANGED <<status, emitted>>

\* A payment that was never dispatched is refused.
Refuse(k) == Announce(k, {"created"}, "failed")

\* Nobody can tell what became of the payment.
Lose(k) == Announce(k, {"pending"}, "unknown")

\* The node's word decides.
Resolve(k) == \E to \in {"succeeded", "failed"} : Announce(k, {"pending", "unknown"}, to)

Next == \E k \in Keys : \/ Create(k) \/ Submit(k) \/ Refuse(k) \/ Lose(k) \/ Resolve(k)
                        \/ \E c \in Callers : Ask(k, c)

Spec == Init /\ [][Next]_vars

=============================================================================
