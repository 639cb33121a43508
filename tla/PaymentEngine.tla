--------------------------- MODULE PaymentEngine ---------------------------
(***************************************************************************)
(* Outgoing Lightning payments of Safrod: the durable ledger row of an     *)
(* idempotency key, the HTTP handlers that send and reconcile a payment,   *)
(* the task that pumps node events, startup reconciliation, and crashes.   *)
(*                                                                         *)
(* The ledger is a Postgres table, so each transaction is one step and     *)
(* survives a crash.  Handlers interleave between their transactions and   *)
(* their calls to the embedded LDK node.  The node is external: it is      *)
(* modelled from how safrod-lightning and the engine use it.               *)
(***************************************************************************)
EXTENDS Naturals, Sequences

CONSTANTS
    Keys,        \* idempotency keys of one project; a key names one ledger row
    Invoices,    \* BOLT11 invoices, one per payment hash
    Bodies,      \* the <<key, invoice>> pairs that clients send
    Requests,    \* POST /v1/lightning/payments calls, each handled once
    Reconcilers, \* concurrent callers of POST .../payments/{id}/reconcile
    Startup,     \* the reconcile_all pass that runs before traffic is served
    None,        \* an unset key or invoice
    MaxCrashes   \* bound on process crashes

ASSUME BodiesAssumption == Bodies \subseteq Keys \X Invoices
ASSUME NoneAssumption == None \notin Keys \union Invoices
ASSUME StartupAssumption == Startup \notin Reconcilers
ASSUME CrashAssumption == MaxCrashes \in Nat

VARIABLES
    (* the outgoing_payments, events and node_events tables *)
    status, bolt11, reason, born, clock, emitted, claimed,
    (* the LDK node: its payment store and its queue of unacknowledged events *)
    node, queue, issued,
    (* handlers, background tasks and the process *)
    pc, keyOf, rpc, rkey, seen, next, why, ppc, pkey, phase, todo, crashes,
    (* history: requests that reached the node, the event that settled a row *)
    asked, resolvedBy

rowVars  == <<status, bolt11, reason, born, clock, emitted>>
ledger   == <<rowVars, claimed, resolvedBy>>
nodeVars == <<node, queue, issued>>
call     == <<pc, keyOf>>                  \* send_payment handlers
recon    == <<rpc, rkey, seen, next, why>> \* reconcile_payment callers
pump     == <<ppc, pkey>>                  \* the event pump
process  == <<phase, todo, crashes>>
vars     == <<ledger, nodeVars, call, recon, pump, process, asked>>

Open    == {"created", "pending", "unknown"}
Final   == {"succeeded", "failed"}
PaymentStatus == Open \union Final
Reasons == {"none", "refused", "never_dispatched", "reported_by_node", "event"}
NodeStatus == {"none", "inflight", "succeeded", "failed"}
NodeEvent  == [id : Nat, invoice : Invoices, outcome : Final]

Actors == Reconcilers \union {Startup}

TypeOK ==
    /\ status \in [Keys -> PaymentStatus \union {"absent"}]
    /\ bolt11 \in [Keys -> Invoices \union {None}]
    /\ reason \in [Keys -> Reasons]
    /\ born \in [Keys -> Nat] /\ clock \in Nat
    /\ emitted \in [Keys -> Seq(Final \union {"unknown"})]
    /\ claimed \subseteq Final \X Keys
    /\ node \in [Invoices -> NodeStatus]
    /\ queue \in Seq(NodeEvent) /\ issued \in Nat
    /\ pc \in [Requests -> {"idle", "begun", "marked", "detached", "refused", "done"}]
    /\ keyOf \in [Requests -> Keys \union {None}]
    /\ rpc \in [Actors -> {"idle", "ask", "pass", "apply"}]
    /\ rkey \in [Actors -> Keys \union {None}]
    /\ seen \in [Actors -> PaymentStatus \union {"absent"}]
    /\ next \in [Actors -> Final \union {"unknown", "absent"}]
    /\ why \in [Actors -> Reasons]
    /\ ppc \in {"idle", "apply", "ack"} /\ pkey \in Keys \union {None}
    /\ phase \in {"serving", "down", "recovering"}
    /\ todo \subseteq Keys
    /\ crashes \in Nat
    /\ asked \subseteq Requests
    /\ resolvedBy \in [Keys -> Nat]

Init ==
    /\ status = [k \in Keys |-> "absent"]
    /\ bolt11 = [k \in Keys |-> None]
    /\ reason = [k \in Keys |-> "none"]
    /\ born = [k \in Keys |-> 0] /\ clock = 0
    /\ emitted = [k \in Keys |-> <<>>]
    /\ claimed = {}
    /\ node = [i \in Invoices |-> "none"]
    /\ queue = <<>> /\ issued = 0
    /\ pc = [r \in Requests |-> "idle"]
    /\ keyOf = [r \in Requests |-> None]
    /\ rpc = [c \in Actors |-> "idle"]
    /\ rkey = [c \in Actors |-> None]
    /\ seen = [c \in Actors |-> "absent"]
    /\ next = [c \in Actors |-> "absent"]
    /\ why = [c \in Actors |-> "none"]
    /\ ppc = "idle" /\ pkey = None
    /\ phase = "serving" /\ todo = {} /\ crashes = 0
    /\ asked = {}
    /\ resolvedBy = [k \in Keys |-> 0]

-----------------------------------------------------------------------------
(* The state machine of a payment and the transaction that advances it.    *)

\* Mutant: a late success event may reopen a failed payment.
CanTransition_Reopens(from, to) ==
    \/ from = "created" /\ to \in {"pending", "failed"}
    \/ from = "pending" /\ to \in {"succeeded", "failed", "unknown"}
    \/ from \in {"unknown", "failed"} /\ to \in Final \ {from}

CanTransition(from, to) ==
    \/ from = "created" /\ to \in {"pending", "failed"}
    \/ from = "pending" /\ to \in {"succeeded", "failed", "unknown"}
    \/ from = "unknown" /\ to \in Final

\* transition_payment returns Ok: the row moves, or already is where it should be.
Accepts(k, to) == status[k] = to \/ CanTransition(status[k], to)

\* Mutant: every transition is announced, `pending` too.
TransitionPayment_EmitsPending(k, to, because) ==
    IF CanTransition(status[k], to)
    THEN /\ status' = [status EXCEPT ![k] = to]
         /\ reason' = IF because = "none" THEN reason ELSE [reason EXCEPT ![k] = because]
         /\ emitted' = [emitted EXCEPT ![k] = Append(@, to)]
         /\ UNCHANGED <<bolt11, born, clock>>
    ELSE UNCHANGED rowVars

\* Mutant: repeating the current status is announced again.
TransitionPayment_RepeatsEvent(k, to, because) ==
    IF Accepts(k, to)
    THEN /\ status' = [status EXCEPT ![k] = to]
         /\ reason' = IF because = "none" THEN reason ELSE [reason EXCEPT ![k] = because]
         /\ emitted' = IF to = "pending" THEN emitted
                       ELSE [emitted EXCEPT ![k] = Append(@, to)]
         /\ UNCHANGED <<bolt11, born, clock>>
    ELSE UNCHANGED rowVars

\* The transaction: row and outbox event commit together, or nothing changes.
TransitionPayment(k, to, because) ==
    IF CanTransition(status[k], to)
    THEN /\ status' = [status EXCEPT ![k] = to]
         /\ reason' = IF because = "none" THEN reason ELSE [reason EXCEPT ![k] = because]
         /\ emitted' = IF to = "pending" THEN emitted
                       ELSE [emitted EXCEPT ![k] = Append(@, to)]
         /\ UNCHANGED <<bolt11, born, clock>>
    ELSE UNCHANGED rowVars

-----------------------------------------------------------------------------
(* send_payment: begin, mark pending, dispatch, record a refusal.          *)

\* Mutant: a retry that finds the row still `created` carries on with it.
BeginPayment_Resumes(r) ==
    /\ phase = "serving" /\ pc[r] = "idle"
    /\ \E b \in Bodies :
        /\ status[b[1]] \in {"absent", "created"}
        /\ status' = [status EXCEPT ![b[1]] = "created"]
        /\ bolt11' = [bolt11 EXCEPT ![b[1]] = IF @ = None THEN b[2] ELSE @]
        /\ clock' = clock + 1
        /\ born' = [born EXCEPT ![b[1]] = clock']
        /\ pc' = [pc EXCEPT ![r] = "begun"] /\ keyOf' = [keyOf EXCEPT ![r] = b[1]]
        /\ UNCHANGED <<reason, emitted>>
    /\ UNCHANGED <<claimed, resolvedBy, nodeVars, recon, pump, process, asked>>

\* begin_payment inserts the row, or finds the key taken: the caller is then
\* answered from the stored row, or with a conflict if the body differs.
BeginPayment(r) ==
    /\ phase = "serving" /\ pc[r] = "idle"
    /\ \E b \in Bodies :
        \/ /\ status[b[1]] = "absent"
           /\ status' = [status EXCEPT ![b[1]] = "created"]
           /\ bolt11' = [bolt11 EXCEPT ![b[1]] = b[2]]
           /\ clock' = clock + 1
           /\ born' = [born EXCEPT ![b[1]] = clock']
           /\ pc' = [pc EXCEPT ![r] = "begun"] /\ keyOf' = [keyOf EXCEPT ![r] = b[1]]
           /\ UNCHANGED <<reason, emitted>>
        \/ /\ status[b[1]] # "absent"
           /\ pc' = [pc EXCEPT ![r] = "done"] /\ keyOf' = [keyOf EXCEPT ![r] = b[1]]
           /\ UNCHANGED rowVars
    /\ UNCHANGED <<claimed, resolvedBy, nodeVars, recon, pump, process, asked>>

\* Mutant: the node is asked while the row is still `created`.
MarkPending_Skipped(r) ==
    /\ pc[r] = "begun"
    /\ pc' = [pc EXCEPT ![r] = "marked"]
    /\ UNCHANGED <<keyOf, ledger, nodeVars, recon, pump, process, asked>>

\* `pending` is durable before the node is asked; an illegal transition ends the call.
MarkPending(r) ==
    /\ pc[r] = "begun"
    /\ TransitionPayment(keyOf[r], "pending", "none")
    /\ pc' = [pc EXCEPT ![r] =
                  IF Accepts(keyOf[r], "pending") THEN "marked" ELSE "done"]
    /\ UNCHANGED <<keyOf, claimed, resolvedBy, nodeVars, recon, pump, process, asked>>

\* The node takes the payment.  A detached call has no handler waiting for the answer.
DispatchAccepted(r) ==
    LET i == bolt11[keyOf[r]] IN
    /\ pc[r] \in {"marked", "detached"}
    /\ node[i] \in {"none", "failed"}
    /\ node' = [node EXCEPT ![i] = "inflight"]
    /\ asked' = asked \union {r}
    /\ pc' = [pc EXCEPT ![r] = "done"]
    /\ UNCHANGED <<keyOf, ledger, queue, issued, recon, pump, process>>

\* The node refuses before an HTLC leaves: a duplicate, or no route, in which
\* case it may keep a failed record of the attempt.
DispatchRefused(r) ==
    LET i == bolt11[keyOf[r]] IN
    /\ pc[r] \in {"marked", "detached"}
    /\ \/ UNCHANGED node
       \/ node[i] = "none" /\ node' = [node EXCEPT ![i] = "failed"]
    /\ asked' = asked \union {r}
    /\ pc' = [pc EXCEPT ![r] = IF @ = "marked" THEN "refused" ELSE "done"]
    /\ UNCHANGED <<keyOf, ledger, queue, issued, recon, pump, process>>

RecordRefusal(r) ==
    /\ pc[r] = "refused"
    /\ TransitionPayment(keyOf[r], "failed", "refused")
    /\ pc' = [pc EXCEPT ![r] = "done"]
    /\ UNCHANGED <<keyOf, claimed, resolvedBy, nodeVars, recon, pump, process, asked>>

\* The client disconnects and the handler is dropped, or a database error ends it.
\* A dispatch already handed to spawn_blocking still runs.
Abandon(r) ==
    /\ pc[r] \in {"begun", "marked", "refused"}
    /\ \/ pc' = [pc EXCEPT ![r] = "done"]
       \/ pc[r] = "marked" /\ pc' = [pc EXCEPT ![r] = "detached"]
    /\ UNCHANGED <<keyOf, ledger, nodeVars, recon, pump, process, asked>>

-----------------------------------------------------------------------------
(* The node settles what it has in flight and queues an event for it.      *)

NodeSettle(i) ==
    /\ phase # "down" /\ node[i] = "inflight"
    /\ \E outcome \in Final :
        /\ node' = [node EXCEPT ![i] = outcome]
        /\ issued' = issued + 1
        /\ queue' = Append(queue, [id |-> issued', invoice |-> i, outcome |-> outcome])
    /\ UNCHANGED <<ledger, call, recon, pump, process, asked>>

-----------------------------------------------------------------------------
(* pump_node_events: find the row, apply the outcome, acknowledge.         *)

\* Mutant: an `unknown` payment is no longer looked for.
Unresolved_SkipsUnknown(i) == {k \in Keys : bolt11[k] = i /\ status[k] \in {"created", "pending"}}

Unresolved(i) == {k \in Keys : bolt11[k] = i /\ status[k] \in Open}
Newest(S) == {k \in S : \A j \in S : born[j] <= born[k]}

PumpFind ==
    /\ phase = "serving" /\ ppc = "idle" /\ queue # <<>>
    /\ LET rows == Unresolved(Head(queue).invoice) IN
        \/ rows = {} /\ ppc' = "ack" /\ UNCHANGED pkey
        \/ \E k \in Newest(rows) : ppc' = "apply" /\ pkey' = k
    /\ UNCHANGED <<ledger, nodeVars, call, recon, process, asked>>

\* Mutant: the dedupe key is claimed outside the transaction.
PumpApply_KeepsClaim ==
    LET event == Head(queue)
        claim == <<event.outcome, pkey>> IN
    /\ ppc = "apply"
    /\ IF claim \notin claimed
       THEN /\ TransitionPayment(pkey, event.outcome,
                                 IF event.outcome = "failed" THEN "event" ELSE "none")
            /\ claimed' = claimed \union {claim}
            /\ resolvedBy' = [resolvedBy EXCEPT ![pkey] = event.id]
       ELSE UNCHANGED ledger
    /\ ppc' = "ack" /\ UNCHANGED pkey
    /\ UNCHANGED <<nodeVars, call, recon, process, asked>>

\* Mutant: an illegal transition is classified as transient and retried.
PumpApply_RetriesIllegal ==
    LET event == Head(queue) IN
    /\ ppc = "apply"
    /\ TransitionPayment(pkey, event.outcome,
                         IF event.outcome = "failed" THEN "event" ELSE "none")
    /\ ppc' = (IF Accepts(pkey, event.outcome) THEN "ack" ELSE "idle") /\ UNCHANGED pkey
    /\ UNCHANGED <<claimed, resolvedBy, nodeVars, call, recon, process, asked>>

\* transition_payment under the dedupe key of this row: the claim commits only
\* together with the change.  An illegal transition is permanent: drop the event.
PumpApply ==
    LET event == Head(queue)
        claim == <<event.outcome, pkey>> IN
    /\ ppc = "apply"
    /\ IF claim \notin claimed /\ CanTransition(status[pkey], event.outcome)
       THEN /\ TransitionPayment(pkey, event.outcome,
                                 IF event.outcome = "failed" THEN "event" ELSE "none")
            /\ claimed' = claimed \union {claim}
            /\ resolvedBy' = [resolvedBy EXCEPT ![pkey] = event.id]
       ELSE UNCHANGED ledger
    /\ ppc' = "ack" /\ UNCHANGED pkey
    /\ UNCHANGED <<nodeVars, call, recon, process, asked>>

\* A transient database error: the same event is handled again from the start.
PumpRetry ==
    /\ ppc = "apply"
    /\ ppc' = "idle" /\ pkey' = None
    /\ UNCHANGED <<ledger, nodeVars, call, recon, process, asked>>

PumpAck ==
    /\ ppc = "ack"
    /\ queue' = Tail(queue)
    /\ ppc' = "idle" /\ pkey' = None
    /\ UNCHANGED <<ledger, node, issued, call, recon, process, asked>>

\* event_handled fails and the pump ignores it: the node hands out the event again.
PumpAckFails ==
    /\ ppc = "ack"
    /\ ppc' = "idle" /\ pkey' = None
    /\ UNCHANGED <<ledger, nodeVars, call, recon, process, asked>>

-----------------------------------------------------------------------------
(* reconcile_payment, called by the API and by reconcile_all at startup.   *)

\* reconcile_payment starts from a snapshot of row k.
Snapshot(c, k) ==
    /\ rpc' = [rpc EXCEPT ![c] = "ask"]
    /\ rkey' = [rkey EXCEPT ![c] = k]
    /\ seen' = [seen EXCEPT ![c] = status[k]]
    /\ UNCHANGED <<next, why>>

\* The call returns, with or without an error, and its locals are gone.
Return(c) ==
    /\ rpc' = [rpc EXCEPT ![c] = "idle"]
    /\ rkey' = [rkey EXCEPT ![c] = None]
    /\ seen' = [seen EXCEPT ![c] = "absent"]
    /\ next' = [next EXCEPT ![c] = "absent"]
    /\ why' = [why EXCEPT ![c] = "none"]

\* The API handler reads the row; a final one is returned as it is.
ReconcileRead(c) ==
    /\ phase = "serving" /\ rpc[c] = "idle"
    /\ \E k \in Keys : status[k] \in Open /\ Snapshot(c, k)
    /\ UNCHANGED <<ledger, nodeVars, call, pump, process, asked>>

\* Mutant: an HTLC in flight counts as paid.
Verdict_InflightIsPaid(was, view, to, because) ==
    \/ view \in {"succeeded", "inflight"} /\ to = "succeeded" /\ because = "none"
    \/ view = "failed" /\ to = "failed" /\ because = "reported_by_node"
    \/ view = "none" /\ was = "created" /\ to = "failed" /\ because = "never_dispatched"
    \/ view = "none" /\ was = "pending" /\ to = "unknown" /\ because = "none"

\* Mutant: a pending payment the node does not know is failed instead of unknown.
Verdict_MissingIsFailed(was, view, to, because) ==
    \/ view = "succeeded" /\ to = "succeeded" /\ because = "none"
    \/ view \in {"failed", "none"} /\ to = "failed" /\ because = "reported_by_node"

\* What the node's record says of a payment last seen as `was`: its next status
\* and the reason recorded with it.  Without a verdict the row is left alone: the
\* HTLC is in flight, or an unknown payment is still not known to the node.
Verdict(was, view, to, because) ==
    \/ view = "succeeded" /\ to = "succeeded" /\ because = "none"
    \/ view = "failed" /\ to = "failed" /\ because = "reported_by_node"
    \/ view = "none" /\ was = "created" /\ to = "failed" /\ because = "never_dispatched"
    \/ view = "none" /\ was = "pending" /\ to = "unknown" /\ because = "none"

ReconcileAsk(c) ==
    LET view == node[bolt11[rkey[c]]]
        verdicts == {v \in (Final \union {"unknown"}) \X Reasons : Verdict(seen[c], view, v[1], v[2])} IN
    /\ rpc[c] = "ask"
    /\ \/ verdicts = {} /\ Return(c)
       \/ \E v \in verdicts :
            /\ next' = [next EXCEPT ![c] = v[1]]
            /\ why' = [why EXCEPT ![c] = v[2]]
            /\ rpc' = [rpc EXCEPT ![c] = IF seen[c] = "created" /\ v[1] # "failed"
                                         THEN "pass" ELSE "apply"]
            /\ UNCHANGED <<rkey, seen>>
    /\ UNCHANGED <<ledger, nodeVars, call, pump, process, asked>>

\* `created` goes through `pending` on its way to `succeeded`.
ReconcilePass(c) ==
    /\ rpc[c] = "pass"
    /\ TransitionPayment(rkey[c], "pending", "none")
    /\ \/ /\ Accepts(rkey[c], "pending")
          /\ rpc' = [rpc EXCEPT ![c] = "apply"]
          /\ UNCHANGED <<rkey, seen, next, why>>
       \/ ~Accepts(rkey[c], "pending") /\ Return(c)
    /\ UNCHANGED <<claimed, resolvedBy, nodeVars, call, pump, process, asked>>

ReconcileApply(c) ==
    /\ rpc[c] = "apply"
    /\ TransitionPayment(rkey[c], next[c], why[c])
    /\ Return(c)
    /\ UNCHANGED <<claimed, resolvedBy, nodeVars, call, pump, process, asked>>

\* The caller disconnects or the database fails between two steps.
ReconcileDropped(c) ==
    /\ rpc[c] # "idle" /\ Return(c)
    /\ UNCHANGED <<ledger, nodeVars, call, pump, process, asked>>

-----------------------------------------------------------------------------
(* The process: crash, restart, reconcile_all before traffic is served.    *)

Crash ==
    /\ phase # "down" /\ crashes < MaxCrashes
    /\ phase' = "down" /\ crashes' = crashes + 1 /\ todo' = {}
    /\ pc' = [r \in Requests |-> IF pc[r] = "idle" THEN "idle" ELSE "done"] /\ UNCHANGED keyOf
    /\ rpc' = [c \in Actors |-> "idle"]
    /\ rkey' = [c \in Actors |-> None]
    /\ seen' = [c \in Actors |-> "absent"]
    /\ next' = [c \in Actors |-> "absent"]
    /\ why' = [c \in Actors |-> "none"]
    /\ ppc' = "idle" /\ pkey' = None
    /\ UNCHANGED <<ledger, nodeVars, asked>>

\* Mutant: only dispatched payments are reconciled at startup.
Restart_OnlyPending ==
    /\ phase = "down"
    /\ phase' = "recovering"
    /\ todo' = {k \in Keys : status[k] = "pending"}
    /\ UNCHANGED <<ledger, nodeVars, call, recon, pump, crashes, asked>>

Restart ==
    /\ phase = "down"
    /\ phase' = "recovering"
    /\ todo' = {k \in Keys : status[k] \in Open}
    /\ UNCHANGED <<ledger, nodeVars, call, recon, pump, crashes, asked>>

\* reconcile_all takes the unresolved rows oldest first.
StartupNext ==
    /\ phase = "recovering" /\ rpc[Startup] = "idle"
    /\ \E k \in todo :
        /\ \A j \in todo : born[k] <= born[j]
        /\ todo' = todo \ {k}
        /\ Snapshot(Startup, k)
    /\ UNCHANGED <<ledger, nodeVars, call, pump, phase, crashes, asked>>

StartupDone ==
    /\ phase = "recovering" /\ rpc[Startup] = "idle" /\ todo = {}
    /\ phase' = "serving"
    /\ UNCHANGED <<ledger, nodeVars, call, recon, pump, todo, crashes, asked>>

\* An error ends reconcile_all; main logs it and serves anyway.
StartupAborts ==
    /\ phase = "recovering" /\ (todo # {} \/ rpc[Startup] # "idle")
    /\ Return(Startup)
    /\ phase' = "serving" /\ todo' = {}
    /\ UNCHANGED <<ledger, nodeVars, call, pump, crashes, asked>>

-----------------------------------------------------------------------------

SendStep(r) == \/ BeginPayment(r) \/ MarkPending(r) \/ DispatchAccepted(r)
               \/ DispatchRefused(r) \/ RecordRefusal(r) \/ Abandon(r)
PumpStep == PumpFind \/ PumpApply \/ PumpRetry \/ PumpAck \/ PumpAckFails
ReconcileStep(c) == ReconcileAsk(c) \/ ReconcilePass(c) \/ ReconcileApply(c)
ProcessStep == Crash \/ Restart \/ StartupNext \/ StartupDone \/ StartupAborts

Next == \/ \E r \in Requests : SendStep(r)
        \/ \E i \in Invoices : NodeSettle(i)
        \/ PumpStep
        \/ \E c \in Reconcilers : ReconcileRead(c) \/ ReconcileDropped(c)
        \/ \E c \in Actors : ReconcileStep(c)
        \/ ProcessStep

Spec == Init /\ [][Next]_vars

(* The node settles every HTLC (at the latest when it times out on chain), the *)
(* supervisor restarts the process, startup reconciliation runs to its end and *)
(* the pump keeps running.  A retried transaction or acknowledgement succeeds  *)
(* if it is tried again and again.  Clients and crashes owe nothing.           *)
Fairness == /\ \A i \in Invoices : WF_vars(NodeSettle(i))
            /\ WF_vars(PumpFind) /\ SF_vars(PumpApply) /\ SF_vars(PumpAck)
            /\ WF_vars(Restart) /\ WF_vars(StartupNext) /\ WF_vars(StartupDone)
            /\ WF_vars(ReconcileStep(Startup))

FairSpec == Spec /\ Fairness

-----------------------------------------------------------------------------
(* Properties.                                                             *)

\* An invoice that clients submit under one idempotency key only.
Exclusive(i) == \A b1, b2 \in Bodies : b1[2] = i /\ b2[2] = i => b1[1] = b2[1]

\* However requests with one idempotency key race, crash or are retried, at most
\* one of them ever asks the node to pay (send_payment and begin_payment).
AskedOncePerKey ==
    \A r1, r2 \in asked : keyOf[r1] = keyOf[r2] => r1 = r2

\* "`pending` is durable before the node is asked to send": a row whose payment
\* reached the node is never found in `created`, where reconciliation would call
\* it never dispatched.
PendingBeforeAsked == \A r \in asked : status[keyOf[r]] \notin {"absent", "created"}

\* The ledger never claims a success the node did not have, whoever recorded it:
\* the event pump, an API reconciliation or startup reconciliation.
SucceededMeansPaid ==
    \A k \in Keys : status[k] = "succeeded" => node[bolt11[k]] = "succeeded"

\* A failure recorded from the node's own word (a refusal, a failure event or its
\* payment store) is true: the money is neither sent nor in flight.  Holds for an
\* invoice used under one key; `never_dispatched` is judged by NeverDispatchedIsTrue.
FailedMeansNotPaid ==
    \A k \in Keys : /\ status[k] = "failed" /\ reason[k] # "never_dispatched"
                    /\ Exclusive(bolt11[k])
                    => node[bolt11[k]] \in {"none", "failed"}

\* The event stream of a payment tells its whole story once: nothing while it is
\* created or pending, at most one `unknown`, then exactly one final event, and the
\* last event is the row's status (transition_payment emits in its transaction).
OutboxMatchesLedger ==
    \A k \in Keys :
        /\ status[k] \in {"absent", "created", "pending"} => emitted[k] = <<>>
        /\ status[k] = "unknown" => emitted[k] = <<"unknown">>
        /\ status[k] \in Final => emitted[k] \in {<<status[k]>>, <<"unknown", status[k]>>}

\* A dedupe key claimed for a node event is never without its effect: a claim that
\* outlived a rolled-back transition would swallow the event's redelivery.
ClaimMeansApplied == \A c \in claimed : status[c[2]] = c[1]

\* The callers that reached the node, by the key of their request.
Askers == [k \in Keys |-> {r \in asked : keyOf[r] = k}]

Lifecycle == INSTANCE PaymentLifecycle WITH Callers <- Requests, askers <- Askers

\* The engine with its races, crashes, redeliveries and reconciliations shows a caller
\* nothing but the simple payment of PaymentLifecycle: created once, asked once, each
\* outcome recorded and announced in one step, none taken back.
ImplementsLifecycle == Lifecycle!Spec

\* A final status is never left (a merchant may act on it).
FinalIsForever ==
    [][\A k \in Keys : status[k] \in Final => status'[k] = status[k]]_vars

\* When startup reconciliation has run to its end, every open row is known to the
\* node or marked unknown; none is left looking as if a send were still to come.
StartupLeavesNoOrphan ==
    [][(phase = "recovering" /\ phase' = "serving" /\ todo = {} /\ rpc[Startup] = "idle")
         => \A k \in Keys : status[k] \in {"created", "pending"} => node[bolt11[k]] # "none"]_vars

\* A payment the node has in flight reaches a final status through crashes,
\* redeliveries and races with reconciliation (invoice used under one key).
AcceptedPaymentResolves ==
    \A k \in Keys : (status[k] # "absent" /\ Exclusive(bolt11[k]) /\ node[bolt11[k]] = "inflight")
                    ~> status[k] \in Final

\* No event blocks the pump: whatever the ledger looks like, the queue drains.
EventsAreConsumed == queue # <<>> ~> queue = <<>>

\* docs/threat-model.md: "reconciliation never converts a missing node record into
\* `failed` for a payment that was already `pending`".  If so, a row failed as
\* never_dispatched is not in flight or paid (invoice used under one key).
NeverDispatchedIsTrue ==
    \A k \in Keys : reason[k] = "never_dispatched" /\ Exclusive(bolt11[k])
                    => node[bolt11[k]] \in {"none", "failed"}

\* "An unacknowledged event is redelivered by the node, which is safe because every
\* handler is idempotent" (pump_node_events): one node event settles one row only.
EventSettlesOneRow ==
    \A k1, k2 \in Keys : resolvedBy[k1] = resolvedBy[k2] /\ resolvedBy[k1] # 0 => k1 = k2

=============================================================================
