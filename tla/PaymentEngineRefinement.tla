----------------------- MODULE PaymentEngineRefinement -----------------------
(***************************************************************************)
(* PaymentEngine implements PaymentLifecycle: every step of a handler, the *)
(* pump, a reconciliation, the node or the process is, for a caller, one   *)
(* step of the simple payment or none at all.                              *)
(***************************************************************************)
EXTENDS PaymentEngineOutcomes

\* A step of the abstract payment, or none.
Simulated == [Lifecycle!Next]_(Lifecycle!vars)

\* Callers see nothing of a step that leaves rows, events and the asking calls alone.
LEMMA Unseen ==
    ASSUME UNCHANGED <<status, emitted, asked>>, \A r \in asked : keyOf'[r] = keyOf[r]
    PROVE  Simulated
<1>1. Askers' = Askers BY DEF Askers
<1> QED BY <1>1 DEF Simulated, Lifecycle!vars

\* transition_payment is one step of the abstract payment.
LEMMA TransitionSimulated ==
    ASSUME NEW k \in Keys, NEW to, NEW because, TransitionPayment(k, to, because),
           asked' = asked, keyOf' = keyOf
    PROVE  Simulated
<1>a. Askers' = Askers BY DEF Askers
<1>1. CASE ~CanTransition(status[k], to)
  BY <1>1, <1>a DEF TransitionPayment, rowVars, Simulated, Lifecycle!vars
<1>2. CASE CanTransition(status[k], to)
  <2>1. /\ status' = [status EXCEPT ![k] = to]
        /\ emitted' = IF to = "pending" THEN emitted ELSE [emitted EXCEPT ![k] = Append(@, to)]
    BY <1>2 DEF TransitionPayment
  <2>2. CASE status[k] = "created" /\ to = "pending"
    BY <1>a, <2>1, <2>2 DEF Simulated, Lifecycle!Next, Lifecycle!Submit, Lifecycle!Move
  <2>3. CASE status[k] = "created" /\ to = "failed"
    BY <1>a, <2>1, <2>3 DEF Simulated, Lifecycle!Next, Lifecycle!Refuse, Lifecycle!Announce
  <2>4. CASE status[k] = "pending" /\ to = "unknown"
    BY <1>a, <2>1, <2>4 DEF Simulated, Lifecycle!Next, Lifecycle!Lose, Lifecycle!Announce
  <2>5. CASE status[k] \in {"pending", "unknown"} /\ to \in {"succeeded", "failed"}
    <3>1. Lifecycle!Resolve(k) BY <1>a, <2>1, <2>5 DEF Lifecycle!Resolve, Lifecycle!Announce
    <3> QED BY <3>1 DEF Simulated, Lifecycle!Next
  <2> QED BY <1>2, <2>2, <2>3, <2>4, <2>5 DEF CanTransition, Final
<1> QED BY <1>1, <1>2

LEMMA BeginSimulated ==
    ASSUME BaseInv, NEW r \in Requests, BeginPayment(r)
    PROVE  Simulated
<1>t. TypeOK BY DEF BaseInv, TypeInv
<1>1. PICK b \in Bodies :
        \/ /\ status[b[1]] = "absent"
           /\ status' = [status EXCEPT ![b[1]] = "created"]
           /\ keyOf' = [keyOf EXCEPT ![r] = b[1]]
           /\ UNCHANGED <<reason, emitted>>
        \/ keyOf' = [keyOf EXCEPT ![r] = b[1]] /\ UNCHANGED rowVars
  BY DEF BeginPayment
<1>2. b[1] \in Keys BY BodiesAssumption
<1>3. asked' = asked /\ r \notin asked BY DEF BeginPayment, BaseInv, AskedIsOver
<1>4. \A q \in asked : keyOf'[q] = keyOf[q] BY <1>t, <1>1, <1>3 DEF TypeOK
<1>5. Askers' = Askers BY <1>3, <1>4 DEF Askers
<1>6. CASE UNCHANGED rowVars BY <1>3, <1>4, <1>6, Unseen DEF rowVars
<1>7. CASE ~UNCHANGED rowVars
  <2>1. Lifecycle!Create(b[1]) BY <1>1, <1>5, <1>7 DEF Lifecycle!Create, Lifecycle!Move
  <2> QED BY <1>2, <2>1 DEF Simulated, Lifecycle!Next
<1> QED BY <1>6, <1>7

\* The node is asked once under a key, and not before the row is pending.
LEMMA DispatchSimulated ==
    ASSUME BaseInv, NEW r \in Requests, DispatchAccepted(r) \/ DispatchRefused(r)
    PROVE  Simulated
<1>t. TypeOK BY DEF BaseInv, TypeInv
<1> DEFINE k == keyOf[r]
<1>1. /\ pc[r] \in {"marked", "detached"} /\ asked' = asked \union {r}
      /\ UNCHANGED <<keyOf, status, emitted>>
  BY DEF DispatchAccepted, DispatchRefused, ledger, rowVars
<1>2. k \in Keys /\ status[k] \notin {"absent", "created"}
  BY <1>1 DEF BaseInv, OwnerInv, Owns, Sent
<1>3. r \notin asked BY <1>1 DEF BaseInv, AskedIsOver
<1>4. \A q \in asked : keyOf[q] # k
  BY <1>t, <1>1, <1>3 DEF BaseInv, OwnerInv, Owns, TypeOK
<1>5. Askers[k] = {} BY <1>2, <1>4 DEF Askers
<1>6. Askers' = [Askers EXCEPT ![k] = {r}] BY <1>1, <1>2, <1>4 DEF Askers
<1>7. Lifecycle!Ask(k, r) BY <1>1, <1>2, <1>5, <1>6 DEF Lifecycle!Ask
<1> QED BY <1>2, <1>7 DEF Simulated, Lifecycle!Next

LEMMA StepSimulated == BaseInv /\ [Next]_vars => Simulated
<1> SUFFICES ASSUME BaseInv, [Next]_vars PROVE Simulated OBVIOUS
<1>1. ASSUME NEW r \in Requests, SendStep(r) PROVE Simulated
  <2>1. CASE BeginPayment(r) BY <2>1, BeginSimulated
  <2>2. CASE DispatchAccepted(r) \/ DispatchRefused(r) BY <2>2, DispatchSimulated
  <2>3. CASE MarkPending(r) \/ RecordRefusal(r)
    <3>1. keyOf[r] \in Keys BY <2>3 DEF MarkPending, RecordRefusal, BaseInv, OwnerInv, Owns
    <3> QED BY <2>3, <3>1, TransitionSimulated DEF MarkPending, RecordRefusal
  <2>4. CASE Abandon(r) BY <2>4, Unseen DEF Abandon, ledger, rowVars
  <2> QED BY <1>1, <2>1, <2>2, <2>3, <2>4 DEF SendStep
<1>2. CASE PumpApply
  <2>1. pkey \in Keys BY <1>2 DEF PumpApply, BaseInv, TypeInv, PumpBusy
  <2>2. asked' = asked /\ keyOf' = keyOf BY <1>2 DEF PumpApply, call
  <2>3. UNCHANGED rowVars \/ \E to, because : TransitionPayment(pkey, to, because)
    BY <1>2 DEF PumpApply, ledger
  <2> QED BY <2>1, <2>2, <2>3, TransitionSimulated, Unseen DEF rowVars
<1>3. ASSUME NEW c \in Actors, ReconcileStep(c) PROVE Simulated
  <2>1. CASE ReconcileAsk(c) BY <2>1, Unseen DEF ReconcileAsk, ledger, rowVars, call
  <2>2. CASE ReconcilePass(c) \/ ReconcileApply(c)
    <3>1. rkey[c] \in Keys BY <2>2 DEF ReconcilePass, ReconcileApply, BaseInv, PaidInv, ReconTarget
    <3> QED BY <2>2, <3>1, TransitionSimulated DEF ReconcilePass, ReconcileApply, call
  <2> QED BY <1>3, <2>1, <2>2 DEF ReconcileStep
<1>4. CASE \/ \E i \in Invoices : NodeSettle(i)
           \/ PumpFind \/ PumpRetry \/ PumpAck \/ PumpAckFails
           \/ \E c \in Reconcilers : ReconcileRead(c) \/ ReconcileDropped(c)
           \/ ProcessStep
           \/ UNCHANGED vars
  <2>1. UNCHANGED <<status, emitted, asked, keyOf>>
    BY <1>4 DEF NodeSettle, PumpFind, PumpRetry, PumpAck, PumpAckFails, ReconcileRead,
       ReconcileDropped, ProcessStep, Crash, Restart, StartupNext, StartupDone, StartupAborts,
       vars, ledger, rowVars, call
  <2> QED BY <2>1, Unseen
<1> QED BY <1>1, <1>2, <1>3, <1>4 DEF Next, PumpStep

\* The engine implements the abstract payment for every number of keys, callers,
\* reconcilers and crashes: created once, asked once, each outcome recorded and
\* announced in one step, none taken back.
THEOREM Refinement == Spec => ImplementsLifecycle
<1>1. Init => Lifecycle!Init BY DEF Init, Lifecycle!Init, Askers
<1>2. BaseInv /\ [Next]_vars => [Lifecycle!Next]_(Lifecycle!vars)
  BY StepSimulated DEF Simulated
<1> QED BY <1>1, <1>2, BaseInvariant, PTL DEF Spec, ImplementsLifecycle, Lifecycle!Spec

=============================================================================
