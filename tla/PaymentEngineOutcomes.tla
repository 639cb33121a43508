----------------------- MODULE PaymentEngineOutcomes -----------------------
(***************************************************************************)
(* What an outcome in the ledger is worth: a claimed node event has had    *)
(* its effect, a failure recorded from the node's word is a payment that   *)
(* was not made, and recovery leaves no payment that looks dispatched and  *)
(* is unknown to the node.                                                 *)
(***************************************************************************)
EXTENDS PaymentEngineProofs

\* A call that reached the node does not reach it again.
AskedIsOver == \A r \in asked : pc[r] \in {"refused", "done"}

LEMMA AskedOnce == TypeInv /\ OwnerInv /\ AskedIsOver /\ [Next]_vars => AskedIsOver'
<1> SUFFICES ASSUME TypeInv, OwnerInv, AskedIsOver, [Next]_vars PROVE AskedIsOver' OBVIOUS
<1>t. TypeOK BY DEF TypeInv
<1>1. ASSUME NEW r \in Requests, SendStep(r) PROVE AskedIsOver'
  <2>1. CASE BeginPayment(r)
    <3>1. /\ pc[r] = "idle" /\ asked' = asked /\ \A q \in Requests : q # r => pc'[q] = pc[q]
      BY <1>t, <2>1 DEF BeginPayment, TypeOK
    <3> QED BY <1>t, <3>1 DEF AskedIsOver, TypeOK
  <2>2. CASE MarkPending(r) BY <1>t, <2>2 DEF MarkPending, AskedIsOver, TypeOK
  <2>3. CASE DispatchAccepted(r) BY <1>t, <2>3 DEF DispatchAccepted, AskedIsOver, TypeOK
  <2>4. CASE DispatchRefused(r) BY <1>t, <2>4 DEF DispatchRefused, AskedIsOver, TypeOK
  <2>5. CASE RecordRefusal(r) BY <1>t, <2>5 DEF RecordRefusal, AskedIsOver, TypeOK
  <2>6. CASE Abandon(r) BY <1>t, <2>6 DEF Abandon, AskedIsOver, TypeOK
  <2> QED BY <1>1, <2>1, <2>2, <2>3, <2>4, <2>5, <2>6 DEF SendStep
<1>2. CASE Crash BY <1>t, <1>2 DEF Crash, AskedIsOver, TypeOK
<1>3. CASE \/ \E i \in Invoices : NodeSettle(i)
           \/ PumpStep
           \/ \E c \in Reconcilers : ReconcileRead(c) \/ ReconcileDropped(c)
           \/ \E c \in Actors : ReconcileStep(c)
           \/ Restart \/ StartupNext \/ StartupDone \/ StartupAborts
           \/ UNCHANGED vars
  <2>1. UNCHANGED <<call, asked>>
    BY <1>3 DEF NodeSettle, PumpStep, PumpFind, PumpApply, PumpRetry, PumpAck, PumpAckFails,
       ReconcileRead, ReconcileDropped, ReconcileStep, ReconcileAsk, ReconcilePass, ReconcileApply,
       Restart, StartupNext, StartupDone, StartupAborts, vars
  <2> QED BY <2>1 DEF AskedIsOver, call
<1> QED BY <1>1, <1>2, <1>3 DEF Next, ProcessStep

-----------------------------------------------------------------------------
(* The dedupe keys of node events.                                         *)

\* A claim commits together with the outcome it stands for, and that outcome is final:
\* no claim, in whatever order events, redeliveries and reconciliations come, is left
\* without its effect.
THEOREM ClaimsAreApplied == Spec => []ClaimMeansApplied
<1>1. Init => ClaimMeansApplied BY DEF Init, ClaimMeansApplied
<1>2. TypeInv /\ ClaimMeansApplied /\ [Next]_vars => ClaimMeansApplied'
  <2> SUFFICES ASSUME TypeInv, ClaimMeansApplied, [Next]_vars, NEW c \in claimed'
               PROVE  status'[c[2]] = c[1]
    BY DEF ClaimMeansApplied
  <2>t. TypeOK BY DEF TypeInv
  <2>1. CASE c \in claimed
    <3>1. c[2] \in Keys /\ c[1] \in Final /\ status[c[2]] = c[1]
      BY <2>1, <2>t DEF TypeOK, ClaimMeansApplied
    <3>2. RowStep(c[2]) BY <3>1, RowSteps
    <3> QED BY <3>1, <3>2 DEF RowStep, Moves, Appears, Stays, CanTransition, Final
  <2>2. CASE c \notin claimed
    <3>1. PumpApply
      BY <2>2 DEF Next, SendStep, BeginPayment, MarkPending, DispatchAccepted, DispatchRefused,
         RecordRefusal, Abandon, NodeSettle, PumpStep, PumpFind, PumpRetry, PumpAck, PumpAckFails,
         ReconcileRead, ReconcileDropped, ReconcileStep, ReconcileAsk, ReconcilePass,
         ReconcileApply, ProcessStep, Crash, Restart, StartupNext, StartupDone, StartupAborts,
         vars, ledger
    <3> DEFINE event == Head(queue)
    <3>2. pkey \in Keys BY <3>1 DEF PumpApply, TypeInv, PumpBusy
    <3>3. c = <<event.outcome, pkey>> /\ status' = [status EXCEPT ![pkey] = event.outcome]
      BY <2>2, <3>1 DEF PumpApply, TransitionPayment, ledger
    <3> HIDE DEF event
    <3> QED BY <2>t, <3>2, <3>3 DEF TypeOK
  <2> QED BY <2>1, <2>2
<1>3. Spec => []TypeInv BY InitTyped, NextTyped, PTL DEF Spec
<1> QED BY <1>1, <1>2, <1>3, PTL DEF Spec

-----------------------------------------------------------------------------
(* Failure is never invented for an invoice that is used under one key: the *)
(* node is asked once about it, so once it has refused or failed, no later  *)
(* dispatch can send the money after all.                                   *)

\* A row holds an invoice that was submitted under its key.
RowsOrdered == \A k \in Keys : status[k] # "absent" => <<k, bolt11[k]>> \in Bodies
\* The node knows of an exclusive invoice only from the call that asked under its key.
NodeAsked == \A b \in Bodies : Exclusive(b[2]) /\ node[b[2]] # "none"
                               => \E r \in asked : keyOf[r] = b[1]
\* The node has been asked for row k and has nothing in flight for it.
Stopped(k) == Exclusive(bolt11[k]) => /\ node[bolt11[k]] \in {"none", "failed"}
                                      /\ \E r \in asked : keyOf[r] = k
QueueFailed == \A n \in 1 .. Len(queue) :
                 queue[n].outcome = "failed" /\ Exclusive(queue[n].invoice)
                 => node[queue[n].invoice] = "failed"
RefusedStopped == \A r \in Requests : pc[r] = "refused" => r \in asked /\ Stopped(keyOf[r])
ReconFailed == \A c \in Actors : next[c] = "failed" =>
                 \/ why[c] = "never_dispatched"
                 \/ /\ why[c] = "reported_by_node"
                    /\ Exclusive(bolt11[rkey[c]]) => node[bolt11[rkey[c]]] = "failed"
FailedStopped == \A k \in Keys : status[k] = "failed" /\ reason[k] # "never_dispatched" => Stopped(k)

FailInv == /\ RowsOrdered /\ NodeAsked /\ QueueFailed /\ RefusedStopped
           /\ ReconFailed /\ FailedStopped

\* The invariants this section builds on.
BaseInv == TypeInv /\ OwnerInv /\ PaidInv /\ AskedIsOver

\* The call that is about to ask about an exclusive invoice is the first to do so.
LEMMA FirstToAsk ==
    ASSUME BaseInv, RowsOrdered, NodeAsked, NEW r \in Requests, pc[r] \in {"marked", "detached"}
    PROVE  /\ keyOf[r] \in Keys /\ status[keyOf[r]] # "absent"
           /\ bolt11[keyOf[r]] \in Invoices
           /\ <<keyOf[r], bolt11[keyOf[r]]>> \in Bodies
           /\ \A q \in asked : keyOf[q] # keyOf[r]
           /\ Exclusive(bolt11[keyOf[r]]) => node[bolt11[keyOf[r]]] = "none"
<1>1. Owns(r) /\ r \notin asked BY DEF BaseInv, AskedIsOver, Owns
<1>2. keyOf[r] \in Keys /\ status[keyOf[r]] # "absent" BY <1>1 DEF BaseInv, OwnerInv
<1>3. bolt11[keyOf[r]] \in Invoices BY <1>2 DEF BaseInv, PaidInv, RowsHaveInvoice
<1>4. <<keyOf[r], bolt11[keyOf[r]]>> \in Bodies BY <1>2 DEF RowsOrdered
<1>5. asked \subseteq Requests BY DEF BaseInv, TypeInv, TypeOK
<1>6. \A q \in asked : keyOf[q] # keyOf[r] BY <1>1, <1>5 DEF BaseInv, OwnerInv, Owns
<1>7. Exclusive(bolt11[keyOf[r]]) => node[bolt11[keyOf[r]]] = "none"
  BY <1>4, <1>6 DEF NodeAsked
<1> QED BY <1>2, <1>3, <1>4, <1>6, <1>7

\* What a step does to the node's record of invoice i.
LEMMA NodeSteps ==
    ASSUME BaseInv, RowsOrdered, NodeAsked, [Next]_vars, NEW i \in Invoices
    PROVE  \/ node'[i] = node[i]
           \/ node[i] = "inflight" /\ \E j \in Invoices : NodeSettle(j) /\ i = j
           \/ \E r \in Requests : /\ pc[r] \in {"marked", "detached"} /\ i = bolt11[keyOf[r]]
                                  /\ asked' = asked \union {r} /\ keyOf' = keyOf
                                  /\ DispatchAccepted(r) \/ DispatchRefused(r)
<1>t. TypeOK BY DEF BaseInv, TypeInv
<1>1. CASE \E r \in Requests : DispatchAccepted(r) \/ DispatchRefused(r)
  <2>1. PICK r \in Requests : DispatchAccepted(r) \/ DispatchRefused(r) BY <1>1
  <2>2. /\ pc[r] \in {"marked", "detached"} /\ asked' = asked \union {r} /\ keyOf' = keyOf
        /\ i # bolt11[keyOf[r]] => node'[i] = node[i]
    BY <1>t, <2>1 DEF DispatchAccepted, DispatchRefused, TypeOK
  <2> QED BY <2>1, <2>2
<1>2. CASE \E j \in Invoices : NodeSettle(j)
  <2>1. PICK j \in Invoices : NodeSettle(j) BY <1>2
  <2>2. node[j] = "inflight" /\ (i # j => node'[i] = node[i])
    BY <1>t, <2>1 DEF NodeSettle, TypeOK
  <2> QED BY <2>1, <2>2
<1>3. CASE \/ \E r \in Requests : BeginPayment(r) \/ MarkPending(r) \/ RecordRefusal(r) \/ Abandon(r)
           \/ PumpStep
           \/ \E c \in Reconcilers : ReconcileRead(c) \/ ReconcileDropped(c)
           \/ \E c \in Actors : ReconcileStep(c)
           \/ ProcessStep
           \/ UNCHANGED vars
  <2>1. node' = node
    BY <1>3 DEF BeginPayment, MarkPending, RecordRefusal, Abandon, PumpStep, PumpFind, PumpApply,
       PumpRetry, PumpAck, PumpAckFails, ReconcileRead, ReconcileDropped, ReconcileStep,
       ReconcileAsk, ReconcilePass, ReconcileApply, ProcessStep, Crash, Restart, StartupNext,
       StartupDone, StartupAborts, vars, nodeVars
  <2> QED BY <2>1
<1> QED BY <1>1, <1>2, <1>3 DEF Next, SendStep

\* For an exclusive invoice a failure at the node is the end of it.
LEMMA NodeKeepsFailed ==
    ASSUME BaseInv, RowsOrdered, NodeAsked, [Next]_vars,
           NEW i \in Invoices, Exclusive(i), node[i] = "failed"
    PROVE  node'[i] = "failed"
<1>1. \A r \in Requests : pc[r] \in {"marked", "detached"} => i # bolt11[keyOf[r]] BY FirstToAsk
<1> QED BY <1>1, NodeSteps

\* Calls that have asked stay on record under their key.
LEMMA AskedStays ==
    ASSUME BaseInv, [Next]_vars, NEW q \in asked
    PROVE  q \in asked' /\ keyOf'[q] = keyOf[q]
<1>t. TypeOK /\ q \in Requests BY DEF BaseInv, TypeInv, TypeOK
<1>1. CASE \E r \in Requests : BeginPayment(r)
  <2>1. PICK r \in Requests : BeginPayment(r) BY <1>1
  <2>2. pc[r] = "idle" /\ asked' = asked /\ \E k : keyOf' = [keyOf EXCEPT ![r] = k]
    BY <2>1 DEF BeginPayment
  <2>3. q # r BY <2>2 DEF BaseInv, AskedIsOver
  <2> QED BY <1>t, <2>2, <2>3 DEF TypeOK
<1>2. CASE ~\E r \in Requests : BeginPayment(r)
  <2>1. keyOf' = keyOf /\ asked \subseteq asked'
    BY <1>2 DEF Next, SendStep, MarkPending, DispatchAccepted, DispatchRefused,
       RecordRefusal, Abandon, NodeSettle, PumpStep, PumpFind, PumpApply, PumpRetry, PumpAck,
       PumpAckFails, ReconcileRead, ReconcileDropped, ReconcileStep, ReconcileAsk, ReconcilePass,
       ReconcileApply, ProcessStep, Crash, Restart, StartupNext, StartupDone, StartupAborts,
       vars, call
  <2> QED BY <2>1
<1> QED BY <1>1, <1>2

\* Nothing starts again under a row that has stopped.
LEMMA StoppedStays ==
    ASSUME BaseInv, RowsOrdered, NodeAsked, [Next]_vars,
           NEW k \in Keys, status[k] # "absent", Stopped(k)
    PROVE  Stopped(k)'
<1>0. bolt11'[k] = bolt11[k] /\ bolt11[k] \in Invoices /\ <<k, bolt11[k]>> \in Bodies
  BY RowsPersist DEF BaseInv, PaidInv, RowsHaveInvoice, RowsOrdered
<1> SUFFICES ASSUME Exclusive(bolt11[k])
             PROVE  node'[bolt11[k]] \in {"none", "failed"} /\ \E r \in asked' : keyOf'[r] = k
  BY <1>0 DEF Stopped, Exclusive
<1>1. node[bolt11[k]] \in {"none", "failed"} /\ \E r \in asked : keyOf[r] = k BY DEF Stopped
<1>2. \E r \in asked' : keyOf'[r] = k BY <1>1, AskedStays
<1>3. \A r \in Requests : pc[r] \in {"marked", "detached"} => bolt11[keyOf[r]] # bolt11[k]
  <2> SUFFICES ASSUME NEW r \in Requests, pc[r] \in {"marked", "detached"},
                      bolt11[keyOf[r]] = bolt11[k]
               PROVE  FALSE
    OBVIOUS
  <2>1. keyOf[r] = k
    <3>1. <<keyOf[r], bolt11[k]>> \in Bodies BY FirstToAsk
    <3> QED BY <1>0, <3>1 DEF Exclusive
  <2> QED BY <1>1, <2>1, FirstToAsk
<1>4. node'[bolt11[k]] = node[bolt11[k]] BY <1>0, <1>1, <1>3, NodeSteps
<1> QED BY <1>1, <1>2, <1>4

\* transition_payment records a reason with a failure, and never replaces it.
LEMMA TransitionReason ==
    ASSUME TypeOK, NEW k \in Keys, NEW to, NEW because, because # "none",
           TransitionPayment(k, to, because), NEW j \in Keys
    PROVE  /\ status[j] = "failed" => reason'[j] = reason[j]
           /\ status[j] # "failed" /\ status'[j] = "failed" => j = k /\ reason'[j] = because
BY DEF TypeOK, TransitionPayment, CanTransition, rowVars, Final

LEMMA TransitionElse ==
    ASSUME TypeOK, NEW k \in Keys, NEW to, to # "failed",
           TransitionPayment(k, to, "none"), NEW j \in Keys
    PROVE  reason'[j] = reason[j] /\ (status'[j] = "failed" => status[j] = "failed")
BY DEF TypeOK, TransitionPayment, CanTransition, rowVars, Final

\* Where a failure that was not found by absence comes from: it was there, or the
\* row's call was refused, or the pump or a reconciler has the node's word for it.
LEMMA NewFailure ==
    ASSUME BaseInv, FailInv, [Next]_vars, NEW k \in Keys,
           status'[k] = "failed", reason'[k] # "never_dispatched"
    PROVE  status[k] # "absent" /\ Stopped(k)
<1>t. TypeOK BY DEF BaseInv, TypeInv
<1>p. status[k] # "absent"
  BY RowSteps DEF BaseInv, RowStep, Moves, Appears, Stays, CanTransition
<1>i. <<k, bolt11[k]>> \in Bodies BY <1>p DEF FailInv, RowsOrdered
<1>f. ASSUME Exclusive(bolt11[k]) => node[bolt11[k]] = "failed" PROVE Stopped(k)
  BY <1>f, <1>i DEF FailInv, NodeAsked, Stopped
<1>k. CASE status[k] = "failed" /\ reason'[k] = reason[k]
  BY <1>p, <1>k DEF FailInv, FailedStopped
<1>1. ASSUME NEW r \in Requests, SendStep(r) PROVE Stopped(k)
  <2>1. CASE BeginPayment(r)
    <3>1. reason' = reason BY <2>1 DEF BeginPayment, rowVars
    <3>2. status[k] = "failed" BY <1>t, <2>1, BeginRow DEF Appears, Stays
    <3> QED BY <1>k, <3>1, <3>2
  <2>2. CASE MarkPending(r)
    <3>1. keyOf[r] \in Keys BY <2>2 DEF MarkPending, BaseInv, OwnerInv, Owns
    <3> QED BY <1>t, <1>k, <2>2, <3>1, TransitionElse DEF MarkPending
  <2>3. CASE RecordRefusal(r)
    <3>1. keyOf[r] \in Keys BY <2>3 DEF RecordRefusal, BaseInv, OwnerInv, Owns
    <3>2. \/ status[k] = "failed" /\ reason'[k] = reason[k]
          \/ k = keyOf[r]
      BY <1>t, <2>3, <3>1, TransitionReason DEF RecordRefusal
    <3>3. Stopped(keyOf[r]) BY <2>3 DEF RecordRefusal, FailInv, RefusedStopped
    <3> QED BY <1>k, <3>2, <3>3
  <2>4. CASE DispatchAccepted(r) \/ DispatchRefused(r) \/ Abandon(r)
    BY <1>k, <2>4 DEF DispatchAccepted, DispatchRefused, Abandon, ledger, rowVars
  <2> QED BY <1>1, <2>1, <2>2, <2>3, <2>4 DEF SendStep
<1>2. CASE PumpApply
  <2> DEFINE event == Head(queue)
  <2>1. /\ pkey \in Keys /\ queue # <<>> /\ bolt11[pkey] = event.invoice
    BY <1>2 DEF PumpApply, BaseInv, TypeInv, PumpBusy, PaidInv, PumpTarget
  <2>2. \/ UNCHANGED rowVars
        \/ TransitionPayment(pkey, event.outcome, IF event.outcome = "failed" THEN "event" ELSE "none")
    BY <1>2 DEF PumpApply, ledger
  <2>3. CASE UNCHANGED rowVars BY <1>k, <2>3 DEF rowVars
  <2>4. CASE TransitionPayment(pkey, event.outcome, "event") /\ event.outcome = "failed"
    <3>1. \/ status[k] = "failed" /\ reason'[k] = reason[k]
          \/ k = pkey
      BY <1>t, <2>1, <2>4, TransitionReason
    <3>2. event = queue[1] /\ 1 \in 1 .. Len(queue) BY <1>t, <2>1 DEF TypeOK
    <3>3. Exclusive(event.invoice) => node[event.invoice] = "failed"
      BY <2>4, <3>2 DEF FailInv, QueueFailed
    <3>4. Exclusive(bolt11[pkey]) => node[bolt11[pkey]] = "failed" BY <2>1, <3>3
    <3> QED BY <1>f, <1>k, <1>p, <3>1, <3>4
  <2>5. CASE TransitionPayment(pkey, event.outcome, "none") /\ event.outcome # "failed"
    BY <1>t, <1>k, <2>1, <2>5, TransitionElse
  <2> QED BY <2>2, <2>3, <2>4, <2>5
<1>3. ASSUME NEW c \in Actors, ReconcileStep(c) PROVE Stopped(k)
  <2>1. CASE ReconcileAsk(c) BY <1>k, <2>1 DEF ReconcileAsk, ledger, rowVars
  <2>2. CASE ReconcilePass(c)
    <3>1. rkey[c] \in Keys BY <2>2 DEF ReconcilePass, BaseInv, PaidInv, ReconTarget
    <3> QED BY <1>t, <1>k, <2>2, <3>1, TransitionElse DEF ReconcilePass
  <2>3. CASE ReconcileApply(c)
    <3>1. rkey[c] \in Keys /\ TransitionPayment(rkey[c], next[c], why[c])
      BY <2>3 DEF ReconcileApply, BaseInv, PaidInv, ReconTarget
    <3>2. CASE next[c] = "failed"
      <4>1. \/ why[c] = "never_dispatched"
            \/ /\ why[c] = "reported_by_node"
               /\ Exclusive(bolt11[rkey[c]]) => node[bolt11[rkey[c]]] = "failed"
        BY <3>2 DEF FailInv, ReconFailed
      <4>2. \/ status[k] = "failed" /\ reason'[k] = reason[k]
            \/ k = rkey[c] /\ reason'[k] = why[c]
        BY <1>t, <3>1, <4>1, TransitionReason
      <4> QED BY <1>f, <1>k, <4>1, <4>2
    <3>3. CASE next[c] # "failed"
      <4>1. status'[k] # status[k] => status'[k] = next[c]
        BY <1>t, <3>1, TransitionRow
      <4>2. status[k] = "failed" BY <3>3, <4>1
      <4>3. reason'[k] = reason[k]
        BY <1>t, <3>1, <4>2 DEF TypeOK, TransitionPayment, CanTransition, rowVars, Final
      <4> QED BY <1>k, <4>2, <4>3
    <3> QED BY <3>2, <3>3
  <2> QED BY <1>3, <2>1, <2>2, <2>3 DEF ReconcileStep
<1>4. CASE \/ \E i \in Invoices : NodeSettle(i)
           \/ PumpFind \/ PumpRetry \/ PumpAck \/ PumpAckFails
           \/ \E c \in Reconcilers : ReconcileRead(c) \/ ReconcileDropped(c)
           \/ ProcessStep
           \/ UNCHANGED vars
  <2>1. UNCHANGED <<status, reason>>
    BY <1>4 DEF NodeSettle, PumpFind, PumpRetry, PumpAck, PumpAckFails, ReconcileRead,
       ReconcileDropped, ProcessStep, Crash, Restart, StartupNext, StartupDone, StartupAborts,
       vars, ledger, rowVars
  <2> QED BY <1>k, <2>1
<1>5. Stopped(k) BY <1>1, <1>2, <1>3, <1>4 DEF Next, PumpStep
<1> QED BY <1>p, <1>5

LEMMA FailInit == Init => FailInv
<1> SUFFICES ASSUME Init PROVE FailInv OBVIOUS
<1>1. Len(queue) = 0 BY DEF Init
<1>2. QueueFailed BY <1>1 DEF QueueFailed
<1>3. NodeAsked
  <2>1. \A b \in Bodies : b[2] \in Invoices BY BodiesAssumption
  <2> QED BY <2>1 DEF Init, NodeAsked
<1> QED BY <1>2, <1>3 DEF Init, FailInv, RowsOrdered, RefusedStopped, ReconFailed, FailedStopped

LEMMA NodeAskedStep ==
    ASSUME BaseInv, FailInv, [Next]_vars
    PROVE  NodeAsked'
<1> SUFFICES ASSUME NEW b \in Bodies, Exclusive(b[2]), node'[b[2]] # "none"
             PROVE  \E r \in asked' : keyOf'[r] = b[1]
  BY DEF NodeAsked, Exclusive
<1>0. b[2] \in Invoices /\ b = <<b[1], b[2]>> BY BodiesAssumption
<1>1. CASE node[b[2]] # "none"
  BY <1>1, AskedStays DEF FailInv, NodeAsked
<1>2. CASE node[b[2]] = "none"
  <2>1. PICK r \in Requests : /\ pc[r] \in {"marked", "detached"} /\ b[2] = bolt11[keyOf[r]]
                              /\ asked' = asked \union {r} /\ keyOf' = keyOf
    BY <1>0, <1>2, NodeSteps DEF FailInv
  <2>2. <<keyOf[r], b[2]>> \in Bodies BY <2>1, FirstToAsk DEF FailInv
  <2>3. keyOf[r] = b[1] BY <2>2 DEF Exclusive
  <2> QED BY <2>1, <2>3
<1> QED BY <1>1, <1>2

LEMMA QueueFailedStep ==
    ASSUME BaseInv, FailInv, [Next]_vars
    PROVE  QueueFailed'
<1>t. TypeOK BY DEF BaseInv, TypeInv
<1>0. \A n \in 1 .. Len(queue) : queue[n].invoice \in Invoices
  <2>1. \A n \in 1 .. Len(queue) : queue[n] \in NodeEvent BY <1>t DEF TypeOK
  <2> QED BY <2>1 DEF NodeEvent
<1>k. \A n \in 1 .. Len(queue) : queue[n].outcome = "failed" /\ Exclusive(queue[n].invoice)
                                 => node'[queue[n].invoice] = "failed"
  BY <1>0, NodeKeepsFailed DEF FailInv, QueueFailed
<1> USE DEF Exclusive
<1>1. CASE \E i \in Invoices : NodeSettle(i)
  <2>1. PICK i \in Invoices, outcome \in Final :
          /\ node' = [node EXCEPT ![i] = outcome]
          /\ queue' = Append(queue, [id |-> issued', invoice |-> i, outcome |-> outcome])
    BY <1>1 DEF NodeSettle
  <2> DEFINE e == [id |-> issued', invoice |-> i, outcome |-> outcome]
  <2>2. /\ Len(queue') = Len(queue) + 1 /\ Len(queue) \in Nat
        /\ queue'[Len(queue) + 1] = e
        /\ \A n \in 1 .. Len(queue) : queue'[n] = queue[n]
    BY <1>t, <2>1 DEF TypeOK
  <2>3. e.outcome = "failed" => node'[e.invoice] = "failed" BY <1>t, <2>1 DEF TypeOK
  <2> HIDE DEF e
  <2>4. \A n \in 1 .. Len(queue') : n \in 1 .. Len(queue) \/ n = Len(queue) + 1 BY <2>2
  <2> QED BY <1>k, <2>2, <2>3, <2>4 DEF QueueFailed
<1>2. CASE PumpAck
  <2>1. queue # <<>> /\ queue' = Tail(queue) BY <1>2 DEF PumpAck, BaseInv, TypeInv, PumpBusy
  <2>2. /\ Len(queue) \in Nat /\ Len(queue) >= 1 /\ Len(queue') = Len(queue) - 1
        /\ \A n \in 1 .. Len(queue') : queue'[n] = queue[n + 1]
    BY <1>t, <2>1 DEF TypeOK
  <2>3. \A n \in 1 .. Len(queue') : n + 1 \in 1 .. Len(queue) BY <2>2
  <2> QED BY <1>k, <2>2, <2>3 DEF QueueFailed
<1>3. CASE ~(PumpAck \/ \E i \in Invoices : NodeSettle(i))
  <2>1. queue' = queue
    BY <1>3 DEF Next, SendStep, BeginPayment, MarkPending, DispatchAccepted, DispatchRefused,
       RecordRefusal, Abandon, PumpStep, PumpFind, PumpApply, PumpRetry, PumpAckFails,
       ReconcileRead, ReconcileDropped, ReconcileStep, ReconcileAsk, ReconcilePass,
       ReconcileApply, ProcessStep, Crash, Restart, StartupNext, StartupDone, StartupAborts,
       vars, nodeVars
  <2> QED BY <1>k, <2>1 DEF QueueFailed
<1> QED BY <1>1, <1>2, <1>3

LEMMA RefusedStep ==
    ASSUME BaseInv, FailInv, [Next]_vars
    PROVE  RefusedStopped'
<1>t. TypeOK BY DEF BaseInv, TypeInv
<1>s. SUFFICES ASSUME NEW r \in Requests, pc'[r] = "refused"
               PROVE  r \in asked' /\ Stopped(keyOf[r])'
  BY DEF RefusedStopped
<1>1. CASE pc[r] = "refused"
  <2>1. r \in asked /\ Stopped(keyOf[r]) BY <1>1 DEF FailInv, RefusedStopped
  <2>2. PICK k \in Keys : k = keyOf[r] /\ status[k] # "absent"
    BY <1>1 DEF BaseInv, OwnerInv, Owns
  <2>3. Stopped(k)' BY <2>1, <2>2, StoppedStays DEF FailInv
  <2>4. r \in asked' /\ keyOf'[r] = k BY <2>1, <2>2, AskedStays
  <2> QED BY <2>3, <2>4 DEF Stopped
<1>2. CASE pc[r] # "refused"
  <2>1. DispatchRefused(r)
    <3>1. CASE \E q \in Requests : SendStep(q) /\ ~DispatchRefused(q)
      BY <1>t, <1>s, <1>2, <3>1 DEF SendStep, BeginPayment, MarkPending, DispatchAccepted,
         RecordRefusal, Abandon, TypeOK
    <3>2. CASE \E q \in Requests : DispatchRefused(q)
      <4>1. PICK q \in Requests : DispatchRefused(q) BY <3>2
      <4>2. q # r => pc'[r] = pc[r] BY <1>t, <4>1 DEF DispatchRefused, TypeOK
      <4> QED BY <1>s, <1>2, <4>1, <4>2
    <3>3. CASE Crash BY <1>s, <1>2, <3>3 DEF Crash
    <3>4. CASE \/ \E i \in Invoices : NodeSettle(i)
               \/ PumpStep
               \/ \E c \in Reconcilers : ReconcileRead(c) \/ ReconcileDropped(c)
               \/ \E c \in Actors : ReconcileStep(c)
               \/ Restart \/ StartupNext \/ StartupDone \/ StartupAborts
               \/ UNCHANGED vars
      BY <1>s, <1>2, <3>4 DEF NodeSettle, PumpStep, PumpFind, PumpApply, PumpRetry, PumpAck,
         PumpAckFails, ReconcileRead, ReconcileDropped, ReconcileStep, ReconcileAsk, ReconcilePass,
         ReconcileApply, Restart, StartupNext, StartupDone, StartupAborts, vars, call
    <3> QED BY <3>1, <3>2, <3>3, <3>4 DEF Next, ProcessStep
  <2>2. pc[r] = "marked"  BY <1>t, <1>s, <2>1 DEF DispatchRefused, TypeOK
  <2>3. /\ keyOf[r] \in Keys /\ bolt11[keyOf[r]] \in Invoices
        /\ Exclusive(bolt11[keyOf[r]]) => node[bolt11[keyOf[r]]] = "none"
    BY <2>2, FirstToAsk DEF FailInv
  <2>4. /\ r \in asked' /\ keyOf' = keyOf /\ bolt11' = bolt11
        /\ \/ node' = node
           \/ node' = [node EXCEPT ![bolt11[keyOf[r]]] = "failed"]
    BY <2>1 DEF DispatchRefused, ledger, rowVars
  <2>5. node'[bolt11[keyOf[r]]] \in {node[bolt11[keyOf[r]]], "failed"}
    BY <1>t, <2>3, <2>4 DEF TypeOK
  <2> QED BY <2>3, <2>4, <2>5 DEF Stopped, Exclusive
<1> QED BY <1>1, <1>2

\* A reconciler that intends a failure was told of it by the node, or found nothing.
LEMMA ReconFailedStep ==
    ASSUME BaseInv, FailInv, [Next]_vars
    PROVE  ReconFailed'
<1>t. TypeOK BY DEF BaseInv, TypeInv
<1> DEFINE Told(c) == Exclusive(bolt11[rkey[c]]) => node[bolt11[rkey[c]]] = "failed"
           Good(c) == next[c] = "failed" => \/ why[c] = "never_dispatched"
                                            \/ why[c] = "reported_by_node" /\ Told(c)
<1>s. SUFFICES ASSUME NEW d \in Actors PROVE Good(d)' BY DEF ReconFailed
<1>g. Good(d) BY DEF FailInv, ReconFailed
<1>k. ASSUME UNCHANGED <<rkey[d], next[d], why[d]>> PROVE Good(d)'
  <2>1. CASE next[d] # "failed" BY <1>k, <2>1
  <2>2. CASE next[d] = "failed"
    <3>1. rpc[d] # "idle" BY <1>t, <2>2 DEF BaseInv, PaidInv, ReconFresh
    <3>2. rkey[d] \in Keys /\ status[rkey[d]] # "absent"
      BY <3>1 DEF BaseInv, PaidInv, ReconTarget
    <3>3. bolt11'[rkey[d]] = bolt11[rkey[d]] /\ bolt11[rkey[d]] \in Invoices
      BY <3>2, RowsPersist DEF BaseInv, PaidInv, RowsHaveInvoice
    <3>4. Told(d) => Told(d)' BY <1>k, <3>3, NodeKeepsFailed DEF FailInv, Exclusive
    <3> QED BY <1>k, <1>g, <2>2, <3>4
  <2> QED BY <2>1, <2>2
<1>r. ASSUME NEW c \in Actors, Return(c) PROVE Good(d)'
  <2>1. CASE c = d BY <1>t, <1>r, <2>1 DEF Return, TypeOK
  <2>2. CASE c # d BY <1>t, <1>k, <1>r, <2>2 DEF Return, TypeOK
  <2> QED BY <2>1, <2>2
<1>n. ASSUME NEW c \in Actors, NEW k, rpc[c] = "idle", Snapshot(c, k) PROVE Good(d)'
  <2>1. CASE c = d BY <1>t, <1>n, <2>1 DEF Snapshot, TypeOK, BaseInv, PaidInv, ReconFresh
  <2>2. CASE c # d BY <1>t, <1>k, <1>n, <2>2 DEF Snapshot, TypeOK
  <2> QED BY <2>1, <2>2
<1>1. ASSUME NEW c \in Actors, ReconcileAsk(c) PROVE Good(d)'
  <2> DEFINE view == node[bolt11[rkey[c]]]
  <2>0. UNCHANGED <<bolt11, node>> BY <1>1 DEF ReconcileAsk, ledger, rowVars, nodeVars
  <2>1. \/ Return(c)
        \/ \E v \in (Final \union {"unknown"}) \X Reasons :
             /\ Verdict(seen[c], view, v[1], v[2])
             /\ next' = [next EXCEPT ![c] = v[1]]
             /\ why' = [why EXCEPT ![c] = v[2]]
             /\ UNCHANGED <<rkey, seen>>
    BY <1>1, Zenon DEF ReconcileAsk
  <2>2. CASE Return(c) BY <1>r, <2>2
  <2>3. CASE ~Return(c)
    <3>1. PICK v \in (Final \union {"unknown"}) \X Reasons :
             /\ Verdict(seen[c], view, v[1], v[2])
             /\ next' = [next EXCEPT ![c] = v[1]]
             /\ why' = [why EXCEPT ![c] = v[2]]
             /\ UNCHANGED <<rkey, seen>>
      BY <2>1, <2>3
    <3>2. v[1] = "failed" => \/ v[2] = "never_dispatched"
                             \/ v[2] = "reported_by_node" /\ view = "failed"
      BY <3>1 DEF Verdict
    <3>3. CASE c = d
      <4>1. next'[d] = v[1] /\ why'[d] = v[2] /\ rkey'[d] = rkey[d]
        BY <1>t, <3>1, <3>3 DEF TypeOK
      <4> QED BY <2>0, <3>2, <3>3, <4>1
    <3>4. CASE c # d BY <1>t, <1>k, <3>1, <3>4 DEF TypeOK
    <3> QED BY <3>3, <3>4
  <2> QED BY <2>2, <2>3
<1>2. ASSUME NEW c \in Actors, ReconcilePass(c) PROVE Good(d)'
  BY <1>k, <1>r, <1>2 DEF ReconcilePass
<1>3. ASSUME NEW c \in Actors, ReconcileApply(c) \/ ReconcileDropped(c) PROVE Good(d)'
  BY <1>r, <1>3 DEF ReconcileApply, ReconcileDropped
<1>4. ASSUME NEW c \in Actors, ReconcileRead(c) PROVE Good(d)'
  BY <1>n, <1>4 DEF ReconcileRead
<1>5. CASE StartupNext BY <1>n, <1>5 DEF StartupNext, Actors
<1>6. CASE StartupAborts BY <1>r, <1>6 DEF StartupAborts, Actors
<1>7. CASE Crash BY <1>7 DEF Crash
<1>8. CASE \/ \E r \in Requests : SendStep(r)
           \/ \E i \in Invoices : NodeSettle(i)
           \/ PumpStep \/ Restart \/ StartupDone
           \/ UNCHANGED vars
  <2>1. UNCHANGED recon
    BY <1>8 DEF SendStep, BeginPayment, MarkPending, DispatchAccepted, DispatchRefused,
       RecordRefusal, Abandon, NodeSettle, PumpStep, PumpFind, PumpApply, PumpRetry, PumpAck,
       PumpAckFails, Restart, StartupDone, vars
  <2> QED BY <1>k, <2>1 DEF recon
<1> HIDE DEF Good
<1> QED BY <1>1, <1>2, <1>3, <1>4, <1>5, <1>6, <1>7, <1>8
  DEF Next, ReconcileStep, ProcessStep, Actors

LEMMA FailStep == BaseInv /\ FailInv /\ [Next]_vars => FailInv'
<1> SUFFICES ASSUME BaseInv, FailInv, [Next]_vars PROVE FailInv' OBVIOUS
<1>1. RowsOrdered'
  BY RowSteps DEF RowsOrdered, FailInv, BaseInv, RowStep, Moves, Appears, Stays, CanTransition
<1>2. FailedStopped'
  <2> SUFFICES ASSUME NEW k \in Keys, status'[k] = "failed", reason'[k] # "never_dispatched"
               PROVE  Stopped(k)'
    BY DEF FailedStopped
  <2> QED BY NewFailure, StoppedStays DEF FailInv
<1> QED BY <1>1, <1>2, NodeAskedStep, QueueFailedStep, RefusedStep, ReconFailedStep DEF FailInv

LEMMA BaseInvariant == Spec => []BaseInv
<1>1. Init => AskedIsOver BY DEF Init, AskedIsOver
<1> QED BY <1>1, AskedOnce, InitTyped, NextTyped, OwnerInit, OwnerStep, PaidInit, PaidStep, PTL
  DEF Spec, BaseInv

\* A failure that the ledger records from the node's word is true for good, if the
\* invoice is used under one key: whatever races, redeliveries, stale reconciliations
\* and crashes come before or after it, the money is neither sent nor in flight.
THEOREM FailureIsReal == Spec => []FailedMeansNotPaid
<1>1. Spec => []FailInv BY BaseInvariant, FailInit, FailStep, PTL DEF Spec
<1>2. FailInv => FailedMeansNotPaid
  BY DEF FailInv, FailedStopped, Stopped, FailedMeansNotPaid
<1> QED BY <1>1, <1>2, PTL

-----------------------------------------------------------------------------
(* Startup reconciliation: until traffic is served again nobody but the    *)
(* recovery pass touches the ledger, and every row that looks dispatched   *)
(* but is unknown to the node is still to come or in hand.                 *)

\* No handler, API reconciliation or pump is at work.
Halted == /\ \A r \in Requests : pc[r] \in {"idle", "done"}
          /\ \A c \in Reconcilers : rpc[c] = "idle"
          /\ ppc = "idle"

Orphan(k) == status[k] \in {"created", "pending"} /\ node[bolt11[k]] = "none"

\* The recovery pass is working on row k and will take it out of its present status.
InHand(k) == /\ rkey[Startup] = k
             /\ \/ rpc[Startup] = "ask" /\ seen[Startup] = status[k]
                \/ /\ rpc[Startup] = "apply"
                   /\ \/ status[k] = "created" /\ next[Startup] = "failed"
                      \/ status[k] = "pending" /\ next[Startup] = "unknown"

RecoveryInv ==
    /\ phase # "serving" => Halted
    /\ phase = "down" => rpc[Startup] = "idle"
    /\ phase = "recovering" => \A k \in Keys : Orphan(k) => k \in todo \/ InHand(k)

\* While the process is down or recovering, only the node, the recovery pass and
\* another crash make a step.
LEMMA HaltedSteps ==
    ASSUME TypeInv, RecoveryInv, [Next]_vars, phase # "serving"
    PROVE  \/ \E i \in Invoices : NodeSettle(i)
           \/ ReconcileStep(Startup) /\ rpc[Startup] # "idle"
           \/ ProcessStep \/ UNCHANGED vars
<1>h. Halted BY DEF RecoveryInv
<1>1. ASSUME NEW r \in Requests, SendStep(r) PROVE FALSE
  BY <1>h, <1>1 DEF Halted, SendStep, BeginPayment, MarkPending, DispatchAccepted,
     DispatchRefused, RecordRefusal, Abandon
<1>2. CASE PumpStep
  BY <1>h, <1>2 DEF Halted, PumpStep, PumpFind, PumpApply, PumpRetry, PumpAck, PumpAckFails
<1>3. ASSUME NEW c \in Reconcilers, ReconcileRead(c) \/ ReconcileDropped(c) PROVE FALSE
  BY <1>h, <1>3 DEF Halted, ReconcileRead, ReconcileDropped
<1>4. ASSUME NEW c \in Actors, ReconcileStep(c) PROVE c = Startup /\ rpc[Startup] # "idle"
  BY <1>h, <1>4 DEF Halted, Actors, ReconcileStep, ReconcileAsk, ReconcilePass, ReconcileApply
<1> QED BY <1>1, <1>2, <1>3, <1>4 DEF Next

\* A row is an orphan after a step that inserts no row only if it was one before.
LEMMA NoNewOrphan ==
    ASSUME TypeInv, PaidInv, NEW k \in Keys, Orphan(k)', status'[k] = status[k], bolt11' = bolt11,
           \/ node' = node \/ \E i \in Invoices : NodeSettle(i)
    PROVE  Orphan(k)
<1>t. TypeOK BY DEF TypeInv
<1>1. bolt11[k] \in Invoices BY DEF Orphan, PaidInv, RowsHaveInvoice
<1> QED BY <1>t, <1>1 DEF Orphan, NodeSettle, TypeOK, Final

LEMMA RecoveryStep == TypeInv /\ PaidInv /\ RecoveryInv /\ [Next]_vars => RecoveryInv'
<1> SUFFICES ASSUME TypeInv, PaidInv, RecoveryInv, [Next]_vars PROVE RecoveryInv' OBVIOUS
<1>t. TypeOK /\ Startup \in Actors BY DEF TypeInv, Actors
<1> DEFINE Covered == \A k \in Keys : Orphan(k) => k \in todo \/ InHand(k)
<1>1. CASE Crash BY <1>1, <1>t DEF Crash, RecoveryInv, Halted, Actors
<1>2. CASE Restart
  <2>1. /\ phase = "down" /\ phase' = "recovering" /\ todo' = {k \in Keys : status[k] \in Open}
        /\ UNCHANGED <<status, pc, rpc, ppc>>
    BY <1>2 DEF Restart, ledger, rowVars, call, recon, pump
  <2>2. Halted' BY <2>1 DEF RecoveryInv, Halted
  <2>3. \A k \in Keys : Orphan(k)' => k \in todo' BY <2>1 DEF Orphan, Open
  <2> QED BY <2>1, <2>2, <2>3 DEF RecoveryInv
<1>3. CASE phase = "serving" /\ ~Crash
  <2>1. phase' = "serving"
    BY <1>3 DEF Next, SendStep, BeginPayment, MarkPending, DispatchAccepted, DispatchRefused,
       RecordRefusal, Abandon, NodeSettle, PumpStep, PumpFind, PumpApply, PumpRetry, PumpAck,
       PumpAckFails, ReconcileRead, ReconcileDropped, ReconcileStep, ReconcileAsk, ReconcilePass,
       ReconcileApply, ProcessStep, Restart, StartupNext, StartupDone, StartupAborts, vars, process
  <2> QED BY <2>1 DEF RecoveryInv
<1>4. CASE StartupDone \/ StartupAborts
  BY <1>4 DEF StartupDone, StartupAborts, RecoveryInv
<1>5. CASE phase # "serving" /\ (UNCHANGED vars \/ \E i \in Invoices : NodeSettle(i))
  <2>1. /\ UNCHANGED <<status, bolt11, pc, recon, ppc, phase, todo>>
        /\ node' = node \/ \E i \in Invoices : NodeSettle(i)
    BY <1>5 DEF vars, NodeSettle, ledger, rowVars, nodeVars, call, pump, process
  <2>2. \A k \in Keys : Orphan(k)' => Orphan(k) BY <2>1, NoNewOrphan
  <2>3. \A k \in Keys : InHand(k)' <=> InHand(k) BY <2>1 DEF InHand, recon
  <2>4. Halted <=> Halted' BY <2>1 DEF Halted, recon
  <2> QED BY <2>1, <2>2, <2>3, <2>4 DEF RecoveryInv, recon
<1>6. CASE StartupNext
  <2>1. PICK k \in todo : todo' = todo \ {k} /\ Snapshot(Startup, k) BY <1>6 DEF StartupNext
  <2>2. /\ phase = "recovering" /\ phase' = phase /\ rpc[Startup] = "idle"
        /\ UNCHANGED <<status, bolt11, node, pc, ppc>>
    BY <1>6 DEF StartupNext, ledger, rowVars, nodeVars, call, pump
  <2>3. /\ rpc'[Startup] = "ask" /\ rkey'[Startup] = k /\ seen'[Startup] = status[k]
        /\ \A c \in Reconcilers : rpc'[c] = rpc[c]
    BY <1>t, <2>1, StartupAssumption DEF Snapshot, TypeOK, Actors
  <2>4. Halted' BY <2>2, <2>3 DEF RecoveryInv, Halted
  <2>5. ASSUME NEW j \in Keys, Orphan(j)' PROVE j \in todo' \/ InHand(j)'
    <3>1. Orphan(j) BY <2>2, <2>5 DEF Orphan
    <3>2. j \in todo BY <2>2, <3>1 DEF RecoveryInv, InHand
    <3> QED BY <2>1, <2>2, <2>3, <3>2 DEF InHand
  <2> QED BY <2>2, <2>4, <2>5 DEF RecoveryInv
<1>7. CASE phase # "serving" /\ ReconcileStep(Startup) /\ rpc[Startup] # "idle"
  <2>0. /\ phase = "recovering" /\ Halted /\ Covered
    BY <1>t, <1>7 DEF RecoveryInv, TypeOK
  <2>1. UNCHANGED <<phase, todo, pc, ppc, bolt11, node>>
    BY <1>7 DEF ReconcileStep, ReconcileAsk, ReconcilePass, ReconcileApply, TransitionPayment,
       ledger, rowVars, nodeVars, call, pump, process
  <2>2. \A c \in Reconcilers : rpc'[c] = rpc[c]
    BY <1>t, <1>7, StartupAssumption
    DEF ReconcileStep, ReconcileAsk, ReconcilePass, ReconcileApply, Return, TypeOK, Actors
  <2>3. Halted' BY <2>0, <2>1, <2>2 DEF Halted
  <2>4. rkey[Startup] \in Keys BY <1>t, <1>7 DEF PaidInv, ReconTarget
  <2>5. CASE ReconcileAsk(Startup)
    <3>0. UNCHANGED <<status, bolt11, node>> BY <2>5 DEF ReconcileAsk, ledger, rowVars, nodeVars
    <3> SUFFICES ASSUME NEW k \in Keys, Orphan(k)' PROVE k \in todo' \/ InHand(k)'
      BY <2>0, <2>1, <2>3 DEF RecoveryInv
    <3>1. Orphan(k) BY <3>0 DEF Orphan
    <3>2. CASE k \in todo BY <2>1, <3>2
    <3>3. CASE InHand(k)
      <4> DEFINE view == node[bolt11[rkey[Startup]]]
                 verdicts == {v \in (Final \union {"unknown"}) \X Reasons :
                                Verdict(seen[Startup], view, v[1], v[2])}
      <4>1. /\ rkey[Startup] = k /\ seen[Startup] = status[k] /\ view = "none"
        BY <2>5, <3>1, <3>3 DEF InHand, ReconcileAsk, Orphan
      <4>2. seen[Startup] \in {"created", "pending"} BY <3>1, <4>1 DEF Orphan
      <4>3. verdicts # {}
        <5>1. CASE seen[Startup] = "created"
          <6>1. <<"failed", "never_dispatched">> \in verdicts
            BY <4>1, <5>1 DEF Verdict, Final, Reasons
          <6> QED BY <6>1
        <5>2. CASE seen[Startup] = "pending"
          <6>1. <<"unknown", "none">> \in verdicts BY <4>1, <5>2 DEF Verdict, Final, Reasons
          <6> QED BY <6>1
        <5> QED BY <4>2, <5>1, <5>2
      <4>4. PICK v \in verdicts :
              /\ next' = [next EXCEPT ![Startup] = v[1]]
              /\ rpc' = [rpc EXCEPT ![Startup] = IF seen[Startup] = "created" /\ v[1] # "failed"
                                                 THEN "pass" ELSE "apply"]
              /\ UNCHANGED <<rkey, seen>>
        BY <2>5, <4>3 DEF ReconcileAsk
      <4>5. \/ seen[Startup] = "created" /\ v[1] = "failed"
            \/ seen[Startup] = "pending" /\ v[1] = "unknown"
        BY <4>1, <4>2 DEF Verdict
      <4> HIDE DEF verdicts
      <4>6. next'[Startup] = v[1] /\ rpc'[Startup] = "apply" /\ rkey'[Startup] = k
        BY <1>t, <4>1, <4>4, <4>5 DEF TypeOK
      <4> QED BY <3>0, <4>1, <4>5, <4>6 DEF InHand
    <3> QED BY <2>0, <3>1, <3>2, <3>3
  <2>6. CASE ReconcilePass(Startup) \/ ReconcileApply(Startup)
    <3> SUFFICES ASSUME NEW k \in Keys, Orphan(k)' PROVE k \in todo'
      BY <2>0, <2>1, <2>3 DEF RecoveryInv
    <3>1. PICK j \in Keys : j = rkey[Startup] BY <2>4
    <3>2. Moves(k) \/ Stays(k)
      <4>1. \E to, because : TransitionPayment(j, to, because)
        BY <2>6, <3>1 DEF ReconcilePass, ReconcileApply
      <4> QED BY <1>t, <4>1, TransitionRow
    <3>3. status[k] \in {"created", "pending"}
      <4>1. status'[k] \in {"created", "pending"} BY DEF Orphan
      <4> QED BY <3>2, <4>1 DEF Moves, Stays, CanTransition, Final
    <3>4. Orphan(k) BY <2>1, <3>3 DEF Orphan
    <3>5. ~InHand(k)
      <4>1. CASE ReconcilePass(Startup) BY <4>1 DEF ReconcilePass, InHand
      <4>2. CASE ReconcileApply(Startup)
        <5> SUFFICES ASSUME InHand(k) PROVE FALSE OBVIOUS
        <5>1. rkey[Startup] = k /\ CanTransition(status[k], next[Startup])
          BY <4>2 DEF ReconcileApply, InHand, CanTransition
        <5>2. status'[k] = next[Startup] /\ next[Startup] \in {"failed", "unknown"}
          BY <1>t, <4>2, <5>1 DEF ReconcileApply, TransitionPayment, InHand, TypeOK
        <5> QED BY <5>2 DEF Orphan
      <4> QED BY <2>6, <4>1, <4>2
    <3> QED BY <2>0, <2>1, <3>4, <3>5
  <2> QED BY <1>7, <2>5, <2>6 DEF ReconcileStep
<1> QED BY <1>1, <1>2, <1>3, <1>4, <1>5, <1>6, <1>7, HaltedSteps DEF ProcessStep

\* A startup pass that runs to its end leaves no row that looks dispatched and is
\* unknown to the node, for any number of rows, crashes and aborted earlier passes.
THEOREM RecoveryIsComplete == Spec => StartupLeavesNoOrphan
<1>1. Init => RecoveryInv BY DEF Init, RecoveryInv
<1>2. Spec => [](TypeInv /\ PaidInv /\ RecoveryInv)
  BY <1>1, InitTyped, NextTyped, PaidInit, PaidStep, RecoveryStep, PTL DEF Spec
<1>3. RecoveryInv /\ [Next]_vars =>
        [(phase = "recovering" /\ phase' = "serving" /\ todo = {} /\ rpc[Startup] = "idle")
           => \A k \in Keys : status[k] \in {"created", "pending"} => node[bolt11[k]] # "none"]_vars
  BY DEF RecoveryInv, Orphan, InHand
<1> QED BY <1>2, <1>3, PTL DEF Spec, StartupLeavesNoOrphan

=============================================================================
