------------------------- MODULE PaymentEngineProofs -------------------------
(***************************************************************************)
(* Proofs about PaymentEngine for every set of keys, invoices, requests    *)
(* and reconcilers, and any number of crashes.                             *)
(***************************************************************************)
EXTENDS PaymentEngine, SequenceTheorems, TLAPS

\* The pump is busy only with an event the node still holds, and applies it to a
\* row of the ledger.
PumpBusy == /\ ppc # "idle" => queue # <<>>
            /\ ppc = "apply" => pkey \in Keys

TypeInv == TypeOK /\ PumpBusy

\* transition_payment keeps the tables well typed, whoever calls it.
LEMMA TransitionTyped ==
    ASSUME TypeOK, NEW k \in Keys \union {None}, NEW to, NEW because \in Reasons,
           TransitionPayment(k, to, because)
    PROVE  /\ status' \in [Keys -> PaymentStatus \union {"absent"}]
           /\ bolt11' \in [Keys -> Invoices \union {None}]
           /\ reason' \in [Keys -> Reasons]
           /\ born' \in [Keys -> Nat] /\ clock' \in Nat
           /\ emitted' \in [Keys -> Seq(Final \union {"unknown"})]
<1> USE DEF TypeOK, TransitionPayment, CanTransition, rowVars, PaymentStatus, Open, Final
<1>1. CASE CanTransition(status[k], to)
  <2>1. to \in PaymentStatus BY <1>1
  <2>2. to # "pending" => to \in Final \union {"unknown"} BY <1>1
  <2>3. emitted' \in [Keys -> Seq(Final \union {"unknown"})]
    <3>1. CASE to = "pending" BY <1>1, <3>1
    <3>2. CASE to # "pending"
      <4>1. emitted' = [emitted EXCEPT ![k] = Append(@, to)] BY <1>1, <3>2
      <4>2. \A e \in Seq(Final \union {"unknown"}) :
              Append(e, to) \in Seq(Final \union {"unknown"}) BY <2>2, <3>2
      <4> QED BY <4>1, <4>2
    <3> QED BY <3>1, <3>2
  <2> QED BY <1>1, <2>1, <2>3
<1>2. CASE ~CanTransition(status[k], to) BY <1>2
<1> QED BY <1>1, <1>2

LEMMA InitTyped == Init => TypeInv
BY CrashAssumption DEF Init, TypeInv, TypeOK, PumpBusy, Actors, Final, PaymentStatus, Reasons, NodeStatus

LEMMA SendTyped ==
    ASSUME TypeInv, NEW r \in Requests, SendStep(r)
    PROVE  TypeInv'
<1> USE DEF TypeInv, TypeOK, PumpBusy, ledger, rowVars, nodeVars, recon, pump, process, PaymentStatus, Open, Final
<1>1. CASE BeginPayment(r)
  <2>1. PICK b \in Bodies :
          \/ /\ status' = [status EXCEPT ![b[1]] = "created"]
             /\ bolt11' = [bolt11 EXCEPT ![b[1]] = b[2]]
             /\ clock' = clock + 1
             /\ born' = [born EXCEPT ![b[1]] = clock']
             /\ pc' = [pc EXCEPT ![r] = "begun"] /\ keyOf' = [keyOf EXCEPT ![r] = b[1]]
             /\ UNCHANGED <<reason, emitted>>
          \/ /\ pc' = [pc EXCEPT ![r] = "done"] /\ keyOf' = [keyOf EXCEPT ![r] = b[1]]
             /\ UNCHANGED rowVars
    BY <1>1 DEF BeginPayment
  <2>2. b[1] \in Keys /\ b[2] \in Invoices BY BodiesAssumption
  <2>3. /\ status' \in [Keys -> PaymentStatus \union {"absent"}]
        /\ bolt11' \in [Keys -> Invoices \union {None}]
        /\ born' \in [Keys -> Nat] /\ clock' \in Nat
        /\ reason' = reason /\ emitted' = emitted
    <3>1. CASE UNCHANGED rowVars BY <3>1
    <3>2. CASE ~UNCHANGED rowVars
      <4>1. /\ status' = [status EXCEPT ![b[1]] = "created"]
            /\ bolt11' = [bolt11 EXCEPT ![b[1]] = b[2]]
            /\ clock' = clock + 1
            /\ born' = [born EXCEPT ![b[1]] = clock']
            /\ UNCHANGED <<reason, emitted>>
        BY <2>1, <3>2
      <4>2. clock' \in Nat BY <4>1
      <4>3. born' \in [Keys -> Nat] BY <4>1, <4>2
      <4>4. status' \in [Keys -> PaymentStatus \union {"absent"}] BY <4>1
      <4>5. bolt11' \in [Keys -> Invoices \union {None}] BY <2>2, <4>1
      <4> QED BY <4>1, <4>2, <4>3, <4>4, <4>5
    <3> QED BY <3>1, <3>2
  <2>4. /\ pc' \in [Requests -> {"idle", "begun", "marked", "detached", "refused", "done"}]
        /\ keyOf' \in [Requests -> Keys \union {None}]
    BY <2>1, <2>2
  <2>5. UNCHANGED <<claimed, resolvedBy, nodeVars, recon, pump, process, asked>>
    BY <1>1 DEF BeginPayment
  <2> QED BY <2>3, <2>4, <2>5
<1>2. CASE MarkPending(r)
  <2>1. keyOf[r] \in Keys \union {None} OBVIOUS
  <2> QED BY <1>2, <2>1, TransitionTyped DEF MarkPending, Reasons
<1>3. CASE DispatchAccepted(r) BY <1>3 DEF DispatchAccepted, NodeStatus
<1>4. CASE DispatchRefused(r) BY <1>4 DEF DispatchRefused, NodeStatus
<1>5. CASE RecordRefusal(r)
  <2>1. keyOf[r] \in Keys \union {None} OBVIOUS
  <2> QED BY <1>5, <2>1, TransitionTyped DEF RecordRefusal, Reasons
<1>6. CASE Abandon(r) BY <1>6 DEF Abandon
<1> QED BY <1>1, <1>2, <1>3, <1>4, <1>5, <1>6 DEF SendStep

LEMMA SettleTyped ==
    ASSUME TypeInv, NEW i \in Invoices, NodeSettle(i)
    PROVE  TypeInv'
<1> USE DEF TypeInv, TypeOK, PumpBusy, ledger, rowVars, call, recon, pump, process
<1>1. PICK outcome \in Final :
        /\ node' = [node EXCEPT ![i] = outcome]
        /\ issued' = issued + 1
        /\ queue' = Append(queue, [id |-> issued', invoice |-> i, outcome |-> outcome])
  BY DEF NodeSettle
<1>2. node' \in [Invoices -> NodeStatus] BY <1>1 DEF NodeStatus, Final
<1>3. [id |-> issued', invoice |-> i, outcome |-> outcome] \in NodeEvent BY <1>1 DEF NodeEvent
<1>4. queue' \in Seq(NodeEvent) /\ queue' # <<>>
  <2>1. \A e \in NodeEvent : /\ Append(queue, e) \in Seq(NodeEvent)
                             /\ Len(Append(queue, e)) = Len(queue) + 1 /\ Len(queue) \in Nat
    OBVIOUS
  <2>2. Len(<<>>) = 0 OBVIOUS
  <2> QED BY <1>1, <1>3, <2>1, <2>2
<1> QED BY <1>1, <1>2, <1>4 DEF NodeSettle

LEMMA PumpTyped ==
    ASSUME TypeInv, PumpStep
    PROVE  TypeInv'
<1> USE DEF TypeInv, TypeOK, PumpBusy, ledger, nodeVars, call, recon, process
<1>1. CASE PumpFind BY <1>1 DEF PumpFind, Newest, Unresolved, rowVars
<1>2. CASE PumpApply
  <2> DEFINE event == Head(queue)
  <2>1. event \in NodeEvent /\ pkey \in Keys BY <1>2 DEF PumpApply
  <2>2. CASE /\ <<event.outcome, pkey>> \notin claimed
             /\ CanTransition(status[pkey], event.outcome)
    <3>1. /\ TransitionPayment(pkey, event.outcome,
                               IF event.outcome = "failed" THEN "event" ELSE "none")
          /\ claimed' = claimed \union {<<event.outcome, pkey>>}
          /\ resolvedBy' = [resolvedBy EXCEPT ![pkey] = event.id]
          /\ UNCHANGED <<nodeVars, call, recon, process, asked>>
          /\ ppc' = "ack" /\ UNCHANGED pkey
      BY <1>2, <2>2 DEF PumpApply
    <3>2. (IF event.outcome = "failed" THEN "event" ELSE "none") \in Reasons BY DEF Reasons
    <3>3. claimed' \subseteq Final \X Keys /\ resolvedBy' \in [Keys -> Nat]
      BY <2>1, <3>1 DEF NodeEvent
    <3> HIDE DEF event
    <3>4. TypeOK'
      BY <2>1, <3>1, <3>2, <3>3, TransitionTyped
    <3> QED BY <1>2, <3>1, <3>4 DEF PumpApply
  <2>3. CASE ~(/\ <<event.outcome, pkey>> \notin claimed
               /\ CanTransition(status[pkey], event.outcome))
    BY <1>2, <2>3 DEF PumpApply, rowVars
  <2> QED BY <2>2, <2>3
<1>3. CASE PumpRetry BY <1>3 DEF PumpRetry, rowVars
<1>4. CASE PumpAck
  <2>1. Tail(queue) \in Seq(NodeEvent) BY <1>4 DEF PumpAck
  <2> QED BY <1>4, <2>1 DEF PumpAck, rowVars
<1>5. CASE PumpAckFails BY <1>5 DEF PumpAckFails, rowVars
<1> QED BY <1>1, <1>2, <1>3, <1>4, <1>5 DEF PumpStep

LEMMA ReconcileTyped ==
    ASSUME TypeInv, NEW c \in Actors,
           \/ ReconcileStep(c) \/ ReconcileDropped(c)
           \/ ReconcileRead(c)
    PROVE  TypeInv'
<1> USE DEF TypeInv, TypeOK, PumpBusy, ledger, nodeVars, call, pump, process
<1>0. Return(c) => /\ rpc' \in [Actors -> {"idle", "ask", "pass", "apply"}]
                   /\ rkey' \in [Actors -> Keys \union {None}]
                   /\ seen' \in [Actors -> PaymentStatus \union {"absent"}]
                   /\ next' \in [Actors -> Final \union {"unknown", "absent"}]
                   /\ why' \in [Actors -> Reasons]
  BY DEF Return, Reasons
<1>1. CASE ReconcileRead(c) BY <1>1 DEF ReconcileRead, Snapshot, rowVars
<1>2. CASE ReconcileAsk(c)
  <2>1. \/ Return(c)
        \/ \E v \in (Final \union {"unknown"}) \X Reasons :
             /\ next' = [next EXCEPT ![c] = v[1]]
             /\ why' = [why EXCEPT ![c] = v[2]]
             /\ rpc' = [rpc EXCEPT ![c] = IF seen[c] = "created" /\ v[1] # "failed"
                                          THEN "pass" ELSE "apply"]
             /\ UNCHANGED <<rkey, seen>>
    BY <1>2, Zenon DEF ReconcileAsk
  <2>2. CASE Return(c) BY <1>0, <1>2, <2>2 DEF ReconcileAsk, rowVars
  <2>3. CASE ~Return(c)
    <3>1. PICK v \in (Final \union {"unknown"}) \X Reasons :
             /\ next' = [next EXCEPT ![c] = v[1]]
             /\ why' = [why EXCEPT ![c] = v[2]]
             /\ rpc' = [rpc EXCEPT ![c] = IF seen[c] = "created" /\ v[1] # "failed"
                                          THEN "pass" ELSE "apply"]
             /\ UNCHANGED <<rkey, seen>>
      BY <2>1, <2>3
    <3>2. v[1] \in Final \union {"unknown"} /\ v[2] \in Reasons OBVIOUS
    <3>3. UNCHANGED <<ledger, nodeVars, call, pump, process, asked>> BY <1>2 DEF ReconcileAsk
    <3> QED BY <3>1, <3>2, <3>3 DEF rowVars
  <2> QED BY <2>2, <2>3
<1>3. CASE ReconcilePass(c)
  <2>1. rkey[c] \in Keys \union {None} OBVIOUS
  <2> QED BY <1>0, <1>3, <2>1, TransitionTyped DEF ReconcilePass, Reasons
<1>4. CASE ReconcileApply(c)
  <2>1. rkey[c] \in Keys \union {None} /\ why[c] \in Reasons OBVIOUS
  <2> QED BY <1>0, <1>4, <2>1, TransitionTyped DEF ReconcileApply
<1>5. CASE ReconcileDropped(c) BY <1>0, <1>5 DEF ReconcileDropped, rowVars
<1> QED BY <1>1, <1>2, <1>3, <1>4, <1>5 DEF ReconcileStep

LEMMA ProcessTyped ==
    ASSUME TypeInv, ProcessStep
    PROVE  TypeInv'
<1> USE DEF TypeInv, TypeOK, PumpBusy, ledger, rowVars, nodeVars, call, recon, pump, Actors
<1>1. CASE Crash BY <1>1 DEF Crash, Reasons
<1>2. CASE Restart BY <1>2 DEF Restart
<1>3. CASE StartupNext BY <1>3 DEF StartupNext, Snapshot
<1>4. CASE StartupDone BY <1>4 DEF StartupDone
<1>5. CASE StartupAborts BY <1>5 DEF StartupAborts, Return, Reasons
<1> QED BY <1>1, <1>2, <1>3, <1>4, <1>5 DEF ProcessStep

LEMMA NextTyped == TypeInv /\ [Next]_vars => TypeInv'
<1> SUFFICES ASSUME TypeInv, [Next]_vars PROVE TypeInv' OBVIOUS
<1>1. CASE UNCHANGED vars
  BY <1>1 DEF vars, ledger, rowVars, nodeVars, call, recon, pump, process, TypeInv, TypeOK, PumpBusy
<1>2. CASE Next
  BY <1>2, SendTyped, SettleTyped, PumpTyped, ReconcileTyped, ProcessTyped DEF Next, Actors
<1> QED BY <1>1, <1>2

\* Every reachable state is well typed: no handler, task or crash, in any
\* interleaving, writes a value the tables or the handlers' state do not admit.
THEOREM TypeCorrect == Spec => []TypeOK
<1>1. Spec => []TypeInv BY InitTyped, NextTyped, PTL DEF Spec
<1>2. TypeInv => TypeOK BY DEF TypeInv
<1> QED BY <1>1, <1>2, PTL

-----------------------------------------------------------------------------
(* What a step does to one row: nothing, one legal transition together with *)
(* its event, or the insertion of a new row.                                *)

Moves(k) == /\ CanTransition(status[k], status'[k])
            /\ bolt11'[k] = bolt11[k]
            /\ emitted'[k] = IF status'[k] = "pending" THEN emitted[k]
                             ELSE Append(emitted[k], status'[k])
Appears(k) == /\ status[k] = "absent" /\ status'[k] = "created"
              /\ bolt11'[k] \in Invoices /\ <<k, bolt11'[k]>> \in Bodies
              /\ emitted'[k] = emitted[k]
Stays(k) == status'[k] = status[k] /\ bolt11'[k] = bolt11[k] /\ emitted'[k] = emitted[k]
RowStep(k) == Moves(k) \/ Appears(k) \/ Stays(k)

\* transition_payment touches the row it is called for, and only as CanTransition allows.
LEMMA TransitionRow ==
    ASSUME TypeOK, NEW k \in Keys \union {None}, NEW to, NEW because,
           TransitionPayment(k, to, because), NEW j \in Keys
    PROVE  /\ Moves(j) \/ Stays(j)
           /\ j # k => Stays(j)
           /\ status'[j] # status[j] => status'[j] = to
<1> USE DEF TypeOK, TransitionPayment, Moves, Stays, rowVars
<1>1. CASE CanTransition(status[k], to) /\ j = k
  <2>1. status'[j] = to /\ bolt11'[j] = bolt11[j] BY <1>1
  <2>2. emitted'[j] = IF to = "pending" THEN emitted[j] ELSE Append(emitted[j], to) BY <1>1
  <2> QED BY <1>1, <2>1, <2>2
<1>2. CASE CanTransition(status[k], to) /\ j # k BY <1>2
<1>3. CASE ~CanTransition(status[k], to) BY <1>3
<1> QED BY <1>1, <1>2, <1>3

\* Only begin_payment inserts, and only under a free key.
LEMMA BeginRow ==
    ASSUME TypeOK, NEW r \in Requests, BeginPayment(r), NEW j \in Keys
    PROVE  Appears(j) \/ Stays(j)
<1> USE DEF TypeOK, Appears, Stays, rowVars
<1>1. PICK b \in Bodies :
        \/ /\ status[b[1]] = "absent"
           /\ status' = [status EXCEPT ![b[1]] = "created"]
           /\ bolt11' = [bolt11 EXCEPT ![b[1]] = b[2]]
           /\ UNCHANGED <<reason, emitted>>
        \/ UNCHANGED rowVars
  BY DEF BeginPayment
<1>2. b[1] \in Keys /\ b[2] \in Invoices /\ b = <<b[1], b[2]>> BY BodiesAssumption
<1>3. CASE j = b[1] /\ ~UNCHANGED rowVars
  <2>1. /\ status[j] = "absent" /\ status'[j] = "created" /\ bolt11'[j] = b[2]
        /\ emitted'[j] = emitted[j]
    BY <1>1, <1>2, <1>3
  <2>2. <<j, bolt11'[j]>> \in Bodies BY <1>2, <1>3, <2>1
  <2> QED BY <1>2, <2>1, <2>2
<1>4. CASE j # b[1] \/ UNCHANGED rowVars BY <1>1, <1>2, <1>4
<1> QED BY <1>3, <1>4

LEMMA RowSteps ==
    ASSUME TypeInv, [Next]_vars, NEW j \in Keys
    PROVE  RowStep(j)
<1> USE DEF RowStep
<1>t. TypeOK BY DEF TypeInv
<1>0. UNCHANGED rowVars => RowStep(j) BY DEF rowVars, Stays
<1>1. ASSUME NEW r \in Requests, SendStep(r) PROVE RowStep(j)
  <2>1. CASE BeginPayment(r) BY <1>t, <2>1, BeginRow
  <2>2. CASE MarkPending(r)
    <3>1. keyOf[r] \in Keys \union {None} BY <1>t DEF TypeOK
    <3> QED BY <1>t, <2>2, <3>1, TransitionRow DEF MarkPending
  <2>3. CASE RecordRefusal(r)
    <3>1. keyOf[r] \in Keys \union {None} BY <1>t DEF TypeOK
    <3> QED BY <1>t, <2>3, <3>1, TransitionRow DEF RecordRefusal
  <2>4. CASE DispatchAccepted(r) \/ DispatchRefused(r) \/ Abandon(r)
    BY <1>0, <2>4 DEF DispatchAccepted, DispatchRefused, Abandon, ledger
  <2> QED BY <1>1, <2>1, <2>2, <2>3, <2>4 DEF SendStep
<1>2. ASSUME NEW i \in Invoices, NodeSettle(i) PROVE RowStep(j)
  BY <1>0, <1>2 DEF NodeSettle, ledger
<1>3. CASE PumpStep
  <2>1. CASE PumpApply
    <3>1. pkey \in Keys \union {None} BY <1>t DEF TypeOK
    <3>2. \/ UNCHANGED rowVars
          \/ \E to, because : TransitionPayment(pkey, to, because)
      BY <2>1 DEF PumpApply, ledger
    <3> QED BY <1>t, <1>0, <3>1, <3>2, TransitionRow
  <2>2. CASE PumpFind \/ PumpRetry \/ PumpAck \/ PumpAckFails
    BY <1>0, <2>2 DEF PumpFind, PumpRetry, PumpAck, PumpAckFails, ledger
  <2> QED BY <1>3, <2>1, <2>2 DEF PumpStep
<1>4. ASSUME NEW c \in Actors, ReconcileRead(c) \/ ReconcileDropped(c) PROVE RowStep(j)
  BY <1>0, <1>4 DEF ReconcileRead, ReconcileDropped, ledger
<1>5. ASSUME NEW c \in Actors, ReconcileStep(c) PROVE RowStep(j)
  <2>1. rkey[c] \in Keys \union {None} BY <1>t DEF TypeOK
  <2>2. CASE ReconcileAsk(c) BY <1>0, <2>2 DEF ReconcileAsk, ledger
  <2>3. CASE ReconcilePass(c) BY <1>t, <2>1, <2>3, TransitionRow DEF ReconcilePass
  <2>4. CASE ReconcileApply(c) BY <1>t, <2>1, <2>4, TransitionRow DEF ReconcileApply
  <2> QED BY <1>5, <2>2, <2>3, <2>4 DEF ReconcileStep
<1>6. CASE ProcessStep
  BY <1>0, <1>6 DEF ProcessStep, Crash, Restart, StartupNext, StartupDone, StartupAborts, ledger
<1>7. CASE UNCHANGED vars BY <1>0, <1>7 DEF vars, ledger
<1> QED BY <1>1, <1>2, <1>3, <1>4, <1>5, <1>6, <1>7 DEF Next, Actors

\* No step of any handler, task or recovery pass takes a payment out of a final
\* status: what transition_payment once announced as succeeded or failed stays so.
THEOREM FinalStays == Spec => FinalIsForever
<1>1. TypeInv /\ [Next]_vars => [\A k \in Keys : status[k] \in Final => status'[k] = status[k]]_vars
  <2> SUFFICES ASSUME TypeInv, [Next]_vars, NEW k \in Keys, status[k] \in Final
               PROVE  status'[k] = status[k]
    OBVIOUS
  <2>1. RowStep(k) BY RowSteps
  <2> QED BY <2>1 DEF RowStep, Moves, Appears, Stays, CanTransition, Final
<1>2. Spec => []TypeInv BY InitTyped, NextTyped, PTL DEF Spec
<1> QED BY <1>1, <1>2, PTL DEF Spec, FinalIsForever

\* The event stream of every payment is its history told once: transition_payment
\* commits row and event together, so no crash or repeated event can part them.
THEOREM OutboxComplete == Spec => []OutboxMatchesLedger
<1>1. Init => OutboxMatchesLedger
  <2> SUFFICES ASSUME Init, NEW k \in Keys
               PROVE  /\ status[k] = "absent" /\ "absent" \notin Final
                      /\ emitted[k] = <<>>
    BY DEF OutboxMatchesLedger
  <2> QED BY DEF Init, Final
<1>2. TypeInv /\ OutboxMatchesLedger /\ [Next]_vars => OutboxMatchesLedger'
  <2> SUFFICES ASSUME TypeInv, OutboxMatchesLedger, [Next]_vars, NEW k \in Keys
               PROVE  /\ status'[k] \in {"absent", "created", "pending"} => emitted'[k] = <<>>
                      /\ status'[k] = "unknown" => emitted'[k] = <<"unknown">>
                      /\ status'[k] \in Final => emitted'[k] \in {<<status'[k]>>, <<"unknown", status'[k]>>}
    BY DEF OutboxMatchesLedger
  <2> USE DEF OutboxMatchesLedger, Final
  <2>1. CASE Moves(k)
    <3>1. CASE status[k] = "created" /\ status'[k] = "pending" BY <2>1, <3>1 DEF Moves
    <3>2. CASE status[k] \in {"created", "pending"} /\ status'[k] # "pending"
      <4>1. emitted'[k] = Append(<<>>, status'[k]) BY <2>1, <3>2 DEF Moves
      <4>2. Append(<<>>, status'[k]) = <<status'[k]>> OBVIOUS
      <4>3. status'[k] \in {"unknown", "succeeded", "failed"} BY <2>1, <3>2 DEF Moves, CanTransition
      <4> QED BY <4>1, <4>2, <4>3
    <3>3. CASE status[k] = "unknown"
      <4>1. status'[k] \in Final BY <2>1, <3>3 DEF Moves, CanTransition
      <4>2. emitted'[k] = Append(<<"unknown">>, status'[k]) BY <2>1, <3>3, <4>1 DEF Moves
      <4>3. Append(<<"unknown">>, status'[k]) = <<"unknown", status'[k]>>
        <5> DEFINE told == Append(<<"unknown">>, status'[k])
                   story == <<"unknown", status'[k]>>
        <5>1. told \in Seq({"unknown", "succeeded", "failed"}) BY <4>1
        <5>2. story \in Seq({"unknown", "succeeded", "failed"}) BY <4>1
        <5>3. Len(told) = 2 /\ Len(story) = 2 OBVIOUS
        <5>4. told[1] = story[1] /\ told[2] = story[2] OBVIOUS
        <5> HIDE DEF told, story
        <5>5. \A n \in 1 .. Len(told) : told[n] = story[n] BY <5>3, <5>4
        <5> QED BY <5>1, <5>2, <5>3, <5>5, SeqEqual DEF told, story
      <4> QED BY <4>1, <4>2, <4>3
    <3> QED BY <2>1, <3>1, <3>2, <3>3 DEF Moves, CanTransition
  <2>2. CASE Appears(k) BY <2>2 DEF Appears
  <2>3. CASE Stays(k) BY <2>3 DEF Stays
  <2> QED BY <2>1, <2>2, <2>3, RowSteps DEF RowStep
<1>3. Spec => []TypeInv BY InitTyped, NextTyped, PTL DEF Spec
<1> QED BY <1>1, <1>2, <1>3, PTL DEF Spec

-----------------------------------------------------------------------------
(* Idempotency: one request owns the row of a key from its insertion on.   *)

\* r inserted the row and may still ask the node, or has asked it.
Owns(r) == pc[r] \in {"begun", "marked", "detached", "refused"} \/ r \in asked
\* r has made the row durable as `pending`.
Sent(r) == pc[r] \in {"marked", "detached", "refused"} \/ r \in asked

OwnerInv ==
    /\ \A r \in Requests : Owns(r) => keyOf[r] \in Keys /\ status[keyOf[r]] # "absent"
    /\ \A r1, r2 \in Requests : Owns(r1) /\ Owns(r2) /\ keyOf[r1] = keyOf[r2] => r1 = r2
    /\ \A r \in Requests : Sent(r) => status[keyOf[r]] # "created"
    /\ \A r \in asked : pc[r] # "idle"

\* A row, once inserted, stays, keeps its invoice and never returns to `created`.
LEMMA RowsPersist ==
    ASSUME TypeInv, [Next]_vars, NEW k \in Keys, status[k] # "absent"
    PROVE  /\ status'[k] # "absent" /\ bolt11'[k] = bolt11[k]
           /\ status[k] # "created" => status'[k] # "created"
BY RowSteps DEF RowStep, Moves, Appears, Stays, CanTransition, Final

\* A step that lets no request gain ownership of a row keeps the owners apart.
LEMMA OwnerFrame ==
    ASSUME TypeInv, OwnerInv, [Next]_vars, keyOf' = keyOf,
           \A r \in Requests : Owns(r)' => Owns(r),
           \A r \in Requests : Sent(r)' => Sent(r) \/ status'[keyOf[r]] # "created",
           \A r \in asked' : pc'[r] # "idle"
    PROVE  OwnerInv'
<1>1. ASSUME NEW r \in Requests, Owns(r)'
      PROVE  keyOf'[r] \in Keys /\ status'[keyOf'[r]] # "absent"
  BY <1>1, RowsPersist DEF OwnerInv
<1>2. ASSUME NEW r \in Requests, Sent(r)'
      PROVE  status'[keyOf'[r]] # "created"
  <2>1. Owns(r)' BY <1>2 DEF Owns, Sent
  <2>2. keyOf[r] \in Keys /\ status[keyOf[r]] # "absent" BY <2>1 DEF OwnerInv
  <2> QED BY <1>2, <2>2, RowsPersist DEF OwnerInv
<1>3. ASSUME NEW r1 \in Requests, NEW r2 \in Requests, Owns(r1)', Owns(r2)', keyOf'[r1] = keyOf'[r2]
      PROVE  r1 = r2
  BY <1>3 DEF OwnerInv
<1> QED BY <1>1, <1>2, <1>3 DEF OwnerInv

LEMMA OwnerInit == Init => OwnerInv
BY DEF Init, OwnerInv, Owns, Sent

LEMMA OwnerStep == TypeInv /\ OwnerInv /\ [Next]_vars => OwnerInv'
<1> SUFFICES ASSUME TypeInv, OwnerInv, [Next]_vars PROVE OwnerInv' OBVIOUS
<1>t. TypeOK BY DEF TypeInv
<1>0. call' = call /\ asked' = asked => OwnerInv'
  BY OwnerFrame DEF call, Owns, Sent, OwnerInv
<1>1. ASSUME NEW r \in Requests, SendStep(r) PROVE OwnerInv'
  <2>1. CASE BeginPayment(r)
    <3>1. PICK b \in Bodies :
            \/ /\ status[b[1]] = "absent"
               /\ status' = [status EXCEPT ![b[1]] = "created"]
               /\ pc' = [pc EXCEPT ![r] = "begun"] /\ keyOf' = [keyOf EXCEPT ![r] = b[1]]
            \/ pc' = [pc EXCEPT ![r] = "done"] /\ keyOf' = [keyOf EXCEPT ![r] = b[1]]
      BY <2>1 DEF BeginPayment
    <3>2. b[1] \in Keys /\ pc[r] = "idle" /\ asked' = asked /\ r \notin asked
      BY <2>1, BodiesAssumption DEF BeginPayment, OwnerInv
    <3>3. \A q \in Requests : q # r => pc'[q] = pc[q] /\ keyOf'[q] = keyOf[q]
      BY <1>t, <3>1 DEF TypeOK
    <3>4. pc'[r] \in {"begun", "done"} /\ keyOf'[r] = b[1] BY <1>t, <3>1 DEF TypeOK
    <3>5. Owns(r)' => status[b[1]] = "absent" /\ status'[b[1]] = "created"
      BY <1>t, <3>1, <3>2 DEF TypeOK, Owns
    <3>6. ~Sent(r)' BY <3>2, <3>4 DEF Sent
    <3>7. \A q \in Requests : q # r => (Owns(q)' <=> Owns(q)) /\ (Sent(q)' <=> Sent(q))
      BY <3>2, <3>3 DEF Owns, Sent
    <3>8. \A q \in Requests : Owns(q)' => keyOf'[q] \in Keys /\ status'[keyOf'[q]] # "absent"
      BY <3>2, <3>3, <3>4, <3>5, <3>7, RowsPersist DEF OwnerInv
    <3>9. \A q \in Requests : Sent(q)' => status'[keyOf'[q]] # "created"
      <4> SUFFICES ASSUME NEW q \in Requests, Sent(q)' PROVE status'[keyOf'[q]] # "created"
        OBVIOUS
      <4>1. q # r /\ Sent(q) /\ Owns(q) BY <3>6, <3>7 DEF Owns, Sent
      <4> QED BY <3>3, <4>1, RowsPersist DEF OwnerInv
    <3>10. \A q1, q2 \in Requests : Owns(q1)' /\ Owns(q2)' /\ keyOf'[q1] = keyOf'[q2] => q1 = q2
      <4> SUFFICES ASSUME NEW q1 \in Requests, NEW q2 \in Requests,
                          Owns(q1)', Owns(q2)', keyOf'[q1] = keyOf'[q2], q1 # q2
                   PROVE  FALSE
        OBVIOUS
      <4>1. CASE q1 # r /\ q2 # r BY <3>3, <3>7, <4>1 DEF OwnerInv
      <4>2. CASE q1 = r BY <3>3, <3>4, <3>5, <3>7, <4>2 DEF OwnerInv
      <4>3. CASE q2 = r BY <3>3, <3>4, <3>5, <3>7, <4>3 DEF OwnerInv
      <4> QED BY <4>1, <4>2, <4>3
    <3>11. \A q \in asked' : pc'[q] # "idle" BY <1>t, <3>2, <3>3, <3>4 DEF OwnerInv, TypeOK
    <3> QED BY <3>8, <3>9, <3>10, <3>11 DEF OwnerInv
  <2>2. CASE MarkPending(r)
    <3>1. keyOf' = keyOf /\ asked' = asked BY <2>2 DEF MarkPending
    <3>2. keyOf[r] \in Keys BY <2>2 DEF MarkPending, OwnerInv, Owns
    <3>3. pc' = [pc EXCEPT ![r] = IF Accepts(keyOf[r], "pending") THEN "marked" ELSE "done"]
      BY <2>2 DEF MarkPending
    <3>4. Accepts(keyOf[r], "pending") => status'[keyOf[r]] = "pending"
      BY <1>t, <2>2, <3>2 DEF MarkPending, TransitionPayment, Accepts, TypeOK, rowVars
    <3>5. \A q \in Requests : Owns(q)' => Owns(q)
      BY <1>t, <2>2, <3>1, <3>3 DEF Owns, TypeOK, MarkPending
    <3>6. \A q \in Requests : Sent(q)' => Sent(q) \/ status'[keyOf[q]] # "created"
      BY <1>t, <3>1, <3>3, <3>4 DEF Sent, TypeOK
    <3>7. \A q \in asked' : pc'[q] # "idle" BY <1>t, <3>1, <3>3 DEF OwnerInv, TypeOK
    <3> QED BY <3>1, <3>5, <3>6, <3>7, OwnerFrame
  <2>3. CASE DispatchAccepted(r) \/ DispatchRefused(r)
    <3>1. keyOf' = keyOf /\ asked' = asked \union {r} /\ pc[r] \in {"marked", "detached"}
      BY <2>3 DEF DispatchAccepted, DispatchRefused
    <3>2. pc'[r] \in {"refused", "done"} /\ \A q \in Requests : q # r => pc'[q] = pc[q]
      BY <1>t, <2>3 DEF DispatchAccepted, DispatchRefused, TypeOK
    <3>3. \A q \in Requests : (Owns(q)' => Owns(q)) /\ (Sent(q)' => Sent(q))
      BY <3>1, <3>2 DEF Owns, Sent
    <3>4. \A q \in asked' : pc'[q] # "idle" BY <1>t, <3>1, <3>2 DEF OwnerInv, TypeOK
    <3> QED BY <3>1, <3>3, <3>4, OwnerFrame
  <2>4. CASE RecordRefusal(r) \/ Abandon(r)
    <3>1. keyOf' = keyOf /\ asked' = asked BY <2>4 DEF RecordRefusal, Abandon
    <3>2. \/ pc[r] \in {"begun", "marked", "refused"} /\ pc' = [pc EXCEPT ![r] = "done"]
          \/ pc[r] = "marked" /\ pc' = [pc EXCEPT ![r] = "detached"]
      BY <2>4 DEF RecordRefusal, Abandon
    <3>3. \A q \in Requests : (Owns(q)' => Owns(q)) /\ (Sent(q)' => Sent(q))
      BY <1>t, <3>1, <3>2 DEF Owns, Sent, TypeOK
    <3>4. \A q \in asked' : pc'[q] # "idle" BY <1>t, <3>1, <3>2 DEF OwnerInv, TypeOK
    <3> QED BY <3>1, <3>3, <3>4, OwnerFrame
  <2> QED BY <1>1, <2>1, <2>2, <2>3, <2>4 DEF SendStep
<1>2. CASE Crash
  <2>1. /\ keyOf' = keyOf /\ asked' = asked
        /\ pc' = [r \in Requests |-> IF pc[r] = "idle" THEN "idle" ELSE "done"]
    BY <1>2 DEF Crash
  <2>2. \A q \in Requests : (Owns(q)' => Owns(q)) /\ (Sent(q)' => Sent(q)) BY <2>1 DEF Owns, Sent
  <2>3. \A q \in asked' : pc'[q] # "idle" BY <1>t, <2>1 DEF OwnerInv, TypeOK
  <2> QED BY <2>1, <2>2, <2>3, OwnerFrame
<1>3. CASE \/ \E i \in Invoices : NodeSettle(i)
           \/ PumpStep
           \/ \E c \in Reconcilers : ReconcileRead(c) \/ ReconcileDropped(c)
           \/ \E c \in Actors : ReconcileStep(c)
           \/ Restart \/ StartupNext \/ StartupDone \/ StartupAborts
           \/ UNCHANGED vars
  BY <1>0, <1>3 DEF NodeSettle, PumpStep, PumpFind, PumpApply, PumpRetry, PumpAck, PumpAckFails,
       ReconcileRead, ReconcileDropped, ReconcileStep, ReconcileAsk, ReconcilePass, ReconcileApply,
       Restart, StartupNext, StartupDone, StartupAborts, vars
<1> QED BY <1>1, <1>2, <1>3 DEF Next, ProcessStep

\* For any number of racing, crashed and repeated requests with one idempotency key,
\* at most one asks the node to pay, and only after its row is durably pending.
THEOREM Idempotent == Spec => [](AskedOncePerKey /\ PendingBeforeAsked)
<1>1. Spec => [](TypeInv /\ OwnerInv)
  BY InitTyped, NextTyped, OwnerInit, OwnerStep, PTL DEF Spec
<1>2. TypeInv /\ OwnerInv => AskedOncePerKey /\ PendingBeforeAsked
  BY DEF TypeInv, TypeOK, OwnerInv, Owns, Sent, AskedOncePerKey, PendingBeforeAsked
<1> QED BY <1>1, <1>2, PTL

-----------------------------------------------------------------------------
(* Success is never invented: what the ledger has recorded as succeeded,   *)
(* what the pump will apply and what a reconciler will record agree with   *)
(* the node.                                                               *)

RowsHaveInvoice == \A k \in Keys : status[k] # "absent" => bolt11[k] \in Invoices
QueueTrue == \A n \in 1 .. Len(queue) :
               queue[n].outcome = "succeeded" => node[queue[n].invoice] = "succeeded"
PumpTarget == ppc = "apply" => status[pkey] # "absent" /\ bolt11[pkey] = Head(queue).invoice
ReconTarget == \A c \in Actors : rpc[c] # "idle" => rkey[c] \in Keys /\ status[rkey[c]] # "absent"
ReconFresh == \A c \in Actors : rpc[c] \in {"idle", "ask"} => next[c] = "absent"
ReconTrue == \A c \in Actors : next[c] = "succeeded" => node[bolt11[rkey[c]]] = "succeeded"
TodoTarget == \A k \in todo : status[k] # "absent"

PaidInv == /\ SucceededMeansPaid /\ RowsHaveInvoice /\ QueueTrue /\ PumpTarget
           /\ ReconTarget /\ ReconFresh /\ ReconTrue /\ TodoTarget

\* A payment the node completed stays completed: a second send is a duplicate.
LEMMA NodeKeepsPaid ==
    ASSUME TypeInv, [Next]_vars, NEW i \in Invoices, node[i] = "succeeded"
    PROVE  node'[i] = "succeeded"
<1>t. TypeOK BY DEF TypeInv
<1>1. CASE \E r \in Requests : DispatchAccepted(r)
  BY <1>t, <1>1 DEF DispatchAccepted, TypeOK
<1>2. CASE \E r \in Requests : DispatchRefused(r)
  BY <1>t, <1>2 DEF DispatchRefused, TypeOK
<1>3. CASE \E j \in Invoices : NodeSettle(j) BY <1>t, <1>3 DEF NodeSettle, TypeOK
<1>4. CASE \/ \E r \in Requests : BeginPayment(r) \/ MarkPending(r) \/ RecordRefusal(r) \/ Abandon(r)
           \/ PumpStep
           \/ \E c \in Reconcilers : ReconcileRead(c) \/ ReconcileDropped(c)
           \/ \E c \in Actors : ReconcileStep(c)
           \/ ProcessStep
           \/ UNCHANGED vars
  BY <1>4 DEF BeginPayment, MarkPending, RecordRefusal, Abandon, PumpStep, PumpFind, PumpApply,
       PumpRetry, PumpAck, PumpAckFails, ReconcileRead, ReconcileDropped, ReconcileStep,
       ReconcileAsk, ReconcilePass, ReconcileApply, ProcessStep, Crash, Restart, StartupNext,
       StartupDone, StartupAborts, vars, nodeVars
<1> QED BY <1>1, <1>2, <1>3, <1>4 DEF Next, SendStep

\* Only the pump and a reconciler record a success, and only one the node had.
LEMMA NewSuccess ==
    ASSUME TypeInv, PaidInv, [Next]_vars, NEW k \in Keys,
           status[k] # "succeeded", status'[k] = "succeeded"
    PROVE  status[k] # "absent" /\ node[bolt11[k]] = "succeeded"
<1>t. TypeOK BY DEF TypeInv
<1>0. status[k] # "absent"
  BY RowSteps DEF RowStep, Moves, Appears, Stays, CanTransition
<1>1. CASE \E r \in Requests : SendStep(r)
  <2> PICK r \in Requests : SendStep(r) BY <1>1
  <2>0. keyOf[r] \in Keys \union {None} BY <1>t DEF TypeOK
  <2>1. CASE BeginPayment(r) BY <1>t, <2>1, BeginRow DEF Appears, Stays
  <2>2. CASE MarkPending(r) BY <1>t, <2>0, <2>2, TransitionRow DEF MarkPending
  <2>3. CASE RecordRefusal(r) BY <1>t, <2>0, <2>3, TransitionRow DEF RecordRefusal
  <2>4. CASE DispatchAccepted(r) \/ DispatchRefused(r) \/ Abandon(r)
    BY <2>4 DEF DispatchAccepted, DispatchRefused, Abandon, ledger, rowVars
  <2> QED BY <2>1, <2>2, <2>3, <2>4 DEF SendStep
<1>2. CASE PumpApply
  <2> DEFINE event == Head(queue)
  <2>1. pkey \in Keys /\ queue # <<>> /\ bolt11[pkey] = event.invoice
    BY <1>2 DEF PumpApply, TypeInv, PumpBusy, PaidInv, PumpTarget
  <2>2. \E because : TransitionPayment(pkey, event.outcome, because)
    BY <1>2 DEF PumpApply, ledger, rowVars
  <2>3. k = pkey /\ event.outcome = "succeeded"
    BY <1>t, <2>1, <2>2, TransitionRow DEF Stays
  <2>4. event = queue[1] /\ 1 \in 1 .. Len(queue)
    BY <1>t, <2>1 DEF TypeOK
  <2> QED BY <1>0, <2>1, <2>3, <2>4 DEF PaidInv, QueueTrue
<1>3. CASE \E c \in Actors : ReconcileStep(c)
  <2> PICK c \in Actors : ReconcileStep(c) BY <1>3
  <2>0. rkey[c] \in Keys \union {None} BY <1>t DEF TypeOK
  <2>1. CASE ReconcileAsk(c) BY <2>1 DEF ReconcileAsk, ledger, rowVars
  <2>2. CASE ReconcilePass(c) BY <1>t, <2>0, <2>2, TransitionRow DEF ReconcilePass
  <2>3. CASE ReconcileApply(c)
    <3>1. k = rkey[c] /\ next[c] = "succeeded"
      BY <1>t, <2>0, <2>3, TransitionRow DEF ReconcileApply, Stays
    <3> QED BY <1>0, <3>1 DEF PaidInv, ReconTrue
  <2> QED BY <2>1, <2>2, <2>3 DEF ReconcileStep
<1>4. CASE \/ \E i \in Invoices : NodeSettle(i)
           \/ PumpFind \/ PumpRetry \/ PumpAck \/ PumpAckFails
           \/ \E c \in Reconcilers : ReconcileRead(c) \/ ReconcileDropped(c)
           \/ ProcessStep
           \/ UNCHANGED vars
  BY <1>4 DEF NodeSettle, PumpFind, PumpRetry, PumpAck, PumpAckFails, ReconcileRead,
       ReconcileDropped, ProcessStep, Crash, Restart, StartupNext, StartupDone, StartupAborts,
       vars, ledger, rowVars
<1> QED BY <1>1, <1>2, <1>3, <1>4 DEF Next, PumpStep

LEMMA PaidInit == Init => PaidInv
BY DEF Init, PaidInv, SucceededMeansPaid, RowsHaveInvoice, QueueTrue, PumpTarget,
       ReconTarget, ReconFresh, ReconTrue, TodoTarget

LEMMA QueueStep ==
    ASSUME TypeInv, PaidInv, [Next]_vars
    PROVE  QueueTrue'
<1>t. TypeOK BY DEF TypeInv
<1>0. \A n \in 1 .. Len(queue) : queue[n].invoice \in Invoices
  <2>1. \A n \in 1 .. Len(queue) : queue[n] \in NodeEvent BY <1>t DEF TypeOK
  <2> QED BY <2>1 DEF NodeEvent
<1>1. CASE UNCHANGED queue
  BY <1>0, <1>1, NodeKeepsPaid DEF PaidInv, QueueTrue
<1>2. CASE \E i \in Invoices : NodeSettle(i)
  <2>1. PICK i \in Invoices, outcome \in Final :
          /\ node' = [node EXCEPT ![i] = outcome]
          /\ queue' = Append(queue, [id |-> issued', invoice |-> i, outcome |-> outcome])
    BY <1>2 DEF NodeSettle
  <2> DEFINE e == [id |-> issued', invoice |-> i, outcome |-> outcome]
  <2>2. /\ Len(queue') = Len(queue) + 1 /\ Len(queue) \in Nat
        /\ queue'[Len(queue) + 1] = e
        /\ \A n \in 1 .. Len(queue) : queue'[n] = queue[n]
    BY <1>t, <2>1 DEF TypeOK
  <2>3. e.outcome = "succeeded" => node'[e.invoice] = "succeeded" BY <1>t, <2>1 DEF TypeOK
  <2>4. \A n \in 1 .. Len(queue) :
          queue[n].outcome = "succeeded" => node'[queue[n].invoice] = "succeeded"
    BY <1>0, NodeKeepsPaid DEF PaidInv, QueueTrue
  <2> HIDE DEF e
  <2>5. \A n \in 1 .. Len(queue') : n \in 1 .. Len(queue) \/ n = Len(queue) + 1 BY <2>2
  <2> QED BY <2>2, <2>3, <2>4, <2>5 DEF QueueTrue
<1>3. CASE PumpAck
  <2>1. queue # <<>> /\ queue' = Tail(queue) BY <1>3 DEF PumpAck, TypeInv, PumpBusy
  <2>2. /\ Len(queue) \in Nat /\ Len(queue) >= 1 /\ Len(queue') = Len(queue) - 1
        /\ \A n \in 1 .. Len(queue') : queue'[n] = queue[n + 1]
    BY <1>t, <2>1 DEF TypeOK
  <2>3. \A n \in 1 .. Len(queue') : n + 1 \in 1 .. Len(queue) BY <2>2
  <2> QED BY <1>0, <2>2, <2>3, NodeKeepsPaid DEF PaidInv, QueueTrue
<1>4. CASE \/ \E r \in Requests : SendStep(r)
           \/ PumpFind \/ PumpApply \/ PumpRetry \/ PumpAckFails
           \/ \E c \in Reconcilers : ReconcileRead(c) \/ ReconcileDropped(c)
           \/ \E c \in Actors : ReconcileStep(c)
           \/ ProcessStep
           \/ UNCHANGED vars
  <2>1. UNCHANGED queue
    BY <1>4 DEF SendStep, BeginPayment, MarkPending, DispatchAccepted, DispatchRefused,
       RecordRefusal, Abandon, PumpFind, PumpApply, PumpRetry, PumpAckFails, ReconcileRead,
       ReconcileDropped, ReconcileStep, ReconcileAsk, ReconcilePass, ReconcileApply, ProcessStep,
       Crash, Restart, StartupNext, StartupDone, StartupAborts, vars, nodeVars
  <2> QED BY <1>1, <2>1
<1> QED BY <1>2, <1>3, <1>4 DEF Next, PumpStep

LEMMA PumpTargetStep ==
    ASSUME TypeInv, PaidInv, [Next]_vars
    PROVE  PumpTarget'
<1>t. TypeOK BY DEF TypeInv
<1>0. CASE UNCHANGED <<ppc, pkey>> /\ (queue # <<>> => Head(queue') = Head(queue))
  BY <1>0, RowsPersist DEF PaidInv, PumpTarget, TypeInv, PumpBusy
<1>1. CASE \E i \in Invoices : NodeSettle(i)
  <2>1. UNCHANGED <<ppc, pkey>> /\ \E e : queue' = Append(queue, e) BY <1>1 DEF NodeSettle, pump
  <2>2. TypeOK' BY NextTyped DEF TypeInv
  <2>3. ASSUME queue # <<>> PROVE Head(queue') = Head(queue)
    <3>1. Len(queue) \in Nat /\ Len(queue) >= 1 /\ Len(queue') = Len(queue) + 1
      BY <1>t, <2>1, <2>3 DEF TypeOK
    <3>2. queue'[1] = queue[1] BY <1>t, <2>1, <3>1 DEF TypeOK
    <3>3. Head(queue) = queue[1] /\ Head(queue') = queue'[1] BY <1>t, <2>2, <3>1 DEF TypeOK
    <3> QED BY <3>2, <3>3
  <2> QED BY <1>0, <2>1, <2>3
<1>2. CASE PumpFind
  <2>1. \/ ppc' = "ack"
        \/ ppc' = "apply" /\ pkey' \in Unresolved(Head(queue).invoice)
    BY <1>2 DEF PumpFind, Newest
  <2>2. UNCHANGED <<status, bolt11, queue>> BY <1>2 DEF PumpFind, ledger, rowVars, nodeVars
  <2> QED BY <2>1, <2>2 DEF PumpTarget, Unresolved, Open
<1>3. CASE PumpApply \/ PumpRetry \/ PumpAck \/ PumpAckFails
  BY <1>3 DEF PumpApply, PumpRetry, PumpAck, PumpAckFails, PumpTarget
<1>4. CASE Crash BY <1>4 DEF Crash, PumpTarget
<1>5. CASE \/ \E r \in Requests : SendStep(r)
           \/ \E c \in Reconcilers : ReconcileRead(c) \/ ReconcileDropped(c)
           \/ \E c \in Actors : ReconcileStep(c)
           \/ Restart \/ StartupNext \/ StartupDone \/ StartupAborts
           \/ UNCHANGED vars
  <2>1. UNCHANGED <<ppc, pkey, queue>>
    BY <1>5 DEF SendStep, BeginPayment, MarkPending, DispatchAccepted, DispatchRefused,
       RecordRefusal, Abandon, ReconcileRead,
       ReconcileDropped, ReconcileStep, ReconcileAsk, ReconcilePass, ReconcileApply,
       Restart, StartupNext, StartupDone, StartupAborts, vars, nodeVars, pump
  <2> QED BY <1>0, <2>1
<1> QED BY <1>1, <1>2, <1>3, <1>4, <1>5 DEF Next, PumpStep, ProcessStep

\* reconcile_payment works on an existing row, and intends a success only if the
\* node reported one.
LEMMA ReconInvStep ==
    ASSUME TypeInv, PaidInv, [Next]_vars
    PROVE  ReconTarget' /\ ReconFresh' /\ ReconTrue'
<1>t. TypeOK BY DEF TypeInv
<1> DEFINE Good(c) == /\ rpc[c] # "idle" => rkey[c] \in Keys /\ status[rkey[c]] # "absent"
                      /\ rpc[c] \in {"idle", "ask"} => next[c] = "absent"
                      /\ next[c] = "succeeded" => node[bolt11[rkey[c]]] = "succeeded"
<1>s. SUFFICES ASSUME NEW d \in Actors PROVE Good(d)'
  BY DEF ReconTarget, ReconFresh, ReconTrue
<1>g. Good(d) BY DEF PaidInv, ReconTarget, ReconFresh, ReconTrue
<1>u. rpc[d] # "idle" => bolt11[rkey[d]] \in Invoices
  BY <1>g DEF PaidInv, RowsHaveInvoice
<1>k. ASSUME UNCHANGED <<rpc[d], rkey[d], next[d]>> PROVE Good(d)'
  <2>1. CASE rpc[d] = "idle" BY <1>k, <1>g, <2>1
  <2>2. CASE rpc[d] # "idle"
    <3>1. status'[rkey[d]] # "absent" /\ bolt11'[rkey[d]] = bolt11[rkey[d]]
      BY <1>g, <2>2, RowsPersist
    <3>2. next[d] = "succeeded" => node'[bolt11[rkey[d]]] = "succeeded"
      BY <1>g, <1>u, <2>2, NodeKeepsPaid
    <3> QED BY <1>k, <1>g, <2>2, <3>1, <3>2
  <2> QED BY <2>1, <2>2
<1>r. ASSUME NEW c \in Actors, Return(c) PROVE Good(d)'
  <2>1. CASE c = d BY <1>t, <1>r, <2>1 DEF Return, TypeOK
  <2>2. CASE c # d BY <1>t, <1>k, <1>r, <2>2 DEF Return, TypeOK
  <2> QED BY <2>1, <2>2
<1>n. ASSUME NEW c \in Actors, NEW k \in Keys, status[k] # "absent", rpc[c] = "idle", Snapshot(c, k)
      PROVE  Good(d)'
  <2>1. CASE c = d
    <3>1. rpc'[d] = "ask" /\ rkey'[d] = k /\ next'[d] = "absent"
      BY <1>t, <1>g, <1>n, <2>1 DEF Snapshot, TypeOK
    <3> QED BY <1>n, <3>1, RowsPersist
  <2>2. CASE c # d BY <1>t, <1>k, <1>n, <2>2 DEF Snapshot, TypeOK
  <2> QED BY <2>1, <2>2
<1>1. ASSUME NEW c \in Actors, ReconcileAsk(c) PROVE Good(d)'
  <2> DEFINE view == node[bolt11[rkey[c]]]
  <2>0. UNCHANGED <<status, bolt11, node>> BY <1>1 DEF ReconcileAsk, ledger, rowVars, nodeVars
  <2>1. \/ Return(c)
        \/ \E v \in (Final \union {"unknown"}) \X Reasons :
             /\ Verdict(seen[c], view, v[1], v[2])
             /\ next' = [next EXCEPT ![c] = v[1]]
             /\ rpc' = [rpc EXCEPT ![c] = IF seen[c] = "created" /\ v[1] # "failed"
                                          THEN "pass" ELSE "apply"]
             /\ UNCHANGED <<rkey, seen>>
    BY <1>1, Zenon DEF ReconcileAsk
  <2>2. CASE Return(c) BY <1>r, <2>2
  <2>3. CASE ~Return(c)
    <3>1. PICK v \in (Final \union {"unknown"}) \X Reasons :
             /\ Verdict(seen[c], view, v[1], v[2])
             /\ next' = [next EXCEPT ![c] = v[1]]
             /\ rpc' = [rpc EXCEPT ![c] = IF seen[c] = "created" /\ v[1] # "failed"
                                          THEN "pass" ELSE "apply"]
             /\ UNCHANGED <<rkey, seen>>
      BY <2>1, <2>3
    <3>2. v[1] = "succeeded" => view = "succeeded" BY <3>1 DEF Verdict
    <3>3. CASE c = d
      <4>1. next'[d] = v[1] /\ rpc'[d] \in {"pass", "apply"} /\ rkey'[d] = rkey[d]
        BY <1>t, <3>1, <3>3 DEF TypeOK
      <4>2. rpc[d] # "idle" BY <1>1, <3>3 DEF ReconcileAsk
      <4> QED BY <1>g, <2>0, <3>2, <3>3, <4>1, <4>2
    <3>4. CASE c # d BY <1>t, <1>k, <3>1, <3>4 DEF TypeOK
    <3> QED BY <3>3, <3>4
  <2> QED BY <2>2, <2>3
<1>2. ASSUME NEW c \in Actors, ReconcilePass(c) PROVE Good(d)'
  <2>1. CASE Return(c) BY <1>r, <2>1
  <2>2. CASE ~Return(c)
    <3>1. rpc' = [rpc EXCEPT ![c] = "apply"] /\ UNCHANGED <<rkey, next, node>> /\ rpc[c] = "pass"
      BY <1>2, <2>2 DEF ReconcilePass, nodeVars
    <3>2. CASE c = d
      <4>1. rpc[d] # "idle" /\ rpc'[d] = "apply" BY <1>t, <3>1, <3>2 DEF TypeOK
      <4>2. status'[rkey[d]] # "absent" /\ bolt11'[rkey[d]] = bolt11[rkey[d]]
        BY <1>g, <4>1, RowsPersist
      <4> QED BY <1>g, <3>1, <4>1, <4>2
    <3>3. CASE c # d BY <1>t, <1>k, <3>1, <3>3 DEF TypeOK
    <3> QED BY <3>2, <3>3
  <2> QED BY <2>1, <2>2
<1>3. ASSUME NEW c \in Actors, ReconcileApply(c) \/ ReconcileDropped(c) PROVE Good(d)'
  BY <1>r, <1>3 DEF ReconcileApply, ReconcileDropped
<1>4. ASSUME NEW c \in Actors, ReconcileRead(c) PROVE Good(d)'
  BY <1>n, <1>4 DEF ReconcileRead, Open
<1>5. CASE StartupNext
  <2>1. PICK k \in todo : Snapshot(Startup, k) BY <1>5 DEF StartupNext
  <2>2. k \in Keys /\ status[k] # "absent" BY <1>t DEF TypeOK, PaidInv, TodoTarget
  <2> QED BY <1>n, <1>5, <2>1, <2>2 DEF StartupNext, Actors
<1>6. CASE StartupAborts BY <1>r, <1>6 DEF StartupAborts, Actors
<1>7. CASE Crash BY <1>7 DEF Crash
<1>8. CASE \/ \E r \in Requests : SendStep(r)
           \/ \E i \in Invoices : NodeSettle(i)
           \/ PumpStep \/ Restart \/ StartupDone
           \/ UNCHANGED vars
  <2>1. UNCHANGED recon
    BY <1>8 DEF SendStep, BeginPayment, MarkPending, DispatchAccepted, DispatchRefused,
       RecordRefusal, Abandon, NodeSettle, PumpStep, PumpFind, PumpApply, PumpRetry, PumpAck,
       PumpAckFails, Restart, StartupDone, vars
  <2> QED BY <1>k, <2>1 DEF recon
<1> HIDE DEF Good
<1> QED BY <1>1, <1>2, <1>3, <1>4, <1>5, <1>6, <1>7, <1>8
  DEF Next, ReconcileStep, ProcessStep, Actors

LEMMA TodoStep ==
    ASSUME TypeInv, PaidInv, [Next]_vars
    PROVE  TodoTarget'
<1>t. TypeOK /\ TypeOK' BY NextTyped DEF TypeInv
<1>1. CASE todo' \subseteq todo
  BY <1>t, <1>1, RowsPersist DEF PaidInv, TodoTarget, TypeOK
<1>2. CASE Restart BY <1>2 DEF Restart, TodoTarget, ledger, rowVars, Open
<1>3. CASE ~Restart
  <2>1. todo' \subseteq todo
    BY <1>3 DEF Next, SendStep, BeginPayment, MarkPending, DispatchAccepted, DispatchRefused,
       RecordRefusal, Abandon, NodeSettle, PumpStep, PumpFind, PumpApply, PumpRetry, PumpAck,
       PumpAckFails, ReconcileRead, ReconcileDropped, ReconcileStep, ReconcileAsk,
       ReconcilePass, ReconcileApply, ProcessStep, Crash, StartupNext, StartupDone,
       StartupAborts, vars, process
  <2> QED BY <1>1, <2>1
<1> QED BY <1>2, <1>3

LEMMA PaidStep == TypeInv /\ PaidInv /\ [Next]_vars => PaidInv'
<1> SUFFICES ASSUME TypeInv, PaidInv, [Next]_vars PROVE PaidInv' OBVIOUS
<1>1. SucceededMeansPaid'
  <2> SUFFICES ASSUME NEW k \in Keys, status'[k] = "succeeded"
               PROVE  node'[bolt11'[k]] = "succeeded"
    BY DEF SucceededMeansPaid
  <2>1. status[k] # "absent" /\ node[bolt11[k]] = "succeeded"
    BY NewSuccess DEF PaidInv, SucceededMeansPaid
  <2>2. bolt11'[k] = bolt11[k] BY <2>1, RowsPersist
  <2>3. bolt11[k] \in Invoices BY <2>1 DEF PaidInv, RowsHaveInvoice
  <2> QED BY <2>1, <2>2, <2>3, NodeKeepsPaid
<1>2. RowsHaveInvoice'
  BY RowSteps DEF RowsHaveInvoice, PaidInv, RowStep, Moves, Appears, Stays, CanTransition
<1> QED BY <1>1, <1>2, QueueStep, PumpTargetStep, ReconInvStep, TodoStep DEF PaidInv

\* A payment the ledger calls succeeded was paid by the node, whichever of the pump,
\* an API call or the startup pass recorded it, from however old a snapshot.
THEOREM SuccessIsReal == Spec => []SucceededMeansPaid
<1>1. Spec => [](TypeInv /\ PaidInv) BY InitTyped, NextTyped, PaidInit, PaidStep, PTL DEF Spec
<1>2. PaidInv => SucceededMeansPaid BY DEF PaidInv
<1> QED BY <1>1, <1>2, PTL

=============================================================================
