------------------------ MODULE InvoiceReceiptProofs ------------------------
(***************************************************************************)
(* Proofs about InvoiceReceipt, for any number of requests, keys, payment  *)
(* hashes and crashes: types, what a step does to an invoice row, one      *)
(* invoice per idempotency key, and what a paid invoice is worth.          *)
(***************************************************************************)
EXTENDS InvoiceReceipt, TLAPS

\* The pump holds an event while it is to be acknowledged.
PumpBusy == ppc = "ack" => queue # <<>>

TypeInv == TypeOK /\ PumpBusy

LEMMA InitTyped == Init => TypeInv
BY DEF Init, TypeInv, TypeOK, PumpBusy, InvoiceStatus, Final

LEMMA CreateTyped ==
    ASSUME TypeInv, NEW r \in Requests, CreateStep(r)
    PROVE  TypeInv'
<1> USE DEF TypeInv, PumpBusy, tables, rows, handler, process
<1>1. CASE FindInvoice(r)
  <2>1. UNCHANGED <<tables, past, node, queue, inv, process>> BY <1>1 DEF FindInvoice
  <2>2. PICK k \in Keys \union {NoKey}, p \in Params :
          /\ pc' = [pc EXCEPT ![r] = "issue"] \/ pc' = [pc EXCEPT ![r] = "done"]
          /\ body' = body \/ body' = [body EXCEPT ![r] = <<k, p>>]
          /\ answer' = answer \/ \E h \in Hashes : answer' = [answer EXCEPT ![r] = h]
    BY <1>1 DEF FindInvoice, Stored
  <2>3. <<k, p>> \in (Keys \union {NoKey}) \X Params OBVIOUS
  <2>4. body' \in [Requests -> ((Keys \union {NoKey}) \X Params) \union {<<NoKey, None>>}]
    BY <2>2, <2>3 DEF TypeOK
  <2>5. pc' \in [Requests -> {"idle", "issue", "insert", "reread", "done"}] BY <2>2 DEF TypeOK
  <2>6. answer' \in [Requests -> Hashes \union {None}] BY <2>2 DEF TypeOK
  <2> QED BY <2>1, <2>4, <2>5, <2>6 DEF TypeOK
<1>2. CASE NodeIssue(r) BY <1>2 DEF NodeIssue, TypeOK
<1>3. CASE InsertInvoice(r)
  <2>1. UNCHANGED <<emitted, claimed, past, node, queue, body, process>> BY <1>3 DEF InsertInvoice
  <2>2. body[r][1] \in Keys \union {NoKey} /\ body[r][2] \in Params \union {None} BY DEF TypeOK
  <2>3. /\ status' \in [Hashes -> InvoiceStatus \union {"absent"}]
        /\ key' \in [Hashes -> Keys \union {NoKey}]
        /\ params' \in [Hashes -> Params \union {None}]
    BY <1>3, <2>2 DEF InsertInvoice, TypeOK, InvoiceStatus
  <2>4. /\ pc' \in [Requests -> {"idle", "issue", "insert", "reread", "done"}]
        /\ inv' \in [Requests -> Hashes \union {None}]
        /\ answer' \in [Requests -> Hashes \union {None}]
    BY <1>3 DEF InsertInvoice, TypeOK
  <2> QED BY <2>1, <2>3, <2>4 DEF TypeOK
<1>4. CASE ReturnWinner(r) BY <1>4 DEF ReturnWinner, TypeOK, Stored
<1>5. CASE Abandon(r) BY <1>5 DEF Abandon, TypeOK
<1> QED BY <1>1, <1>2, <1>3, <1>4, <1>5 DEF CreateStep

LEMMA NodeTyped ==
    ASSUME TypeInv, NEW h \in Hashes, NodeStep(h)
    PROVE  TypeInv'
<1> USE DEF TypeInv, PumpBusy, tables, rows, handler, process
<1>1. CASE NodeReceive(h) \/ NodeReceiveForeign(h)
  <2>1. queue \in Seq(Hashes) /\ queue' = Append(queue, h)
    BY <1>1 DEF NodeReceive, NodeReceiveForeign, TypeOK
  <2>2. queue' \in Seq(Hashes) /\ queue' # <<>> BY <2>1
  <2> QED BY <1>1, <2>2 DEF NodeReceive, NodeReceiveForeign, TypeOK
<1>2. CASE PassTime(h) BY <1>2 DEF PassTime, TypeOK
<1> QED BY <1>1, <1>2 DEF NodeStep

LEMMA PumpTyped ==
    ASSUME TypeInv, PumpStep \/ ExpireInvoices
    PROVE  TypeInv'
<1> USE DEF TypeInv, PumpBusy, tables, rows, handler, process
<1>1. CASE MarkInvoicePaid
  <2>1. Head(queue) \in Hashes BY <1>1 DEF MarkInvoicePaid, TypeOK
  <2>2. emitted' \in [Hashes -> Seq(Final)]
    <3>1. Append(emitted[Head(queue)], "paid") \in Seq(Final) BY <2>1 DEF TypeOK, Final
    <3> QED BY <1>1, <2>1, <3>1 DEF MarkInvoicePaid, TypeOK
  <2>3. status' \in [Hashes -> InvoiceStatus \union {"absent"}] /\ claimed' \subseteq Hashes
    BY <1>1, <2>1 DEF MarkInvoicePaid, TypeOK, InvoiceStatus, Final
  <2> QED BY <1>1, <2>2, <2>3 DEF MarkInvoicePaid, TypeOK
<1>2. CASE PumpAck
  <2>1. Tail(queue) \in Seq(Hashes) BY <1>2 DEF PumpAck, TypeOK
  <2> QED BY <1>2, <2>1 DEF PumpAck, TypeOK
<1>3. CASE PumpAckFails BY <1>3 DEF PumpAckFails, TypeOK
<1>4. CASE ExpireInvoices
  <2>1. emitted' \in [Hashes -> Seq(Final)]
    BY <1>4 DEF ExpireInvoices, TypeOK, Final
  <2>2. status' \in [Hashes -> InvoiceStatus \union {"absent"}]
    BY <1>4 DEF ExpireInvoices, TypeOK, InvoiceStatus, Final
  <2> QED BY <1>4, <2>1, <2>2 DEF ExpireInvoices, TypeOK
<1> QED BY <1>1, <1>2, <1>3, <1>4 DEF PumpStep

LEMMA NextTyped == TypeInv /\ [Next]_vars => TypeInv'
<1> SUFFICES ASSUME TypeInv, [Next]_vars PROVE TypeInv' OBVIOUS
<1>1. CASE Crash
  <2> USE DEF TypeInv, TypeOK
  <2>1. pc' \in [Requests -> {"idle", "issue", "insert", "reread", "done"}] BY <1>1 DEF Crash
  <2>2. body' \in [Requests -> ((Keys \union {NoKey}) \X Params) \union {<<NoKey, None>>}]
    BY <1>1 DEF Crash
  <2>3. inv' \in [Requests -> Hashes \union {None}] BY <1>1 DEF Crash
  <2>4. crashes' = crashes + 1 /\ up' = FALSE /\ ppc' = "idle" BY <1>1, Zenon DEF Crash
  <2>5. crashes' \in Nat BY <2>4
  <2>6. up' \in BOOLEAN BY <2>4, Zenon
  <2>7. UNCHANGED <<tables, past, node, queue, answer>> BY <1>1 DEF Crash
  <2> HIDE DEF TypeOK
  <2>8. TypeOK' BY <2>1, <2>2, <2>3, <2>4, <2>5, <2>6, <2>7 DEF TypeOK, tables, rows
  <2> QED BY <2>4, <2>8 DEF PumpBusy
<1>2. CASE Restart \/ UNCHANGED vars
  BY <1>2 DEF Restart, vars, TypeInv, TypeOK, PumpBusy, tables, rows, handler, process
<1> QED BY <1>1, <1>2, CreateTyped, NodeTyped, PumpTyped DEF Next

\* Every variable of the receipt side keeps its type: rows, event streams, the node's
\* queue and the handlers' locals.
THEOREM TypeCorrect == Spec => []TypeOK
<1>1. Spec => []TypeInv BY InitTyped, NextTyped, PTL DEF Spec
<1> QED BY <1>1, PTL DEF TypeInv

-----------------------------------------------------------------------------
(* The inductive invariant.                                                *)

\* A handler between the node's answer and its insert holds a hash that the node has
\* issued, that no row and no other handler has; other handlers hold none.
HandlerInv ==
    \A r \in Requests :
        /\ pc[r] # "insert" => inv[r] = None
        /\ pc[r] = "insert" => /\ inv[r] \in Hashes
                               /\ node[inv[r]] = "issued" /\ status[inv[r]] = "absent"
                               /\ \A q \in Requests : inv[q] = inv[r] => q = r

\* Rows are stored under hashes the node has issued; paid ones have been received.
RowInv == \A h \in Hashes : /\ status[h] # "absent" => node[h] # "unused"
                            /\ status[h] = "paid" => node[h] = "received"

\* The unique index: a key is in at most one row.
UniqueKey == \A h1, h2 \in Hashes :
                 /\ status[h1] # "absent" /\ status[h2] # "absent"
                 /\ key[h1] = key[h2] /\ key[h1] # NoKey
                 => h1 = h2

\* An answered request is over, and its answer is a stored row with the request's key.
AnswerInv == \A r \in Requests : answer[r] # None =>
                 /\ pc[r] = "done" /\ answer[r] \in Hashes
                 /\ status[answer[r]] # "absent" /\ key[answer[r]] = body[r][1]

\* Queued events tell of received money, and the head that is about to be acknowledged
\* has been dealt with: its invoice, if there is one, is no longer open.
QueueInv == /\ \A n \in 1 .. Len(queue) : node[queue[n]] = "received"
            /\ ppc = "ack" => status[Head(queue)] # "open"
            /\ \A h \in Hashes : node[h] = "received" /\ status[h] = "open" => Queued(h)

IInv == /\ HandlerInv /\ RowInv /\ UniqueKey /\ AnswerInv /\ QueueInv
        /\ ClaimMeansPaid /\ OutboxMatchesInvoice


-----------------------------------------------------------------------------
(* What a step does to an invoice row.                                     *)

Appears(h) == /\ status[h] = "absent" /\ status'[h] = "open" /\ emitted'[h] = emitted[h]
              /\ node[h] = "issued" /\ node' = node
Settles(h) == /\ status[h] = "open" /\ status'[h] \in Final
              /\ status'[h] = "paid" => node[h] = "received"
              /\ emitted'[h] = Append(emitted[h], status'[h]) /\ key'[h] = key[h]
              /\ node' = node
Stays(h) == status'[h] = status[h] /\ key'[h] = key[h] /\ emitted'[h] = emitted[h]
RowStep(h) == Appears(h) \/ Settles(h) \/ Stays(h)

LEMMA InsertRow ==
    ASSUME TypeInv, IInv, NEW r \in Requests, InsertInvoice(r), NEW h \in Hashes
    PROVE  RowStep(h) /\ (h # inv[r] => Stays(h))
<1> USE DEF RowStep, Appears, Stays
<1>1. /\ inv[r] \in Hashes /\ node[inv[r]] = "issued" /\ status[inv[r]] = "absent"
  BY DEF InsertInvoice, IInv, HandlerInv
<1>2. node' = node /\ emitted' = emitted BY DEF InsertInvoice
<1>3. CASE UNCHANGED rows BY <1>2, <1>3 DEF rows
<1>4. CASE ~UNCHANGED rows
  <2>1. /\ status' = [status EXCEPT ![inv[r]] = "open"]
        /\ key' = [key EXCEPT ![inv[r]] = body[r][1]]
    BY <1>4 DEF InsertInvoice
  <2> QED BY <1>1, <1>2, <2>1 DEF TypeInv, TypeOK
<1> QED BY <1>3, <1>4

LEMMA PaidRow ==
    ASSUME TypeInv, IInv, MarkInvoicePaid, NEW h \in Hashes
    PROVE  Settles(h) \/ Stays(h)
<1> DEFINE e == Head(queue)
<1>1. e \in Hashes /\ e = queue[1] /\ 1 \in 1 .. Len(queue)
  BY DEF MarkInvoicePaid, TypeInv, TypeOK
<1>2. node[e] = "received" BY <1>1 DEF IInv, QueueInv
<1>3. UNCHANGED <<key, node>> BY DEF MarkInvoicePaid
<1>4. CASE e \notin claimed /\ CanTransition(status[e], "paid")
  <2>1. /\ status' = [status EXCEPT ![e] = "paid"] /\ status[e] = "open"
        /\ emitted' = [emitted EXCEPT ![e] = Append(@, "paid")]
    BY <1>4 DEF MarkInvoicePaid, CanTransition
  <2> HIDE DEF e
  <2>2. CASE h = e
    <3>1. status'[h] = "paid" /\ emitted'[h] = Append(emitted[h], "paid")
      BY <1>1, <2>1, <2>2 DEF TypeInv, TypeOK
    <3> QED BY <1>2, <1>3, <2>1, <2>2, <3>1 DEF Settles, Final
  <2>3. CASE h # e BY <1>3, <2>1, <2>3 DEF TypeInv, TypeOK, Stays
  <2> QED BY <2>2, <2>3
<1>5. CASE ~(e \notin claimed /\ CanTransition(status[e], "paid"))
  BY <1>3, <1>5 DEF MarkInvoicePaid, Stays
<1> QED BY <1>4, <1>5

LEMMA ExpiredRow ==
    ASSUME TypeInv, ExpireInvoices, NEW h \in Hashes
    PROVE  Settles(h) \/ Stays(h)
<1>1. /\ status'[h] = IF h \in Due THEN "expired" ELSE status[h]
      /\ emitted'[h] = IF h \in Due THEN Append(emitted[h], "expired") ELSE emitted[h]
      /\ UNCHANGED <<key, node>>
  BY DEF ExpireInvoices
<1> QED BY <1>1 DEF Due, Settles, Stays, Final

LEMMA RowSteps ==
    ASSUME TypeInv, IInv, [Next]_vars, NEW h \in Hashes
    PROVE  RowStep(h)
<1>1. ASSUME NEW r \in Requests, InsertInvoice(r) PROVE RowStep(h) BY <1>1, InsertRow
<1>2. CASE MarkInvoicePaid BY <1>2, PaidRow DEF RowStep
<1>3. CASE ExpireInvoices BY <1>3, ExpiredRow DEF RowStep
<1>4. CASE \/ \E r \in Requests : FindInvoice(r) \/ NodeIssue(r) \/ ReturnWinner(r) \/ Abandon(r)
           \/ \E g \in Hashes : NodeStep(g)
           \/ PumpAck \/ PumpAckFails \/ Crash \/ Restart \/ UNCHANGED vars
  BY <1>4 DEF FindInvoice, NodeIssue, ReturnWinner, Abandon, NodeStep, NodeReceive,
     NodeReceiveForeign, PassTime, PumpAck, PumpAckFails, Crash, Restart, vars, tables, rows,
     RowStep, Stays
<1> QED BY <1>1, <1>2, <1>3, <1>4 DEF Next, CreateStep, PumpStep

-----------------------------------------------------------------------------
(* Each part of the invariant is kept.                                     *)

LEMMA HandlerStep == TypeInv /\ IInv /\ [Next]_vars => HandlerInv'
<1> SUFFICES ASSUME TypeInv, IInv, [Next]_vars PROVE HandlerInv' OBVIOUS
<1>t. TypeOK /\ HandlerInv BY DEF TypeInv, IInv
<1>1. ASSUME NEW r \in Requests, CreateStep(r) PROVE HandlerInv'
  <2>1. CASE FindInvoice(r)
    <3>1. /\ pc[r] = "idle" /\ pc'[r] \in {"issue", "done"} /\ UNCHANGED <<status, node, inv>>
          /\ \A q \in Requests : q # r => pc'[q] = pc[q]
      BY <1>t, <2>1 DEF FindInvoice, TypeOK, tables, rows
    <3> QED BY <1>t, <3>1 DEF HandlerInv
  <2>2. CASE NodeIssue(r)
    <3>1. PICK h \in Hashes : /\ node[h] = "unused" /\ node' = [node EXCEPT ![h] = "issued"]
                              /\ inv' = [inv EXCEPT ![r] = h]
      BY <2>2 DEF NodeIssue
    <3>2. pc' = [pc EXCEPT ![r] = "insert"] /\ status' = status
      BY <2>2 DEF NodeIssue, tables, rows
    <3>3. status[h] = "absent" BY <3>1 DEF IInv, RowInv
    <3>4. \A q \in Requests : inv[q] # h
      BY <1>t, <3>1, NoneAssumption DEF HandlerInv, TypeOK
    <3> QED BY <1>t, <3>1, <3>2, <3>3, <3>4, NoneAssumption DEF HandlerInv, TypeOK
  <2>3. CASE InsertInvoice(r)
    <3>1. /\ pc[r] = "insert" /\ pc'[r] \in {"done", "reread"} /\ inv'[r] = None /\ node' = node
          /\ \A q \in Requests : q # r => pc'[q] = pc[q] /\ inv'[q] = inv[q]
      BY <1>t, <2>3 DEF InsertInvoice, TypeOK
    <3>2. \A h \in Hashes : h # inv[r] => status'[h] = status[h]
      BY <2>3, InsertRow DEF Stays
    <3> QED BY <1>t, <3>1, <3>2, NoneAssumption DEF HandlerInv
  <2>4. CASE ReturnWinner(r)
    <3>1. /\ pc[r] = "reread" /\ pc'[r] = "done" /\ UNCHANGED <<status, node, inv>>
          /\ \A q \in Requests : q # r => pc'[q] = pc[q]
      BY <1>t, <2>4 DEF ReturnWinner, TypeOK, tables, rows
    <3> QED BY <1>t, <3>1 DEF HandlerInv
  <2>5. CASE Abandon(r)
    <3>1. /\ pc'[r] = "done" /\ inv'[r] = None /\ UNCHANGED <<status, node>>
          /\ \A q \in Requests : q # r => pc'[q] = pc[q] /\ inv'[q] = inv[q]
      BY <1>t, <2>5 DEF Abandon, TypeOK, tables, rows
    <3> QED BY <1>t, <3>1, NoneAssumption DEF HandlerInv
  <2> QED BY <1>1, <2>1, <2>2, <2>3, <2>4, <2>5 DEF CreateStep
<1>2. ASSUME NEW h \in Hashes, NodeStep(h) PROVE HandlerInv'
  <2>1. UNCHANGED <<pc, inv, status>>
    BY <1>2 DEF NodeStep, NodeReceive, NodeReceiveForeign, PassTime, tables, rows, handler
  <2>2. \A g \in Hashes : node[g] = "issued" /\ status[g] = "absent" => node'[g] = "issued"
    BY <1>t, <1>2 DEF NodeStep, NodeReceive, NodeReceiveForeign, PassTime, TypeOK
  <2> QED BY <1>t, <2>1, <2>2 DEF HandlerInv
<1>3. CASE PumpStep \/ ExpireInvoices
  <2>1. UNCHANGED <<pc, inv, node>>
    BY <1>3 DEF PumpStep, MarkInvoicePaid, PumpAck, PumpAckFails, ExpireInvoices, handler
  <2>2. \A h \in Hashes : status[h] = "absent" => status'[h] = "absent"
    <3>1. ASSUME NEW h \in Hashes PROVE Settles(h) \/ Stays(h)
      BY <1>3, PaidRow, ExpiredRow DEF PumpStep, PumpAck, PumpAckFails, tables, rows, Stays
    <3> QED BY <3>1 DEF Settles, Stays
  <2> QED BY <1>t, <2>1, <2>2 DEF HandlerInv
<1>4. CASE Crash
  <2>1. \A r \in Requests : pc'[r] \in {"idle", "done"} /\ inv'[r] = None BY <1>4 DEF Crash
  <2> QED BY <2>1 DEF HandlerInv
<1>5. CASE Restart \/ UNCHANGED vars
  BY <1>t, <1>5 DEF Restart, vars, HandlerInv, handler, tables, rows
<1> QED BY <1>1, <1>2, <1>3, <1>4, <1>5 DEF Next

\* The node takes up hashes and receives money; it never takes either back.
LEMMA NodeGrows ==
    ASSUME TypeInv, [Next]_vars, NEW h \in Hashes
    PROVE  /\ node[h] # "unused" => node'[h] # "unused"
           /\ node[h] = "received" => node'[h] = "received"
<1> USE DEF TypeInv, TypeOK
<1>1. ASSUME NEW r \in Requests, NodeIssue(r)
      PROVE  \A g \in Hashes : node[g] # "unused" => node'[g] = node[g]
  <2>1. PICK g \in Hashes : node[g] = "unused" /\ node' = [node EXCEPT ![g] = "issued"]
    BY <1>1 DEF NodeIssue
  <2> QED BY <2>1
<1>2. ASSUME NEW g \in Hashes, NodeReceive(g) \/ NodeReceiveForeign(g)
      PROVE  node' = [node EXCEPT ![g] = "received"]
  BY <1>2 DEF NodeReceive, NodeReceiveForeign
<1>3. CASE \/ \E r \in Requests : FindInvoice(r) \/ InsertInvoice(r) \/ ReturnWinner(r) \/ Abandon(r)
           \/ \E g \in Hashes : PassTime(g)
           \/ PumpStep \/ ExpireInvoices \/ Crash \/ Restart \/ UNCHANGED vars
  <2>1. node' = node
    BY <1>3 DEF FindInvoice, InsertInvoice, ReturnWinner, Abandon, PassTime, PumpStep,
       MarkInvoicePaid, PumpAck, PumpAckFails, ExpireInvoices, Crash, Restart, vars
  <2> QED BY <2>1
<1> QED BY <1>1, <1>2, <1>3 DEF Next, CreateStep, NodeStep

LEMMA RowInvStep == TypeInv /\ IInv /\ [Next]_vars => RowInv'
<1> SUFFICES ASSUME TypeInv, IInv, [Next]_vars, NEW h \in Hashes
             PROVE  /\ status'[h] # "absent" => node'[h] # "unused"
                    /\ status'[h] = "paid" => node'[h] = "received"
  BY DEF RowInv
<1> QED BY RowSteps, NodeGrows DEF RowStep, Appears, Settles, Stays, IInv, RowInv, Final

\* Rows are never deleted and keep their key.
LEMMA RowsPersist ==
    ASSUME TypeInv, IInv, [Next]_vars, NEW h \in Hashes, status[h] # "absent"
    PROVE  status'[h] # "absent" /\ key'[h] = key[h]
BY RowSteps DEF RowStep, Appears, Settles, Stays, Final

\* Only the handler that inserts it makes a row appear.
LEMMA OnlyInsertAdds ==
    ASSUME TypeInv, IInv, [Next]_vars, NEW h \in Hashes, status[h] = "absent", status'[h] # "absent"
    PROVE  \E r \in Requests : /\ InsertInvoice(r) /\ inv[r] = h /\ Stored(body[r][1]) = {}
                               /\ key'[h] = body[r][1]
<1>1. ASSUME NEW r \in Requests, InsertInvoice(r)
      PROVE  inv[r] = h /\ Stored(body[r][1]) = {} /\ key'[h] = body[r][1]
  <2>1. inv[r] = h BY <1>1, InsertRow DEF Stays
  <2>2. ~UNCHANGED rows BY DEF rows
  <2>3. Stored(body[r][1]) = {} /\ key' = [key EXCEPT ![h] = body[r][1]]
    BY <1>1, <2>1, <2>2 DEF InsertInvoice
  <2> QED BY <2>1, <2>3 DEF TypeInv, TypeOK
<1>2. CASE MarkInvoicePaid \/ ExpireInvoices BY <1>2, PaidRow, ExpiredRow DEF Settles, Stays
<1>3. CASE \/ \E r \in Requests : FindInvoice(r) \/ NodeIssue(r) \/ ReturnWinner(r) \/ Abandon(r)
           \/ \E g \in Hashes : NodeStep(g)
           \/ PumpAck \/ PumpAckFails \/ Crash \/ Restart \/ UNCHANGED vars
  BY <1>3 DEF FindInvoice, NodeIssue, ReturnWinner, Abandon, NodeStep, NodeReceive,
     NodeReceiveForeign, PassTime, PumpAck, PumpAckFails, Crash, Restart, vars, tables, rows
<1> QED BY <1>1, <1>2, <1>3 DEF Next, CreateStep, PumpStep

LEMMA UniqueStep == TypeInv /\ IInv /\ [Next]_vars => UniqueKey'
<1> SUFFICES ASSUME TypeInv, IInv, [Next]_vars, NEW h1 \in Hashes, NEW h2 \in Hashes,
                    status'[h1] # "absent", status'[h2] # "absent",
                    key'[h1] = key'[h2], key'[h1] # NoKey, h1 # h2
             PROVE  FALSE
  BY DEF UniqueKey
\* A new row's key was in no stored row.
<1>1. ASSUME NEW g \in Hashes, NEW h \in Hashes, g # h, status[g] = "absent", status'[g] # "absent",
             status'[h] # "absent", key'[g] = key'[h], key'[g] # NoKey
      PROVE  FALSE
  <2>1. PICK r \in Requests : /\ InsertInvoice(r) /\ inv[r] = g /\ Stored(body[r][1]) = {}
                              /\ key'[g] = body[r][1]
    BY <1>1, OnlyInsertAdds
  <2>2. Stays(h) BY <1>1, <2>1, InsertRow
  <2> QED BY <1>1, <2>1, <2>2 DEF Stays, Stored
<1>2. CASE status[h1] # "absent" /\ status[h2] # "absent"
  BY <1>2, RowsPersist DEF IInv, UniqueKey
<1> QED BY <1>1, <1>2

LEMMA AnswerStep == TypeInv /\ IInv /\ [Next]_vars => AnswerInv'
<1> SUFFICES ASSUME TypeInv, IInv, [Next]_vars, NEW q \in Requests, answer'[q] # None
             PROVE  /\ pc'[q] = "done" /\ answer'[q] \in Hashes
                    /\ status'[answer'[q]] # "absent" /\ key'[answer'[q]] = body'[q][1]
  BY DEF AnswerInv
<1>t. TypeOK BY DEF TypeInv
\* An answer that was given stands.
<1>k. ASSUME answer'[q] = answer[q], pc'[q] = pc[q], body'[q] = body[q]
      PROVE  /\ pc'[q] = "done" /\ answer'[q] \in Hashes
             /\ status'[answer'[q]] # "absent" /\ key'[answer'[q]] = body'[q][1]
  <2>1. PICK h \in Hashes : h = answer[q] BY <1>k DEF IInv, AnswerInv
  <2> QED BY <1>k, <2>1, RowsPersist DEF IInv, AnswerInv
<1>1. ASSUME NEW r \in Requests, CreateStep(r)
      PROVE  /\ pc'[q] = "done" /\ answer'[q] \in Hashes
             /\ status'[answer'[q]] # "absent" /\ key'[answer'[q]] = body'[q][1]
  <2>1. CASE q # r
    BY <1>t, <1>k, <1>1, <2>1 DEF CreateStep, FindInvoice, NodeIssue, InsertInvoice, ReturnWinner,
       Abandon, TypeOK
  <2>2. CASE q = r /\ FindInvoice(r)
    <3>1. answer[r] = None BY <2>2 DEF FindInvoice, IInv, AnswerInv
    <3>2. PICK k \in Keys \union {NoKey}, p \in Params, h \in Hashes :
            /\ h \in Stored(k)
            /\ pc' = [pc EXCEPT ![r] = "done"]
            /\ body' = [body EXCEPT ![r] = <<k, p>>]
            /\ answer' = [answer EXCEPT ![r] = h]
      BY <2>2, <3>1 DEF FindInvoice, Stored
    <3>3. UNCHANGED <<status, key>> BY <2>2 DEF FindInvoice, tables, rows
    <3> QED BY <1>t, <2>2, <3>2, <3>3 DEF TypeOK, Stored
  <2>3. CASE q = r /\ (NodeIssue(r) \/ Abandon(r))
    BY <1>t, <2>3 DEF NodeIssue, Abandon, TypeOK, IInv, AnswerInv
  <2>4. CASE q = r /\ InsertInvoice(r)
    <3>1. answer[r] = None BY <2>4 DEF InsertInvoice, IInv, AnswerInv
    <3>2. /\ status' = [status EXCEPT ![inv[r]] = "open"]
          /\ key' = [key EXCEPT ![inv[r]] = body[r][1]]
          /\ answer' = [answer EXCEPT ![r] = inv[r]]
          /\ pc' = [pc EXCEPT ![r] = "done"] /\ body' = body
      BY <2>4, <3>1 DEF InsertInvoice
    <3>3. inv[r] \in Hashes BY <2>4 DEF InsertInvoice, IInv, HandlerInv
    <3> QED BY <1>t, <2>4, <3>2, <3>3 DEF TypeOK
  <2>5. CASE q = r /\ ReturnWinner(r)
    <3>1. PICK h \in Stored(body[r][1]) : answer' = [answer EXCEPT ![r] = h]
      BY <2>5 DEF ReturnWinner
    <3>2. pc' = [pc EXCEPT ![r] = "done"] /\ UNCHANGED <<status, key, body>>
      BY <2>5 DEF ReturnWinner, tables, rows
    <3> QED BY <1>t, <2>5, <3>1, <3>2 DEF TypeOK, Stored
  <2> QED BY <1>1, <2>1, <2>2, <2>3, <2>4, <2>5 DEF CreateStep
<1>2. CASE Crash
  <2>1. answer'[q] = answer[q] /\ body'[q] = body[q] BY <1>2 DEF Crash
  <2>2. pc'[q] = pc[q] BY <1>2, <2>1 DEF Crash, IInv, AnswerInv
  <2> QED BY <1>k, <2>1, <2>2
<1>3. CASE \/ \E h \in Hashes : NodeStep(h)
           \/ PumpStep \/ ExpireInvoices \/ Restart \/ UNCHANGED vars
  <2>1. UNCHANGED handler
    BY <1>3 DEF NodeStep, NodeReceive, NodeReceiveForeign, PassTime, PumpStep, MarkInvoicePaid,
       PumpAck, PumpAckFails, ExpireInvoices, Restart, vars
  <2> QED BY <1>k, <2>1 DEF handler
<1> QED BY <1>1, <1>2, <1>3 DEF Next

LEMMA QueueStep == TypeInv /\ IInv /\ [Next]_vars => QueueInv'
<1> SUFFICES ASSUME TypeInv, IInv, [Next]_vars PROVE QueueInv' OBVIOUS
<1>t. TypeOK /\ QueueInv BY DEF TypeInv, IInv
\* A step that leaves the queue and the pump alone.
<1>k. ASSUME UNCHANGED <<queue, ppc>>, \A h \in Hashes : node'[h] = "received" => node[h] = "received"
      PROVE  QueueInv'
  <2>1. \A n \in 1 .. Len(queue) : queue[n] \in Hashes BY <1>t DEF TypeOK
  <2>2. \A n \in 1 .. Len(queue) : node'[queue[n]] = "received"
    BY <1>t, <2>1, NodeGrows DEF QueueInv
  <2>3. ASSUME NEW h \in Hashes, node[h] = "received", status'[h] = "open" PROVE status[h] = "open"
    BY <2>3, RowSteps DEF RowStep, Appears, Settles, Stays, Final
  <2>4. ppc = "ack" => status'[Head(queue)] # "open"
    <3> SUFFICES ASSUME ppc = "ack" PROVE status'[Head(queue)] # "open" OBVIOUS
    <3>1. Head(queue) \in Hashes /\ Head(queue) = queue[1] /\ 1 \in 1 .. Len(queue)
      BY <1>t DEF TypeInv, PumpBusy, TypeOK
    <3>2. PICK h \in Hashes : h = Head(queue) BY <3>1
    <3>3. node[h] = "received" /\ status[h] # "open" BY <1>t, <3>1, <3>2 DEF QueueInv
    <3> QED BY <2>3, <3>2, <3>3
  <2>5. \A h \in Hashes : node'[h] = "received" /\ status'[h] = "open" => Queued(h)
    BY <1>t, <1>k, <2>3 DEF QueueInv
  <2> QED BY <1>k, <2>2, <2>4, <2>5 DEF QueueInv, Queued
<1>1. ASSUME NEW r \in Requests, CreateStep(r) PROVE QueueInv'
  <2>1. UNCHANGED <<queue, ppc>>
    BY <1>1 DEF CreateStep, FindInvoice, NodeIssue, InsertInvoice, ReturnWinner, Abandon, process
  <2>2. \A h \in Hashes : node'[h] = "received" => node[h] = "received"
    BY <1>t, <1>1 DEF CreateStep, FindInvoice, NodeIssue, InsertInvoice, ReturnWinner, Abandon,
       TypeOK
  <2> QED BY <1>k, <2>1, <2>2
<1>2. ASSUME NEW h \in Hashes, NodeReceive(h) \/ NodeReceiveForeign(h) PROVE QueueInv'
  <2>1. /\ node' = [node EXCEPT ![h] = "received"] /\ queue' = Append(queue, h)
        /\ UNCHANGED <<status, ppc>>
    BY <1>2 DEF NodeReceive, NodeReceiveForeign, tables, rows, process
  <2>2. /\ Len(queue) \in Nat /\ Len(queue') = Len(queue) + 1 /\ queue'[Len(queue) + 1] = h
        /\ \A n \in 1 .. Len(queue) : queue'[n] = queue[n] /\ queue[n] \in Hashes
        /\ queue # <<>> => Head(queue') = Head(queue)
    BY <1>t, <2>1 DEF TypeOK
  <2>3. \A n \in 1 .. Len(queue') : node'[queue'[n]] = "received"
    BY <1>t, <2>1, <2>2 DEF QueueInv, TypeOK
  <2>4. ppc' = "ack" => status'[Head(queue')] # "open"
    BY <1>t, <2>1, <2>2 DEF QueueInv, TypeInv, PumpBusy
  <2>5. ASSUME NEW g \in Hashes, node'[g] = "received", status'[g] = "open" PROVE Queued(g)'
    <3>1. CASE g = h BY <2>2, <3>1 DEF Queued
    <3>2. CASE g # h
      <4>1. Queued(g) BY <1>t, <2>1, <2>5, <3>2 DEF QueueInv, TypeOK
      <4> QED BY <2>2, <4>1 DEF Queued
    <3> QED BY <3>1, <3>2
  <2> QED BY <2>3, <2>4, <2>5 DEF QueueInv
<1>3. CASE MarkInvoicePaid
  <2>1. UNCHANGED <<queue, node>> /\ ppc' = "ack" BY <1>3 DEF MarkInvoicePaid
  <2>2. /\ Head(queue) \in Hashes /\ Head(queue) = queue[1] /\ 1 \in 1 .. Len(queue)
    BY <1>3, <1>t DEF MarkInvoicePaid, TypeOK
  <2>3. status'[Head(queue)] # "open"
    <3>1. Head(queue) \in claimed => status[Head(queue)] # "open"
      BY DEF IInv, ClaimMeansPaid
    <3> QED BY <1>3, <1>t, <2>2, <3>1 DEF MarkInvoicePaid, CanTransition, Final, TypeOK
  <2>4. \A h \in Hashes : status'[h] = "open" => status[h] = "open"
    BY <1>3, PaidRow DEF Settles, Stays, Final
  <2> QED BY <1>t, <2>1, <2>3, <2>4 DEF QueueInv, Queued
<1>4. CASE PumpAck
  <2>1. /\ ppc = "ack" /\ queue' = Tail(queue) /\ ppc' = "idle" /\ UNCHANGED <<status, node>>
    BY <1>4 DEF PumpAck, tables, rows
  <2>2. /\ Len(queue) \in Nat \ {0} /\ Len(queue') = Len(queue) - 1 /\ Head(queue) = queue[1]
        /\ \A n \in 1 .. Len(queue') : queue'[n] = queue[n + 1]
    BY <1>t, <2>1 DEF TypeOK, TypeInv, PumpBusy
  <2>3. \A n \in 1 .. Len(queue') : node'[queue'[n]] = "received" BY <1>t, <2>1, <2>2 DEF QueueInv
  <2>4. ASSUME NEW h \in Hashes, node'[h] = "received", status'[h] = "open" PROVE Queued(h)'
    <3>1. PICK n \in 1 .. Len(queue) : queue[n] = h BY <1>t, <2>1, <2>4 DEF QueueInv, Queued
    <3>2. n # 1 BY <1>t, <2>1, <2>2, <2>4, <3>1 DEF QueueInv
    <3>3. n - 1 \in 1 .. Len(queue') /\ queue'[n - 1] = h BY <2>2, <3>1, <3>2
    <3> QED BY <3>3 DEF Queued
  <2> QED BY <2>1, <2>3, <2>4 DEF QueueInv
<1>5. CASE PumpAckFails \/ Crash
  BY <1>t, <1>5 DEF PumpAckFails, Crash, tables, rows, QueueInv, Queued
<1>6. CASE \/ \E h \in Hashes : PassTime(h)
           \/ ExpireInvoices \/ Restart \/ UNCHANGED vars
  <2>1. UNCHANGED <<queue, ppc, node>>
    BY <1>6 DEF PassTime, ExpireInvoices, Restart, vars, process
  <2> QED BY <1>k, <2>1
<1> QED BY <1>1, <1>2, <1>3, <1>4, <1>5, <1>6 DEF Next, NodeStep, PumpStep

LEMMA ClaimStep == TypeInv /\ IInv /\ [Next]_vars => ClaimMeansPaid'
<1> SUFFICES ASSUME TypeInv, IInv, [Next]_vars, NEW h \in claimed' PROVE status'[h] = "paid"
  BY DEF ClaimMeansPaid
<1>t. TypeOK BY DEF TypeInv
<1>1. CASE h \in claimed
  <2>1. h \in Hashes /\ status[h] = "paid" BY <1>1, <1>t DEF TypeOK, IInv, ClaimMeansPaid
  <2> QED BY <2>1, RowSteps DEF RowStep, Appears, Settles, Stays
<1>2. CASE h \notin claimed
  <2>1. MarkInvoicePaid
    BY <1>2 DEF Next, CreateStep, FindInvoice, NodeIssue, InsertInvoice, ReturnWinner, Abandon,
       NodeStep, NodeReceive, NodeReceiveForeign, PassTime, PumpStep, PumpAck, PumpAckFails,
       ExpireInvoices, Crash, Restart, vars, tables
  <2>2. h = Head(queue) /\ status' = [status EXCEPT ![h] = "paid"]
    BY <1>2, <2>1 DEF MarkInvoicePaid
  <2>3. h \in Hashes BY <1>t, <2>1, <2>2 DEF MarkInvoicePaid, TypeOK
  <2> QED BY <1>t, <2>2, <2>3 DEF TypeOK
<1> QED BY <1>1, <1>2

LEMMA OutboxStep == TypeInv /\ IInv /\ [Next]_vars => OutboxMatchesInvoice'
<1> SUFFICES ASSUME TypeInv, IInv, [Next]_vars, NEW h \in Hashes
             PROVE  emitted'[h] = IF status'[h] \in Final THEN <<status'[h]>> ELSE <<>>
  BY DEF OutboxMatchesInvoice
<1>1. emitted[h] = IF status[h] \in Final THEN <<status[h]>> ELSE <<>>
  BY DEF IInv, OutboxMatchesInvoice
<1>2. RowStep(h) BY RowSteps
<1> QED BY <1>1, <1>2 DEF RowStep, Appears, Settles, Stays, Final

LEMMA Invariant == Spec => [](TypeInv /\ IInv)
<1>1. Init => IInv
  BY DEF Init, IInv, HandlerInv, RowInv, UniqueKey, AnswerInv, QueueInv, Queued, ClaimMeansPaid,
     OutboxMatchesInvoice, Final
<1>2. TypeInv /\ IInv /\ [Next]_vars => IInv'
  BY HandlerStep, RowInvStep, UniqueStep, AnswerStep, QueueStep, ClaimStep, OutboxStep DEF IInv
<1> QED BY <1>1, <1>2, InitTyped, NextTyped, PTL DEF Spec

-----------------------------------------------------------------------------

\* Requests with one Idempotency-Key that are answered are answered with one invoice,
\* however many of them race between the lookup, the node and the insert.
THEOREM KeyNamesOneInvoice == Spec => []SameKeySameInvoice
<1>1. TypeInv /\ IInv => SameKeySameInvoice
  BY DEF IInv, AnswerInv, UniqueKey, SameKeySameInvoice
<1> QED BY <1>1, Invariant, PTL

\* A paid invoice is money at the node, and no payment of an open invoice is lost: its
\* event is still queued, through crashes and acknowledgements that fail.
THEOREM PaymentIsReal == Spec => []PaidMeansReceived
<1>1. TypeInv /\ IInv => PaidMeansReceived
  BY DEF IInv, RowInv, QueueInv, PaidMeansReceived
<1> QED BY <1>1, Invariant, PTL

\* The merchant hears of every final invoice exactly once, and what the row says.
THEOREM OutboxComplete == Spec => []OutboxMatchesInvoice
BY Invariant, PTL DEF IInv

\* A claimed event has paid its invoice.
THEOREM ClaimsAreApplied == Spec => []ClaimMeansPaid
BY Invariant, PTL DEF IInv

\* A final invoice never changes.
THEOREM FinalStays == Spec => FinalIsForever
<1>1. TypeInv /\ IInv /\ [Next]_vars
        => [\A h \in Hashes : status[h] \in Final => status'[h] = status[h]]_vars
  BY RowSteps DEF RowStep, Appears, Settles, Stays, Final
<1> QED BY <1>1, Invariant, PTL DEF Spec, FinalIsForever

=============================================================================
