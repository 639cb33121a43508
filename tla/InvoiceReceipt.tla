--------------------------- MODULE InvoiceReceipt ---------------------------
(***************************************************************************)
(* Incoming Lightning payments of Safrod: the handlers that create an      *)
(* invoice under an optional idempotency key, the pump that marks it paid  *)
(* from a PaymentReceived event, the task that expires it, and crashes.    *)
(* Each database transaction is one step; handlers interleave between      *)
(* their transactions and their call to the node.  An invoice is named by  *)
(* its payment hash, which is unique in the table and fresh at the node.   *)
(***************************************************************************)
EXTENDS Naturals, Sequences

CONSTANTS
    Keys,      \* idempotency keys of one project
    NoKey,     \* the header is absent
    Params,    \* amount and description of a request body
    Hashes,    \* payment hashes
    Requests,  \* POST /v1/lightning/invoices calls, each handled once
    None,      \* an unset hash, body or answer
    MaxCrashes \* bound on process crashes

ASSUME KeysAssumption == NoKey \notin Keys
ASSUME NoneAssumption == None \notin Hashes
ASSUME CrashAssumption == MaxCrashes \in Nat

VARIABLES
    (* the invoices, events and node_events tables *)
    status, key, params, emitted, claimed,
    (* invoices whose expires_at lies in the past *)
    past,
    (* the node: what it knows of a hash, and its unacknowledged events *)
    node, queue,
    (* handlers, the pump and the process *)
    pc, body, inv, answer, ppc, up, crashes

rows    == <<status, key, params>>
tables  == <<rows, emitted, claimed>>
handler == <<pc, body, inv, answer>>
process == <<ppc, up, crashes>>
vars    == <<tables, past, node, queue, handler, process>>

Final == {"paid", "expired"}
InvoiceStatus == {"open"} \union Final

TypeOK ==
    /\ status \in [Hashes -> InvoiceStatus \union {"absent"}]
    /\ key \in [Hashes -> Keys \union {NoKey}]
    /\ params \in [Hashes -> Params \union {None}]
    /\ emitted \in [Hashes -> Seq(Final)]
    /\ claimed \subseteq Hashes /\ past \subseteq Hashes
    /\ node \in [Hashes -> {"unused", "issued", "received"}]
    /\ queue \in Seq(Hashes)
    /\ pc \in [Requests -> {"idle", "issue", "insert", "reread", "done"}]
    /\ body \in [Requests -> ((Keys \union {NoKey}) \X Params) \union {<<NoKey, None>>}]
    /\ inv \in [Requests -> Hashes \union {None}]
    /\ answer \in [Requests -> Hashes \union {None}]
    /\ ppc \in {"idle", "ack"} /\ up \in BOOLEAN /\ crashes \in Nat

Init ==
    /\ status = [h \in Hashes |-> "absent"]
    /\ key = [h \in Hashes |-> NoKey]
    /\ params = [h \in Hashes |-> None]
    /\ emitted = [h \in Hashes |-> <<>>]
    /\ claimed = {} /\ past = {}
    /\ node = [h \in Hashes |-> "unused"]
    /\ queue = <<>>
    /\ pc = [r \in Requests |-> "idle"]
    /\ body = [r \in Requests |-> <<NoKey, None>>]
    /\ inv = [r \in Requests |-> None]
    /\ answer = [r \in Requests |-> None]
    /\ ppc = "idle" /\ up = TRUE /\ crashes = 0

-----------------------------------------------------------------------------
(* create_invoice: look the key up, ask the node, insert, re-read.         *)

\* find_invoice_by_idempotency_key; the header may be absent.
Stored(k) == {h \in Hashes : k # NoKey /\ status[h] # "absent" /\ key[h] = k}

\* A known key answers with the stored invoice, or 409 if the parameters differ.
FindInvoice(r) ==
    /\ up /\ pc[r] = "idle"
    /\ \E k \in Keys \union {NoKey}, p \in Params :
        \/ /\ Stored(k) = {}
           /\ pc' = [pc EXCEPT ![r] = "issue"]
           /\ body' = [body EXCEPT ![r] = <<k, p>>]
           /\ UNCHANGED answer
        \/ \E h \in Stored(k) :
           /\ pc' = [pc EXCEPT ![r] = "done"]
           /\ \/ /\ params[h] = p
                 /\ body' = [body EXCEPT ![r] = <<k, p>>]
                 /\ answer' = [answer EXCEPT ![r] = h]
              \/ params[h] # p /\ UNCHANGED <<body, answer>>
    /\ UNCHANGED <<tables, past, node, queue, inv, process>>

\* The node issues an invoice under a fresh payment hash.
NodeIssue(r) ==
    /\ pc[r] = "issue"
    /\ \E h \in Hashes :
        /\ node[h] = "unused"
        /\ node' = [node EXCEPT ![h] = "issued"]
        /\ inv' = [inv EXCEPT ![r] = h]
    /\ pc' = [pc EXCEPT ![r] = "insert"]
    /\ UNCHANGED <<tables, past, queue, body, answer, process>>

\* Mutant: the unique index on (project_id, idempotency_key) is missing.
InsertInvoice_NoUniqueKey(r) ==
    /\ pc[r] = "insert"
    /\ status' = [status EXCEPT ![inv[r]] = "open"]
    /\ key' = [key EXCEPT ![inv[r]] = body[r][1]]
    /\ params' = [params EXCEPT ![inv[r]] = body[r][2]]
    /\ answer' = [answer EXCEPT ![r] = inv[r]]
    /\ pc' = [pc EXCEPT ![r] = "done"]
    /\ inv' = [inv EXCEPT ![r] = None]
    /\ UNCHANGED <<emitted, claimed, past, node, queue, body, process>>

\* insert_invoice, or a conflict on the idempotency key.
InsertInvoice(r) ==
    /\ pc[r] = "insert"
    /\ \/ /\ Stored(body[r][1]) = {}
          /\ status' = [status EXCEPT ![inv[r]] = "open"]
          /\ key' = [key EXCEPT ![inv[r]] = body[r][1]]
          /\ params' = [params EXCEPT ![inv[r]] = body[r][2]]
          /\ answer' = [answer EXCEPT ![r] = inv[r]]
          /\ pc' = [pc EXCEPT ![r] = "done"]
       \/ /\ Stored(body[r][1]) # {}
          /\ pc' = [pc EXCEPT ![r] = "reread"]
          /\ UNCHANGED <<rows, answer>>
    /\ inv' = [inv EXCEPT ![r] = None]
    /\ UNCHANGED <<emitted, claimed, past, node, queue, body, process>>

\* "The loser returns the winner's invoice", whatever parameters it was sent with.
ReturnWinner(r) ==
    /\ pc[r] = "reread"
    /\ \E h \in Stored(body[r][1]) : answer' = [answer EXCEPT ![r] = h]
    /\ pc' = [pc EXCEPT ![r] = "done"]
    /\ UNCHANGED <<tables, past, node, queue, body, inv, process>>

\* The client disconnects, or the node or the database fails: no answer, and the
\* handler's locals are gone.
Abandon(r) ==
    /\ pc[r] \notin {"idle", "done"}
    /\ pc' = [pc EXCEPT ![r] = "done"]
    /\ body' = [body EXCEPT ![r] = <<NoKey, None>>]
    /\ inv' = [inv EXCEPT ![r] = None]
    /\ UNCHANGED <<tables, past, node, queue, answer, process>>

-----------------------------------------------------------------------------
(* The payer and the clock.                                                *)

\* A stored invoice is paid.  The node does not hold the payer to expires_at: an
\* HTLC may be on its way when the time passes.
NodeReceive(h) ==
    /\ up /\ node[h] = "issued" /\ status[h] # "absent"
    /\ node' = [node EXCEPT ![h] = "received"]
    /\ queue' = Append(queue, h)
    /\ UNCHANGED <<tables, past, handler, process>>

\* A payment that belongs to no stored invoice (spontaneous, or of another database).
NodeReceiveForeign(h) ==
    /\ up /\ node[h] = "unused"
    /\ node' = [node EXCEPT ![h] = "received"]
    /\ queue' = Append(queue, h)
    /\ UNCHANGED <<tables, past, handler, process>>

\* The clock passes expires_at of an invoice the node has issued.
PassTime(h) ==
    /\ node[h] # "unused" /\ h \notin past
    /\ past' = past \union {h}
    /\ UNCHANGED <<tables, node, queue, handler, process>>

-----------------------------------------------------------------------------
(* pump_node_events and expire_invoices.                                   *)

CanTransition(from, to) == from = "open" /\ to \in Final

\* Mutant: redelivery of an applied event announces the payment again.
MarkInvoicePaid_Repeats ==
    LET h == Head(queue) IN
    /\ up /\ ppc = "idle" /\ queue # <<>>
    /\ IF status[h] = "paid" \/ CanTransition(status[h], "paid")
       THEN /\ status' = [status EXCEPT ![h] = "paid"]
            /\ emitted' = [emitted EXCEPT ![h] = Append(@, "paid")]
            /\ claimed' = claimed \union {h}
       ELSE UNCHANGED <<status, emitted, claimed>>
    /\ ppc' = "ack"
    /\ UNCHANGED <<key, params, past, node, queue, handler, up, crashes>>

\* Mutant: the claim is committed although the transition was refused.
MarkInvoicePaid_KeepsClaim ==
    LET h == Head(queue) IN
    /\ up /\ ppc = "idle" /\ queue # <<>>
    /\ IF h \notin claimed /\ CanTransition(status[h], "paid")
       THEN /\ status' = [status EXCEPT ![h] = "paid"]
            /\ emitted' = [emitted EXCEPT ![h] = Append(@, "paid")]
       ELSE UNCHANGED <<status, emitted>>
    /\ claimed' = claimed \union {h}
    /\ ppc' = "ack"
    /\ UNCHANGED <<key, params, past, node, queue, handler, up, crashes>>

\* Mutant: a payment without an invoice is retried instead of dropped.
MarkInvoicePaid_RetriesUnknown ==
    LET h == Head(queue) IN
    /\ up /\ ppc = "idle" /\ queue # <<>> /\ status[h] # "absent"
    /\ IF h \notin claimed /\ CanTransition(status[h], "paid")
       THEN /\ status' = [status EXCEPT ![h] = "paid"]
            /\ emitted' = [emitted EXCEPT ![h] = Append(@, "paid")]
            /\ claimed' = claimed \union {h}
       ELSE UNCHANGED <<status, emitted, claimed>>
    /\ ppc' = "ack"
    /\ UNCHANGED <<key, params, past, node, queue, handler, up, crashes>>

\* mark_invoice_paid: claim, status and outbox event commit together.  An event
\* already applied, an unknown hash and an expired invoice change nothing and the
\* event is acknowledged all the same.
MarkInvoicePaid ==
    LET h == Head(queue) IN
    /\ up /\ ppc = "idle" /\ queue # <<>>
    /\ IF h \notin claimed /\ CanTransition(status[h], "paid")
       THEN /\ status' = [status EXCEPT ![h] = "paid"]
            /\ emitted' = [emitted EXCEPT ![h] = Append(@, "paid")]
            /\ claimed' = claimed \union {h}
       ELSE UNCHANGED <<status, emitted, claimed>>
    /\ ppc' = "ack"
    /\ UNCHANGED <<key, params, past, node, queue, handler, up, crashes>>

\* Mutant: the event is acknowledged before it is recorded.
PumpAck_Early ==
    /\ up /\ queue # <<>>
    /\ queue' = Tail(queue)
    /\ ppc' = "idle"
    /\ UNCHANGED <<tables, past, node, handler, up, crashes>>

PumpAck ==
    /\ ppc = "ack"
    /\ queue' = Tail(queue)
    /\ ppc' = "idle"
    /\ UNCHANGED <<tables, past, node, handler, up, crashes>>

\* event_handled fails and the pump ignores it: the node hands out the event again.
PumpAckFails ==
    /\ ppc = "ack" /\ ppc' = "idle"
    /\ UNCHANGED <<tables, past, node, queue, handler, up, crashes>>

Due == {h \in past : status[h] = "open"}

\* Mutant: the sweep forgets that a paid invoice has left `open`.
ExpireInvoices_Unchecked ==
    LET late == {h \in past : status[h] # "absent"} IN
    /\ up /\ late # {}
    /\ status' = [h \in Hashes |-> IF h \in late THEN "expired" ELSE status[h]]
    /\ emitted' = [h \in Hashes |-> IF h \in late /\ status[h] # "expired"
                                    THEN Append(emitted[h], "expired") ELSE emitted[h]]
    /\ UNCHANGED <<key, params, claimed, past, node, queue, handler, process>>

\* Mutant: the event is built from the row as it was before the update.
ExpireInvoices_OldRow ==
    /\ up /\ Due # {}
    /\ status' = [h \in Hashes |-> IF h \in Due THEN "expired" ELSE status[h]]
    /\ emitted' = [h \in Hashes |-> IF h \in Due THEN Append(emitted[h], status[h])
                                    ELSE emitted[h]]
    /\ UNCHANGED <<key, params, claimed, past, node, queue, handler, process>>

\* One statement expires every open invoice that is due and emits its event.
ExpireInvoices ==
    /\ up /\ Due # {}
    /\ status' = [h \in Hashes |-> IF h \in Due THEN "expired" ELSE status[h]]
    /\ emitted' = [h \in Hashes |-> IF h \in Due THEN Append(emitted[h], "expired")
                                    ELSE emitted[h]]
    /\ UNCHANGED <<key, params, claimed, past, node, queue, handler, process>>

Crash ==
    /\ up /\ crashes < MaxCrashes
    /\ up' = FALSE /\ crashes' = crashes + 1 /\ ppc' = "idle"
    /\ pc' = [r \in Requests |-> IF pc[r] = "idle" THEN "idle" ELSE "done"]
    /\ body' = [r \in Requests |-> IF answer[r] = None THEN <<NoKey, None>> ELSE body[r]]
    /\ inv' = [r \in Requests |-> None]
    /\ UNCHANGED <<tables, past, node, queue, answer>>

Restart ==
    /\ ~up /\ up' = TRUE
    /\ UNCHANGED <<tables, past, node, queue, handler, ppc, crashes>>

-----------------------------------------------------------------------------

CreateStep(r) == \/ FindInvoice(r) \/ NodeIssue(r) \/ InsertInvoice(r)
                 \/ ReturnWinner(r) \/ Abandon(r)
NodeStep(h) == NodeReceive(h) \/ NodeReceiveForeign(h) \/ PassTime(h)
PumpStep == MarkInvoicePaid \/ PumpAck \/ PumpAckFails

Next == \/ \E r \in Requests : CreateStep(r)
        \/ \E h \in Hashes : NodeStep(h)
        \/ PumpStep \/ ExpireInvoices
        \/ Crash \/ Restart

Spec == Init /\ [][Next]_vars

(* The background tasks keep running and the supervisor restarts the process; *)
(* an acknowledgement tried again and again succeeds.  Time passes.  Clients, *)
(* payers and crashes owe nothing.                                            *)
Fairness == /\ WF_vars(MarkInvoicePaid) /\ SF_vars(PumpAck)
            /\ WF_vars(ExpireInvoices) /\ WF_vars(Restart)
            /\ \A h \in Hashes : WF_vars(PassTime(h))

FairSpec == Spec /\ Fairness

-----------------------------------------------------------------------------
(* Properties.                                                             *)

Queued(h) == \E n \in 1..Len(queue) : queue[n] = h

\* However requests with one Idempotency-Key race, fail or are repeated after a
\* crash, every answer they get names the same invoice (create_invoice).
SameKeySameInvoice ==
    \A r1, r2 \in Requests :
        /\ answer[r1] # None /\ answer[r2] # None
        /\ body[r1][1] = body[r2][1] /\ body[r1][1] # NoKey
        => answer[r1] = answer[r2]

\* An invoice is paid only if the node received the money, and its acknowledged
\* payment leaves it final: no acknowledged event is lost (mark_invoice_paid, pump).
PaidMeansReceived ==
    \A h \in Hashes : /\ status[h] = "paid" => node[h] = "received"
                      /\ node[h] = "received" /\ status[h] = "open"
                         => Queued(h)

\* The merchant is told exactly once, and what the row says: a redelivered event
\* or a sweep that meets a paid invoice announces nothing (emit in the transaction).
OutboxMatchesInvoice ==
    \A h \in Hashes : emitted[h] = IF status[h] \in Final THEN <<status[h]>> ELSE <<>>

\* The dedupe key of an event is held only by the invoice it paid: a claim without
\* its effect would swallow the redelivery.
ClaimMeansPaid == \A h \in claimed : status[h] = "paid"

\* `open -> paid | expired`: a final invoice never changes.
FinalIsForever ==
    [][\A h \in Hashes : status[h] \in Final => status'[h] = status[h]]_vars

\* Every event is acknowledged in the end, whatever comes before it in the queue: a
\* payment of no invoice, one that came too late, a failing acknowledgement, a crash.
EveryEventIsAcknowledged ==
    \A h \in Hashes : Queued(h) ~> ~Queued(h)

\* docs/architecture.md: when LDK Node emits PaymentReceived the daemon "moves the
\* invoice to `paid` in the same transaction", and only then acknowledges: so an
\* acknowledged payment of a stored invoice leaves it paid.
AcknowledgedIsPaid ==
    \A h \in Hashes : /\ node[h] = "received" /\ status[h] # "absent"
                      /\ ~Queued(h)
                      => status[h] = "paid"

\* docs/api.md: "Reusing a key with different parameters returns `409
\* idempotency_key_reused`": an answered request got what it asked for.
KeyReuseIsRefused ==
    \A r \in Requests : answer[r] # None => params[answer[r]] = body[r][2]

=============================================================================
