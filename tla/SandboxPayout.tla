--------------------------- MODULE SandboxPayout ---------------------------
(***************************************************************************)
(* Simulated payouts: a quote and part of a simulated balance are reserved *)
(* for a payout, the payout takes the outcome its scenario names, and once *)
(* it has succeeded its settlement invoice, if it has one, is paid through *)
(* the payment engine.  The engine appears as PaymentLifecycle, which      *)
(* PaymentEngine implements; the payment of a payout has the idempotency   *)
(* key "sandbox-payout:<id>", so it is named by the payout here.           *)
(*                                                                         *)
(* Each transaction is one step; handlers interleave between them and may  *)
(* be dropped between any two.  Balances of different currencies are rows  *)
(* of their own, so one currency is enough.                                *)
(***************************************************************************)
EXTENDS Integers, Sequences, FiniteSetsExt

CONSTANTS
    Keys,      \* idempotency keys of one project; a key names one payout
    Quotes,    \* quotes the project asks for
    Orders,    \* the payouts clients ask for: key, quote, scenario, invoice or not
    Handlers,  \* concurrent POST .../payouts and .../reconcile calls
    None,      \* an unset key or quote
    Amount,    \* source_minor of each quote
    TopUps,    \* the amounts that are credited
    MaxCredit  \* bound on the total credited

ASSUME AmountAssumption == Amount \in [Quotes -> Nat \ {0}]
ASSUME OrdersAssumption ==
    Orders \subseteq [key : Keys, quote : Quotes,
                      outcome : {"success", "failure", "timeout"}, invoiced : BOOLEAN]
ASSUME TopUpAssumption == TopUps \subseteq Nat \ {0} /\ MaxCredit \in Nat
ASSUME NoneAssumption == None \notin Keys \union Quotes

VARIABLES
    (* sandbox_quotes and sandbox_balances *)
    quote, stale, balance, credited,
    (* sandbox_payouts and the payouts' events *)
    status, quoteOf, scenario, invoiced, linked, emitted,
    (* the payments of payouts, as PaymentLifecycle *)
    payStatus, payEmitted, askers,
    (* handlers, and history: payouts with a handler that stopped on its way *)
    pc, order, cutShort

funds    == <<quote, stale, balance, credited>>
payouts  == <<status, quoteOf, scenario, invoiced, linked, emitted>>
payments == <<payStatus, payEmitted, askers>>
handlers == <<pc, order, cutShort>>
vars     == <<funds, payouts, payments, handlers>>

Pay == INSTANCE PaymentLifecycle
       WITH Callers <- Handlers, status <- payStatus, emitted <- payEmitted

Scenarios     == {"success", "failure", "timeout"}
PayoutStatus  == {"reserved", "pending", "succeeded", "failed", "unknown"}
PaymentStatus == {"created", "pending", "succeeded", "failed", "unknown"}
Order   == [key : Keys \union {None}, quote : Quotes \union {None},
            outcome : Scenarios \union {"none"}, invoiced : BOOLEAN]
NoOrder == [key |-> None, quote |-> None, outcome |-> "none", invoiced |-> FALSE]

TypeOK ==
    /\ quote \in [Quotes -> {"absent", "open", "used"}] /\ stale \subseteq Quotes
    /\ balance \in Int /\ credited \in Nat
    /\ status \in [Keys -> PayoutStatus \union {"absent"}]
    /\ quoteOf \in [Keys -> Quotes \union {None}]
    /\ scenario \in [Keys -> Scenarios \union {"none"}]
    /\ invoiced \in [Keys -> BOOLEAN] /\ linked \in [Keys -> BOOLEAN]
    /\ emitted \in [Keys -> Seq(PayoutStatus)]
    /\ payStatus \in [Keys -> PaymentStatus \union {"absent"}]
    /\ payEmitted \in [Keys -> Seq(PaymentStatus)]
    /\ askers \in [Keys -> SUBSET Handlers]
    /\ pc \in [Handlers -> {"idle", "lookup", "reserve", "start", "finish", "send",
                            "mark", "ask", "detached", "refused", "link"}]
    /\ order \in [Handlers -> Order]
    /\ cutShort \subseteq Keys

Init ==
    /\ quote = [q \in Quotes |-> "absent"] /\ stale = {}
    /\ balance = 0 /\ credited = 0
    /\ status = [k \in Keys |-> "absent"]
    /\ quoteOf = [k \in Keys |-> None]
    /\ scenario = [k \in Keys |-> "none"]
    /\ invoiced = [k \in Keys |-> FALSE] /\ linked = [k \in Keys |-> FALSE]
    /\ emitted = [k \in Keys |-> <<>>]
    /\ Pay!Init
    /\ pc = [h \in Handlers |-> "idle"]
    /\ order = [h \in Handlers |-> NoOrder]
    /\ cutShort = {}

-----------------------------------------------------------------------------
(* Balances and quotes.                                                    *)

\* credit_sandbox_balance.
Credit(a) == credited' = credited + a /\ balance' = balance + a

TopUp ==
    /\ \E a \in TopUps : credited + a <= MaxCredit /\ Credit(a)
    /\ UNCHANGED <<quote, stale, payouts, payments, handlers>>

CreateQuote(q) ==
    /\ quote[q] = "absent"
    /\ quote' = [quote EXCEPT ![q] = "open"]
    /\ UNCHANGED <<stale, balance, credited, payouts, payments, handlers>>

\* QUOTE_TTL_SECS pass; nothing writes the status `expired`.  Of a used quote nobody
\* asks the time again.
ExpireQuote(q) ==
    /\ quote[q] = "open" /\ q \notin stale
    /\ stale' = stale \union {q}
    /\ UNCHANGED <<quote, balance, credited, payouts, payments, handlers>>

-----------------------------------------------------------------------------
(* Handlers.                                                               *)

Goto(h, step) == pc' = [pc EXCEPT ![h] = step] /\ UNCHANGED <<order, cutShort>>

\* The call is answered, with success or with an error.
End(h) == /\ pc' = [pc EXCEPT ![h] = "idle"]
          /\ order' = [order EXCEPT ![h] = NoOrder]
          /\ UNCHANGED cutShort

\* The handler goes on if ok; otherwise the call is answered.
Proceed(h, ok, step) == /\ pc' = [pc EXCEPT ![h] = IF ok THEN step ELSE "idle"]
                        /\ order' = [order EXCEPT ![h] = IF ok THEN @ ELSE NoOrder]
                        /\ UNCHANGED cutShort

\* create_payout: the quote exists and the invoice, if any, has its amount.
CreatePayout(h) ==
    /\ pc[h] = "idle"
    /\ \E o \in Orders : quote[o.quote] # "absent" /\ order' = [order EXCEPT ![h] = o]
    /\ pc' = [pc EXCEPT ![h] = "lookup"]
    /\ UNCHANGED <<funds, payouts, payments, cutShort>>

\* reserve_payout looks its key up: a stored payout is returned, or refused if quote
\* or scenario differ.
ReserveLookup(h) ==
    /\ pc[h] = "lookup"
    /\ Proceed(h, status[order[h].key] = "absent", "reserve")
    /\ UNCHANGED <<funds, payouts, payments>>

\* Mutant: the status of the quote is not looked at.
Reservable_AnyStatus(q) == quote[q] # "absent" /\ q \notin stale /\ balance >= Amount[q]

\* Under the row lock of quote q: it is open, in time and covered by the balance.  The
\* unique index on sandbox_payouts.quote_id, a second line of defence, is left out.
Reservable(q) == quote[q] = "open" /\ q \notin stale /\ balance >= Amount[q]

\* Mutant: the quote gets the status of its payout, which is none of its own.
Reserve_MarksReserved(o) ==
    /\ quote' = [quote EXCEPT ![o.quote] = "reserved"]
    /\ balance' = balance - Amount[o.quote]
    /\ status' = [status EXCEPT ![o.key] = "reserved"]
    /\ quoteOf' = [quoteOf EXCEPT ![o.key] = o.quote]
    /\ scenario' = [scenario EXCEPT ![o.key] = o.outcome]
    /\ invoiced' = [invoiced EXCEPT ![o.key] = o.invoiced]
    /\ emitted' = [emitted EXCEPT ![o.key] = Append(@, "reserved")]
    /\ UNCHANGED <<stale, credited, linked>>

\* The effect of the reservation of order o.
Reserve(o) ==
    /\ quote' = [quote EXCEPT ![o.quote] = "used"]
    /\ balance' = balance - Amount[o.quote]
    /\ status' = [status EXCEPT ![o.key] = "reserved"]
    /\ quoteOf' = [quoteOf EXCEPT ![o.key] = o.quote]
    /\ scenario' = [scenario EXCEPT ![o.key] = o.outcome]
    /\ invoiced' = [invoiced EXCEPT ![o.key] = o.invoiced]
    /\ emitted' = [emitted EXCEPT ![o.key] = Append(@, "reserved")]
    /\ UNCHANGED <<stale, credited, linked>>

\* One transaction.  The unique key stops a second payout that missed the first one.
ReservePayout(h) ==
    LET o == order[h]
        ok == Reservable(o.quote) /\ status[o.key] = "absent" IN
    /\ pc[h] = "reserve"
    /\ \/ ok /\ Reserve(o) /\ Goto(h, "start")
       \/ ~ok /\ End(h) /\ UNCHANGED <<funds, payouts>>
    /\ UNCHANGED payments

-----------------------------------------------------------------------------
(* run_payout and reconcile_payout.                                        *)

\* Mutant: a late denial overrules a success.
CanTransition_Denied(from, to) ==
    \/ from = "reserved" /\ to = "pending"
    \/ from = "pending" /\ to \in {"succeeded", "failed", "unknown"}
    \/ from = "unknown" /\ to \in {"succeeded", "failed"}
    \/ from = "succeeded" /\ to = "failed"

CanTransition(from, to) ==
    \/ from = "reserved" /\ to = "pending"
    \/ from = "pending" /\ to \in {"succeeded", "failed", "unknown"}
    \/ from = "unknown" /\ to \in {"succeeded", "failed"}

\* advance_payout returns Ok.
Accepts(k, to) == status[k] = to \/ CanTransition(status[k], to)

\* Mutant: a payout that timed out is refunded as well.
AdvancePayout_RefundsUnknown(k, to) ==
    IF CanTransition(status[k], to)
    THEN /\ status' = [status EXCEPT ![k] = to]
         /\ balance' = IF to \in {"failed", "unknown"} THEN balance + Amount[quoteOf[k]] ELSE balance
         /\ emitted' = [emitted EXCEPT ![k] = Append(@, to)]
         /\ UNCHANGED <<quote, stale, credited, quoteOf, scenario, invoiced, linked>>
    ELSE UNCHANGED <<funds, payouts>>

\* Mutant: repeating the current status is announced again.
AdvancePayout_RepeatsEvent(k, to) ==
    IF Accepts(k, to)
    THEN /\ status' = [status EXCEPT ![k] = to]
         /\ balance' = IF to = "failed" THEN balance + Amount[quoteOf[k]] ELSE balance
         /\ emitted' = [emitted EXCEPT ![k] = Append(@, to)]
         /\ UNCHANGED <<quote, stale, credited, quoteOf, scenario, invoiced, linked>>
    ELSE UNCHANGED <<funds, payouts>>

\* The row, the refund of a failed payout and the event commit together.
AdvancePayout(k, to) ==
    IF CanTransition(status[k], to)
    THEN /\ status' = [status EXCEPT ![k] = to]
         /\ balance' = IF to = "failed" THEN balance + Amount[quoteOf[k]] ELSE balance
         /\ emitted' = [emitted EXCEPT ![k] = Append(@, to)]
         /\ UNCHANGED <<quote, stale, credited, quoteOf, scenario, invoiced, linked>>
    ELSE UNCHANGED <<funds, payouts>>

\* Mutant: without an answer the payout stays as it is.
Outcome_TimeoutPends(s) ==
    IF s = "success" THEN "succeeded" ELSE IF s = "failure" THEN "failed" ELSE "pending"

\* What the destination answers in a scenario, and to an operator's verdict.
Outcome(s) == IF s = "success" THEN "succeeded" ELSE IF s = "failure" THEN "failed" ELSE "unknown"

StartPayout(h) ==
    LET k == order[h].key IN
    /\ pc[h] = "start"
    /\ AdvancePayout(k, "pending")
    /\ Proceed(h, Accepts(k, "pending"), "finish")
    /\ UNCHANGED payments

\* reconcile_payout reads an unknown payout and is told how it ended.
ReconcileRead(h) ==
    /\ pc[h] = "idle"
    /\ \E k \in Keys, s \in {"success", "failure"} :
        /\ status[k] = "unknown"
        /\ order' = [order EXCEPT ![h] = [NoOrder EXCEPT !.key = k, !.outcome = s]]
    /\ pc' = [pc EXCEPT ![h] = "finish"]
    /\ UNCHANGED <<funds, payouts, payments, cutShort>>

\* Only a payout that is now `succeeded` goes on, to pay its invoice.
FinishPayout(h) ==
    LET k == order[h].key
        to == Outcome(order[h].outcome) IN
    /\ pc[h] = "finish"
    /\ AdvancePayout(k, to)
    /\ Proceed(h, Accepts(k, to) /\ to = "succeeded" /\ invoiced[k], "send")
    /\ UNCHANGED payments

-----------------------------------------------------------------------------
(* send_payment and attach_payment_to_payout.                              *)

\* The handler stops before its last step: k keeps what has been committed.
CutShort(h) ==
    /\ pc' = [pc EXCEPT ![h] = "idle"]
    /\ order' = [order EXCEPT ![h] = NoOrder]
    /\ cutShort' = cutShort \union {order[h].key}

\* begin_payment creates the payment, or another call has and its row is linked.
SendPayment(h) ==
    LET k == order[h].key IN
    /\ pc[h] = "send"
    /\ \/ Pay!Create(k) /\ Goto(h, "mark")
       \/ payStatus[k] # "absent" /\ Goto(h, "link") /\ UNCHANGED payments
    /\ UNCHANGED <<funds, payouts>>

\* A payment reconciled as failed in between cannot become pending: an error.
MarkPending(h) ==
    LET k == order[h].key IN
    /\ pc[h] = "mark"
    /\ \/ Pay!Submit(k) /\ Goto(h, "ask")
       \/ payStatus[k] = "pending" /\ Goto(h, "ask") /\ UNCHANGED payments
       \/ payStatus[k] \notin {"created", "pending"} /\ CutShort(h) /\ UNCHANGED payments
    /\ UNCHANGED <<funds, payouts>>

\* The node takes the payment or refuses it; a detached call has nobody waiting.
AskNode(h) ==
    /\ pc[h] \in {"ask", "detached"}
    /\ Pay!Ask(order[h].key, h)
    /\ \/ pc[h] = "ask" /\ (Goto(h, "link") \/ Goto(h, "refused"))
       \/ pc[h] = "detached" /\ End(h)
    /\ UNCHANGED <<funds, payouts>>

\* The refusal is recorded, unless the payment succeeded otherwise: then an error.
RecordRefusal(h) ==
    LET k == order[h].key IN
    /\ pc[h] = "refused"
    /\ \/ Pay!Announce(k, {"pending", "unknown"}, "failed") /\ Goto(h, "link")
       \/ payStatus[k] = "failed" /\ Goto(h, "link") /\ UNCHANGED payments
       \/ payStatus[k] = "succeeded" /\ CutShort(h) /\ UNCHANGED payments
    /\ UNCHANGED <<funds, payouts>>

LinkPayment(h) ==
    /\ pc[h] = "link"
    /\ linked' = [linked EXCEPT ![order[h].key] = TRUE]
    /\ End(h)
    /\ UNCHANGED <<funds, status, quoteOf, scenario, invoiced, emitted, payments>>

\* The client disconnects, the process dies, the database fails, or send_payment no
\* longer accepts the invoice.  A dispatch handed to spawn_blocking may still run.
Abandon(h) ==
    /\ pc[h] # "idle"
    /\ \/ pc[h] \in {"lookup", "reserve"} /\ End(h)
       \/ pc[h] \notin {"lookup", "reserve"} /\ CutShort(h)
       \/ pc[h] = "ask" /\ pc' = [pc EXCEPT ![h] = "detached"]
          /\ cutShort' = cutShort \union {order[h].key} /\ UNCHANGED order
    /\ UNCHANGED <<funds, payouts, payments>>

\* The pump and reconciliation move the payment meanwhile.
EngineStep(k) ==
    /\ Pay!Submit(k) \/ Pay!Refuse(k) \/ Pay!Lose(k) \/ Pay!Resolve(k)
    /\ UNCHANGED <<funds, payouts, handlers>>

-----------------------------------------------------------------------------

Next == \/ TopUp
        \/ \E q \in Quotes : CreateQuote(q) \/ ExpireQuote(q)
        \/ \E h \in Handlers :
            \/ CreatePayout(h) \/ ReserveLookup(h) \/ ReservePayout(h) \/ StartPayout(h)
            \/ ReconcileRead(h) \/ FinishPayout(h) \/ SendPayment(h) \/ MarkPending(h)
            \/ AskNode(h) \/ RecordRefusal(h) \/ LinkPayment(h) \/ Abandon(h)
        \/ \E k \in Keys : EngineStep(k)

Spec == Init /\ [][Next]_vars

-----------------------------------------------------------------------------
(* Properties.                                                             *)

Held == {k \in Keys : status[k] \notin {"absent", "failed"}}

\* No simulated money is made or lost: what was credited is in the balance or held by
\* payouts that have not failed, whoever races on the quote, the key, the balance or
\* the verdict, and the balance never goes below zero.
Conservation ==
    /\ balance >= 0
    /\ balance + MapThenSumSet(LAMBDA k : Amount[quoteOf[k]], Held) = credited

\* A quote is spent by one payout at most, and is marked used exactly then.
QuoteSpentOnce ==
    \A q \in Quotes :
        LET spenders == {k \in Keys : quoteOf[k] = q} IN
        /\ \A k1, k2 \in spenders : k1 = k2
        /\ quote[q] = "used" <=> spenders # {}

\* "only after the simulated destination payout is confirmed": a payment exists only
\* for a payout that has succeeded, and a payout with a payment is never refunded.
PaymentOnlyAfterPayout ==
    \A k \in Keys : payStatus[k] # "absent" => invoiced[k] /\ status[k] = "succeeded"

\* The events of a payout are its history, each status once.
OutboxMatchesPayout ==
    \A k \in Keys :
        LET told == emitted[k] IN
        /\ status[k] = "absent" => told = <<>>
        /\ status[k] # "absent" => told[1] = "reserved" /\ told[Len(told)] = status[k]
        /\ \A i \in 2 .. Len(told) : CanTransition(told[i - 1], told[i])

\* A payout that nobody works on any more has its outcome, and its payment if it is
\* owed one, unless a handler was cut short on the way: no other interleaving strands
\* a payout with its balance held.
FinishedUnlessCutShort ==
    \A k \in Keys \ cutShort :
        (status[k] # "absent" /\ \A h \in Handlers : order[h].key # k)
        => /\ status[k] \in {"succeeded", "failed", "unknown"}
           /\ status[k] = "succeeded" /\ invoiced[k] => linked[k] /\ payStatus[k] # "absent"

=============================================================================
