----------------------------- MODULE Settlement -----------------------------
(***************************************************************************)
(* One settlement of the legacy prototype between two nodes: the source    *)
(* provider, who owes Lightning, and the destination provider, who pays    *)
(* fiat first.  A thread is one HTTP call at the source, including the     *)
(* call it makes to the peer, or one at the destination.                   *)
(*                                                                         *)
(* A method of Node reads its record, checks the transition, acts on the   *)
(* rail or on Core Lightning, and writes the record back.  The store locks *)
(* each read and each write, not the method, so threads interleave between *)
(* these steps.  The store is a file; the rail adapter and the accepted    *)
(* invoices are in memory and gone after a crash.  Settlements do not      *)
(* share records, so one is enough.                                        *)
(*                                                                         *)
(* Both nodes serve every route: the source's own payout route asks the    *)
(* source's rail, with the reservation it made for the refund.             *)
(***************************************************************************)
EXTENDS Naturals

CONSTANTS
    Threads,    \* HTTP calls that run at the same time
    Routes,     \* the provider-facing routes that are called
    MaxCrashes  \* bound on crashes and failed saves

ASSUME RoutesAssumption ==
    Routes \subseteq {"settle", "reconcile_peer", "payout", "reconcile", "own_payout",
                      "own_reconcile", "release", "refund", "record"}
ASSUME CrashAssumption == MaxCrashes \in Nat

VARIABLES
    store,     \* the settlement record in each node's file
    reserved,  \* the adapter of each node remembers its reservation
    payout,    \* what the adapter of each node remembers under the payout key
    accepted,  \* the source holds the invoice for release
    mode,      \* "up", "poisoned" after a failed save, or "down"
    fiat,      \* history: fiat payouts the rail of each node made
    asked,     \* history: nodes whose rail was asked to pay out
    paid,      \* Core Lightning has paid the invoice
    signed,    \* outcomes the destination has attested
    expired,   \* the quote's expiry has passed
    crashes,
    (* threads: the route, the method and its step, the record in hand, the answer *)
    job, meth, step, got, seen

memory == <<reserved, payout, accepted>>
world  == <<fiat, asked, paid>>
thread == <<job, meth, step, got, seen>>
vars   == <<store, memory, mode, world, signed, expired, crashes, thread>>

Nodes    == {"source", "destination"}
Outcomes == {"confirmed", "failed"}
States   == {"Created", "Quoted", "SourceReserved", "DestinationReserved",
             "SettlementConditionCreated", "PayoutRequested", "PayoutConfirmed",
             "PayoutFailed", "PayoutUnknown", "SettlementReleased", "Refunded", "Disputed"}
Record   == [state : States \union {"None"}, reserved : BOOLEAN, invoice : BOOLEAN,
             atts : SUBSET Outcomes]
NoRecord == [state |-> "None", reserved |-> FALSE, invoice |-> FALSE, atts |-> {}]

PayeeMethods == {"prepare", "payout", "reconcile"}
PayerMethods == {"begin", "attach", "own_payout", "own_reconcile", "apply", "unknown", "finish",
                 "release", "refund", "record"}
Methods      == PayeeMethods \union PayerMethods
Site(m) == IF m \in PayeeMethods THEN "destination" ELSE "source"

TypeOK ==
    /\ store \in [Nodes -> Record]
    /\ reserved \in [Nodes -> BOOLEAN]
    /\ payout \in [Nodes -> Outcomes \union {"none"}] /\ accepted \in BOOLEAN
    /\ mode \in [Nodes -> {"up", "poisoned", "down"}]
    /\ fiat \in [Nodes -> Nat] /\ asked \subseteq Nodes
    /\ paid \in BOOLEAN /\ signed \subseteq Outcomes
    /\ expired \in BOOLEAN /\ crashes \in Nat
    /\ job \in [Threads -> {"none", "create", "settle", "reconcile_peer", "local", "orphan"}]
    /\ meth \in [Threads -> Methods \union {"none"}]
    /\ step \in [Threads -> {"none", "get", "act", "put"}]
    /\ got \in [Threads -> Record]
    /\ seen \in [Threads -> Outcomes \union {"none", "rejected", "unknown"}]

Init ==
    /\ store = [n \in Nodes |-> NoRecord]
    /\ reserved = [n \in Nodes |-> FALSE]
    /\ payout = [n \in Nodes |-> "none"] /\ accepted = FALSE
    /\ mode = [n \in Nodes |-> "up"]
    /\ fiat = [n \in Nodes |-> 0] /\ asked = {}
    /\ paid = FALSE /\ signed = {} /\ expired = FALSE /\ crashes = 0
    /\ job = [t \in Threads |-> "none"]
    /\ meth = [t \in Threads |-> "none"]
    /\ step = [t \in Threads |-> "none"]
    /\ got = [t \in Threads |-> NoRecord]
    /\ seen = [t \in Threads |-> "none"]

-----------------------------------------------------------------------------
(* The state machine.                                                      *)

\* transition(from, event); `o` is the outcome an Observe, Reconcile event carries.
Transition(from, event, o, to) ==
    \/ from = "Created" /\ event = "Quote" /\ to = "Quoted"
    \/ from = "Quoted" /\ event = "ReserveSource" /\ to = "SourceReserved"
    \/ from = "SourceReserved" /\ event = "ReserveDestination" /\ to = "DestinationReserved"
    \/ from = "DestinationReserved" /\ event = "CreateSettlementCondition"
       /\ to = "SettlementConditionCreated"
    \/ from = "SettlementConditionCreated" /\ event = "RequestPayout" /\ to = "PayoutRequested"
    \/ from = "PayoutRequested" /\ event = "Observe" /\ o = "unknown" /\ to = "PayoutUnknown"
    \/ /\ \/ from = "PayoutRequested" /\ event = "Observe"
          \/ from = "PayoutUnknown" /\ event = "Reconcile"
       /\ \/ o = "confirmed" /\ to = "PayoutConfirmed"
          \/ o = "failed" /\ to = "PayoutFailed"
    \/ from = "PayoutConfirmed" /\ event = "Release" /\ to = "SettlementReleased"
    \/ from = "PayoutFailed" /\ event = "Refund" /\ to = "Refunded"
    \/ from \in {"PayoutRequested", "PayoutUnknown", "PayoutConfirmed", "PayoutFailed"}
       /\ event = "Dispute" /\ to = "Disputed"

\* Where one event leads from any of the states S: nowhere if it is illegal.
After(S, event, o) == {to \in States : \E from \in S : Transition(from, event, o, to)}

\* The three validated steps of attach_counterparty_invoice and prepare_destination.
Conditioned(s) ==
    After(After(After({s}, "ReserveSource", "none"), "ReserveDestination", "none"),
          "CreateSettlementCondition", "none")

\* A payout is requested and its answer observed, in one write of the record.
Observed(s, o) == After(After({s}, "RequestPayout", "none"), "Observe", o)

\* Mutant: any attestation counts as a confirmation.
Attested_StatusUnread(s, o) ==
    IF s = "PayoutUnknown" THEN After({s}, "Reconcile", "confirmed") ELSE Observed(s, "confirmed")

\* apply_payout_attestation: the first outcome, or the end of an unknown one.
Attested(s, o) ==
    IF s = "PayoutUnknown" THEN After({s}, "Reconcile", o) ELSE Observed(s, o)

-----------------------------------------------------------------------------
(* Threads.                                                                *)

\* The thread goes on with method m, at the node that runs it.
Goto(t, m) ==
    /\ meth' = [meth EXCEPT ![t] = m]
    /\ step' = [step EXCEPT ![t] = "get"]
    /\ got' = [got EXCEPT ![t] = NoRecord]
    /\ UNCHANGED <<job, seen>>

Call(t, j, m) ==
    /\ job[t] = "none"
    /\ job' = [job EXCEPT ![t] = j]
    /\ meth' = [meth EXCEPT ![t] = m]
    /\ step' = [step EXCEPT ![t] = "get"]
    /\ UNCHANGED <<got, seen>>

\* The call is answered, with success or with an error.
End(t) ==
    /\ job' = [job EXCEPT ![t] = "none"]
    /\ meth' = [meth EXCEPT ![t] = "none"]
    /\ step' = [step EXCEPT ![t] = "none"]
    /\ got' = [got EXCEPT ![t] = NoRecord]
    /\ seen' = [seen EXCEPT ![t] = "none"]

\* Record r is in hand, and the thread acts or writes next.
Hold(t, r, s) ==
    /\ got' = [got EXCEPT ![t] = r]
    /\ step' = [step EXCEPT ![t] = s]
    /\ UNCHANGED <<job, meth>>

\* Mutant: a change without a new attestation drops the ones recorded.
Update_DropsEvidence(r, s, o) ==
    [state |-> s, reserved |-> r.reserved, invoice |-> r.invoice,
     atts |-> IF o \in Outcomes THEN r.atts \union {o} ELSE {}]

\* The record with its new state, and attestation o if there is one.
Update(r, s, o) ==
    [state |-> s, reserved |-> r.reserved, invoice |-> r.invoice,
     atts |-> IF o \in Outcomes THEN r.atts \union {o} ELSE r.atts]

At(t, m, s) == meth[t] = m /\ step[t] = s

\* Store::get at the start of method m; `targets` are the states it may lead to.
Get(t, m, targets, nextStep) ==
    /\ At(t, m, "get") /\ mode[Site(m)] = "up"
    /\ \/ targets = {} /\ End(t)
       \/ targets # {} /\ Hold(t, store[Site(m)], nextStep) /\ UNCHANGED seen
    /\ UNCHANGED <<store, memory, mode, world, signed, expired, crashes>>

-----------------------------------------------------------------------------
(* create_settlement: begin, prepare at the peer, attach its invoice.      *)

\* The record of a fresh settlement id, quoted, is about to be written.
Begin(t) ==
    /\ job[t] = "none" /\ mode["source"] = "up"
    /\ store["source"].state = "None" /\ \A u \in Threads : job[u] # "create"
    /\ \E s \in After({"Created"}, "Quote", "none") :
        got' = [got EXCEPT ![t] = Update(NoRecord, s, "none")]
    /\ job' = [job EXCEPT ![t] = "create"]
    /\ meth' = [meth EXCEPT ![t] = "begin"]
    /\ step' = [step EXCEPT ![t] = "put"]
    /\ UNCHANGED <<store, memory, mode, world, signed, expired, crashes, seen>>

\* The adapter of node n reserves the amount, under a fresh reservation id.
ReserveFiat(n) == reserved' = [reserved EXCEPT ![n] = TRUE]

\* A known settlement, or an expired quote, is refused.
PrepareRead(t) ==
    Get(t, "prepare",
        IF store["destination"].state = "None" /\ ~expired THEN Conditioned("Quoted") ELSE {},
        "act")

\* Reserve the payout, then issue the invoice.  If that fails the reservation stays.
PrepareReserve(t) ==
    /\ At(t, "prepare", "act")
    /\ ReserveFiat("destination")
    /\ \/ End(t)
       \/ /\ \E s \in Conditioned("Quoted") :
              Hold(t, [state |-> s, reserved |-> TRUE, invoice |-> FALSE, atts |-> {}], "put")
          /\ UNCHANGED seen
    /\ UNCHANGED <<store, payout, accepted, mode, world, signed, expired, crashes>>

AttachRead(t) ==
    Get(t, "attach", IF expired THEN {} ELSE Conditioned(store["source"].state), "act")

\* Reserve the source's fiat, then accept the invoice unless its amount is wrong.
AttachAccept(t) ==
    /\ At(t, "attach", "act")
    /\ ReserveFiat("source")
    /\ \/ End(t) /\ UNCHANGED accepted
       \/ /\ \E s \in Conditioned(got[t].state) :
              Hold(t, [state |-> s, reserved |-> TRUE, invoice |-> TRUE, atts |-> got[t].atts], "put")
          /\ accepted' = TRUE /\ UNCHANGED seen
    /\ UNCHANGED <<store, payout, mode, world, signed, expired, crashes>>

-----------------------------------------------------------------------------
(* The payout: at the destination, or on the source's own rail.            *)

RequestPayoutRead(t) ==
    \E m \in {"payout", "own_payout"} :
        LET r == store[Site(m)] IN
        Get(t, m, IF r.reserved THEN After({r.state}, "RequestPayout", "none") ELSE {}, "act")

\* The adapter of node n pays and remembers outcome o, or refuses to pay, or says again
\* what it remembers.
Pays(n, o) == payout' = [payout EXCEPT ![n] = o] /\ fiat' = [fiat EXCEPT ![n] = @ + 1]
Refuses(n) == payout' = [payout EXCEPT ![n] = "failed"] /\ UNCHANGED fiat
Replays    == UNCHANGED <<payout, fiat>>

\* Mutant: the adapter does not look its idempotency key up.
InitiatePayout_NoKey(n, answer) ==
    \/ answer = "rejected" /\ Refuses(n)
    \/ answer \in {"confirmed", "unknown"} /\ Pays(n, "confirmed")

\* Mutant: the adapter remembers that it timed out, not what it did.
InitiatePayout_RemembersTimeout(n, answer) ==
    \/ payout[n] # "none" /\ answer = payout[n] /\ Replays
    \/ payout[n] = "none" /\ answer = "rejected" /\ Refuses(n)
    \/ payout[n] = "none" /\ answer \in {"confirmed", "unknown"} /\ Pays(n, answer)

\* Mutant: a timeout is remembered as a failure.
InitiatePayout_TimeoutFails(n, answer) ==
    \/ payout[n] # "none" /\ answer = payout[n] /\ Replays
    \/ payout[n] = "none" /\ answer = "rejected" /\ Refuses(n)
    \/ payout[n] = "none" /\ answer = "confirmed" /\ Pays(n, "confirmed")
    \/ payout[n] = "none" /\ answer = "unknown" /\ Pays(n, "failed")

\* The adapter pays once per key and replays what it remembers; a timeout hides a
\* payout that was made.
InitiatePayout(n, answer) ==
    \/ payout[n] # "none" /\ answer = payout[n] /\ Replays
    \/ payout[n] = "none" /\ answer = "rejected" /\ Refuses(n)
    \/ payout[n] = "none" /\ answer \in {"confirmed", "unknown"} /\ Pays(n, "confirmed")

RequestPayoutAsk(t) ==
    /\ At(t, "payout", "act") \/ At(t, "own_payout", "act")
    /\ LET n == Site(meth[t]) IN
       \/ ~reserved[n] /\ End(t) /\ UNCHANGED <<payout, fiat, asked>>
       \/ /\ reserved[n] /\ asked' = asked \union {n}
          /\ \E answer \in Outcomes \union {"rejected", "unknown"} :
              /\ InitiatePayout(n, answer)
              /\ seen' = [seen EXCEPT ![t] = answer]
              /\ \E s \in Observed(got[t].state, IF answer = "rejected" THEN "failed" ELSE answer) :
                    Hold(t, Update(got[t], s, "none"), "put")
    /\ UNCHANGED <<store, reserved, accepted, mode, paid, signed, expired, crashes>>

ReconcileRead(t) ==
    \E m \in {"reconcile", "own_reconcile"} :
        Get(t, m, IF store[Site(m)].state = "PayoutUnknown" THEN Outcomes ELSE {}, "act")

\* What the adapter of node n can say about the payout key: an outcome, or nothing.
QueryPayout(n) == {payout[n]} \ {"none"}

\* Without an answer the payout is still unknown, and 202 is returned.
ReconcileAsk(t) ==
    /\ At(t, "reconcile", "act") \/ At(t, "own_reconcile", "act")
    /\ LET answers == QueryPayout(Site(meth[t])) IN
       \/ answers = {} /\ End(t)
       \/ \E o \in answers : \E s \in After({got[t].state}, "Reconcile", o) :
            /\ Hold(t, Update(got[t], s, "none"), "put")
            /\ seen' = [seen EXCEPT ![t] = o]
    /\ UNCHANGED <<store, memory, mode, world, signed, expired, crashes>>

-----------------------------------------------------------------------------
(* The answer at the source: evidence, release, refund.                    *)

\* verify: the attestation of outcome o carries the destination's signature.
Verified(o) == o \in signed

\* The attestation in hand is put into the record, together with its effect.
ApplyRead(t) ==
    /\ At(t, "apply", "get") /\ mode["source"] = "up"
    /\ LET r == store["source"]
           targets == IF Verified(seen[t]) THEN Attested(r.state, seen[t]) ELSE {} IN
        \/ targets = {} /\ End(t)
        \/ \E s \in targets :
            Hold(t, Update(r, s, seen[t]), "put") /\ UNCHANGED seen
    /\ UNCHANGED <<store, memory, mode, world, signed, expired, crashes>>

\* mark_payout_unknown after a 202.
MarkUnknownRead(t) ==
    /\ At(t, "unknown", "get") /\ mode["source"] = "up"
    /\ LET r == store["source"] IN
        \/ Observed(r.state, "unknown") = {} /\ End(t)
        \/ \E s \in Observed(r.state, "unknown") :
            Hold(t, Update(r, s, "none"), "put") /\ UNCHANGED seen
    /\ UNCHANGED <<store, memory, mode, world, signed, expired, crashes>>

\* What settle and reconcile_peer_payout do next, by the state they find.
Settled(s) ==
    IF s = "PayoutConfirmed" THEN "release" ELSE IF s = "PayoutFailed" THEN "refund" ELSE "none"

\* The handler looks at the state, and the method it calls reads the record.
FinishRead(t) ==
    /\ At(t, "finish", "get") /\ mode["source"] = "up"
    /\ LET m == Settled(store["source"].state) IN
        \/ m = "none" /\ End(t)
        \/ /\ m # "none"
           /\ meth' = [meth EXCEPT ![t] = m]
           /\ step' = [step EXCEPT ![t] = "act"]
           /\ got' = [got EXCEPT ![t] = store["source"]]
           /\ UNCHANGED <<job, seen>>
    /\ UNCHANGED <<store, memory, mode, world, signed, expired, crashes>>

ReleaseRead(t) == Get(t, "release", After({store["source"].state}, "Release", "none"), "act")

RefundRead(t) == Get(t, "refund", After({store["source"].state}, "Refund", "none"), "act")

\* The call of `pay`: Core Lightning pays, or has paid already, and answers; or the
\* call ends in an error, with the invoice paid or not.
CallPay(answered) == (paid' = TRUE) \/ (~answered /\ UNCHANGED paid)

\* The accepted invoice is paid, and dropped once the payment is certain.
ReleasePay(t) ==
    /\ At(t, "release", "act")
    /\ \/ ~accepted /\ End(t) /\ UNCHANGED <<accepted, paid>>
       \/ /\ accepted /\ CallPay(TRUE) /\ accepted' = FALSE
          /\ \E s \in After({got[t].state}, "Release", "none") : Hold(t, Update(got[t], s, "none"), "put")
          /\ UNCHANGED seen
       \/ accepted /\ CallPay(FALSE) /\ End(t) /\ UNCHANGED accepted
    /\ UNCHANGED <<store, reserved, payout, mode, fiat, asked, signed, expired, crashes>>

RefundDiscard(t) ==
    /\ At(t, "refund", "act")
    /\ accepted' = FALSE
    /\ \E s \in After({got[t].state}, "Refund", "none") : Hold(t, Update(got[t], s, "none"), "put")
    /\ UNCHANGED <<store, reserved, payout, mode, world, signed, expired, crashes, seen>>

\* record_payout_attestation: contradicting evidence disputes the settlement, if its
\* state allows; otherwise the attestation is kept and the state left alone.
RecordRead(t) ==
    /\ At(t, "record", "get") /\ mode["source"] = "up"
    /\ LET r == store["source"] IN
        \E o \in Outcomes :
          /\ Verified(o)
          /\ LET targets == IF r.atts \subseteq {o} THEN {r.state}
                           ELSE After({r.state}, "Dispute", "none") IN
            \/ (r.state = "None" \/ targets = {}) /\ End(t)
            \/ \E s \in targets \ {"None"} : Hold(t, Update(r, s, o), "put") /\ UNCHANGED seen
    /\ UNCHANGED <<store, memory, mode, world, signed, expired, crashes>>

-----------------------------------------------------------------------------
(* Store::put ends a method; then the handler goes on.                     *)

\* The answer of a peer call is signed unless it is a refusal or a 202.
Answers(t) == /\ meth[t] \in {"payout", "reconcile"}
              /\ job[t] \in {"settle", "reconcile_peer", "orphan"} /\ seen[t] \in Outcomes

\* What the handler does after its method has written the record.
Following(t) ==
    CASE meth[t] = "begin" -> "prepare"
      [] meth[t] = "prepare" /\ job[t] = "create" -> "attach"
      [] Answers(t) /\ job[t] # "orphan" -> "apply"
      [] meth[t] = "payout" /\ job[t] = "settle" /\ seen[t] = "unknown" -> "unknown"
      [] meth[t] = "apply" -> "finish"
      [] OTHER -> "none"

\* sign_payout_attestation: the destination's signature exists from now on.
Sign(outcomes) == signed' = signed \union outcomes

Put(t) ==
    LET n == Site(meth[t]) IN
    /\ step[t] = "put" /\ mode[n] = "up"
    /\ store' = [store EXCEPT ![n] = got[t]]
    /\ Sign(IF Answers(t) THEN {seen[t]} ELSE {})
    /\ \/ Following(t) = "none" /\ End(t)
       \/ Following(t) # "none" /\ Goto(t, Following(t))
    /\ UNCHANGED <<memory, mode, world, expired, crashes>>

\* The save fails, before or after the new file is in place: the record is rolled
\* back in memory and the panic poisons the store until the process is restarted.
PutFails(t) ==
    LET n == Site(meth[t]) IN
    /\ step[t] = "put" /\ mode[n] = "up" /\ crashes < MaxCrashes
    /\ store' \in {store, [store EXCEPT ![n] = got[t]]}
    /\ mode' = [mode EXCEPT ![n] = "poisoned"] /\ crashes' = crashes + 1
    /\ End(t)
    /\ UNCHANGED <<memory, world, signed, expired>>

\* Every later read or write of a poisoned store panics, and with it its thread.
Panic(t) ==
    /\ step[t] \in {"get", "put"} /\ mode[Site(meth[t])] = "poisoned"
    /\ End(t)
    /\ UNCHANGED <<store, memory, mode, world, signed, expired, crashes>>

\* The request to the peer, or its answer, is lost; or the caller is gone when the
\* answer comes.  Methods have no await and are not interrupted.
Lost(t) ==
    /\ step[t] = "get" /\ meth[t] # "finish"
    /\ End(t)
    /\ UNCHANGED <<store, memory, mode, world, signed, expired, crashes>>

-----------------------------------------------------------------------------
(* Providers, clocks, crashes.                                             *)

\* The destination's provider asks its own node to pay out or to reconcile.
AskDestination(t) == \E m \in Routes \intersect {"payout", "reconcile"} : Call(t, "local", m)

\* The source's provider asks its node, which may ask the peer or its own rail; a peer
\* sends evidence.
AskSource(t) ==
    \/ "settle" \in Routes /\ Call(t, "settle", "payout")
    \/ "reconcile_peer" \in Routes /\ Call(t, "reconcile_peer", "reconcile")
    \/ \E m \in Routes \intersect {"own_payout", "own_reconcile", "release", "refund", "record"} :
        Call(t, "local", m)

Request(t) ==
    /\ AskDestination(t) \/ AskSource(t)
    /\ store["source"].state # "None"
    /\ UNCHANGED <<store, memory, mode, world, signed, expired, crashes>>

Expire ==
    /\ ~expired /\ expired' = TRUE
    /\ UNCHANGED <<store, memory, mode, world, signed, crashes, thread>>

\* The destination's provider signs the opposite of what its node attested: "a
\* signature does not by itself prove" a fiat event.
Contradict ==
    /\ \E o \in Outcomes : signed = {o} /\ Sign(Outcomes)
    /\ UNCHANGED <<store, memory, mode, world, expired, crashes, thread>>

\* The process is killed: its threads and what was only in memory are gone; a call
\* it has made goes on at the peer and nobody waits for the answer.
Crash(n) ==
    LET dies(t) == job[t] # "none" /\ Site(meth[t]) = n IN
    /\ \/ mode[n] = "poisoned" /\ UNCHANGED crashes
       \/ mode[n] = "up" /\ crashes < MaxCrashes /\ crashes' = crashes + 1
    /\ mode' = [mode EXCEPT ![n] = "down"]
    /\ reserved' = [reserved EXCEPT ![n] = FALSE]
    /\ payout' = [payout EXCEPT ![n] = "none"]
    /\ accepted' = IF n = "source" THEN FALSE ELSE accepted
    /\ job' = [t \in Threads |->
                IF dies(t) THEN "none"
                ELSE IF n = "source" /\ job[t] \in {"create", "settle", "reconcile_peer"}
                THEN "orphan" ELSE job[t]]
    /\ meth' = [t \in Threads |-> IF dies(t) THEN "none" ELSE meth[t]]
    /\ step' = [t \in Threads |-> IF dies(t) THEN "none" ELSE step[t]]
    /\ got' = [t \in Threads |-> IF dies(t) THEN NoRecord ELSE got[t]]
    /\ seen' = [t \in Threads |-> IF dies(t) THEN "none" ELSE seen[t]]
    /\ UNCHANGED <<store, world, signed, expired>>

\* list_pending.
Pending(r) == r.state \notin {"SettlementReleased", "Refunded"}

\* Mutant: recover leaves out settlements that are already confirmed.
Recoverable_NotConfirmed(r) ==
    /\ Pending(r) /\ r.invoice
    /\ r.state \in {"SettlementConditionCreated", "PayoutRequested", "PayoutUnknown"}

\* recover: the records whose invoice is accepted again.
Recoverable(r) ==
    /\ Pending(r) /\ r.invoice
    /\ r.state \in {"SettlementConditionCreated", "PayoutRequested",
                    "PayoutUnknown", "PayoutConfirmed"}

Restart(n) ==
    /\ mode[n] = "down"
    /\ mode' = [mode EXCEPT ![n] = "up"]
    /\ accepted' = IF n = "source" THEN Recoverable(store["source"]) ELSE accepted
    /\ UNCHANGED <<store, reserved, payout, world, signed, expired, crashes, thread>>

-----------------------------------------------------------------------------

CreateStep(t)  == \/ Begin(t) \/ PrepareRead(t) \/ PrepareReserve(t)
                  \/ AttachRead(t) \/ AttachAccept(t)
PayoutStep(t)  == \/ RequestPayoutRead(t) \/ RequestPayoutAsk(t)
                  \/ ReconcileRead(t) \/ ReconcileAsk(t)
ReleaseStep(t) == \/ ApplyRead(t) \/ MarkUnknownRead(t) \/ FinishRead(t) \/ ReleaseRead(t)
                  \/ RefundRead(t) \/ ReleasePay(t) \/ RefundDiscard(t) \/ RecordRead(t)
StoreStep(t)   == Put(t) \/ PutFails(t) \/ Panic(t) \/ Lost(t)

Next == \/ \E t \in Threads : \/ Request(t) \/ CreateStep(t) \/ PayoutStep(t)
                              \/ ReleaseStep(t) \/ StoreStep(t)
        \/ Expire \/ Contradict
        \/ \E n \in Nodes : Crash(n) \/ Restart(n)

Spec == Init /\ [][Next]_vars

-----------------------------------------------------------------------------
(* Properties.                                                             *)

\* "Instead of paying out twice": however payout requests race, time out, are
\* retried or meet a crash of either node, no rail pays the beneficiary twice.
PaidOutOnce == \A n \in Nodes : fiat[n] <= 1

\* "Release the already-recorded Lightning invoice only on confirmation": the source
\* pays Lightning only if fiat really went out, at the destination or, if somebody
\* called the source's own payout route, there; also when the destination's provider
\* has signed that it failed.
ReleaseAfterPayout ==
    paid => fiat["destination"] = 1 \/ ("source" \in asked /\ fiat["source"] = 1)

\* A refunded settlement was paid on neither side, unless both rails were asked to pay:
\* the beneficiary got nothing and no Lightning was sent, before or later.
RefundedMeansUnpaid ==
    store["source"].state = "Refunded" /\ asked # Nodes
        => ~paid /\ \A n \in Nodes : fiat[n] = 0

\* A confirmed settlement is not cut off from its invoice, unless both rails were asked
\* to pay: the invoice is at hand for release, or it is paid already, or the process is
\* down and recover will bring it back.
ConfirmedIsReleasable ==
    mode["source"] = "up" /\ store["source"].state = "PayoutConfirmed" /\ asked # Nodes
        => accepted \/ paid

\* Evidence survives the races of two handlers on one record: whatever the source
\* concluded about the payout rests on an attestation that is in the record, or on what
\* its own rail did.
ConclusionHasEvidence ==
    LET r == store["source"] IN
    /\ r.state \in {"PayoutConfirmed", "SettlementReleased"} =>
        "confirmed" \in r.atts \/ fiat["source"] = 1
    /\ r.state \in {"PayoutFailed", "Refunded"} =>
        "failed" \in r.atts \/ ("source" \in asked /\ fiat["source"] = 0)

=============================================================================
