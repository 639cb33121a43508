# Safrod in TLA+

Safrod is a self-hosted Bitcoin and Lightning payment backend: a Rust daemon
with an HTTP API, a PostgreSQL database, an embedded LDK node and a few
background tasks. Beside it the repository keeps an older settlement prototype.
This directory models their payment protocols in TLA+, checks them with TLC and
proves their safety properties with TLAPS. Paths below are relative to the
repository, which the JSON index (`PROJECT.json`) calls `src/`.

## The system

| Part | State | Operations | Talks to |
| --- | --- | --- | --- |
| Outgoing payments: `safrod-api/src/engine.rs`, `safrod-storage/src/payments.rs` | `outgoing_payments` row per idempotency key, its events, dedupe keys in `node_events` | send, reconcile (API and startup), apply a node event | node, outbox |
| Incoming payments: `routes/lightning.rs`, `safrod-storage/src/invoices.rs` | `invoices` row per payment hash | create, mark paid, expire | node, outbox |
| Webhooks: `safrod-storage/src/webhooks.rs`, `safrod-webhooks/src/deliver.rs` | endpoints, one delivery per event and enabled endpoint | create, disable, emit, claim, attempt, record, replay | receivers |
| Events: `safrod-storage/src/events.rs` | ordered `events` table | emit in the caller's transaction, poll by `seq` | webhooks |
| Node adapter: `safrod-lightning` | the node's payment store and its queue of unacknowledged events | issue invoice, send, look up, next event, acknowledge | daemon |
| On-chain deposits: `safrod-bitcoin`, `safrod-storage/src/onchain.rs` | addresses, transactions with confirmations | create address, scan, record observation | Bitcoin Core, outbox |
| Sandbox: `safrod-sandbox`, `safrod-storage/src/sandbox.rs`, `routes/sandbox.rs` | quotes, payouts, simulated balances | quote, reserve, advance, reconcile, attach payment | payment engine, outbox |
| Daemon: `crates/safrod` | none durable | startup reconciliation, event pump, expiry sweep, worker, watcher, shutdown | all |
| Projects and keys, URL guard, signatures, JSON, configuration | rows and pure functions | lookup, check, format | API |
| `legacy/settlement` | settlement records in a file, two nodes | begin, attach invoice, payout, attest, release, refund, recover | a peer, Core Lightning |
| Dashboard, example merchant | none | user interface, sample client | API |

What is hard here:

- every HTTP handler is a task that runs between its database transactions and
  its calls to the node, and is dropped where it stands when the client goes;
- the node repeats an event until it is acknowledged, and the pump acknowledges
  after the commit, so each event may be applied again;
- four actors move one payment row: the handler, the pump, an API
  reconciliation and startup reconciliation, each on what it read earlier;
- a crash may fall between any two of these steps;
- deliveries are leased for a time that the work may outlast;
- the deposit watcher combines snapshots of Bitcoin Core taken at different
  times, while blocks come and go;
- in the prototype two nodes, two rails and two files have to agree, and a
  method reads a record, acts, and writes it back without a lock in between.

Correct means: a key pays at most once; what the ledger calls succeeded or
failed is what the node did; nothing final changes; each change is announced
once; nothing waits for ever on one bad event, dead worker or lost answer;
simulated money is neither made nor lost; a deposit's count is the chain's; no
rail pays a settlement twice, and Lightning is paid only against fiat.

## Modules

| Module | Models |
| --- | --- |
| `PaymentLifecycle` | what the engine promises for each idempotency key, abstractly |
| `PaymentEngine` | outgoing payments, pump, reconciliation, startup, crashes; implements `PaymentLifecycle` |
| `MCPaymentEngine` | its instances for TLC |
| `PaymentEngineProofs`, `PaymentEngineOutcomes`, `PaymentEngineRefinement` | its theorems |
| `InvoiceReceipt`, `InvoiceReceiptProofs` | invoices, the pump's `PaymentReceived` branch, the expiry sweep, crashes |
| `WebhookDelivery`, `WebhookDeliveryProofs` | endpoints, the outbox, delivery workers, replay |
| `SandboxPayout`, `MCSandboxPayout`, `SandboxPayoutProofs` | quotes, balances, payouts and their payments, on top of `PaymentLifecycle` |
| `DepositWatcher`, `MCDepositWatcher`, `DepositWatcherProofs` | addresses, passes of the watcher, observations, the chain |
| `Settlement`, `MCSettlement`, `SettlementProofs` | one settlement of the legacy prototype, both nodes |

A database transaction is one step: the row is locked `for update`, so nothing
interleaves inside it, and it survives a crash or leaves no trace. A call to
the node is one step. Whatever lies between two of those is a program counter
of a handler. Definitions whose name carries a suffix after an underscore, as
`Verdict_MissingIsFailed`, are deliberate faults: each shows that a property
would notice that bug. They are not part of any specification.

### PaymentEngine

`status`, `bolt11`, `reason`, `born`, `emitted` are the columns of a row and its
events, by idempotency key; `claimed` is `node_events`. `node` is what
`LightningBackend::payment` would answer for an invoice, `queue` the node's
events. `pc` follows `send_payment` (`BeginPayment`, `MarkPending`,
`DispatchAccepted` or `DispatchRefused`, `RecordRefusal`); `Abandon` is a
dropped handler or a database error, and a dispatch that `spawn_blocking` has
taken over still runs (`detached`). The pump is `PumpFind`, `PumpApply`,
`PumpAck`, with `PumpRetry` for a transient error and `PumpAckFails` for the
acknowledgement error the pump ignores. `ReconcileRead` takes the snapshot of
the API handler, `StartupNext` that of `reconcile_all`; both go on with
`ReconcileAsk`, `ReconcilePass`, `ReconcileApply`. Startup runs before traffic
and before the pump, and `StartupAborts` is its first error, after which the
daemon serves anyway. Amounts, fees, preimages and metadata are left out: the
stored request hash is the pair of key and invoice. `asked` and `resolvedBy` are
history.

The node is external. It accepts an invoice it does not know or has failed,
refuses anything else before an HTLC leaves (and may then keep a failed record),
settles what is in flight once, and queues an event for it.

### PaymentLifecycle, and what is built on it

`PaymentLifecycle` has per key a status, the announced statuses and the callers
that handed the payment to the node. Its steps are `Create`, `Submit`, `Ask`,
`Refuse`, `Lose` and `Resolve`; one `Ask` per key is possible, and only after
`Submit`. `ImplementsLifecycle` says that `PaymentEngine` implements it, with
`Askers`, the requests that have asked for a key, as the mapped variable: a
transaction of the handler, of the pump or of a reconciliation is one abstract
step or none, crashes and restarts are none. `SandboxPayout` then uses the
abstract module in place of the engine, so its instance stays small while every
interleaving of the engine that a payout can observe is there.

### SandboxPayout

A key names a payout, its quote, scenario and invoice. `ReserveLookup` and
`ReservePayout` are the two halves of `reserve_payout`, since the key is looked
up before any lock is taken; the second half runs under the locks of the quote
and of the balance. `StartPayout` and `FinishPayout` are the two calls of
`advance_payout`; `ReconcileRead` takes the snapshot of `reconcile_payout` and
goes on with `FinishPayout`. `SendPayment`, `MarkPending`, `AskNode`,
`RecordRefusal` are `send_payment` under the key `sandbox-payout:<id>`, and
`LinkPayment` is `attach_payment_to_payout`. `EngineStep` is everybody else who
moves that payment. `Abandon` drops a handler or lets a call fail; `cutShort`
remembers the payouts that met with it. One currency, because balances are rows
by currency. An API client that uses a key of the form `sandbox-payout:<id>`
itself is left out. So is the unique index on `sandbox_payouts.quote_id`, a second
line of defence behind the status of the quote: the model is the weaker for it.

Read off the model, and not a property of it: two requests with one key that
race are answered once with the payout and once with a conflict, where
`docs/api.md` promises the stored resource; the invoice is not compared when a
key is reused; and a payout whose handler was dropped while it was `reserved` or
`pending` keeps its balance for good, since only `unknown` can be reconciled.

### DepositWatcher

`count` and `status` are the columns of `onchain_transactions`, `told` the kinds
and counts of its events. `ReadAddresses`, `ScanAddresses`, `RecordConfirmed`,
`ListMempool`, `FetchOutputs`, `RecordUnconfirmed` are the steps of `scan_once`;
`PassFails` is an error of Bitcoin Core or of the database, or a crash, at any of
them. The chain is external: `Broadcast`, `MineBlock`, `DisconnectBlock`,
`Spend`. `shaken` is history: the deposits that have not been recorded as they
are since a block was disconnected. Outputs carry a positive amount; one of zero
satoshi would be refused by the table and end each pass that reaches it. A
deposit that was spent, or whose transaction is gone, keeps its last count, as
`docs/threat-model.md` says, so `EventuallyAccurate` speaks of deposits that stay.

### Settlement

A thread is an HTTP call and the call to the peer it makes. `meth` and `step`
say which method of `Node` it is in and whether it reads, acts or writes; `got`
is the record in its hands, so `Put` may write a stale one. `store` is the file
of each node, `reserved`, `payout` and `accepted` what the adapters hold in
memory. `PutFails` rolls back and poisons the store as the panic in
`FileSettlementStore::put` does; the new file may be in place or not. A lost
answer ends a thread between two methods, a crash of the source leaves the call
it made running at the peer (`orphan`). `Contradict` lets the destination's
provider sign the opposite of what its node answered; such evidence comes in
through `record_payout_attestation`, which the code answers with `Disputed`. No
property about money excludes it. What is left out is a destination whose node
answers a payout call with an outcome that its rail did not have.

The router serves every route on both nodes, without authentication. The source's
own `/settlements/:id/payout` and `/reconcile`, or the same under `/peer/`, are
`own_payout` and `own_reconcile`: they ask the source's rail, with the reservation
the source made for itself, and decide its record without the destination. The
repository's tests of `Node` take that path (`successful_settlement_reaches_released`,
`rejected_payout_can_be_refunded`). After it the source can release although the
destination has paid and signed nothing, which the comment on `prepare_destination`
(`node.rs:242`) rules out; `ReleaseAfterPayout` and `ConclusionHasEvidence` name the
case. So there are two rails, `fiat[n]` and `payout[n]`
by node, and `asked` is history: the nodes whose rail was asked to pay. Two
properties exempt a settlement for which both rails were asked, since the source's
record then ends with one of two answers. An attestation signed by the source is
none by the peer and is refused. Not modelled are the payer's routes at the
destination: it holds no accepted invoice, so its `/release` fails; its `/refund`,
`/settle`, `/reconcile-peer` and attestations change its own record, from which it
can then pay less, not more, and what its `/settle` asks of the source is
`own_payout`.

Read off the model: a rejected payout is
answered with 400, so the source stays at `SettlementConditionCreated`; if the
answer to a payout is lost, the source cannot learn the outcome, since a second
`request_payout` is refused by the state machine before the adapter could replay
it, although the comment at `node.rs:297` says it replays; a stale write can move
a final state back, but not the money.

### InvoiceReceipt

An invoice is its payment hash, fresh at the node. `FindInvoice`, `NodeIssue`,
`InsertInvoice`, `ReturnWinner` are the four awaits of `create_invoice`; the key
is optional. `MarkInvoicePaid` is the transaction of `mark_invoice_paid` with
the pump's classification of its error: an unknown hash and an expired invoice
are permanent, so the event is acknowledged without effect. `past` are the
invoices whose `expires_at` is over; `ExpireInvoices` is the sweep. The node may
receive a payment after that time, since an HTLC can be under way, and payments
of hashes no invoice has.

### WebhookDelivery

`next_attempt_at` is the time left until it (`wait`), counted in ticks of one
`request_timeout`. A worker spends at most one tick on each delivery of its
batch: `Tick` waits for it. A lease ends after `Lease` ticks, that is after
more than `Lease - 1` timeouts. `Claim` picks up to `BatchLimit` due deliveries,
leases them and copies `attempts`; `Attempt` sends the oldest event; `Record` is
`record_delivery`, which has no condition on the row; `PassDies` is a crash or
the database error that ends `deliver_due`, and leaves the batch to its lease.
`lapsed` and `doubled` are history: the deliveries whose lease ran out in a
worker's hands, and those claimed while another worker still had them. `attempts`
is the column, the attempts that were recorded. A request whose pass dies before
`record_delivery` is in no row, so an endpoint may see more requests than the "up
to 8 attempts" of `docs/api.md`; delivery is at least once there.
Name resolution, which has no timeout in the code, is taken to fit in the tick.

## Runs

| Run | Result | Distinct states |
| --- | --- | --- |
| `payments` | nine properties hold, one of them the refinement | 874,828 |
| `payments_live` | both liveness properties hold | 586,856 |
| `receipt` | seven properties hold | 543,272 |
| `webhooks` | six properties hold | 120,822 |
| `settlement` | six properties hold | 2,613,992 |
| `sandbox` | six properties hold | 761,436 |
| `deposits` | four properties hold | 205,526 |
| `stale_reconcile`, `redelivery`, `late_payment`, `key_reuse`, `lease` | a counterexample each | |

**payments.** Three requests, two keys, two invoices, one of which is submitted
under both keys, one API reconciliation at a time, one crash. Three requests let
a retry arrive while two others race; one crash cuts every step and startup runs
over every kind of leftover row. Requests are interchangeable (symmetry).
`AskedOncePerKey`, `SucceededMeansPaid`, `FailedMeansNotPaid`,
`OutboxMatchesLedger`, `ClaimMeansApplied`, `FinalIsForever`,
`StartupLeavesNoOrphan`, `ImplementsLifecycle` (which contains that `pending` is
durable before the node is asked).

**payments_live.** Two requests, no symmetry. `AcceptedPaymentResolves` and
`EventsAreConsumed`.

**receipt.** Three requests on one key or none with two parameter sets, two
hashes, one crash: enough for two requests to race and a third to retry, or for
a foreign payment to stand before an invoice's.

**webhooks.** Two workers, two events for one endpoint, batches of two under a
lease of two ticks, two attempts one tick apart, one replay. As with the default configuration the
batch need not fit in its lease, so the second delivery of a batch can lose it and
be taken by the other worker. `OneSenderPerDelivery` says that this, and a replay,
are the only ways for two workers to have one delivery in hand;
`RecordedAttemptsBounded` and `DeliveredStays` exempt what two workers did have in
hand; `GivesUpOnlyWhenExhausted` and `EveryDeliveryEnds` exempt nothing.

**settlement.** Two threads, every route, one crash or failed save. Two threads
let each method overtake another between its read and its write; one of them may
belong to a source that has crashed. Threads are interchangeable (symmetry).
`PaidOutOnce`, `ReleaseAfterPayout`, `RefundedMeansUnpaid`,
`ConfirmedIsReleasable`, `ConclusionHasEvidence`.

**sandbox.** Two handlers, two keys, two quotes that together exceed one credit,
six orders with every scenario, with and without an invoice, and with a key
reused for another quote and another scenario. Two handlers are the races on a
quote, a key, the balance and the verdict. Handlers are interchangeable
(symmetry). `Conservation`, `QuoteSpentOnce`, `PaymentOnlyAfterPayout`,
`OutboxMatchesPayout`, `FinishedUnlessCutShort`.

**deposits.** Two deposits to addresses that require two and one confirmations,
three heights, one disconnected block, and a mempool limit of one so that a
deposit can lie behind it. `OutboxMatchesDeposit`, `CountFallsOnlyAfterReorg`,
`EventuallyAccurate`.

Deadlock is checked in `settlement`, `sandbox` and `deposits`, where a provider
can always ask again, a client repeat an order, and the watcher start a pass. It
is not in the other runs: the number of requests is bounded, and a server without
requests, events or due work rests.

Five runs record where the code and its documents differ.

- `stale_reconcile`: a caller of `reconcile` reads `created`; the sender then
  marks the row `pending`; the caller finds nothing at the node; the sender
  dispatches and the node takes the payment; the caller fails the row as
  `never_dispatched`. The verdict is about a status the row no longer has.
- `redelivery`: two payments of one invoice under two keys; the node fails the
  first one. Its event goes to the newest open row, the second payment, which is
  still `created`; the acknowledgement fails, and the repeated event settles the
  first one as well, under a dedupe key of its own.
- `late_payment`: the node has received the money, the sweep expires the invoice
  before the pump gets to the event, and the event is dropped.
- `key_reuse`: two concurrent creations with one key and different parameters;
  the loser is answered with an invoice it did not ask for.
- `lease`: the third delivery of a batch is still unsent when its lease ends, and
  a second worker takes it (`NeverSentTwice`). The defaults (20 requests of up to 10 s, 60 s of
  lease) are in that range; one daemon alone has one worker and is not affected.

## Fairness

`PaymentEngine`: the node settles every HTLC, at the latest on chain; the
supervisor restarts the process; startup reconciliation goes on to its end or
its first error; the pump loop runs (weak fairness), and a transaction or an
acknowledgement that is retried for ever succeeds some time (strong fairness).
`InvoiceReceipt`: the same for its pump, and the sweep runs every 15 s.
`WebhookDelivery`: the clock and the workers run (weak); a delivery that is due
again and again is claimed, sent and recorded some time (strong), since claims
are ordered by `next_attempt_at` and not every pass dies at the same place.
`DepositWatcher`: `run` starts one pass after the other (weak), and scanning the
UTXO set and writing a given deposit do not fail every time (strong). Nothing is
assumed of the rest of a pass. `SandboxPayout` and `Settlement` state no
liveness: nothing in the code finishes a payout or a settlement by itself.
Clients, payers, receivers, reconcilers and crashes are not assumed to do
anything.

## Proofs

Every safety invariant, every action property and the refinement that the runs
check on small instances is also a theorem, for any sets of keys, invoices,
requests, handlers, workers, threads, deposits and so on, and any number of
crashes. Eight modules, 202 lemmas, 35 theorems, about 7,600 obligations.

| Module | Theorem | States, of `Spec` |
| --- | --- | --- |
| `PaymentEngineProofs` | `TypeCorrect` | `[]TypeOK` |
| | `FinalStays` | `FinalIsForever` |
| | `OutboxComplete` | `[]OutboxMatchesLedger` |
| | `Idempotent` | `[](AskedOncePerKey /\ PendingBeforeAsked)` |
| | `SuccessIsReal` | `[]SucceededMeansPaid` |
| `PaymentEngineOutcomes` | `ClaimsAreApplied` | `[]ClaimMeansApplied` |
| | `FailureIsReal` | `[]FailedMeansNotPaid` |
| | `RecoveryIsComplete` | `StartupLeavesNoOrphan` |
| `PaymentEngineRefinement` | `Refinement` | `ImplementsLifecycle` |
| `InvoiceReceiptProofs` | `TypeCorrect` | `[]TypeOK` |
| | `KeyNamesOneInvoice` | `[]SameKeySameInvoice` |
| | `PaymentIsReal` | `[]PaidMeansReceived` |
| | `OutboxComplete` | `[]OutboxMatchesInvoice` |
| | `ClaimsAreApplied` | `[]ClaimMeansPaid` |
| | `FinalStays` | `FinalIsForever` |
| `WebhookDeliveryProofs` | `TypeCorrect` | `[]TypeOK` |
| | `NeverGivesUpEarly` | `[]GivesUpOnlyWhenExhausted` |
| | `OneSender` | `[]OneSenderPerDelivery` |
| | `AttemptsAreBounded` | `[]RecordedAttemptsBounded` |
| | `DeliveredIsKept` | `DeliveredStays` |
| `SandboxPayoutProofs` | `TypeCorrect` | `[]TypeOK` |
| | `MoneyIsConserved` | `[]Conservation` |
| | `QuotesAreSpentOnce` | `[]QuoteSpentOnce` |
| | `PaymentFollowsPayout` | `[]PaymentOnlyAfterPayout` |
| | `OutboxComplete` | `[]OutboxMatchesPayout` |
| | `NothingStrands` | `[]FinishedUnlessCutShort` |
| `DepositWatcherProofs` | `TypeCorrect` | `[]TypeOK` |
| | `OutboxComplete` | `[]OutboxMatchesDeposit` |
| | `CountsRise` | `CountFallsOnlyAfterReorg` |
| `SettlementProofs` | `TypeCorrect` | `[]TypeOK` |
| | `PaysOnce` | `[]PaidOutOnce` |
| | `ReleaseIsEarned` | `[]ReleaseAfterPayout` |
| | `RefundIsSafe` | `[]RefundedMeansUnpaid` |
| | `ConfirmedCanBeReleased` | `[]ConfirmedIsReleasable` |
| | `ConclusionIsEvident` | `[]ConclusionHasEvidence` |

The assumptions are the ones the component modules state and TLC evaluates in
every run: bounds are natural numbers, `None` is no member of the sets it stands
beside, amounts and required confirmations are positive, a body is a key and an
invoice. No theorem has a hypothesis of its own. The conjuncts of each inductive
invariant were checked with TLC on the instance of the component's run before
they were proved.

### Outgoing payments

`TypeInv` adds to `TypeOK` that a pump past its first step has an event at the
head of the queue and a row in hand (`PumpBusy`). Lemma `TransitionRow` says what
the ledger transaction can do to a row and `RowSteps` that nothing else changes
one; finality and the outbox follow from those two. `OwnerInv` says that the
request between `begin_payment` and the end of `send_payment` is the only one of
its key that ever gets there, and that a request that reached the node left its
row past `created`; idempotency follows, and it is not inductive without the
ownership part. `PaidInv` carries the truth of a success through everything on
its way to the ledger: an event in the queue, the target of the pump, a verdict
in a reconciler's hands, and the rows startup has yet to read. A node record of
success never changes (`NodeKeepsPaid`), so each stays true while it waits.

A failure is harder than a success, because the node may take an invoice again
after it has failed it. `FailInv` therefore says, for an invoice used under one
key, that the node knows of it only from the call that asked under that key
(`NodeAsked`), and that behind every failure on its way to the ledger or in it
the node has been asked and has nothing in flight (`RefusedStopped`,
`QueueFailed`, `ReconFailed`, `FailedStopped`). A call that has asked is over
(`AskedIsOver`) and it was the only one, so nobody asks again. The premise of
`FailedMeansNotPaid` is needed: the runs `stale_reconcile` and `redelivery` are
what happens without it. `RecoveryInv` says that, from a restart on, a row that
looks dispatched and is unknown to the node is still to be read by the startup
pass or in its hands; nobody makes new ones, since the pass runs before traffic.

The refinement maps `askers` to the calls that reached the node. A transaction
of the ledger is `Resolve`, `Submit`, `Refuse` or `Lose` (`TransitionSimulated`),
a dispatch is `Ask`, and its guard, that nobody has asked, is `OwnerInv` again;
all other steps leave the three mapped variables alone (`Unseen`).

### Incoming payments

One key names one invoice because of the unique index, which `InsertInvoice`
respects (`UniqueKey`), and because an answer is a stored row with the key of
its request (`AnswerInv`); the invoice in a handler's hands is nobody else's and
in no row yet (`HandlerInv`), so an insert overwrites nothing. `QueueInv` says
that an event at the head that is about to be acknowledged has no open invoice
left, so an acknowledgement drops no payment of an open invoice; that it may drop
one of an expired invoice is what `late_payment` shows.

### Webhooks

`GivesUpOnlyWhenExhausted` needs only that a worker's copy of `attempts` is never
ahead of the row (`TableInv`). The rest is about who may touch a row. `LeaseInv`
says that the time left on a delivery in a worker's hands is positive until its
lease runs out there (`lapsed`), so that nobody else finds it due; a claim by a
second worker is therefore of a delivery that was replayed or has lapsed. `HoldInv`
says that a delivery that never had two holders is, from claim to record, still
pending, with the attempts its holder has read. Then the record writes the next
attempt over a pending row, which gives the bound (`AttemptInv`) and the permanence
of `delivered`. None of this assumes that a batch fits in its lease: the default
configuration, 20 requests of up to 10 s under 60 s, is covered, and what it may do
to a delivery that two workers have in hand is exempted by name.

### Sandbox

`TypeInv` contains that a handler at work has an order and a stored payout a
quote. `SendInv` keeps a handler that will send a payment on a payout that has
succeeded, which no other handler can change any more; `WorkInv` names, for each
unfinished payout that nobody cut short, a handler at the step that moves it on.
`Conservation` sums amounts over the payouts that hold money. The library's
induction over finite sets cannot be instantiated here, so `TotalIsCount` proves by
a smallest counterexample, over the well-founded order of strict inclusion, that
the sum is the number of minor units held, `Cardinality(Units(...))`; what a step
does to that set follows from the theorems on cardinality.

### Deposits

`AheadInv` says that without a disconnected block neither a row nor the pass's
snapshot is ahead of the chain, and that what the pass still has to write is not
behind the row; the two snapshots of one pass are tied by `FetchInv`. The outbox
needs `StatusInv`, that the stored status is the one the stored count gives:
`confirmed` is decided from the old status and the new count.

### Settlement

`CreateInv` says that a settlement is prepared at most once, also by a call whose
source has crashed, and that one thread at most can still reserve for it
(`Creating`). A node is `Ready` when nobody will reserve at it any more. `AdapterInv`
ties, for each node, what the rail did to what the adapter remembers: it forgets a
payout only together with the reservation without which it makes none, and pays only
at a node that is ready. `Closed` is a rail that was asked, has paid nothing and
never will. `Sound` and `Backed` say what a record is worth, and `TruthInv` that every
record and every answer is, in a file or in a thread's hands, however stale: what
they rest on, `fiat[n] = 1` and `Closed(n)`, never becomes false again (`Lasting`),
which is why a lost update can move a state back but not the money. `InvoiceInv`
keeps the invoice at hand or a rail closed. With one rail asked, a closed rail means
that nothing was paid (`ClosedMeansUnpaid`); with both asked, one may be closed and
the other have paid, which is what the two exemptions are for.

### What is only model-checked

The liveness properties, `AcceptedPaymentResolves`, `EventsAreConsumed`,
`EveryEventIsAcknowledged`, `EveryDeliveryEnds` and `EventuallyAccurate`: the
prover does not handle fairness and `ENABLED`. The five violations are
counterexamples, not theorems.

## Not modelled

- The price of a sandbox quote and the conversions of money: pure functions over
  64 and 128-bit integers, beyond the integers of TLC.
- The events cursor. `seq` is drawn before the commit, so a poller can pass over
  an event; a model would have to split the transactions that every other module
  takes as one step.
- The number of requests an endpoint sees, as opposed to the attempts recorded: a
  pass may die after each request it sends, so there is no bound to state.
- What a replay of a delivery means while the delivery is in flight: the code
  overwrites it and no document says what should happen.
- Of the prototype: signed quotes (`begin_settlement_from_quote`), which no route
  calls, `POST /peer/invoices`, which only issues an invoice, and
  `cancel_reservation`, which nothing calls.
- Authentication, URL checks, signatures, JSON, configuration, the dashboard and
  the example: no protocol state. Channel management and node balances are
  operator calls passed through to the node.

## Plan

Done, in this order: `PaymentEngine` with its proofs, `InvoiceReceipt`,
`WebhookDelivery`, `Settlement`, `PaymentLifecycle` and the refinement,
`SandboxPayout`, `DepositWatcher`, and then the proofs: the outcomes of
`PaymentEngine` and its refinement, `InvoiceReceipt`, `SandboxPayout`,
`Settlement`, `DepositWatcher`, `WebhookDelivery`. Left:

1. that the payments of `SandboxPayout` are a behaviour of `PaymentLifecycle`,
   stated and proved as a refinement of its own;
2. safety lemmas towards the liveness properties that need no fairness, such as
   that a delivery that is pending and held by nobody has a lease that ends;
3. shorter proofs of the type invariants of `SettlementProofs` and
   `SandboxPayoutProofs`, where the same frame argument is made for many steps.
