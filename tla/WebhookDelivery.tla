-------------------------- MODULE WebhookDelivery --------------------------
(***************************************************************************)
(* The webhook outbox of Safrod: endpoints, the deliveries written with    *)
(* each event, the workers that claim, send and record them, and replay.   *)
(*                                                                         *)
(* next_attempt_at is kept as the time left until it, in ticks of one      *)
(* request_timeout.  A worker takes at most one tick for each delivery of  *)
(* its batch, sending and recording it; the clock waits for it.  A worker  *)
(* is the delivery task of one daemon on the database.                     *)
(***************************************************************************)
EXTENDS Naturals, FiniteSets, FiniteSetsExt

CONSTANTS
    Endpoints,   \* webhook endpoints of one project
    Workers,     \* delivery workers
    None,        \* no delivery
    MaxEvents,   \* bound on events emitted
    MaxReplays,  \* bound on replays
    MaxAttempts, \* DeliveryConfig.max_attempts
    BatchLimit,  \* deliveries per claim (20 in deliver_due)
    Lease,       \* ticks of the clock after which DeliveryConfig.lease is over
    BaseBackoff, \* DeliveryConfig.base_backoff, in ticks
    MaxBackoff   \* DeliveryConfig.max_backoff, in ticks

ASSUME ConfigAssumption ==
    /\ {MaxEvents, MaxReplays, BaseBackoff, MaxBackoff} \subseteq Nat
    /\ {MaxAttempts, BatchLimit, Lease} \subseteq Nat \ {0}
ASSUME NoneAssumption == None \notin (1..MaxEvents) \X Endpoints

Deliveries == (1..MaxEvents) \X Endpoints    \* unique (event_seq, endpoint_id)

VARIABLES
    endpoint,   \* the webhook_endpoints table
    seq,        \* the last event emitted
    status, attempts, wait, \* the webhook_deliveries table
    held,       \* the rest of each worker's batch
    snap,       \* attempts as read when the batch was claimed
    current,    \* the delivery a worker has sent and not recorded yet
    reply,      \* what came of it
    age,        \* ticks spent on the current delivery
    replays,    \* replays so far
    replayed,   \* history: deliveries that were replayed,
    lapsed,     \* those in a worker's hands whose lease ran out there,
    doubled     \* and those claimed while another worker still held them

table  == <<status, attempts, wait>>
worker == <<held, snap, current, reply, age>>
past   == <<replayed, lapsed, doubled>>
vars   == <<endpoint, seq, table, worker, replays, past>>

TypeOK ==
    /\ endpoint \in [Endpoints -> {"absent", "enabled", "disabled"}]
    /\ seq \in 0..MaxEvents
    /\ status \in [Deliveries -> {"absent", "pending", "delivered", "failed"}]
    /\ attempts \in [Deliveries -> Nat]
    /\ wait \in [Deliveries -> Nat]
    /\ held \in [Workers -> SUBSET Deliveries]
    /\ snap \in [Workers -> [Deliveries -> Nat]]
    /\ current \in [Workers -> Deliveries \union {None}]
    /\ reply \in [Workers -> {"none", "ok", "bad"}]
    /\ age \in [Workers -> 0..1]
    /\ replays \in Nat
    /\ replayed \subseteq Deliveries
    /\ lapsed \subseteq Deliveries
    /\ doubled \subseteq Deliveries

Init ==
    /\ endpoint = [e \in Endpoints |-> "absent"]
    /\ seq = 0
    /\ status = [d \in Deliveries |-> "absent"]
    /\ attempts = [d \in Deliveries |-> 0]
    /\ wait = [d \in Deliveries |-> 0]
    /\ held = [w \in Workers |-> {}]
    /\ snap = [w \in Workers |-> [d \in Deliveries |-> 0]]
    /\ current = [w \in Workers |-> None]
    /\ reply = [w \in Workers |-> "none"]
    /\ age = [w \in Workers |-> 0]
    /\ replays = 0 /\ replayed = {} /\ lapsed = {} /\ doubled = {}

-----------------------------------------------------------------------------
(* Endpoints, events and replay: the API and the other components.         *)

CreateEndpoint(e) ==
    /\ endpoint[e] = "absent"
    /\ endpoint' = [endpoint EXCEPT ![e] = "enabled"]
    /\ UNCHANGED <<seq, table, worker, replays, past>>

DisableEndpoint(e) ==
    /\ endpoint[e] = "enabled"
    /\ endpoint' = [endpoint EXCEPT ![e] = "disabled"]
    /\ UNCHANGED <<seq, table, worker, replays, past>>

\* A state change of any component, or POST .../test, writes an event and a
\* delivery for every enabled endpoint in one transaction.
Emit ==
    /\ seq < MaxEvents
    /\ seq' = seq + 1
    /\ status' = [d \in Deliveries |->
                    IF d[1] = seq' /\ endpoint[d[2]] = "enabled" THEN "pending" ELSE status[d]]
    /\ UNCHANGED <<endpoint, attempts, wait, worker, replays, past>>

\* The delivery is due at once; the attempts already made are kept.
Replay(d) ==
    /\ status[d] # "absent" /\ replays < MaxReplays
    /\ status' = [status EXCEPT ![d] = "pending"]
    /\ wait' = [wait EXCEPT ![d] = 0]
    /\ replayed' = replayed \union {d} /\ replays' = replays + 1
    /\ UNCHANGED <<endpoint, seq, attempts, worker, lapsed, doubled>>

-----------------------------------------------------------------------------
(* A worker: claim a batch under a lease, send and record one by one.      *)

\* Mutant: the status is not tested, only the time and the endpoint.
DueDeliveries_AnyStatus ==
    {d \in Deliveries : status[d] # "absent" /\ wait[d] = 0 /\ endpoint[d[2]] = "enabled"}

\* Mutant: a delivery that has used up its attempts is passed over, replayed or not.
DueDeliveries_SkipsExhausted ==
    {d \in Deliveries : /\ status[d] = "pending" /\ wait[d] = 0
                        /\ endpoint[d[2]] = "enabled" /\ attempts[d] < MaxAttempts}

DueDeliveries ==
    {d \in Deliveries : status[d] = "pending" /\ wait[d] = 0 /\ endpoint[d[2]] = "enabled"}

\* What a claim may pick of the due deliveries: as many as the limit allows.
Batches(due) == {b \in SUBSET due : Cardinality(b) = Min({BatchLimit, Cardinality(due)})}

\* The batch b is worker w's from now on.
Take(w, b) ==
    /\ held' = [held EXCEPT ![w] = b]
    /\ snap' = [snap EXCEPT ![w] = [d \in Deliveries |-> IF d \in b THEN attempts[d] ELSE 0]]
    /\ doubled' = doubled \union {d \in b : \E v \in Workers \ {w} : d \in held[v]}
    /\ UNCHANGED <<endpoint, seq, status, attempts, current, reply, age,
                   replays, replayed, lapsed>>

\* Mutant: next_attempt_at is not pushed forward.
Claim_NoLease(w) ==
    /\ held[w] = {} /\ DueDeliveries # {}
    /\ \E b \in Batches(DueDeliveries) : Take(w, b)
    /\ UNCHANGED wait

\* claim_due_deliveries: one transaction picks, leases and reads the batch.
Claim(w) ==
    /\ held[w] = {} /\ DueDeliveries # {}
    /\ \E b \in Batches(DueDeliveries) :
        /\ Take(w, b)
        /\ wait' = [d \in Deliveries |-> IF d \in b THEN Lease ELSE wait[d]]

\* The worker sends the oldest event of its batch and reads the answer.
Attempt(w) ==
    /\ current[w] = None
    /\ \E d \in held[w] :
        /\ \A other \in held[w] : d[1] <= other[1]
        /\ current' = [current EXCEPT ![w] = d]
        /\ \E answer \in {"ok", "bad"} : reply' = [reply EXCEPT ![w] = answer]
    /\ UNCHANGED <<endpoint, seq, table, held, snap, age, replays, past>>

\* Mutant: the give-up test is off by one, one attempt too many.
GivesUp_OneMore(n) == n > MaxAttempts

\* Mutant: the attempt number is counted from the snapshot twice.
GivesUp_Early(n) == n + 1 >= MaxAttempts

\* failure(): the attempt with this number is the last one.
GivesUp(n) == n >= MaxAttempts

Backoff(n) == Min({BaseBackoff * 2 ^ Min({n - 1, 20}), MaxBackoff})

\* Mutant: a retry writes a status of its own.
RecordRow_WritesRetry(d, n, outcome) ==
    /\ attempts' = [attempts EXCEPT ![d] = @ + 1]
    /\ \/ outcome = "ok" /\ status' = [status EXCEPT ![d] = "delivered"] /\ UNCHANGED wait
       \/ outcome = "bad" /\ GivesUp(n)
          /\ status' = [status EXCEPT ![d] = "failed"] /\ UNCHANGED wait
       \/ outcome = "bad" /\ ~GivesUp(n)
          /\ wait' = [wait EXCEPT ![d] = Backoff(n)] /\ status' = [status EXCEPT ![d] = "retry"]

\* record_delivery is unconditional, and a retry leaves the status alone.
RecordRow(d, n, outcome) ==
    /\ attempts' = [attempts EXCEPT ![d] = @ + 1]
    /\ \/ outcome = "ok" /\ status' = [status EXCEPT ![d] = "delivered"] /\ UNCHANGED wait
       \/ outcome = "bad" /\ GivesUp(n)
          /\ status' = [status EXCEPT ![d] = "failed"] /\ UNCHANGED wait
       \/ outcome = "bad" /\ ~GivesUp(n)
          /\ wait' = [wait EXCEPT ![d] = Backoff(n)] /\ UNCHANGED status

\* The worker is done with deliveries S of its batch.
Release(w, S) ==
    /\ held' = [held EXCEPT ![w] = @ \ S]
    /\ snap' = [snap EXCEPT ![w] = [d \in Deliveries |-> IF d \in S THEN 0 ELSE @[d]]]
    /\ current' = [current EXCEPT ![w] = None]
    /\ reply' = [reply EXCEPT ![w] = "none"]
    /\ age' = [age EXCEPT ![w] = 0]
    /\ lapsed' = {d \in lapsed : \E v \in Workers : d \in held'[v]}
    /\ UNCHANGED <<endpoint, seq, replays, replayed, doubled>>

Record(w, d) ==
    /\ current[w] = d
    /\ RecordRow(d, snap[w][d] + 1, reply[w])
    /\ Release(w, {d})

\* The daemon dies, or recording fails and ends the pass: the rest of the batch,
\* sent or not, is left to its lease.
PassDies(w) ==
    /\ held[w] # {}
    /\ Release(w, held[w])
    /\ UNCHANGED table

\* One request_timeout passes; no worker spends more than that on one delivery.
Tick ==
    /\ \A w \in Workers : held[w] # {} => age[w] = 0
    /\ (\E w \in Workers : held[w] # {}) \/ (\E d \in Deliveries : wait[d] > 0)
    /\ age' = [w \in Workers |-> IF held[w] # {} THEN 1 ELSE 0]
    /\ wait' = [d \in Deliveries |-> IF wait[d] > 0 THEN wait[d] - 1 ELSE 0]
    /\ lapsed' = lapsed \union {d \in Deliveries : wait'[d] = 0 /\ \E w \in Workers : d \in held[w]}
    /\ UNCHANGED <<endpoint, seq, status, attempts, held, snap, current, reply,
                   replays, replayed, doubled>>

-----------------------------------------------------------------------------

ApiStep == \/ \E e \in Endpoints : CreateEndpoint(e) \/ DisableEndpoint(e)
           \/ Emit
           \/ \E d \in Deliveries : Replay(d)
WorkerStep(w) == \/ Claim(w) \/ Attempt(w) \/ (\E d \in Deliveries : Record(w, d))
                 \/ PassDies(w)

Next == ApiStep \/ (\E w \in Workers : WorkerStep(w)) \/ Tick

Spec == Init /\ [][Next]_vars

(* The clock runs and no worker stops in the middle of a batch.  Workers poll   *)
(* for ever and `order by next_attempt_at` lets no due delivery be passed over  *)
(* for ever; not every pass over a delivery dies or fails before its record is  *)
(* written.  Receivers owe nothing.                                             *)
Fairness ==
    /\ WF_vars(Tick)
    /\ \A w \in Workers : WF_vars(Attempt(w) \/ PassDies(w) \/ \E d \in Deliveries : Record(w, d))
    /\ \A d \in Deliveries :
        /\ SF_vars(\E w \in Workers : Claim(w) /\ d \in held'[w])
        /\ SF_vars(\E w \in Workers : Attempt(w) /\ current'[w] = d)
        /\ SF_vars(\E w \in Workers : Record(w, d))

FairSpec == Spec /\ Fairness

-----------------------------------------------------------------------------
(* Properties.                                                             *)

\* A claim is exclusive until its lease is over: two workers have one delivery in hand
\* only if it was replayed, or its lease ran out before the first one came to it.
OneSenderPerDelivery ==
    \A w1, w2 \in Workers : w1 # w2 =>
        \A d \in held[w1] \intersect held[w2] : d \in replayed \union lapsed

\* claim_due_deliveries leases a batch "so two workers never send the same delivery":
\* but for a replay, no delivery is claimed while another worker still has it.
NeverSentTwice == doubled \subseteq replayed

\* A delivery neither replayed nor claimed twice at a time has at most max_attempts
\* recorded attempts, whatever passes die.  A request whose pass dies before
\* record_delivery is not among them: an endpoint may see more requests than that.
RecordedAttemptsBounded ==
    \A d \in Deliveries \ (replayed \union doubled) : attempts[d] <= MaxAttempts

\* A delivery is given up only after all its attempts: a stale snapshot never makes
\* a worker give up early.
GivesUpOnlyWhenExhausted ==
    \A d \in Deliveries : status[d] = "failed" => attempts[d] >= MaxAttempts

\* A delivered event stays delivered, until it is replayed, unless two workers had it
\* in hand: record_delivery is unconditional, and only a second holder's late result
\* can be written over it.
DeliveredStays ==
    [][\A d \in Deliveries : status[d] = "delivered" /\ d \notin replayed' \union doubled'
                             => status'[d] = "delivered"]_vars

\* At-least-once: a delivery to an enabled endpoint is delivered or given up in the
\* end, through crashed workers, failed passes and full batches.
EveryDeliveryEnds ==
    \A d \in Deliveries :
        (status[d] = "pending" /\ endpoint[d[2]] = "enabled")
            ~> (status[d] # "pending" \/ endpoint[d[2]] # "enabled")

=============================================================================
