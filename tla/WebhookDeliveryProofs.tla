----------------------- MODULE WebhookDeliveryProofs -----------------------
(***************************************************************************)
(* Proofs about WebhookDelivery, for any number of endpoints, workers,     *)
(* events and replays, and any configuration: batches may outlast their    *)
(* lease, as they do with the default one.                                 *)
(***************************************************************************)
EXTENDS WebhookDelivery, TLAPS

\* A worker sends from its batch, and is not late between two batches.
WorkerInv == \A w \in Workers :
    /\ current[w] # None => current[w] \in held[w]
    /\ held[w] = {} => age[w] = 0

\* Deliveries exist from the event on, and only existing ones are held; the attempts
\* read with a batch are never more than those recorded.
TableInv ==
    /\ \A d \in Deliveries : /\ d[1] > seq => status[d] = "absent"
                             /\ status[d] = "absent" => attempts[d] = 0
    /\ \A w \in Workers : /\ \A d \in held[w] : status[d] # "absent"
                          /\ \A d \in Deliveries : snap[w][d] <= attempts[d]

\* What a worker holds is nobody else's to claim, until its lease is over.
LeaseInv == \A w \in Workers : \A d \in held[w] \ (replayed \union lapsed) : wait[d] > 0

\* What one worker alone ever had in hand is still as it was when it was claimed.
HoldInv == \A w \in Workers : \A d \in held[w] \ (replayed \union doubled) :
    /\ status[d] = "pending" /\ snap[w][d] = attempts[d]
    /\ \A v \in Workers \ {w} : d \notin held[v]

\* A delivery still to be sent has attempts left.
AttemptInv == \A d \in Deliveries \ (replayed \union doubled) :
    /\ attempts[d] <= MaxAttempts
    /\ status[d] = "pending" => attempts[d] < MaxAttempts

TypeInv == TypeOK /\ WorkerInv

-----------------------------------------------------------------------------
(* Operators.                                                              *)

LEMMA MinOfTwo ==
    ASSUME NEW a \in Nat, NEW b \in Nat PROVE Min({a, b}) = IF a <= b THEN a ELSE b
BY DEF Min

LEMMA ConfigIs ==
    /\ MaxEvents \in Nat /\ MaxReplays \in Nat /\ BaseBackoff \in Nat /\ MaxBackoff \in Nat
    /\ MaxAttempts \in Nat \ {0} /\ BatchLimit \in Nat \ {0} /\ Lease \in Nat \ {0}
BY ConfigAssumption

LEMMA PowerTyped == ASSUME NEW k \in 0 .. 20 PROVE 2 ^ k \in Nat
<1>1. /\ 2 ^ 0 \in Nat /\ 2 ^ 1 \in Nat /\ 2 ^ 2 \in Nat /\ 2 ^ 3 \in Nat /\ 2 ^ 4 \in Nat
      /\ 2 ^ 5 \in Nat /\ 2 ^ 6 \in Nat /\ 2 ^ 7 \in Nat /\ 2 ^ 8 \in Nat /\ 2 ^ 9 \in Nat
      /\ 2 ^ 10 \in Nat /\ 2 ^ 11 \in Nat /\ 2 ^ 12 \in Nat /\ 2 ^ 13 \in Nat /\ 2 ^ 14 \in Nat
      /\ 2 ^ 15 \in Nat /\ 2 ^ 16 \in Nat /\ 2 ^ 17 \in Nat /\ 2 ^ 18 \in Nat /\ 2 ^ 19 \in Nat
      /\ 2 ^ 20 \in Nat
  OBVIOUS
<1>2. \/ k = 0 \/ k = 1 \/ k = 2 \/ k = 3 \/ k = 4 \/ k = 5 \/ k = 6 \/ k = 7 \/ k = 8 \/ k = 9
      \/ k = 10 \/ k = 11 \/ k = 12 \/ k = 13 \/ k = 14 \/ k = 15 \/ k = 16 \/ k = 17 \/ k = 18
      \/ k = 19 \/ k = 20
  OBVIOUS
<1> QED BY <1>1, <1>2

LEMMA BackoffTyped == ASSUME NEW n \in Nat \ {0} PROVE Backoff(n) \in Nat
<1>1. Min({n - 1, 20}) \in 0 .. 20 BY MinOfTwo
<1>2. PICK k \in 0 .. 20 : k = Min({n - 1, 20}) BY <1>1
<1>3. 2 ^ k \in Nat BY PowerTyped
<1>4. PICK p \in Nat : p = 2 ^ k BY <1>3
<1>5. BaseBackoff * p \in Nat BY <1>4, ConfigIs
<1>6. Min({BaseBackoff * p, MaxBackoff}) \in Nat BY <1>5, ConfigIs, MinOfTwo
<1> QED BY <1>2, <1>4, <1>6 DEF Backoff

-----------------------------------------------------------------------------
(* Types.                                                                  *)

LEMMA ReleaseTyped ==
    ASSUME TypeInv, NEW w \in Workers, NEW S, Release(w, S)
    PROVE  /\ UNCHANGED <<endpoint, seq, replays, replayed, doubled>>
           /\ lapsed' \subseteq lapsed
           /\ held' \in [Workers -> SUBSET Deliveries]
           /\ snap' \in [Workers -> [Deliveries -> Nat]]
           /\ current' \in [Workers -> Deliveries \union {None}]
           /\ reply' \in [Workers -> {"none", "ok", "bad"}]
           /\ age' \in [Workers -> 0 .. 1]
           /\ WorkerInv'
<1>1. held' \in [Workers -> SUBSET Deliveries] BY DEF Release, TypeInv, TypeOK
<1>2. snap' \in [Workers -> [Deliveries -> Nat]]
  <2>1. [d \in Deliveries |-> IF d \in S THEN 0 ELSE snap[w][d]] \in [Deliveries -> Nat]
    BY DEF TypeInv, TypeOK
  <2>2. snap' = [snap EXCEPT ![w] = [d \in Deliveries |-> IF d \in S THEN 0 ELSE snap[w][d]]]
    BY DEF Release, TypeInv, TypeOK
  <2> QED BY <2>1, <2>2 DEF TypeInv, TypeOK
<1>3. /\ current' \in [Workers -> Deliveries \union {None}]
      /\ reply' \in [Workers -> {"none", "ok", "bad"}] /\ age' \in [Workers -> 0 .. 1]
  BY DEF Release, TypeInv, TypeOK
<1>4. WorkerInv' BY DEF Release, TypeInv, TypeOK, WorkerInv
<1> QED BY <1>1, <1>2, <1>3, <1>4 DEF Release

LEMMA RecordTyped == ASSUME TypeInv, NEW w \in Workers, NEW d \in Deliveries, Record(w, d) PROVE TypeInv'
<1>t. TypeOK BY DEF TypeInv
<1>1. snap[w][d] \in Nat BY <1>t DEF TypeOK
<1>2. PICK n \in Nat \ {0}, o \in {"none", "ok", "bad"} : n = snap[w][d] + 1 /\ o = reply[w]
  BY <1>t, <1>1 DEF TypeOK
<1>3. RecordRow(d, n, o) /\ Release(w, {d}) BY <1>2 DEF Record
<1>4. Backoff(n) \in Nat BY BackoffTyped
<1>5. status' \in [Deliveries -> {"absent", "pending", "delivered", "failed"}]
  BY <1>t, <1>3 DEF RecordRow, TypeOK
<1>6. attempts' \in [Deliveries -> Nat] BY <1>t, <1>3 DEF RecordRow, TypeOK
<1>7. wait' = wait \/ wait' = [wait EXCEPT ![d] = Backoff(n)] BY <1>3 DEF RecordRow
<1>8. wait' \in [Deliveries -> Nat] BY <1>t, <1>4, <1>7 DEF TypeOK
<1> QED BY <1>t, <1>3, <1>5, <1>6, <1>8, ReleaseTyped DEF TypeInv, TypeOK

LEMMA ClaimTyped == ASSUME TypeInv, NEW w \in Workers, Claim(w) PROVE TypeInv'
<1>t. TypeOK /\ WorkerInv BY DEF TypeInv
<1>1. PICK b \in Batches(DueDeliveries) :
        Take(w, b) /\ wait' = [d \in Deliveries |-> IF d \in b THEN Lease ELSE wait[d]]
  BY DEF Claim
<1>2. b \subseteq Deliveries BY DEF Batches, DueDeliveries
<1>3. wait' \in [Deliveries -> Nat] BY <1>t, <1>1, ConfigIs DEF TypeOK
<1>4. [d \in Deliveries |-> IF d \in b THEN attempts[d] ELSE 0] \in [Deliveries -> Nat] BY <1>t DEF TypeOK
<1>5. held' \in [Workers -> SUBSET Deliveries] /\ snap' \in [Workers -> [Deliveries -> Nat]]
  BY <1>t, <1>1, <1>2, <1>4 DEF Take, TypeOK
<1>6. UNCHANGED <<endpoint, seq, status, attempts, current, reply, age, replays, replayed, lapsed>>
  BY <1>1 DEF Take
<1>d. doubled' \subseteq Deliveries BY <1>t, <1>1, <1>2 DEF Take, TypeOK
<1>7. TypeOK' BY <1>t, <1>3, <1>5, <1>6, <1>d DEF TypeOK
<1>8. WorkerInv' BY <1>t, <1>1, <1>6 DEF Claim, Take, WorkerInv, TypeOK
<1> QED BY <1>7, <1>8 DEF TypeInv

LEMMA NextTyped == TypeInv /\ [Next]_vars => TypeInv'
<1> SUFFICES ASSUME TypeInv, [Next]_vars PROVE TypeInv' OBVIOUS
<1>t. TypeOK /\ WorkerInv BY DEF TypeInv
<1>1. CASE UNCHANGED vars BY <1>t, <1>1 DEF vars, table, worker, past, TypeInv, TypeOK, WorkerInv
<1>2. CASE \E e \in Endpoints : CreateEndpoint(e) \/ DisableEndpoint(e)
  BY <1>t, <1>2 DEF CreateEndpoint, DisableEndpoint, table, worker, past, TypeInv, TypeOK, WorkerInv
<1>3. CASE Emit
  <2>1. status' \in [Deliveries -> {"absent", "pending", "delivered", "failed"}]
    BY <1>t, <1>3 DEF Emit, TypeOK
  <2>2. seq' \in 0 .. MaxEvents BY <1>t, <1>3, ConfigIs DEF Emit, TypeOK
  <2> QED BY <1>t, <1>3, <2>1, <2>2 DEF Emit, worker, past, TypeInv, TypeOK, WorkerInv
<1>4. CASE \E d \in Deliveries : Replay(d)
  BY <1>t, <1>4 DEF Replay, worker, TypeInv, TypeOK, WorkerInv
<1>5. ASSUME NEW w \in Workers, Attempt(w) PROVE TypeInv'
  <2>1. PICK d \in held[w], a \in {"ok", "bad"} :
          current' = [current EXCEPT ![w] = d] /\ reply' = [reply EXCEPT ![w] = a]
    BY <1>5 DEF Attempt
  <2>2. UNCHANGED <<endpoint, seq, table, held, snap, age, replays, past>> BY <1>5 DEF Attempt
  <2>3. d \in Deliveries BY <1>t DEF TypeOK
  <2> QED BY <1>t, <2>1, <2>2, <2>3 DEF table, past, TypeInv, TypeOK, WorkerInv
<1>6. ASSUME NEW w \in Workers, PassDies(w) PROVE TypeInv'
  <2>1. PICK S : S = held[w] OBVIOUS
  <2>2. Release(w, S) /\ UNCHANGED table BY <1>6, <2>1 DEF PassDies
  <2> QED BY <1>t, <2>2, ReleaseTyped DEF table, TypeInv, TypeOK
<1>7. CASE Tick
  <2>1. age' \in [Workers -> 0 .. 1] /\ wait' \in [Deliveries -> Nat] BY <1>t, <1>7 DEF Tick, TypeOK
  <2>2. WorkerInv' BY <1>t, <1>7 DEF Tick, WorkerInv
  <2> QED BY <1>t, <1>7, <2>1, <2>2 DEF Tick, TypeInv, TypeOK
<1> QED BY <1>1, <1>2, <1>3, <1>4, <1>5, <1>6, <1>7, ClaimTyped, RecordTyped
        DEF Next, ApiStep, WorkerStep

LEMMA InitTyped == Init => TypeInv
<1> SUFFICES ASSUME Init PROVE TypeInv OBVIOUS
<1>1. TypeOK BY ConfigIs DEF Init, TypeOK
<1>2. WorkerInv BY DEF Init, WorkerInv
<1> QED BY <1>1, <1>2 DEF TypeInv

\* Every reachable state is well typed, whatever the configuration.
THEOREM TypeCorrect == Spec => []TypeOK
<1>1. TypeInv => TypeOK BY DEF TypeInv
<1> QED BY <1>1, InitTyped, NextTyped, PTL DEF Spec

-----------------------------------------------------------------------------
(* The table.                                                              *)

\* The steps that leave the table, the batches and the replays alone.
LEMMA QuietSteps ==
    ASSUME [Next]_vars
    PROVE  \/ UNCHANGED <<seq, status, attempts, wait, held, snap, age, past>>
           \/ Emit \/ Tick \/ (\E d \in Deliveries : Replay(d))
           \/ \E w \in Workers : Claim(w) \/ PassDies(w) \/ \E d \in Deliveries : Record(w, d)
BY DEF Next, ApiStep, WorkerStep, CreateEndpoint, DisableEndpoint, Attempt, vars, table, worker, past

\* The batch and the snapshot of each worker after w is done with S.
LEMMA ReleaseIs ==
    ASSUME TypeInv, NEW w \in Workers, NEW S, Release(w, S), NEW v \in Workers
    PROVE  /\ held'[v] = IF v = w THEN held[v] \ S ELSE held[v]
           /\ age'[v] = IF v = w THEN 0 ELSE age[v]
<1>1. held' = [held EXCEPT ![w] = held[w] \ S] /\ age' = [age EXCEPT ![w] = 0]
  BY DEF Release, TypeInv, TypeOK
<1>2. held'[v] = IF v = w THEN held[v] \ S ELSE held[v] BY <1>1 DEF TypeInv, TypeOK
<1>3. age'[v] = IF v = w THEN 0 ELSE age[v] BY <1>1 DEF TypeInv, TypeOK
<1> QED BY <1>2, <1>3

LEMMA SnapFalls ==
    ASSUME TypeInv, NEW w \in Workers, NEW S, Release(w, S), NEW v \in Workers,
           NEW d \in Deliveries
    PROVE  snap'[v][d] \in {snap[v][d], 0}
<1>1. snap' = [snap EXCEPT ![w] = [j \in Deliveries |-> IF j \in S THEN 0 ELSE snap[w][j]]]
  BY DEF Release, TypeInv, TypeOK
<1>2. CASE v = w BY <1>1, <1>2 DEF TypeInv, TypeOK
<1>3. CASE v # w BY <1>1, <1>3 DEF TypeInv, TypeOK
<1> QED BY <1>2, <1>3

LEMMA SnapKept ==
    ASSUME TypeInv, NEW w \in Workers, NEW S, Release(w, S), NEW v \in Workers,
           NEW d \in Deliveries, v # w \/ d \notin S
    PROVE  snap'[v][d] = snap[v][d]
<1>1. snap' = [snap EXCEPT ![w] = [j \in Deliveries |-> IF j \in S THEN 0 ELSE snap[w][j]]]
  BY DEF Release, TypeInv, TypeOK
<1>2. CASE v = w BY <1>1, <1>2 DEF TypeInv, TypeOK
<1>3. CASE v # w BY <1>1, <1>3 DEF TypeInv, TypeOK
<1> QED BY <1>2, <1>3

LEMMA TakeIs ==
    ASSUME TypeInv, NEW w \in Workers, NEW b, Take(w, b), NEW v \in Workers
    PROVE  /\ held'[v] = IF v = w THEN b ELSE held[v]
           /\ \A d \in Deliveries : snap'[v][d] = IF v # w THEN snap[v][d]
                                                  ELSE IF d \in b THEN attempts[d] ELSE 0
BY DEF Take, TypeInv, TypeOK

\* The row after an attempt with number n.
LEMMA RowIs ==
    ASSUME TypeInv, NEW d \in Deliveries, NEW n, NEW o, RecordRow(d, n, o)
    PROVE  /\ attempts'[d] = attempts[d] + 1
           /\ \/ status'[d] = "delivered"
              \/ status'[d] = "failed" /\ GivesUp(n)
              \/ status'[d] = status[d] /\ ~GivesUp(n)
           /\ \A j \in Deliveries : j # d => UNCHANGED <<attempts[j], status[j], wait[j]>>
BY DEF RecordRow, TypeInv, TypeOK

LEMMA TableStep ==
    ASSUME TypeInv, TableInv, GivesUpOnlyWhenExhausted, [Next]_vars
    PROVE  TableInv' /\ GivesUpOnlyWhenExhausted'
<1>t. TypeOK /\ WorkerInv BY DEF TypeInv
<1>d. \A d \in Deliveries : d[1] \in Nat BY DEF Deliveries
<1>1. CASE UNCHANGED <<seq, status, attempts, held, snap>>
  BY <1>1 DEF TableInv, GivesUpOnlyWhenExhausted
<1>2. CASE Emit
  <2>1. /\ seq' = seq + 1 /\ UNCHANGED <<attempts, held, snap>>
        /\ \A d \in Deliveries : status'[d] = status[d] \/ (d[1] = seq' /\ status'[d] = "pending")
    BY <1>2 DEF Emit, worker
  <2>2. \A d \in Deliveries : d[1] > seq' => d[1] > seq /\ d[1] # seq'
    BY <1>t, <1>d, <2>1 DEF TypeOK
  <2>3. \A w \in Workers : held[w] \subseteq Deliveries BY <1>t DEF TypeOK
  <2>4. \A d \in Deliveries : d[1] > seq' => status'[d] = "absent" BY <2>1, <2>2 DEF TableInv
  <2>5. \A d \in Deliveries : status'[d] = "absent" => attempts'[d] = 0 BY <2>1 DEF TableInv
  <2>6. \A w \in Workers : \A d \in held'[w] : status'[d] # "absent" BY <2>1, <2>3 DEF TableInv
  <2>7. \A w \in Workers : \A d \in Deliveries : snap'[w][d] <= attempts'[d] BY <2>1 DEF TableInv
  <2>8. GivesUpOnlyWhenExhausted' BY <2>1 DEF GivesUpOnlyWhenExhausted
  <2> QED BY <2>4, <2>5, <2>6, <2>7, <2>8 DEF TableInv
<1>3. ASSUME NEW d \in Deliveries, Replay(d) PROVE TableInv' /\ GivesUpOnlyWhenExhausted'
  BY <1>t, <1>3 DEF Replay, worker, TypeOK, TableInv, GivesUpOnlyWhenExhausted
<1>4. ASSUME NEW w \in Workers, Claim(w) PROVE TableInv' /\ GivesUpOnlyWhenExhausted'
  <2>1. PICK b \in Batches(DueDeliveries) : Take(w, b) BY <1>4 DEF Claim
  <2>2. \A d \in b : d \in Deliveries /\ status[d] = "pending" BY DEF Batches, DueDeliveries
  <2>3. UNCHANGED <<seq, status, attempts>> BY <2>1 DEF Take
  <2>4. \A v \in Workers : \A d \in held'[v] : status'[d] # "absent"
    BY <2>1, <2>2, <2>3, TakeIs DEF TableInv
  <2>5. \A v \in Workers : \A d \in Deliveries : snap'[v][d] <= attempts'[d]
    <3> SUFFICES ASSUME NEW v \in Workers, NEW d \in Deliveries PROVE snap'[v][d] <= attempts'[d]
      OBVIOUS
    <3>1. snap'[v][d] \in {snap[v][d], attempts[d], 0} BY <2>1, TakeIs
    <3>2. snap[v][d] \in Nat /\ attempts[d] \in Nat /\ snap[v][d] <= attempts[d]
      BY <1>t DEF TableInv, TypeOK
    <3>3. attempts'[d] = attempts[d] BY <2>3
    <3> QED BY <3>1, <3>2, <3>3
  <2> QED BY <2>3, <2>4, <2>5 DEF TableInv, GivesUpOnlyWhenExhausted
<1>5. ASSUME NEW w \in Workers, PassDies(w) PROVE TableInv' /\ GivesUpOnlyWhenExhausted'
  <2>1. PICK S : S = held[w] OBVIOUS
  <2>2. Release(w, S) /\ UNCHANGED <<seq, status, attempts>> BY <1>5, <2>1 DEF PassDies, table, Release
  <2>3. \A v \in Workers : \A d \in held'[v] : status'[d] # "absent"
    <3>1. \A v \in Workers : held'[v] \subseteq held[v] BY <2>2, ReleaseIs
    <3> QED BY <2>2, <3>1 DEF TableInv
  <2>4. \A v \in Workers : \A d \in Deliveries : snap'[v][d] <= attempts'[d]
    <3> SUFFICES ASSUME NEW v \in Workers, NEW d \in Deliveries PROVE snap'[v][d] <= attempts'[d]
      OBVIOUS
    <3>1. snap'[v][d] \in {snap[v][d], 0} BY <2>2, SnapFalls
    <3>2. snap[v][d] \in Nat /\ attempts[d] \in Nat /\ snap[v][d] <= attempts[d]
      BY <1>t DEF TableInv, TypeOK
    <3>3. attempts'[d] = attempts[d] BY <2>2
    <3> QED BY <3>1, <3>2, <3>3
  <2> QED BY <2>2, <2>3, <2>4 DEF TableInv, GivesUpOnlyWhenExhausted
<1>6. ASSUME NEW w \in Workers, NEW d \in Deliveries, Record(w, d)
      PROVE  TableInv' /\ GivesUpOnlyWhenExhausted'
  <2>1. snap[w][d] \in Nat /\ attempts[d] \in Nat BY <1>t DEF TypeOK
  <2>2. PICK n \in Nat, o \in {"none", "ok", "bad"} : n = snap[w][d] + 1 /\ o = reply[w]
    BY <1>t, <2>1 DEF TypeOK
  <2>3. RecordRow(d, n, o) /\ Release(w, {d}) BY <1>6, <2>2 DEF Record
  <2>4. d \in held[w] /\ status[d] # "absent"
    <3>1. current[w] = d /\ d # None BY <1>6, NoneAssumption DEF Record, Deliveries
    <3> QED BY <1>t, <3>1 DEF WorkerInv, TableInv
  <2>5. n <= attempts'[d] /\ attempts'[d] = attempts[d] + 1 /\ status'[d] # "absent"
    BY <2>1, <2>2, <2>3, <2>4, RowIs DEF TableInv
  <2>6. \A j \in Deliveries : j # d => attempts'[j] = attempts[j] /\ status'[j] = status[j]
    BY <2>3, RowIs
  <2>7. seq' = seq BY <2>3 DEF Release
  <2>8. \A j \in Deliveries : /\ j[1] > seq' => status'[j] = "absent"
                              /\ status'[j] = "absent" => attempts'[j] = 0
    BY <2>4, <2>5, <2>6, <2>7 DEF TableInv
  <2>9. \A v \in Workers : \A j \in held'[v] : status'[j] # "absent"
    <3>1. \A v \in Workers : held'[v] \subseteq held[v] BY <2>3, ReleaseIs
    <3>2. \A v \in Workers : held[v] \subseteq Deliveries BY <1>t DEF TypeOK
    <3> QED BY <2>5, <2>6, <3>1, <3>2 DEF TableInv
  <2>10. \A v \in Workers : \A j \in Deliveries : snap'[v][j] <= attempts'[j]
    <3> SUFFICES ASSUME NEW v \in Workers, NEW j \in Deliveries PROVE snap'[v][j] <= attempts'[j]
      OBVIOUS
    <3>1. snap'[v][j] \in {snap[v][j], 0} BY <2>3, SnapFalls
    <3>2. snap[v][j] \in Nat /\ attempts[j] \in Nat /\ snap[v][j] <= attempts[j]
      BY <1>t DEF TableInv, TypeOK
    <3>3. attempts'[j] \in {attempts[j], attempts[j] + 1} BY <2>5, <2>6
    <3> QED BY <3>1, <3>2, <3>3
  <2>11. GivesUpOnlyWhenExhausted'
    <3> SUFFICES ASSUME NEW j \in Deliveries, status'[j] = "failed" PROVE attempts'[j] >= MaxAttempts
      BY DEF GivesUpOnlyWhenExhausted
    <3>1. CASE j # d BY <2>6, <3>1 DEF GivesUpOnlyWhenExhausted
    <3>2. CASE j = d /\ GivesUp(n)
      <4>1. n >= MaxAttempts BY <3>2 DEF GivesUp
      <4> QED BY <2>1, <2>5, <3>2, <4>1, ConfigIs
    <3>3. CASE j = d /\ ~GivesUp(n)
      <4>1. status[d] = "failed" BY <2>3, <3>3, RowIs
      <4>2. attempts[d] >= MaxAttempts BY <4>1 DEF GivesUpOnlyWhenExhausted
      <4> QED BY <2>1, <2>5, <3>3, <4>2, ConfigIs
    <3> QED BY <3>1, <3>2, <3>3
  <2> QED BY <2>8, <2>9, <2>10, <2>11 DEF TableInv
<1>7. CASE Tick BY <1>1, <1>7 DEF Tick
<1> QED BY <1>1, <1>2, <1>3, <1>4, <1>5, <1>6, <1>7, QuietSteps

LEMMA TableInvariant == Spec => [](TypeInv /\ TableInv /\ GivesUpOnlyWhenExhausted)
<1>1. ASSUME Init PROVE TableInv /\ GivesUpOnlyWhenExhausted
  BY <1>1 DEF Init, TableInv, GivesUpOnlyWhenExhausted
<1> QED BY <1>1, TableStep, InitTyped, NextTyped, PTL DEF Spec

\* A delivery is given up only after all its attempts, in every configuration.
THEOREM NeverGivesUpEarly == Spec => []GivesUpOnlyWhenExhausted
BY TableInvariant, PTL

-----------------------------------------------------------------------------
(* Claims.  A delivery is claimed again only when its lease is over; one   *)
(* that a single worker has in hand is recorded as it was claimed.         *)

\* What is claimed is due; its lease is over, if anyone holds it.
LEMMA BatchIsDue ==
    ASSUME NEW b \in Batches(DueDeliveries), NEW d \in b
    PROVE  d \in Deliveries /\ status[d] = "pending" /\ wait[d] = 0
BY DEF Batches, DueDeliveries

LEMMA ClaimIsFree ==
    ASSUME LeaseInv, NEW b \in Batches(DueDeliveries), NEW v \in Workers, NEW d \in b, d \in held[v]
    PROVE  d \in replayed \union lapsed
<1>1. wait[d] = 0 BY BatchIsDue
<1> QED BY <1>1 DEF LeaseInv

\* Who is done with deliveries lets go of them, and forgets only what nobody holds.
LEMMA ReleasePast ==
    ASSUME TypeInv, NEW w \in Workers, NEW S, Release(w, S)
    PROVE  /\ replayed' = replayed /\ doubled' = doubled
           /\ \A v \in Workers : held'[v] \subseteq held[v]
           /\ \A v \in Workers : \A d \in held'[v] : d \in lapsed => d \in lapsed'
<1>1. \A v \in Workers : held'[v] \subseteq held[v] BY ReleaseIs
<1> QED BY <1>1 DEF Release

\* The delivery a worker records is one it holds.
LEMMA RecordsItsOwn ==
    ASSUME TypeInv, NEW w \in Workers, NEW d \in Deliveries, Record(w, d)
    PROVE  /\ d \in held[w]
           /\ \E n \in Nat, o \in {"none", "ok", "bad"} :
                n = snap[w][d] + 1 /\ RecordRow(d, n, o) /\ Release(w, {d})
<1>t. TypeOK /\ WorkerInv BY DEF TypeInv
<1>1. current[w] = d /\ d # None BY NoneAssumption DEF Record, Deliveries
<1>2. d \in held[w] BY <1>t, <1>1 DEF WorkerInv
<1>3. snap[w][d] \in Nat /\ reply[w] \in {"none", "ok", "bad"} BY <1>t DEF TypeOK
<1> QED BY <1>2, <1>3 DEF Record

\* Every step keeps the batches apart.
LEMMA SenderStep ==
    ASSUME TypeInv, LeaseInv, OneSenderPerDelivery, [Next]_vars
    PROVE  OneSenderPerDelivery'
<1>1. CASE /\ \A v \in Workers : held'[v] \subseteq held[v]
           /\ replayed \subseteq replayed'
           /\ \A v \in Workers : \A d \in held'[v] : d \in lapsed => d \in lapsed'
  BY <1>1 DEF OneSenderPerDelivery
<1>2. CASE UNCHANGED <<held, past>> BY <1>1, <1>2 DEF past
<1>3. CASE Emit BY <1>2, <1>3 DEF Emit, worker
<1>4. CASE Tick BY <1>1, <1>4 DEF Tick
<1>5. CASE \E d \in Deliveries : Replay(d) BY <1>1, <1>5 DEF Replay, worker
<1>6. ASSUME NEW w \in Workers, Claim(w) PROVE OneSenderPerDelivery'
  <2>1. PICK b \in Batches(DueDeliveries) : Take(w, b) BY <1>6 DEF Claim
  <2>2. \A v \in Workers : held'[v] = IF v = w THEN b ELSE held[v] BY <2>1, TakeIs
  <2>3. replayed' = replayed /\ lapsed' = lapsed BY <2>1 DEF Take
  <2>4. \A v \in Workers : \A d \in b : d \in held[v] => d \in replayed \union lapsed
    BY ClaimIsFree
  <2> SUFFICES ASSUME NEW w1 \in Workers, NEW w2 \in Workers, w1 # w2,
                      NEW d \in held'[w1] \intersect held'[w2]
               PROVE  d \in replayed \union lapsed
    BY <2>3 DEF OneSenderPerDelivery
  <2>5. CASE w1 = w BY <2>2, <2>4, <2>5
  <2>6. CASE w2 = w BY <2>2, <2>4, <2>6
  <2>7. CASE w1 # w /\ w2 # w BY <2>2, <2>7 DEF OneSenderPerDelivery
  <2> QED BY <2>5, <2>6, <2>7
<1>7. ASSUME NEW w \in Workers, PassDies(w) PROVE OneSenderPerDelivery'
  <2>1. PICK S : S = held[w] OBVIOUS
  <2>2. Release(w, S) BY <1>7, <2>1 DEF PassDies
  <2> QED BY <1>1, <2>2, ReleasePast
<1>8. ASSUME NEW w \in Workers, NEW d \in Deliveries, Record(w, d) PROVE OneSenderPerDelivery'
  <2>1. PICK S : S = {d} OBVIOUS
  <2>2. Release(w, S) BY <1>8, <2>1 DEF Record
  <2> QED BY <1>1, <2>2, ReleasePast
<1> QED BY <1>2, <1>3, <1>4, <1>5, <1>6, <1>7, <1>8, QuietSteps

\* Every step keeps a lease on what is held, or notes that it ran out.
LEMMA LeaseStep ==
    ASSUME TypeInv, LeaseInv, OneSenderPerDelivery, [Next]_vars
    PROVE  LeaseInv'
<1>t. TypeOK BY DEF TypeInv
<1>h. \A v \in Workers : held[v] \subseteq Deliveries BY <1>t DEF TypeOK
<1>1. CASE UNCHANGED <<wait, held, past>> BY <1>1 DEF LeaseInv, past
<1>2. CASE Emit BY <1>1, <1>2 DEF Emit, worker
<1>3. ASSUME NEW x \in Deliveries, Replay(x) PROVE LeaseInv'
  <2>1. UNCHANGED <<held, lapsed>> /\ replayed' = replayed \union {x} BY <1>3 DEF Replay, worker
  <2>2. \A d \in Deliveries : d # x => wait'[d] = wait[d] BY <1>t, <1>3 DEF Replay, TypeOK
  <2> QED BY <1>h, <2>1, <2>2 DEF LeaseInv
<1>4. ASSUME NEW w \in Workers, Claim(w) PROVE LeaseInv'
  <2>1. PICK b \in Batches(DueDeliveries) :
          Take(w, b) /\ wait' = [d \in Deliveries |-> IF d \in b THEN Lease ELSE wait[d]]
    BY <1>4 DEF Claim
  <2>2. UNCHANGED <<replayed, lapsed>> BY <2>1 DEF Take
  <2> SUFFICES ASSUME NEW v \in Workers, NEW d \in held'[v] \ (replayed \union lapsed)
               PROVE  wait'[d] > 0
    BY <2>2 DEF LeaseInv
  <2>3. held'[v] = IF v = w THEN b ELSE held[v] BY <2>1, TakeIs
  <2>4. d \in Deliveries BY <1>h, <2>3, BatchIsDue
  <2>5. CASE d \in b BY <2>1, <2>4, <2>5, ConfigIs
  <2>6. CASE d \notin b
    <3>1. d \in held[v] BY <2>3, <2>6
    <3>2. wait[d] > 0 BY <3>1 DEF LeaseInv
    <3> QED BY <2>1, <2>4, <2>6, <3>2
  <2> QED BY <2>5, <2>6
<1>5. ASSUME NEW w \in Workers, PassDies(w) PROVE LeaseInv'
  <2>1. PICK S : S = held[w] OBVIOUS
  <2>2. Release(w, S) /\ wait' = wait BY <1>5, <2>1 DEF PassDies, table
  <2> QED BY <2>2, ReleasePast DEF LeaseInv
<1>6. ASSUME NEW w \in Workers, NEW x \in Deliveries, Record(w, x) PROVE LeaseInv'
  <2>1. PICK n \in Nat, o \in {"none", "ok", "bad"} : RecordRow(x, n, o) /\ Release(w, {x})
    BY <1>6, RecordsItsOwn
  <2>2. x \in held[w] BY <1>6, RecordsItsOwn
  <2>3. PICK S : S = {x} OBVIOUS
  <2>4. Release(w, S) BY <2>1, <2>3
  <2> SUFFICES ASSUME NEW v \in Workers, NEW d \in held'[v] \ (replayed' \union lapsed')
               PROVE  wait'[d] > 0
    BY DEF LeaseInv
  <2>5. d \in held[v] \ (replayed \union lapsed) /\ d \in Deliveries BY <1>h, <2>4, ReleasePast
  <2>6. held'[v] = IF v = w THEN held[v] \ S ELSE held[v] BY <2>4, ReleaseIs
  <2>7. d # x BY <2>2, <2>3, <2>5, <2>6 DEF OneSenderPerDelivery
  <2>8. wait'[d] = wait[d] BY <2>1, <2>5, <2>7, RowIs
  <2> QED BY <2>5, <2>8 DEF LeaseInv
<1>7. CASE Tick
  <2> SUFFICES ASSUME NEW v \in Workers, NEW d \in held'[v] \ (replayed' \union lapsed')
               PROVE  wait'[d] > 0
    BY DEF LeaseInv
  <2>1. d \in held[v] /\ d \in Deliveries BY <1>h, <1>7 DEF Tick
  <2>2. wait'[d] # 0 BY <1>7, <2>1 DEF Tick
  <2>3. wait'[d] \in Nat
    <3>1. wait[d] \in Nat BY <1>t, <2>1 DEF TypeOK
    <3>2. wait'[d] = IF wait[d] > 0 THEN wait[d] - 1 ELSE 0 BY <1>7, <2>1 DEF Tick
    <3> QED BY <3>1, <3>2
  <2> QED BY <2>2, <2>3
<1> QED BY <1>1, <1>2, <1>3, <1>4, <1>5, <1>6, <1>7, QuietSteps

\* Every step leaves alone what one worker alone has in hand, but its own record.
LEMMA HoldStep ==
    ASSUME TypeInv, TableInv, HoldInv, [Next]_vars
    PROVE  HoldInv'
<1>t. TypeOK BY DEF TypeInv
<1>h. \A v \in Workers : held[v] \subseteq Deliveries BY <1>t DEF TypeOK
<1>1. CASE UNCHANGED <<status, attempts, held, snap, replayed, doubled>> BY <1>1 DEF HoldInv
<1>2. CASE Tick BY <1>1, <1>2 DEF Tick
<1>3. CASE Emit
  <2>1. UNCHANGED <<attempts, held, snap, replayed, doubled>> BY <1>3 DEF Emit, worker, past
  <2>2. ASSUME NEW v \in Workers, NEW d \in held[v] PROVE status'[d] = status[d]
    <3>1. d \in Deliveries /\ d[1] \in Nat BY <1>h DEF Deliveries
    <3>2. ~(d[1] > seq) BY <3>1 DEF TableInv
    <3>3. seq' = seq + 1 /\ seq \in Nat BY <1>t, <1>3 DEF Emit, TypeOK
    <3> QED BY <1>3, <3>1, <3>2, <3>3 DEF Emit
  <2> QED BY <2>1, <2>2 DEF HoldInv
<1>4. ASSUME NEW x \in Deliveries, Replay(x) PROVE HoldInv'
  <2>1. UNCHANGED <<attempts, held, snap, doubled>> /\ replayed' = replayed \union {x}
    BY <1>4 DEF Replay, worker
  <2>2. \A d \in Deliveries : d # x => status'[d] = status[d] BY <1>t, <1>4 DEF Replay, TypeOK
  <2> QED BY <1>h, <2>1, <2>2 DEF HoldInv
<1>5. ASSUME NEW w \in Workers, Claim(w) PROVE HoldInv'
  <2>1. PICK b \in Batches(DueDeliveries) : Take(w, b) BY <1>5 DEF Claim
  <2>2. /\ UNCHANGED <<status, attempts, replayed>>
        /\ doubled' = doubled \union {d \in b : \E v \in Workers \ {w} : d \in held[v]}
    BY <2>1 DEF Take
  <2>3. \A v \in Workers : held'[v] = IF v = w THEN b ELSE held[v] BY <2>1, TakeIs
  <2> SUFFICES ASSUME NEW v \in Workers, NEW d \in held'[v] \ (replayed \union doubled')
               PROVE  /\ status[d] = "pending" /\ snap'[v][d] = attempts[d]
                      /\ \A u \in Workers \ {v} : d \notin held'[u]
    BY <2>2 DEF HoldInv
  <2>4. d \in Deliveries BY <1>h, <2>3, BatchIsDue
  <2>5. d \notin doubled BY <2>2
  <2>6. CASE v = w
    <3>1. d \in b BY <2>3, <2>6
    <3>2. status[d] = "pending" BY <3>1, BatchIsDue
    <3>3. snap'[v][d] = attempts[d] BY <2>1, <2>4, <2>6, <3>1, TakeIs
    <3>4. \A u \in Workers \ {v} : d \notin held'[u] BY <2>2, <2>3, <2>6, <3>1
    <3> QED BY <3>2, <3>3, <3>4
  <2>7. CASE v # w
    <3>1. d \in held[v] \ (replayed \union doubled) BY <2>3, <2>5, <2>7
    <3>2. d \notin b BY <2>2, <2>7, <3>1
    <3>3. snap'[v][d] = snap[v][d] BY <2>1, <2>4, <2>7, TakeIs
    <3>4. /\ status[d] = "pending" /\ snap[v][d] = attempts[d]
          /\ \A u \in Workers \ {v} : d \notin held[u]
      BY <3>1 DEF HoldInv
    <3>5. \A u \in Workers \ {v} : d \notin held'[u] BY <2>3, <3>2, <3>4
    <3> QED BY <3>3, <3>4, <3>5
  <2> QED BY <2>6, <2>7
<1>6. ASSUME NEW w \in Workers, PassDies(w) PROVE HoldInv'
  <2>1. PICK S : S = held[w] OBVIOUS
  <2>2. Release(w, S) /\ UNCHANGED <<status, attempts>> BY <1>6, <2>1 DEF PassDies, table
  <2>3. /\ replayed' = replayed /\ doubled' = doubled
        /\ \A v \in Workers : held'[v] \subseteq held[v]
    BY <2>2, ReleasePast
  <2> SUFFICES ASSUME NEW v \in Workers, NEW d \in held'[v] \ (replayed \union doubled)
               PROVE  /\ status[d] = "pending" /\ snap'[v][d] = attempts[d]
                      /\ \A u \in Workers \ {v} : d \notin held'[u]
    BY <2>2, <2>3 DEF HoldInv
  <2>4. v # w
    <3>1. held'[v] = IF v = w THEN held[v] \ S ELSE held[v] BY <2>2, ReleaseIs
    <3> QED BY <2>1, <3>1
  <2>5. d \in held[v] \ (replayed \union doubled) /\ d \in Deliveries BY <1>h, <2>3
  <2>6. snap'[v][d] = snap[v][d] BY <2>2, <2>4, <2>5, SnapKept
  <2> QED BY <2>3, <2>5, <2>6 DEF HoldInv
<1>7. ASSUME NEW w \in Workers, NEW x \in Deliveries, Record(w, x) PROVE HoldInv'
  <2>1. PICK n \in Nat, o \in {"none", "ok", "bad"} : RecordRow(x, n, o) /\ Release(w, {x})
    BY <1>7, RecordsItsOwn
  <2>2. x \in held[w] BY <1>7, RecordsItsOwn
  <2>3. PICK S : S = {x} OBVIOUS
  <2>4. Release(w, S) BY <2>1, <2>3
  <2>5. /\ replayed' = replayed /\ doubled' = doubled
        /\ \A v \in Workers : held'[v] \subseteq held[v]
    BY <2>4, ReleasePast
  <2> SUFFICES ASSUME NEW v \in Workers, NEW d \in held'[v] \ (replayed \union doubled)
               PROVE  /\ status'[d] = "pending" /\ snap'[v][d] = attempts'[d]
                      /\ \A u \in Workers \ {v} : d \notin held'[u]
    BY <2>5 DEF HoldInv
  <2>6. d \in held[v] \ (replayed \union doubled) /\ d \in Deliveries BY <1>h, <2>5
  <2>7. /\ status[d] = "pending" /\ snap[v][d] = attempts[d]
        /\ \A u \in Workers \ {v} : d \notin held[u]
    BY <2>6 DEF HoldInv
  <2>8. held'[v] = IF v = w THEN held[v] \ S ELSE held[v] BY <2>4, ReleaseIs
  <2>9. d # x BY <2>2, <2>3, <2>7, <2>8
  <2>10. attempts'[d] = attempts[d] /\ status'[d] = status[d] BY <2>1, <2>6, <2>9, RowIs
  <2>11. d \notin S BY <2>3, <2>9
  <2>12. snap'[v][d] = snap[v][d] BY <2>4, <2>6, <2>11, SnapKept
  <2> QED BY <2>5, <2>7, <2>10, <2>12
<1> QED BY <1>1, <1>2, <1>3, <1>4, <1>5, <1>6, <1>7, QuietSteps DEF past

\* Every step keeps an attempt in hand for what is still to be sent.
LEMMA AttemptStep ==
    ASSUME TypeInv, TableInv, HoldInv, AttemptInv, [Next]_vars
    PROVE  AttemptInv'
<1>t. TypeOK BY DEF TypeInv
<1>1. CASE UNCHANGED <<status, attempts, replayed>> /\ doubled \subseteq doubled'
  BY <1>1 DEF AttemptInv
<1>2. CASE Tick BY <1>1, <1>2 DEF Tick
<1>3. CASE Emit
  <2>1. UNCHANGED <<attempts, replayed, doubled>> /\ seq' = seq + 1 /\ seq \in Nat
    BY <1>t, <1>3 DEF Emit, TypeOK, past
  <2> SUFFICES ASSUME NEW d \in Deliveries \ (replayed \union doubled), status'[d] # status[d]
               PROVE  attempts[d] = 0
    BY <2>1, ConfigIs DEF AttemptInv
  <2>2. d[1] = seq' BY <1>3 DEF Emit
  <2>3. d[1] > seq BY <2>1, <2>2
  <2> QED BY <2>3 DEF TableInv
<1>4. ASSUME NEW x \in Deliveries, Replay(x) PROVE AttemptInv'
  <2>1. /\ attempts' = attempts /\ doubled' = doubled /\ replayed' = replayed \union {x}
        /\ \A d \in Deliveries : d # x => status'[d] = status[d]
    BY <1>t, <1>4 DEF Replay, TypeOK
  <2> QED BY <2>1 DEF AttemptInv
<1>5. ASSUME NEW w \in Workers, Claim(w) PROVE AttemptInv' BY <1>1, <1>5 DEF Claim, Take
<1>6. ASSUME NEW w \in Workers, PassDies(w) PROVE AttemptInv'
  BY <1>1, <1>6 DEF PassDies, Release, table
<1>7. ASSUME NEW w \in Workers, NEW x \in Deliveries, Record(w, x) PROVE AttemptInv'
  <2>1. PICK n \in Nat, o \in {"none", "ok", "bad"} :
          n = snap[w][x] + 1 /\ RecordRow(x, n, o) /\ Release(w, {x})
    BY <1>7, RecordsItsOwn
  <2>2. replayed' = replayed /\ doubled' = doubled BY <2>1 DEF Release
  <2> SUFFICES ASSUME NEW d \in Deliveries \ (replayed \union doubled)
               PROVE  /\ attempts'[d] <= MaxAttempts
                      /\ status'[d] = "pending" => attempts'[d] < MaxAttempts
    BY <2>2 DEF AttemptInv
  <2>3. CASE d # x BY <2>1, <2>3, RowIs DEF AttemptInv
  <2>4. CASE d = x
    <3>1. d \in held[w] \ (replayed \union doubled) BY <1>7, <2>4, RecordsItsOwn
    <3>2. status[d] = "pending" /\ snap[w][d] = attempts[d] BY <3>1 DEF HoldInv
    <3>3. attempts[d] \in Nat /\ attempts[d] < MaxAttempts BY <1>t, <3>2 DEF AttemptInv, TypeOK
    <3>4. n = attempts[d] + 1 /\ attempts'[d] = n BY <2>1, <2>4, <3>2, RowIs
    <3>5. status'[d] = "pending" => ~GivesUp(n) BY <2>1, <2>4, RowIs
    <3>6. status'[d] = "pending" => n < MaxAttempts BY <3>3, <3>4, <3>5, ConfigIs DEF GivesUp
    <3> QED BY <3>3, <3>4, <3>6, ConfigIs
  <2> QED BY <2>3, <2>4
<1> QED BY <1>1, <1>2, <1>3, <1>4, <1>5, <1>6, <1>7, QuietSteps DEF past

\* A delivered event that no two workers had in hand is in no batch and in no new event.
LEMMA DeliveredStep ==
    ASSUME TypeInv, TableInv, HoldInv, [Next]_vars,
           NEW d \in Deliveries, status[d] = "delivered", d \notin replayed' \union doubled'
    PROVE  status'[d] = "delivered"
<1>t. TypeOK BY DEF TypeInv
<1>1. CASE UNCHANGED status BY <1>1
<1>2. CASE Tick BY <1>2 DEF Tick
<1>3. CASE Emit
  <2>1. d[1] = seq + 1 => d[1] > seq BY <1>t DEF TypeOK
  <2>2. d[1] # seq + 1 BY <2>1 DEF TableInv
  <2> QED BY <1>3, <2>2 DEF Emit
<1>4. ASSUME NEW x \in Deliveries, Replay(x) PROVE status'[d] = "delivered"
  BY <1>t, <1>4 DEF Replay, TypeOK
<1>5. ASSUME NEW w \in Workers, Claim(w) \/ PassDies(w) PROVE status'[d] = "delivered"
  BY <1>5 DEF Claim, Take, PassDies, table
<1>6. ASSUME NEW w \in Workers, NEW x \in Deliveries, Record(w, x) PROVE status'[d] = "delivered"
  <2>1. PICK n \in Nat, o \in {"none", "ok", "bad"} : RecordRow(x, n, o) /\ Release(w, {x})
    BY <1>6, RecordsItsOwn
  <2>2. d \notin replayed \union doubled BY <2>1 DEF Release
  <2>3. x \in held[w] BY <1>6, RecordsItsOwn
  <2>4. d # x BY <2>2, <2>3 DEF HoldInv
  <2> QED BY <2>1, <2>4, RowIs
<1> QED BY <1>1, <1>2, <1>3, <1>4, <1>5, <1>6, QuietSteps

ClaimInv == LeaseInv /\ OneSenderPerDelivery /\ HoldInv /\ AttemptInv

LEMMA ClaimInvariant == Spec => [](TypeInv /\ TableInv /\ ClaimInv)
<1>1. ASSUME Init PROVE ClaimInv
  <2>1. LeaseInv /\ OneSenderPerDelivery /\ HoldInv
    BY <1>1 DEF Init, LeaseInv, OneSenderPerDelivery, HoldInv
  <2>2. AttemptInv BY <1>1, ConfigIs DEF Init, AttemptInv
  <2> QED BY <2>1, <2>2 DEF ClaimInv
<1>2. TypeInv /\ TableInv /\ ClaimInv /\ [Next]_vars => ClaimInv'
  BY SenderStep, LeaseStep, HoldStep, AttemptStep DEF ClaimInv
<1> QED BY <1>1, <1>2, TableInvariant, PTL DEF Spec

\* Two workers have one delivery in hand only if it was replayed, or its lease ran out
\* in the hands of the first.
THEOREM OneSender == Spec => []OneSenderPerDelivery
<1>1. ClaimInv => OneSenderPerDelivery BY DEF ClaimInv
<1> QED BY <1>1, ClaimInvariant, PTL

\* A delivery that is not replayed, and that no two workers had in hand, has at most
\* max_attempts recorded attempts: the number a worker read with its batch is still
\* that of the row when it records.
THEOREM AttemptsAreBounded == Spec => []RecordedAttemptsBounded
<1>1. ClaimInv => RecordedAttemptsBounded BY DEF ClaimInv, AttemptInv, RecordedAttemptsBounded
<1> QED BY <1>1, ClaimInvariant, PTL

\* A delivered event stays delivered until it is replayed, unless two workers had it in
\* hand: nobody else is left to record anything of it.
THEOREM DeliveredIsKept == Spec => DeliveredStays
<1>1. ASSUME TypeInv, TableInv, ClaimInv, [Next]_vars
      PROVE  [\A d \in Deliveries : status[d] = "delivered" /\ d \notin replayed' \union doubled'
                                    => status'[d] = "delivered"]_vars
  BY <1>1, DeliveredStep DEF ClaimInv
<1> QED BY <1>1, ClaimInvariant, PTL DEF Spec, DeliveredStays

=============================================================================
