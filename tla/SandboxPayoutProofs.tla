------------------------ MODULE SandboxPayoutProofs ------------------------
(***************************************************************************)
(* Proofs about SandboxPayout, for any number of keys, quotes, orders and  *)
(* handlers: types, the quote that is spent once, the events of a payout,  *)
(* the payment that follows its payout, payouts that nobody finishes, and  *)
(* the conservation of simulated money.                                    *)
(***************************************************************************)
EXTENDS SandboxPayout, FiniteSetTheorems, WellFoundedInduction, TLAPS

\* A handler at work has an order: its key and scenario, and its quote until it has
\* been reserved.
OrderInv == \A h \in Handlers :
    /\ pc[h] # "idle" => order[h].key \in Keys /\ order[h].outcome \in Scenarios
    /\ pc[h] \in {"lookup", "reserve"} => order[h].quote \in Quotes

\* A stored payout names its quote.
RowInv == \A k \in Keys : IF status[k] = "absent" THEN quoteOf[k] = None ELSE quoteOf[k] \in Quotes

TypeInv == TypeOK /\ OrderInv /\ RowInv

\* A handler sends only for a payout that has succeeded and has an invoice, and once it
\* has sent there is a payment.
SendInv == \A h \in Handlers :
    /\ pc[h] = "send" => invoiced[order[h].key] /\ status[order[h].key] = "succeeded"
    /\ pc[h] \in {"mark", "ask", "detached", "refused", "link"} => payStatus[order[h].key] # "absent"

\* A linked payout has a payment.
LinkInv == \A k \in Keys : linked[k] => payStatus[k] # "absent"

\* The handler that will take payout k further is at one of these steps.
Working(k, steps) == \E h \in Handlers : order[h].key = k /\ pc[h] \in steps

\* A payout on its way that no handler has left in the middle has one at work.
WorkInv == \A k \in Keys \ cutShort :
    /\ status[k] = "reserved" => Working(k, {"start"})
    /\ status[k] = "pending" => Working(k, {"finish"})
    /\ status[k] = "succeeded" /\ invoiced[k] /\ ~linked[k]
       => Working(k, {"send", "mark", "ask", "refused", "link"})

-----------------------------------------------------------------------------
(* The sum of Conservation.  It is a recursive function over the subsets of a *)
(* finite set; it counts the minor units that the payouts hold.              *)

\* The sum of the amounts of the payouts in S, as Conservation states it.
Total(q, S) == MapThenSumSet(LAMBDA k : Amount[q[k]], S)

\* One element for each minor unit that a payout in S holds.
Units(q, S) == {u \in S \X Nat : u[2] \in 1 .. Amount[q[u[1]]]}

\* The recursion behind the sum.
Picked(s) == CHOOSE x \in s : TRUE
Solves(g, q, S) ==
    g = [s \in SUBSET S |-> IF s = {} THEN 0 ELSE Amount[q[Picked(s)]] + g[s \ {Picked(s)}]]

LEMMA TotalSolves ==
    ASSUME NEW q, NEW S, \E h : Solves(h, q, S)
    PROVE  \E g : Solves(g, q, S) /\ Total(q, S) = g[S]
<1>1. Total(q, S) = (CHOOSE g : Solves(g, q, S))[S]
  BY DEF Total, MapThenSumSet, MapThenFoldSet, Solves, Picked
<1>2. Solves(CHOOSE g : Solves(g, q, S), q, S) OBVIOUS
<1> QED BY <1>1, <1>2

\* Taking a payout out takes its units out.
LEMMA UnitsWithout ==
    ASSUME NEW q, NEW S, NEW x \in S, Amount[q[x]] \in Nat, IsFiniteSet(Units(q, S))
    PROVE  /\ IsFiniteSet(Units(q, S \ {x}))
           /\ Cardinality(Units(q, S)) = Amount[q[x]] + Cardinality(Units(q, S \ {x}))
<1> DEFINE one == {x} \X (1 .. Amount[q[x]])
           rest == Units(q, S \ {x})
<1>1. Units(q, S) = one \union rest /\ one \intersect rest = {} /\ rest \subseteq Units(q, S)
  BY DEF Units
<1>2. IsFiniteSet(one) /\ Cardinality(one) = Amount[q[x]]
  <2>1. IsFiniteSet({x}) /\ Cardinality({x}) = 1 BY FS_Singleton
  <2>2. PICK n \in Nat : n = Amount[q[x]] OBVIOUS
  <2>3. IsFiniteSet(1 .. n) /\ Cardinality(1 .. n) = IF 1 > n THEN 0 ELSE n - 1 + 1
    <3>1. 1 \in Int /\ n \in Int OBVIOUS
    <3> QED BY <3>1, FS_Interval, Zenon
  <2>4. Cardinality(1 .. n) = n BY <2>3
  <2>5. IsFiniteSet({x} \X (1 .. n)) /\ Cardinality({x} \X (1 .. n)) = 1 * Cardinality(1 .. n)
    BY <2>1, <2>3, FS_Product
  <2> QED BY <2>2, <2>4, <2>5
<1>3. IsFiniteSet(rest) BY <1>1, FS_Subset
<1> HIDE DEF one, rest
<1>4. Cardinality(one \union rest) = Cardinality(one) + Cardinality(rest) - Cardinality({})
  BY <1>1, <1>2, <1>3, FS_Union
<1>5. Cardinality(one) \in Nat /\ Cardinality(rest) \in Nat /\ Cardinality({}) = 0
  BY <1>2, <1>3, FS_CardinalityType, FS_EmptySet
<1>6. Cardinality(Units(q, S)) = Amount[q[x]] + Cardinality(rest) BY <1>1, <1>2, <1>4, <1>5
<1> QED BY <1>3, <1>6 DEF rest

LEMMA CountSolves ==
    ASSUME NEW q, NEW S, \A k \in S : Amount[q[k]] \in Nat, IsFiniteSet(Units(q, S))
    PROVE  Solves([s \in SUBSET S |-> Cardinality(Units(q, s))], q, S)
<1> DEFINE g == [s \in SUBSET S |-> Cardinality(Units(q, s))]
<1>1. ASSUME NEW s \in SUBSET S
      PROVE  g[s] = IF s = {} THEN 0 ELSE Amount[q[Picked(s)]] + g[s \ {Picked(s)}]
  <2>1. CASE s = {}
    <3>1. Units(q, {}) = {} BY DEF Units
    <3> QED BY <2>1, <3>1, FS_EmptySet
  <2>2. CASE s # {}
    <3>1. Picked(s) \in s BY <2>2 DEF Picked
    <3>2. IsFiniteSet(Units(q, s))
      <4>1. Units(q, s) \subseteq Units(q, S) BY DEF Units
      <4> QED BY <4>1, FS_Subset
    <3>3. Cardinality(Units(q, s)) = Amount[q[Picked(s)]] + Cardinality(Units(q, s \ {Picked(s)}))
      <4>1. PICK x \in s : x = Picked(s) BY <3>1
      <4>2. Amount[q[x]] \in Nat OBVIOUS
      <4> HIDE DEF g
      <4>3. /\ IsFiniteSet(Units(q, s \ {x}))
            /\ Cardinality(Units(q, s)) = Amount[q[x]] + Cardinality(Units(q, s \ {x}))
        <5>1. IsFiniteSet(Units(q, s)) BY <3>2
        <5> QED BY <4>2, <5>1, UnitsWithout
      <4> QED BY <4>1, <4>3
    <3>4. s \ {Picked(s)} \in SUBSET S OBVIOUS
    <3> QED BY <2>2, <3>3, <3>4
  <2> QED BY <2>1, <2>2
<1> QED BY <1>1 DEF Solves

\* Induction over the subsets of a finite set: two solutions agree, since they would
\* differ first on a smallest subset.
LEMMA SolutionIsUnique ==
    ASSUME NEW q, NEW S, IsFiniteSet(S), NEW g, NEW h, Solves(g, q, S), Solves(h, q, S)
    PROVE  g[S] = h[S]
<1> DEFINE Differ == {s \in SUBSET S : g[s] # h[s]}
<1> SUFFICES ASSUME Differ # {} PROVE FALSE OBVIOUS
<1>1. IsWellFoundedOn(StrictSubsetOrdering(S), SUBSET S)
  BY FS_StrictSubsetOrderingWellFounded, FS_FiniteSubsetsOfFinite
<1>2. PICK s \in Differ : \A t \in Differ : <<t, s>> \notin StrictSubsetOrdering(S)
  BY <1>1, WFMin
<1>3. s # {}
  <2>1. g[{}] = 0 /\ h[{}] = 0 BY DEF Solves
  <2> QED BY <2>1
<1> DEFINE t == s \ {Picked(s)}
<1>4. Picked(s) \in s BY <1>3 DEF Picked
<1>5. t \in SUBSET S /\ <<t, s>> \in StrictSubsetOrdering(S)
  BY <1>4 DEF StrictSubsetOrdering
<1>6. g[t] = h[t] BY <1>2, <1>5
<1>7. g[s] = Amount[q[Picked(s)]] + g[t] /\ h[s] = Amount[q[Picked(s)]] + h[t]
  BY <1>3 DEF Solves
<1> QED BY <1>6, <1>7

\* What the sum of Conservation computes, for every finite set of payouts.
LEMMA TotalIsCount ==
    ASSUME NEW q, NEW S, IsFiniteSet(S), \A k \in S : Amount[q[k]] \in Nat,
           IsFiniteSet(Units(q, S))
    PROVE  Total(q, S) = Cardinality(Units(q, S))
<1> DEFINE h == [s \in SUBSET S |-> Cardinality(Units(q, s))]
<1>1. Solves(h, q, S) BY CountSolves
<1>2. PICK g : Solves(g, q, S) /\ Total(q, S) = g[S] BY <1>1, TotalSolves
<1>3. h[S] = Cardinality(Units(q, S)) OBVIOUS
<1> HIDE DEF h
<1> QED BY <1>1, <1>2, <1>3, SolutionIsUnique
-----------------------------------------------------------------------------
(* Types, in three parts that actions touch separately.                    *)

Steps == {"idle", "lookup", "reserve", "start", "finish", "send",
          "mark", "ask", "detached", "refused", "link"}

FundsTyped ==
    /\ quote \in [Quotes -> {"absent", "open", "used"}] /\ stale \subseteq Quotes
    /\ balance \in Int /\ credited \in Nat
    /\ status \in [Keys -> PayoutStatus \union {"absent"}]
    /\ quoteOf \in [Keys -> Quotes \union {None}]
    /\ scenario \in [Keys -> Scenarios \union {"none"}]
    /\ invoiced \in [Keys -> BOOLEAN] /\ linked \in [Keys -> BOOLEAN]
    /\ emitted \in [Keys -> Seq(PayoutStatus)]
    /\ RowInv
PaymentsTyped ==
    /\ payStatus \in [Keys -> PaymentStatus \union {"absent"}]
    /\ payEmitted \in [Keys -> Seq(PaymentStatus)]
    /\ askers \in [Keys -> SUBSET Handlers]
HandlersTyped ==
    /\ pc \in [Handlers -> Steps] /\ order \in [Handlers -> Order] /\ cutShort \subseteq Keys
    /\ OrderInv

LEMMA TypeParts == TypeInv <=> FundsTyped /\ PaymentsTyped /\ HandlersTyped
BY DEF TypeInv, TypeOK, FundsTyped, PaymentsTyped, HandlersTyped, Steps

LEMMA TypePartsNext == FundsTyped' /\ PaymentsTyped' /\ HandlersTyped' => TypeInv'
BY DEF TypeInv, TypeOK, FundsTyped, PaymentsTyped, HandlersTyped, Steps

LEMMA NoOrderTyped == NoOrder \in Order /\ NoOrder.key = None /\ NoOrder.quote = None
BY DEF NoOrder, Order

LEMMA InitTyped == Init => TypeInv
BY NoOrderTyped DEF Init, Pay!Init, TypeInv, TypeOK, OrderInv, RowInv, PayoutStatus, PaymentStatus,
   Scenarios

\* Reserving an order that a handler holds.
LEMMA ReserveTyped ==
    ASSUME TypeInv, NEW o \in Order, o.key \in Keys, o.quote \in Quotes, Reserve(o)
    PROVE  FundsTyped'
<1> USE DEF TypeInv, TypeOK, PayoutStatus
<1>1. Amount[o.quote] \in Nat /\ o.outcome \in Scenarios \union {"none"} /\ o.invoiced \in BOOLEAN
  BY AmountAssumption DEF Order
<1>2. Append(emitted[o.key], "reserved") \in Seq(PayoutStatus) OBVIOUS
<1>3. emitted' \in [Keys -> Seq(PayoutStatus)] BY <1>2 DEF Reserve
<1>4. /\ quote' \in [Quotes -> {"absent", "open", "used"}] /\ stale' \subseteq Quotes
      /\ balance' \in Int /\ credited' \in Nat
  BY <1>1 DEF Reserve
<1>5. /\ status' \in [Keys -> PayoutStatus \union {"absent"}]
      /\ quoteOf' \in [Keys -> Quotes \union {None}]
      /\ scenario' \in [Keys -> Scenarios \union {"none"}]
  BY <1>1 DEF Reserve
<1>6. invoiced' \in [Keys -> BOOLEAN] /\ linked' \in [Keys -> BOOLEAN] BY <1>1 DEF Reserve
<1>7. RowInv' BY DEF Reserve, RowInv
<1> QED BY <1>3, <1>4, <1>5, <1>6, <1>7 DEF FundsTyped

LEMMA AdvanceTyped ==
    ASSUME TypeInv, NEW k \in Keys, NEW to \in PayoutStatus, AdvancePayout(k, to)
    PROVE  FundsTyped'
<1> USE DEF TypeInv, TypeOK
<1>1. CASE ~CanTransition(status[k], to)
  <2>1. UNCHANGED <<funds, payouts>> BY <1>1 DEF AdvancePayout
  <2> QED BY <2>1 DEF funds, payouts, FundsTyped, RowInv
<1>2. CASE CanTransition(status[k], to)
  <2>1. /\ status' = [status EXCEPT ![k] = to]
        /\ balance' = IF to = "failed" THEN balance + Amount[quoteOf[k]] ELSE balance
        /\ emitted' = [emitted EXCEPT ![k] = Append(@, to)]
        /\ UNCHANGED <<quote, stale, credited, quoteOf, scenario, invoiced, linked>>
    BY <1>2 DEF AdvancePayout
  <2>2. status[k] # "absent" BY <1>2 DEF CanTransition
  <2>3. Amount[quoteOf[k]] \in Nat BY <2>2, AmountAssumption DEF RowInv
  <2>4. balance' \in Int BY <2>1, <2>3
  <2>5. Append(emitted[k], to) \in Seq(PayoutStatus) OBVIOUS
  <2>6. emitted' \in [Keys -> Seq(PayoutStatus)] BY <2>1, <2>5
  <2>7. status' \in [Keys -> PayoutStatus \union {"absent"}] BY <2>1
  <2>8. RowInv' BY <2>1, <2>2 DEF RowInv, PayoutStatus
  <2> QED BY <2>1, <2>4, <2>6, <2>7, <2>8 DEF FundsTyped
<1> QED BY <1>1, <1>2

LEMMA PayTyped ==
    ASSUME TypeInv, NEW k \in Keys,
           \/ Pay!Create(k) \/ Pay!Submit(k) \/ Pay!Refuse(k) \/ Pay!Lose(k) \/ Pay!Resolve(k)
           \/ Pay!Announce(k, {"pending", "unknown"}, "failed")
           \/ \E h \in Handlers : Pay!Ask(k, h)
    PROVE  PaymentsTyped'
<1> USE DEF TypeInv, TypeOK, PaymentsTyped
<1>1. CASE Pay!Create(k) \/ Pay!Submit(k)
  BY <1>1 DEF Pay!Create, Pay!Submit, Pay!Move, PaymentStatus
<1>2. ASSUME NEW from, NEW to \in {"succeeded", "failed", "unknown"}, Pay!Announce(k, from, to)
      PROVE  PaymentsTyped'
  <2>1. to \in PaymentStatus /\ Append(payEmitted[k], to) \in Seq(PaymentStatus)
    BY DEF PaymentStatus
  <2> QED BY <1>2, <2>1 DEF Pay!Announce
<1>3. ASSUME NEW h \in Handlers, Pay!Ask(k, h) PROVE PaymentsTyped'
  BY <1>3 DEF Pay!Ask
<1> QED BY <1>1, <1>2, <1>3 DEF Pay!Refuse, Pay!Lose, Pay!Resolve

\* A handler at work goes on to step s, or ends and gives up its order.
Onward(h, s) == /\ pc[h] # "idle" /\ pc' = [pc EXCEPT ![h] = s]
                /\ order' = order \/ (s = "idle" /\ order' = [order EXCEPT ![h] = NoOrder])
                /\ cutShort' = cutShort \/ cutShort' = cutShort \union {order[h].key}

LEMMA StepsOnward ==
    ASSUME TypeInv, NEW h \in Handlers, pc[h] # "idle", NEW s, NEW ok
    PROVE  /\ Goto(h, s) => Onward(h, s)
           /\ End(h) \/ CutShort(h) => Onward(h, "idle")
           /\ Proceed(h, ok, s) => Onward(h, s) \/ Onward(h, "idle")
<1>1. Goto(h, s) => Onward(h, s) BY DEF Goto, Onward
<1>2. End(h) \/ CutShort(h) => Onward(h, "idle") BY DEF End, CutShort, Onward
<1>3. ASSUME Proceed(h, ok, s) PROVE Onward(h, s) \/ Onward(h, "idle")
  <2>1. order = [order EXCEPT ![h] = order[h]] BY DEF TypeInv, TypeOK
  <2>2. CASE ok
    <3>1. pc' = [pc EXCEPT ![h] = s] /\ order' = [order EXCEPT ![h] = order[h]] /\ cutShort' = cutShort
      BY <1>3, <2>2 DEF Proceed
    <3> QED BY <2>1, <3>1 DEF Onward
  <2>3. CASE ~ok BY <1>3, <2>3 DEF Proceed, Onward
  <2> QED BY <2>2, <2>3
<1> QED BY <1>1, <1>2, <1>3

LEMMA HandlerTyped ==
    ASSUME TypeInv, NEW h \in Handlers, NEW s \in Steps, Onward(h, s),
           s # "lookup", s = "reserve" => pc[h] = "lookup"
    PROVE  HandlersTyped'
<1> USE DEF TypeInv, TypeOK, Onward
<1>1. pc' \in [Handlers -> Steps] BY DEF Steps
<1>2. order' \in [Handlers -> Order] BY NoOrderTyped
<1>3. cutShort' \subseteq Keys
  <2>1. order[h].key \in Keys /\ cutShort \subseteq Keys BY DEF OrderInv
  <2>2. cutShort' = cutShort \/ cutShort' = cutShort \union {order[h].key} OBVIOUS
  <2> HIDE DEF Onward, TypeInv, TypeOK
  <2> QED BY <2>1, <2>2
<1>4. OrderInv'
  <2> SUFFICES ASSUME NEW g \in Handlers
               PROVE  /\ pc'[g] # "idle" => order'[g].key \in Keys /\ order'[g].outcome \in Scenarios
                      /\ pc'[g] \in {"lookup", "reserve"} => order'[g].quote \in Quotes
    BY DEF OrderInv
  <2>1. CASE g # h
    <3>1. pc'[g] = pc[g] /\ order'[g] = order[g] BY <2>1
    <3> QED BY <3>1 DEF OrderInv
  <2>2. CASE g = h
    <3>1. pc'[g] = s /\ (s # "idle" => order'[g] = order[g]) BY <2>2
    <3> QED BY <2>2, <3>1 DEF OrderInv
  <2> QED BY <2>1, <2>2
<1> QED BY <1>1, <1>2, <1>3, <1>4 DEF HandlersTyped

\* A handler takes up an order.
LEMMA OrderTaken ==
    ASSUME TypeInv, NEW h \in Handlers, NEW s \in {"lookup", "finish"}, NEW o \in Order,
           o.key \in Keys, o.outcome \in Scenarios, s = "lookup" => o.quote \in Quotes,
           pc' = [pc EXCEPT ![h] = s], order' = [order EXCEPT ![h] = o], cutShort' = cutShort
    PROVE  HandlersTyped'
<1> USE DEF TypeInv, TypeOK
<1>1. pc' \in [Handlers -> Steps] /\ order' \in [Handlers -> Order] BY DEF Steps
<1>2. ASSUME NEW g \in Handlers
      PROVE  /\ pc'[g] # "idle" => order'[g].key \in Keys /\ order'[g].outcome \in Scenarios
             /\ pc'[g] \in {"lookup", "reserve"} => order'[g].quote \in Quotes
  <2>1. CASE g # h
    <3>1. pc'[g] = pc[g] /\ order'[g] = order[g] BY <2>1
    <3> QED BY <3>1 DEF OrderInv
  <2>2. CASE g = h
    <3>1. pc'[g] = s /\ order'[g] = o BY <2>2
    <3> QED BY <3>1
  <2> QED BY <2>1, <2>2
<1>3. OrderInv' BY <1>2 DEF OrderInv
<1> QED BY <1>1, <1>3 DEF HandlersTyped

LEMMA OrdersTyped ==
    /\ \A o \in Orders : o \in Order /\ o.key \in Keys /\ o.quote \in Quotes /\ o.outcome \in Scenarios
    /\ \A k \in Keys, s \in Scenarios :
         LET o == [NoOrder EXCEPT !.key = k, !.outcome = s]
         IN  o \in Order /\ o.key = k /\ o.outcome = s
<1>1. ASSUME NEW o \in Orders
      PROVE  o \in Order /\ o.key \in Keys /\ o.quote \in Quotes /\ o.outcome \in Scenarios
  <2>1. o \in [key : Keys, quote : Quotes, outcome : {"success", "failure", "timeout"},
               invoiced : BOOLEAN]
    BY OrdersAssumption
  <2> QED BY <2>1 DEF Order, Scenarios
<1>2. ASSUME NEW k \in Keys, NEW s \in Scenarios
      PROVE  LET o == [NoOrder EXCEPT !.key = k, !.outcome = s]
             IN  o \in Order /\ o.key = k /\ o.outcome = s
  BY DEF NoOrder, Order
<1> QED BY <1>1, <1>2

LEMMA HandlerStepTyped ==
    ASSUME TypeInv, NEW h \in Handlers,
           \/ CreatePayout(h) \/ ReserveLookup(h) \/ ReservePayout(h) \/ StartPayout(h)
           \/ ReconcileRead(h) \/ FinishPayout(h) \/ SendPayment(h) \/ MarkPending(h)
           \/ AskNode(h) \/ RecordRefusal(h) \/ LinkPayment(h) \/ Abandon(h)
    PROVE  TypeInv'
<1>t. FundsTyped /\ PaymentsTyped /\ HandlersTyped BY TypeParts
<1>f. UNCHANGED <<funds, payouts>> => FundsTyped'
  BY <1>t DEF FundsTyped, funds, payouts, RowInv
<1>p. UNCHANGED payments => PaymentsTyped' BY <1>t DEF PaymentsTyped, payments
<1>o. pc[h] # "idle" => order[h] \in Order /\ order[h].key \in Keys /\ order[h].outcome \in Scenarios
  BY <1>t DEF HandlersTyped, OrderInv
<1>1. CASE CreatePayout(h)
  <2>1. PICK o \in Orders : order' = [order EXCEPT ![h] = o] BY <1>1 DEF CreatePayout
  <2>2. o \in Order /\ o.key \in Keys /\ o.quote \in Quotes /\ o.outcome \in Scenarios
    BY OrdersTyped
  <2>3. HandlersTyped' BY <1>1, <2>1, <2>2, OrderTaken DEF CreatePayout
  <2> QED BY <1>f, <1>p, <1>1, <2>3, TypePartsNext DEF CreatePayout
<1>2. CASE ReconcileRead(h)
  <2>1. PICK k \in Keys, s \in {"success", "failure"} :
          order' = [order EXCEPT ![h] = [NoOrder EXCEPT !.key = k, !.outcome = s]]
    BY <1>2 DEF ReconcileRead
  <2> DEFINE o == [NoOrder EXCEPT !.key = k, !.outcome = s]
  <2>2. o \in Order /\ o.key \in Keys /\ o.outcome \in Scenarios
    <3>1. s \in Scenarios BY DEF Scenarios
    <3> QED BY <3>1, OrdersTyped
  <2>3. order' = [order EXCEPT ![h] = o] BY <2>1
  <2> HIDE DEF o
  <2>4. pc' = [pc EXCEPT ![h] = "finish"] /\ cutShort' = cutShort BY <1>2 DEF ReconcileRead
  <2>5. HandlersTyped' BY <2>2, <2>3, <2>4, OrderTaken
  <2> QED BY <1>f, <1>p, <1>2, <2>5, TypePartsNext DEF ReconcileRead
<1>3. CASE ReserveLookup(h)
  <2>1. HandlersTyped' BY <1>3, StepsOnward, HandlerTyped DEF ReserveLookup, Steps
  <2> QED BY <1>f, <1>p, <1>3, <2>1, TypePartsNext DEF ReserveLookup
<1>4. CASE ReservePayout(h)
  <2>1. HandlersTyped' BY <1>4, StepsOnward, HandlerTyped DEF ReservePayout, Steps
  <2>2. order[h].quote \in Quotes BY <1>4, <1>t DEF ReservePayout, HandlersTyped, OrderInv
  <2>3. FundsTyped' BY <1>f, <1>o, <1>4, <2>2, ReserveTyped DEF ReservePayout
  <2> QED BY <1>p, <1>4, <2>1, <2>3, TypePartsNext DEF ReservePayout
<1>5. CASE StartPayout(h)
  <2>1. HandlersTyped' BY <1>5, StepsOnward, HandlerTyped DEF StartPayout, Steps
  <2>2. FundsTyped' BY <1>o, <1>5, AdvanceTyped DEF StartPayout, PayoutStatus
  <2> QED BY <1>p, <1>5, <2>1, <2>2, TypePartsNext DEF StartPayout
<1>6. CASE FinishPayout(h)
  <2>1. HandlersTyped' BY <1>6, StepsOnward, HandlerTyped DEF FinishPayout, Steps
  <2>2. Outcome(order[h].outcome) \in PayoutStatus BY DEF Outcome, PayoutStatus
  <2>3. FundsTyped' BY <1>o, <1>6, <2>2, AdvanceTyped DEF FinishPayout
  <2> QED BY <1>p, <1>6, <2>1, <2>3, TypePartsNext DEF FinishPayout
<1>7. CASE SendPayment(h)
  <2>1. HandlersTyped' BY <1>7, StepsOnward, HandlerTyped DEF SendPayment, Steps
  <2>2. PaymentsTyped' BY <1>o, <1>p, <1>7, PayTyped DEF SendPayment
  <2> QED BY <1>f, <1>7, <2>1, <2>2, TypePartsNext DEF SendPayment
<1>8. CASE MarkPending(h)
  <2>1. HandlersTyped' BY <1>8, StepsOnward, HandlerTyped DEF MarkPending, Steps
  <2>2. PaymentsTyped' BY <1>o, <1>p, <1>8, PayTyped DEF MarkPending
  <2> QED BY <1>f, <1>8, <2>1, <2>2, TypePartsNext DEF MarkPending
<1>9. CASE AskNode(h)
  <2>1. HandlersTyped' BY <1>9, StepsOnward, HandlerTyped DEF AskNode, Steps
  <2>2. PaymentsTyped' BY <1>o, <1>9, PayTyped DEF AskNode
  <2> QED BY <1>f, <1>9, <2>1, <2>2, TypePartsNext DEF AskNode
<1>10. CASE RecordRefusal(h)
  <2>1. HandlersTyped' BY <1>10, StepsOnward, HandlerTyped DEF RecordRefusal, Steps
  <2>2. PaymentsTyped' BY <1>o, <1>p, <1>10, PayTyped DEF RecordRefusal
  <2> QED BY <1>f, <1>10, <2>1, <2>2, TypePartsNext DEF RecordRefusal
<1>11. CASE LinkPayment(h)
  <2>1. HandlersTyped' BY <1>11, StepsOnward, HandlerTyped DEF LinkPayment, Steps
  <2>2. FundsTyped' BY <1>t, <1>11 DEF LinkPayment, FundsTyped, funds, RowInv
  <2> QED BY <1>p, <1>11, <2>1, <2>2, TypePartsNext DEF LinkPayment
<1>12. CASE Abandon(h)
  <2>1. CASE End(h) \/ CutShort(h)
    <3>1. HandlersTyped' BY <1>12, <2>1, StepsOnward, HandlerTyped DEF Abandon, Steps
    <3> QED BY <1>f, <1>p, <1>12, <3>1, TypePartsNext DEF Abandon
  <2>2. CASE ~(End(h) \/ CutShort(h))
    <3>1. Onward(h, "detached") BY <1>12, <2>2 DEF Abandon, Onward
    <3>2. HandlersTyped' BY <3>1, HandlerTyped DEF Steps
    <3> QED BY <1>f, <1>p, <1>12, <3>2, TypePartsNext DEF Abandon
  <2> QED BY <2>1, <2>2
<1> QED BY <1>1, <1>2, <1>3, <1>4, <1>5, <1>6, <1>7, <1>8, <1>9, <1>10, <1>11, <1>12

LEMMA NextTyped == TypeInv /\ [Next]_vars => TypeInv'
<1> SUFFICES ASSUME TypeInv, [Next]_vars PROVE TypeInv' OBVIOUS
<1>t. FundsTyped /\ PaymentsTyped /\ HandlersTyped BY TypeParts
<1>h. UNCHANGED handlers => HandlersTyped' BY <1>t DEF handlers, HandlersTyped, OrderInv
<1>p. UNCHANGED payments => PaymentsTyped' BY <1>t DEF PaymentsTyped, payments
<1>f. UNCHANGED <<funds, payouts>> => FundsTyped'
  BY <1>t DEF FundsTyped, funds, payouts, RowInv
<1>1. CASE TopUp
  <2>1. FundsTyped' BY <1>t, <1>1, TopUpAssumption DEF TopUp, Credit, FundsTyped, payouts, RowInv
  <2> QED BY <1>h, <1>p, <1>1, <2>1, TypePartsNext DEF TopUp
<1>2. ASSUME NEW q \in Quotes, CreateQuote(q) \/ ExpireQuote(q) PROVE TypeInv'
  <2>1. FundsTyped' BY <1>t, <1>2 DEF CreateQuote, ExpireQuote, FundsTyped, payouts, RowInv
  <2> QED BY <1>h, <1>p, <1>2, <2>1, TypePartsNext DEF CreateQuote, ExpireQuote
<1>3. ASSUME NEW k \in Keys, EngineStep(k) PROVE TypeInv'
  <2>1. PaymentsTyped' BY <1>3, PayTyped DEF EngineStep
  <2> QED BY <1>h, <1>f, <1>3, <2>1, TypePartsNext DEF EngineStep
<1>4. CASE UNCHANGED vars BY <1>h, <1>p, <1>f, <1>4, TypePartsNext DEF vars
<1> QED BY <1>1, <1>2, <1>3, <1>4, HandlerStepTyped DEF Next

\* Every variable of the sandbox keeps its type: rows, balance, event streams, the
\* payments and the handlers' orders.
THEOREM TypeCorrect == Spec => []TypeOK
<1>1. Spec => []TypeInv BY InitTyped, NextTyped, PTL DEF Spec
<1> QED BY <1>1, PTL DEF TypeInv

-----------------------------------------------------------------------------
(* What a step does to a payout, to a payment and to the handlers.         *)

Appears(k) == /\ status[k] = "absent" /\ status'[k] = "reserved"
              /\ emitted'[k] = Append(emitted[k], "reserved")
Moves(k) == /\ CanTransition(status[k], status'[k])
            /\ emitted'[k] = Append(emitted[k], status'[k])
            /\ quoteOf'[k] = quoteOf[k] /\ invoiced'[k] = invoiced[k]
Stays(k) == /\ status'[k] = status[k] /\ emitted'[k] = emitted[k]
            /\ quoteOf'[k] = quoteOf[k] /\ invoiced'[k] = invoiced[k]

LEMMA AdvanceRow ==
    ASSUME TypeInv, NEW k \in Keys, NEW to, AdvancePayout(k, to), NEW j \in Keys
    PROVE  /\ j # k => Stays(j)
           /\ IF CanTransition(status[k], to) THEN Moves(k) /\ status'[k] = to ELSE Stays(k)
           /\ UNCHANGED <<linked, quoteOf, invoiced>>
<1> USE DEF TypeInv, TypeOK
<1>1. CASE CanTransition(status[k], to)
  <2>1. /\ status' = [status EXCEPT ![k] = to]
        /\ emitted' = [emitted EXCEPT ![k] = Append(@, to)]
        /\ UNCHANGED <<quoteOf, invoiced, linked>>
    BY <1>1 DEF AdvancePayout
  <2>2. status'[k] = to /\ emitted'[k] = Append(emitted[k], to) BY <2>1
  <2>3. j # k => status'[j] = status[j] /\ emitted'[j] = emitted[j] BY <2>1
  <2> HIDE DEF TypeInv, TypeOK
  <2> QED BY <1>1, <2>1, <2>2, <2>3 DEF Moves, Stays
<1>2. CASE ~CanTransition(status[k], to)
  BY <1>2 DEF AdvancePayout, payouts, Stays
<1> QED BY <1>1, <1>2

LEMMA ReserveRow ==
    ASSUME TypeInv, NEW o \in Order, o.key \in Keys, status[o.key] = "absent", Reserve(o), NEW j \in Keys
    PROVE  /\ j # o.key => Stays(j)
           /\ j = o.key => Appears(j) /\ quoteOf'[j] = o.quote
           /\ linked' = linked
BY DEF TypeInv, TypeOK, Reserve, Stays, Appears

\* Steps in which handler h acts.
Handles(h) ==
    \/ CreatePayout(h) \/ ReserveLookup(h) \/ ReservePayout(h) \/ StartPayout(h)
    \/ ReconcileRead(h) \/ FinishPayout(h) \/ SendPayment(h) \/ MarkPending(h)
    \/ AskNode(h) \/ RecordRefusal(h) \/ LinkPayment(h) \/ Abandon(h)

\* Steps in which none does leave payouts and handlers alone.
LEMMA NextSplit ==
    ASSUME [Next]_vars
    PROVE  (\E h \in Handlers : Handles(h)) \/ UNCHANGED <<payouts, handlers>>
BY DEF Next, Handles, TopUp, CreateQuote, ExpireQuote, EngineStep, vars

\* What a handler at work holds.
LEMMA AtWork ==
    ASSUME TypeInv, NEW h \in Handlers, pc[h] # "idle"
    PROVE  /\ order[h] \in Order /\ order[h].key \in Keys /\ order[h].outcome \in Scenarios
           /\ pc[h] \in {"lookup", "reserve"} => order[h].quote \in Quotes
BY DEF TypeInv, TypeOK, OrderInv

LEMMA RowSteps ==
    ASSUME TypeInv, [Next]_vars, NEW k \in Keys
    PROVE  Appears(k) \/ Moves(k) \/ Stays(k)
<1>1. ASSUME NEW h \in Handlers, ReservePayout(h) PROVE Appears(k) \/ Stays(k)
  <2>1. order[h] \in Order /\ order[h].key \in Keys BY <1>1, AtWork DEF ReservePayout
  <2>2. CASE UNCHANGED payouts BY <2>2 DEF payouts, Stays
  <2>3. CASE ~UNCHANGED payouts
    <3>1. Reserve(order[h]) /\ status[order[h].key] = "absent" BY <1>1, <2>3 DEF ReservePayout
    <3>2. PICK o \in Order : o = order[h] BY <2>1
    <3>3. o.key \in Keys /\ Reserve(o) /\ status[o.key] = "absent" BY <2>1, <3>1, <3>2
    <3> QED BY <3>3, ReserveRow
  <2> QED BY <2>2, <2>3
<1>2. ASSUME NEW h \in Handlers, StartPayout(h) \/ FinishPayout(h) PROVE Moves(k) \/ Stays(k)
  <2>1. order[h].key \in Keys BY <1>2, AtWork DEF StartPayout, FinishPayout
  <2>2. PICK j \in Keys : j = order[h].key BY <2>1
  <2>3. \E to : AdvancePayout(j, to) BY <1>2, <2>2 DEF StartPayout, FinishPayout
  <2> QED BY <2>3, AdvanceRow
<1>3. ASSUME NEW h \in Handlers,
             \/ CreatePayout(h) \/ ReserveLookup(h) \/ ReconcileRead(h) \/ SendPayment(h)
             \/ MarkPending(h) \/ AskNode(h) \/ RecordRefusal(h) \/ LinkPayment(h) \/ Abandon(h)
      PROVE  Stays(k)
  BY <1>3 DEF CreatePayout, ReserveLookup, ReconcileRead, SendPayment, MarkPending, AskNode,
     RecordRefusal, LinkPayment, Abandon, payouts, Stays
<1>4. CASE UNCHANGED payouts BY <1>4 DEF payouts, Stays
<1> QED BY <1>1, <1>2, <1>3, <1>4, NextSplit DEF Handles

\* The other handlers do not notice.
LEMMA OthersStay ==
    ASSUME TypeInv, NEW h \in Handlers, Handles(h), NEW g \in Handlers, g # h
    PROVE  pc'[g] = pc[g] /\ order'[g] = order[g]
<1>1. ASSUME NEW s, Onward(h, s) PROVE pc'[g] = pc[g] /\ order'[g] = order[g]
  BY <1>1 DEF TypeInv, TypeOK, Onward
<1>2. CASE CreatePayout(h) \/ ReconcileRead(h)
  <2>1. \E s, o : pc' = [pc EXCEPT ![h] = s] /\ order' = [order EXCEPT ![h] = o]
    BY <1>2 DEF CreatePayout, ReconcileRead
  <2> QED BY <2>1 DEF TypeInv, TypeOK
<1>3. CASE ReserveLookup(h) \/ StartPayout(h) \/ FinishPayout(h)
  <2>1. pc[h] # "idle" /\ \E s, ok : Proceed(h, ok, s)
    BY <1>3 DEF ReserveLookup, StartPayout, FinishPayout
  <2> QED BY <1>1, <2>1, StepsOnward
<1>4. CASE \/ ReservePayout(h) \/ SendPayment(h) \/ MarkPending(h) \/ AskNode(h)
           \/ RecordRefusal(h) \/ LinkPayment(h) \/ Abandon(h)
  <2>1. /\ pc[h] # "idle"
        /\ End(h) \/ CutShort(h) \/ Onward(h, "detached") \/ \E s : Goto(h, s)
    BY <1>4 DEF ReservePayout, SendPayment, MarkPending, AskNode, RecordRefusal, LinkPayment,
       Abandon, Onward
  <2> QED BY <1>1, <2>1, StepsOnward
<1> QED BY <1>2, <1>3, <1>4 DEF Handles

\* Payments are not forgotten, and only a handler that sends makes one appear.
LEMMA PaymentsGrow ==
    ASSUME TypeInv, [Next]_vars, NEW k \in Keys
    PROVE  /\ payStatus[k] # "absent" => payStatus'[k] # "absent"
           /\ payStatus'[k] # payStatus[k] /\ payStatus[k] = "absent"
              => \E h \in Handlers : SendPayment(h) /\ order[h].key = k
<1> USE DEF TypeInv, TypeOK
<1>1. ASSUME NEW j \in Keys, NEW from, NEW to \in {"succeeded", "failed", "unknown"},
             "absent" \notin from, Pay!Announce(j, from, to)
      PROVE  /\ payStatus[k] # "absent" => payStatus'[k] # "absent"
             /\ payStatus[k] = "absent" => payStatus'[k] = payStatus[k]
  BY <1>1 DEF Pay!Announce
<1>2. ASSUME NEW j \in Keys, Pay!Submit(j)
      PROVE  /\ payStatus[k] # "absent" => payStatus'[k] # "absent"
             /\ payStatus[k] = "absent" => payStatus'[k] = payStatus[k]
  BY <1>2 DEF Pay!Submit, Pay!Move
<1>3. ASSUME NEW h \in Handlers, SendPayment(h)
      PROVE  /\ payStatus[k] # "absent" => payStatus'[k] # "absent"
             /\ payStatus'[k] # payStatus[k] => order[h].key = k
  BY <1>3 DEF SendPayment, Pay!Create, Pay!Move, payments
<1>4. ASSUME NEW h \in Handlers, MarkPending(h) \/ RecordRefusal(h)
      PROVE  /\ payStatus[k] # "absent" => payStatus'[k] # "absent"
             /\ payStatus[k] = "absent" => payStatus'[k] = payStatus[k]
  <2>1. PICK j \in Keys : j = order[h].key BY <1>4, AtWork DEF MarkPending, RecordRefusal
  <2>2. \/ Pay!Submit(j) \/ Pay!Announce(j, {"pending", "unknown"}, "failed") \/ UNCHANGED payments
    BY <1>4, <2>1 DEF MarkPending, RecordRefusal
  <2> QED BY <1>1, <1>2, <2>2 DEF payments
<1>5. ASSUME NEW h \in Handlers, AskNode(h) PROVE payStatus' = payStatus
  BY <1>5 DEF AskNode, Pay!Ask
<1>6. ASSUME NEW j \in Keys, EngineStep(j)
      PROVE  /\ payStatus[k] # "absent" => payStatus'[k] # "absent"
             /\ payStatus[k] = "absent" => payStatus'[k] = payStatus[k]
  BY <1>1, <1>2, <1>6 DEF EngineStep, Pay!Refuse, Pay!Lose, Pay!Resolve
<1>7. ASSUME \/ \E h \in Handlers : \/ CreatePayout(h) \/ ReserveLookup(h) \/ ReservePayout(h)
                                    \/ StartPayout(h) \/ ReconcileRead(h) \/ FinishPayout(h)
                                    \/ LinkPayment(h) \/ Abandon(h)
             \/ TopUp \/ (\E q \in Quotes : CreateQuote(q) \/ ExpireQuote(q)) \/ UNCHANGED vars
      PROVE  payStatus' = payStatus
  BY <1>7 DEF CreatePayout, ReserveLookup, ReservePayout, StartPayout, ReconcileRead, FinishPayout,
     LinkPayment, Abandon, TopUp, CreateQuote, ExpireQuote, vars, payments
<1> HIDE DEF TypeInv, TypeOK
<1> QED BY <1>3, <1>4, <1>5, <1>6, <1>7 DEF Next

-----------------------------------------------------------------------------
(* Each part of the invariant is kept.                                     *)

\* OutboxMatchesPayout says nothing of the first event of a stored payout that has none.
OutboxInv == /\ OutboxMatchesPayout
             /\ \A k \in Keys : status[k] # "absent" => emitted[k] # <<>>

LEMMA OutboxStep == TypeInv /\ OutboxInv /\ [Next]_vars => OutboxInv'
<1> SUFFICES ASSUME TypeInv, OutboxInv, [Next]_vars, NEW k \in Keys
             PROVE  LET told == emitted'[k] IN
                    /\ status'[k] = "absent" => told = <<>>
                    /\ status'[k] # "absent" => told[1] = "reserved" /\ told[Len(told)] = status'[k]
                    /\ \A i \in 2 .. Len(told) : CanTransition(told[i - 1], told[i])
                    /\ status'[k] # "absent" => told # <<>>
  BY DEF OutboxInv, OutboxMatchesPayout
<1> DEFINE told == emitted[k]
           tell == emitted'[k]
<1>t. told \in Seq(PayoutStatus) BY DEF TypeInv, TypeOK
<1>i. /\ status[k] = "absent" => told = <<>>
      /\ status[k] # "absent" => told[1] = "reserved" /\ told[Len(told)] = status[k]
      /\ \A i \in 2 .. Len(told) : CanTransition(told[i - 1], told[i])
      /\ status[k] # "absent" => told # <<>>
  BY DEF OutboxInv, OutboxMatchesPayout
<1>1. CASE Stays(k) BY <1>i, <1>1 DEF Stays
<1>2. CASE Appears(k)
  <2>1. tell = Append(told, "reserved") /\ told = <<>> /\ status'[k] = "reserved"
    BY <1>i, <1>2 DEF Appears
  <2>2. tell = <<"reserved">> BY <2>1
  <2> QED BY <2>1, <2>2
<1>3. CASE Moves(k)
  <2>1. /\ tell = Append(told, status'[k]) /\ CanTransition(status[k], status'[k])
        /\ status[k] # "absent" /\ status'[k] # "absent"
    BY <1>3 DEF Moves, CanTransition
  <2>2. Len(told) \in Nat /\ told # <<>> BY <1>t, <1>i, <2>1
  <2>3. /\ Len(told) >= 1 /\ Len(tell) = Len(told) + 1 /\ tell[Len(tell)] = status'[k]
        /\ \A i \in 1 .. Len(told) : tell[i] = told[i]
        /\ tell # <<>>
    BY <1>t, <2>1, <2>2
  <2> HIDE DEF told, tell
  <2>4. tell[1] = "reserved" BY <1>i, <2>1, <2>2, <2>3
  <2>5. ASSUME NEW i \in 2 .. Len(tell) PROVE CanTransition(tell[i - 1], tell[i])
    <3>1. CASE i = Len(tell)
      <4>1. tell[i - 1] = status[k] /\ tell[i] = status'[k] BY <1>i, <2>1, <2>2, <2>3, <3>1
      <4> QED BY <2>1, <4>1
    <3>2. CASE i # Len(tell)
      <4>1. i \in 2 .. Len(told) /\ tell[i] = told[i] /\ tell[i - 1] = told[i - 1]
        BY <2>2, <2>3, <3>2
      <4> QED BY <1>i, <4>1
    <3> QED BY <3>1, <3>2
  <2>6. tell[Len(tell)] = status'[k] /\ tell # <<>> BY <2>3
  <2> QED BY <2>1, <2>4, <2>5, <2>6 DEF tell
<1> QED BY <1>1, <1>2, <1>3, RowSteps

LEMMA QuoteStep == TypeInv /\ QuoteSpentOnce /\ [Next]_vars => QuoteSpentOnce'
<1> SUFFICES ASSUME TypeInv, QuoteSpentOnce, [Next]_vars, NEW q \in Quotes
             PROVE  /\ \A k1, k2 \in Keys : quoteOf'[k1] = q /\ quoteOf'[k2] = q => k1 = k2
                    /\ quote'[q] = "used" <=> \E k \in Keys : quoteOf'[k] = q
  BY DEF QuoteSpentOnce
<1>t. TypeOK /\ RowInv BY DEF TypeInv
<1>i. /\ \A k1, k2 \in Keys : quoteOf[k1] = q /\ quoteOf[k2] = q => k1 = k2
      /\ quote[q] = "used" <=> \E k \in Keys : quoteOf[k] = q
  BY DEF QuoteSpentOnce
<1>1. ASSUME NEW h \in Handlers, ReservePayout(h), ~UNCHANGED <<funds, payouts>>
      PROVE  /\ \A k1, k2 \in Keys : quoteOf'[k1] = q /\ quoteOf'[k2] = q => k1 = k2
             /\ quote'[q] = "used" <=> \E k \in Keys : quoteOf'[k] = q
  <2> DEFINE o == order[h]
  <2>1. /\ quote[o.quote] = "open" /\ status[o.key] = "absent"
        /\ quote' = [quote EXCEPT ![o.quote] = "used"]
        /\ quoteOf' = [quoteOf EXCEPT ![o.key] = o.quote]
    BY <1>1 DEF ReservePayout, Reserve, Reservable
  <2>2. o.key \in Keys /\ o.quote \in Quotes BY <1>1, AtWork DEF ReservePayout
  <2>3. quoteOf[o.key] = None BY <1>t, <2>1, <2>2 DEF RowInv
  <2> HIDE DEF o
  <2>4. CASE q = o.quote
    <3>1. \A k \in Keys : quoteOf[k] # q BY <1>i, <2>1, <2>4
    <3> QED BY <1>t, <2>1, <2>2, <2>4, <3>1 DEF TypeOK
  <2>5. CASE q # o.quote
    <3>1. quote'[q] = quote[q] BY <1>t, <2>1, <2>2, <2>5 DEF TypeOK
    <3>2. \A k \in Keys : quoteOf'[k] = q <=> quoteOf[k] = q
      BY <1>t, <2>1, <2>2, <2>3, <2>5, NoneAssumption DEF TypeOK
    <3> QED BY <1>i, <3>1, <3>2
  <2> QED BY <2>4, <2>5
<1>2. ASSUME NEW h \in Handlers, StartPayout(h) \/ FinishPayout(h) PROVE UNCHANGED <<quote, quoteOf>>
  BY <1>2 DEF StartPayout, FinishPayout, AdvancePayout, funds, payouts
<1>3. ASSUME NEW p \in Quotes, CreateQuote(p)
      PROVE  quoteOf' = quoteOf /\ (quote'[q] = "used" <=> quote[q] = "used")
  BY <1>t, <1>3 DEF CreateQuote, payouts, TypeOK
<1>4. CASE \/ \E h \in Handlers :
                \/ CreatePayout(h) \/ ReserveLookup(h) \/ ReconcileRead(h) \/ SendPayment(h)
                \/ MarkPending(h) \/ AskNode(h) \/ RecordRefusal(h) \/ LinkPayment(h) \/ Abandon(h)
           \/ TopUp \/ (\E p \in Quotes : ExpireQuote(p)) \/ (\E k \in Keys : EngineStep(k))
           \/ UNCHANGED vars
  <2>1. UNCHANGED <<quote, quoteOf>>
    BY <1>4 DEF CreatePayout, ReserveLookup, ReconcileRead, SendPayment, MarkPending, AskNode,
       RecordRefusal, LinkPayment, Abandon, TopUp, ExpireQuote, EngineStep, vars, funds, payouts
  <2> QED BY <1>i, <2>1
<1> QED BY <1>i, <1>1, <1>2, <1>3, <1>4 DEF Next, funds, payouts

LEMMA SendStep ==
    TypeInv /\ SendInv /\ PaymentOnlyAfterPayout /\ LinkInv /\ [Next]_vars
    => SendInv' /\ PaymentOnlyAfterPayout' /\ LinkInv'
<1> SUFFICES ASSUME TypeInv, SendInv, PaymentOnlyAfterPayout, LinkInv, [Next]_vars
             PROVE  SendInv' /\ PaymentOnlyAfterPayout' /\ LinkInv'
  OBVIOUS
<1>t. TypeOK BY DEF TypeInv
\* A payout that has succeeded, and its invoice, stay as they are.
<1>s. ASSUME NEW k \in Keys, status[k] = "succeeded", invoiced[k]
      PROVE  status'[k] = "succeeded" /\ invoiced'[k]
  <2>1. Stays(k) BY <1>s, RowSteps DEF Appears, Moves, CanTransition
  <2> QED BY <1>s, <2>1 DEF Stays
\* A handler that has not moved.
<1>k. ASSUME NEW g \in Handlers, pc'[g] = pc[g], order'[g] = order[g]
      PROVE  /\ pc'[g] = "send" => invoiced'[order'[g].key] /\ status'[order'[g].key] = "succeeded"
             /\ pc'[g] \in {"mark", "ask", "detached", "refused", "link"}
                => payStatus'[order'[g].key] # "absent"
  <2>1. CASE pc[g] \notin {"send", "mark", "ask", "detached", "refused", "link"} BY <1>k, <2>1
  <2>2. CASE pc[g] \in {"send", "mark", "ask", "detached", "refused", "link"}
    <3>1. PICK k \in Keys : k = order[g].key BY <2>2, AtWork
    <3> QED BY <1>k, <1>s, <3>1, PaymentsGrow DEF SendInv
  <2> QED BY <2>1, <2>2
<1>1. SendInv'
  <2> SUFFICES ASSUME NEW g \in Handlers
      PROVE  /\ pc'[g] = "send" => invoiced'[order'[g].key] /\ status'[order'[g].key] = "succeeded"
             /\ pc'[g] \in {"mark", "ask", "detached", "refused", "link"}
                => payStatus'[order'[g].key] # "absent"
    BY DEF SendInv
  <2>1. CASE UNCHANGED handlers BY <1>k, <2>1 DEF handlers
  <2>2. ASSUME NEW h \in Handlers, Handles(h), h # g
        PROVE  pc'[g] = pc[g] /\ order'[g] = order[g]
    BY <2>2, OthersStay
  <2>3. CASE \/ CreatePayout(g) \/ ReserveLookup(g) \/ ReservePayout(g) \/ StartPayout(g)
             \/ ReconcileRead(g) \/ LinkPayment(g)
    <3>1. pc'[g] \in {"idle", "lookup", "reserve", "start", "finish"}
      <4>1. CASE ReserveLookup(g) \/ StartPayout(g)
        <5>1. \E ok, s : s \in {"reserve", "finish"} /\ Proceed(g, ok, s)
          BY <4>1 DEF ReserveLookup, StartPayout
        <5> QED BY <1>t, <5>1 DEF Proceed, TypeOK
      <4>2. CASE CreatePayout(g) \/ ReservePayout(g) \/ ReconcileRead(g) \/ LinkPayment(g)
        <5>1. \E s \in {"idle", "lookup", "start", "finish"} : pc' = [pc EXCEPT ![g] = s]
          BY <4>2 DEF CreatePayout, ReservePayout, ReconcileRead, LinkPayment, Goto, End
        <5> QED BY <1>t, <5>1 DEF TypeOK
      <4> QED BY <2>3, <4>1, <4>2
    <3> QED BY <3>1
  <2>4. CASE FinishPayout(g)
    <3>1. PICK k \in Keys : k = order[g].key BY <2>4, AtWork DEF FinishPayout
    <3> DEFINE to == Outcome(order[g].outcome)
               ok == Accepts(k, to) /\ to = "succeeded" /\ invoiced[k]
    <3>2. AdvancePayout(k, to) /\ Proceed(g, ok, "send") BY <2>4, <3>1 DEF FinishPayout
    <3>3. CASE ~ok
      <4>1. pc'[g] = "idle" BY <1>t, <3>2, <3>3 DEF Proceed, TypeOK
      <4> QED BY <4>1
    <3>4. CASE ok
      <4>1. pc'[g] = "send" /\ order'[g] = order[g] BY <1>t, <3>2, <3>4 DEF Proceed, TypeOK
      <4>2. invoiced' = invoiced /\ status'[k] = "succeeded"
        BY <3>2, <3>4, AdvanceRow DEF Accepts, Stays
      <4> QED BY <3>1, <3>4, <4>1, <4>2
    <3> QED BY <3>3, <3>4
  <2>5. CASE SendPayment(g)
    <3>1. PICK k \in Keys : k = order[g].key BY <2>5, AtWork DEF SendPayment
    <3>2. pc'[g] \in {"mark", "link"} /\ order'[g] = order[g]
      BY <1>t, <2>5 DEF SendPayment, Goto, TypeOK
    <3>3. payStatus'[k] # "absent"
      BY <1>t, <2>5, <3>1 DEF SendPayment, Pay!Create, Pay!Move, payments, TypeOK
    <3> QED BY <3>1, <3>2, <3>3
  <2>6. CASE MarkPending(g) \/ AskNode(g) \/ RecordRefusal(g)
    <3>1. PICK k \in Keys : k = order[g].key
      BY <2>6, AtWork DEF MarkPending, AskNode, RecordRefusal
    <3>2. pc'[g] \in {"ask", "refused", "link", "idle"} /\ (pc'[g] # "idle" => order'[g] = order[g])
      BY <1>t, <2>6 DEF MarkPending, AskNode, RecordRefusal, Goto, End, CutShort, TypeOK
    <3>3. payStatus[k] # "absent" BY <2>6, <3>1 DEF MarkPending, AskNode, RecordRefusal, SendInv
    <3> QED BY <3>1, <3>2, <3>3, PaymentsGrow
  <2>7. CASE Abandon(g)
    <3>1. \/ pc'[g] = "idle"
          \/ pc[g] = "ask" /\ pc'[g] = "detached" /\ order'[g] = order[g]
      BY <1>t, <2>7 DEF Abandon, End, CutShort, TypeOK
    <3>2. CASE pc'[g] = "detached"
      <4>1. PICK k \in Keys : k = order[g].key BY <3>1, <3>2, AtWork
      <4> QED BY <3>1, <3>2, <4>1, PaymentsGrow DEF SendInv
    <3> QED BY <3>1, <3>2
  <2>8. Handles(g) => \/ CreatePayout(g) \/ ReserveLookup(g) \/ ReservePayout(g) \/ StartPayout(g)
                      \/ ReconcileRead(g) \/ LinkPayment(g) \/ FinishPayout(g) \/ SendPayment(g)
                      \/ MarkPending(g) \/ AskNode(g) \/ RecordRefusal(g) \/ Abandon(g)
    BY DEF Handles
  <2> QED BY <1>k, <2>1, <2>2, <2>3, <2>4, <2>5, <2>6, <2>7, <2>8, NextSplit
<1>2. PaymentOnlyAfterPayout'
  <2> SUFFICES ASSUME NEW k \in Keys, payStatus'[k] # "absent"
               PROVE  invoiced'[k] /\ status'[k] = "succeeded"
    BY DEF PaymentOnlyAfterPayout
  <2>1. invoiced[k] /\ status[k] = "succeeded"
    <3>1. CASE payStatus[k] # "absent" BY <3>1 DEF PaymentOnlyAfterPayout
    <3>2. CASE payStatus[k] = "absent"
      <4>1. PICK h \in Handlers : SendPayment(h) /\ order[h].key = k BY <3>2, PaymentsGrow
      <4> QED BY <4>1 DEF SendPayment, SendInv
    <3> QED BY <3>1, <3>2
  <2> QED BY <1>s, <2>1
<1>3. LinkInv'
  <2> SUFFICES ASSUME NEW k \in Keys, linked'[k] PROVE payStatus[k] # "absent"
    BY PaymentsGrow DEF LinkInv
  <2>1. ASSUME NEW h \in Handlers, LinkPayment(h) PROVE payStatus[k] # "absent"
    <3>1. CASE order[h].key = k BY <2>1, <3>1 DEF LinkPayment, SendInv
    <3>2. CASE order[h].key # k BY <1>t, <2>1, <3>2 DEF LinkPayment, LinkInv, TypeOK
    <3> QED BY <3>1, <3>2
  <2>2. CASE linked' = linked BY <2>2 DEF LinkInv
  <2>3. linked' = linked \/ \E h \in Handlers : LinkPayment(h)
    BY NextSplit DEF Handles, CreatePayout, ReserveLookup, ReservePayout, Reserve, StartPayout,
       FinishPayout, AdvancePayout, ReconcileRead, SendPayment, MarkPending, AskNode, RecordRefusal,
       Abandon, payouts
  <2> QED BY <2>1, <2>2, <2>3
<1> QED BY <1>1, <1>2, <1>3

-----------------------------------------------------------------------------
(* Payouts that somebody works on.                                         *)

Paying == {"send", "mark", "ask", "refused", "link"}

\* What WorkInv says of one payout.
Worked(k) ==
    /\ status[k] = "reserved" => Working(k, {"start"})
    /\ status[k] = "pending" => Working(k, {"finish"})
    /\ status[k] = "succeeded" /\ invoiced[k] /\ ~linked[k] => Working(k, Paying)

\* A step of handler h that leaves payout k alone, and does not stop working on it.
LEMMA WorkKept ==
    ASSUME TypeInv, NEW h \in Handlers, Handles(h), NEW k \in Keys, Worked(k), Stays(k),
           linked'[k] = linked[k],
           \/ pc[h] \in {"idle", "lookup", "reserve", "detached"}
           \/ order[h].key # k
           \/ pc[h] \in Paying /\ pc'[h] \in Paying /\ order'[h] = order[h]
    PROVE  Worked(k)'
<1>1. ASSUME NEW g \in Handlers, order[g].key = k,
             pc[g] \in {"start", "finish"} \union Paying
      PROVE  /\ order'[g].key = k
             /\ pc[g] = "start" => pc'[g] = "start"
             /\ pc[g] = "finish" => pc'[g] = "finish"
             /\ pc[g] \in Paying => pc'[g] \in Paying
  <2>1. CASE g # h BY <1>1, <2>1, OthersStay
  <2>2. CASE g = h BY <1>1, <2>2 DEF Paying
  <2> QED BY <2>1, <2>2
<1> QED BY <1>1 DEF Worked, Working, Stays

LEMMA WorkStep == TypeInv /\ WorkInv /\ [Next]_vars => WorkInv'
<1> SUFFICES ASSUME TypeInv, WorkInv, [Next]_vars, NEW k \in Keys, k \notin cutShort'
             PROVE  Worked(k)'
  BY DEF WorkInv, Worked, Paying
<1>t. TypeOK BY DEF TypeInv
<1>1. CASE UNCHANGED <<payouts, handlers>>
  <2>1. Worked(k) BY <1>1 DEF WorkInv, Worked, Paying, handlers
  <2> QED BY <1>1, <2>1 DEF Worked, Working, payouts, handlers
<1>2. ASSUME NEW h \in Handlers, Handles(h) PROVE Worked(k)'
  <2>c. k \notin cutShort
    <3>1. \/ cutShort' = cutShort \/ cutShort' = cutShort \union {order[h].key}
      BY <1>2 DEF Handles, CreatePayout, ReserveLookup, ReservePayout, StartPayout, ReconcileRead,
         FinishPayout, SendPayment, MarkPending, AskNode, RecordRefusal, LinkPayment, Abandon,
         Goto, End, Proceed, CutShort
    <3> QED BY <3>1
  <2>w. Worked(k) BY <2>c DEF WorkInv, Worked, Paying
  <2>1. CASE CreatePayout(h) \/ ReconcileRead(h) \/ ReserveLookup(h)
    <3>1. pc[h] \in {"idle", "lookup"} /\ UNCHANGED payouts
      BY <2>1 DEF CreatePayout, ReconcileRead, ReserveLookup
    <3> QED BY <1>2, <2>w, <3>1, WorkKept DEF payouts, Stays
  <2>2. CASE ReservePayout(h)
    <3>1. CASE UNCHANGED payouts
      BY <1>2, <2>w, <2>2, <3>1, WorkKept DEF ReservePayout, payouts, Stays
    <3>2. CASE ~UNCHANGED payouts
      <4>1. /\ Reserve(order[h]) /\ Goto(h, "start") /\ status[order[h].key] = "absent"
            /\ pc[h] = "reserve"
        BY <2>2, <3>2 DEF ReservePayout
      <4>2. PICK o \in Order : o = order[h] /\ o.key \in Keys BY <4>1, AtWork
      <4>3. linked' = linked /\ (k # o.key => Stays(k)) /\ (k = o.key => status'[k] = "reserved")
        BY <4>1, <4>2, ReserveRow DEF Appears
      <4>4. CASE k # o.key BY <1>2, <2>w, <4>1, <4>2, <4>3, <4>4, WorkKept
      <4>5. CASE k = o.key
        <5>1. pc'[h] = "start" /\ order'[h].key = k BY <1>t, <4>1, <4>2, <4>5 DEF Goto, TypeOK
        <5> QED BY <4>3, <4>5, <5>1 DEF Worked, Working
      <4> QED BY <4>4, <4>5
    <3> QED BY <3>1, <3>2
  <2>3. CASE StartPayout(h)
    <3>1. PICK j \in Keys : j = order[h].key BY <2>3, AtWork DEF StartPayout
    <3>2. /\ AdvancePayout(j, "pending") /\ Proceed(h, Accepts(j, "pending"), "finish")
          /\ pc[h] = "start"
      BY <2>3, <3>1 DEF StartPayout
    <3>3. CASE k # j
      <4>1. Stays(k) /\ linked' = linked BY <3>2, <3>3, AdvanceRow
      <4> QED BY <1>2, <2>w, <3>1, <3>3, <4>1, WorkKept
    <3>4. CASE k = j /\ Accepts(k, "pending")
      <4>1. status'[k] = "pending" BY <3>2, <3>4, AdvanceRow DEF Accepts, Stays
      <4>2. pc'[h] = "finish" /\ order'[h] = order[h]
        BY <1>t, <3>2, <3>4 DEF Proceed, TypeOK
      <4> QED BY <3>1, <3>4, <4>1, <4>2 DEF Worked, Working
    <3>5. CASE k = j /\ ~Accepts(k, "pending")
      <4>1. Stays(k) /\ linked' = linked BY <3>2, <3>5, AdvanceRow DEF Accepts
      <4>2. status[k] \notin {"reserved", "pending"} BY <3>5 DEF Accepts, CanTransition
      <4>3. ASSUME NEW g \in Handlers, order[g].key = k, pc[g] \in Paying
            PROVE  order'[g].key = k /\ pc'[g] \in Paying
        BY <1>2, <3>2, <4>3, OthersStay DEF Paying
      <4> QED BY <2>w, <4>1, <4>2, <4>3 DEF Worked, Working, Stays
    <3> QED BY <3>3, <3>4, <3>5
  <2>4. CASE FinishPayout(h)
    <3>1. PICK j \in Keys : j = order[h].key BY <2>4, AtWork DEF FinishPayout
    <3> DEFINE to == Outcome(order[h].outcome)
               ok == Accepts(j, to) /\ to = "succeeded" /\ invoiced[j]
    <3>2. AdvancePayout(j, to) /\ Proceed(h, ok, "send") /\ pc[h] = "finish"
      BY <2>4, <3>1 DEF FinishPayout
    <3>o. to \in {"succeeded", "failed", "unknown"} BY DEF Outcome
    <3> HIDE DEF to
    <3>3. CASE k # j
      <4>1. Stays(k) /\ linked' = linked BY <3>2, <3>3, AdvanceRow
      <4> QED BY <1>2, <2>w, <3>1, <3>3, <4>1, WorkKept
    <3>4. CASE k = j /\ CanTransition(status[k], to)
      <4>1. status'[k] = to /\ UNCHANGED <<linked, invoiced>> BY <3>2, <3>4, AdvanceRow
      <4>2. CASE ok
        <5>1. pc'[h] = "send" /\ order'[h] = order[h] BY <1>t, <3>2, <4>2 DEF Proceed, TypeOK
        <5> QED BY <3>1, <3>4, <4>1, <4>2, <5>1 DEF Worked, Working, Paying
      <4>3. CASE ~ok BY <3>4, <3>o, <4>1, <4>3 DEF Worked, Accepts
      <4> QED BY <4>2, <4>3
    <3>5. CASE k = j /\ ~CanTransition(status[k], to)
      <4>1. Stays(k) /\ linked' = linked BY <3>2, <3>5, AdvanceRow
      <4>2. status[k] # "pending" BY <3>5, <3>o DEF CanTransition
      <4>3. ASSUME NEW g \in Handlers, order[g].key = k, pc[g] \in Paying \union {"start"}
            PROVE  order'[g].key = k /\ pc'[g] = pc[g]
        BY <1>2, <3>2, <4>3, OthersStay DEF Paying
      <4> QED BY <2>w, <4>1, <4>2, <4>3 DEF Worked, Working, Stays
    <3> QED BY <3>3, <3>4, <3>5
  <2>5. CASE SendPayment(h) \/ MarkPending(h) \/ AskNode(h) \/ RecordRefusal(h)
    <3>1. UNCHANGED payouts BY <2>5 DEF SendPayment, MarkPending, AskNode, RecordRefusal
    <3>2. \/ pc[h] = "detached"
          \/ order[h].key \in cutShort'
          \/ pc[h] \in Paying /\ pc'[h] \in Paying /\ order'[h] = order[h]
      <4>1. ASSUME NEW s \in Paying, Goto(h, s) PROVE pc'[h] \in Paying /\ order'[h] = order[h]
        BY <1>t, <4>1 DEF Goto, TypeOK
      <4>2. CutShort(h) => order[h].key \in cutShort' BY DEF CutShort
      <4>3. \/ pc[h] = "detached"
            \/ pc[h] \in Paying /\ (CutShort(h) \/ \E s \in Paying : Goto(h, s))
        BY <2>5 DEF SendPayment, MarkPending, AskNode, RecordRefusal, Paying
      <4> QED BY <4>1, <4>2, <4>3
    <3> QED BY <1>2, <2>w, <3>1, <3>2, WorkKept DEF payouts, Stays
  <2>6. CASE LinkPayment(h)
    <3>1. /\ Stays(k) /\ pc[h] = "link" /\ linked' = [linked EXCEPT ![order[h].key] = TRUE]
      BY <2>6 DEF LinkPayment, Stays
    <3>2. CASE order[h].key # k
      <4>1. linked'[k] = linked[k] BY <1>t, <3>1, <3>2 DEF TypeOK
      <4> QED BY <1>2, <2>w, <3>1, <3>2, <4>1, WorkKept
    <3>3. CASE order[h].key = k
      <4>1. linked'[k] BY <1>t, <3>1, <3>3 DEF TypeOK
      <4>2. ASSUME NEW g \in Handlers, order[g].key = k, pc[g] \in {"start", "finish"}
            PROVE  order'[g].key = k /\ pc'[g] = pc[g]
        BY <1>2, <3>1, <4>2, OthersStay
      <4> QED BY <2>w, <3>1, <4>1, <4>2 DEF Worked, Working, Stays
    <3> QED BY <3>2, <3>3
  <2>7. CASE Abandon(h)
    <3>1. UNCHANGED payouts BY <2>7 DEF Abandon
    <3>2. pc[h] \in {"lookup", "reserve"} \/ order[h].key \in cutShort'
      BY <2>7 DEF Abandon, CutShort
    <3> QED BY <1>2, <2>w, <3>1, <3>2, WorkKept DEF payouts, Stays
  <2> QED BY <1>2, <2>1, <2>2, <2>3, <2>4, <2>5, <2>6, <2>7 DEF Handles
<1> QED BY <1>1, <1>2, NextSplit

-----------------------------------------------------------------------------
(* Money.                                                                  *)

\* The balance and the units that payouts hold make up what was credited.
MoneyInv == /\ IsFiniteSet(Held) /\ IsFiniteSet(Units(quoteOf, Held))
            /\ balance >= 0
            /\ balance + Cardinality(Units(quoteOf, Held)) = credited

\* A payout that joins brings its units.
LEMMA UnitsWith ==
    ASSUME NEW q, NEW S, NEW x, x \notin S, Amount[q[x]] \in Nat, IsFiniteSet(Units(q, S))
    PROVE  /\ IsFiniteSet(Units(q, S \union {x}))
           /\ Cardinality(Units(q, S \union {x})) = Amount[q[x]] + Cardinality(Units(q, S))
<1> DEFINE T == S \union {x}
<1>1. T \ {x} = S /\ x \in T OBVIOUS
<1>2. IsFiniteSet(Units(q, T))
  <2>1. Units(q, T) = Units(q, S) \union ({x} \X (1 .. Amount[q[x]])) BY DEF Units
  <2>2. IsFiniteSet({x}) BY FS_Singleton
  <2>3. IsFiniteSet(1 .. Amount[q[x]])
    <3>1. 1 \in Int /\ Amount[q[x]] \in Int OBVIOUS
    <3> QED BY <3>1, FS_Interval, Zenon
  <2> DEFINE A == Units(q, S)
             B == {x} \X (1 .. Amount[q[x]])
  <2>4. IsFiniteSet(A) /\ IsFiniteSet(B) BY <2>2, <2>3, FS_Product
  <2>5. Units(q, T) = A \union B BY <2>1
  <2> HIDE DEF A, B, T
  <2>6. IsFiniteSet(A \union B) BY <2>4, FS_Union
  <2> QED BY <2>5, <2>6
<1> HIDE DEF T
<1>3. Cardinality(Units(q, T)) = Amount[q[x]] + Cardinality(Units(q, T \ {x}))
  BY <1>1, <1>2, UnitsWithout
<1> QED BY <1>1, <1>2, <1>3 DEF T

LEMMA MoneyStep == TypeInv /\ MoneyInv /\ [Next]_vars => MoneyInv'
<1> SUFFICES ASSUME TypeInv, MoneyInv, [Next]_vars PROVE MoneyInv' OBVIOUS
<1>t. TypeOK /\ RowInv BY DEF TypeInv
<1>n. Cardinality(Units(quoteOf, Held)) \in Nat BY FS_CardinalityType DEF MoneyInv
<1>1. ASSUME NEW h \in Handlers, ReservePayout(h), ~UNCHANGED <<funds, payouts>> PROVE MoneyInv'
  <2>1. order[h].key \in Keys /\ order[h].quote \in Quotes BY <1>1, AtWork DEF ReservePayout
  <2>2. PICK k \in Keys, q \in Quotes : k = order[h].key /\ q = order[h].quote BY <2>1
  <2>3. /\ balance >= Amount[q] /\ status[k] = "absent"
        /\ balance' = balance - Amount[q] /\ credited' = credited
        /\ status' = [status EXCEPT ![k] = "reserved"]
        /\ quoteOf' = [quoteOf EXCEPT ![k] = q]
    BY <1>1, <2>2 DEF ReservePayout, Reserve, Reservable
  <2>4. k \notin Held /\ Held' = Held \union {k} BY <1>t, <2>3 DEF Held, TypeOK
  <2>5. quoteOf'[k] = q /\ \A j \in Held : quoteOf'[j] = quoteOf[j]
    BY <1>t, <2>3, <2>4 DEF Held, TypeOK
  <2>6. Amount[q] \in Nat BY AmountAssumption
  <2>7. Units(quoteOf', Held) = Units(quoteOf, Held) BY <2>5 DEF Units
  <2>8. /\ IsFiniteSet(Units(quoteOf', Held \union {k}))
        /\ Cardinality(Units(quoteOf', Held \union {k})) = Amount[q] + Cardinality(Units(quoteOf, Held))
    <3> DEFINE p == quoteOf'
    <3>1. Amount[p[k]] \in Nat /\ IsFiniteSet(Units(p, Held)) BY <2>5, <2>6, <2>7 DEF MoneyInv
    <3> HIDE DEF p
    <3>2. /\ IsFiniteSet(Units(p, Held \union {k}))
          /\ Cardinality(Units(p, Held \union {k})) = Amount[p[k]] + Cardinality(Units(p, Held))
      BY <2>4, <3>1, UnitsWith
    <3> QED BY <2>5, <2>7, <3>2 DEF p
  <2>9. IsFiniteSet(Held \union {k}) BY FS_AddElement DEF MoneyInv
  <2>10. balance' >= 0 /\ balance' + (Amount[q] + Cardinality(Units(quoteOf, Held))) = credited'
    BY <1>t, <1>n, <2>3, <2>6 DEF MoneyInv, TypeOK
  <2> QED BY <2>4, <2>8, <2>9, <2>10 DEF MoneyInv
<1>2. ASSUME NEW k \in Keys, NEW to, AdvancePayout(k, to) PROVE MoneyInv'
  <2>1. CASE ~CanTransition(status[k], to)
    BY <1>2, <2>1 DEF AdvancePayout, funds, payouts, MoneyInv, Held
  <2>2. CASE CanTransition(status[k], to)
    <3>1. /\ status' = [status EXCEPT ![k] = to]
          /\ balance' = IF to = "failed" THEN balance + Amount[quoteOf[k]] ELSE balance
          /\ UNCHANGED <<credited, quoteOf>>
      BY <1>2, <2>2 DEF AdvancePayout
    <3>2. k \in Held /\ to # "absent" BY <2>2 DEF CanTransition, Held
    <3>3. CASE to # "failed"
      <4>1. Held' = Held BY <1>t, <3>1, <3>2, <3>3 DEF Held, TypeOK
      <4> QED BY <3>1, <3>3, <4>1 DEF MoneyInv
    <3>4. CASE to = "failed"
      <4>1. Held' = Held \ {k} BY <1>t, <3>1, <3>2, <3>4 DEF Held, TypeOK
      <4>2. Amount[quoteOf[k]] \in Nat BY <1>t, <3>2, AmountAssumption DEF RowInv, Held
      <4>3. /\ IsFiniteSet(Units(quoteOf, Held \ {k}))
            /\ Cardinality(Units(quoteOf, Held))
               = Amount[quoteOf[k]] + Cardinality(Units(quoteOf, Held \ {k}))
        BY <3>2, <4>2, UnitsWithout DEF MoneyInv
      <4>4. Cardinality(Units(quoteOf, Held \ {k})) \in Nat BY <4>3, FS_CardinalityType
      <4>5. IsFiniteSet(Held \ {k}) BY FS_RemoveElement DEF MoneyInv
      <4>6. /\ balance' >= 0
            /\ balance' + Cardinality(Units(quoteOf, Held \ {k})) = credited
        BY <1>t, <3>1, <3>4, <4>2, <4>3, <4>4 DEF MoneyInv, TypeOK
      <4> QED BY <3>1, <4>1, <4>3, <4>5, <4>6 DEF MoneyInv
    <3> QED BY <3>3, <3>4
  <2> QED BY <2>1, <2>2
<1>3. CASE TopUp
  <2>1. PICK a \in TopUps : credited' = credited + a /\ balance' = balance + a
    BY <1>3 DEF TopUp, Credit
  <2>2. a \in Nat BY TopUpAssumption
  <2>3. UNCHANGED <<quoteOf, status>> BY <1>3 DEF TopUp, payouts
  <2>4. Held' = Held /\ quoteOf' = quoteOf BY <2>3 DEF Held
  <2>5. balance' >= 0 /\ balance' + Cardinality(Units(quoteOf, Held)) = credited'
    <3>1. PICK n \in Nat : n = Cardinality(Units(quoteOf, Held)) BY <1>n
    <3>2. balance \in Int /\ credited \in Nat BY <1>t DEF TypeOK
    <3>3. balance >= 0 /\ balance + n = credited BY <3>1 DEF MoneyInv
    <3>4. balance' >= 0 /\ balance' + n = credited' BY <2>1, <2>2, <3>2, <3>3
    <3> QED BY <3>1, <3>4
  <2>6. IsFiniteSet(Held) /\ IsFiniteSet(Units(quoteOf, Held)) BY DEF MoneyInv
  <2> QED BY <2>4, <2>5, <2>6 DEF MoneyInv
<1>4. ASSUME NEW h \in Handlers, StartPayout(h) \/ FinishPayout(h) PROVE MoneyInv'
  <2>1. PICK k \in Keys : k = order[h].key BY <1>4, AtWork DEF StartPayout, FinishPayout
  <2> QED BY <1>2, <1>4, <2>1 DEF StartPayout, FinishPayout
<1>5. CASE UNCHANGED <<balance, credited, status, quoteOf>> BY <1>5 DEF MoneyInv, Held
<1>6. CASE \/ \E h \in Handlers :
                \/ CreatePayout(h) \/ ReserveLookup(h) \/ ReconcileRead(h) \/ SendPayment(h)
                \/ MarkPending(h) \/ AskNode(h) \/ RecordRefusal(h) \/ LinkPayment(h) \/ Abandon(h)
           \/ (\E p \in Quotes : CreateQuote(p) \/ ExpireQuote(p)) \/ (\E k \in Keys : EngineStep(k))
           \/ UNCHANGED vars
  BY <1>5, <1>6 DEF CreatePayout, ReserveLookup, ReconcileRead, SendPayment, MarkPending, AskNode,
     RecordRefusal, LinkPayment, Abandon, CreateQuote, ExpireQuote, EngineStep, vars, funds, payouts
<1> QED BY <1>1, <1>3, <1>4, <1>5, <1>6 DEF Next, funds, payouts

-----------------------------------------------------------------------------

IInv == /\ OutboxInv /\ QuoteSpentOnce /\ SendInv /\ PaymentOnlyAfterPayout /\ LinkInv
        /\ WorkInv /\ MoneyInv

LEMMA Invariant == Spec => [](TypeInv /\ IInv)
<1>1. ASSUME Init PROVE IInv
  <2>1. Held = {} BY <1>1 DEF Init, Held
  <2>2. Units(quoteOf, {}) = {} BY DEF Units
  <2>3. MoneyInv
    <3>1. IsFiniteSet({}) /\ Cardinality({}) = 0 BY FS_EmptySet
    <3>2. balance = 0 /\ credited = 0 BY <1>1 DEF Init
    <3>3. Units(quoteOf, Held) = {} BY <2>1, <2>2
    <3>4. balance >= 0 /\ balance + Cardinality(Units(quoteOf, Held)) = credited
      BY <3>1, <3>2, <3>3
    <3>5. IsFiniteSet(Held) /\ IsFiniteSet(Units(quoteOf, Held)) BY <2>1, <3>1, <3>3
    <3> QED BY <3>4, <3>5 DEF MoneyInv
  <2>4. OutboxInv BY <1>1 DEF Init, OutboxInv, OutboxMatchesPayout
  <2>5. QuoteSpentOnce BY <1>1, NoneAssumption DEF Init, QuoteSpentOnce
  <2>6. SendInv /\ PaymentOnlyAfterPayout /\ LinkInv /\ WorkInv
    BY <1>1 DEF Init, Pay!Init, SendInv, PaymentOnlyAfterPayout, LinkInv, WorkInv
  <2> QED BY <2>3, <2>4, <2>5, <2>6 DEF IInv
<1>2. TypeInv /\ IInv /\ [Next]_vars => IInv'
  BY OutboxStep, QuoteStep, SendStep, WorkStep, MoneyStep DEF IInv
<1> QED BY <1>1, <1>2, InitTyped, NextTyped, PTL DEF Spec

\* Money is neither made nor lost: the balance and what unfailed payouts hold add up to
\* what was credited, and the balance is never negative, however many handlers race on
\* a quote, a key or a verdict.
THEOREM MoneyIsConserved == Spec => []Conservation
<1>1. TypeInv /\ IInv => Conservation
  <2> SUFFICES ASSUME TypeInv, MoneyInv PROVE Conservation BY DEF IInv
  <2>1. \A k \in Held : Amount[quoteOf[k]] \in Nat
    BY AmountAssumption DEF TypeInv, RowInv, Held
  <2>2. Total(quoteOf, Held) = Cardinality(Units(quoteOf, Held))
    BY <2>1, TotalIsCount DEF MoneyInv
  <2>3. balance >= 0 /\ balance + Total(quoteOf, Held) = credited BY <2>2 DEF MoneyInv
  <2> QED BY <2>3 DEF Conservation, Total
<1> QED BY <1>1, Invariant, PTL

\* A quote is spent by one payout at most, and is marked used exactly then.
THEOREM QuotesAreSpentOnce == Spec => []QuoteSpentOnce
BY Invariant, PTL DEF IInv

\* There is a payment only for a payout that has succeeded, and that payout stays so.
THEOREM PaymentFollowsPayout == Spec => []PaymentOnlyAfterPayout
BY Invariant, PTL DEF IInv

\* The events of a payout are its history, each status once.
THEOREM OutboxComplete == Spec => []OutboxMatchesPayout
BY Invariant, PTL DEF IInv, OutboxInv

\* A payout that is left unfinished was left by a handler that was cut short.
THEOREM NothingStrands == Spec => []FinishedUnlessCutShort
<1>1. TypeInv /\ IInv => FinishedUnlessCutShort
  <2> SUFFICES ASSUME TypeInv, IInv, NEW k \in Keys \ cutShort, status[k] # "absent",
                      \A h \in Handlers : order[h].key # k
               PROVE  /\ status[k] \in {"succeeded", "failed", "unknown"}
                      /\ status[k] = "succeeded" /\ invoiced[k] => linked[k] /\ payStatus[k] # "absent"
    BY DEF FinishedUnlessCutShort
  <2>1. status[k] \in PayoutStatus BY DEF TypeInv, TypeOK
  <2>2. status[k] \notin {"reserved", "pending"} BY DEF IInv, WorkInv, Working
  <2>3. status[k] = "succeeded" /\ invoiced[k] => linked[k] BY DEF IInv, WorkInv, Working
  <2> QED BY <2>1, <2>2, <2>3 DEF PayoutStatus, IInv, LinkInv
<1> QED BY <1>1, Invariant, PTL

=============================================================================
