-------------------------- MODULE SettlementProofs --------------------------
(***************************************************************************)
(* Proofs about Settlement, for any number of threads, any routes and any  *)
(* number of crashes of either node.                                       *)
(***************************************************************************)
EXTENDS Settlement, TLAPS

\* Thread t may still reserve fiat for the settlement, at either node.
Creating(t) == meth[t] \in {"begin", "prepare"} \/ (meth[t] = "attach" /\ step[t] # "put")

\* Node n has reserved what it ever will for the settlement.
Ready(n) == /\ store[n].state # "None"
            /\ n = "source" => \A t \in Threads : ~Creating(t)

\* The rail of node n was asked, made no payout and can make none any more: it failed
\* for good, or the reservation is gone and there will not be another.
Closed(n) == /\ fiat[n] = 0 /\ n \in asked /\ Ready(n)
             /\ payout[n] = "failed" \/ ~reserved[n]

\* The source can still pay, has paid, or may find that it never has to.
Covered == accepted \/ paid \/ \E n \in Nodes : Closed(n)

\* The rails a record of node n may speak of.
Rails(n) == IF n = "source" THEN Nodes ELSE {"destination"}

\* What a record of node n concludes about the payout is so.
Sound(n, r) ==
    /\ r.state \in {"PayoutConfirmed", "SettlementReleased"} => \E k \in Rails(n) : fiat[k] = 1
    /\ r.state \in {"PayoutFailed", "Refunded"} => \E k \in Rails(n) : Closed(k)

Live == {"SettlementConditionCreated", "PayoutRequested", "PayoutUnknown", "PayoutConfirmed"}

\* A record of the source carries what it rests on.
Backed(r) ==
    /\ r.state \in {"PayoutConfirmed", "SettlementReleased"} =>
        "confirmed" \in r.atts \/ fiat["source"] = 1
    /\ r.state \in {"PayoutFailed", "Refunded"} => "failed" \in r.atts \/ Closed("source")
    /\ r.state \in Live => r.invoice /\ Ready("source")
    /\ r.state = "SettlementReleased" => paid

AtSource(t) == Site(meth[t]) = "source"

\* The rail that the answer in thread t's hand is about.
Rail(t) == IF meth[t] \in {"own_payout", "own_reconcile"} THEN "source" ELSE "destination"

\* A thread is idle or has a method, with a record in hand once it has read it.
ThreadInv == \A t \in Threads :
    /\ job[t] = "none" <=> meth[t] = "none"
    /\ step[t] = "none" <=> meth[t] = "none"
    /\ meth[t] = "none" => seen[t] = "none"
    /\ step[t] \in {"none", "get"} => got[t] = NoRecord
    /\ step[t] = "put" => got[t].state # "None"
    /\ meth[t] = "begin" => job[t] = "create" /\ step[t] = "put"
    /\ meth[t] = "release" /\ step[t] = "act" => got[t].state = "PayoutConfirmed"

\* One settlement is created at most once.
CreateInv ==
    /\ store["source"].state = "None" =>
        /\ store["destination"].state = "None"
        /\ \A t \in Threads : meth[t] \in {"none", "begin"}
    /\ \A t \in Threads :
        /\ meth[t] = "begin" => store["source"].state = "None"
        /\ meth[t] = "prepare" => store["destination"].state = "None"
        /\ meth[t] \in {"payout", "reconcile"} /\ step[t] \in {"act", "put"}
           => store["destination"].state # "None"
    /\ \A t, u \in Threads : Creating(t) /\ Creating(u) => t = u

\* What the adapter of node n remembers, while it does, is what the rail did.
Honest(n) ==
    /\ fiat[n] \in 0 .. 1 /\ (fiat[n] = 1 => Ready(n) /\ n \in asked)
    /\ payout[n] # "none" => Ready(n) /\ n \in asked
    /\ payout[n] = "confirmed" => fiat[n] = 1
    /\ payout[n] = "failed" => fiat[n] = 0
    /\ payout[n] = "none" /\ reserved[n] => fiat[n] = 0

AdapterInv ==
    /\ \A n \in Nodes : Honest(n)
    /\ paid => \E n \in Nodes : fiat[n] = 1

\* What thread u has in hand and knows is true.
Truthful(u) == /\ Sound(Site(meth[u]), got[u])
               /\ AtSource(u) => Backed(got[u])
               /\ seen[u] = "confirmed" => fiat[Rail(u)] = 1
               /\ seen[u] = "failed" => Closed(Rail(u))

\* Answers and records tell the truth.
TruthInv ==
    /\ \A n \in Nodes : Sound(n, store[n])
    /\ Backed(store["source"])
    /\ \A t \in Threads : Truthful(t)

\* The invoice of a live settlement is at hand, unless the process is down.
InvoiceInv ==
    /\ mode["source"] # "down" =>
        /\ store["source"].state \in Live => Covered
        /\ \A t \in Threads : AtSource(t) /\ got[t].state \in Live => Covered
    /\ mode["source"] = "down" =>
        \A t \in Threads : AtSource(t) => step[t] \in {"none", "get"}

-----------------------------------------------------------------------------
(* The state machine: where its events lead.                               *)

LEMMA ConditionedIs ==
    ASSUME NEW s, NEW x \in Conditioned(s)
    PROVE  s = "Quoted" /\ x = "SettlementConditionCreated"
BY DEF Conditioned, After, Transition

LEMMA ObservedIs ==
    ASSUME NEW s, NEW o, NEW x \in Observed(s, o)
    PROVE  /\ s = "SettlementConditionCreated"
           /\ \/ o = "unknown" /\ x = "PayoutUnknown"
              \/ o = "confirmed" /\ x = "PayoutConfirmed"
              \/ o = "failed" /\ x = "PayoutFailed"
BY DEF Observed, After, Transition

LEMMA ReconciledIs ==
    ASSUME NEW s, NEW o, NEW x \in After({s}, "Reconcile", o)
    PROVE  /\ s = "PayoutUnknown"
           /\ \/ o = "confirmed" /\ x = "PayoutConfirmed"
              \/ o = "failed" /\ x = "PayoutFailed"
BY DEF After, Transition

LEMMA AttestedIs ==
    ASSUME NEW s, NEW o, o # "unknown", NEW x \in Attested(s, o)
    PROVE  /\ s \in Live
           /\ \/ o = "confirmed" /\ x = "PayoutConfirmed"
              \/ o = "failed" /\ x = "PayoutFailed"
BY ObservedIs, ReconciledIs DEF Attested, Live

LEMMA ReleasedIs ==
    ASSUME NEW s, NEW x \in After({s}, "Release", "none")
    PROVE  s = "PayoutConfirmed" /\ x = "SettlementReleased"
BY DEF After, Transition

LEMMA RefundedIs ==
    ASSUME NEW s, NEW x \in After({s}, "Refund", "none")
    PROVE  s = "PayoutFailed" /\ x = "Refunded"
BY DEF After, Transition

LEMMA DisputedIs ==
    ASSUME NEW s, NEW x \in After({s}, "Dispute", "none") PROVE x = "Disputed"
BY DEF After, Transition

LEMMA QuotedIs ==
    ASSUME NEW x \in After({"Created"}, "Quote", "none") PROVE x = "Quoted"
BY DEF After, Transition

-----------------------------------------------------------------------------
(* Types.                                                                  *)

WorldTyped ==
    /\ store \in [Nodes -> Record]
    /\ reserved \in [Nodes -> BOOLEAN]
    /\ payout \in [Nodes -> Outcomes \union {"none"}] /\ accepted \in BOOLEAN
    /\ mode \in [Nodes -> {"up", "poisoned", "down"}]
    /\ fiat \in [Nodes -> Nat] /\ asked \subseteq Nodes
    /\ paid \in BOOLEAN /\ signed \subseteq Outcomes
    /\ expired \in BOOLEAN /\ crashes \in Nat

ThreadTyped ==
    /\ job \in [Threads -> {"none", "create", "settle", "reconcile_peer", "local", "orphan"}]
    /\ meth \in [Threads -> Methods \union {"none"}]
    /\ step \in [Threads -> {"none", "get", "act", "put"}]
    /\ got \in [Threads -> Record]
    /\ seen \in [Threads -> Outcomes \union {"none", "rejected", "unknown"}]

LEMMA TypeParts == TypeOK <=> WorldTyped /\ ThreadTyped
BY DEF TypeOK, WorldTyped, ThreadTyped

LEMMA TypePartsNext == TypeOK' <=> WorldTyped' /\ ThreadTyped'
BY DEF TypeOK, WorldTyped, ThreadTyped

LEMMA NoRecordTyped == NoRecord \in Record
BY DEF NoRecord, Record

LEMMA UpdateTyped ==
    ASSUME NEW r \in Record, NEW s \in States, NEW o
    PROVE  /\ Update(r, s, o) \in Record
           /\ Update(r, s, o).state = s /\ Update(r, s, o).invoice = r.invoice
           /\ r.atts \subseteq Update(r, s, o).atts
           /\ o \in Outcomes => o \in Update(r, s, o).atts
BY DEF Update, Record

LEMMA StatesAre ==
    /\ "SettlementConditionCreated" \in States /\ "PayoutUnknown" \in States
    /\ "PayoutConfirmed" \in States /\ "PayoutFailed" \in States /\ "Quoted" \in States
    /\ "SettlementReleased" \in States /\ "Refunded" \in States /\ "Disputed" \in States
    /\ "None" \notin States
BY DEF States

LEMMA EndTyped == ASSUME ThreadTyped, NEW t \in Threads, End(t) PROVE ThreadTyped'
BY NoRecordTyped DEF ThreadTyped, End

LEMMA HoldTyped ==
    ASSUME ThreadTyped, NEW t \in Threads, NEW r \in Record, NEW s \in {"act", "put"},
           Hold(t, r, s), NEW a \in Outcomes \union {"none", "rejected", "unknown"},
           UNCHANGED seen \/ seen' = [seen EXCEPT ![t] = a]
    PROVE  ThreadTyped'
BY DEF ThreadTyped, Hold

LEMMA GetTyped ==
    ASSUME TypeOK, NEW t \in Threads, NEW m \in Methods, NEW targets, Get(t, m, targets, "act")
    PROVE  TypeOK'
<1>1. WorldTyped /\ ThreadTyped BY TypeParts
<1>2. WorldTyped' BY <1>1 DEF Get, WorldTyped, memory, world
<1>3. CASE End(t) BY <1>1, <1>2, <1>3, EndTyped, TypePartsNext
<1>4. CASE Hold(t, store[Site(m)], "act") /\ UNCHANGED seen
  <2>1. store[Site(m)] \in Record BY <1>1 DEF WorldTyped, Site, Nodes
  <2> QED BY <1>1, <1>2, <1>4, <2>1, HoldTyped, TypePartsNext
<1> QED BY <1>3, <1>4 DEF Get

\* The reads that begin a method.
ReadStep(t) == \/ PrepareRead(t) \/ AttachRead(t) \/ RequestPayoutRead(t) \/ ReconcileRead(t)
               \/ ReleaseRead(t) \/ RefundRead(t)

LEMMA ReadTyped == ASSUME TypeOK, NEW t \in Threads, ReadStep(t) PROVE TypeOK'
<1>1. /\ "prepare" \in Methods /\ "attach" \in Methods /\ "payout" \in Methods
      /\ "reconcile" \in Methods /\ "release" \in Methods /\ "refund" \in Methods
      /\ "own_payout" \in Methods /\ "own_reconcile" \in Methods
  BY DEF Methods, PayeeMethods, PayerMethods
<1> QED BY <1>1, GetTyped DEF ReadStep, PrepareRead, AttachRead, RequestPayoutRead, ReconcileRead,
           ReleaseRead, RefundRead

LEMMA BeginTyped == ASSUME TypeOK, NEW t \in Threads, Begin(t) PROVE TypeOK'
<1>1. WorldTyped /\ ThreadTyped BY TypeParts
<1>2. WorldTyped' BY <1>1 DEF Begin, WorldTyped, memory, world
<1>3. PICK s \in After({"Created"}, "Quote", "none") :
        got' = [got EXCEPT ![t] = Update(NoRecord, s, "none")] BY DEF Begin
<1>4. Update(NoRecord, s, "none") \in Record BY <1>3, QuotedIs, StatesAre, UpdateTyped, NoRecordTyped
<1>5. "begin" \in Methods BY DEF Methods, PayerMethods
<1>6. ThreadTyped' BY <1>1, <1>3, <1>4, <1>5 DEF Begin, ThreadTyped
<1> QED BY <1>2, <1>6, TypePartsNext

LEMMA ReserveTyped ==
    ASSUME TypeOK, NEW t \in Threads, PrepareReserve(t) \/ AttachAccept(t) PROVE TypeOK'
<1>1. WorldTyped /\ ThreadTyped BY TypeParts
<1>2. WorldTyped' BY <1>1 DEF PrepareReserve, AttachAccept, ReserveFiat, WorldTyped, Nodes, world
<1>3. CASE End(t) BY <1>1, <1>2, <1>3, EndTyped, TypePartsNext
<1>4. CASE ~End(t)
  <2>1. PICK r \in Record : Hold(t, r, "put") /\ UNCHANGED seen
    <3>1. CASE PrepareReserve(t)
      <4>1. PICK s \in Conditioned("Quoted") :
              Hold(t, [state |-> s, reserved |-> TRUE, invoice |-> FALSE, atts |-> {}], "put")
        BY <1>4, <3>1 DEF PrepareReserve
      <4>2. [state |-> s, reserved |-> TRUE, invoice |-> FALSE, atts |-> {}] \in Record
        BY ConditionedIs, StatesAre DEF Record
      <4> QED BY <1>4, <3>1, <4>1, <4>2 DEF PrepareReserve
    <3>2. CASE AttachAccept(t)
      <4>1. PICK s \in Conditioned(got[t].state) :
              Hold(t, [state |-> s, reserved |-> TRUE, invoice |-> TRUE, atts |-> got[t].atts], "put")
        BY <1>4, <3>2 DEF AttachAccept
      <4>2. [state |-> s, reserved |-> TRUE, invoice |-> TRUE, atts |-> got[t].atts] \in Record
        BY <1>1, ConditionedIs, StatesAre DEF Record, ThreadTyped
      <4> QED BY <1>4, <3>2, <4>1, <4>2 DEF AttachAccept
    <3> QED BY <3>1, <3>2
  <2> QED BY <1>1, <1>2, <2>1, HoldTyped, TypePartsNext
<1> QED BY <1>3, <1>4

LEMMA AskTyped ==
    ASSUME TypeOK, NEW t \in Threads, RequestPayoutAsk(t) \/ ReconcileAsk(t) PROVE TypeOK'
<1>1. WorldTyped /\ ThreadTyped BY TypeParts
<1>2. WorldTyped'
  <2>1. CASE RequestPayoutAsk(t)
    <3>1. PICK n \in Nodes : n = Site(meth[t]) BY DEF Site, Nodes
    <3>2. asked' \subseteq Nodes BY <1>1, <2>1, <3>1 DEF RequestPayoutAsk, WorldTyped
    <3>3. \/ UNCHANGED <<payout, fiat>>
          \/ payout' = [payout EXCEPT ![n] = "failed"] /\ UNCHANGED fiat
          \/ payout' = [payout EXCEPT ![n] = "confirmed"] /\ fiat' = [fiat EXCEPT ![n] = fiat[n] + 1]
      BY <1>1, <2>1, <3>1 DEF RequestPayoutAsk, InitiatePayout, Pays, Refuses, Replays, WorldTyped
    <3>4. payout' \in [Nodes -> Outcomes \union {"none"}] BY <1>1, <3>3 DEF WorldTyped, Outcomes
    <3>5. fiat' \in [Nodes -> Nat] BY <1>1, <3>3 DEF WorldTyped
    <3> QED BY <1>1, <2>1, <3>2, <3>4, <3>5 DEF RequestPayoutAsk, WorldTyped
  <2>2. CASE ReconcileAsk(t) BY <1>1, <2>2 DEF ReconcileAsk, WorldTyped, memory, world
  <2> QED BY <2>1, <2>2
<1>3. CASE End(t) BY <1>1, <1>2, <1>3, EndTyped, TypePartsNext
<1>4. CASE ~End(t)
  <2>1. PICK a \in Outcomes \union {"none", "rejected", "unknown"}, s \in States :
          Hold(t, Update(got[t], s, "none"), "put") /\ seen' = [seen EXCEPT ![t] = a]
    <3>1. CASE RequestPayoutAsk(t)
      <4>1. PICK a \in Outcomes \union {"rejected", "unknown"} :
              /\ seen' = [seen EXCEPT ![t] = a]
              /\ \E s \in Observed(got[t].state, IF a = "rejected" THEN "failed" ELSE a) :
                    Hold(t, Update(got[t], s, "none"), "put")
        BY <1>4, <3>1 DEF RequestPayoutAsk
      <4> QED BY <4>1, ObservedIs, StatesAre
    <3>2. CASE ReconcileAsk(t)
      <4>1. PICK o \in QueryPayout(Site(meth[t])) : \E s \in After({got[t].state}, "Reconcile", o) :
              Hold(t, Update(got[t], s, "none"), "put") /\ seen' = [seen EXCEPT ![t] = o]
        BY <1>4, <3>2 DEF ReconcileAsk
      <4>2. o \in Outcomes BY <1>1 DEF QueryPayout, WorldTyped, Site, Nodes
      <4> QED BY <4>1, <4>2, ReconciledIs, StatesAre
    <3> QED BY <3>1, <3>2
  <2>2. Update(got[t], s, "none") \in Record BY <1>1, <2>1, UpdateTyped DEF ThreadTyped
  <2> QED BY <1>1, <1>2, <2>1, <2>2, HoldTyped, TypePartsNext
<1> QED BY <1>3, <1>4

LEMMA EffectTyped ==
    ASSUME TypeOK, NEW t \in Threads,
           ApplyRead(t) \/ MarkUnknownRead(t) \/ RecordRead(t) \/ ReleasePay(t) \/ RefundDiscard(t)
    PROVE  TypeOK'
<1>1. WorldTyped /\ ThreadTyped BY TypeParts
<1>2. WorldTyped'
  <2>1. CASE ApplyRead(t) \/ MarkUnknownRead(t) \/ RecordRead(t)
    BY <1>1, <2>1 DEF ApplyRead, MarkUnknownRead, RecordRead, WorldTyped, memory, world
  <2>2. CASE ReleasePay(t) \/ RefundDiscard(t)
    BY <1>1, <2>2, Zenon DEF ReleasePay, RefundDiscard, CallPay, WorldTyped, world
  <2> QED BY <2>1, <2>2
<1>3. CASE End(t) BY <1>1, <1>2, <1>3, EndTyped, TypePartsNext
<1>4. CASE ~End(t)
  <2>1. got[t] \in Record /\ store["source"] \in Record BY <1>1 DEF ThreadTyped, WorldTyped, Nodes
  <2>2. PICK r \in Record, s \in States : \E o : Hold(t, Update(r, s, o), "put") /\ UNCHANGED seen
    <3>1. CASE ApplyRead(t)
      <4>1. PICK s \in Attested(store["source"].state, seen[t]) :
              Hold(t, Update(store["source"], s, seen[t]), "put") /\ UNCHANGED seen
        BY <1>4, <3>1 DEF ApplyRead
      <4>2. s \in States BY <4>1, StatesAre DEF Attested, Observed, After
      <4> QED BY <2>1, <4>1, <4>2
    <3>2. CASE MarkUnknownRead(t) BY <1>4, <2>1, <3>2, ObservedIs, StatesAre DEF MarkUnknownRead
    <3>3. CASE RecordRead(t)
      <4>1. PICK o \in Outcomes, s \in ({store["source"].state} \union States) \ {"None"} :
              Hold(t, Update(store["source"], s, o), "put") /\ UNCHANGED seen
        BY <1>4, <3>3, DisputedIs, StatesAre DEF RecordRead
      <4>2. s \in States BY <2>1 DEF Record
      <4> QED BY <2>1, <4>1, <4>2
    <3>4. CASE ReleasePay(t) BY <1>4, <2>1, <3>4, ReleasedIs, StatesAre DEF ReleasePay
    <3>5. CASE RefundDiscard(t) BY <2>1, <3>5, RefundedIs, StatesAre DEF RefundDiscard
    <3> QED BY <3>1, <3>2, <3>3, <3>4, <3>5
  <2>3. PICK o : Hold(t, Update(r, s, o), "put") /\ UNCHANGED seen BY <2>2
  <2>4. Update(r, s, o) \in Record BY UpdateTyped
  <2> QED BY <1>1, <1>2, <2>3, <2>4, HoldTyped, TypePartsNext
<1> QED BY <1>3, <1>4

LEMMA FollowingIs ==
    ASSUME NEW t \in Threads
    PROVE  /\ Following(t) \in {"prepare", "attach", "apply", "unknown", "finish", "none"}
           /\ meth[t] \in {"own_payout", "own_reconcile"} => Following(t) = "none"
BY DEF Following, Answers

LEMMA StoreTyped == ASSUME TypeOK, NEW t \in Threads, StoreStep(t) PROVE TypeOK'
<1>1. WorldTyped /\ ThreadTyped BY TypeParts
<1>2. WorldTyped'
  <2>1. got[t] \in Record /\ Site(meth[t]) \in Nodes BY <1>1 DEF ThreadTyped, Site, Nodes
  <2>2. CASE Put(t)
    <3>1. signed' \subseteq Outcomes BY <1>1, <2>2 DEF Put, Sign, Answers, WorldTyped
    <3> QED BY <1>1, <2>1, <2>2, <3>1 DEF Put, WorldTyped, memory, world
  <2>3. CASE PutFails(t) BY <1>1, <2>1, <2>3 DEF PutFails, WorldTyped, memory, world
  <2>4. CASE Panic(t) \/ Lost(t) BY <1>1, <2>4 DEF Panic, Lost, WorldTyped, memory, world
  <2> QED BY <2>2, <2>3, <2>4 DEF StoreStep
<1>3. CASE End(t) BY <1>1, <1>2, <1>3, EndTyped, TypePartsNext
<1>4. CASE Following(t) # "none" /\ Goto(t, Following(t))
  <2>1. Following(t) \in Methods BY <1>4, FollowingIs DEF Methods, PayeeMethods, PayerMethods
  <2>2. ThreadTyped' BY <1>1, <1>4, <2>1, NoRecordTyped DEF Goto, ThreadTyped
  <2> QED BY <1>2, <2>2, TypePartsNext
<1> QED BY <1>3, <1>4 DEF StoreStep, Put, PutFails, Panic, Lost

LEMMA CallTyped == ASSUME TypeOK, NEW t \in Threads, Request(t) PROVE TypeOK'
<1>1. WorldTyped /\ ThreadTyped BY TypeParts
<1>2. WorldTyped' BY <1>1 DEF Request, WorldTyped, memory, world
<1>3. PICK j \in {"settle", "reconcile_peer", "local"},
           m \in {"payout", "reconcile", "own_payout", "own_reconcile", "release", "refund", "record"} :
        Call(t, j, m)
  BY DEF Request, AskDestination, AskSource
<1>4. m \in Methods BY <1>3 DEF Methods, PayeeMethods, PayerMethods
<1>5. ThreadTyped' BY <1>1, <1>3, <1>4 DEF Call, ThreadTyped
<1> QED BY <1>2, <1>5, TypePartsNext

LEMMA FinishTyped == ASSUME TypeOK, NEW t \in Threads, FinishRead(t) PROVE TypeOK'
<1>1. WorldTyped /\ ThreadTyped BY TypeParts
<1>2. WorldTyped' BY <1>1 DEF FinishRead, WorldTyped, memory, world
<1>3. CASE End(t) BY <1>1, <1>2, <1>3, EndTyped, TypePartsNext
<1>4. CASE ~End(t)
  <2>1. store["source"] \in Record BY <1>1 DEF WorldTyped, Nodes
  <2>2. Settled(store["source"].state) # "none" => Settled(store["source"].state) \in Methods
    BY DEF Settled, Methods, PayerMethods
  <2>3. ThreadTyped' BY <1>1, <1>4, <2>1, <2>2 DEF FinishRead, ThreadTyped
  <2> QED BY <1>2, <2>3, TypePartsNext
<1> QED BY <1>3, <1>4

LEMMA CrashTyped ==
    ASSUME TypeOK, (\E n \in Nodes : Crash(n) \/ Restart(n)) \/ Expire \/ Contradict PROVE TypeOK'
<1>1. WorldTyped /\ ThreadTyped BY TypeParts
<1>2. ASSUME NEW n \in Nodes, Crash(n) PROVE TypeOK'
  <2>1. WorldTyped'
    <3>1. accepted' \in BOOLEAN BY <1>1, <1>2, Zenon DEF Crash, WorldTyped
    <3>2. payout' \in [Nodes -> Outcomes \union {"none"}] BY <1>1, <1>2 DEF Crash, WorldTyped
    <3>3. reserved' \in [Nodes -> BOOLEAN] /\ mode' \in [Nodes -> {"up", "poisoned", "down"}]
      BY <1>1, <1>2 DEF Crash, WorldTyped
    <3>4. crashes' \in Nat BY <1>1, <1>2 DEF Crash, WorldTyped
    <3>5. UNCHANGED <<store, fiat, asked, paid, signed, expired>> BY <1>2 DEF Crash, world
    <3> QED BY <1>1, <3>1, <3>2, <3>3, <3>4, <3>5 DEF WorldTyped
  <2>2. job' \in [Threads -> {"none", "create", "settle", "reconcile_peer", "local", "orphan"}]
    BY <1>1, <1>2 DEF Crash, ThreadTyped
  <2>3. meth' \in [Threads -> Methods \union {"none"}] BY <1>1, <1>2 DEF Crash, ThreadTyped
  <2>4. step' \in [Threads -> {"none", "get", "act", "put"}] BY <1>1, <1>2 DEF Crash, ThreadTyped
  <2>5. got' \in [Threads -> Record] BY <1>1, <1>2, NoRecordTyped DEF Crash, ThreadTyped
  <2>6. seen' \in [Threads -> Outcomes \union {"none", "rejected", "unknown"}]
    BY <1>1, <1>2 DEF Crash, ThreadTyped
  <2>7. ThreadTyped' BY <2>2, <2>3, <2>4, <2>5, <2>6 DEF ThreadTyped
  <2> QED BY <2>1, <2>7, TypePartsNext
<1>3. ASSUME NEW n \in Nodes, Restart(n) PROVE TypeOK'
  <2>1. store["source"].invoice \in BOOLEAN BY <1>1 DEF WorldTyped, Record, Nodes
  <2>2. Recoverable(store["source"]) \in BOOLEAN BY <2>1, Zenon DEF Recoverable, Pending
  <2>3. accepted' \in BOOLEAN BY <1>1, <1>3, <2>2, Zenon DEF Restart, WorldTyped
  <2>4. WorldTyped' BY <1>1, <1>3, <2>3 DEF Restart, WorldTyped, world
  <2>5. ThreadTyped' BY <1>1, <1>3 DEF Restart, ThreadTyped, thread
  <2> QED BY <2>4, <2>5, TypePartsNext
<1>4. CASE Expire \/ Contradict
  <2>1. WorldTyped' BY <1>1, <1>4, Zenon DEF Expire, Contradict, Sign, WorldTyped, memory, world
  <2>2. ThreadTyped' BY <1>1, <1>4 DEF Expire, Contradict, ThreadTyped, thread
  <2> QED BY <2>1, <2>2, TypePartsNext
<1> QED BY <1>2, <1>3, <1>4

LEMMA InitTyped == Init => TypeOK
<1> SUFFICES ASSUME Init PROVE TypeOK OBVIOUS
<1>1. WorldTyped BY NoRecordTyped DEF Init, WorldTyped
<1>2. ThreadTyped BY NoRecordTyped DEF Init, ThreadTyped
<1> QED BY <1>1, <1>2, TypeParts

\* The actions of one thread, as the proofs divide them.
LEMMA ThreadSteps ==
    ASSUME NEW t \in Threads, CreateStep(t) \/ PayoutStep(t) \/ ReleaseStep(t)
    PROVE  \/ ReadStep(t) \/ Begin(t) \/ PrepareReserve(t) \/ AttachAccept(t)
           \/ RequestPayoutAsk(t) \/ ReconcileAsk(t) \/ FinishRead(t)
           \/ ApplyRead(t) \/ MarkUnknownRead(t) \/ RecordRead(t) \/ ReleasePay(t) \/ RefundDiscard(t)
BY DEF CreateStep, PayoutStep, ReleaseStep, ReadStep

LEMMA NextTyped == TypeOK /\ [Next]_vars => TypeOK'
<1> SUFFICES ASSUME TypeOK, [Next]_vars PROVE TypeOK' OBVIOUS
<1>1. CASE UNCHANGED vars BY <1>1 DEF vars, memory, world, thread, TypeOK
<1>2. CASE (\E n \in Nodes : Crash(n) \/ Restart(n)) \/ Expire \/ Contradict BY <1>2, CrashTyped
<1>3. ASSUME NEW t \in Threads,
             Request(t) \/ CreateStep(t) \/ PayoutStep(t) \/ ReleaseStep(t) \/ StoreStep(t)
      PROVE  TypeOK'
  BY <1>3, ThreadSteps, ReadTyped, BeginTyped, ReserveTyped, AskTyped, EffectTyped, FinishTyped,
     StoreTyped, CallTyped
<1> QED BY <1>1, <1>2, <1>3 DEF Next

\* Every reachable state is well typed, whatever the threads, routes and crashes.
THEOREM TypeCorrect == Spec => []TypeOK
BY InitTyped, NextTyped, PTL DEF Spec

-----------------------------------------------------------------------------
(* What a step does to one thread, and to what the threads share.          *)

\* Thread u is where it was; its caller may have gone.
Same(u) == /\ UNCHANGED <<meth[u], step[u], got[u], seen[u]>>
           /\ UNCHANGED job[u] \/ (job[u] # "none" /\ job'[u] = "orphan" /\ meth[u] # "begin")

\* Thread u has ended.
Ended(u) == /\ job'[u] = "none" /\ meth'[u] = "none" /\ step'[u] = "none"
            /\ got'[u] = NoRecord /\ seen'[u] = "none"

\* Thread u goes on.
Acts(u) == \/ Request(u) \/ ReadStep(u) \/ Begin(u) \/ PrepareReserve(u) \/ AttachAccept(u)
           \/ RequestPayoutAsk(u) \/ ReconcileAsk(u) \/ FinishRead(u) \/ ApplyRead(u)
           \/ MarkUnknownRead(u) \/ RecordRead(u) \/ ReleasePay(u) \/ RefundDiscard(u) \/ Put(u)

LEMMA EndIs == ASSUME TypeOK, NEW t \in Threads, End(t) PROVE Ended(t)
BY DEF TypeOK, End, Ended

LEMMA HoldIs ==
    ASSUME TypeOK, NEW t \in Threads, NEW r, NEW s, Hold(t, r, s)
    PROVE  got'[t] = r /\ step'[t] = s /\ meth'[t] = meth[t] /\ job'[t] = job[t]
BY DEF TypeOK, Hold

LEMMA OthersStay ==
    ASSUME TypeOK, NEW t \in Threads, NEW u \in Threads, u # t,
           Acts(t) \/ StoreStep(t)
    PROVE  Same(u)
<1>1. ASSUME NEW r, NEW s, Hold(t, r, s), UNCHANGED seen \/ \E a : seen' = [seen EXCEPT ![t] = a]
      PROVE  Same(u)
  BY <1>1 DEF Hold, Same, TypeOK
<1>2. CASE End(t) BY <1>2 DEF End, Same, TypeOK
<1>3. CASE Request(t) BY <1>3 DEF Request, AskDestination, AskSource, Call, Same, TypeOK
<1>4. CASE ReadStep(t)
  BY <1>1, <1>2, <1>4 DEF ReadStep, PrepareRead, AttachRead, RequestPayoutRead, ReconcileRead,
     ReleaseRead, RefundRead, Get
<1>5. CASE Begin(t) BY <1>5 DEF Begin, Same, TypeOK
<1>6. CASE PrepareReserve(t) BY <1>1, <1>2, <1>6 DEF PrepareReserve
<1>7. CASE AttachAccept(t) BY <1>1, <1>2, <1>7 DEF AttachAccept
<1>8. CASE RequestPayoutAsk(t) BY <1>1, <1>2, <1>8 DEF RequestPayoutAsk
<1>9. CASE ReconcileAsk(t) BY <1>1, <1>2, <1>9 DEF ReconcileAsk
<1>10. CASE FinishRead(t) BY <1>2, <1>10 DEF FinishRead, Same, TypeOK
<1>11. CASE ApplyRead(t) BY <1>1, <1>2, <1>11 DEF ApplyRead
<1>12. CASE MarkUnknownRead(t) BY <1>1, <1>2, <1>12 DEF MarkUnknownRead
<1>13. CASE RecordRead(t) BY <1>1, <1>2, <1>13 DEF RecordRead
<1>14. CASE ReleasePay(t) BY <1>1, <1>2, <1>14 DEF ReleasePay
<1>15. CASE RefundDiscard(t) BY <1>1, <1>15 DEF RefundDiscard
<1>16. CASE Put(t) BY <1>2, <1>16 DEF Put, Goto, Same, TypeOK
<1>17. CASE PutFails(t) \/ Panic(t) \/ Lost(t) BY <1>2, <1>17 DEF PutFails, Panic, Lost
<1> QED BY <1>3, <1>4, <1>5, <1>6, <1>7, <1>8, <1>9, <1>10, <1>11, <1>12, <1>13, <1>14, <1>15,
           <1>16, <1>17 DEF Acts, StoreStep

LEMMA Moves ==
    ASSUME TypeOK, ThreadInv, [Next]_vars, NEW u \in Threads PROVE Same(u) \/ Ended(u) \/ Acts(u)
<1>1. CASE UNCHANGED vars BY <1>1 DEF vars, thread, Same
<1>2. ASSUME NEW n \in Nodes, Crash(n) PROVE Same(u) \/ Ended(u)
  <2>1. CASE job[u] # "none" /\ Site(meth[u]) = n BY <1>2, <2>1 DEF Crash, Ended
  <2>2. CASE ~(job[u] # "none" /\ Site(meth[u]) = n)
    <3>1. n = "source" /\ job[u] # "none" => meth[u] # "begin" BY <2>2 DEF Site, PayeeMethods
    <3> QED BY <1>2, <2>2, <3>1 DEF Crash, Same
  <2> QED BY <2>1, <2>2
<1>3. CASE (\E n \in Nodes : Restart(n)) \/ Expire \/ Contradict
  BY <1>3 DEF Restart, Expire, Contradict, thread, Same
<1>4. ASSUME NEW t \in Threads,
             Request(t) \/ CreateStep(t) \/ PayoutStep(t) \/ ReleaseStep(t) \/ StoreStep(t)
      PROVE  Same(u) \/ Ended(u) \/ Acts(u)
  <2>1. Acts(t) \/ StoreStep(t) BY <1>4, ThreadSteps DEF Acts
  <2>2. CASE u # t BY <2>1, <2>2, OthersStay
  <2>3. CASE PutFails(t) \/ Panic(t) \/ Lost(t) BY <2>2, <2>3, EndIs DEF PutFails, Panic, Lost
  <2> QED BY <2>1, <2>2, <2>3 DEF StoreStep, Acts
<1> QED BY <1>1, <1>2, <1>3, <1>4 DEF Next

\* The steps that change what the threads share.
LEMMA SharedSteps ==
    ASSUME [Next]_vars
    PROVE  \/ UNCHANGED <<store, memory, mode, world>>
           \/ \E t \in Threads : \/ Put(t) \/ PutFails(t) \/ PrepareReserve(t) \/ AttachAccept(t)
                                 \/ RequestPayoutAsk(t) \/ ReleasePay(t) \/ RefundDiscard(t)
           \/ \E n \in Nodes : Crash(n) \/ Restart(n)
<1>1. CASE UNCHANGED vars \/ Expire \/ Contradict BY <1>1 DEF vars, Expire, Contradict
<1>2. ASSUME NEW t \in Threads,
             \/ Request(t) \/ ReadStep(t) \/ Begin(t) \/ ReconcileAsk(t) \/ FinishRead(t)
             \/ ApplyRead(t) \/ MarkUnknownRead(t) \/ RecordRead(t) \/ Panic(t) \/ Lost(t)
      PROVE  UNCHANGED <<store, memory, mode, world>>
  BY <1>2 DEF Request, ReadStep, PrepareRead, AttachRead, RequestPayoutRead, ReconcileRead,
     ReleaseRead, RefundRead, Get, Begin, ReconcileAsk, FinishRead, ApplyRead, MarkUnknownRead,
     RecordRead, Panic, Lost
<1>3. ASSUME NEW t \in Threads,
             Request(t) \/ CreateStep(t) \/ PayoutStep(t) \/ ReleaseStep(t) \/ StoreStep(t)
      PROVE  \/ UNCHANGED <<store, memory, mode, world>>
             \/ Put(t) \/ PutFails(t) \/ PrepareReserve(t) \/ AttachAccept(t)
             \/ RequestPayoutAsk(t) \/ ReleasePay(t) \/ RefundDiscard(t)
  BY <1>2, <1>3, ThreadSteps DEF StoreStep
<1> QED BY <1>1, <1>3 DEF Next

LEMMA ThreadStep ==
    ASSUME TypeOK, ThreadInv, [Next]_vars PROVE ThreadInv'
<1> DEFINE Ok(u) ==
             /\ job'[u] = "none" <=> meth'[u] = "none"
             /\ step'[u] = "none" <=> meth'[u] = "none"
             /\ meth'[u] = "none" => seen'[u] = "none"
             /\ step'[u] \in {"none", "get"} => got'[u] = NoRecord
             /\ step'[u] = "put" => got'[u].state # "None"
             /\ meth'[u] = "begin" => job'[u] = "create" /\ step'[u] = "put"
             /\ meth'[u] = "release" /\ step'[u] = "act" => got'[u].state = "PayoutConfirmed"
<1> SUFFICES ASSUME NEW u \in Threads PROVE Ok(u) BY DEF ThreadInv
<1>1. CASE Same(u) BY <1>1 DEF Same, ThreadInv
<1>2. CASE Ended(u) BY <1>2 DEF Ended
<1>3. ASSUME NEW r, NEW s \in {"act", "put"}, Hold(u, r, s), s = "put" => r.state # "None",
             meth[u] # "none", meth[u] # "begin",
             meth[u] = "release" /\ s = "act" => r.state = "PayoutConfirmed"
      PROVE  Ok(u)
  BY <1>3, HoldIs DEF ThreadInv
<1>4. ASSUME NEW r \in Record, NEW s \in States, NEW o, Hold(u, Update(r, s, o), "put"),
             meth[u] # "none", meth[u] # "begin"
      PROVE  Ok(u)
  <2>1. Update(r, s, o).state # "None" BY UpdateTyped, StatesAre
  <2> QED BY <1>3, <1>4, <2>1
<1>5. CASE Acts(u) /\ ~Ended(u)
  <2>9. store["source"] \in Record /\ got[u] \in Record BY DEF TypeOK, Nodes
  <2>1. CASE Request(u)
    BY <2>1 DEF Request, AskDestination, AskSource, Call, ThreadInv, TypeOK
  <2>2. CASE ReadStep(u)
    BY <1>3, <1>5, <2>2, EndIs, ReleasedIs DEF Site, PayeeMethods, ReadStep, PrepareRead, AttachRead, RequestPayoutRead,
       ReconcileRead, ReleaseRead, RefundRead, Get, At
  <2>3. CASE Begin(u)
    <3>1. PICK s \in After({"Created"}, "Quote", "none") : got'[u] = Update(NoRecord, s, "none")
      BY <2>3 DEF Begin, TypeOK
    <3>2. got'[u].state # "None" BY <3>1, QuotedIs, StatesAre, NoRecordTyped, UpdateTyped
    <3> QED BY <2>3, <3>2 DEF Begin, TypeOK
  <2>4. CASE PrepareReserve(u)
    BY <1>3, <1>5, <2>4, EndIs, ConditionedIs DEF PrepareReserve, At
  <2>5. CASE AttachAccept(u) BY <1>3, <1>5, <2>5, EndIs, ConditionedIs DEF AttachAccept, At
  <2>6. CASE RequestPayoutAsk(u)
    <3>1. PICK a, s : s \in Observed(got[u].state, a) /\ Hold(u, Update(got[u], s, "none"), "put")
      BY <1>5, <2>6, EndIs DEF RequestPayoutAsk
    <3>2. s \in States BY <3>1, ObservedIs, StatesAre
    <3> QED BY <1>4, <2>6, <2>9, <3>1, <3>2 DEF RequestPayoutAsk, At
  <2>7. CASE ReconcileAsk(u)
    <3>1. PICK a, s : /\ s \in After({got[u].state}, "Reconcile", a)
                      /\ Hold(u, Update(got[u], s, "none"), "put")
      BY <1>5, <2>7, EndIs DEF ReconcileAsk
    <3>2. s \in States BY <3>1, ReconciledIs, StatesAre
    <3> QED BY <1>4, <2>7, <2>9, <3>1, <3>2 DEF ReconcileAsk, At
  <2>8. CASE FinishRead(u)
    BY <1>5, <2>8, EndIs DEF FinishRead, Settled, At, ThreadInv, TypeOK
  <2>10. CASE ApplyRead(u)
    <3>1. PICK s \in Attested(store["source"].state, seen[u]) :
            Hold(u, Update(store["source"], s, seen[u]), "put")
      BY <1>5, <2>10, EndIs DEF ApplyRead
    <3>2. s \in States BY <3>1 DEF Attested, Observed, After
    <3> QED BY <1>4, <2>9, <2>10, <3>1, <3>2 DEF ApplyRead, At
  <2>11. CASE MarkUnknownRead(u)
    <3>1. PICK s \in Observed(store["source"].state, "unknown") :
            Hold(u, Update(store["source"], s, "none"), "put")
      BY <1>5, <2>11, EndIs DEF MarkUnknownRead
    <3>2. s \in States BY <3>1, ObservedIs, StatesAre
    <3> QED BY <1>4, <2>9, <2>11, <3>1, <3>2 DEF MarkUnknownRead, At
  <2>12. CASE RecordRead(u)
    <3>1. PICK o \in Outcomes, s \in ({store["source"].state} \union States) \ {"None"} :
            Hold(u, Update(store["source"], s, o), "put")
      BY <1>5, <2>12, EndIs, DisputedIs, StatesAre DEF RecordRead
    <3>2. s \in States BY <2>9 DEF Record
    <3> QED BY <1>4, <2>9, <2>12, <3>1, <3>2 DEF RecordRead, At
  <2>13. CASE ReleasePay(u)
    <3>1. PICK s \in After({got[u].state}, "Release", "none") : Hold(u, Update(got[u], s, "none"), "put")
      BY <1>5, <2>13, EndIs DEF ReleasePay
    <3>2. s \in States BY <3>1, ReleasedIs, StatesAre
    <3> QED BY <1>4, <2>9, <2>13, <3>1, <3>2 DEF ReleasePay, At
  <2>14. CASE RefundDiscard(u)
    <3>1. PICK s \in After({got[u].state}, "Refund", "none") : Hold(u, Update(got[u], s, "none"), "put")
      BY <2>14 DEF RefundDiscard
    <3>2. s \in States BY <3>1, RefundedIs, StatesAre
    <3> QED BY <1>4, <2>9, <2>14, <3>1, <3>2 DEF RefundDiscard, At
  <2>15. CASE Put(u)
    BY <1>5, <2>15, EndIs, FollowingIs DEF Put, Goto, ThreadInv, TypeOK
  <2> QED BY <1>5, <2>1, <2>2, <2>3, <2>4, <2>5, <2>6, <2>7, <2>8, <2>10, <2>11, <2>12, <2>13,
             <2>14, <2>15 DEF Acts
<1> QED BY <1>1, <1>2, <1>5, Moves

-----------------------------------------------------------------------------
(* The settlement is prepared once.                                        *)

\* How a thread comes to create or to prepare.
LEMMA MethodFrom ==
    ASSUME TypeOK, ThreadInv, [Next]_vars, NEW u \in Threads
    PROVE  /\ meth'[u] = "begin" => Begin(u) \/ (meth[u] = "begin" /\ Same(u))
           /\ meth'[u] = "prepare" => meth[u] = "prepare" \/ (meth[u] = "begin" /\ Put(u))
           /\ Creating(u)' => Creating(u) \/ Begin(u)
<1>1. CASE Same(u) BY <1>1 DEF Same, Creating
<1>2. CASE Ended(u) BY <1>2 DEF Ended, Creating
<1>3. ASSUME NEW r, NEW s, Hold(u, r, s), meth[u] # "begin", step[u] # "put"
      PROVE  meth'[u] # "begin" /\ meth'[u] = meth[u] /\ (Creating(u)' => Creating(u))
  BY <1>3, HoldIs DEF Creating
<1>4. CASE Acts(u) /\ ~Ended(u)
  <2>1. CASE Request(u) BY <2>1 DEF Request, AskDestination, AskSource, Call, TypeOK, Creating
  <2>2. CASE ReadStep(u)
    BY <1>3, <1>4, <2>2, EndIs DEF ReadStep, PrepareRead, AttachRead, RequestPayoutRead,
       ReconcileRead, ReleaseRead, RefundRead, Get, At
  <2>3. CASE Begin(u) BY <2>3 DEF Begin, TypeOK
  <2>4. CASE PrepareReserve(u) BY <1>3, <1>4, <2>4, EndIs DEF PrepareReserve, At
  <2>5. CASE AttachAccept(u) BY <1>3, <1>4, <2>5, EndIs DEF AttachAccept, At
  <2>6. CASE RequestPayoutAsk(u) BY <1>3, <1>4, <2>6, EndIs DEF RequestPayoutAsk, At
  <2>7. CASE ReconcileAsk(u) BY <1>3, <1>4, <2>7, EndIs DEF ReconcileAsk, At
  <2>8. CASE FinishRead(u) BY <1>4, <2>8, EndIs DEF FinishRead, Settled, TypeOK, Creating
  <2>9. CASE ApplyRead(u) BY <1>3, <1>4, <2>9, EndIs DEF ApplyRead, At
  <2>10. CASE MarkUnknownRead(u) BY <1>3, <1>4, <2>10, EndIs DEF MarkUnknownRead, At
  <2>11. CASE RecordRead(u) BY <1>3, <1>4, <2>11, EndIs DEF RecordRead, At
  <2>12. CASE ReleasePay(u) BY <1>3, <1>4, <2>12, EndIs DEF ReleasePay, At
  <2>13. CASE RefundDiscard(u) BY <1>3, <2>13 DEF RefundDiscard, At
  <2>14. CASE Put(u) BY <1>4, <2>14, EndIs DEF Put, Goto, Following, TypeOK, Creating
  <2> QED BY <1>4, <2>1, <2>2, <2>3, <2>4, <2>5, <2>6, <2>7, <2>8, <2>9, <2>10, <2>11, <2>12,
             <2>13, <2>14 DEF Acts
<1> QED BY <1>1, <1>2, <1>4, Moves

\* Only a thread that writes at node n changes the record of n.
LEMMA StoreFrom ==
    ASSUME TypeOK, ThreadInv, [Next]_vars, NEW n \in Nodes, store'[n] # store[n]
    PROVE  \E t \in Threads : /\ step[t] = "put" /\ Site(meth[t]) = n /\ store'[n] = got[t]
                              /\ Put(t) \/ Ended(t)
<1>1. ~UNCHANGED store OBVIOUS
<1>2. PICK t \in Threads : Put(t) \/ PutFails(t)
  BY <1>1, SharedSteps DEF PrepareReserve, AttachAccept, RequestPayoutAsk, ReleasePay,
     RefundDiscard, Crash, Restart
<1>3. step[t] = "put" /\ Site(meth[t]) = n /\ store'[n] = got[t]
  BY <1>2 DEF Put, PutFails, TypeOK
<1>4. Put(t) \/ Ended(t) BY <1>2, EndIs DEF PutFails
<1> QED BY <1>3, <1>4

\* A node that has reserved does not reserve again.
LEMMA ReadyLasts ==
    ASSUME TypeOK, ThreadInv, CreateInv, [Next]_vars, NEW n \in Nodes, Ready(n)
    PROVE  Ready(n)'
<1>1. store'[n].state # "None"
  <2>1. store[n].state # "None" BY DEF Ready
  <2> QED BY <2>1, StoreFrom DEF ThreadInv
<1>2. ASSUME n = "source", NEW t \in Threads PROVE ~Creating(t)'
  <2>1. ~Creating(t) /\ store["source"].state # "None" BY <1>2 DEF Ready
  <2>2. ~Begin(t) BY <2>1 DEF Begin
  <2> QED BY <2>1, <2>2, MethodFrom
<1> QED BY <1>1, <1>2 DEF Ready

\* Only a node that is not ready reserves.
LEMMA ReservesUnready ==
    ASSUME TypeOK, ThreadInv, CreateInv, NEW t \in Threads, NEW n \in Nodes, Ready(n),
           PrepareReserve(t) \/ AttachAccept(t)
    PROVE  UNCHANGED reserved[n]
<1>1. CASE PrepareReserve(t)
  <2>1. n # "destination" BY <1>1 DEF PrepareReserve, At, CreateInv, Ready
  <2> QED BY <1>1, <2>1 DEF PrepareReserve, ReserveFiat, TypeOK
<1>2. CASE AttachAccept(t)
  <2>1. n # "source" BY <1>2 DEF AttachAccept, At, Creating, Ready
  <2> QED BY <1>2, <2>1 DEF AttachAccept, ReserveFiat, TypeOK
<1> QED BY <1>1, <1>2

\* The rails: what node n's adapter does when thread t asks it.
LEMMA AskedRail ==
    ASSUME TypeOK, AdapterInv, NEW t \in Threads, RequestPayoutAsk(t), NEW n \in Nodes
    PROVE  \/ UNCHANGED <<payout[n], fiat[n]>> /\ asked \subseteq asked'
           \/ /\ n = Site(meth[t]) /\ payout[n] = "none" /\ reserved[n] /\ asked' = asked \union {n}
              /\ \/ payout'[n] = "failed" /\ fiat'[n] = fiat[n]
                 \/ payout'[n] = "confirmed" /\ fiat'[n] = fiat[n] + 1
<1>1. PICK k \in Nodes : k = Site(meth[t]) BY DEF Site, Nodes
<1>2. CASE UNCHANGED <<payout, fiat>> BY <1>2 DEF RequestPayoutAsk
<1>3. CASE ~UNCHANGED <<payout, fiat>>
  <2>1. PICK a : InitiatePayout(k, a) /\ reserved[k] /\ asked' = asked \union {k}
    BY <1>1, <1>3 DEF RequestPayoutAsk
  <2>2. payout[k] = "none" /\ \/ payout' = [payout EXCEPT ![k] = "failed"] /\ fiat' = fiat
                              \/ /\ payout' = [payout EXCEPT ![k] = "confirmed"]
                                 /\ fiat' = [fiat EXCEPT ![k] = fiat[k] + 1]
    BY <1>3, <2>1 DEF InitiatePayout, Pays, Refuses, Replays, TypeOK
  <2> QED BY <1>1, <2>1, <2>2 DEF TypeOK
<1> QED BY <1>2, <1>3

\* What has happened stays so.
LEMMA Lasting ==
    ASSUME TypeOK, ThreadInv, CreateInv, AdapterInv, [Next]_vars, NEW n \in Nodes
    PROVE  /\ store[n].state # "None" => store'[n].state # "None"
           /\ Ready(n) => Ready(n)'
           /\ fiat[n] = 1 => fiat'[n] = 1
           /\ asked \subseteq asked'
           /\ paid => paid'
           /\ Closed(n) => Closed(n)'
<1>0. /\ store[n].state # "None" => store'[n].state # "None"
      /\ Ready(n) => Ready(n)'
  BY StoreFrom, ReadyLasts DEF ThreadInv
<1> DEFINE Stay == UNCHANGED <<fiat[n], asked>> /\ (paid => paid')
<1>1. CASE UNCHANGED <<store, memory, mode, world>> BY <1>0, <1>1 DEF memory, world, Closed
<1>2. ASSUME NEW t \in Threads, Put(t) \/ PutFails(t) \/ ReleasePay(t) \/ RefundDiscard(t)
      PROVE  Stay /\ UNCHANGED <<payout[n], reserved[n]>>
  BY <1>2 DEF Put, PutFails, ReleasePay, RefundDiscard, CallPay, memory, world
<1>3. ASSUME NEW t \in Threads, PrepareReserve(t) \/ AttachAccept(t)
      PROVE  Stay /\ UNCHANGED payout[n] /\ (Ready(n) => UNCHANGED reserved[n])
  <2>1. Stay /\ UNCHANGED payout[n] BY <1>3 DEF PrepareReserve, AttachAccept, world
  <2>2. ASSUME Ready(n) PROVE UNCHANGED reserved[n] BY <1>3, <2>2, ReservesUnready
  <2> QED BY <2>1, <2>2
<1>4. ASSUME NEW t \in Threads, RequestPayoutAsk(t)
      PROVE  /\ fiat[n] = 1 => fiat'[n] = 1
             /\ asked \subseteq asked' /\ UNCHANGED paid
             /\ Closed(n) => Closed(n)'
  <2>1. UNCHANGED <<reserved, paid>> BY <1>4 DEF RequestPayoutAsk
  <2>2. fiat[n] = 1 => ~(payout[n] = "none" /\ reserved[n]) BY DEF AdapterInv, Honest
  <2>3. Closed(n) => ~(payout[n] = "none" /\ reserved[n]) BY DEF Closed
  <2> QED BY <1>0, <1>4, <2>1, <2>2, <2>3, AskedRail DEF Closed
<1>5. ASSUME NEW k \in Nodes, Crash(k) \/ Restart(k)
      PROVE  Stay /\ (UNCHANGED <<payout[n], reserved[n]>> \/ ~reserved'[n])
  BY <1>5 DEF Crash, Restart, world, TypeOK
<1> QED BY <1>0, <1>1, <1>2, <1>3, <1>4, <1>5, SharedSteps DEF Closed

\* A payout is asked for only where a record is.
LEMMA PayeeReads ==
    ASSUME TypeOK, ThreadInv, [Next]_vars, NEW u \in Threads,
           meth'[u] \in {"payout", "reconcile"}, step'[u] \in {"act", "put"}
    PROVE  \/ meth[u] \in {"payout", "reconcile"} /\ step[u] \in {"act", "put"}
           \/ UNCHANGED store /\ store["destination"].state # "None"
<1>1. CASE Same(u) BY <1>1 DEF Same
<1>2. CASE Ended(u) BY <1>2 DEF Ended
<1>3. ASSUME NEW r, NEW s, Hold(u, r, s) PROVE meth'[u] = meth[u] BY <1>3, HoldIs
<1>4. CASE Acts(u) /\ ~Ended(u)
  <2>1. CASE Request(u) BY <2>1 DEF Request, AskDestination, AskSource, Call, TypeOK
  <2>2. CASE ReadStep(u)
    <3>1. meth'[u] = meth[u] /\ UNCHANGED store
      BY <1>3, <1>4, <2>2, EndIs DEF ReadStep, PrepareRead, AttachRead, RequestPayoutRead,
         ReconcileRead, ReleaseRead, RefundRead, Get
    <3>2. CASE RequestPayoutRead(u)
      <4>1. PICK m \in {"payout", "own_payout"} :
              meth[u] = m /\ After({store[Site(m)].state}, "RequestPayout", "none") # {}
        BY <1>4, <3>2, EndIs DEF RequestPayoutRead, Get, At
      <4>2. m = "payout" BY <3>1, <4>1
      <4>3. Site(m) = "destination" BY <4>2 DEF Site, PayeeMethods
      <4> QED BY <3>1, <4>1, <4>3 DEF After, Transition
    <3>3. CASE ReconcileRead(u)
      <4>1. PICK m \in {"reconcile", "own_reconcile"} :
              meth[u] = m /\ store[Site(m)].state = "PayoutUnknown"
        BY <1>4, <3>3, EndIs DEF ReconcileRead, Get, At
      <4>2. m = "reconcile" BY <3>1, <4>1
      <4> QED BY <3>1, <4>1, <4>2 DEF Site, PayeeMethods
    <3> QED BY <2>2, <3>1, <3>2, <3>3 DEF ReadStep, PrepareRead, AttachRead, ReleaseRead, RefundRead,
               Get, At
  <2>3. CASE Begin(u) BY <2>3 DEF Begin, TypeOK
  <2>4. CASE PrepareReserve(u) BY <1>3, <1>4, <2>4, EndIs DEF PrepareReserve, At
  <2>5. CASE AttachAccept(u) BY <1>3, <1>4, <2>5, EndIs DEF AttachAccept, At
  <2>6. CASE RequestPayoutAsk(u) BY <1>3, <1>4, <2>6, EndIs DEF RequestPayoutAsk, At
  <2>7. CASE ReconcileAsk(u) BY <1>3, <1>4, <2>7, EndIs DEF ReconcileAsk, At
  <2>8. CASE FinishRead(u) BY <1>4, <2>8, EndIs DEF FinishRead, Settled, TypeOK
  <2>9. CASE ApplyRead(u) BY <1>3, <1>4, <2>9, EndIs DEF ApplyRead, At
  <2>10. CASE MarkUnknownRead(u) BY <1>3, <1>4, <2>10, EndIs DEF MarkUnknownRead, At
  <2>11. CASE RecordRead(u) BY <1>3, <1>4, <2>11, EndIs DEF RecordRead, At
  <2>12. CASE ReleasePay(u) BY <1>3, <1>4, <2>12, EndIs DEF ReleasePay, At
  <2>13. CASE RefundDiscard(u) BY <1>3, <2>13 DEF RefundDiscard, At
  <2>14. CASE Put(u) BY <1>4, <2>14, EndIs, FollowingIs DEF Put, Goto, TypeOK
  <2> QED BY <1>4, <2>1, <2>2, <2>3, <2>4, <2>5, <2>6, <2>7, <2>8, <2>9, <2>10, <2>11, <2>12,
             <2>13, <2>14 DEF Acts
<1> QED BY <1>1, <1>2, <1>4, Moves

LEMMA CreationStep ==
    ASSUME TypeOK, ThreadInv, CreateInv, AdapterInv, [Next]_vars PROVE CreateInv'
<1>n. "source" \in Nodes /\ "destination" \in Nodes BY DEF Nodes
<1>s. \A n \in Nodes : store[n].state # "None" => store'[n].state # "None" BY Lasting
<1>1. ASSUME store'["source"].state = "None"
      PROVE  store'["destination"].state = "None" /\ \A u \in Threads : meth'[u] \in {"none", "begin"}
  <2>1. /\ store["source"].state = "None" /\ store["destination"].state = "None"
        /\ \A t \in Threads : meth[t] \in {"none", "begin"}
    BY <1>n, <1>s, <1>1 DEF CreateInv
  <2>2. store'["destination"].state = "None"
    <3>1. \A t \in Threads : Site(meth[t]) # "destination" BY <2>1 DEF Site, PayeeMethods
    <3> QED BY <1>n, <2>1, <3>1, StoreFrom
  <2>3. ASSUME NEW u \in Threads PROVE meth'[u] \in {"none", "begin"}
    <3>1. CASE Same(u) BY <2>1, <3>1 DEF Same
    <3>2. CASE Ended(u) BY <3>2 DEF Ended
    <3>3. CASE Begin(u) BY <3>3 DEF Begin, TypeOK
    <3>4. ~Put(u)
      <4> SUFFICES ASSUME Put(u) PROVE FALSE OBVIOUS
      <4>1. got[u].state # "None" /\ Site(meth[u]) = "source"
        BY <2>1 DEF Put, ThreadInv, Site, PayeeMethods
      <4>2. store'["source"] = got[u] BY <1>n, <4>1 DEF Put, TypeOK
      <4> QED BY <1>1, <4>1, <4>2
    <3>5. ~Request(u) BY <2>1 DEF Request
    <3>6. CASE Acts(u) /\ ~Put(u) /\ ~Request(u) /\ ~Begin(u)
      <4>1. meth[u] \in {"none", "begin"} BY <2>1
      <4> QED BY <3>6, <4>1 DEF Acts, ReadStep, PrepareRead, AttachRead, RequestPayoutRead, ReconcileRead,
         ReleaseRead, RefundRead, Get, PrepareReserve, AttachAccept, RequestPayoutAsk, ReconcileAsk,
         FinishRead, ApplyRead, MarkUnknownRead, RecordRead, ReleasePay, RefundDiscard, At
    <3> QED BY <3>1, <3>2, <3>3, <3>4, <3>5, <3>6, Moves
  <2> QED BY <2>2, <2>3
<1>2. ASSUME NEW u \in Threads, meth'[u] = "begin" PROVE store'["source"].state = "None"
  <2>1. CASE Begin(u) BY <2>1 DEF Begin
  <2>2. CASE meth[u] = "begin" /\ Same(u)
    <3>1. store["source"].state = "None" BY <2>2 DEF CreateInv
    <3>2. ASSUME store'["source"] # store["source"] PROVE FALSE
      <4>1. PICK t \in Threads : step[t] = "put" /\ (Put(t) \/ Ended(t)) BY <1>n, <3>2, StoreFrom
      <4>2. meth[t] = "begin" BY <3>1, <4>1 DEF CreateInv, ThreadInv
      <4>3. t = u BY <2>2, <4>2 DEF CreateInv, Creating
      <4>4. meth'[u] # "begin" BY <4>1, <4>3, EndIs, FollowingIs DEF Put, Goto, Ended, TypeOK
      <4> QED BY <1>2, <4>4
    <3> QED BY <3>1, <3>2
  <2> QED BY <1>2, <2>1, <2>2, MethodFrom
<1>3. ASSUME NEW u \in Threads, meth'[u] = "prepare" PROVE store'["destination"].state = "None"
  <2>1. CASE meth[u] = "begin" /\ Put(u)
    <3>1. store["destination"].state = "None" BY <2>1 DEF CreateInv
    <3> QED BY <1>n, <2>1, <3>1 DEF Put, Site, PayeeMethods, TypeOK
  <2>2. CASE meth[u] = "prepare"
    <3>1. store["destination"].state = "None" BY <2>2 DEF CreateInv
    <3>2. ASSUME store'["destination"] # store["destination"] PROVE FALSE
      <4>1. PICK t \in Threads : /\ step[t] = "put" /\ Site(meth[t]) = "destination"
                                 /\ Put(t) \/ Ended(t)
        BY <1>n, <3>2, StoreFrom
      <4>2. meth[t] = "prepare" BY <3>1, <4>1 DEF CreateInv, Site, PayeeMethods
      <4>3. t = u BY <2>2, <4>2 DEF CreateInv, Creating
      <4>4. CASE Ended(t) BY <1>3, <4>3, <4>4 DEF Ended
      <4>5. CASE Put(t)
        <5>1. Following(t) # "prepare" BY <4>2 DEF Following
        <5> QED BY <1>3, <4>3, <4>5, <5>1, EndIs DEF Put, Goto, Ended, TypeOK
      <4> QED BY <4>1, <4>4, <4>5
    <3> QED BY <3>1, <3>2
  <2> QED BY <1>3, <2>1, <2>2, MethodFrom
<1>4. ASSUME NEW u \in Threads, meth'[u] \in {"payout", "reconcile"}, step'[u] \in {"act", "put"}
      PROVE  store'["destination"].state # "None"
  BY <1>n, <1>s, <1>4, PayeeReads DEF CreateInv
<1>5. ASSUME NEW t \in Threads, NEW u \in Threads, t # u, Creating(t)', Creating(u)' PROVE FALSE
  <2>1. ASSUME NEW v \in Threads, NEW w \in Threads, v # w, Begin(v), Creating(w)' PROVE FALSE
    <3>1. Same(w) BY <2>1, OthersStay DEF Acts
    <3>2. meth[w] = "begin" BY <2>1, <3>1 DEF Same, Begin, CreateInv, Creating
    <3> QED BY <2>1, <3>2 DEF Begin, ThreadInv
  <2>2. Creating(t) /\ Creating(u) BY <1>5, <2>1, MethodFrom
  <2> QED BY <1>5, <2>2 DEF CreateInv
<1> QED BY <1>1, <1>2, <1>3, <1>4, <1>5 DEF CreateInv

-----------------------------------------------------------------------------
(* Payouts.                                                                *)

\* A rail that pays belongs to a node that is ready.
LEMMA AskedIsReady ==
    ASSUME TypeOK, CreateInv, TruthInv, NEW t \in Threads, RequestPayoutAsk(t),
           NEW n \in Nodes, n = Site(meth[t]), reserved[n]
    PROVE  Ready(n)
<1>1. CASE At(t, "payout", "act") BY <1>1 DEF At, CreateInv, Ready, Site, PayeeMethods
<1>2. CASE At(t, "own_payout", "act")
  <2>1. AtSource(t) /\ n = "source" BY <1>2 DEF At, AtSource, Site, PayeeMethods
  <2>2. got[t].state \in Live BY ObservedIs DEF RequestPayoutAsk, Live
  <2> QED BY <2>1, <2>2 DEF TruthInv, Truthful, Backed
<1> QED BY <1>1, <1>2 DEF RequestPayoutAsk

LEMMA AdapterStep ==
    ASSUME TypeOK, ThreadInv, CreateInv, AdapterInv, TruthInv, [Next]_vars PROVE AdapterInv'
<1>1. ASSUME NEW n \in Nodes PROVE Honest(n)'
  <2>0. Honest(n) /\ (Ready(n) => Ready(n)') /\ asked \subseteq asked' BY Lasting DEF AdapterInv
  <2>1. CASE UNCHANGED <<fiat[n], payout[n], reserved[n]>> BY <2>0, <2>1 DEF Honest
  <2>2. ASSUME NEW t \in Threads, Put(t) \/ PutFails(t) \/ ReleasePay(t) \/ RefundDiscard(t)
        PROVE  UNCHANGED <<fiat[n], payout[n], reserved[n]>>
    BY <2>2 DEF Put, PutFails, ReleasePay, RefundDiscard, memory, world
  <2>3. ASSUME NEW t \in Threads, PrepareReserve(t) \/ AttachAccept(t) PROVE Honest(n)'
    <3>1. UNCHANGED <<fiat, payout>> BY <2>3 DEF PrepareReserve, AttachAccept, world
    <3>2. CASE Ready(n)
      <4>1. UNCHANGED reserved[n] BY <2>3, <3>2, ReservesUnready
      <4> QED BY <2>1, <3>1, <4>1
    <3>3. CASE ~Ready(n) BY <2>0, <3>1, <3>3 DEF Honest
    <3> QED BY <3>2, <3>3
  <2>4. ASSUME NEW t \in Threads, RequestPayoutAsk(t) PROVE Honest(n)'
    <3>1. UNCHANGED reserved BY <2>4 DEF RequestPayoutAsk
    <3>2. CASE UNCHANGED <<fiat[n], payout[n]>> BY <2>1, <3>1, <3>2
    <3>3. CASE ~UNCHANGED <<fiat[n], payout[n]>>
      <4>1. /\ n = Site(meth[t]) /\ payout[n] = "none" /\ reserved[n] /\ n \in asked'
            /\ \/ payout'[n] = "failed" /\ fiat'[n] = fiat[n]
               \/ payout'[n] = "confirmed" /\ fiat'[n] = fiat[n] + 1
        BY <2>4, <3>3, AskedRail
      <4>2. Ready(n)' BY <2>0, <2>4, <4>1, AskedIsReady
      <4>3. fiat[n] = 0 BY <2>0, <4>1 DEF Honest
      <4> QED BY <4>1, <4>2, <4>3 DEF Honest
    <3> QED BY <3>2, <3>3
  <2>5. ASSUME NEW k \in Nodes, Crash(k) \/ Restart(k) PROVE Honest(n)'
    <3>1. UNCHANGED fiat BY <2>5 DEF Crash, Restart, world
    <3>2. \/ UNCHANGED <<payout[n], reserved[n]>>
          \/ payout'[n] = "none" /\ reserved'[n] = FALSE
      BY <2>5 DEF Crash, Restart, TypeOK
    <3> QED BY <2>0, <3>1, <3>2 DEF Honest
  <2> QED BY <2>1, <2>2, <2>3, <2>4, <2>5, SharedSteps DEF memory, world
<1>2. ASSUME paid' PROVE \E n \in Nodes : fiat'[n] = 1
  <2>1. ASSUME NEW t \in Threads, ReleasePay(t) PROVE \E n \in Nodes : fiat[n] = 1
    <3>1. got[t].state = "PayoutConfirmed" BY <2>1 DEF ReleasePay, At, ThreadInv
    <3>2. Site(meth[t]) = "source" BY <2>1 DEF ReleasePay, At, Site, PayeeMethods
    <3> QED BY <3>1, <3>2 DEF TruthInv, Truthful, Sound, Rails
  <2>2. (\E t \in Threads : ReleasePay(t)) \/ paid
    BY <1>2, SharedSteps DEF Put, PutFails, PrepareReserve, AttachAccept, RequestPayoutAsk,
       RefundDiscard, Crash, Restart, world
  <2>3. PICK n \in Nodes : fiat[n] = 1 BY <2>1, <2>2 DEF AdapterInv
  <2> QED BY <2>3, Lasting
<1> QED BY <1>1, <1>2 DEF AdapterInv

-----------------------------------------------------------------------------
(* Answers and records.                                                    *)

\* A record that was sound stays so; what it rests on does not go away.
LEMMA SoundLasts ==
    ASSUME TypeOK, ThreadInv, CreateInv, AdapterInv, [Next]_vars, NEW n, NEW r
    PROVE  /\ Sound(n, r) => Sound(n, r)'
           /\ Backed(r) => Backed(r)'
<1>1. "source" \in Nodes /\ Rails(n) \subseteq Nodes BY DEF Rails, Nodes
<1>2. /\ \A k \in Rails(n) : (fiat[k] = 1 => fiat'[k] = 1) /\ (Closed(k) => Closed(k)')
      /\ fiat["source"] = 1 => fiat'["source"] = 1
      /\ Closed("source") => Closed("source")'
      /\ Ready("source") => Ready("source")'
      /\ paid => paid'
  BY <1>1, Lasting
<1>3. Sound(n, r) => Sound(n, r)' BY <1>2 DEF Sound
<1>4. Backed(r) => Backed(r)' BY <1>2 DEF Backed
<1> QED BY <1>3, <1>4

LEMMA StoreTruth ==
    ASSUME TypeOK, ThreadInv, CreateInv, AdapterInv, TruthInv, [Next]_vars
    PROVE  (\A n \in Nodes : Sound(n, store[n])') /\ Backed(store["source"])'
<1>n. "source" \in Nodes BY DEF Nodes
<1>1. ASSUME NEW n \in Nodes
      PROVE  Sound(n, store[n])' /\ (n = "source" => Backed(store[n])')
  <2>1. PICK r : r = store'[n] OBVIOUS
  <2>2. Sound(n, r) /\ (n = "source" => Backed(r))
    BY <2>1, StoreFrom DEF TruthInv, Truthful, AtSource
  <2>3. Sound(n, r)' /\ (n = "source" => Backed(r)') BY <2>2, SoundLasts
  <2> QED BY <2>1, <2>3 DEF Sound, Backed
<1> QED BY <1>n, <1>1

\* What thread u has learnt stays true.
LEMMA SeenLasts ==
    ASSUME TypeOK, ThreadInv, CreateInv, AdapterInv, TruthInv, [Next]_vars, NEW u \in Threads
    PROVE  /\ seen[u] = "confirmed" => fiat'[Rail(u)] = 1
           /\ seen[u] = "failed" => \E k \in Nodes : k = Rail(u) /\ Closed(k)'
<1>1. PICK k \in Nodes : k = Rail(u) BY DEF Rail, Nodes
<1>2. (fiat[k] = 1 => fiat'[k] = 1) /\ (Closed(k) => Closed(k)') BY Lasting
<1> QED BY <1>1, <1>2 DEF TruthInv, Truthful

\* Thread u holds record r of node n, and has learnt nothing new.
LEMMA HoldsTruth ==
    ASSUME TypeOK, ThreadInv, CreateInv, AdapterInv, TruthInv, [Next]_vars, NEW u \in Threads,
           NEW n, NEW r, NEW s, Hold(u, r, s), UNCHANGED seen, n = Site(meth[u]),
           Sound(n, r)', AtSource(u) => Backed(r)'
    PROVE  Truthful(u)'
<1>1. got'[u] = r /\ meth'[u] = meth[u] BY HoldIs
<1>2. (Rail(u))' = Rail(u) BY <1>1 DEF Rail
<1>3. /\ seen'[u] = "confirmed" => fiat'[Rail(u)'] = 1
      /\ seen'[u] = "failed" => Closed(Rail(u))'
  BY <1>2, SeenLasts DEF Closed, Ready
<1>4. Sound(Site(meth[u]), got[u])' BY <1>1 DEF Sound, Rails
<1>5. (AtSource(u) => Backed(got[u]))' BY <1>1 DEF Backed, AtSource
<1> QED BY <1>3, <1>4, <1>5 DEF Truthful

LEMMA UpdateSound ==
    ASSUME NEW n, NEW r \in Record, NEW s \in States, NEW o,
           s \in {"PayoutConfirmed", "SettlementReleased"} => \E k \in Rails(n) : fiat'[k] = 1,
           s \in {"PayoutFailed", "Refunded"} => \E k \in Rails(n) : Closed(k)'
    PROVE  Sound(n, Update(r, s, o))'
BY UpdateTyped DEF Sound

LEMMA UpdateBacked ==
    ASSUME NEW r \in Record, NEW s \in States, NEW o,
           s \in {"PayoutConfirmed", "SettlementReleased"} =>
               "confirmed" \in r.atts \union {o} \/ fiat'["source"] = 1,
           s \in {"PayoutFailed", "Refunded"} =>
               "failed" \in r.atts \union {o} \/ Closed("source")',
           s \in Live => r.invoice /\ Ready("source")',
           s = "SettlementReleased" => paid'
    PROVE  Backed(Update(r, s, o))'
<1>1. /\ Update(r, s, o).state = s /\ Update(r, s, o).invoice = r.invoice
      /\ r.atts \subseteq Update(r, s, o).atts
      /\ o \in Outcomes => o \in Update(r, s, o).atts
  BY UpdateTyped
<1>2. "confirmed" \in Outcomes /\ "failed" \in Outcomes BY DEF Outcomes
<1> QED BY <1>1, <1>2 DEF Backed

\* A thread learns from the adapter of its node what the rail did.
LEMMA RailTruth ==
    ASSUME TypeOK, ThreadInv, CreateInv, AdapterInv, TruthInv, [Next]_vars, NEW u \in Threads,
           RequestPayoutAsk(u) \/ ReconcileAsk(u), ~Ended(u),
           NEW n \in Nodes, n = Site(meth[u])
    PROVE  \E a, s :
             /\ s \in States /\ Hold(u, Update(got[u], s, "none"), "put")
             /\ seen' = [seen EXCEPT ![u] = a] /\ got[u].state \in Live
             /\ \/ a = "unknown" /\ s = "PayoutUnknown"
                \/ a = "confirmed" /\ s = "PayoutConfirmed" /\ fiat'[n] = 1
                \/ a \in {"failed", "rejected"} /\ s = "PayoutFailed" /\ Closed(n)'
<1>0. Honest(n) BY DEF AdapterInv
<1>l. (Ready(n) => Ready(n)') /\ asked \subseteq asked' BY Lasting
<1>1. CASE RequestPayoutAsk(u)
  <2>1. PICK a \in Outcomes \union {"rejected", "unknown"}, s \in States :
          /\ InitiatePayout(n, a) /\ seen' = [seen EXCEPT ![u] = a]
          /\ s \in Observed(got[u].state, IF a = "rejected" THEN "failed" ELSE a)
          /\ Hold(u, Update(got[u], s, "none"), "put")
    BY <1>1, EndIs DEF RequestPayoutAsk, Observed, After
  <2>2. reserved[n] /\ n \in asked' BY <1>1, EndIs DEF RequestPayoutAsk
  <2>3. Ready(n)' BY <1>l, <1>1, <2>2, AskedIsReady
  <2>4. /\ got[u].state \in Live
        /\ \/ a = "unknown" /\ s = "PayoutUnknown"
           \/ a = "confirmed" /\ s = "PayoutConfirmed"
           \/ a \in {"failed", "rejected"} /\ s = "PayoutFailed"
    BY <2>1, ObservedIs DEF Outcomes, Live
  <2>5. a = "confirmed" => fiat'[n] = 1
    BY <1>0, <2>1, <2>2 DEF InitiatePayout, Pays, Replays, Honest, TypeOK
  <2>6. ASSUME a \in {"failed", "rejected"} PROVE Closed(n)'
    <3>1. payout'[n] = "failed" /\ fiat'[n] = fiat[n] /\ payout[n] \in {"none", "failed"}
      BY <2>1, <2>6 DEF InitiatePayout, Refuses, Replays, TypeOK, Outcomes
    <3>2. fiat[n] = 0 BY <1>0, <2>2, <3>1 DEF Honest
    <3> QED BY <2>2, <2>3, <3>1, <3>2 DEF Closed
  <2> QED BY <2>1, <2>4, <2>5, <2>6
<1>2. CASE ReconcileAsk(u)
  <2>1. PICK a, s : /\ a \in QueryPayout(n) /\ s \in After({got[u].state}, "Reconcile", a)
                    /\ Hold(u, Update(got[u], s, "none"), "put") /\ seen' = [seen EXCEPT ![u] = a]
    <3>1. PICK b \in QueryPayout(n) : \E s \in After({got[u].state}, "Reconcile", b) :
            Hold(u, Update(got[u], s, "none"), "put") /\ seen' = [seen EXCEPT ![u] = b]
      BY <1>2, EndIs DEF ReconcileAsk
    <3> QED BY <3>1
  <2>2. UNCHANGED <<payout, fiat>> BY <1>2 DEF ReconcileAsk, memory, world
  <2>3. /\ got[u].state \in Live
        /\ \/ a = "confirmed" /\ s = "PayoutConfirmed"
           \/ a = "failed" /\ s = "PayoutFailed"
    BY <2>1, ReconciledIs DEF Live
  <2>4. a = payout[n] BY <2>1 DEF QueryPayout
  <2>5. a = "confirmed" => fiat'[n] = 1 BY <1>0, <2>2, <2>4 DEF Honest
  <2>6. a = "failed" => Closed(n)' BY <1>0, <1>l, <2>2, <2>4 DEF Honest, Closed
  <2>7. s \in States BY <2>1 DEF After
  <2> QED BY <2>1, <2>3, <2>5, <2>6, <2>7
<1> QED BY <1>1, <1>2

LEMMA AskTruth ==
    ASSUME TypeOK, ThreadInv, CreateInv, AdapterInv, TruthInv, [Next]_vars, NEW u \in Threads,
           RequestPayoutAsk(u) \/ ReconcileAsk(u), ~Ended(u)
    PROVE  Truthful(u)'
<1>0. PICK r \in Record, n \in Nodes : r = got[u] /\ n = Site(meth[u]) BY DEF TypeOK, Site, Nodes
<1>1. PICK a, s :
        /\ s \in States /\ Hold(u, Update(r, s, "none"), "put")
        /\ seen' = [seen EXCEPT ![u] = a] /\ r.state \in Live
        /\ \/ a = "unknown" /\ s = "PayoutUnknown"
           \/ a = "confirmed" /\ s = "PayoutConfirmed" /\ fiat'[n] = 1
           \/ a \in {"failed", "rejected"} /\ s = "PayoutFailed" /\ Closed(n)'
  BY <1>0, RailTruth
<1>2. n \in Rails(n) BY DEF Rails, Nodes
<1>3. Sound(n, Update(r, s, "none"))' BY <1>1, <1>2, UpdateSound
<1>4. ASSUME n = "source" PROVE Backed(Update(r, s, "none"))'
  <2>1. r.invoice /\ Ready("source") BY <1>0, <1>1, <1>4 DEF TruthInv, Truthful, AtSource, Backed
  <2>2. Ready("source")' BY <2>1, Lasting DEF Nodes
  <2> QED BY <1>1, <1>4, <2>1, <2>2, UpdateBacked
<1>5. PICK q : q = Update(r, s, "none") OBVIOUS
<1>6. got'[u] = q /\ meth'[u] = meth[u] BY <1>1, <1>5, HoldIs
<1>7. Rail(u)' = n /\ Site(meth[u])' = n
  BY <1>0, <1>6 DEF RequestPayoutAsk, ReconcileAsk, At, Rail, Site, PayeeMethods
<1>8. seen'[u] = a BY <1>1 DEF TypeOK
<1>9. Sound(Site(meth[u]), got[u])' BY <1>3, <1>5, <1>6, <1>7 DEF Sound
<1>10. (AtSource(u) => Backed(got[u]))' BY <1>4, <1>5, <1>6, <1>7 DEF Backed, AtSource
<1>11. (seen[u] = "confirmed" => fiat[Rail(u)] = 1)' BY <1>1, <1>7, <1>8
<1>12. (seen[u] = "failed" => Closed(Rail(u)))' BY <1>1, <1>7, <1>8 DEF Closed, Ready
<1> QED BY <1>9, <1>10, <1>11, <1>12 DEF Truthful

\* Threads of the source put into the record what they have evidence for.
LEMMA SourceTruth ==
    ASSUME TypeOK, ThreadInv, CreateInv, AdapterInv, TruthInv, [Next]_vars, NEW u \in Threads,
           ApplyRead(u) \/ MarkUnknownRead(u) \/ RecordRead(u) \/ ReleasePay(u) \/ RefundDiscard(u),
           ~Ended(u)
    PROVE  Truthful(u)'
<1>0. PICK r \in Record, g \in Record : r = store["source"] /\ g = got[u] BY DEF TypeOK, Nodes
<1>3. Site(meth[u]) = "source" /\ AtSource(u) /\ Rail(u) = "destination"
  BY DEF ApplyRead, MarkUnknownRead, RecordRead, ReleasePay, RefundDiscard, At, AtSource, Site,
     PayeeMethods, Rail
<1>1. Sound("source", r) /\ Backed(r) /\ Sound("source", g) /\ Backed(g)
  BY <1>0, <1>3 DEF TruthInv, Truthful, Nodes
<1>2. Sound("source", r)' /\ Backed(r)' /\ Sound("source", g)' /\ Backed(g)' BY <1>1, SoundLasts
<1>k. "destination" \in Rails("source") BY DEF Rails, Nodes
<1>4. ASSUME NEW q \in Record, NEW s \in States, NEW o, Hold(u, Update(q, s, o), "put"), UNCHANGED seen,
             Sound("source", Update(q, s, o))', Backed(Update(q, s, o))'
      PROVE  Truthful(u)'
  BY <1>3, <1>4, HoldsTruth
<1>5. CASE ApplyRead(u)
  <2>1. PICK o \in Outcomes, s \in States :
          /\ o = seen[u] /\ s \in Attested(r.state, o)
          /\ Hold(u, Update(r, s, o), "put") /\ UNCHANGED seen
    <3>1. PICK s \in Attested(store["source"].state, seen[u]) :
            /\ Verified(seen[u]) /\ UNCHANGED seen
            /\ Hold(u, Update(store["source"], s, seen[u]), "put")
      BY <1>5, EndIs DEF ApplyRead
    <3>2. seen[u] \in Outcomes BY <3>1 DEF Verified, TypeOK
    <3>3. s \in States BY <3>1 DEF Attested, Observed, After
    <3> QED BY <1>0, <3>1, <3>2, <3>3
  <2>2. /\ r.state \in Live
        /\ \/ o = "confirmed" /\ s = "PayoutConfirmed"
           \/ o = "failed" /\ s = "PayoutFailed"
    BY <2>1, AttestedIs DEF Outcomes
  <2>3. r.invoice /\ Ready("source")' BY <1>2, <2>2 DEF Backed
  <2>4. Sound("source", Update(r, s, o))' BY <1>3, <1>k, <2>1, <2>2, SeenLasts, UpdateSound
  <2>5. Backed(Update(r, s, o))' BY <2>1, <2>2, <2>3, UpdateBacked
  <2> QED BY <1>4, <2>1, <2>4, <2>5
<1>6. CASE MarkUnknownRead(u)
  <2>1. PICK s \in Observed(r.state, "unknown") :
          Hold(u, Update(r, s, "none"), "put") /\ UNCHANGED seen
    BY <1>0, <1>6, EndIs DEF MarkUnknownRead
  <2>2. r.state = "SettlementConditionCreated" /\ s = "PayoutUnknown" /\ s \in States
    BY <2>1, ObservedIs, StatesAre
  <2>3. r.invoice /\ Ready("source")' BY <1>2, <2>2 DEF Backed, Live
  <2>4. Sound("source", Update(r, s, "none"))' BY <2>2, UpdateSound
  <2>5. Backed(Update(r, s, "none"))' BY <2>2, <2>3, UpdateBacked
  <2> QED BY <1>4, <2>1, <2>2, <2>4, <2>5
<1>7. CASE RecordRead(u)
  <2>1. PICK o \in Outcomes, s \in ({r.state} \union {"Disputed"}) \ {"None"} :
          Hold(u, Update(r, s, o), "put") /\ UNCHANGED seen
    BY <1>0, <1>7, EndIs, DisputedIs DEF RecordRead
  <2>2. s \in States BY StatesAre DEF Record
  <2>3. Sound("source", Update(r, s, o))' BY <1>2, <2>2, UpdateSound DEF Sound
  <2>4. Backed(Update(r, s, o))' BY <1>2, <2>2, UpdateBacked DEF Backed, Live
  <2> QED BY <1>4, <2>1, <2>2, <2>3, <2>4
<1>8. CASE ReleasePay(u)
  <2>1. PICK s \in After({g.state}, "Release", "none") :
          Hold(u, Update(g, s, "none"), "put") /\ UNCHANGED seen /\ paid'
    BY <1>0, <1>8, EndIs DEF ReleasePay, CallPay
  <2>2. g.state = "PayoutConfirmed" /\ s = "SettlementReleased" /\ s \in States
    BY <2>1, ReleasedIs, StatesAre
  <2>3. Sound("source", Update(g, s, "none"))' BY <1>2, <2>2, UpdateSound DEF Sound
  <2>4. Backed(Update(g, s, "none"))' BY <1>2, <1>3, <2>1, <2>2, UpdateBacked DEF Backed, Live
  <2> QED BY <1>4, <2>1, <2>2, <2>3, <2>4
<1>9. CASE RefundDiscard(u)
  <2>1. PICK s \in After({g.state}, "Refund", "none") :
          Hold(u, Update(g, s, "none"), "put") /\ UNCHANGED seen
    BY <1>0, <1>9 DEF RefundDiscard
  <2>2. g.state = "PayoutFailed" /\ s = "Refunded" /\ s \in States
    BY <2>1, RefundedIs, StatesAre
  <2>3. Sound("source", Update(g, s, "none"))' BY <1>2, <2>2, UpdateSound DEF Sound
  <2>4. Backed(Update(g, s, "none"))' BY <1>2, <1>3, <2>2, UpdateBacked DEF Backed, Live
  <2> QED BY <1>4, <2>1, <2>2, <2>3, <2>4
<1> QED BY <1>5, <1>6, <1>7, <1>8, <1>9

\* Once the invoice is attached nobody reserves for the settlement any more.
LEMMA AttachedIsReady ==
    ASSUME TypeOK, ThreadInv, CreateInv, [Next]_vars, NEW u \in Threads, AttachAccept(u), step'[u] = "put"
    PROVE  Ready("source")'
<1>1. meth[u] = "attach" /\ step[u] = "act" /\ UNCHANGED <<store, meth[u]>>
  BY EndIs, HoldIs DEF AttachAccept, At, Ended
<1>2. store["source"].state # "None" BY <1>1 DEF CreateInv
<1>3. ASSUME NEW w \in Threads PROVE ~Creating(w)'
  <2>1. CASE w = u BY <1>1, <2>1 DEF Creating
  <2>2. CASE w # u
    <3>1. ~Begin(w) BY <1>2 DEF Begin
    <3>2. ~Creating(w) BY <1>1, <2>2 DEF CreateInv, Creating
    <3> QED BY <3>1, <3>2, MethodFrom
  <2> QED BY <2>1, <2>2
<1> QED BY <1>1, <1>2, <1>3 DEF Ready

LEMMA TruthStep ==
    ASSUME TypeOK, ThreadInv, CreateInv, AdapterInv, TruthInv, [Next]_vars PROVE TruthInv'
<1>1. ASSUME NEW u \in Threads PROVE Truthful(u)'
  <2>s. PICK n \in Nodes : n = Site(meth[u]) BY DEF Site, Nodes
  <2>0. PICK r, g : n = Site(meth[u]) /\ r = store[n] /\ g = got[u] BY <2>s
  <2>1. /\ Sound(n, r)' /\ (AtSource(u) => Backed(r)')
        /\ Sound(n, g)' /\ (AtSource(u) => Backed(g)')
    BY <2>0, SoundLasts DEF TruthInv, Truthful, AtSource
  <2>c. ASSUME Rail(u)' = Rail(u), seen'[u] = seen[u]
        PROVE  /\ (seen[u] = "confirmed" => fiat[Rail(u)] = 1)'
               /\ (seen[u] = "failed" => Closed(Rail(u)))'
    BY <2>c, SeenLasts DEF Closed, Ready
  <2>n. ASSUME seen'[u] = "none"
        PROVE  /\ (seen[u] = "confirmed" => fiat[Rail(u)] = 1)'
               /\ (seen[u] = "failed" => Closed(Rail(u)))'
    BY <2>n
  <2>e. ASSUME got'[u] = NoRecord
        PROVE  Sound(Site(meth[u]), got[u])' /\ (AtSource(u) => Backed(got[u]))'
    BY <2>e DEF NoRecord, Sound, Backed, Live
  <2>2. CASE Same(u)
    <3>1. Rail(u)' = Rail(u) /\ seen'[u] = seen[u] BY <2>2 DEF Same, Rail
    <3>2. Sound(Site(meth[u]), got[u])' BY <2>0, <2>1, <2>2 DEF Same, Sound
    <3>3. (AtSource(u) => Backed(got[u]))' BY <2>0, <2>1, <2>2 DEF Same, Backed, AtSource
    <3> QED BY <2>c, <3>1, <3>2, <3>3 DEF Truthful
  <2>3. CASE Ended(u) BY <2>3, <2>e, <2>n DEF Ended, Truthful
  <2>4. CASE Acts(u) /\ ~Ended(u)
    <3>1. CASE Request(u)
      <4>1. got'[u] = NoRecord /\ seen'[u] = "none"
        BY <3>1 DEF Request, AskDestination, AskSource, Call, ThreadInv, TypeOK
      <4> QED BY <2>e, <2>n, <4>1 DEF Truthful
    <3>2. CASE ReadStep(u)
      <4>1. Hold(u, r, "act") /\ UNCHANGED seen
        BY <2>0, <2>4, <3>2, EndIs DEF ReadStep, PrepareRead, AttachRead, RequestPayoutRead,
           ReconcileRead, ReleaseRead, RefundRead, Get, At
      <4> QED BY <2>0, <2>1, <4>1, HoldsTruth
    <3>3. CASE Begin(u)
      <4>1. PICK s \in After({"Created"}, "Quote", "none") : got'[u] = Update(NoRecord, s, "none")
        BY <3>3 DEF Begin, TypeOK
      <4>2. got'[u].state = "Quoted" BY <4>1, QuotedIs, StatesAre, NoRecordTyped, UpdateTyped
      <4>3. seen'[u] = "none" BY <3>3 DEF Begin, ThreadInv
      <4>4. Sound(Site(meth[u]), got[u])' /\ (AtSource(u) => Backed(got[u]))'
        BY <4>2 DEF Sound, Backed, Live
      <4> QED BY <2>n, <4>3, <4>4 DEF Truthful
    <3>4. CASE PrepareReserve(u)
      <4>1. PICK s \in Conditioned("Quoted") :
              /\ Hold(u, [state |-> s, reserved |-> TRUE, invoice |-> FALSE, atts |-> {}], "put")
              /\ UNCHANGED seen
        BY <2>4, <3>4, EndIs DEF PrepareReserve
      <4>2. got'[u].state = "SettlementConditionCreated" /\ UNCHANGED meth[u] /\ meth[u] = "prepare"
        BY <3>4, <4>1, HoldIs, ConditionedIs DEF PrepareReserve, At
      <4>3. Rail(u)' = Rail(u) /\ ~AtSource(u)' BY <4>2 DEF Rail, AtSource, Site, PayeeMethods
      <4>4. Sound(Site(meth[u]), got[u])' BY <4>2 DEF Sound
      <4> QED BY <2>c, <4>1, <4>3, <4>4 DEF Truthful
    <3>5. CASE AttachAccept(u)
      <4>1. PICK s \in Conditioned(got[u].state) :
              /\ Hold(u, [state |-> s, reserved |-> TRUE, invoice |-> TRUE, atts |-> got[u].atts], "put")
              /\ UNCHANGED seen
        BY <2>4, <3>5, EndIs DEF AttachAccept
      <4>2. /\ got'[u].state = "SettlementConditionCreated" /\ got'[u].invoice
            /\ step'[u] = "put" /\ UNCHANGED meth[u]
        BY <4>1, HoldIs, ConditionedIs
      <4>3. Ready("source")' BY <3>5, <4>2, AttachedIsReady
      <4>4. Rail(u)' = Rail(u) BY <4>2 DEF Rail
      <4>5. Sound(Site(meth[u]), got[u])' /\ Backed(got[u])' BY <4>2, <4>3 DEF Sound, Backed
      <4> QED BY <2>c, <4>1, <4>4, <4>5 DEF Truthful
    <3>6. CASE FinishRead(u)
      <4>1. /\ UNCHANGED seen /\ got'[u] = store["source"] /\ meth[u] = "finish"
            /\ meth'[u] \in {"release", "refund"}
        BY <2>4, <3>6, EndIs DEF FinishRead, Settled, At, TypeOK
      <4>2. Rail(u)' = Rail(u) /\ n = "source" /\ Site(meth[u])' = "source" /\ AtSource(u)
        BY <2>0, <4>1 DEF Rail, AtSource, Site, PayeeMethods
      <4>3. got'[u] = r BY <2>0, <4>1, <4>2
      <4>4. Sound(Site(meth[u]), got[u])' BY <2>1, <4>2, <4>3 DEF Sound
      <4>5. Backed(got[u])' BY <2>1, <4>2, <4>3 DEF Backed
      <4> QED BY <2>c, <4>1, <4>2, <4>4, <4>5 DEF Truthful
    <3>7. CASE Put(u)
      <4>1. got'[u] = NoRecord /\ seen'[u] = seen[u] /\ meth'[u] = Following(u) /\ Following(u) # "none"
        BY <2>4, <3>7, EndIs DEF Put, Goto, TypeOK
      <4>2. Rail(u)' = Rail(u) BY <4>1, FollowingIs DEF Rail
      <4> QED BY <2>c, <2>e, <4>1, <4>2 DEF Truthful
    <3> QED BY <2>4, <3>1, <3>2, <3>3, <3>4, <3>5, <3>6, <3>7, AskTruth, SourceTruth DEF Acts
  <2> QED BY <2>2, <2>3, <2>4, Moves
<1> QED BY <1>1, StoreTruth DEF TruthInv

-----------------------------------------------------------------------------
(* The invoice.                                                            *)

LEMMA SourceMode ==
    ASSUME TypeOK, [Next]_vars
    PROVE  \/ mode'["source"] = mode["source"]
           \/ mode["source"] = "up" /\ mode'["source"] = "poisoned"
           \/ Crash("source") /\ mode'["source"] = "down"
           \/ Restart("source")
<1>1. CASE UNCHANGED mode BY <1>1
<1>2. ASSUME NEW t \in Threads, PutFails(t)
      PROVE  \/ mode'["source"] = mode["source"]
             \/ mode["source"] = "up" /\ mode'["source"] = "poisoned"
  BY <1>2 DEF PutFails, TypeOK
<1>3. ASSUME NEW n \in Nodes, Crash(n)
      PROVE  \/ mode'["source"] = mode["source"]
             \/ Crash("source") /\ mode'["source"] = "down"
  <2>1. mode' = [mode EXCEPT ![n] = "down"] BY <1>3 DEF Crash
  <2> QED BY <1>3, <2>1 DEF Nodes, TypeOK
<1>4. ASSUME NEW n \in Nodes, Restart(n)
      PROVE  mode'["source"] = mode["source"] \/ Restart("source")
  <2>1. mode' = [mode EXCEPT ![n] = "up"] BY <1>4 DEF Restart
  <2> QED BY <1>4, <2>1 DEF Nodes, TypeOK
<1>5. ASSUME NEW t \in Threads, \/ Put(t) \/ PrepareReserve(t) \/ AttachAccept(t)
                                \/ RequestPayoutAsk(t) \/ ReleasePay(t) \/ RefundDiscard(t)
      PROVE  UNCHANGED mode
  BY <1>5 DEF Put, PrepareReserve, AttachAccept, RequestPayoutAsk, ReleasePay, RefundDiscard
<1> QED BY <1>1, <1>2, <1>3, <1>4, <1>5, SharedSteps

LEMMA CoveredLasts ==
    ASSUME TypeOK, ThreadInv, CreateInv, AdapterInv, TruthInv, [Next]_vars,
           Covered, mode["source"] # "down", mode'["source"] # "down"
    PROVE  Covered'
<1>1. (paid => paid') /\ \A n \in Nodes : Closed(n) => Closed(n)' BY Lasting DEF Nodes
<1>2. CASE UNCHANGED accepted BY <1>1, <1>2 DEF Covered
<1>3. ASSUME NEW t \in Threads, Put(t) \/ PutFails(t) \/ PrepareReserve(t) \/ RequestPayoutAsk(t)
      PROVE  UNCHANGED accepted
  BY <1>3 DEF Put, PutFails, PrepareReserve, RequestPayoutAsk, memory
<1>4. ASSUME NEW t \in Threads, AttachAccept(t) PROVE UNCHANGED accepted \/ accepted'
  BY <1>4 DEF AttachAccept
<1>5. ASSUME NEW t \in Threads, ReleasePay(t) PROVE UNCHANGED accepted \/ paid'
  BY <1>5 DEF ReleasePay, CallPay
<1>6. ASSUME NEW t \in Threads, RefundDiscard(t) PROVE \E n \in Nodes : Closed(n)
  <2>1. got[t].state = "PayoutFailed" BY <1>6, RefundedIs DEF RefundDiscard
  <2>2. Site(meth[t]) = "source" BY <1>6 DEF RefundDiscard, At, Site, PayeeMethods
  <2> QED BY <2>1, <2>2 DEF TruthInv, Truthful, Sound, Rails
<1>7. ASSUME NEW n \in Nodes, Crash(n) \/ Restart(n) PROVE UNCHANGED accepted
  <2>1. CASE n = "destination" BY <1>7, <2>1 DEF Crash, Restart
  <2>2. CASE n = "source"
    <3>1. ~Restart("source") BY DEF Restart
    <3>2. ~Crash("source") BY DEF Crash, Nodes, TypeOK
    <3> QED BY <1>7, <2>2, <3>1, <3>2
  <2> QED BY <2>1, <2>2 DEF Nodes
<1> QED BY <1>1, <1>2, <1>3, <1>4, <1>5, <1>6, <1>7, SharedSteps DEF memory, Covered

LEMMA InvoiceStep ==
    ASSUME TypeOK, ThreadInv, CreateInv, AdapterInv, TruthInv, InvoiceInv, [Next]_vars
    PROVE  InvoiceInv'
<1>n. "source" \in Nodes BY DEF Nodes
<1>1. ASSUME mode["source"] # "down", mode'["source"] # "down"
      PROVE  /\ store'["source"].state \in Live => Covered'
             /\ \A u \in Threads : AtSource(u)' /\ got'[u].state \in Live => Covered'
  <2>c. Covered => Covered' BY <1>1, CoveredLasts
  <2>1. ASSUME store'["source"].state \in Live PROVE Covered
    <3>1. CASE store'["source"] = store["source"] BY <1>1, <2>1, <3>1 DEF InvoiceInv
    <3>2. CASE store'["source"] # store["source"]
      BY <1>n, <1>1, <2>1, <3>2, StoreFrom DEF InvoiceInv, AtSource
    <3> QED BY <3>1, <3>2
  <2>2. ASSUME NEW u \in Threads, AtSource(u)', got'[u].state \in Live PROVE Covered'
    <3>0. store["source"].state \in Live => Covered BY <1>1 DEF InvoiceInv
    <3>1. CASE Same(u) BY <1>1, <2>c, <2>2, <3>1 DEF Same, AtSource, InvoiceInv
    <3>2. CASE got'[u] = NoRecord BY <2>2, <3>2 DEF NoRecord, Live
    <3>3. CASE Acts(u) /\ ~Ended(u)
      <4>r. store["source"] \in Record /\ got[u] \in Record BY DEF TypeOK, Nodes
      <4>1. CASE Request(u) \/ Put(u)
        <5>1. got'[u] = NoRecord
          BY <3>3, <4>1, EndIs DEF Request, AskDestination, AskSource, Call, Put, Goto, ThreadInv, TypeOK
        <5> QED BY <3>2, <5>1
      <4>2. CASE ReadStep(u)
        <5>1. Hold(u, store[Site(meth[u])], "act")
          BY <3>3, <4>2, EndIs DEF ReadStep, PrepareRead, AttachRead, RequestPayoutRead,
             ReconcileRead, ReleaseRead, RefundRead, Get, At
        <5> QED BY <2>c, <2>2, <3>0, <5>1, HoldIs DEF AtSource
      <4>3. CASE Begin(u)
        <5>1. PICK s \in After({"Created"}, "Quote", "none") : got'[u] = Update(NoRecord, s, "none")
          BY <4>3 DEF Begin, TypeOK
        <5>2. got'[u].state = "Quoted" BY <5>1, QuotedIs, StatesAre, NoRecordTyped, UpdateTyped
        <5> QED BY <2>2, <5>2 DEF Live
      <4>4. CASE PrepareReserve(u)
        <5>1. meth'[u] = meth[u] BY <3>3, <4>4, EndIs, HoldIs DEF PrepareReserve
        <5> QED BY <2>2, <4>4, <5>1 DEF PrepareReserve, At, AtSource, Site, PayeeMethods
      <4>12. CASE RequestPayoutAsk(u) \/ ReconcileAsk(u)
        <5>1. PICK n \in Nodes : n = Site(meth[u]) BY DEF Site, Nodes
        <5>2. got[u].state \in Live /\ \E q, s : Hold(u, q, s) BY <3>3, <4>12, <5>1, RailTruth
        <5>3. AtSource(u) BY <2>2, <5>2, HoldIs DEF AtSource
        <5> QED BY <1>1, <2>c, <5>2, <5>3 DEF InvoiceInv
      <4>5. CASE AttachAccept(u) BY <3>3, <4>5, EndIs DEF AttachAccept, Covered
      <4>6. CASE FinishRead(u)
        <5>1. got'[u] = store["source"] BY <3>3, <4>6, EndIs DEF FinishRead, TypeOK
        <5> QED BY <2>c, <2>2, <3>0, <5>1
      <4>7. CASE ApplyRead(u)
        <5>1. PICK s \in Attested(store["source"].state, seen[u]) : Verified(seen[u])
          BY <3>3, <4>7, EndIs DEF ApplyRead
        <5>2. seen[u] # "unknown" BY <5>1 DEF Verified, TypeOK, Outcomes
        <5>3. store["source"].state \in Live BY <5>1, <5>2, AttestedIs
        <5> QED BY <2>c, <3>0, <5>3
      <4>8. CASE MarkUnknownRead(u)
        <5>1. store["source"].state = "SettlementConditionCreated"
          BY <3>3, <4>8, EndIs, ObservedIs DEF MarkUnknownRead
        <5> QED BY <2>c, <3>0, <5>1 DEF Live
      <4>9. CASE RecordRead(u)
        <5>1. PICK o \in Outcomes, s \in ({store["source"].state} \union {"Disputed"}) \ {"None"} :
                Hold(u, Update(store["source"], s, o), "put")
          BY <3>3, <4>9, EndIs, DisputedIs DEF RecordRead
        <5>2. s \in States BY <4>r, StatesAre DEF Record
        <5>3. got'[u].state = s BY <4>r, <5>1, <5>2, HoldIs, UpdateTyped
        <5> QED BY <2>c, <2>2, <3>0, <5>3 DEF Live
      <4>10. CASE ReleasePay(u)
        <5>1. PICK s \in After({got[u].state}, "Release", "none") : Hold(u, Update(got[u], s, "none"), "put")
          BY <3>3, <4>10, EndIs DEF ReleasePay
        <5>2. s = "SettlementReleased" /\ s \in States BY <5>1, ReleasedIs, StatesAre
        <5>3. got'[u].state = s BY <4>r, <5>1, <5>2, HoldIs, UpdateTyped
        <5> QED BY <2>2, <5>2, <5>3 DEF Live
      <4>11. CASE RefundDiscard(u)
        <5>1. PICK s \in After({got[u].state}, "Refund", "none") : Hold(u, Update(got[u], s, "none"), "put")
          BY <4>11 DEF RefundDiscard
        <5>2. s = "Refunded" /\ s \in States BY <5>1, RefundedIs, StatesAre
        <5>3. got'[u].state = s BY <4>r, <5>1, <5>2, HoldIs, UpdateTyped
        <5> QED BY <2>2, <5>2, <5>3 DEF Live
      <4> QED BY <3>3, <4>1, <4>2, <4>3, <4>4, <4>5, <4>6, <4>7, <4>8, <4>9, <4>10, <4>11, <4>12 DEF Acts
    <3> QED BY <3>1, <3>2, <3>3, Moves DEF Ended
  <2> QED BY <2>c, <2>1, <2>2
<1>2. ASSUME mode["source"] = "down", mode'["source"] # "down"
      PROVE  /\ store'["source"].state \in Live => Covered'
             /\ \A u \in Threads : AtSource(u)' => got'[u].state \notin Live
  <2>1. Restart("source") BY <1>2, SourceMode
  <2>2. UNCHANGED <<store, thread>> BY <2>1 DEF Restart
  <2>3. store["source"].state \in Live => accepted'
    BY <2>1 DEF Restart, Recoverable, Pending, TruthInv, Backed, Live
  <2>4. ASSUME NEW u \in Threads, AtSource(u) PROVE got[u].state \notin Live
    <3>1. got[u] = NoRecord BY <1>2, <2>4 DEF InvoiceInv, ThreadInv
    <3> QED BY <3>1 DEF NoRecord, Live
  <2> QED BY <2>2, <2>3, <2>4 DEF Covered, AtSource, thread
<1>3. ASSUME mode'["source"] = "down", NEW u \in Threads, AtSource(u)'
      PROVE  step'[u] \in {"none", "get"}
  <2>1. CASE Ended(u) BY <2>1 DEF Ended
  <2>2. CASE mode["source"] # "down"
    <3>1. Crash("source") BY <1>3, <2>2, SourceMode DEF Restart
    <3>2. CASE job[u] = "none" BY <3>1, <3>2 DEF Crash, ThreadInv
    <3>3. CASE job[u] # "none" /\ AtSource(u) BY <3>1, <3>3 DEF Crash, AtSource
    <3>4. CASE job[u] # "none" /\ ~AtSource(u) BY <1>3, <3>1, <3>4 DEF Crash, AtSource
    <3> QED BY <3>2, <3>3, <3>4
  <2>3. CASE mode["source"] = "down"
    <3>0. AtSource(u) => step[u] \in {"none", "get"} BY <2>3 DEF InvoiceInv
    <3>1. CASE Same(u) BY <1>3, <3>0, <3>1 DEF Same, AtSource
    <3>2. CASE Acts(u) /\ ~Ended(u)
      <4>1. CASE Request(u) BY <4>1 DEF Request, AskDestination, AskSource, Call, TypeOK
      <4>2. CASE ReadStep(u)
        <5>1. Hold(u, store[Site(meth[u])], "act") /\ mode[Site(meth[u])] = "up"
          BY <3>2, <4>2, EndIs DEF ReadStep, PrepareRead, AttachRead, RequestPayoutRead,
             ReconcileRead, ReleaseRead, RefundRead, Get, At
        <5> QED BY <1>3, <2>3, <5>1, HoldIs DEF AtSource
      <4>3. CASE PrepareReserve(u) \/ RequestPayoutAsk(u) \/ ReconcileAsk(u)
        <5>1. meth'[u] = meth[u]
          BY <3>2, <4>3, EndIs, HoldIs DEF PrepareReserve, RequestPayoutAsk, ReconcileAsk
        <5>2. step[u] = "act" BY <4>3 DEF PrepareReserve, RequestPayoutAsk, ReconcileAsk, At
        <5> QED BY <1>3, <3>0, <5>1, <5>2 DEF AtSource
      <4>4. CASE AttachAccept(u) \/ ReleasePay(u) \/ RefundDiscard(u)
        BY <3>0, <4>4 DEF AttachAccept, ReleasePay, RefundDiscard, At, AtSource, Site, PayeeMethods
      <4>5. CASE Begin(u) \/ FinishRead(u) \/ ApplyRead(u) \/ MarkUnknownRead(u) \/ RecordRead(u)
        BY <2>3, <4>5 DEF Begin, FinishRead, ApplyRead, MarkUnknownRead, RecordRead
      <4>6. CASE Put(u) BY <3>2, <4>6, EndIs DEF Put, Goto, TypeOK
      <4> QED BY <3>2, <4>1, <4>2, <4>3, <4>4, <4>5, <4>6 DEF Acts
    <3> QED BY <2>1, <3>1, <3>2, Moves
  <2> QED BY <2>2, <2>3
<1> QED BY <1>1, <1>2, <1>3 DEF InvoiceInv

-----------------------------------------------------------------------------
(* The theorems.                                                           *)

IInv == ThreadInv /\ CreateInv /\ AdapterInv /\ TruthInv /\ InvoiceInv

LEMMA Invariant == Spec => [](TypeOK /\ IInv)
<1>1. ASSUME Init PROVE IInv
  <2>1. NoRecord.state = "None" /\ Backed(NoRecord) /\ \A n : Sound(n, NoRecord)
    BY DEF NoRecord, Sound, Backed, Live
  <2>2. ThreadInv BY <1>1 DEF Init, ThreadInv
  <2>3. CreateInv BY <1>1, <2>1 DEF Init, CreateInv, Creating, Nodes
  <2>4. AdapterInv BY <1>1 DEF Init, AdapterInv, Honest
  <2>5. TruthInv BY <1>1, <2>1 DEF Init, TruthInv, Truthful, Nodes
  <2>6. InvoiceInv BY <1>1, <2>1 DEF Init, InvoiceInv, Nodes, Live
  <2> QED BY <2>2, <2>3, <2>4, <2>5, <2>6 DEF IInv
<1>2. TypeOK /\ IInv /\ [Next]_vars => IInv'
  BY ThreadStep, CreationStep, AdapterStep, TruthStep, InvoiceStep DEF IInv
<1> QED BY <1>1, <1>2, InitTyped, NextTyped, PTL DEF Spec

\* No rail pays the beneficiary twice, however payout requests race, time out, are
\* retried or meet a crash: an adapter's memory and its reservation die together.
THEOREM PaysOnce == Spec => []PaidOutOnce
<1>1. IInv => PaidOutOnce BY DEF IInv, AdapterInv, Honest, PaidOutOnce
<1> QED BY <1>1, Invariant, PTL

\* The source pays Lightning only for a payout that was made, on the destination's
\* rail or, after a call of the source's own payout route, on its own.
THEOREM ReleaseIsEarned == Spec => []ReleaseAfterPayout
<1>1. IInv => ReleaseAfterPayout BY DEF IInv, AdapterInv, Honest, Nodes, ReleaseAfterPayout
<1> QED BY <1>1, Invariant, PTL

\* A rail that was not asked has paid nothing; one that is closed was asked.  So where
\* only one rail was asked and one is closed, nothing was paid.
LEMMA ClosedMeansUnpaid ==
    ASSUME TypeOK, AdapterInv, asked # Nodes, NEW k \in Nodes, Closed(k)
    PROVE  ~paid /\ \A n \in Nodes : fiat[n] = 0
<1>0. k \in asked /\ fiat[k] = 0 /\ asked \subseteq Nodes BY DEF Closed, TypeOK
<1>1. ASSUME NEW n \in Nodes, n # k PROVE n \notin asked
  <2>1. Nodes = {n, k} BY <1>1 DEF Nodes
  <2> QED BY <1>0, <2>1
<1>2. \A n \in Nodes : fiat[n] = 0 BY <1>0, <1>1 DEF AdapterInv, Honest
<1> QED BY <1>2 DEF AdapterInv

\* A refunded settlement was paid on neither side, unless both rails were asked to pay.
THEOREM RefundIsSafe == Spec => []RefundedMeansUnpaid
<1>1. ASSUME TypeOK, IInv, store["source"].state = "Refunded", asked # Nodes
      PROVE  ~paid /\ \A n \in Nodes : fiat[n] = 0
  <2>1. PICK k \in Nodes : Closed(k) BY <1>1 DEF IInv, TruthInv, Sound, Rails, Nodes
  <2> QED BY <1>1, <2>1, ClosedMeansUnpaid DEF IInv
<1>2. TypeOK /\ IInv => RefundedMeansUnpaid BY <1>1 DEF RefundedMeansUnpaid
<1> QED BY <1>2, Invariant, PTL

\* A confirmed settlement can be released, or is paid, while the source is up, unless
\* both rails were asked to pay.
THEOREM ConfirmedCanBeReleased == Spec => []ConfirmedIsReleasable
<1>1. ASSUME TypeOK, IInv, mode["source"] = "up", store["source"].state = "PayoutConfirmed",
             asked # Nodes
      PROVE  accepted \/ paid
  <2>1. PICK n \in Nodes : fiat[n] = 1 BY <1>1 DEF IInv, TruthInv, Sound, Rails, Nodes
  <2>2. \A k \in Nodes : ~Closed(k) BY <1>1, <2>1, ClosedMeansUnpaid DEF IInv
  <2> QED BY <1>1, <2>2 DEF IInv, InvoiceInv, Covered, Live
<1>2. TypeOK /\ IInv => ConfirmedIsReleasable BY <1>1 DEF ConfirmedIsReleasable
<1> QED BY <1>2, Invariant, PTL

\* What the source concluded rests on an attestation in its record, or on what its own
\* rail did.
THEOREM ConclusionIsEvident == Spec => []ConclusionHasEvidence
<1>1. IInv => ConclusionHasEvidence
  BY DEF IInv, TruthInv, Backed, Closed, ConclusionHasEvidence
<1> QED BY <1>1, Invariant, PTL

=============================================================================
