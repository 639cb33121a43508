------------------------ MODULE DepositWatcherProofs ------------------------
(***************************************************************************)
(* Proofs about DepositWatcher, for any addresses, deposits and numbers of *)
(* confirmations, any length of the chain and any number of disconnected   *)
(* blocks.                                                                 *)
(***************************************************************************)
EXTENDS DepositWatcher, TLAPS

\* A deposit in the chain is below its tip.
ChainInv == \A d \in Deposits : place[d] = "mined" => height[d] \in 1 .. tip

\* The number of confirmations d has.
True(d) == IF place[d] = "mined" THEN tip + 1 - height[d] ELSE 0

\* A recorded status is the one its count gives.
StatusInv == \A d \in Deposits :
    count[d] # NoRow => status[d] = FromConfirmations(count[d], Required[AddressOf[d]])

\* As long as no block is disconnected, neither a row nor the snapshot of the running
\* pass is ahead of the chain, and what the pass still has to write is not behind the row.
AheadInv == \A d \in Deposits \ shaken :
    /\ place[d] # "spent" => count[d] <= True(d) /\ found[d] <= True(d)
    /\ pc = "confirmed" /\ d \in todo => count[d] <= found[d]
    /\ pc = "write" /\ d \in fetched => count[d] <= 0

\* An output fetched from the mempool is one that the scan has not seen.
FetchInv == pc = "write" => \A d \in fetched : found[d] = 0

TypeInv == TypeOK /\ ChainInv

-----------------------------------------------------------------------------
(* Operators.                                                              *)

LEMMA RequiredIs == \A d \in Deposits : Required[AddressOf[d]] \in Nat \ {0}
BY DepositAssumption, RequiredAssumption

\* A deposit is confirmed exactly from the required number on.
LEMMA StatusIs ==
    ASSUME NEW n \in Nat, NEW required \in Nat \ {0}
    PROVE  /\ FromConfirmations(n, required) \in OnchainStatus
           /\ FromConfirmations(n, required) = "confirmed" <=> n >= required
BY DEF FromConfirmations, OnchainStatus

LEMMA KindIs == \A d \in Deposits : \A new : EventKind(d, new) \in Kinds
BY DEF EventKind, Kinds

LEMMA TrueIs == ASSUME TypeInv, NEW d \in Deposits
                PROVE  True(d) \in Nat /\ (place[d] = "mined" => True(d) > 0)
BY DEF TypeInv, TypeOK, ChainInv, True

-----------------------------------------------------------------------------
(* Types.                                                                  *)

\* A row is written with its event, or left alone.
LEMMA RecordTyped ==
    ASSUME TypeInv, NEW d \in Deposits, NEW n \in Nat, RecordObservation(d, n)
    PROVE  /\ count' \in [Deposits -> Nat \union {NoRow}]
           /\ status' \in [Deposits -> OnchainStatus \union {"none"}]
           /\ told' \in [Deposits -> Seq(Kinds \X Nat)]
           /\ shaken' \subseteq Deposits
<1> DEFINE new == FromConfirmations(n, Required[AddressOf[d]])
<1>1. CASE count[d] = n /\ UNCHANGED rows BY <1>1 DEF RecordObservation, rows, TypeInv, TypeOK
<1>2. CASE count[d] # n
  <2>1. /\ count' = [count EXCEPT ![d] = n] /\ status' = [status EXCEPT ![d] = new]
        /\ told' = [told EXCEPT ![d] = Append(told[d], <<EventKind(d, new), n>>)]
    BY <1>2 DEF RecordObservation, rows, TypeInv, TypeOK
  <2>2. new \in OnchainStatus BY StatusIs, RequiredIs
  <2> HIDE DEF new
  <2>3. <<EventKind(d, new), n>> \in Kinds \X Nat BY KindIs
  <2>4. Append(told[d], <<EventKind(d, new), n>>) \in Seq(Kinds \X Nat)
    BY <2>3 DEF TypeInv, TypeOK
  <2>5. told' \in [Deposits -> Seq(Kinds \X Nat)] BY <2>1, <2>4 DEF TypeInv, TypeOK
  <2> QED BY <2>1, <2>2, <2>5 DEF RecordObservation, TypeInv, TypeOK
<1> QED BY <1>1, <1>2 DEF RecordObservation

LEMMA NextTyped == TypeInv /\ [Next]_vars => TypeInv'
<1> SUFFICES ASSUME TypeInv, [Next]_vars PROVE TypeInv' OBVIOUS
<1>t. TypeOK /\ ChainInv BY DEF TypeInv
<1>1. CASE UNCHANGED vars BY <1>t, <1>1 DEF TypeInv, TypeOK, ChainInv, vars, rows, chain, pass
<1>2. CASE \E a \in Addresses : CreateAddress(a)
  BY <1>t, <1>2 DEF CreateAddress, TypeInv, TypeOK, ChainInv, rows, chain, pass
<1>3. CASE MineBlock
  <2>1. PICK S \in SUBSET Deposits :
          /\ place' = [d \in Deposits |-> IF d \in S THEN "mined" ELSE place[d]]
          /\ height' = [d \in Deposits |-> IF d \in S THEN tip' ELSE height[d]]
    BY <1>3 DEF MineBlock
  <2>2. tip' = tip + 1 /\ UNCHANGED <<watched, rows, reorgs, pass, shaken>> BY <1>3 DEF MineBlock
  <2>3. TypeOK' BY <1>t, <2>1, <2>2 DEF TypeOK, rows, pass, Places
  <2>4. ChainInv' BY <1>t, <2>1, <2>2 DEF TypeOK, ChainInv
  <2> QED BY <2>3, <2>4 DEF TypeInv
<1>4. CASE DisconnectBlock
  <2>1. PICK to \in {"mempool", "nowhere"} :
          place' = [d \in Deposits |->
                      IF place[d] = "mined" /\ height[d] = tip THEN to ELSE place[d]]
    BY <1>4 DEF DisconnectBlock
  <2>2. /\ tip > 0 /\ tip' = tip - 1 /\ reorgs' = reorgs + 1 /\ shaken' = Deposits
        /\ UNCHANGED <<watched, rows, height, pass>>
    BY <1>4 DEF DisconnectBlock
  <2>3. TypeOK' BY <1>t, <2>1, <2>2 DEF TypeOK, rows, pass, Places
  <2>4. ChainInv' BY <1>t, <2>1, <2>2 DEF TypeOK, ChainInv
  <2> QED BY <2>3, <2>4 DEF TypeInv
<1>5. CASE \E d \in Deposits : Broadcast(d) \/ Spend(d)
  BY <1>t, <1>5 DEF Broadcast, Spend, TypeInv, TypeOK, ChainInv, Places, rows, pass
<1>6. CASE ReadAddresses
  BY <1>t, <1>6 DEF ReadAddresses, TypeInv, TypeOK, ChainInv, rows, chain
<1>7. CASE ScanAddresses
  <2>1. UNCHANGED <<watched, rows, chain, names, fetched, shaken>> /\ pc' = "confirmed"
    BY <1>7 DEF ScanAddresses
  <2>2. found' \in [Deposits -> Nat] /\ todo' \subseteq Deposits
    BY <1>t, <1>7 DEF ScanAddresses, Confirmations, TypeOK, ChainInv
  <2> QED BY <1>t, <2>1, <2>2 DEF TypeInv, TypeOK, ChainInv, rows, chain
<1>8. CASE ListMempool
  BY <1>t, <1>8 DEF ListMempool, TypeInv, TypeOK, ChainInv, rows, chain
<1>9. CASE PassDone \/ PassFails
  BY <1>t, <1>9 DEF PassDone, PassFails, EndPass, TypeInv, TypeOK, ChainInv, rows, chain
<1>10. ASSUME NEW d \in Deposits, RecordConfirmed(d) PROVE TypeInv'
  <2>1. found[d] \in Nat /\ RecordObservation(d, found[d]) BY <1>t, <1>10 DEF RecordConfirmed, TypeOK
  <2>2. PICK n \in Nat : n = found[d] /\ RecordObservation(d, n) BY <2>1
  <2>3. /\ todo' = todo \ {d} /\ UNCHANGED <<watched, chain, pc, names, found, fetched>>
    BY <1>10 DEF RecordConfirmed
  <2> QED BY <1>t, <2>2, <2>3, RecordTyped DEF TypeInv, TypeOK, ChainInv, chain
<1>11. ASSUME NEW d \in Deposits, RecordUnconfirmed(d) PROVE TypeInv'
  <2>1. 0 \in Nat /\ RecordObservation(d, 0) BY <1>11 DEF RecordUnconfirmed
  <2>2. pc' = "mempool" /\ fetched' = {} /\ UNCHANGED <<watched, chain, names, found, todo>>
    BY <1>11 DEF RecordUnconfirmed
  <2> QED BY <1>t, <2>1, <2>2, RecordTyped DEF TypeInv, TypeOK, ChainInv, chain
<1>12. CASE \E d \in Deposits : FetchOutputs(d)
  BY <1>t, <1>12 DEF FetchOutputs, TypeInv, TypeOK, ChainInv, rows, chain
<1> QED BY <1>1, <1>2, <1>3, <1>4, <1>5, <1>6, <1>7, <1>8, <1>9, <1>10, <1>11, <1>12
        DEF Next, ChainStep, PassStep

LEMMA InitTyped == Init => TypeInv
BY DEF Init, TypeInv, TypeOK, ChainInv, Places

\* Every reachable state is well typed: counts are never negative.
THEOREM TypeCorrect == Spec => []TypeOK
<1>1. TypeInv => TypeOK BY DEF TypeInv
<1> QED BY <1>1, InitTyped, NextTyped, PTL DEF Spec

-----------------------------------------------------------------------------
(* Rows and events.                                                        *)

\* Rows and events are written by record_observation alone.
LEMMA RowsFrom ==
    ASSUME TypeInv, [Next]_vars
    PROVE  UNCHANGED rows \/ \E d \in Deposits, n \in Nat : RecordObservation(d, n)
<1>1. ASSUME NEW d \in Deposits, RecordConfirmed(d) PROVE \E n \in Nat : RecordObservation(d, n)
  <2>1. found[d] \in Nat BY DEF TypeInv, TypeOK
  <2> QED BY <1>1, <2>1 DEF RecordConfirmed
<1>2. ASSUME NEW d \in Deposits, RecordUnconfirmed(d) PROVE \E n \in Nat : RecordObservation(d, n)
  <2>1. 0 \in Nat OBVIOUS
  <2> QED BY <1>2, <2>1 DEF RecordUnconfirmed
<1>3. CASE \/ UNCHANGED vars \/ (\E a \in Addresses : CreateAddress(a)) \/ ChainStep
           \/ ReadAddresses \/ ScanAddresses \/ ListMempool \/ PassDone \/ PassFails
           \/ \E d \in Deposits : FetchOutputs(d)
  BY <1>3 DEF vars, CreateAddress, ChainStep, MineBlock, DisconnectBlock, Broadcast, Spend,
     ReadAddresses, ScanAddresses, ListMempool, PassDone, PassFails, EndPass, FetchOutputs
<1> QED BY <1>1, <1>2, <1>3 DEF Next, PassStep

\* The events of d tell its history.
Told(d) ==
    LET required == Required[AddressOf[d]] IN
    /\ told[d] = <<>> <=> count[d] = NoRow
    /\ told[d] # <<>> => told[d][Len(told[d])][2] = count[d]
    /\ \A i \in 1 .. Len(told[d]) : told[d][i][1] = "detected" <=> i = 1
    /\ \A i \in 2 .. Len(told[d]) :
        /\ told[d][i][2] # told[d][i - 1][2]
        /\ told[d][i][1] = "confirmed" <=>
               told[d][i][2] >= required /\ told[d][i - 1][2] < required

\* One more event, for a count that has changed.
LEMMA TellStep ==
    ASSUME TypeInv, StatusInv, NEW d \in Deposits, NEW n \in Nat, count[d] # n, Told(d),
           NEW new, new = FromConfirmations(n, Required[AddressOf[d]]),
           told'[d] = Append(told[d], <<EventKind(d, new), n>>), count'[d] = n
    PROVE  Told(d)'
<1> DEFINE required == Required[AddressOf[d]]
           s == told[d]
<1>1. s \in Seq(Kinds \X Nat) /\ count[d] \in Nat \union {NoRow} BY DEF TypeInv, TypeOK
<1>2. required \in Nat \ {0} BY RequiredIs
<1>3. new = "confirmed" <=> n >= required BY <1>2, StatusIs
<1>4. PICK e : e = <<EventKind(d, new), n>> OBVIOUS
<1>5. e[1] = EventKind(d, new) /\ e[2] = n BY <1>4
<1>6. told'[d] = Append(s, e) BY <1>4
<1>7. /\ s = <<>> <=> count[d] = NoRow
      /\ s # <<>> => s[Len(s)][2] = count[d]
      /\ \A i \in 1 .. Len(s) : s[i][1] = "detected" <=> i = 1
      /\ \A i \in 2 .. Len(s) : /\ s[i][2] # s[i - 1][2]
                                /\ s[i][1] = "confirmed" <=> s[i][2] >= required /\ s[i - 1][2] < required
  BY DEF Told
<1>8. count[d] # NoRow => /\ count[d] \in Nat
                          /\ status[d] = "confirmed" <=> count[d] >= required
  BY <1>1, <1>2, StatusIs DEF StatusInv
<1>9. /\ e[1] = "detected" <=> s = <<>>
      /\ s # <<>> => (e[1] = "confirmed" <=> n >= required /\ count[d] < required)
  BY <1>2, <1>3, <1>5, <1>7, <1>8 DEF EventKind
<1>10. /\ Append(s, e) # <<>> /\ Len(Append(s, e)) = Len(s) + 1 /\ Len(s) \in Nat
       /\ Append(s, e)[Len(s) + 1] = e
       /\ \A i \in 1 .. Len(s) : Append(s, e)[i] = s[i]
       /\ s = <<>> <=> Len(s) = 0
  BY <1>1
<1> HIDE DEF s, required
<1>11. PICK q : q = Append(s, e) OBVIOUS
<1>12. \A i \in 1 .. Len(q) : q[i][1] = "detected" <=> i = 1
  BY <1>7, <1>9, <1>10, <1>11
<1>13. ASSUME NEW i \in 2 .. Len(q)
       PROVE  /\ q[i][2] # q[i - 1][2]
              /\ q[i][1] = "confirmed" <=> q[i][2] >= required /\ q[i - 1][2] < required
  <2>1. CASE i \in 2 .. Len(s)
    <3>1. q[i] = s[i] /\ q[i - 1] = s[i - 1] BY <1>10, <1>11, <2>1
    <3> QED BY <1>7, <2>1, <3>1
  <2>2. CASE i = Len(s) + 1
    <3>1. q[i] = e /\ q[i - 1] = s[Len(s)] /\ s # <<>> BY <1>10, <1>11, <1>13, <2>2
    <3>2. q[i - 1][2] = count[d] BY <1>7, <3>1
    <3> QED BY <1>5, <1>9, <3>1, <3>2
  <2> QED BY <1>10, <1>11, <1>13, <2>1, <2>2
<1>14. q # <<>> /\ q[Len(q)][2] = n /\ n # NoRow BY <1>5, <1>10, <1>11 DEF NoRow
<1>15. told'[d] = q BY <1>6, <1>11
<1> QED BY <1>12, <1>13, <1>14, <1>15 DEF Told, required

LEMMA RowStep ==
    ASSUME TypeInv, StatusInv, OutboxMatchesDeposit, [Next]_vars
    PROVE  StatusInv' /\ OutboxMatchesDeposit'
<1>1. CASE UNCHANGED rows BY <1>1 DEF rows, StatusInv, OutboxMatchesDeposit
<1>2. ASSUME NEW d \in Deposits, NEW n \in Nat, RecordObservation(d, n), ~UNCHANGED rows
      PROVE  StatusInv' /\ OutboxMatchesDeposit'
  <2>1. PICK new : new = FromConfirmations(n, Required[AddressOf[d]]) OBVIOUS
  <2>2. /\ count[d] # n
        /\ count' = [count EXCEPT ![d] = n] /\ status' = [status EXCEPT ![d] = new]
        /\ told' = [told EXCEPT ![d] = Append(@, <<EventKind(d, new), n>>)]
    BY <1>2, <2>1 DEF RecordObservation
  <2>3. StatusInv' BY <2>1, <2>2 DEF StatusInv, TypeInv, TypeOK
  <2>4. ASSUME NEW j \in Deposits PROVE Told(j)'
    <3>1. CASE j = d
      <4>1. Told(d) BY DEF OutboxMatchesDeposit, Told
      <4>2. told'[d] = Append(told[d], <<EventKind(d, new), n>>) /\ count'[d] = n
        BY <2>2 DEF TypeInv, TypeOK
      <4> QED BY <2>1, <2>2, <3>1, <4>1, <4>2, TellStep
    <3>2. CASE j # d
      <4>1. told'[j] = told[j] /\ count'[j] = count[j] BY <2>2, <3>2 DEF TypeInv, TypeOK
      <4>2. Told(j) BY DEF OutboxMatchesDeposit, Told
      <4> QED BY <4>1, <4>2 DEF Told
    <3> QED BY <3>1, <3>2
  <2>5. OutboxMatchesDeposit' BY <2>4 DEF OutboxMatchesDeposit, Told
  <2> QED BY <2>3, <2>5
<1> QED BY <1>1, <1>2, RowsFrom

-----------------------------------------------------------------------------
(* Counts and the chain.                                                   *)

LEMMA FetchStep == ASSUME TypeInv, FetchInv, [Next]_vars PROVE FetchInv'
<1>1. CASE UNCHANGED <<pc, fetched, found>> BY <1>1 DEF FetchInv
<1>2. CASE UNCHANGED vars \/ (\E a \in Addresses : CreateAddress(a)) \/ ChainStep
           \/ \E d \in Deposits : RecordConfirmed(d)
  BY <1>1, <1>2 DEF vars, CreateAddress, ChainStep, MineBlock, DisconnectBlock, Broadcast, Spend,
     RecordConfirmed, pass
<1>3. CASE \/ ReadAddresses \/ ScanAddresses \/ ListMempool \/ PassDone \/ PassFails
           \/ \E d \in Deposits : FetchOutputs(d) \/ RecordUnconfirmed(d)
  BY <1>3 DEF ReadAddresses, ScanAddresses, ListMempool, PassDone, PassFails, EndPass,
     FetchOutputs, RecordUnconfirmed, FetchInv
<1> QED BY <1>2, <1>3 DEF Next, PassStep

LEMMA AheadStep == ASSUME TypeInv, FetchInv, AheadInv, [Next]_vars PROVE AheadInv'
<1>t. TypeOK /\ ChainInv BY DEF TypeInv
<1> SUFFICES ASSUME NEW d \in Deposits, d \notin shaken'
             PROVE  /\ place'[d] # "spent" => count'[d] <= True(d)' /\ found'[d] <= True(d)'
                    /\ pc' = "confirmed" /\ d \in todo' => count'[d] <= found'[d]
                    /\ pc' = "write" /\ d \in fetched' => count'[d] <= 0
  BY DEF AheadInv
<1>v. True(d) \in Nat /\ (place[d] = "mined" => True(d) > 0) /\ found[d] \in Nat
      /\ count[d] \in Nat \union {-1}
  BY <1>t, TrueIs DEF TypeOK, NoRow
<1>h. d \notin shaken =>
        /\ place[d] # "spent" => count[d] <= True(d) /\ found[d] <= True(d)
        /\ pc = "confirmed" /\ d \in todo => count[d] <= found[d]
        /\ pc = "write" /\ d \in fetched => count[d] <= 0
  BY DEF AheadInv
<1>1. CASE UNCHANGED vars \/ (\E a \in Addresses : CreateAddress(a)) \/ ReadAddresses
  BY <1>h, <1>1 DEF vars, CreateAddress, ReadAddresses, rows, chain, pass, True
<1>2. CASE MineBlock
  <2>1. /\ UNCHANGED <<rows, pass, shaken>> /\ tip' = tip + 1
        /\ \/ UNCHANGED <<place[d], height[d]>>
           \/ place[d] = "mempool" /\ place'[d] = "mined" /\ height'[d] = tip'
    BY <1>t, <1>2 DEF MineBlock, TypeOK
  <2>2. True(d)' >= True(d) BY <1>t, <2>1 DEF True, TypeOK
  <2>3. place'[d] = place[d] \/ place[d] = "mempool" BY <2>1
  <2>4. True(d)' \in Int BY <1>t, <2>1 DEF True, TypeOK
  <2> QED BY <1>h, <1>v, <2>1, <2>2, <2>3, <2>4 DEF rows, pass
<1>3. CASE DisconnectBlock BY <1>3 DEF DisconnectBlock
<1>4. ASSUME NEW e \in Deposits, Broadcast(e) \/ Spend(e)
      PROVE  /\ place'[d] # "spent" => count'[d] <= True(d)' /\ found'[d] <= True(d)'
             /\ pc' = "confirmed" /\ d \in todo' => count'[d] <= found'[d]
             /\ pc' = "write" /\ d \in fetched' => count'[d] <= 0
  <2>1. UNCHANGED <<rows, pass, shaken, tip, height>> BY <1>4 DEF Broadcast, Spend
  <2>2. \/ place'[d] = place[d] \/ place'[d] = "spent"
        \/ place[d] = "nowhere" /\ place'[d] = "mempool"
    BY <1>t, <1>4 DEF Broadcast, Spend, TypeOK
  <2>3. place'[d] # "spent" => place[d] # "spent" /\ True(d)' = True(d)
    BY <2>1, <2>2 DEF True
  <2> QED BY <1>h, <2>1, <2>3 DEF rows, pass
<1>5. CASE ScanAddresses
  <2>1. UNCHANGED <<rows, chain, fetched, shaken>> /\ pc' = "confirmed" BY <1>5 DEF ScanAddresses
  <2>2. found'[d] \in {0, True(d)} /\ (d \in todo' => found'[d] > 0) /\ (found'[d] > 0 => place[d] = "mined")
    BY <1>t, <1>5 DEF ScanAddresses, Confirmations, True, TypeOK
  <2>3. True(d)' = True(d) BY <2>1 DEF True, chain
  <2> QED BY <1>h, <1>v, <2>1, <2>2, <2>3 DEF rows, chain
<1>6. CASE ListMempool \/ (\E e \in Deposits : FetchOutputs(e))
  <2>1. UNCHANGED <<rows, chain, found, shaken>> /\ pc' # "confirmed"
    BY <1>6 DEF ListMempool, FetchOutputs
  <2>2. pc' = "write" /\ d \in fetched' => place[d] = "mempool"
    BY <1>6 DEF ListMempool, FetchOutputs, InMempool
  <2>3. True(d)' = True(d) BY <2>1 DEF True, chain
  <2>4. place[d] = "mempool" => True(d) = 0 BY DEF True
  <2> QED BY <1>h, <2>1, <2>2, <2>3, <2>4 DEF rows, chain
<1>7. CASE PassDone \/ PassFails
  <2>1. UNCHANGED <<rows, chain, shaken>> /\ pc' = "idle" /\ found'[d] = 0
    BY <1>7 DEF PassDone, PassFails, EndPass
  <2>2. True(d)' = True(d) BY <2>1 DEF True, chain
  <2> QED BY <1>h, <1>v, <2>1, <2>2 DEF rows, chain
<1>8. ASSUME NEW e \in Deposits, NEW n \in Nat, RecordObservation(e, n),
             \/ RecordConfirmed(e) /\ n = found[e]
             \/ RecordUnconfirmed(e) /\ n = 0
      PROVE  /\ place'[d] # "spent" => count'[d] <= True(d)' /\ found'[d] <= True(d)'
             /\ pc' = "confirmed" /\ d \in todo' => count'[d] <= found'[d]
             /\ pc' = "write" /\ d \in fetched' => count'[d] <= 0
  <2>1. UNCHANGED <<chain, found>> /\ pc' # "write" BY <1>8 DEF RecordConfirmed, RecordUnconfirmed
  <2>2. True(d)' = True(d) BY <2>1 DEF True, chain
  <2>3. pc' = "confirmed" => pc = "confirmed" /\ todo' = todo \ {e}
    BY <1>8 DEF RecordConfirmed, RecordUnconfirmed
  <2>4. CASE e # d
    <3>1. count'[d] = count[d] /\ d \notin shaken
      BY <1>t, <1>8, <2>4 DEF RecordObservation, rows, TypeOK
    <3> QED BY <1>h, <2>1, <2>2, <2>3, <2>4, <3>1 DEF chain
  <2>5. CASE e = d
    <3>1. count'[d] = n BY <1>t, <1>8, <2>5 DEF RecordObservation, rows, TypeOK
    <3>2. d \notin shaken \/ n = True(d) BY <1>8, <2>5 DEF RecordObservation, True
    <3>3. n <= True(d) \/ place[d] = "spent"
      BY <1>h, <1>v, <1>8, <2>5, <3>2
    <3>4. found[d] <= True(d) \/ place[d] = "spent"
      <4>1. CASE d \notin shaken BY <1>h, <4>1
      <4>2. n = found[d] BY <1>8, <2>5 DEF RecordUnconfirmed, FetchInv
      <4> QED BY <1>v, <3>2, <4>1, <4>2
    <3>5. pc' = "confirmed" => d \notin todo' BY <2>3, <2>5
    <3> QED BY <2>1, <2>2, <3>1, <3>3, <3>4, <3>5 DEF chain
  <2> QED BY <2>4, <2>5
<1>9. ASSUME NEW e \in Deposits, RecordConfirmed(e) \/ RecordUnconfirmed(e)
      PROVE  \E n \in Nat : /\ RecordObservation(e, n)
                            /\ \/ RecordConfirmed(e) /\ n = found[e]
                               \/ RecordUnconfirmed(e) /\ n = 0
  <2>1. found[e] \in Nat /\ 0 \in Nat BY <1>t DEF TypeOK
  <2> QED BY <1>9, <2>1 DEF RecordConfirmed, RecordUnconfirmed
<1> QED BY <1>1, <1>2, <1>3, <1>4, <1>5, <1>6, <1>7, <1>8, <1>9 DEF Next, ChainStep, PassStep

-----------------------------------------------------------------------------
(* The theorems.                                                           *)

IInv == StatusInv /\ OutboxMatchesDeposit /\ FetchInv /\ AheadInv

LEMMA Invariant == Spec => [](TypeInv /\ IInv)
<1>1. ASSUME Init PROVE IInv
  <2>1. StatusInv /\ FetchInv BY <1>1 DEF Init, StatusInv, FetchInv
  <2>2. OutboxMatchesDeposit BY <1>1 DEF Init, OutboxMatchesDeposit
  <2>3. AheadInv BY <1>1 DEF Init, AheadInv, True, NoRow
  <2> QED BY <2>1, <2>2, <2>3 DEF IInv
<1>2. TypeInv /\ IInv /\ [Next]_vars => IInv' BY RowStep, FetchStep, AheadStep DEF IInv
<1> QED BY <1>1, <1>2, InitTyped, NextTyped, PTL DEF Spec

\* The events of a deposit are its history, `detected` first and once, never the same
\* count twice, `confirmed` exactly when the required count is reached.
THEOREM OutboxComplete == Spec => []OutboxMatchesDeposit
BY Invariant, PTL DEF IInv

\* What an unshaken deposit is recorded with is not below what was recorded.
LEMMA CountStep ==
    ASSUME TypeInv, IInv, [Next]_vars
    PROVE  \A d \in Deposits : count'[d] < count[d] => d \in shaken
<1> SUFFICES ASSUME NEW d \in Deposits, d \notin shaken, count'[d] < count[d] PROVE FALSE OBVIOUS
<1>1. count[d] \in Nat \union {-1} /\ found[d] \in Nat BY DEF TypeInv, TypeOK, NoRow
<1>2. PICK e \in Deposits : RecordConfirmed(e) \/ RecordUnconfirmed(e)
  <2>1. ~UNCHANGED count BY <1>1
  <2> QED BY <2>1 DEF Next, vars, CreateAddress, ChainStep, PassStep, MineBlock, DisconnectBlock, Broadcast,
             Spend, ReadAddresses, ScanAddresses, ListMempool, PassDone, PassFails, EndPass,
             FetchOutputs, rows
<1>3. ASSUME NEW n \in Nat, RecordObservation(e, n) PROVE e = d /\ count'[d] = n
  <2>1. count' = [count EXCEPT ![e] = n] \/ UNCHANGED count BY <1>3 DEF RecordObservation, rows
  <2>2. count'[d] # count[d] BY <1>1
  <2> QED BY <2>1, <2>2 DEF TypeInv, TypeOK
<1>4. CASE RecordConfirmed(e)
  <2>1. found[e] \in Nat BY DEF TypeInv, TypeOK
  <2>2. e = d /\ count'[d] = found[d] BY <1>3, <1>4, <2>1 DEF RecordConfirmed
  <2>3. count[d] <= found[d] BY <1>4, <2>2 DEF RecordConfirmed, IInv, AheadInv
  <2> QED BY <1>1, <2>2, <2>3
<1>5. CASE RecordUnconfirmed(e)
  <2>1. e = d /\ count'[d] = 0 BY <1>3, <1>5 DEF RecordUnconfirmed
  <2>2. count[d] <= 0 BY <1>5, <2>1 DEF RecordUnconfirmed, IInv, AheadInv
  <2> QED BY <1>1, <2>1, <2>2
<1> QED BY <1>2, <1>4, <1>5

\* A recorded count falls only if a block was disconnected since the deposit was last
\* recorded as it is, whatever order snapshots are taken and written in.
THEOREM CountsRise == Spec => CountFallsOnlyAfterReorg
BY CountStep, Invariant, PTL DEF Spec, CountFallsOnlyAfterReorg

=============================================================================
