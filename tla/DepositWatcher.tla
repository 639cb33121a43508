--------------------------- MODULE DepositWatcher ---------------------------
(***************************************************************************)
(* On-chain deposits: stored addresses, the watcher that scans Bitcoin     *)
(* Core in passes, and the rows and events it records.  A pass takes the   *)
(* addresses, a snapshot of the UTXO set and a listing of the mempool one  *)
(* after the other, and writes output by output, while the chain moves on: *)
(* blocks arrive or are disconnected, deposits are spent.  A pass may end  *)
(* with an error or a crash between any two steps; the next one starts     *)
(* over.  A deposit is one output, in a transaction of its own.            *)
(***************************************************************************)
EXTENDS Integers, Sequences, FiniteSets

CONSTANTS
    Addresses,    \* addresses of the node's wallet
    Deposits,     \* outputs that pay them
    AddressOf,    \* the address an output pays
    Required,     \* required_confirmations of each address
    MempoolCap,   \* MAX_MEMPOOL_TXS
    MaxTip,       \* bound on the height of the chain
    MaxReorgs     \* bound on disconnected blocks

ASSUME DepositAssumption == AddressOf \in [Deposits -> Addresses]
ASSUME RequiredAssumption == Required \in [Addresses -> 1 .. 100]
ASSUME BoundAssumption == MempoolCap \in Nat /\ MaxTip \in Nat /\ MaxReorgs \in Nat

VARIABLES
    (* onchain_addresses, onchain_transactions and their events *)
    watched, count, status, told,
    (* Bitcoin Core: the chain and where each deposit is *)
    tip, place, height, reorgs,
    (* the watcher's pass *)
    pc, names, found, todo, fetched,
    (* history: deposits not recorded as they are since a block was disconnected *)
    shaken

rows  == <<count, status, told>>
chain == <<tip, place, height, reorgs>>
pass  == <<pc, names, found, todo, fetched>>
vars  == <<watched, rows, chain, pass, shaken>>

NoRow  == -1   \* the count of a deposit that is not recorded
Places == {"nowhere", "mempool", "mined", "spent"}
OnchainStatus == {"unconfirmed", "confirming", "confirmed"}
Kinds  == {"detected", "updated", "confirmed"}

TypeOK ==
    /\ watched \subseteq Addresses
    /\ count \in [Deposits -> Nat \union {NoRow}]
    /\ status \in [Deposits -> OnchainStatus \union {"none"}]
    /\ told \in [Deposits -> Seq(Kinds \X Nat)]
    /\ tip \in Nat /\ place \in [Deposits -> Places]
    /\ height \in [Deposits -> Nat] /\ reorgs \in Nat
    /\ pc \in {"idle", "scan", "confirmed", "mempool", "write"}
    /\ names \subseteq Addresses /\ found \in [Deposits -> Nat]
    /\ todo \subseteq Deposits /\ fetched \subseteq Deposits
    /\ shaken \subseteq Deposits

Init ==
    /\ watched = {}
    /\ count = [d \in Deposits |-> NoRow]
    /\ status = [d \in Deposits |-> "none"]
    /\ told = [d \in Deposits |-> <<>>]
    /\ tip = 0 /\ place = [d \in Deposits |-> "nowhere"]
    /\ height = [d \in Deposits |-> 0] /\ reorgs = 0
    /\ pc = "idle" /\ names = {} /\ found = [d \in Deposits |-> 0]
    /\ todo = {} /\ fetched = {}
    /\ shaken = {}

-----------------------------------------------------------------------------
(* The API and Bitcoin Core.                                               *)

CreateAddress(a) ==
    /\ a \notin watched
    /\ watched' = watched \union {a}
    /\ UNCHANGED <<rows, chain, pass, shaken>>

\* A payer, who has the address from the API, sends to it.
Broadcast(d) ==
    /\ place[d] = "nowhere" /\ AddressOf[d] \in watched
    /\ place' = [place EXCEPT ![d] = "mempool"]
    /\ UNCHANGED <<watched, rows, tip, height, reorgs, pass, shaken>>

MineBlock ==
    /\ tip < MaxTip /\ tip' = tip + 1
    /\ \E S \in SUBSET {d \in Deposits : place[d] = "mempool"} :
        /\ place' = [d \in Deposits |-> IF d \in S THEN "mined" ELSE place[d]]
        /\ height' = [d \in Deposits |-> IF d \in S THEN tip' ELSE height[d]]
    /\ UNCHANGED <<watched, rows, reorgs, pass, shaken>>

\* The last block is disconnected; its deposits wait again or are gone for good.
DisconnectBlock ==
    LET lost == {d \in Deposits : place[d] = "mined" /\ height[d] = tip} IN
    /\ tip > 0 /\ reorgs < MaxReorgs
    /\ tip' = tip - 1 /\ reorgs' = reorgs + 1
    /\ \E to \in {"mempool", "nowhere"} :
        place' = [d \in Deposits |-> IF d \in lost THEN to ELSE place[d]]
    /\ shaken' = Deposits
    /\ UNCHANGED <<watched, rows, height, pass>>

\* The node's wallet spends the deposit: it leaves the UTXO set.
Spend(d) ==
    /\ place[d] = "mined"
    /\ place' = [place EXCEPT ![d] = "spent"]
    /\ UNCHANGED <<watched, rows, tip, height, reorgs, pass, shaken>>

-----------------------------------------------------------------------------
(* record_observation.                                                     *)

\* Mutant: a deposit without confirmations has a status the table does not know.
FromConfirmations_Awaiting(n, required) ==
    IF n = 0 THEN "awaiting" ELSE IF n < required THEN "confirming" ELSE "confirmed"

FromConfirmations(n, required) ==
    IF n = 0 THEN "unconfirmed" ELSE IF n < required THEN "confirming" ELSE "confirmed"

\* Mutant: the stored status is not compared.
EventKind_EveryTime(d, new) ==
    IF count[d] = NoRow THEN "detected" ELSE IF new = "confirmed" THEN "confirmed" ELSE "updated"

\* The event for a deposit whose status is now `new`.
EventKind(d, new) ==
    IF count[d] = NoRow THEN "detected"
    ELSE IF new = "confirmed" /\ status[d] # "confirmed" THEN "confirmed" ELSE "updated"

\* Row and event in one transaction; an unchanged count changes nothing.
RecordObservation(d, n) ==
    LET new == FromConfirmations(n, Required[AddressOf[d]])
        true == IF place[d] = "mined" THEN tip + 1 - height[d] ELSE 0 IN
    /\ \/ count[d] = n /\ UNCHANGED rows
       \/ /\ count[d] # n
          /\ count' = [count EXCEPT ![d] = n]
          /\ status' = [status EXCEPT ![d] = new]
          /\ told' = [told EXCEPT ![d] = Append(@, <<EventKind(d, new), n>>)]
    /\ shaken' = IF n = true THEN shaken \ {d} ELSE shaken

-----------------------------------------------------------------------------
(* scan_once.                                                              *)

ReadAddresses ==
    /\ pc = "idle" /\ watched # {}
    /\ names' = watched /\ pc' = "scan"
    /\ UNCHANGED <<watched, rows, chain, found, todo, fetched, shaken>>

\* Mutant: the block of the deposit itself is not counted.
Confirmations_OffByOne(t, h) == t - h

Confirmations(t, h) == t + 1 - h

\* scantxoutset answers with the height it scanned at; 0 is an output it did not find.
ScanAddresses ==
    /\ pc = "scan"
    /\ found' = [d \in Deposits |-> IF place[d] = "mined" /\ AddressOf[d] \in names
                                    THEN Confirmations(tip, height[d]) ELSE 0]
    /\ todo' = {d \in Deposits : found'[d] > 0} /\ pc' = "confirmed"
    /\ UNCHANGED <<watched, rows, chain, names, fetched, shaken>>

RecordConfirmed(d) ==
    /\ pc = "confirmed" /\ d \in todo
    /\ RecordObservation(d, found[d])
    /\ todo' = todo \ {d}
    /\ UNCHANGED <<watched, chain, pc, names, found, fetched>>

\* Mutant: what has left the UTXO set counts as unconfirmed.
InMempool_Spent(d) == place[d] \in {"mempool", "spent"}

InMempool(d) == place[d] = "mempool"

\* Only the first transactions of a long mempool are looked at.
ListMempool ==
    LET listed == {d \in Deposits : InMempool(d)} IN
    /\ pc = "confirmed" /\ todo = {}
    /\ \E S \in SUBSET listed :
        /\ S = listed \/ Cardinality(S) = MempoolCap
        /\ Cardinality(S) <= MempoolCap
        /\ todo' = S
    /\ pc' = "mempool"
    /\ UNCHANGED <<watched, rows, chain, names, found, fetched, shaken>>

\* mempool_outputs: an output of a watched address, unless the transaction has been
\* mined or evicted in between or the scan has seen it.
FetchOutputs(d) ==
    LET relevant == InMempool(d) /\ AddressOf[d] \in names /\ found[d] = 0 IN
    /\ pc = "mempool" /\ d \in todo
    /\ todo' = todo \ {d}
    /\ fetched' = IF relevant THEN {d} ELSE {}
    /\ pc' = IF relevant THEN "write" ELSE "mempool"
    /\ UNCHANGED <<watched, rows, chain, names, found, shaken>>

RecordUnconfirmed(d) ==
    /\ pc = "write" /\ d \in fetched
    /\ RecordObservation(d, 0)
    /\ pc' = "mempool" /\ fetched' = {}
    /\ UNCHANGED <<watched, chain, names, found, todo>>

\* The locals of the pass are gone.
EndPass ==
    /\ pc' = "idle" /\ names' = {} /\ found' = [d \in Deposits |-> 0]
    /\ todo' = {} /\ fetched' = {}
    /\ UNCHANGED <<watched, rows, chain, shaken>>

PassDone == pc = "mempool" /\ todo = {} /\ EndPass

\* An RPC or database error ends the pass, or the process dies: `run` starts another.
PassFails == pc # "idle" /\ EndPass

-----------------------------------------------------------------------------

ChainStep == \/ MineBlock \/ DisconnectBlock
             \/ \E d \in Deposits : Broadcast(d) \/ Spend(d)
PassStep  == \/ ReadAddresses \/ ScanAddresses \/ ListMempool \/ PassDone \/ PassFails
             \/ \E d \in Deposits : RecordConfirmed(d) \/ FetchOutputs(d) \/ RecordUnconfirmed(d)

Next == (\E a \in Addresses : CreateAddress(a)) \/ ChainStep \/ PassStep

(* The watcher keeps running, and Bitcoin Core and the database do not fail every *)
(* time the UTXO set is scanned or a deposit written.  The chain, the clients and *)
(* the rest of a pass owe nothing.                                                *)
Fairness == /\ WF_vars(PassStep) /\ SF_vars(ScanAddresses)
            /\ \A d \in Deposits : SF_vars(RecordConfirmed(d))

Spec == Init /\ [][Next]_vars /\ Fairness

-----------------------------------------------------------------------------
(* Properties.                                                             *)

\* The events of a deposit are its history: `detected` first and once, never the same
\* count twice in a row, and `confirmed` exactly when the required count is reached,
\* again after a reorganisation; the last event tells what the row says.
OutboxMatchesDeposit ==
    \A d \in Deposits :
        LET required == Required[AddressOf[d]] IN
        /\ told[d] = <<>> <=> count[d] = NoRow
        /\ told[d] # <<>> => told[d][Len(told[d])][2] = count[d]
        /\ \A i \in 1 .. Len(told[d]) : told[d][i][1] = "detected" <=> i = 1
        /\ \A i \in 2 .. Len(told[d]) :
            /\ told[d][i][2] # told[d][i - 1][2]
            /\ told[d][i][1] = "confirmed" <=>
                   told[d][i][2] >= required /\ told[d][i - 1][2] < required

\* Snapshots of the UTXO set and of the mempool are taken at different times and are
\* written later still, yet a recorded count falls only if a block was disconnected.
CountFallsOnlyAfterReorg ==
    [][\A d \in Deposits : count'[d] < count[d] => d \in shaken]_vars

\* A deposit that stays in the chain is recorded with its true count in the end, in
\* spite of failing passes, restarts and disconnected blocks.
EventuallyAccurate ==
    \A d \in Deposits :
        <>[](place[d] = "mined") => <>[](count[d] = tip + 1 - height[d])

=============================================================================
