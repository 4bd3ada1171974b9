-------------------------- MODULE DeliveriesProofs --------------------------
(***************************************************************************)
(* Proofs about what reaches whom: the signals of the bridge receiver, the *)
(* webhooks, the event stream and the client's pages, for any accounts,    *)
(* transactions, requests and bounds.                                      *)
(***************************************************************************)
EXTENDS MCDeliveries, FiniteSetTheorems, TLAPS

-----------------------------------------------------------------------------
(* The bridge receiver.  The inductive invariant adds to the properties what *)
(* they rest on: a pending signal was filed before every execution of its    *)
(* transaction.                                                              *)


\* No record was filed later than now.
FiledInThePast == \A id \in Filed : signals[id].filedAfter <= Len(executions)

\* A transaction already executed when a signal is still pending was executed
\* after that signal had been filed.
PendingIsOlder ==
    \A id \in Filed, i \in DOMAIN executions :
        signals[id].status = "Pending" /\ executions[i].tx = signals[id].tx
            => signals[id].filedAfter < i

IInv ==
    /\ TypeOK
    /\ ProcessedMeansExecuted
    /\ FiledInThePast
    /\ PendingIsOlder
    /\ ReplaysAreOlderFilings

-----------------------------------------------------------------------------
\* Everything of the invariant is about these variables and TypeOK, so steps of
\* the administrators keep it.
LEMMA AccessKeeps ==
    ASSUME IInv, TypeOK', UNCHANGED <<signals, processed, executions>>
    PROVE  IInv'
  BY DEF IInv, ProcessedMeansExecuted, FiledInThePast, PendingIsOlder,
         ReplaysAreOlderFilings, Filed

\* No signal is filed at first.
LEMMA InitIInv == Init => IInv
<1> SUFFICES ASSUME Init PROVE IInv
  OBVIOUS
<1>1. Filed = {}
  BY DEF Init, Filed
<1>2. executions = <<>> /\ DOMAIN executions = {} /\ executions \in Seq(SignalRecord)
  BY DEF Init
<1>3. TypeOK
  <2>1. paused \in BOOLEAN
    BY Zenon DEF Init
  <2>2. admin \in Accounts \cup {NoAdmin} /\ relayers \subseteq Accounts /\ processed \subseteq Txs
    BY DEF Init
  <2>3. signals \in [Ids -> SignalRecord \cup {NoSignal}]
    BY DEF Init
  <2>4. received \in 0 .. MaxSignals /\ nextSignalId \in 0 .. received /\ inits \in Nat
    BY BridgeAssumption DEF Init
  <2> QED BY <1>2, <2>1, <2>2, <2>3, <2>4 DEF TypeOK
<1>4. ProcessedMeansExecuted
  BY <1>2 DEF Init, ProcessedMeansExecuted
<1> QED BY <1>1, <1>2, <1>3, <1>4 DEF IInv, FiledInThePast, PendingIsOlder, ReplaysAreOlderFilings

\* Each kind of administrative step.
LEMMA AdminStep ==
    ASSUME IInv, NEW u \in Accounts, NEW r \in Accounts,
           \/ Initialize(u) \/ Pause(u) \/ Unpause(u)
           \/ AddRelayer(u, r) \/ RemoveRelayer(u, r)
    PROVE  IInv'
<1> USE DEF IInv, TypeOK
<1>1. CASE Initialize(u)
  <2>1. paused' \in BOOLEAN
    BY <1>1, Zenon DEF Initialize
  <2>2. nextSignalId' \in 0 .. received' /\ inits' \in Nat
    BY <1>1, BridgeAssumption DEF Initialize
  <2>3. TypeOK'
    BY <1>1, <2>1, <2>2 DEF Initialize
  <2> QED BY <1>1, <2>3, AccessKeeps DEF Initialize
<1>2. CASE Pause(u)
  BY <1>2, AccessKeeps DEF Pause
<1>3. CASE Unpause(u)
  BY <1>3, AccessKeeps DEF Unpause
<1>4. CASE AddRelayer(u, r)
  BY <1>4, AccessKeeps DEF AddRelayer
<1>5. CASE RemoveRelayer(u, r)
  BY <1>5, AccessKeeps DEF RemoveRelayer
<1> QED BY <1>1, <1>2, <1>3, <1>4, <1>5

\* Filing a signal: its transaction has not been executed yet.
LEMMA ReceiveStep ==
    ASSUME IInv, NEW u \in Accounts, NEW tx \in Txs, NEW payload \in Payloads,
           NEW proof \in BOOLEAN, ReceiveMintSignal(u, tx, payload, proof)
    PROVE  IInv'
<1> DEFINE new == [tx |-> tx, payload |-> payload, proof |-> proof, relayer |-> u,
                   status |-> "Pending", filedAfter |-> Len(executions)]
<1>0. /\ signals' = [signals EXCEPT ![nextSignalId] = new]
      /\ UNCHANGED <<access, processed, inits, executions>>
      /\ received' = received + 1 /\ nextSignalId' = nextSignalId + 1
      /\ received < MaxSignals /\ tx \notin processed
  BY DEF ReceiveMintSignal, NextId, IsTxProcessed
<1>1. /\ new \in SignalRecord /\ new # NoSignal
      /\ nextSignalId \in Ids /\ Len(executions) \in Nat
  <2>1. /\ Len(executions) \in Nat /\ received \in 0 .. MaxSignals
        /\ nextSignalId \in 0 .. received
    BY DEF IInv, TypeOK
  <2>2. new \in SignalRecord
    BY <2>1 DEF SignalRecord
  <2> QED BY <1>0, <2>1, <2>2, BridgeAssumption DEF Ids
<1>2. TypeOK'
  BY <1>0, <1>1, BridgeAssumption DEF IInv, TypeOK, access
<1>3. /\ Filed' = Filed \cup {nextSignalId}
      /\ signals'[nextSignalId] = new
      /\ \A id \in Filed' \ {nextSignalId} : id \in Filed /\ signals'[id] = signals[id]
  BY <1>0, <1>1 DEF IInv, TypeOK, Filed
<1>4. FiledInThePast'
  BY <1>0, <1>1, <1>3 DEF IInv, FiledInThePast
<1>5. \A i \in DOMAIN executions : executions[i].tx # tx
  BY <1>0 DEF IInv, ProcessedMeansExecuted
<1>6. PendingIsOlder'
  BY <1>0, <1>3, <1>5 DEF IInv, PendingIsOlder
<1> QED BY <1>0, <1>2, <1>4, <1>6 DEF IInv, ProcessedMeansExecuted, ReplaysAreOlderFilings

\* Executing a signal: by PendingIsOlder it was filed before whatever was
\* executed for its transaction.
LEMMA ExecuteStep ==
    ASSUME IInv, NEW u \in Accounts, NEW id \in Ids, ExecuteMintSignal(u, id)
    PROVE  IInv'
<1> DEFINE verdict == IF signals[id].proof THEN "Executed" ELSE "Failed"
           marked  == [signals[id] EXCEPT !.status = verdict]
<1>0. /\ id \in Filed /\ signals[id].status = "Pending"
      /\ signals' = [signals EXCEPT ![id] = marked]
      /\ UNCHANGED <<access, nextSignalId, received, inits>>
  BY DEF ExecuteMintSignal, MayExecute
<1>1. /\ signals \in [Ids -> SignalRecord \cup {NoSignal}]
      /\ signals[id] \in SignalRecord /\ executions \in Seq(SignalRecord)
      /\ Len(executions) \in Nat /\ processed \subseteq Txs
  BY <1>0 DEF IInv, TypeOK, Filed
<1>2. /\ marked \in SignalRecord /\ marked # NoSignal
      /\ marked.tx = signals[id].tx /\ marked.filedAfter = signals[id].filedAfter
      /\ marked.status # "Pending"
  <2>1. marked \in SignalRecord
    BY <1>1 DEF SignalRecord
  <2> QED BY <1>1, <2>1, BridgeAssumption DEF SignalRecord
<1>3. /\ Filed' = Filed /\ signals'[id] = marked
      /\ \A k \in Filed : k # id => signals'[k] = signals[k]
  BY <1>0, <1>1, <1>2 DEF Filed
<1>4. CASE signals[id].proof
  <2>0. /\ processed' = processed \cup {signals[id].tx}
        /\ executions' = Append(executions, signals[id])
    BY <1>4 DEF ExecuteMintSignal, ProcessedAfter
  <2>1. /\ Len(executions') = Len(executions) + 1
        /\ DOMAIN executions' = DOMAIN executions \cup {Len(executions) + 1}
        /\ executions'[Len(executions) + 1] = signals[id]
        /\ \A i \in DOMAIN executions : executions'[i] = executions[i]
        /\ DOMAIN executions = 1 .. Len(executions)
    BY <2>0, <1>1
  <2>2. TypeOK'
    <3>1. signals[id].tx \in Txs
      BY <1>1 DEF SignalRecord
    <3> QED BY <1>0, <1>1, <1>2, <2>0, <3>1 DEF IInv, TypeOK, access
  <2>3. ProcessedMeansExecuted'
    BY <2>0, <2>1 DEF IInv, ProcessedMeansExecuted
  <2>4. \A k \in Filed : signals[k].filedAfter \in Nat
    BY <1>1 DEF Filed, SignalRecord
  <2>5. FiledInThePast'
    BY <1>2, <1>3, <2>1, <2>4, <1>1, <1>0 DEF IInv, FiledInThePast
  <2>6. PendingIsOlder'
    <3> SUFFICES ASSUME NEW k \in Filed, NEW i \in DOMAIN executions',
                        signals'[k].status = "Pending", executions'[i].tx = signals'[k].tx
                 PROVE  signals'[k].filedAfter < i
      BY <1>3 DEF PendingIsOlder
    <3>1. k # id /\ signals'[k] = signals[k]
      BY <1>2, <1>3
    <3>2. CASE i \in DOMAIN executions
      BY <2>1, <3>1, <3>2 DEF IInv, PendingIsOlder
    <3>3. CASE i = Len(executions) + 1
      <4>1. signals[k].filedAfter <= Len(executions)
        BY DEF IInv, FiledInThePast
      <4> QED BY <1>1, <2>4, <3>1, <3>3, <4>1
    <3> QED BY <2>1, <3>2, <3>3
  <2>7. ReplaysAreOlderFilings'
    BY <1>0, <1>1, <2>1 DEF IInv, ReplaysAreOlderFilings, PendingIsOlder
  <2> QED BY <2>2, <2>3, <2>5, <2>6, <2>7 DEF IInv
<1>5. CASE ~signals[id].proof
  <2>0. processed' = processed /\ executions' = executions
    BY <1>5 DEF ExecuteMintSignal, ProcessedAfter
  <2>1. TypeOK'
    BY <1>0, <1>1, <1>2, <2>0 DEF IInv, TypeOK, access
  <2>2. FiledInThePast' /\ PendingIsOlder'
    BY <1>0, <1>2, <1>3, <2>0 DEF IInv, FiledInThePast, PendingIsOlder
  <2> QED BY <2>0, <2>1, <2>2 DEF IInv, ProcessedMeansExecuted, ReplaysAreOlderFilings
<1> QED BY <1>4, <1>5

\* Every entry point keeps the invariant of the receiver.
LEMMA NextIInv == IInv /\ [Next]_vars => IInv'
<1> SUFFICES ASSUME IInv, [Next]_vars PROVE IInv'
  OBVIOUS
<1>1. CASE Next
  <2> PICK u \in Accounts :
        \/ Initialize(u) \/ Pause(u) \/ Unpause(u)
        \/ \E r \in Accounts : AddRelayer(u, r) \/ RemoveRelayer(u, r)
        \/ \E tx \in Txs, payload \in Payloads, proof \in BOOLEAN :
              ReceiveMintSignal(u, tx, payload, proof)
        \/ \E id \in Ids : ExecuteMintSignal(u, id)
    BY <1>1 DEF Next
  <2> QED BY AdminStep, ReceiveStep, ExecuteStep
<1>2. CASE UNCHANGED vars
  BY <1>2, AccessKeeps DEF vars, access, IInv, TypeOK
<1> QED BY <1>1, <1>2

\* The invariant of the receiver holds throughout.
LEMMA Invariant == Spec => []IInv
  BY InitIInv, NextIInv, PTL DEF Spec

-----------------------------------------------------------------------------
\* The contract's state is well formed, for any number of accounts and signals.
THEOREM TypeCorrect == Spec => []TypeOK
<1>1. IInv => TypeOK
  BY DEF IInv
<1> QED BY <1>1, Invariant, PTL

\* A source transaction is marked processed if and only if a signal for it was
\* executed (execute_mint_signal marks before it reports).
THEOREM MarkFollowsExecution == Spec => []ProcessedMeansExecuted
<1>1. IInv => ProcessedMeansExecuted
  BY DEF IInv
<1> QED BY <1>1, Invariant, PTL

\* The exact reach of the replay check of receive_mint_signal: a second
\* execution of a transaction uses a signal filed before the first.
THEOREM ReplayWindow == Spec => []ReplaysAreOlderFilings
<1>1. IInv => ReplaysAreOlderFilings
  BY DEF IInv
<1> QED BY <1>1, Invariant, PTL

-----------------------------------------------------------------------------
(* A filing is pending or was executed, or it failed or was overwritten; only *)
(* the first two are counted, and never both for one filing.                  *)

PendingIds == {id \in Filed : signals[id].status = "Pending"}

\* The signal ids are finitely many.
LEMMA PendingFinite == IsFiniteSet(PendingIds)
<1>1. PendingIds \subseteq 0 .. MaxSignals - 1 /\ MaxSignals - 1 \in Int
  BY BridgeAssumption DEF PendingIds, Filed, Ids
<1>2. IsFiniteSet(0 .. MaxSignals - 1)
  BY <1>1, FS_Interval
<1> QED BY <1>1, <1>2, FS_Subset

\* A transaction is executed at most as often as it was filed, whatever step is taken.
LEMMA FilingsCounted ==
    ASSUME IInv, OneExecutionPerFiling, [Next]_vars
    PROVE  OneExecutionPerFiling'
<1> DEFINE n == Cardinality(PendingIds)
<1>1. /\ signals \in [Ids -> SignalRecord \cup {NoSignal}]
      /\ received \in Nat /\ executions \in Seq(SignalRecord) /\ Len(executions) \in Nat
      /\ nextSignalId \in 0 .. received
  BY BridgeAssumption DEF IInv, TypeOK
<1>2. IsFiniteSet(PendingIds) /\ n \in Nat
  BY PendingFinite, FS_CardinalityType
<1>3. Len(executions) + n <= received
  BY DEF OneExecutionPerFiling, PendingIds
<1>4. SUFFICES Len(executions') + Cardinality(PendingIds') <= received'
  BY DEF OneExecutionPerFiling, PendingIds
<1>5. CASE UNCHANGED <<signals, received, executions>>
  <2>1. PendingIds' = PendingIds
    BY <1>5 DEF PendingIds, Filed
  <2> QED BY <1>3, <1>5, <2>1
<1>6. ASSUME NEW u \in Accounts, NEW tx \in Txs, NEW payload \in Payloads,
             NEW proof \in BOOLEAN, ReceiveMintSignal(u, tx, payload, proof)
      PROVE  Len(executions') + Cardinality(PendingIds') <= received'
  <2>1. /\ received' = received + 1 /\ executions' = executions
        /\ \A id \in Ids : id # nextSignalId => signals'[id] = signals[id]
    BY <1>1, <1>6 DEF ReceiveMintSignal
  <2>2. PendingIds' \subseteq PendingIds \cup {nextSignalId}
    BY <2>1 DEF PendingIds, Filed
  <2>3. /\ IsFiniteSet(PendingIds \cup {nextSignalId})
        /\ Cardinality(PendingIds \cup {nextSignalId}) \in {n, n + 1}
    BY <1>2, FS_AddElement
  <2>4. Cardinality(PendingIds') <= Cardinality(PendingIds \cup {nextSignalId})
    BY <2>2, <2>3, FS_Subset
  <2>5. Cardinality(PendingIds') \in Nat
    BY <2>2, <2>3, FS_Subset, FS_CardinalityType
  <2> QED BY <1>1, <1>2, <1>3, <2>1, <2>3, <2>4, <2>5
<1>7. ASSUME NEW u \in Accounts, NEW id \in Ids, ExecuteMintSignal(u, id)
      PROVE  Len(executions') + Cardinality(PendingIds') <= received'
  <2> DEFINE verdict == IF signals[id].proof THEN "Executed" ELSE "Failed"
             marked  == [signals[id] EXCEPT !.status = verdict]
  <2>1. /\ id \in PendingIds /\ received' = received
        /\ signals' = [signals EXCEPT ![id] = marked]
        /\ executions' = IF verdict = "Executed" THEN Append(executions, signals[id])
                                                 ELSE executions
    BY <1>7 DEF ExecuteMintSignal, MayExecute, PendingIds
  <2>2. signals[id] \in SignalRecord
    BY <1>1, <2>1 DEF PendingIds, Filed
  <2>3. marked.status # "Pending" /\ marked \in SignalRecord
    BY <2>2 DEF SignalRecord
  <2>4. PendingIds' = PendingIds \ {id}
    <3> HIDE DEF marked
    <3>1. signals'[id] = marked /\ \A k \in Ids : k # id => signals'[k] = signals[k]
      BY <1>1, <2>1
    <3> QED BY <2>3, <3>1 DEF PendingIds, Filed
  <2>5. Cardinality(PendingIds') = n - 1
    BY <1>2, <2>1, <2>4, FS_RemoveElement
  <2>6. Len(executions') <= Len(executions) + 1 /\ Len(executions') \in Nat
    BY <1>1, <2>1, <2>2
  <2> QED BY <1>1, <1>2, <1>3, <2>1, <2>5, <2>6
<1> QED
  BY <1>5, <1>6, <1>7 DEF Next, vars, Initialize, Pause, Unpause, AddRelayer, RemoveRelayer

\* Every filing mints at most once, for any number of initialize calls that
\* start the ids over and any number of signals replaced under their id
\* (bridge_receiver.rs:228-277, 304-363).
THEOREM FilingsMintOnce == Spec => []OneExecutionPerFiling
<1>1. Init => OneExecutionPerFiling
  <2> SUFFICES ASSUME Init PROVE OneExecutionPerFiling
    OBVIOUS
  <2>1. {id \in Filed : signals[id].status = "Pending"} = {}
    BY DEF Init, Filed
  <2>2. Len(executions) = 0 /\ received = 0
    BY DEF Init
  <2> QED BY <2>1, <2>2, FS_EmptySet DEF OneExecutionPerFiling
<1>2. IInv /\ OneExecutionPerFiling /\ [Next]_vars => OneExecutionPerFiling'
  BY FilingsCounted
<1> QED BY <1>1, <1>2, Invariant, PTL DEF Spec

-----------------------------------------------------------------------------
(* The webhooks.                                                             *)

WebhooksSpec == WebhooksInit /\ [][WebhooksNext]_webhookVars

LoopStates == [pc : Running \cup {"none", "find", "skipped", "delivered", "exhausted", "lost"},
               attempt : Nat]

WebhookTypes ==
    /\ loops \in [Dispatches -> [Hooks -> LoopStates]]
    /\ got \in [Dispatches -> [Hooks -> Nat]]
    /\ due \in [Dispatches -> SUBSET Hooks]

\* A loop l with n requests that have arrived, whose webhook was due or not.
Accounted(l, n, isDue) ==
    /\ l.pc \in {"none", "find", "skipped"} => n = 0
    /\ l.pc \in Running \cup {"delivered", "exhausted"} => isDue
    /\ n > 0 => isDue
    /\ l.pc = "first" => n <= 2 * l.attempt
    /\ l.pc = "second" => 1 <= n /\ n <= 2 * l.attempt + 1
    /\ l.pc = "delivered" => 2 <= n
    /\ n <= 2 * (l.attempt + 1)

LoopsAccounted ==
    \A d \in Dispatches, h \in Hooks : Accounted(loops[d][h], got[d][h], h \in due[d])

WebhooksInv == WebhookTypes /\ LoopsAccounted

\* A loop that dies keeps its account.
LEMMA DiedKeeps ==
    ASSUME NEW ls \in [Dispatches -> [Hooks -> LoopStates]],
           \A d \in Dispatches, h \in Hooks : Accounted(ls[d][h], got[d][h], h \in due[d])
    PROVE  /\ Died(ls) \in [Dispatches -> [Hooks -> LoopStates]]
           /\ \A d \in Dispatches, h \in Hooks :
                 Accounted(Died(ls)[d][h], got[d][h], h \in due[d])
<1> DEFINE After(l) == IF l.pc \in Running \cup {"find"} THEN [l EXCEPT !.pc = "lost"] ELSE l
<1>1. \A d \in Dispatches, h \in Hooks : Died(ls)[d][h] = After(ls[d][h])
  BY DEF Died
<1>2. \A l \in LoopStates : /\ After(l) \in LoopStates /\ After(l).attempt = l.attempt
                            /\ After(l).pc = IF l.pc \in Running \cup {"find"} THEN "lost" ELSE l.pc
  BY DEF LoopStates
<1>3. \A d \in Dispatches, h \in Hooks : After(ls[d][h]) \in LoopStates
  BY <1>2
<1>4. Died(ls) \in [Dispatches -> [Hooks -> LoopStates]]
  BY <1>3 DEF Died
<1>5. ASSUME NEW d \in Dispatches, NEW h \in Hooks
      PROVE  Accounted(Died(ls)[d][h], got[d][h], h \in due[d])
  <2>1. PICK l \in LoopStates : l = ls[d][h]
    OBVIOUS
  <2>2. PICK m \in LoopStates : /\ m = Died(ls)[d][h] /\ m.attempt = l.attempt
                                /\ m.pc = IF l.pc \in Running \cup {"find"} THEN "lost" ELSE l.pc
    BY <1>1, <1>2, <2>1
  <2>3. Accounted(l, got[d][h], h \in due[d])
    BY <2>1
  <2>4. Accounted(m, got[d][h], h \in due[d])
    BY <2>2, <2>3 DEF Accounted, Running
  <2> QED
    BY <2>2, <2>4
<1> QED
  BY <1>4, <1>5

\* Steps that set all loops of an event, which nothing had arrived of.
LEMMA LoopsOfOne ==
    ASSUME WebhooksInv, NEW d \in Dispatches, NEW new \in [Hooks -> LoopStates],
           NEW ls, ls = [loops EXCEPT ![d] = new],
           got' = got, due' \in [Dispatches -> SUBSET Hooks],
           \A x \in Dispatches \ {d} : due'[x] = due[x],
           \A h \in Hooks : Accounted(new[h], got[d][h], h \in due'[d])
    PROVE  /\ ls \in [Dispatches -> [Hooks -> LoopStates]]
           /\ \A x \in Dispatches, h \in Hooks : Accounted(ls[x][h], got[x][h], h \in due'[x])
<1>1. WebhookTypes /\ LoopsAccounted
  BY DEF WebhooksInv
<1>2. ls \in [Dispatches -> [Hooks -> LoopStates]]
  BY <1>1 DEF WebhookTypes
<1>3. /\ ls[d] = new /\ \A x \in Dispatches \ {d} : ls[x] = loops[x]
  BY <1>1 DEF WebhookTypes
<1> QED
  BY <1>1, <1>2, <1>3 DEF LoopsAccounted

\* Dispatching an event opens no account of a webhook.
LEMMA DispatchKeeps ==
    ASSUME WebhooksInv, NEW d \in Dispatches, Dispatch(d)
    PROVE  WebhooksInv'
<1>1. WebhookTypes /\ LoopsAccounted
  BY DEF WebhooksInv
<1>2. PICK new : new = [h \in Hooks |-> Waits]
  OBVIOUS
<1>3. new \in [Hooks -> LoopStates] /\ \A h \in Hooks : new[h].pc = "find" /\ new[h].attempt = 0
  BY <1>2 DEF Waits, LoopStates
<1>4. PICK ls : ls = [loops EXCEPT ![d] = new]
  OBVIOUS
<1>5. loops' = ls /\ UNCHANGED <<got, due>>
  BY <1>2, <1>4 DEF Dispatch
<1>6. \A h \in Hooks : got[d][h] = 0
  <2>1. \A h \in Hooks : loops[d][h].pc = "none"
    BY DEF Dispatch, NotFound
  <2> QED
    BY <1>1, <2>1 DEF LoopsAccounted, Accounted
<1>7. \A h \in Hooks : Accounted(new[h], got[d][h], h \in due'[d])
  BY <1>3, <1>6 DEF Accounted, Running
<1>8. due' \in [Dispatches -> SUBSET Hooks] /\ \A x \in Dispatches \ {d} : due'[x] = due[x]
  BY <1>1, <1>5 DEF WebhookTypes
<1>9. /\ ls \in [Dispatches -> [Hooks -> LoopStates]]
      /\ \A x \in Dispatches, h \in Hooks : Accounted(ls[x][h], got[x][h], h \in due'[x])
  BY <1>3, <1>4, <1>5, <1>7, <1>8, LoopsOfOne
<1> QED
  BY <1>1, <1>5, <1>8, <1>9 DEF WebhooksInv, WebhookTypes, LoopsAccounted, Accounted

\* The webhooks found get a loop each, those not found do not.
LEMMA FoundKeeps ==
    ASSUME WebhooksInv, NEW d \in Dispatches, Found(d)
    PROVE  WebhooksInv'
<1>1. WebhookTypes /\ LoopsAccounted
  BY DEF WebhooksInv
<1>2. PICK new : new = [h \in Hooks |->
          [pc |-> IF h \in Subscribers THEN "first" ELSE "skipped", attempt |-> 0]]
  OBVIOUS
<1>3. /\ new \in [Hooks -> LoopStates]
      /\ \A h \in Hooks : /\ new[h].pc = IF h \in Subscribers THEN "first" ELSE "skipped"
                          /\ new[h].attempt = 0
  BY <1>2 DEF LoopStates, Running
<1>4. PICK ls : ls = [loops EXCEPT ![d] = new]
  OBVIOUS
<1>5. loops' = ls /\ got' = got /\ due' = [due EXCEPT ![d] = {h \in Hooks : hooks[h] = "registered"}]
  BY <1>2, <1>4 DEF Found
<1>6. \A h \in Hooks : got[d][h] = 0
  BY <1>1 DEF Found, LoopsAccounted, Accounted
<1>7. /\ due' \in [Dispatches -> SUBSET Hooks] /\ \A x \in Dispatches \ {d} : due'[x] = due[x]
      /\ due'[d] = {h \in Hooks : hooks[h] = "registered"}
  BY <1>1, <1>5 DEF WebhookTypes
<1>8. \A h \in Hooks : Accounted(new[h], got[d][h], h \in due'[d])
  BY <1>3, <1>6, <1>7 DEF Accounted, Running, Subscribers
<1>9. /\ ls \in [Dispatches -> [Hooks -> LoopStates]]
      /\ \A x \in Dispatches, h \in Hooks : Accounted(ls[x][h], got[x][h], h \in due'[x])
  BY <1>3, <1>4, <1>5, <1>7, <1>8, LoopsOfOne
<1> QED
  BY <1>1, <1>5, <1>7, <1>9 DEF WebhooksInv, WebhookTypes, LoopsAccounted, Accounted

\* A failed look-up, or one that dies, leaves no loop.
LEMMA FindFailsKeeps ==
    ASSUME WebhooksInv, NEW d \in Dispatches, NEW dies \in BOOLEAN, FindFails(d, dies)
    PROVE  WebhooksInv'
<1>1. WebhookTypes /\ LoopsAccounted
  BY DEF WebhooksInv
<1>2. PICK new : new = [h \in Hooks |-> [Waits EXCEPT !.pc = "skipped"]]
  OBVIOUS
<1>3. new \in [Hooks -> LoopStates] /\ \A h \in Hooks : new[h].pc = "skipped" /\ new[h].attempt = 0
  BY <1>2 DEF Waits, LoopStates
<1>4. PICK ls : ls = [loops EXCEPT ![d] = new]
  OBVIOUS
<1>5. (loops' = ls \/ loops' = Died(ls)) /\ UNCHANGED <<got, due>>
  BY <1>2, <1>4 DEF FindFails
<1>6. \A h \in Hooks : got[d][h] = 0
  BY <1>1 DEF FindFails, LoopsAccounted, Accounted
<1>7. \A h \in Hooks : Accounted(new[h], got[d][h], h \in due'[d])
  BY <1>3, <1>6 DEF Accounted, Running
<1>8. due' \in [Dispatches -> SUBSET Hooks] /\ \A x \in Dispatches \ {d} : due'[x] = due[x]
  BY <1>1, <1>5 DEF WebhookTypes
<1>9. /\ ls \in [Dispatches -> [Hooks -> LoopStates]]
      /\ \A x \in Dispatches, h \in Hooks : Accounted(ls[x][h], got[x][h], h \in due'[x])
  BY <1>3, <1>4, <1>5, <1>7, <1>8, LoopsOfOne
<1>10. \A x \in Dispatches, h \in Hooks : Accounted(ls[x][h], got[x][h], h \in due[x])
  BY <1>5, <1>9
<1>11. /\ loops' \in [Dispatches -> [Hooks -> LoopStates]]
       /\ \A x \in Dispatches, h \in Hooks : Accounted(loops'[x][h], got[x][h], h \in due[x])
  BY <1>5, <1>9, <1>10, DiedKeeps
<1> QED
  BY <1>1, <1>5, <1>11 DEF WebhooksInv, WebhookTypes, LoopsAccounted, Accounted

\* A step of one loop, with what arrives in it.
LEMMA OneLoop ==
    ASSUME WebhooksInv, NEW d \in Dispatches, NEW h \in Hooks, NEW l \in LoopStates,
           NEW n \in Nat, loops' = [loops EXCEPT ![d][h] = l],
           got' = [got EXCEPT ![d][h] = n], due' = due,
           Accounted(l, n, h \in due[d])
    PROVE  WebhooksInv'
<1>1. WebhookTypes /\ LoopsAccounted
  BY DEF WebhooksInv
<1>2. /\ loops' \in [Dispatches -> [Hooks -> LoopStates]]
      /\ loops'[d][h] = l
      /\ \A x \in Dispatches, y \in Hooks : x # d \/ y # h => loops'[x][y] = loops[x][y]
  BY <1>1 DEF WebhookTypes
<1>3. /\ got' \in [Dispatches -> [Hooks -> Nat]]
      /\ got'[d][h] = n
      /\ \A x \in Dispatches, y \in Hooks : x # d \/ y # h => got'[x][y] = got[x][y]
  BY <1>1 DEF WebhookTypes
<1>4. \A x \in Dispatches, y \in Hooks : Accounted(loops'[x][y], got'[x][y], y \in due[x])
  BY <1>1, <1>2, <1>3 DEF LoopsAccounted
<1> QED
  BY <1>1, <1>2, <1>3, <1>4 DEF WebhooksInv, WebhookTypes, LoopsAccounted, Accounted

\* A wait that is over changes no account.
LEMMA RetryKeeps ==
    ASSUME WebhooksInv, NEW d \in Dispatches, NEW h \in Hooks, Retry(d, h)
    PROVE  WebhooksInv'
<1>1. WebhookTypes /\ LoopsAccounted
  BY DEF WebhooksInv
<1>2. PICK l \in LoopStates : l = loops[d][h]
  BY <1>1 DEF WebhookTypes
<1>3. PICK n \in Nat : n = got[d][h]
  BY <1>1 DEF WebhookTypes
<1>4. l.pc = "waiting" /\ l.attempt \in Nat
  BY <1>2 DEF Retry, LoopStates
<1>5. PICK m : m = Again(l)
  OBVIOUS
<1>6. m \in LoopStates /\ m.pc = "first" /\ m.attempt = l.attempt + 1
  BY <1>4, <1>5 DEF Again, LoopStates, Running
<1>7. Accounted(l, n, h \in due[d])
  BY <1>1, <1>2, <1>3 DEF LoopsAccounted
<1>8. Accounted(m, n, h \in due[d])
  BY <1>4, <1>6, <1>7 DEF Accounted, Running
<1>9. /\ loops' = [loops EXCEPT ![d][h] = m] /\ got' = [got EXCEPT ![d][h] = n] /\ due' = due
  BY <1>1, <1>2, <1>3, <1>5 DEF Retry, WebhookTypes
<1> QED
  BY <1>6, <1>8, <1>9, OneLoop

\* An attempt adds what it delivered, once or twice, to the account of its webhook.
LEMMA DeliverKeeps ==
    ASSUME WebhooksInv, NEW d \in Dispatches, NEW h \in Hooks,
           NEW reached \in BOOLEAN, NEW ok \in BOOLEAN, Deliver(d, h, reached, ok)
    PROVE  WebhooksInv'
<1>1. WebhookTypes /\ LoopsAccounted
  BY DEF WebhooksInv
<1>2. PICK l \in LoopStates : l = loops[d][h]
  BY <1>1 DEF WebhookTypes
<1>3. PICK n \in Nat : n = got[d][h]
  BY <1>1 DEF WebhookTypes
<1>4. l.pc \in {"first", "second"} /\ l.attempt \in Nat /\ (ok => reached)
  BY <1>2 DEF Deliver, LoopStates
<1>5. PICK m : m = IF ~ok THEN Failed(l)
                   ELSE [l EXCEPT !.pc = IF l.pc = "first" THEN "second" ELSE "delivered"]
  OBVIOUS
<1>6. /\ m \in LoopStates /\ m.attempt = l.attempt
      /\ m.pc \in IF ~ok THEN {"waiting", "exhausted"}
                  ELSE {IF l.pc = "first" THEN "second" ELSE "delivered"}
  BY <1>5 DEF Failed, LoopStates, Running
<1>7. PICK k \in Nat : k = IF reached THEN n + 1 ELSE n
  OBVIOUS
<1>8. Accounted(l, n, h \in due[d])
  BY <1>1, <1>2, <1>3 DEF LoopsAccounted
<1>9. Accounted(m, k, h \in due[d])
  BY <1>4, <1>6, <1>7, <1>8 DEF Accounted, Running
<1>10. loops' = [loops EXCEPT ![d][h] = m] /\ due' = due
  BY <1>2, <1>5 DEF Deliver
<1>11. got' = [got EXCEPT ![d][h] = k]
  BY <1>1, <1>3, <1>7 DEF Deliver, WebhookTypes
<1> QED
  BY <1>6, <1>9, <1>10, <1>11, OneLoop

\* Every step of the webhook service keeps the invariant.
LEMMA WebhooksStep ==
    ASSUME WebhooksInv, [WebhooksNext]_webhookVars
    PROVE  WebhooksInv'
<1>1. WebhookTypes /\ LoopsAccounted
  BY DEF WebhooksInv
<1>2. CASE UNCHANGED <<loops, got, due>>
  BY <1>1, <1>2 DEF WebhooksInv, WebhookTypes, LoopsAccounted, Accounted
<1>3. ASSUME NEW h \in Hooks, CreateWebhook(h) \/ DeleteWebhook(h) \/ RestoreWebhook(h)
      PROVE  WebhooksInv'
  BY <1>2, <1>3 DEF CreateWebhook, DeleteWebhook, RestoreWebhook
<1>4. ASSUME NEW d \in Dispatches,
             Dispatch(d) \/ Found(d) \/ \E dies \in BOOLEAN : FindFails(d, dies)
      PROVE  WebhooksInv'
  BY <1>4, DispatchKeeps, FoundKeeps, FindFailsKeeps
<1>5. ASSUME NEW d \in Dispatches, NEW h \in Hooks,
             Retry(d, h) \/ \E reached, ok \in BOOLEAN : Deliver(d, h, reached, ok)
      PROVE  WebhooksInv'
  BY <1>5, RetryKeeps, DeliverKeeps
<1>6. CASE Restart
  <2>1. loops' = Died(loops) /\ UNCHANGED <<got, due>>
    BY <1>6 DEF Restart
  <2>2. /\ loops \in [Dispatches -> [Hooks -> LoopStates]]
        /\ \A d \in Dispatches, h \in Hooks : Accounted(loops[d][h], got[d][h], h \in due[d])
    BY <1>1 DEF WebhookTypes, LoopsAccounted
  <2>3. /\ loops' \in [Dispatches -> [Hooks -> LoopStates]]
        /\ \A d \in Dispatches, h \in Hooks : Accounted(loops'[d][h], got[d][h], h \in due[d])
    BY <2>1, <2>2, DiedKeeps
  <2> QED
    BY <1>1, <2>1, <2>3 DEF WebhooksInv, WebhookTypes, LoopsAccounted, Accounted
<1>7. CASE UNCHANGED webhookVars
  BY <1>2, <1>7 DEF webhookVars
<1> QED
  BY <1>3, <1>4, <1>5, <1>6, <1>7 DEF WebhooksNext

\* An event reaches only webhooks that were registered when it was dispatched,
\* at most twice an attempt, and at least twice where it counts as delivered:
\* webhook-service.js, for any webhooks, events and number of retries.
THEOREM ReceiptsAccounted == WebhooksSpec => []EveryReceiptAccounted
<1>1. WebhooksInit => WebhooksInv
  <2> SUFFICES ASSUME WebhooksInit PROVE WebhooksInv
    OBVIOUS
  <2>1. WebhookTypes
    BY DEF WebhooksInit, WebhookTypes, LoopStates, NotFound
  <2>2. \A d \in Dispatches, h \in Hooks :
           loops[d][h].pc = "none" /\ loops[d][h].attempt = 0 /\ got[d][h] = 0
    BY DEF WebhooksInit, NotFound
  <2>3. LoopsAccounted
    BY <2>2 DEF LoopsAccounted, Accounted, Running
  <2> QED
    BY <2>1, <2>3 DEF WebhooksInv
<1>2. WebhooksInv /\ [WebhooksNext]_webhookVars => WebhooksInv'
  BY WebhooksStep
<1>3. WebhooksInv => EveryReceiptAccounted
  BY DEF WebhooksInv, LoopsAccounted, Accounted, EveryReceiptAccounted
<1> QED
  BY <1>1, <1>2, <1>3, PTL DEF WebhooksSpec

-----------------------------------------------------------------------------
(* The event stream.                                                         *)

StreamSpec == StreamInit /\ [][StreamNext]_streamVars

StreamTypes ==
    /\ records \in Nat /\ position \in Nat
    /\ stream \in [cursor : Nat, open : BOOLEAN, stopped : BOOLEAN, timer : BOOLEAN]
    /\ written \in Seq(Nat \ {0})

\* The cursor is the last operation written, and an open stream stands at it.
CursorIsLast ==
    /\ written = <<>> => stream.cursor = Now
    /\ written # <<>> => stream.cursor = written[Len(written)]
    /\ stream.open /\ stream.cursor # Now => position = stream.cursor

StreamInv == StreamTypes /\ (stream.stopped => stream.cursor \in Nat) /\ StreamIsExact /\ CursorIsLast

\* A connection opened at the cursor goes on behind the last record written.
LEMMA ConnectKeeps ==
    ASSUME StreamTypes, CursorIsLast, StreamIsExact, NEW s, NEW works \in BOOLEAN, Connect(s, works),
           s \in [cursor : Nat, open : BOOLEAN, stopped : BOOLEAN, timer : BOOLEAN],
           ~s.open, ~s.timer, ~s.stopped, records' = records, written' \in Seq(Nat \ {0}),
           \A i \in 1 .. Len(written') - 1 : written'[i + 1] = written'[i] + 1,
           written' = <<>> => s.cursor = Now,
           written' # <<>> => s.cursor = written'[Len(written')]
    PROVE  StreamInv'
<1>1. CASE works
  <2>1. stream' = [s EXCEPT !.open = TRUE] /\ position' = StartOf(s.cursor)
    BY <1>1 DEF Connect
  <2>2. /\ stream' \in [cursor : Nat, open : BOOLEAN, stopped : BOOLEAN, timer : BOOLEAN]
        /\ stream'.cursor = s.cursor /\ stream'.open /\ ~stream'.timer /\ ~stream'.stopped
    BY <2>1
  <2>3. position' \in Nat /\ (s.cursor # Now => position' = s.cursor)
    BY <2>1 DEF StartOf, StreamTypes
  <2> QED
    BY <2>2, <2>3 DEF StreamInv, StreamTypes, CursorIsLast, StreamIsExact, Now
<1>2. CASE ~works
  <2>1. stream' = [s EXCEPT !.timer = TRUE] /\ position' = position
    BY <1>2 DEF Connect
  <2>2. /\ stream' \in [cursor : Nat, open : BOOLEAN, stopped : BOOLEAN, timer : BOOLEAN]
        /\ stream'.cursor = s.cursor /\ ~stream'.open /\ stream'.timer /\ ~stream'.stopped
    BY <2>1
  <2> QED
    BY <2>1, <2>2 DEF StreamInv, StreamTypes, CursorIsLast, StreamIsExact, Now
<1> QED
  BY <1>1, <1>2

\* A record is written and becomes the cursor.
LEMMA RecordKeeps ==
    ASSUME StreamTypes, CursorIsLast, StreamIsExact, HandleRecord
    PROVE  StreamInv'
<1>1. PICK r \in Nat \ {0} : r = position + 1
  BY DEF StreamTypes
<1>2. /\ position' = r /\ stream' = [stream EXCEPT !.cursor = r] /\ written' = Append(written, r)
      /\ records' = records /\ stream.open
  BY <1>1 DEF HandleRecord, Advanced
<1>3. /\ written' \in Seq(Nat \ {0}) /\ written' # <<>> /\ Len(written') = Len(written) + 1
      /\ Len(written) \in Nat /\ written'[Len(written')] = r
      /\ \A i \in 1 .. Len(written) : written'[i] = written[i]
  BY <1>2 DEF StreamTypes
<1>4. written # <<>> => written[Len(written)] + 1 = r
  BY <1>1, <1>2 DEF CursorIsLast, StreamTypes, Now
<1>5. \A i \in 1 .. Len(written') - 1 : written'[i + 1] = written'[i] + 1
  <2> SUFFICES ASSUME NEW i \in 1 .. Len(written') - 1 PROVE written'[i + 1] = written'[i] + 1
    OBVIOUS
  <2>1. CASE i = Len(written)
    <3>1. written # <<>>
      BY <1>3, <2>1
    <3>2. written'[i] = written[Len(written)] /\ written'[i + 1] = r
      BY <1>3, <2>1
    <3> QED
      BY <1>4, <3>1, <3>2
  <2>2. CASE i # Len(written)
    <3>1. i \in 1 .. Len(written) - 1 /\ i + 1 \in 1 .. Len(written) /\ i \in 1 .. Len(written)
      BY <1>3, <2>2
    <3> QED
      BY <1>3, <3>1 DEF StreamIsExact
  <2> QED
    BY <2>1, <2>2
<1>6. /\ stream' \in [cursor : Nat, open : BOOLEAN, stopped : BOOLEAN, timer : BOOLEAN]
      /\ stream'.cursor = r /\ stream'.open = stream.open /\ stream'.timer = stream.timer
      /\ stream'.stopped = stream.stopped
  BY <1>2 DEF StreamTypes
<1> QED
  BY <1>1, <1>2, <1>3, <1>5, <1>6 DEF StreamInv, StreamTypes, CursorIsLast, StreamIsExact

\* Every step of the event stream keeps the invariant.
LEMMA StreamStep ==
    ASSUME StreamInv, [StreamNext]_streamVars
    PROVE  StreamInv'
<1>1. StreamTypes /\ CursorIsLast /\ StreamIsExact
  BY DEF StreamInv
<1>2. CASE UNCHANGED streamVars
  BY <1>1, <1>2 DEF streamVars, StreamInv, StreamTypes, CursorIsLast, StreamIsExact
<1>3. CASE Operation
  BY <1>1, <1>3 DEF Operation, StreamInv, StreamTypes, CursorIsLast, StreamIsExact
<1>4. CASE HandleRecord
  BY <1>1, <1>4, RecordKeeps
<1>5. CASE AsksAgain
  BY <1>1, <1>5 DEF AsksAgain, StreamInv, StreamTypes, CursorIsLast, StreamIsExact
<1>6. CASE HandleError
  <2>1. /\ stream' = [[stream EXCEPT !.open = FALSE] EXCEPT !.timer = TRUE]
        /\ UNCHANGED <<records, position, written>> /\ stream.open
    BY <1>1, <1>6 DEF HandleError, StreamTypes
  <2>2. /\ stream' \in [cursor : Nat, open : BOOLEAN, stopped : BOOLEAN, timer : BOOLEAN]
        /\ stream'.cursor = stream.cursor /\ ~stream'.open /\ stream'.timer
        /\ stream'.stopped = stream.stopped
    BY <1>1, <2>1 DEF StreamTypes
  <2> QED
    BY <1>1, <2>1, <2>2 DEF StreamInv, StreamTypes, CursorIsLast, StreamIsExact
<1>7. CASE ClientCloses
  <2>1. /\ stream' = Stopped(stream) /\ UNCHANGED <<records, position, written>>
    BY <1>7 DEF ClientCloses
  <2>2. /\ stream' \in [cursor : Nat, open : BOOLEAN, stopped : BOOLEAN, timer : BOOLEAN]
        /\ stream'.cursor = stream.cursor /\ ~stream'.open /\ ~stream'.timer
    BY <1>1, <2>1 DEF StreamTypes, Stopped
  <2> QED
    BY <1>1, <2>1, <2>2 DEF StreamInv, StreamTypes, CursorIsLast, StreamIsExact
<1>8. ASSUME NEW works \in BOOLEAN, GetEventStream(works)
      PROVE  StreamInv'
  <2>1. Connect(Fresh, works) /\ written' = <<>> /\ records' = records
    BY <1>8 DEF GetEventStream
  <2>2. PICK s : s = Fresh
    OBVIOUS
  <2>3. /\ s \in [cursor : Nat, open : BOOLEAN, stopped : BOOLEAN, timer : BOOLEAN]
        /\ ~s.open /\ ~s.timer /\ ~s.stopped /\ s.cursor = Now
    BY <2>2 DEF Fresh, Now
  <2>4. written' \in Seq(Nat \ {0}) /\ Len(written') = 0
    BY <2>1
  <2> QED
    BY <1>1, <2>1, <2>2, <2>3, <2>4, ConnectKeeps
<1>9. ASSUME NEW works \in BOOLEAN, Reconnect(works)
      PROVE  StreamInv'
  <2>1. PICK s : s = [stream EXCEPT !.timer = FALSE]
    OBVIOUS
  <2>2. Connect(s, works) /\ UNCHANGED <<records, written>> /\ stream.timer
    BY <1>9, <2>1 DEF Reconnect
  <2>3. /\ s \in [cursor : Nat, open : BOOLEAN, stopped : BOOLEAN, timer : BOOLEAN]
        /\ ~s.open /\ ~s.timer /\ ~s.stopped /\ s.cursor = stream.cursor
    BY <1>1, <2>1, <2>2 DEF StreamTypes, StreamIsExact
  <2>4. /\ written' \in Seq(Nat \ {0})
        /\ \A i \in 1 .. Len(written') - 1 : written'[i + 1] = written'[i] + 1
        /\ written' = <<>> => s.cursor = Now
        /\ written' # <<>> => s.cursor = written'[Len(written')]
    BY <1>1, <2>2, <2>3 DEF StreamTypes, StreamIsExact, CursorIsLast
  <2> QED
    BY <1>1, <2>2, <2>3, <2>4, ConnectKeeps
<1> QED
  BY <1>2, <1>3, <1>4, <1>5, <1>6, <1>7, <1>8, <1>9 DEF StreamNext

\* What a client of /events/stream gets has no gap and no repetition however
\* often the stream reconnects, and nothing stays open behind a client that has
\* gone: event-stream.js, for any number of operations and connections.
THEOREM StreamAlwaysExact == StreamSpec => []StreamIsExact
<1>1. StreamInit => StreamInv
  <2> SUFFICES ASSUME StreamInit PROVE StreamInv
    OBVIOUS
  <2>1. /\ records = 0 /\ position = 0 /\ written = <<>> /\ Len(written) = 0
        /\ stream = [Fresh EXCEPT !.stopped = TRUE]
    BY DEF StreamInit
  <2>2. /\ stream \in [cursor : Nat, open : BOOLEAN, stopped : BOOLEAN, timer : BOOLEAN]
        /\ stream.cursor = Now /\ ~stream.open /\ ~stream.timer
    BY <2>1 DEF Fresh, Now
  <2> QED
    BY <2>1, <2>2 DEF StreamInv, StreamTypes, CursorIsLast, StreamIsExact, Now
<1>2. StreamInv /\ [StreamNext]_streamVars => StreamInv'
  BY StreamStep
<1>3. StreamInv => StreamIsExact
  BY DEF StreamInv
<1> QED
  BY <1>1, <1>2, <1>3, PTL DEF StreamSpec

-----------------------------------------------------------------------------
(* The pages over one service each.                                          *)

StatusSpec == StatusInit /\ [][StatusNext]_statusVars

StatusTypes ==
    /\ view \in [PageNames -> View] /\ load \in [1 .. Loads -> LoadState]
    /\ wallet \subseteq Owners

\* The loads begin one after the other.
LoadsInOrder == \E n \in 0 .. Loads : \A k \in 1 .. Loads : load[k].pc # "idle" <=> k <= n

\* What the endpoint x of a load r gave the page.
Gave(r, x) == CASE r.answer[x] = "ok" -> "live" [] r.answer[x] = "absent" -> "demo"
                [] OTHER -> "nothing"

\* A view v of the page p is nothing, or one load of the page that has ended.
OneLoad(p, v, ls) ==
    (\E x \in Parts[p] : v.shown[x] # "nothing") =>
        /\ v.of \in 1 .. Loads
        /\ ls[v.of].pc = "done" /\ ls[v.of].page = p
        /\ \A x \in Parts[p] : v.shown[x] = Gave(ls[v.of], x)

ViewsAreLoads == \A p \in PageNames : OneLoad(p, view[p], load)

StatusInv == StatusTypes /\ LoadsInOrder /\ ViewsAreLoads

\* A page that shows the same of the same load, of which nothing changed.
LEMMA SameLoadShown ==
    ASSUME NEW p \in PageNames, NEW v \in View, NEW w \in View, NEW ls, NEW ms,
           OneLoad(p, v, ls), w.shown = v.shown, w.of = v.of,
           \A k \in 1 .. Loads : ls[k].pc = "done" => ms[k] = ls[k]
    PROVE  OneLoad(p, w, ms)
BY DEF OneLoad, Gave

\* The next load is one that has not begun.
LEMMA NextLoadIsIdle ==
    ASSUME StatusInv, NEW l, l = Cardinality({k \in 1 .. Loads : load[k].pc # "idle"}) + 1
    PROVE  /\ l \in Nat \ {0}
           /\ \A k \in 1 .. Loads : load[k].pc # "idle" <=> k < l
<1>1. StatusTypes /\ LoadsInOrder
  BY DEF StatusInv
<1>2. PICK n \in 0 .. Loads : \A k \in 1 .. Loads : load[k].pc # "idle" <=> k <= n
  BY <1>1 DEF LoadsInOrder
<1>3. {k \in 1 .. Loads : load[k].pc # "idle"} = 1 .. n
  BY <1>2, StatusPagesAssumption
<1>4. n \in Nat
  BY <1>2, StatusPagesAssumption
<1>5. Cardinality(1 .. n) = IF 1 > n THEN 0 ELSE n - 1 + 1
  BY ONLY <1>4, FS_Interval
<1>6. Cardinality(1 .. n) = n
  BY ONLY <1>4, <1>5
<1>7. l = n + 1
  BY <1>3, <1>6
<1>8. \A k \in 1 .. Loads : k <= n <=> k < n + 1
  BY ONLY <1>4, StatusPagesAssumption
<1>9. l \in Nat \ {0}
  BY ONLY <1>4, <1>7
<1>10. \A k \in 1 .. Loads : load[k].pc # "idle" <=> k < l
  BY ONLY <1>2, <1>7, <1>8
<1> QED
  BY ONLY <1>9, <1>10

\* One or two loads begin, and the views change nothing they show.
LEMMA BeginKeeps ==
    ASSUME StatusInv, NEW l, l = Cardinality({k \in 1 .. Loads : load[k].pc # "idle"}) + 1,
           NEW n \in {l, l + 1}, n <= Loads,
           load' \in [1 .. Loads -> LoadState],
           \A k \in l .. n : load'[k].pc = "asked",
           \A k \in 1 .. Loads : k \notin l .. n => load'[k] = load[k],
           view' \in [PageNames -> View], wallet' \subseteq Owners,
           \A p \in PageNames :
                \/ view'[p].shown = view[p].shown /\ view'[p].of = view[p].of
                \/ view'[p].shown = Nothing
    PROVE  StatusInv'
<1>1. StatusTypes /\ LoadsInOrder /\ ViewsAreLoads
  BY DEF StatusInv
<1>2. /\ l \in Nat \ {0}
      /\ \A k \in 1 .. Loads : load[k].pc # "idle" <=> k < l
  BY NextLoadIsIdle
<1>3. n \in 0 .. Loads /\ n \in Nat
  BY <1>2, StatusPagesAssumption
<1>4. \A k \in 1 .. Loads : load'[k].pc # "idle" <=> k <= n
  <2> TAKE k \in 1 .. Loads
  <2>1. CASE k \in l .. n
    BY <2>1, <1>2, <1>3
  <2>2. CASE k \notin l .. n
    <3>1. load'[k] = load[k]
      BY <2>2
    <3>2. k < l <=> k <= n
      BY <2>2, <1>2, <1>3, StatusPagesAssumption
    <3> QED
      BY <3>1, <3>2, <1>2
  <2> QED
    BY <2>1, <2>2
<1>5. \A k \in 1 .. Loads : load[k].pc = "done" => load'[k] = load[k]
  <2> SUFFICES ASSUME NEW k \in 1 .. Loads, load[k].pc = "done" PROVE load'[k] = load[k]
    OBVIOUS
  <2>1. k < l
    BY <1>2
  <2>2. k \notin l .. n
    BY <2>1, <1>2, <1>3
  <2> QED
    BY <2>2
<1>6. ASSUME NEW p \in PageNames PROVE OneLoad(p, view'[p], load')
  <2>1. /\ OneLoad(p, view[p], load) /\ view[p] \in View /\ view'[p] \in View
    BY <1>1 DEF ViewsAreLoads, StatusTypes
  <2>2. CASE view'[p].shown = view[p].shown /\ view'[p].of = view[p].of
    BY <2>1, <2>2, <1>5, SameLoadShown
  <2>3. CASE view'[p].shown = Nothing
    <3>1. \A x \in Parts[p] : x \in PartNames
      BY DEF PartNames
    <3> QED
      BY <2>3, <3>1 DEF OneLoad, Nothing
  <2> QED
    BY <2>2, <2>3
<1> QED
  BY <1>1, <1>3, <1>4, <1>6 DEF StatusInv, StatusTypes, LoadsInOrder, ViewsAreLoads

\* Of a page p, by a request of the page or of a button.
LEMMA LoadKeeps ==
    ASSUME StatusInv, NEW p \in PageNames, Begin(p), view' = Loading(p), UNCHANGED wallet
    PROVE  StatusInv'
<1>1. StatusTypes
  BY DEF StatusInv
<1>2. PICK l : l = Cardinality({k \in 1 .. Loads : load[k].pc # "idle"}) + 1
  OBVIOUS
<1>3. l \in Nat \ {0}
  BY <1>2, NextLoadIsIdle
<1>4. /\ l <= Loads
      /\ load' = [load EXCEPT ![l].pc = "asked", ![l].page = p, ![l].whose = wallet]
  BY <1>2 DEF Begin
<1>5. l \in 1 .. Loads
  BY <1>3, <1>4, StatusPagesAssumption
<1>6. PICK r \in LoadState : r = load[l]
  BY <1>1, <1>5 DEF StatusTypes
<1>7. PICK s : s = [[[r EXCEPT !.pc = "asked"] EXCEPT !.page = p] EXCEPT !.whose = wallet]
  OBVIOUS
<1>8. s \in LoadState /\ s.pc = "asked"
  BY <1>1, <1>6, <1>7 DEF LoadState, StatusTypes
<1>9. load' = [load EXCEPT ![l] = s]
  BY <1>1, <1>4, <1>5, <1>6, <1>7 DEF StatusTypes, LoadState
<1>10. /\ load' \in [1 .. Loads -> LoadState] /\ load'[l] = s
       /\ \A k \in 1 .. Loads : k # l => load'[k] = load[k]
  BY <1>1, <1>5, <1>8, <1>9 DEF StatusTypes
<1>11. /\ view' \in [PageNames -> View]
       /\ \A q \in PageNames : view'[q].shown = view[q].shown /\ view'[q].of = view[q].of
  <2>1. PICK v \in View : v = view[p]
    BY <1>1 DEF StatusTypes
  <2>2. PICK w : w = [[v EXCEPT !.loading = TRUE] EXCEPT !.failed = FALSE]
    OBVIOUS
  <2>3. w \in View /\ w.shown = v.shown /\ w.of = v.of
    BY <2>1, <2>2 DEF View
  <2>4. view' = [view EXCEPT ![p] = w]
    BY <1>1, <2>1, <2>2 DEF Loading, StatusTypes, View
  <2> QED
    BY <1>1, <2>1, <2>3, <2>4 DEF StatusTypes
<1>12. \A k \in l .. l : k = l
  BY <1>3
<1>13. l \in {l, l + 1} /\ \A k \in 1 .. Loads : k \notin l .. l => k # l
  BY <1>3
<1>14. /\ \A k \in l .. l : load'[k].pc = "asked"
       /\ \A k \in 1 .. Loads : k \notin l .. l => load'[k] = load[k]
  BY <1>8, <1>10, <1>12, <1>13
<1>15. wallet' \subseteq Owners
  BY <1>1 DEF StatusTypes
<1> QED
  BY <1>2, <1>4, <1>10, <1>11, <1>13, <1>14, <1>15, BeginKeeps

\* The answer of an endpoint adds a part to its load alone.
LEMMA AnswerKeeps ==
    ASSUME StatusInv, NEW l \in 1 .. Loads, NEW x \in PartNames, EndpointAnswers(l, x)
    PROVE  StatusInv'
<1>1. StatusTypes /\ LoadsInOrder /\ ViewsAreLoads
  BY DEF StatusInv
<1>2. PICK a \in Answers : load' = [load EXCEPT ![l].answer[x] = a]
  BY DEF EndpointAnswers
<1>3. PICK r \in LoadState : r = load[l]
  BY <1>1 DEF StatusTypes
<1>4. PICK s : s = [r EXCEPT !.answer[x] = a]
  OBVIOUS
<1>5. r.answer \in [PartNames -> Answers] /\ [r.answer EXCEPT ![x] = a] \in [PartNames -> Answers]
  BY <1>3 DEF LoadState
<1>6. s \in LoadState /\ s.pc = r.pc /\ r.pc = "asked"
  BY <1>3, <1>4, <1>5 DEF LoadState, EndpointAnswers
<1>7. load' = [load EXCEPT ![l] = s]
  BY <1>1, <1>2, <1>3, <1>4 DEF StatusTypes
<1>8. /\ load' \in [1 .. Loads -> LoadState] /\ load'[l] = s
      /\ \A k \in 1 .. Loads : k # l => load'[k] = load[k]
  BY <1>1, <1>6, <1>7 DEF StatusTypes
<1>9. UNCHANGED <<view, wallet>>
  BY DEF EndpointAnswers
<1>10. \A k \in 1 .. Loads : load[k].pc = "done" => load'[k] = load[k]
  BY <1>3, <1>6, <1>8
<1>11. ViewsAreLoads'
  <2>1. ASSUME NEW p \in PageNames PROVE OneLoad(p, view'[p], load')
    BY <1>1, <1>9, <1>10, SameLoadShown DEF ViewsAreLoads, StatusTypes
  <2> QED
    BY <2>1 DEF ViewsAreLoads
<1>12. \A k \in 1 .. Loads : load'[k].pc = load[k].pc
  BY <1>3, <1>6, <1>8
<1>13. LoadsInOrder'
  BY <1>1, <1>12 DEF LoadsInOrder
<1> QED
  BY <1>1, <1>8, <1>9, <1>11, <1>13 DEF StatusInv, StatusTypes

\* A load ends, and the page shows it, what it showed, or nothing.
LEMMA EndKeeps ==
    ASSUME StatusInv, NEW l \in 1 .. Loads, load[l].pc = "asked",
           load' = [load EXCEPT ![l].pc = "done"], UNCHANGED wallet,
           NEW p \in PageNames, NEW v \in View, view' = [view EXCEPT ![p] = v],
           \/ v.shown = view[p].shown /\ v.of = view[p].of
           \/ v.shown = Nothing
           \/ /\ v.of = l /\ p = load[l].page
              /\ \A x \in Parts[p] : v.shown[x] = Gave(load[l], x)
    PROVE  StatusInv'
<1>1. StatusTypes /\ LoadsInOrder /\ ViewsAreLoads
  BY DEF StatusInv
<1>2. PICK r \in LoadState : r = load[l] /\ r.pc = "asked"
  BY <1>1 DEF StatusTypes
<1>3. PICK s \in LoadState : s = [r EXCEPT !.pc = "done"]
  BY <1>2 DEF LoadState
<1>4. s.pc = "done" /\ s.page = r.page /\ s.answer = r.answer
  BY <1>2, <1>3 DEF LoadState
<1>5. /\ load' \in [1 .. Loads -> LoadState] /\ load'[l] = s
      /\ \A k \in 1 .. Loads : k # l => load'[k] = load[k]
  BY <1>1, <1>2, <1>3 DEF StatusTypes
<1>6. /\ view' \in [PageNames -> View] /\ view'[p] = v
      /\ \A q \in PageNames : q # p => view'[q] = view[q]
  BY <1>1 DEF StatusTypes
<1>7. \A k \in 1 .. Loads : load[k].pc = "done" => load'[k] = load[k]
  BY <1>2, <1>5
<1>8. \A q \in PageNames : OneLoad(q, view[q], load) /\ view[q] \in View
  BY <1>1 DEF ViewsAreLoads, StatusTypes
<1> PICK ms : ms = load'
  OBVIOUS
<1>9. OneLoad(p, v, ms)
  <2>1. CASE v.shown = view[p].shown /\ v.of = view[p].of
    <3>1. OneLoad(p, view[p], load) /\ view[p] \in View
      BY <1>8
    <3>2. \A k \in 1 .. Loads : load[k].pc = "done" => ms[k] = load[k]
      BY <1>7
    <3> QED
      BY <2>1, <3>1, <3>2 DEF OneLoad, Gave
  <2>2. CASE v.shown = Nothing
    <3>1. \A x \in Parts[p] : x \in PartNames
      BY DEF PartNames
    <3> QED
      BY <2>2, <3>1 DEF OneLoad, Nothing
  <2>3. CASE /\ v.of = l /\ p = load[l].page
             /\ \A x \in Parts[p] : v.shown[x] = Gave(load[l], x)
    <3>1. \A x \in Parts[p] : Gave(s, x) = Gave(r, x)
      BY <1>4 DEF Gave
    <3> QED
      BY <2>3, <3>1, <1>2, <1>4, <1>5 DEF OneLoad
  <2> QED
    BY <2>1, <2>2, <2>3
<1>10. ASSUME NEW q \in PageNames PROVE OneLoad(q, view'[q], load')
  <2>1. CASE q = p
    BY <2>1, <1>6, <1>9
  <2>2. CASE q # p
    <3>1. view'[q] = view[q]
      BY <2>2, <1>6
    <3>2. OneLoad(q, view[q], load) /\ view[q] \in View
      BY <1>8
    <3>3. \A k \in 1 .. Loads : load[k].pc = "done" => ms[k] = load[k]
      BY <1>7
    <3>4. OneLoad(q, view[q], ms)
      BY <3>2, <3>3 DEF OneLoad, Gave
    <3> QED
      BY <3>1, <3>4
  <2> QED
    BY <2>1, <2>2
<1>11. LoadsInOrder'
  <2>1. \A k \in 1 .. Loads : load'[k].pc # "idle" <=> load[k].pc # "idle"
    BY <1>2, <1>4, <1>5
  <2> QED
    BY <1>1, <2>1 DEF LoadsInOrder
<1>12. wallet' \subseteq Owners
  BY <1>1 DEF StatusTypes
<1> QED
  BY <1>5, <1>6, <1>10, <1>11, <1>12 DEF StatusInv, StatusTypes, ViewsAreLoads

\* A page shows the parts of one load, and demo data only for what that load lacks.
LEMMA ShowKeeps ==
    ASSUME StatusInv, NEW l \in 1 .. Loads, ShowLoad(l)
    PROVE  StatusInv'
<1>1. StatusTypes
  BY DEF StatusInv
<1>2. PICK r \in LoadState : r = load[l]
  BY <1>1 DEF StatusTypes
<1>3. PICK p \in PageNames : p = r.page
  BY <1>2 DEF LoadState
<1>4. PICK show : show = [x \in PartNames |-> IF x \in Parts[p] THEN Result(l)[x] ELSE "nothing"]
  OBVIOUS
<1>5. show \in [PartNames -> {"nothing", "live", "demo"}]
  BY <1>4 DEF Result, OrDemo
<1>6. PICK w \in View : w = view[p]
  BY <1>1 DEF StatusTypes
<1>7. PICK v : v = [shown |-> show, of |-> l, whose |-> r.whose, loading |-> FALSE,
                    failed |-> w.failed, hint |-> HintOf(p, Result(l))]
  OBVIOUS
<1>8. HintOf(p, Result(l)) \in BOOLEAN
  BY DEF HintOf, MultisigHint, BackstopHint, AuditHint
<1>9. v \in View /\ v.shown = show /\ v.of = l
  BY <1>2, <1>5, <1>6, <1>7, <1>8, StatusPagesAssumption DEF View, LoadState
<1>10. view' = [view EXCEPT ![p] = v] /\ load' = [load EXCEPT ![l].pc = "done"]
  BY <1>2, <1>3, <1>4, <1>6, <1>7 DEF ShowLoad
<1>11. load[l].pc = "asked" /\ Resolved(l) /\ UNCHANGED wallet
  BY DEF ShowLoad
<1>12. \A x \in Parts[p] : v.shown[x] = Gave(load[l], x)
  <2> TAKE x \in Parts[p]
  <2>1. x \in PartNames
    BY DEF PartNames
  <2>2. v.shown[x] = Result(l)[x]
    BY <1>4, <1>9, <2>1
  <2>3. Result(l)[x] # "nothing"
    BY <1>2, <1>3, <1>11 DEF Resolved, Asked
  <2>4. Result(l)[x] = OrDemo(p, load[l].answer[x])
    BY <2>1, <1>2, <1>3 DEF Result
  <2> QED
    BY <2>2, <2>3, <2>4 DEF OrDemo, Gave
<1> QED
  BY <1>2, <1>3, <1>9, <1>10, <1>11, <1>12, EndKeeps

\* A failed load shows nothing of itself.
LEMMA FailKeeps ==
    ASSUME StatusInv, NEW l \in 1 .. Loads, FailLoad(l)
    PROVE  StatusInv'
<1>1. StatusTypes
  BY DEF StatusInv
<1>2. PICK r \in LoadState : r = load[l]
  BY <1>1 DEF StatusTypes
<1>3. PICK p \in PageNames : p = r.page
  BY <1>2 DEF LoadState
<1>4. PICK w \in View : w = view[p]
  BY <1>1 DEF StatusTypes
<1>5. PICK v : v = [[[[w EXCEPT !.loading = FALSE] EXCEPT !.failed = TRUE]
                        EXCEPT !.shown = IF p = "audit" THEN Nothing ELSE w.shown]
                        EXCEPT !.of = IF p = "audit" THEN 0 ELSE w.of]
  OBVIOUS
<1>6. Nothing \in [PartNames -> {"nothing", "live", "demo"}] /\ 0 \in 0 .. Loads
  BY StatusPagesAssumption DEF Nothing
<1>7. /\ v \in View
      /\ v.shown = IF p = "audit" THEN Nothing ELSE w.shown
      /\ v.of = IF p = "audit" THEN 0 ELSE w.of
  BY <1>4, <1>5, <1>6 DEF View
<1>8. view' = [view EXCEPT ![p] = v]
  BY <1>1, <1>2, <1>3, <1>4, <1>5 DEF FailLoad, StatusTypes, View
<1>9. /\ load[l].pc = "asked" /\ load' = [load EXCEPT ![l].pc = "done"]
      /\ UNCHANGED wallet
  BY DEF FailLoad
<1>10. \/ v.shown = view[p].shown /\ v.of = view[p].of
       \/ v.shown = Nothing
  BY <1>4, <1>7
<1> QED
  BY <1>7, <1>8, <1>9, <1>10, EndKeeps

\* A change of the wallet starts loads and drops none.
LEMMA WalletKeeps ==
    ASSUME StatusInv, NEW S \in SUBSET Owners, ChangeWallet(S)
    PROVE  StatusInv'
<1>1. StatusTypes /\ LoadsInOrder /\ ViewsAreLoads
  BY DEF StatusInv
<1>2. wallet' = S
  BY DEF ChangeWallet
<1>3. CASE S = {}
  <2>1. /\ load' = load
        /\ view' = [view EXCEPT !.factory.shown = Nothing, !.factory.of = 0,
                                !.factory.whose = {}]
    BY <1>3 DEF ChangeWallet
  <2>2. PICK p \in PageNames : p = "factory"
    BY DEF PageNames, Parts
  <2>3. PICK w \in View : w = view[p]
    BY <1>1 DEF StatusTypes
  <2>4. PICK v : v = [[[w EXCEPT !.shown = Nothing] EXCEPT !.of = 0] EXCEPT !.whose = {}]
    OBVIOUS
  <2>5. Nothing \in [PartNames -> {"nothing", "live", "demo"}] /\ 0 \in 0 .. Loads
    BY StatusPagesAssumption DEF Nothing
  <2>6. v \in View /\ v.shown = Nothing
    BY <2>3, <2>4, <2>5 DEF View
  <2>7. view' = [view EXCEPT ![p] = v]
    BY <1>1, <2>1, <2>2, <2>3, <2>4 DEF StatusTypes, View
  <2>8. /\ view' \in [PageNames -> View] /\ view'[p] = v
        /\ \A q \in PageNames : q # p => view'[q] = view[q]
    BY <1>1, <2>6, <2>7 DEF StatusTypes
  <2>9. OneLoad(p, v, load)
    <3>1. \A x \in Parts[p] : x \in PartNames
      BY DEF PartNames
    <3> QED
      BY <2>6, <3>1 DEF OneLoad, Nothing
  <2>10. ViewsAreLoads'
    BY <1>1, <2>1, <2>8, <2>9 DEF ViewsAreLoads
  <2> QED
    BY <1>1, <1>2, <2>1, <2>8, <2>10 DEF StatusInv, StatusTypes, LoadsInOrder
<1>4. CASE S # {}
  <2>1. PICK l : l = Cardinality({k \in 1 .. Loads : load[k].pc # "idle"}) + 1
    OBVIOUS
  <2>2. /\ l < Loads
        /\ load' = [load EXCEPT
                ![l].pc = "asked", ![l].page = "bridge", ![l].whose = S,
                ![l + 1].pc = "asked", ![l + 1].page = "factory", ![l + 1].whose = S]
        /\ view' = [p \in PageNames |-> IF p \in {"bridge", "factory"}
                        THEN [view[p] EXCEPT !.loading = TRUE, !.failed = FALSE]
                        ELSE view[p]]
    BY <1>4, <2>1 DEF ChangeWallet
  <2>3. l \in Nat \ {0}
    BY <2>1, NextLoadIsIdle
  <2>4. PICK m : m = l + 1
    OBVIOUS
  <2>5. l \in 1 .. Loads /\ m \in 1 .. Loads /\ l # m /\ m <= Loads /\ m \in {l, l + 1}
    <3>1. l < Loads
      BY <2>2
    <3>2. l \in 1 .. Loads /\ m \in 1 .. Loads /\ l # m /\ m <= Loads
      BY ONLY <3>1, <2>3, <2>4, StatusPagesAssumption DEF StatusPagesAssumption
    <3> QED
      BY <2>4, <3>2
  <2>6. PICK q \in LoadState : q = load[l]
    BY <1>1, <2>5 DEF StatusTypes
  <2>7. PICK r \in LoadState : r = load[m]
    BY <1>1, <2>5 DEF StatusTypes
  <2>8. PICK s : s = [[[q EXCEPT !.pc = "asked"] EXCEPT !.page = "bridge"] EXCEPT !.whose = S]
    OBVIOUS
  <2>9. PICK u : u = [[[r EXCEPT !.pc = "asked"] EXCEPT !.page = "factory"] EXCEPT !.whose = S]
    OBVIOUS
  <2>10. "bridge" \in PageNames /\ "factory" \in PageNames
    BY DEF PageNames, Parts
  <2>11. s \in LoadState /\ s.pc = "asked" /\ u \in LoadState /\ u.pc = "asked"
    BY <2>6, <2>7, <2>8, <2>9, <2>10 DEF LoadState
  <2>12. PICK ls : ls = [load EXCEPT ![l] = s]
    OBVIOUS
  <2>13. ls = [load EXCEPT ![l].pc = "asked", ![l].page = "bridge", ![l].whose = S]
    BY <1>1, <2>5, <2>6, <2>8, <2>12 DEF StatusTypes, LoadState
  <2>14. ls \in [1 .. Loads -> LoadState] /\ ls[m] = r /\ ls[l] = s
    BY <1>1, <2>5, <2>7, <2>11, <2>12 DEF StatusTypes
  <2>15. load' = [ls EXCEPT ![m].pc = "asked", ![m].page = "factory", ![m].whose = S]
    BY <2>2, <2>4, <2>13
  <2>16. load' = [ls EXCEPT ![m] = u]
    BY <2>5, <2>9, <2>14, <2>15 DEF LoadState
  <2>17. /\ load' \in [1 .. Loads -> LoadState] /\ load'[l] = s /\ load'[m] = u
         /\ \A k \in 1 .. Loads : k # l /\ k # m => load'[k] = load[k]
    BY <1>1, <2>5, <2>11, <2>12, <2>14, <2>16 DEF StatusTypes
  <2>18. \A k \in l .. m : k = l \/ k = m
    BY <2>3, <2>4
  <2>19. l \in l .. m /\ m \in l .. m
    BY <2>3, <2>4
  <2>20. /\ \A k \in l .. m : load'[k].pc = "asked"
         /\ \A k \in 1 .. Loads : k \notin l .. m => load'[k] = load[k]
    BY <2>11, <2>17, <2>18, <2>19
  <2>21. ASSUME NEW p \in PageNames
         PROVE  /\ view'[p] \in View
                /\ view'[p].shown = view[p].shown /\ view'[p].of = view[p].of
    <3>1. PICK v \in View : v = view[p]
      BY <1>1 DEF StatusTypes
    <3>2. PICK w : w = [[v EXCEPT !.loading = TRUE] EXCEPT !.failed = FALSE]
      OBVIOUS
    <3>3. w \in View /\ w.shown = v.shown /\ w.of = v.of
      BY <3>1, <3>2 DEF View
    <3>4. view'[p] = w \/ view'[p] = v
      BY <2>2, <3>1, <3>2 DEF View
    <3> QED
      BY <3>1, <3>3, <3>4
  <2>22. view' \in [PageNames -> View]
    BY <2>2, <2>21
  <2> QED
    BY <1>2, <2>1, <2>5, <2>17, <2>20, <2>21, <2>22, BeginKeeps
<1> QED
  BY <1>3, <1>4

\* Every step of the contract pages keeps the invariant.
LEMMA StatusStep ==
    ASSUME StatusInv, [StatusNext]_statusVars
    PROVE  StatusInv'
<1>1. CASE UNCHANGED <<view, load, wallet>>
  BY <1>1 DEF StatusInv, StatusTypes, LoadsInOrder, ViewsAreLoads
<1>2. ASSUME NEW p \in PageNames, Begin(p), view' = Loading(p), UNCHANGED wallet
      PROVE  StatusInv'
  BY <1>2, LoadKeeps
<1>3. CASE UNCHANGED statusVars
  BY <1>1, <1>3 DEF statusVars
<1>4. CASE MultisigFetchStatus \/ RefreshAfterSign
  BY <1>2, <1>4 DEF MultisigFetchStatus, RefreshAfterSign, PageNames, Parts
<1>5. CASE BackstopLoadStatus
  BY <1>2, <1>5 DEF BackstopLoadStatus, PageNames, Parts
<1>6. CASE FetchLogs
  BY <1>2, <1>6 DEF FetchLogs, PageNames, Parts
<1>7. CASE BridgeFetchStatus
  BY <1>2, <1>7 DEF BridgeFetchStatus, PageNames, Parts
<1>8. CASE RefreshTokens
  BY <1>2, <1>8 DEF RefreshTokens, PageNames, Parts
<1>9. CASE HandleSign
  BY <1>1, <1>9 DEF HandleSign
<1>10. ASSUME NEW f \in Forms, DeployToken(f) \/ \E b \in BOOLEAN : HandleSubmit(f, b)
       PROVE  StatusInv'
  BY <1>1, <1>10 DEF DeployToken, HandleSubmit
<1>11. ASSUME NEW S \in {{}} \cup {{w} : w \in Owners}, ChangeWallet(S)
       PROVE  StatusInv'
  <2>1. S \in SUBSET Owners
    OBVIOUS
  <2> QED
    BY <1>11, <2>1, WalletKeeps
<1>12. ASSUME NEW l \in 1 .. Loads, NEW x \in PartNames, EndpointAnswers(l, x)
       PROVE  StatusInv'
  BY <1>12, AnswerKeeps
<1>13. ASSUME NEW l \in 1 .. Loads, ShowLoad(l) PROVE StatusInv'
  BY <1>13, ShowKeeps
<1>14. ASSUME NEW l \in 1 .. Loads, FailLoad(l) PROVE StatusInv'
  BY <1>14, FailKeeps
<1> QED
  BY <1>3, <1>4, <1>5, <1>6, <1>7, <1>8, <1>9, <1>10, <1>11, <1>12, <1>13, <1>14
     DEF StatusNext

\* What a page displays came from one load of it, however many loads overlap
\* and whatever the endpoints answer, while sessions begin and end
\* (multisigService.js:109-194, backstopService.js:119-196).
THEOREM PagesShowOneLoad == StatusSpec => []ShownIsOneLoad
<1>1. StatusInit => StatusInv
  <2> SUFFICES ASSUME StatusInit PROVE StatusInv
    OBVIOUS
  <2>1. /\ Nothing \in [PartNames -> {"nothing", "live", "demo"}] /\ 0 \in 0 .. Loads
        /\ \A p \in PageNames : \A x \in Parts[p] : x \in PartNames
    BY StatusPagesAssumption DEF Nothing, PartNames
  <2>2. PICK v : v = [shown |-> Nothing, of |-> 0, whose |-> {},
                      loading |-> FALSE, failed |-> FALSE, hint |-> FALSE]
    OBVIOUS
  <2>3. v \in View /\ v.shown = Nothing
    BY <2>1, <2>2 DEF View
  <2>4. view = [p \in PageNames |-> v]
    BY <2>2 DEF StatusInit
  <2>5. PICK r : r = [pc |-> "idle", page |-> "audit", whose |-> {},
                      answer |-> [x \in PartNames |-> "none"]]
    OBVIOUS
  <2>6. "audit" \in PageNames /\ [x \in PartNames |-> "none"] \in [PartNames -> Answers]
    BY DEF PageNames, Parts, Answers
  <2>7. r \in LoadState /\ r.pc = "idle"
    BY <2>5, <2>6 DEF LoadState
  <2>8. load = [l \in 1 .. Loads |-> r] /\ wallet = {}
    BY <2>5 DEF StatusInit
  <2>9. \A p \in PageNames : OneLoad(p, v, load)
    BY <2>1, <2>3 DEF OneLoad, Nothing
  <2>10. \A k \in 1 .. Loads : load[k].pc # "idle" <=> k <= 0
    BY <2>7, <2>8, StatusPagesAssumption
  <2> QED
    BY <2>1, <2>3, <2>4, <2>7, <2>8, <2>9, <2>10
       DEF StatusInv, StatusTypes, LoadsInOrder, ViewsAreLoads
<1>2. StatusInv /\ [StatusNext]_statusVars => StatusInv'
  BY StatusStep
<1>3. StatusInv => ShownIsOneLoad
  BY DEF StatusInv, ViewsAreLoads, OneLoad, Gave, ShownIsOneLoad, Empty
<1> QED
  BY <1>1, <1>2, <1>3, PTL DEF StatusSpec

-----------------------------------------------------------------------------
(* The bridge relayer.                                                       *)

RelayerTypes ==
    /\ chain \in Seq(Events)
    /\ calls \in [Slots -> [pc : {"idle", "fetch", "ingest", "await"},
                            starts : BOOLEAN, left : Seq(Inputs)]]
    /\ queue \in Seq(Commands) /\ inFlight \in Seq(Commands)
    /\ processing \in BOOLEAN

RelayerInv == RelayerTypes /\ OneDrains

\* The next loop to run has a command, or one is running.
LEMMA FlushKeeps ==
    ASSUME RelayerInv, NEW p \in Slots, NEW q \in Seq(Commands), NEW rest \in Seq(Inputs),
           q # <<>> \/ processing, Flush(p, q, rest)
    PROVE  /\ RelayerTypes /\ chain' = chain => RelayerTypes'
           /\ OneDrains'
<1>1. RelayerTypes /\ OneDrains
  BY DEF RelayerInv
<1>2. Len(inFlight) <= 1 /\ (processing <=> inFlight # <<>>)
  BY <1>1 DEF OneDrains, SingleFlight
<1>3. /\ calls' \in [Slots -> [pc : {"idle", "fetch", "ingest", "await"},
                               starts : BOOLEAN, left : Seq(Inputs)]]
  BY <1>1 DEF Flush, RelayerTypes
<1>4. CASE processing
  <2>1. queue' = q /\ processing' = processing /\ inFlight' = inFlight
    BY <1>4 DEF Flush, Locked
  <2> QED
    BY <1>1, <1>2, <1>3, <1>4, <2>1 DEF RelayerTypes, OneDrains, SingleFlight, NobodyStranded
<1>5. CASE ~processing
  <2>1. /\ processing' = TRUE /\ queue' = Tail(q) /\ inFlight' = Append(inFlight, Head(q))
    BY <1>5 DEF Flush, Locked
  <2>2. inFlight = <<>> /\ q # <<>>
    BY <1>2, <1>5
  <2>3. /\ Head(q) \in Commands /\ Tail(q) \in Seq(Commands)
    BY <2>2
  <2>4. /\ inFlight' \in Seq(Commands) /\ Len(inFlight') = 1 /\ inFlight' # <<>>
    BY <2>1, <2>2, <2>3
  <2> QED
    BY <1>3, <2>1, <2>3, <2>4 DEF RelayerTypes, OneDrains, SingleFlight, NobodyStranded
<1> QED
  BY <1>4, <1>5

\* Steps of a call that does not flush.
LEMMA CallKeeps ==
    ASSUME RelayerInv, NEW p \in Slots,
           NEW c \in [pc : {"idle", "fetch", "ingest"}, starts : BOOLEAN, left : Seq(Inputs)],
           calls' = [calls EXCEPT ![p] = c], UNCHANGED <<queue, processing, inFlight, chain>>
    PROVE  RelayerInv'
<1>1. RelayerTypes /\ OneDrains
  BY DEF RelayerInv
<1>2. c \in [pc : {"idle", "fetch", "ingest", "await"}, starts : BOOLEAN, left : Seq(Inputs)]
      /\ c.pc # "await"
  OBVIOUS
<1>3. /\ calls' \in [Slots -> [pc : {"idle", "fetch", "ingest", "await"},
                               starts : BOOLEAN, left : Seq(Inputs)]]
      /\ \A o \in Slots : calls'[o].pc = "await" => calls[o].pc = "await"
  BY <1>1, <1>2 DEF RelayerTypes
<1> QED
  BY <1>1, <1>3 DEF RelayerInv, RelayerTypes, OneDrains, SingleFlight, NobodyStranded

\* A poll or request appends its command and starts the loop or joins it.
LEMMA IngestKeeps ==
    ASSUME RelayerInv, NEW p \in Slots, Ingest(p)
    PROVE  RelayerInv'
<1>1. RelayerTypes /\ OneDrains
  BY DEF RelayerInv
<1>2. PICK c \in [pc : {"idle", "fetch", "ingest", "await"}, starts : BOOLEAN,
                  left : Seq(Inputs)] : c = calls[p]
  BY <1>1 DEF RelayerTypes
<1>3. c.pc = "ingest" /\ c.left # <<>> /\ c.left \in Seq(Inputs) /\ UNCHANGED chain
  BY <1>2 DEF Ingest
<1>4. Head(c.left) \in Inputs /\ Tail(c.left) \in Seq(Inputs)
  BY <1>3
<1>5. CASE \E command \in BuildRelayCommand(Head(c.left)) :
             Flush(p, Append(queue, command), Tail(c.left))
  <2>1. PICK command \in BuildRelayCommand(Head(c.left)) :
            Flush(p, Append(queue, command), Tail(c.left))
    BY <1>5
  <2>2. command \in Commands
    BY <1>4 DEF Commands
  <2>3. queue \in Seq(Commands)
    BY <1>1 DEF RelayerTypes
  <2>4. /\ Append(queue, command) \in Seq(Commands)
        /\ Len(Append(queue, command)) = Len(queue) + 1 /\ Len(queue) \in Nat
    BY ONLY <2>2, <2>3
  <2>5. Append(queue, command) # <<>>
    BY ONLY <2>4
  <2> QED
    BY <1>1, <1>3, <1>4, <2>1, <2>4, <2>5, FlushKeeps DEF RelayerInv
<1>6. CASE /\ calls' = [calls EXCEPT ![p].left = Tail(@)]
           /\ UNCHANGED <<queue, processing, inFlight>>
  <2>1. PICK d : d = [c EXCEPT !.left = Tail(c.left)]
    OBVIOUS
  <2>2. d \in [pc : {"idle", "fetch", "ingest"}, starts : BOOLEAN, left : Seq(Inputs)]
    BY <1>2, <1>3, <1>4, <2>1
  <2>3. calls' = [calls EXCEPT ![p] = d]
    BY <1>1, <1>2, <1>6, <2>1 DEF RelayerTypes
  <2> QED
    BY <1>3, <1>6, <2>2, <2>3, CallKeeps
<1> QED
  BY <1>2, <1>5, <1>6 DEF Ingest

\* The end of a call takes its command off and goes on or ends the loop.
LEMMA DispatchedKeeps ==
    ASSUME RelayerInv, NEW i \in DOMAIN inFlight, NEW accepted \in BOOLEAN,
           Dispatched(i, accepted)
    PROVE  RelayerInv'
<1>1. RelayerTypes /\ OneDrains
  BY DEF RelayerInv
<1>2. Len(inFlight) <= 1 /\ (processing <=> inFlight # <<>>) /\ inFlight \in Seq(Commands)
  BY <1>1 DEF OneDrains, SingleFlight, RelayerTypes
<1>3. i = 1 /\ Len(inFlight) = 1 /\ processing
  <2>1. Len(inFlight) \in Nat /\ i \in 1 .. Len(inFlight)
    BY ONLY <1>2, i \in DOMAIN inFlight
  <2>2. i = 1 /\ Len(inFlight) = 1
    <3>1. PICK n \in Nat : n = Len(inFlight)
      BY <2>1
    <3>2. n <= 1 /\ i \in 1 .. n
      BY <1>2, <2>1, <3>1
    <3>3. i = 1 /\ n = 1
      BY ONLY <3>2, n \in Nat
    <3> QED
      BY <3>1, <3>3
  <2>3. inFlight # <<>>
    BY ONLY <2>2
  <2> QED
    BY <1>2, <2>2, <2>3
<1>4. UNCHANGED chain
  BY DEF Dispatched
<1>5. CASE queue # <<>>
  <2>1. /\ inFlight' = [inFlight EXCEPT ![i] = Head(queue)] /\ queue' = Tail(queue)
        /\ processing' = processing /\ calls' = calls
    BY <1>5 DEF Dispatched, GoesOn
  <2>2. Head(queue) \in Commands /\ Tail(queue) \in Seq(Commands)
    BY <1>1, <1>5 DEF RelayerTypes
  <2>3. inFlight' \in Seq(Commands) /\ Len(inFlight') = 1 /\ inFlight' # <<>>
    BY <1>2, <1>3, <2>1, <2>2
  <2> QED
    BY <1>1, <1>3, <1>4, <2>1, <2>2, <2>3
       DEF RelayerInv, RelayerTypes, OneDrains, SingleFlight, NobodyStranded
<1>6. CASE queue = <<>>
  <2>1. /\ inFlight' = RemoveAt(inFlight, i) /\ processing' = FALSE
        /\ calls' = [p \in Slots |-> Awakened(p)] /\ queue' = queue
    BY <1>6 DEF Dispatched, GoesOn
  <2>2. RemoveAt(inFlight, 1) = SubSeq(inFlight, 1, 0) \o SubSeq(inFlight, 2, 1)
    BY <1>3 DEF RemoveAt
  <2>3. inFlight' = <<>>
    BY <1>2, <1>3, <2>1, <2>2
  <2>4. \A p \in Slots : /\ Awakened(p) \in [pc : {"idle", "fetch", "ingest", "await"},
                                             starts : BOOLEAN, left : Seq(Inputs)]
                         /\ Awakened(p).pc # "await"
    BY <1>1 DEF RelayerTypes, Awakened
  <2>5. /\ calls' \in [Slots -> [pc : {"idle", "fetch", "ingest", "await"},
                                 starts : BOOLEAN, left : Seq(Inputs)]]
        /\ \A p \in Slots : calls'[p].pc # "await"
    BY <2>1, <2>4
  <2>6. inFlight' \in Seq(Commands) /\ Len(inFlight') = 0
    BY ONLY <2>3
  <2>7. RelayerTypes'
    BY <1>1, <1>4, <1>6, <2>1, <2>5, <2>6 DEF RelayerTypes
  <2>8. OneDrains'
    BY <1>6, <2>1, <2>3, <2>5, <2>6 DEF OneDrains, SingleFlight, NobodyStranded
  <2> QED
    BY <2>7, <2>8 DEF RelayerInv
<1> QED
  BY <1>5, <1>6

\* Every step of the relayer keeps the invariant.
LEMMA RelayerStep ==
    ASSUME RelayerInv, [RelayerNext]_relayerVars
    PROVE  RelayerInv'
<1>1. RelayerTypes /\ OneDrains
  BY DEF RelayerInv
<1>2. CASE UNCHANGED relayerVars
  BY <1>1, <1>2 DEF relayerVars, RelayerInv, RelayerTypes, OneDrains, SingleFlight, NobodyStranded
<1>3. ASSUME NEW e \in Logs, Emit(e) PROVE RelayerInv'
  <2>1. chain' \in Seq(Events)
    BY <1>1, <1>3, RelayerAssumption DEF Emit, RelayerTypes
  <2> QED
    BY <1>1, <1>3, <2>1
       DEF Emit, RelayerInv, RelayerTypes, OneDrains, SingleFlight, NobodyStranded
<1>4. ASSUME NEW p \in Pollers, Start(p) \/ TimerFires(p) PROVE RelayerInv'
  <2>1. PICK b \in BOOLEAN : calls' = [calls EXCEPT ![p] = [pc |-> "fetch", starts |-> b, left |-> <<>>]]
    BY <1>4 DEF Start, TimerFires
  <2>2. p \in Slots /\ UNCHANGED <<queue, processing, inFlight, chain>>
    BY <1>4 DEF Start, TimerFires, Slots
  <2>3. <<>> \in Seq(Inputs)
    OBVIOUS
  <2> QED
    BY <2>1, <2>2, <2>3, CallKeeps
<1>5. ASSUME NEW p \in Pollers, NEW ok \in BOOLEAN, Fetch(p, ok) PROVE RelayerInv'
  <2>1. PICK l \in Seq(Inputs) : l = IF ok THEN Polled(chain) ELSE <<>>
    <3>1. <<>> \in Seq(Inputs) /\ chain \in Seq(Events) /\ RawLog \in Inputs
      BY <1>1 DEF RelayerTypes, Inputs
    <3>2. PICK n \in Nat : n = Len(chain) /\ DOMAIN chain = 1 .. n
      BY <3>1
    <3>3. Polled(chain) = [i \in 1 .. n |-> RawLog]
      BY <3>2 DEF Polled
    <3>4. [i \in 1 .. n |-> RawLog] \in Seq(Inputs)
      BY <3>1, <3>2
    <3> QED
      BY <3>1, <3>3, <3>4
  <2>2. p \in Slots /\ UNCHANGED <<queue, processing, inFlight, chain>>
    BY <1>5 DEF Fetch, Slots
  <2>3. PICK c \in [pc : {"idle", "fetch", "ingest", "await"}, starts : BOOLEAN,
                    left : Seq(Inputs)] : c = calls[p]
    BY <1>1, <2>2 DEF RelayerTypes
  <2>4. PICK d : d = [[c EXCEPT !.pc = "ingest"] EXCEPT !.left = l]
    OBVIOUS
  <2>5. d \in [pc : {"idle", "fetch", "ingest"}, starts : BOOLEAN, left : Seq(Inputs)]
    BY <2>1, <2>3, <2>4
  <2>6. calls' = [calls EXCEPT ![p] = d]
    BY <1>1, <1>5, <2>1, <2>2, <2>3, <2>4 DEF Fetch, RelayerTypes
  <2> QED
    BY <2>2, <2>5, <2>6, CallKeeps
<1>6. ASSUME NEW p \in Callers, Stop(p) PROVE RelayerInv'
  <2>1. p \in Slots /\ UNCHANGED chain /\ <<>> \in Seq(Inputs)
    BY <1>6 DEF Stop, Slots
  <2>2. CASE queue = <<>> /\ ~Locked(processing)
    BY <1>1, <1>6, <2>1, <2>2
       DEF Stop, RelayerInv, RelayerTypes, OneDrains, SingleFlight, NobodyStranded
  <2>3. CASE ~(queue = <<>> /\ ~Locked(processing))
    <3>1. Flush(p, queue, <<>>) /\ (queue # <<>> \/ processing)
      BY <1>6, <2>3 DEF Stop, Locked
    <3>2. queue \in Seq(Commands)
      BY <1>1 DEF RelayerTypes
    <3> QED
      BY <1>1, <2>1, <3>1, <3>2, FlushKeeps DEF RelayerInv
  <2> QED
    BY <2>2, <2>3
<1>7. ASSUME NEW p \in Callers, NEW e \in Events, Request(p, e) PROVE RelayerInv'
  <2>1. /\ p \in Slots /\ UNCHANGED <<queue, processing, inFlight, chain>>
        /\ calls' = [calls EXCEPT ![p] = [pc |-> "ingest", starts |-> FALSE, left |-> <<e>>]]
    BY <1>7 DEF Request, Slots
  <2>2. <<e>> \in Seq(Inputs)
    BY DEF Inputs
  <2> QED
    BY <2>1, <2>2, CallKeeps
<1>8. ASSUME NEW p \in Slots, Ingest(p) PROVE RelayerInv'
  BY <1>8, IngestKeeps
<1>9. ASSUME NEW p \in Slots, Finish(p) PROVE RelayerInv'
  <2>1. /\ UNCHANGED <<queue, processing, inFlight, chain>>
        /\ calls' = [calls EXCEPT ![p] = [pc |-> "idle", starts |-> FALSE, left |-> <<>>]]
    BY <1>9 DEF Finish, Idle
  <2>2. <<>> \in Seq(Inputs)
    OBVIOUS
  <2> QED
    BY <2>1, <2>2, CallKeeps
<1>10. CASE Reset
  <2>1. queue' = <<>> /\ queue' \in Seq(Commands) /\ UNCHANGED <<calls, processing, inFlight, chain>>
    BY <1>10 DEF Reset
  <2> QED
    BY <1>1, <2>1 DEF RelayerInv, RelayerTypes, OneDrains, SingleFlight, NobodyStranded
<1>11. ASSUME NEW i \in DOMAIN inFlight, NEW ok \in BOOLEAN, Dispatched(i, ok)
       PROVE  RelayerInv'
  BY <1>11, DispatchedKeeps
<1> QED
  BY <1>2, <1>3, <1>4, <1>5, <1>6, <1>7, <1>8, <1>9, <1>10, <1>11 DEF RelayerNext

\* Commands go out one at a time, and nobody waits for a loop that is not
\* running, for any number of pollers, requests, timers and resets
\* (bridge-relayer.js:520-560).
THEOREM OneAlwaysDrains == RelayerSpec => []OneDrains
<1>1. RelayerInit => RelayerInv
  <2> SUFFICES ASSUME RelayerInit PROVE RelayerInv
    OBVIOUS
  <2>1. /\ chain = <<>> /\ queue = <<>> /\ inFlight = <<>> /\ Len(inFlight) = 0
        /\ processing = FALSE
        /\ calls = [p \in Slots |-> [pc |-> "idle", starts |-> FALSE, left |-> <<>>]]
    BY DEF RelayerInit, Idle
  <2>2. /\ <<>> \in Seq(Inputs) /\ <<>> \in Seq(Commands) /\ <<>> \in Seq(Events)
    OBVIOUS
  <2>3. calls \in [Slots -> [pc : {"idle", "fetch", "ingest", "await"},
                             starts : BOOLEAN, left : Seq(Inputs)]]
        /\ \A p \in Slots : calls[p].pc # "await"
    BY <2>1, <2>2
  <2>4. RelayerTypes
    BY <2>1, <2>2, <2>3 DEF RelayerTypes
  <2>5. OneDrains
    BY <2>1, <2>3 DEF OneDrains, SingleFlight, NobodyStranded
  <2> QED
    BY <2>4, <2>5 DEF RelayerInv
<1>2. RelayerInv /\ [RelayerNext]_relayerVars => RelayerInv'
  BY RelayerStep
<1>3. RelayerInv => OneDrains
  BY DEF RelayerInv
<1> QED
  BY <1>1, <1>2, <1>3, PTL DEF RelayerSpec

-----------------------------------------------------------------------------
(* The governance page.                                                      *)

PagesSpec == PagesInit /\ [][PagesNext]_pagesVars

PagesTypes ==
    /\ page \in Page /\ badge \in [power : SUBSET Sessions, loading : BOOLEAN]
    /\ powerRead \in [1 .. PowerReads -> PowerRead]
    /\ listRead \in [1 .. ListReads -> Read] /\ sent \in [Sends -> Sent]
    /\ version \in Nat /\ told \in Nat /\ crossed \in BOOLEAN

\* The power read of late is that of the session, and no other read counts.
BadgeIsOwn ==
    /\ ~badge.loading /\ page.session # {} => badge.power \subseteq page.session
    /\ \A r \in 1 .. PowerReads : powerRead[r].pc = "sent" => powerRead[r].whose = page.session

\* What a list read r, the last of all, says of the page p that was told of t.
LastRead(r, p, t) ==
    /\ r.tab = p.tab
    /\ r.pc = "read" => t <= r.version
    /\ r.pc = "done" => p.failed \/ (p.listTab = p.tab /\ t <= p.listVersion)

ReadsUpTo(n) == \A l \in 1 .. ListReads : listRead[l].pc # "idle" <=> l <= n

ListIsLast ==
    \E n \in 1 .. ListReads :
        ReadsUpTo(n) /\ (~crossed => LastRead(listRead[n], page, told))

VersionsKnown ==
    /\ told <= version
    /\ \A s \in Sends : sent[s].version <= version

PagesInv == PagesTypes /\ BadgeIsOwn /\ ListIsLast /\ VersionsKnown

\* Steps of the modals and of what they send.
LEMMA ModalKeeps ==
    ASSUME PagesInv, UNCHANGED <<page, badge, powerRead, listRead, version, told, crossed>>,
           sent' \in [Sends -> Sent], \A s \in Sends : sent'[s].version <= version
    PROVE  PagesInv'
<1>1. PagesTypes /\ BadgeIsOwn /\ ListIsLast /\ VersionsKnown
  BY DEF PagesInv
<1>2. PagesTypes' /\ BadgeIsOwn'
  BY <1>1 DEF PagesTypes, BadgeIsOwn
<1>3. ListIsLast'
  BY <1>1 DEF ListIsLast, ReadsUpTo
<1>4. VersionsKnown'
  BY <1>1 DEF VersionsKnown
<1> QED
  BY <1>2, <1>3, <1>4 DEF PagesInv

\* The modals unmount what they wait for, and requests end.
LEMMA UnmountedTyped ==
    ASSUME PagesInv, NEW k \in {"vote", "proposal"}
    PROVE  /\ Unmounted(k) \in [Sends -> Sent]
           /\ \A s \in Sends : Unmounted(k)[s].version = sent[s].version
<1>1. PagesTypes
  BY DEF PagesInv
<1>2. \A r \in Sent : [r EXCEPT !.mounted = FALSE] \in Sent
                      /\ [r EXCEPT !.mounted = FALSE].version = r.version
  BY DEF Sent
<1> QED
  BY <1>1, <1>2 DEF PagesTypes, Unmounted

\* A request is sent with the version its page shows.
LEMMA SendTyped ==
    ASSUME PagesInv, NEW s \in Sends, NEW k \in {"vote", "proposal"}, Send(s, k)
    PROVE  sent' \in [Sends -> Sent] /\ \A q \in Sends : sent'[q].version <= version
<1>1. PagesTypes /\ VersionsKnown
  BY DEF PagesInv
<1>2. PICK r : r = [pc |-> IF page.session # {} THEN "sent" ELSE "refused", kind |-> k,
                    mounted |-> TRUE, tab |-> page.tab, version |-> 0]
  OBVIOUS
<1>3. r \in Sent /\ r.version = 0 /\ sent' = [sent EXCEPT ![s] = r]
  BY <1>1, <1>2 DEF Send, Sent, PagesTypes, Page
<1>4. 0 <= version
  BY <1>1 DEF PagesTypes
<1> QED
  BY <1>1, <1>3, <1>4 DEF PagesTypes, VersionsKnown

\* Opening, closing and filling in the modals keeps the invariant.
LEMMA ModalsKeep ==
    ASSUME PagesInv,
           \/ HandleVoteModalClose \/ Deselect \/ PowerAnswered \/ Choose
           \/ OpenCreate \/ CloseCreate \/ UNCHANGED pagesVars
           \/ \E active \in BOOLEAN : HandleVote(active)
           \/ \E s \in Sends : HandleCastVote(s) \/ HandleCreate(s)
    PROVE  PagesInv'
<1>1. PagesTypes /\ VersionsKnown
  BY DEF PagesInv
<1>2. UNCHANGED <<page, badge, powerRead, listRead, version, told, crossed>>
  BY DEF HandleVoteModalClose, Deselect, PowerAnswered, Choose, OpenCreate, CloseCreate,
         pagesVars, HandleVote, HandleCastVote, HandleCreate
<1>3. sent' \in [Sends -> Sent] /\ \A q \in Sends : sent'[q].version <= version
  <2>1. CASE sent' = sent
    BY <1>1, <2>1 DEF PagesTypes, VersionsKnown
  <2>2. CASE sent' = Unmounted("vote") \/ sent' = Unmounted("proposal")
    <3>1. PICK k \in {"vote", "proposal"} : sent' = Unmounted(k)
      BY <2>2
    <3> QED
      BY <1>1, <3>1, UnmountedTyped DEF VersionsKnown
  <2>3. CASE \E s \in Sends : Send(s, "vote") \/ Send(s, "proposal")
    <3>1. PICK s \in Sends, k \in {"vote", "proposal"} : Send(s, k)
      BY <2>3
    <3> QED
      BY <3>1, SendTyped
  <2> QED
    BY <2>1, <2>2, <2>3
       DEF HandleVoteModalClose, Deselect, PowerAnswered, Choose, OpenCreate, CloseCreate,
           pagesVars, HandleVote, HandleCastVote, HandleCreate
<1> QED
  BY <1>2, <1>3, ModalKeeps

\* The next list read is sent for the tab of the page.
LEMMA FetchKeeps ==
    ASSUME PagesInv, NEW t \in Tabs, FetchProposals(t), NEW p \in Page, page' = p,
           p.session = page.session, crossed' \in BOOLEAN, ~crossed' => ~crossed /\ p.tab = t,
           UNCHANGED <<badge, powerRead, version>>, told' \in Nat, told' <= version,
           sent' \in [Sends -> Sent], \A s \in Sends : sent'[s].version <= version
    PROVE  PagesInv'
<1>1. PagesTypes /\ BadgeIsOwn /\ ListIsLast /\ VersionsKnown
  BY DEF PagesInv
<1>2. PICK n \in 1 .. ListReads : ReadsUpTo(n)
  BY <1>1 DEF ListIsLast
<1>3. n \in Nat
  BY <1>2, VotingPagesAssumption
<1>4. {l \in 1 .. ListReads : listRead[l].pc # "idle"} = 1 .. n
  BY <1>2, VotingPagesAssumption DEF ReadsUpTo
<1>5. Cardinality(1 .. n) = IF 1 > n THEN 0 ELSE n - 1 + 1
  BY ONLY <1>3, FS_Interval
<1>6. Cardinality(1 .. n) = n
  BY ONLY <1>3, <1>5
<1>7. PICK m : m = n + 1
  OBVIOUS
<1>8. PICK r : r = [pc |-> "sent", tab |-> t, version |-> 0]
  OBVIOUS
<1>9. m <= ListReads /\ listRead' = [listRead EXCEPT ![m] = r]
  BY <1>4, <1>6, <1>7, <1>8 DEF FetchProposals
<1>10. m \in 1 .. ListReads
  BY ONLY <1>3, <1>7, <1>9, VotingPagesAssumption
<1>11. r \in Read /\ r.pc = "sent" /\ r.tab = t
  BY <1>8 DEF Read
<1>12. /\ listRead' \in [1 .. ListReads -> Read] /\ listRead'[m] = r
       /\ \A l \in 1 .. ListReads : l # m => listRead'[l] = listRead[l]
  BY <1>1, <1>9, <1>10, <1>11 DEF PagesTypes
<1>13. \A l \in 1 .. ListReads : /\ l = m => l <= m
                                 /\ l # m => (l <= n <=> l <= m)
  BY ONLY <1>3, <1>7, VotingPagesAssumption
<1>14. ReadsUpTo(m)'
  BY <1>2, <1>11, <1>12, <1>13 DEF ReadsUpTo
<1>15. ~crossed' => LastRead(listRead'[m], page', told')
  BY <1>11, <1>12 DEF LastRead
<1>16. ListIsLast'
  BY <1>10, <1>14, <1>15 DEF ListIsLast
<1>17. PagesTypes'
  BY <1>1, <1>12 DEF PagesTypes
<1>18. BadgeIsOwn'
  BY <1>1 DEF BadgeIsOwn
<1>19. VersionsKnown'
  BY DEF VersionsKnown
<1> QED
  BY <1>16, <1>17, <1>18, <1>19 DEF PagesInv

\* A page that fetches keeps its session and its tab.
LEMMA FetchingTyped ==
    ASSUME NEW p \in Page
    PROVE  /\ Fetching(p) \in Page /\ Fetching(p).session = p.session
           /\ Fetching(p).tab = p.tab
<1>1. PICK q : q = [[p EXCEPT !.loading = TRUE] EXCEPT !.failed = FALSE]
  OBVIOUS
<1>2. q \in Page /\ q.session = p.session /\ q.tab = p.tab
  BY <1>1 DEF Page
<1>3. Fetching(p) = q
  BY <1>1 DEF Fetching, Page
<1> QED
  BY <1>2, <1>3

\* Another tab asks for its own list.
LEMMA TabKeeps ==
    ASSUME PagesInv, NEW t \in Tabs, SetTab(t)
    PROVE  PagesInv'
<1>1. PagesTypes /\ VersionsKnown
  BY DEF PagesInv
<1>2. PICK p : p = [page EXCEPT !.tab = t]
  OBVIOUS
<1>3. p \in Page /\ p.session = page.session /\ p.tab = t
  BY <1>1, <1>2 DEF PagesTypes, Page
<1>4. PICK q \in Page : q = Fetching(p) /\ q.session = page.session /\ q.tab = t
  BY <1>3, FetchingTyped
<1>5. /\ FetchProposals(t) /\ page' = q
      /\ UNCHANGED <<badge, powerRead, sent, version, told, crossed>>
  BY <1>2, <1>4 DEF SetTab
<1> QED
  BY <1>1, <1>4, <1>5, FetchKeeps DEF PagesTypes, VersionsKnown

\* A refresh asks again for the list of the tab.
LEMMA RefreshKeeps ==
    ASSUME PagesInv, Refresh
    PROVE  PagesInv'
<1>1. PagesTypes /\ VersionsKnown
  BY DEF PagesInv
<1>2. PICK t \in Tabs : t = page.tab
  BY <1>1 DEF PagesTypes, Page
<1>3. PICK q \in Page : q = Fetching(page) /\ q.session = page.session /\ q.tab = t
  BY <1>1, <1>2, FetchingTyped DEF PagesTypes
<1>4. /\ FetchProposals(t) /\ page' = q
      /\ UNCHANGED <<badge, powerRead, sent, version, told, crossed>>
  BY <1>2, <1>3 DEF Refresh
<1> QED
  BY <1>1, <1>2, <1>3, <1>4, FetchKeeps DEF PagesTypes, VersionsKnown

\* An accepted vote or proposal asks for a new list.
LEMMA AcceptedKeeps ==
    ASSUME PagesInv, NEW s \in Sends, Accepted(s)
    PROVE  PagesInv'
<1>1. PagesTypes /\ VersionsKnown
  BY DEF PagesInv
<1>2. PICK r \in Sent : r = sent[s]
  BY <1>1 DEF PagesTypes
<1>3. PICK t \in Tabs : t = r.tab
  BY <1>2 DEF Sent
<1>4. PICK k \in {"vote", "proposal"} : k = r.kind
  BY <1>2 DEF Sent
<1>5. PICK b : b = ((k = "proposal" /\ sent[s].tab = "all") \/ page.added)
  OBVIOUS
<1>6. b \in BOOLEAN
  <2>1. page.added \in BOOLEAN
    BY <1>1 DEF PagesTypes, Page
  <2> QED
    BY <1>5, <2>1
<1>7. PICK p : p = [page EXCEPT !.added = b]
  OBVIOUS
<1>8. p \in Page /\ p.session = page.session /\ p.tab = page.tab
  BY <1>1, <1>6, <1>7 DEF PagesTypes, Page
<1>9. PICK q \in Page : q = Fetching(p) /\ q.session = page.session /\ q.tab = page.tab
  BY <1>8, FetchingTyped
<1>10. page' = q
  BY <1>1, <1>2, <1>4, <1>5, <1>7, <1>9 DEF Accepted, PagesTypes, Page
<1>11. /\ FetchProposals(t) /\ told' = r.version
       /\ UNCHANGED <<badge, powerRead, version>>
  BY <1>2, <1>3 DEF Accepted, Refetch
<1>12. crossed' \in BOOLEAN /\ (~crossed' => ~crossed /\ q.tab = t)
  BY <1>1, <1>2, <1>3, <1>9 DEF Accepted, PagesTypes
<1>13. told' \in Nat /\ told' <= version
  BY <1>1, <1>2, <1>11 DEF Sent, VersionsKnown
<1>14. PICK u \in [Sends -> Sent] : u = Unmounted(k) /\ \A o \in Sends : u[o].version = sent[o].version
  BY UnmountedTyped
<1>15. sent' = [u EXCEPT ![s].pc = "done"]
  BY <1>2, <1>4, <1>14 DEF Accepted
<1>16. PICK v \in Sent : v = u[s]
  BY <1>14
<1>17. PICK w \in Sent : w = [v EXCEPT !.pc = "done"] /\ w.version = v.version
  <2>1. PICK w : w = [v EXCEPT !.pc = "done"]
    OBVIOUS
  <2>2. w \in Sent /\ w.version = v.version
    BY <1>16, <2>1 DEF Sent
  <2> QED
    BY <2>1, <2>2
<1>18. /\ sent' \in [Sends -> Sent]
       /\ \A o \in Sends : sent'[o].version <= version
  BY <1>1, <1>14, <1>15, <1>16, <1>17 DEF VersionsKnown
<1> QED
  BY <1>3, <1>9, <1>10, <1>11, <1>12, <1>13, <1>18, FetchKeeps

\* The server's acceptance raises the version of its list.
LEMMA AnswersKeep ==
    ASSUME PagesInv, NEW s \in Sends, ServerAnswers(s)
    PROVE  PagesInv'
<1>1. PagesTypes /\ BadgeIsOwn /\ ListIsLast /\ VersionsKnown
  BY DEF PagesInv
<1>2. PICK r \in Sent : r = sent[s]
  BY <1>1 DEF PagesTypes
<1>3. PICK n \in Nat, c \in {"accepted", "refused"}, v \in Nat :
        /\ version' = n /\ n \in {version, version + 1} /\ v <= n
        /\ sent' = [sent EXCEPT ![s] = [[r EXCEPT !.pc = c] EXCEPT !.version = v]]
  <2>1. CASE /\ version' = version + 1
             /\ sent' = [sent EXCEPT ![s].pc = "accepted", ![s].version = version']
    <3>1. PICK n \in Nat : n = version + 1 /\ version' = n
      BY <1>1, <2>1 DEF PagesTypes
    <3>2. sent' = [sent EXCEPT ![s] = [[r EXCEPT !.pc = "accepted"] EXCEPT !.version = n]]
      BY <1>1, <1>2, <2>1, <3>1 DEF PagesTypes, Sent
    <3>3. n <= n
      BY ONLY n \in Nat
    <3> QED
      BY <3>1, <3>2, <3>3
  <2>2. CASE sent' = [sent EXCEPT ![s].pc = "refused"] /\ UNCHANGED version
    <3>1. r.version \in Nat /\ r.version <= version /\ version \in Nat
      BY <1>1, <1>2 DEF VersionsKnown, PagesTypes, Sent
    <3>2. sent' = [sent EXCEPT ![s] = [[r EXCEPT !.pc = "refused"] EXCEPT !.version = r.version]]
      BY <1>1, <1>2, <2>2 DEF PagesTypes, Sent
    <3> QED
      BY <2>2, <3>1, <3>2
  <2> QED
    BY <2>1, <2>2 DEF ServerAnswers
<1>4. PICK w : w = [[r EXCEPT !.pc = c] EXCEPT !.version = v]
  OBVIOUS
<1>5. w \in Sent /\ w.version = v
  BY <1>2, <1>3, <1>4 DEF Sent
<1>6. version <= n /\ version \in Nat
  BY <1>1, <1>3 DEF PagesTypes
<1>7. \A o \in Sends : sent[o].version \in Nat /\ sent[o].version <= version
  BY <1>1 DEF PagesTypes, Sent, VersionsKnown
<1>8. \A o \in Sends : sent[o].version <= n
  BY ONLY <1>6, <1>7, n \in Nat
<1>9. /\ sent' \in [Sends -> Sent] /\ \A o \in Sends : sent'[o].version <= n
  BY <1>1, <1>3, <1>4, <1>5, <1>8 DEF PagesTypes
<1>10. UNCHANGED <<page, badge, powerRead, listRead, told, crossed>>
  BY DEF ServerAnswers
<1>11. told <= n
  <2>1. told \in Nat /\ told <= version
    BY <1>1 DEF PagesTypes, VersionsKnown
  <2> QED
    BY ONLY <1>6, <2>1, n \in Nat
<1>12. PagesTypes' /\ BadgeIsOwn'
  BY <1>1, <1>3, <1>9, <1>10 DEF PagesTypes, BadgeIsOwn
<1>13. ListIsLast'
  BY <1>1, <1>10 DEF ListIsLast, ReadsUpTo
<1>14. VersionsKnown'
  BY <1>3, <1>9, <1>10, <1>11 DEF VersionsKnown
<1> QED
  BY <1>12, <1>13, <1>14 DEF PagesInv

\* A refusal leaves the page as it is.
LEMMA RefusedKeeps ==
    ASSUME PagesInv, NEW s \in Sends, Refused(s)
    PROVE  PagesInv'
<1>1. PagesTypes /\ VersionsKnown
  BY DEF PagesInv
<1>2. PICK r \in Sent : r = sent[s]
  BY <1>1 DEF PagesTypes
<1>3. PICK w : w = [r EXCEPT !.pc = "done"]
  OBVIOUS
<1>4. w \in Sent /\ w.version = r.version
  BY <1>2, <1>3 DEF Sent
<1>5. sent' = [sent EXCEPT ![s] = w]
  BY <1>1, <1>2, <1>3 DEF Refused, PagesTypes
<1>6. /\ sent' \in [Sends -> Sent] /\ \A o \in Sends : sent'[o].version <= version
  BY <1>1, <1>2, <1>4, <1>5 DEF PagesTypes, VersionsKnown
<1>7. UNCHANGED <<page, badge, powerRead, listRead, version, told, crossed>>
  BY DEF Refused
<1> QED
  BY <1>6, <1>7, ModalKeeps

\* A list read is answered, or shown.
LEMMA ListReadMoves ==
    ASSUME PagesInv, NEW l \in 1 .. ListReads, NEW r \in Read, r.pc # "idle",
           listRead[l].pc # "idle", r.tab = listRead[l].tab,
           listRead' = [listRead EXCEPT ![l] = r], NEW p \in Page, page' = p,
           p.session = page.session, p.tab = page.tab,
           crossed' \in BOOLEAN, ~crossed' => ~crossed,
           UNCHANGED <<badge, powerRead, sent, version, told>>,
           \A n \in 1 .. ListReads :
              /\ ReadsUpTo(n) /\ ~crossed' /\ LastRead(listRead[n], page, told)
              => LastRead(IF n = l THEN r ELSE listRead[n], p, told)
    PROVE  PagesInv'
<1>1. PagesTypes /\ BadgeIsOwn /\ ListIsLast /\ VersionsKnown
  BY DEF PagesInv
<1>2. /\ listRead' \in [1 .. ListReads -> Read]
      /\ \A m \in 1 .. ListReads : listRead'[m] = IF m = l THEN r ELSE listRead[m]
  BY <1>1 DEF PagesTypes
<1>3. PICK n \in 1 .. ListReads : ReadsUpTo(n) /\ (~crossed => LastRead(listRead[n], page, told))
  BY <1>1 DEF ListIsLast
<1>4. ReadsUpTo(n)'
  BY <1>2, <1>3 DEF ReadsUpTo
<1>5. ~crossed' => LastRead(listRead'[n], page', told')
  BY <1>2, <1>3
<1>6. ListIsLast'
  BY <1>4, <1>5 DEF ListIsLast
<1>7. PagesTypes' /\ BadgeIsOwn' /\ VersionsKnown'
  BY <1>1, <1>2 DEF PagesTypes, BadgeIsOwn, VersionsKnown
<1> QED
  BY <1>6, <1>7 DEF PagesInv

\* The server answers a request for the list with the version of that moment.
LEMMA ListKeeps ==
    ASSUME PagesInv, NEW l \in 1 .. ListReads, ListProposals(l)
    PROVE  PagesInv'
<1>1. PagesTypes /\ VersionsKnown
  BY DEF PagesInv
<1>2. PICK q \in Read : q = listRead[l] /\ q.pc = "sent"
  BY <1>1 DEF PagesTypes, ListProposals
<1>3. PICK r : r = [[q EXCEPT !.pc = "read"] EXCEPT !.version = version]
  OBVIOUS
<1>4. r \in Read /\ r.pc = "read" /\ r.tab = q.tab /\ r.version = version
  BY <1>1, <1>2, <1>3 DEF Read, PagesTypes
<1>5. listRead' = [listRead EXCEPT ![l] = r]
  BY <1>1, <1>2, <1>3 DEF ListProposals, PagesTypes, Read
<1>6. UNCHANGED <<page, badge, powerRead, sent, version, told, crossed>>
  BY DEF ListProposals
<1>7. \A n \in 1 .. ListReads :
          /\ ReadsUpTo(n) /\ ~crossed' /\ LastRead(listRead[n], page, told)
          => LastRead(IF n = l THEN r ELSE listRead[n], page, told)
  BY <1>1, <1>2, <1>4 DEF LastRead, VersionsKnown
<1>8. page \in Page /\ crossed' \in BOOLEAN
  BY <1>1, <1>6 DEF PagesTypes
<1> QED
  BY <1>2, <1>4, <1>5, <1>6, <1>7, <1>8, ListReadMoves

\* An answer is shown, and what is awaited after it is known.
LEMMA ShownKeeps ==
    ASSUME PagesInv, NEW l \in 1 .. ListReads, SetProposals(l)
    PROVE  PagesInv'
<1>1. PagesTypes /\ VersionsKnown
  BY DEF PagesInv
<1>2. PICK q \in Read : q = listRead[l] /\ q.pc \in {"sent", "read"}
  BY <1>1 DEF PagesTypes, SetProposals
<1>3. PICK r : r = [q EXCEPT !.pc = "done"]
  OBVIOUS
<1>4. r \in Read /\ r.pc = "done" /\ r.tab = q.tab
  BY <1>2, <1>3 DEF Read
<1>5. listRead' = [listRead EXCEPT ![l] = r]
  BY <1>1, <1>2, <1>3 DEF SetProposals, PagesTypes
<1>6. /\ UNCHANGED <<badge, powerRead, sent, version, told>>
      /\ crossed' = (crossed \/ Overtaken(l))
  BY DEF SetProposals
<1>7. crossed' \in BOOLEAN /\ (~crossed' => ~crossed /\ ~Overtaken(l))
  BY <1>1, <1>6 DEF PagesTypes
<1>8. PICK p \in Page :
        /\ page' = p /\ p.session = page.session /\ p.tab = page.tab
        /\ p.failed \/ (q.pc = "read" /\ p.listTab = q.tab /\ p.listVersion = q.version)
  <2>1. CASE /\ listRead[l].pc = "read"
             /\ page' = [page EXCEPT !.listTab = listRead[l].tab, !.added = FALSE,
                                     !.listVersion = listRead[l].version,
                                     !.loading = FALSE]
    <3>1. PICK p : p = [page EXCEPT !.listTab = q.tab, !.added = FALSE,
                                    !.listVersion = q.version, !.loading = FALSE]
      OBVIOUS
    <3>2. /\ p \in Page /\ p.session = page.session /\ p.tab = page.tab
          /\ p.listTab = q.tab /\ p.listVersion = q.version
      BY <1>1, <1>2, <3>1 DEF PagesTypes, Page, Read
    <3> QED
      BY <1>2, <2>1, <3>1, <3>2
  <2>2. CASE page' = [page EXCEPT !.failed = TRUE, !.loading = FALSE]
    <3>1. PICK p : p = [page EXCEPT !.failed = TRUE, !.loading = FALSE]
      OBVIOUS
    <3>2. p \in Page /\ p.session = page.session /\ p.tab = page.tab /\ p.failed
      BY <1>1, <3>1 DEF PagesTypes, Page
    <3> QED
      BY <2>2, <3>1, <3>2
  <2> QED
    BY <2>1, <2>2 DEF SetProposals
<1>9. ASSUME NEW n \in 1 .. ListReads,
             ReadsUpTo(n), ~crossed', LastRead(listRead[n], page, told)
      PROVE  LastRead(IF n = l THEN r ELSE listRead[n], p, told)
  <2>1. CASE n = l
    BY <1>2, <1>4, <1>8, <1>9, <2>1 DEF LastRead
  <2>2. CASE n # l
    <3>1. l <= n
      BY <1>2, <1>9 DEF ReadsUpTo
    <3>2. n \in l + 1 .. ListReads
      BY ONLY <2>2, <3>1, n \in 1 .. ListReads, l \in 1 .. ListReads, VotingPagesAssumption
    <3>3. listRead[n].pc # "done"
      BY <1>7, <1>9, <3>2 DEF Overtaken
    <3> QED
      BY <1>8, <1>9, <2>2, <3>3 DEF LastRead
  <2> QED
    BY <2>1, <2>2
<1> QED
  BY <1>2, <1>4, <1>5, <1>6, <1>7, <1>8, <1>9, ListReadMoves

\* Another session asks for its own power, and what was asked for the former is cancelled.
LEMMA SessionKeeps ==
    ASSUME PagesInv, NEW S \in SUBSET Sessions, NEW r \in 1 .. PowerReads, ChangeSession(S, r)
    PROVE  PagesInv'
<1>1. PagesTypes /\ BadgeIsOwn /\ ListIsLast /\ VersionsKnown
  BY DEF PagesInv
<1>2. page' = [page EXCEPT !.session = S] /\ UNCHANGED <<listRead, sent, version, told, crossed>>
  BY DEF ChangeSession
<1>3. PICK p \in Page :
        /\ page' = p /\ p.session = S /\ p.tab = page.tab /\ p.failed = page.failed
        /\ p.listTab = page.listTab /\ p.listVersion = page.listVersion
  BY <1>1, <1>2 DEF PagesTypes, Page
<1>4. PICK cut : cut = Cancelled(1 .. PowerReads)
  OBVIOUS
<1>5. /\ cut \in [1 .. PowerReads -> PowerRead]
      /\ \A o \in 1 .. PowerReads : cut[o].pc # "sent"
  <2>1. \A c \in PowerRead : /\ [c EXCEPT !.pc = "cancelled"] \in PowerRead
                             /\ [c EXCEPT !.pc = "cancelled"].pc = "cancelled"
    BY DEF PowerRead
  <2>2. \A o \in 1 .. PowerReads : powerRead[o] \in PowerRead
    BY <1>1 DEF PagesTypes
  <2> QED
    BY <1>4, <2>1, <2>2 DEF Cancelled
<1>6. /\ powerRead' \in [1 .. PowerReads -> PowerRead]
      /\ badge' \in [power : SUBSET Sessions, loading : BOOLEAN]
      /\ BadgeIsOwn'
  <2>1. CASE S = {}
    <3>1. powerRead' = cut /\ badge' = [badge EXCEPT !.power = {}]
      BY <1>4, <2>1 DEF ChangeSession
    <3>2. badge' \in [power : SUBSET Sessions, loading : BOOLEAN]
      BY <1>1, <3>1 DEF PagesTypes
    <3> QED
      BY <1>3, <1>5, <2>1, <3>1, <3>2 DEF BadgeIsOwn
  <2>2. CASE S # {}
    <3>1. PICK c : c = [pc |-> "sent", whose |-> S]
      OBVIOUS
    <3>2. c \in PowerRead /\ c.whose = S
      BY <3>1 DEF PowerRead
    <3>3. powerRead' = [cut EXCEPT ![r] = c] /\ badge' = [badge EXCEPT !.loading = TRUE]
      BY <1>4, <2>2, <3>1 DEF ChangeSession
    <3>4. badge' \in [power : SUBSET Sessions, loading : BOOLEAN] /\ badge'.loading
      BY <1>1, <3>3 DEF PagesTypes
    <3>5. /\ powerRead' \in [1 .. PowerReads -> PowerRead] /\ powerRead'[r] = c
          /\ \A o \in 1 .. PowerReads : o # r => powerRead'[o] = cut[o]
      BY <1>5, <3>2, <3>3
    <3> QED
      BY <1>3, <1>5, <3>2, <3>4, <3>5 DEF BadgeIsOwn
  <2> QED
    BY <2>1, <2>2
<1>7. PagesTypes' /\ VersionsKnown'
  BY <1>1, <1>2, <1>3, <1>6 DEF PagesTypes, VersionsKnown
<1>8. \A c \in Read : LastRead(c, page, told) => LastRead(c, p, told)
  BY <1>3 DEF LastRead
<1>9. \A n \in 1 .. ListReads : listRead[n] \in Read
  BY <1>1 DEF PagesTypes
<1>10. ListIsLast'
  BY <1>1, <1>2, <1>3, <1>8, <1>9 DEF ListIsLast, ReadsUpTo
<1> QED
  BY <1>6, <1>7, <1>10 DEF PagesInv

\* An answer about power is shown for the session that asked.
LEMMA PowerKeeps ==
    ASSUME PagesInv, NEW r \in 1 .. PowerReads, SetVotingPower(r)
    PROVE  PagesInv'
<1>1. PagesTypes /\ BadgeIsOwn /\ ListIsLast /\ VersionsKnown
  BY DEF PagesInv
<1>2. UNCHANGED <<page, listRead, sent, version, told, crossed>>
  BY DEF SetVotingPower
<1>3. PICK c \in PowerRead : c = powerRead[r]
  BY <1>1 DEF PagesTypes
<1>4. PICK d : d = [c EXCEPT !.pc = "done"]
  OBVIOUS
<1>5. d \in PowerRead /\ d.pc = "done"
  BY <1>3, <1>4 DEF PowerRead
<1>6. powerRead' = [powerRead EXCEPT ![r] = d]
  BY <1>1, <1>3, <1>4 DEF SetVotingPower, PagesTypes
<1>7. /\ powerRead' \in [1 .. PowerReads -> PowerRead] /\ powerRead'[r] = d
      /\ \A o \in 1 .. PowerReads : o # r => powerRead'[o] = powerRead[o]
  BY <1>1, <1>5, <1>6 DEF PagesTypes
<1>8. /\ badge' \in [power : SUBSET Sessions, loading : BOOLEAN]
      /\ ~badge'.loading /\ page.session # {} => badge'.power \subseteq page.session
  <2>1. CASE c.pc = "cancelled"
    BY <1>1, <1>3, <2>1 DEF SetVotingPower, PagesTypes, BadgeIsOwn
  <2>2. CASE c.pc # "cancelled"
    <3>1. PICK shown \in {{}, c.whose} : badge' = [power |-> shown, loading |-> FALSE]
      BY <1>3, <2>2 DEF SetVotingPower
    <3>2. c.whose = page.session /\ c.whose \subseteq Sessions
      BY <1>1, <1>3, <2>2 DEF SetVotingPower, BadgeIsOwn, PowerRead
    <3> QED
      BY <3>1, <3>2
  <2> QED
    BY <2>1, <2>2
<1>9. BadgeIsOwn'
  BY <1>1, <1>2, <1>5, <1>7, <1>8 DEF BadgeIsOwn
<1>10. PagesTypes' /\ VersionsKnown'
  BY <1>1, <1>2, <1>7, <1>8 DEF PagesTypes, VersionsKnown
<1>11. ListIsLast'
  BY <1>1, <1>2 DEF ListIsLast, ReadsUpTo
<1> QED
  BY <1>9, <1>10, <1>11 DEF PagesInv

\* Every step of the governance pages keeps the invariant.
LEMMA PagesStep ==
    ASSUME PagesInv, [PagesNext]_pagesVars
    PROVE  PagesInv'
<1>1. CASE \/ HandleVoteModalClose \/ Deselect \/ PowerAnswered \/ Choose
           \/ OpenCreate \/ CloseCreate \/ UNCHANGED pagesVars
           \/ \E active \in BOOLEAN : HandleVote(active)
           \/ \E s \in Sends : HandleCastVote(s) \/ HandleCreate(s)
  BY <1>1, ModalsKeep
<1>2. ASSUME NEW t \in Tabs, SetTab(t) PROVE PagesInv'
  BY <1>2, TabKeeps
<1>3. ASSUME NEW l \in 1 .. ListReads, ListProposals(l) \/ SetProposals(l) PROVE PagesInv'
  BY <1>3, ListKeeps, ShownKeeps
<1>4. ASSUME NEW S \in {{}} \cup {{w} : w \in Sessions}, NEW r \in 1 .. PowerReads,
             ChangeSession(S, r)
      PROVE  PagesInv'
  <2>1. S \in SUBSET Sessions
    OBVIOUS
  <2> QED
    BY <1>4, <2>1, SessionKeeps
<1>5. ASSUME NEW r \in 1 .. PowerReads, SetVotingPower(r) PROVE PagesInv'
  BY <1>5, PowerKeeps
<1>6. CASE Refresh
  BY <1>6, RefreshKeeps
<1>7. ASSUME NEW s \in Sends, ServerAnswers(s) \/ Accepted(s) \/ Refused(s) PROVE PagesInv'
  BY <1>7, AnswersKeep, AcceptedKeeps, RefusedKeeps
<1> QED
  BY <1>1, <1>2, <1>3, <1>4, <1>5, <1>6, <1>7 DEF PagesNext

\* The governance page shows no other wallet's power, and the list of its tab
\* as of what it was told last, however answers, tabs and sessions interleave
\* (VotingDashboard.jsx:211-286).
THEOREM PageAlwaysCurrent == PagesSpec => []PageIsCurrent
<1>1. PagesInit => PagesInv
  <2> SUFFICES ASSUME PagesInit PROVE PagesInv
    OBVIOUS
  <2>1. PagesTypes
    BY DEF PagesInit, PagesTypes, Page, PowerRead, Read, Sent, Tabs
  <2>2. BadgeIsOwn /\ VersionsKnown
    BY DEF PagesInit, BadgeIsOwn, VersionsKnown
  <2>3. 1 \in 1 .. ListReads /\ \A l \in 1 .. ListReads : l = 1 <=> l <= 1
    BY VotingPagesAssumption
  <2>4. ReadsUpTo(1)
    BY <2>3 DEF PagesInit, ReadsUpTo
  <2>5. LastRead(listRead[1], page, told)
    BY <2>3 DEF PagesInit, LastRead
  <2>6. ListIsLast
    BY <2>3, <2>4, <2>5 DEF ListIsLast
  <2> QED
    BY <2>1, <2>2, <2>6 DEF PagesInv
<1>2. PagesInv /\ [PagesNext]_pagesVars => PagesInv'
  BY PagesStep
<1>3. PagesInv => PageIsCurrent
  <2> SUFFICES ASSUME PagesInv PROVE PageIsCurrent
    OBVIOUS
  <2>1. PagesTypes /\ BadgeIsOwn /\ ListIsLast
    BY DEF PagesInv
  <2>2. PowerShownIsOwn
    BY <2>1 DEF PowerShownIsOwn, BadgeShows, BadgeIsOwn
  <2>3. ListIsCurrent
    <3> SUFFICES ASSUME \A l \in 1 .. ListReads : listRead[l].pc \in {"idle", "done"},
                        ~page.failed, ~crossed
                 PROVE  page.listTab = page.tab /\ page.listVersion >= told
      BY DEF ListIsCurrent
    <3>1. PICK n \in 1 .. ListReads : ReadsUpTo(n) /\ LastRead(listRead[n], page, told)
      BY <2>1 DEF ListIsLast
    <3>2. n <= n
      BY VotingPagesAssumption
    <3>3. listRead[n].pc = "done"
      BY <3>1, <3>2 DEF ReadsUpTo
    <3>4. told \in Nat /\ page.listVersion \in Nat
      BY <2>1 DEF PagesTypes, Page
    <3> QED
      BY <3>1, <3>3, <3>4 DEF LastRead
  <2> QED
    BY <2>2, <2>3 DEF PageIsCurrent
<1> QED
  BY <1>1, <1>2, <1>3, PTL DEF PagesSpec

-----------------------------------------------------------------------------
(* The dashboard.                                                            *)

DashboardSpec == DashboardInit /\ [][DashboardNext]_dashboardVars

DashboardTypes ==
    /\ address \subseteq Addresses /\ \A a \in address : address = {a}
    /\ shelf \in [tokens : Seq(Minted), loading : BOOLEAN]
    /\ fetch \in [1 .. Fetches -> FetchState] /\ mint \in [Minted -> MintState]
    /\ registry \in [Addresses -> SUBSET Minted]
    /\ unsettled \in BOOLEAN

ThemeHolds ==
    /\ ui \in [theme : Themes, resolved : {"light", "dark"}, listening : BOOLEAN]
    /\ ui.listening /\ system \in {"light", "dark"}
    /\ ui.resolved = ResolveTheme(ui.theme, system)

Lone(r) == Awaited(r) /\ r.alone
NoneAwaited(rs, S) == \A x \in S : ~Awaited(rs[x])

\* A request that ran alone so far is the only one on its way.
LoneIsAlone ==
    /\ \A f \in 1 .. Fetches : Lone(fetch[f]) =>
        NoneAwaited(fetch, (1 .. Fetches) \ {f}) /\ NoneAwaited(mint, Minted)
    /\ \A t \in Minted : Lone(mint[t]) =>
        NoneAwaited(fetch, 1 .. Fetches) /\ NoneAwaited(mint, Minted \ {t})

\* A fetch that ran alone is the connected wallet's, and read what there is.
OwnList(r) ==
    /\ address # {} => r.whose = address
    /\ r.pc = "read" => r.list = UNION {registry[a] : a \in r.whose}
LoneFetchIsOwn == \A f \in 1 .. Fetches : Lone(fetch[f]) => OwnList(fetch[f])

LoadingIsAwaited == shelf.loading => \E f \in 1 .. Fetches : Awaited(fetch[f])

NotYetStored ==
    \A t \in Minted : mint[t].pc \in {"idle", "sent"} => \A a \in Addresses : t \notin registry[a]

HasAll(ts, S) == ToSet(ts) = S /\ IsInjective(ts)

\* Of a wallet a with nothing on its way, or with one mint alone.
Settled ==
    ~unsettled => \A a \in address :
        /\ ~InFlight => HasAll(shelf.tokens, registry[a])
        /\ \A t \in Minted : Lone(mint[t]) =>
            /\ mint[t].whose = address /\ HasAll(shelf.tokens, registry[a] \ {t})
            /\ mint[t].pc = "stored" => t \in registry[a]

RequestsHold == LoneIsAlone /\ LoneFetchIsOwn /\ LoadingIsAwaited /\ NotYetStored /\ Settled

DashboardInv == DashboardTypes /\ ThemeHolds /\ RequestsHold

\* The list the store keeps of a finite set has each element once.
LEMMA SetToSeqHasAll ==
    ASSUME NEW S, IsFiniteSet(S)
    PROVE  SetToSeq(S) \in Seq(S) /\ HasAll(SetToSeq(S), S)
<1>1. PICK n : n = Cardinality(S)
  OBVIOUS
<1>2. n \in Nat /\ ExistsBijection(1 .. n, S)
  BY <1>1, FS_CardinalityType
<1>3. \E f \in [1 .. n -> S] : IsInjective(f)
  BY <1>2 DEF ExistsBijection, Bijection, Injection, IsInjective
<1>4. PICK g : g = SetToSeq(S)
  OBVIOUS
<1>5. g \in [1 .. n -> S] /\ IsInjective(g)
  BY <1>1, <1>3, <1>4 DEF SetToSeq
<1>6. g \in Injection(1 .. n, S)
  BY <1>5 DEF Injection, IsInjective
<1>7. Cardinality(1 .. n) = n
  <2>1. Cardinality(1 .. n) = IF 1 > n THEN 0 ELSE n - 1 + 1
    BY ONLY <1>2, FS_Interval
  <2> QED
    BY ONLY <1>2, <2>1
<1>8. g \in Surjection(1 .. n, S)
  BY <1>1, <1>6, <1>7, FS_Injection
<1>9. ToSet(g) = S
  BY <1>5, <1>8 DEF ToSet, Surjection
<1>10. g \in Seq(S)
  BY <1>2, <1>5
<1> QED
  BY <1>4, <1>5, <1>9, <1>10 DEF HasAll

\* A token that is not in the list yet joins it.
LEMMA AppendHasAll ==
    ASSUME NEW T, NEW s \in Seq(T), NEW t \in T, NEW S, HasAll(s, S), t \notin S
    PROVE  Append(s, t) \in Seq(T) /\ HasAll(Append(s, t), S \cup {t})
<1>1. PICK n \in Nat : n = Len(s) /\ DOMAIN s = 1 .. n
  OBVIOUS
<1>2. PICK u : u = Append(s, t)
  OBVIOUS
<1>3. /\ u \in Seq(T) /\ DOMAIN u = 1 .. n + 1 /\ u[n + 1] = t
      /\ \A i \in 1 .. n : u[i] = s[i]
  BY <1>1, <1>2
<1>4. \A i \in 1 .. n + 1 : i \in 1 .. n \/ i = n + 1
  BY ONLY n \in Nat
<1>5. \A i \in 1 .. n : i \in 1 .. n + 1
  BY ONLY n \in Nat
<1>6. n + 1 \in 1 .. n + 1
  BY ONLY n \in Nat
<1>7. \A i \in 1 .. n : s[i] \in S
  BY <1>1 DEF HasAll, ToSet
<1>8. ToSet(u) = S \cup {t}
  BY <1>1, <1>3, <1>4, <1>5, <1>6 DEF HasAll, ToSet
<1>9. IsInjective(u)
  <2> SUFFICES ASSUME NEW i \in 1 .. n + 1, NEW j \in 1 .. n + 1, u[i] = u[j] PROVE i = j
    BY <1>3 DEF IsInjective
  <2>1. CASE i \in 1 .. n /\ j \in 1 .. n
    BY <1>1, <1>3, <2>1 DEF HasAll, IsInjective
  <2>2. CASE i \notin 1 .. n \/ j \notin 1 .. n
    BY <1>3, <1>4, <1>7, <2>2
  <2> QED
    BY <2>1, <2>2
<1> QED
  BY <1>2, <1>3, <1>8, <1>9 DEF HasAll

\* What a request beside another, and one that is dropped, become.
LEMMA BesideFetch ==
    ASSUME NEW r \in FetchState
    PROVE  /\ Beside(r) \in FetchState /\ ~Lone(Beside(r))
           /\ (Awaited(Beside(r)) <=> Awaited(r))
<1>1. PICK b : b = [r EXCEPT !.alone = FALSE]
  OBVIOUS
<1>2. b \in FetchState /\ ~b.alone /\ b.pc = r.pc
  BY <1>1 DEF FetchState
<1> QED
  BY <1>1, <1>2 DEF Beside, Lone, Awaited

\* A mint that is no longer alone stays what it was otherwise.
LEMMA BesideMint ==
    ASSUME NEW r \in MintState
    PROVE  /\ Beside(r) \in MintState /\ ~Lone(Beside(r)) /\ Beside(r).pc = r.pc
           /\ (Awaited(Beside(r)) <=> Awaited(r))
<1>1. PICK b : b = [r EXCEPT !.alone = FALSE]
  OBVIOUS
<1>2. b \in MintState /\ ~b.alone /\ b.pc = r.pc
  BY <1>1 DEF MintState
<1> QED
  BY <1>1, <1>2 DEF Beside, Lone, Awaited

\* A fetch nobody waits for is awaited no more.
LEMMA DroppedFetch ==
    ASSUME NEW r \in FetchState
    PROVE  Dropped(r) \in FetchState /\ ~Awaited(Dropped(r))
<1>1. PICK b : b = [r EXCEPT !.pc = "done"]
  OBVIOUS
<1>2. b \in FetchState /\ b.pc = "done"
  BY <1>1 DEF FetchState
<1> QED
  BY <1>1, <1>2 DEF Dropped, Awaited

\* A mint nobody waits for is awaited no more.
LEMMA DroppedMint ==
    ASSUME NEW r \in MintState
    PROVE  /\ Dropped(r) \in MintState /\ ~Awaited(Dropped(r))
           /\ Dropped(r).pc \in {"idle", "sent"} => r.pc = "idle"
<1>1. PICK b : b = [r EXCEPT !.pc = "done"]
  OBVIOUS
<1>2. b \in MintState /\ b.pc = "done"
  BY <1>1 DEF MintState
<1> QED
  BY <1>1, <1>2 DEF Dropped, Awaited

\* The next request of the list is one of those there are.
LEMMA NextFetch ==
    ASSUME NEW n, n = Cardinality({f \in 1 .. Fetches : fetch[f].pc # "idle"}) + 1, n <= Fetches
    PROVE  n \in 1 .. Fetches
<1>1. PICK S : S = {f \in 1 .. Fetches : fetch[f].pc # "idle"}
  OBVIOUS
<1>2. S \in SUBSET (1 .. Fetches)
  BY <1>1
<1>3. IsFiniteSet(1 .. Fetches)
  BY DashboardAssumption, FS_Interval
<1>4. IsFiniteSet(S)
  BY ONLY <1>2, <1>3, FS_Subset
<1>5. PICK c \in Nat : c = Cardinality(S)
  BY <1>4, FS_CardinalityType
<1>6. n = c + 1 /\ n <= Fetches
  BY <1>1, <1>5
<1> QED
  BY ONLY <1>6, DashboardAssumption, c \in Nat

\* A fetch of the wallet begins: nothing is alone any more, but this one may be.
LEMMA FetchBegins ==
    ASSUME DashboardInv, NEW S \in SUBSET Addresses, S # {}, NEW n \in 1 .. Fetches,
           NEW b \in BOOLEAN, NEW fs \in [1 .. Fetches -> FetchState],
           NEW ms \in [Minted -> MintState], fetch' = fs, mint' = ms,
           fs[n] = [pc |-> "sent", whose |-> S, list |-> {}, alone |-> b],
           \A f \in 1 .. Fetches : f # n => ~Lone(fs[f]),
           \A t \in Minted : ~Lone(ms[t]),
           b => NoneAwaited(fs, (1 .. Fetches) \ {n}) /\ NoneAwaited(ms, Minted),
           \A t \in Minted : ms[t].pc \in {"idle", "sent"} => mint[t].pc \in {"idle", "sent"},
           address' = S, UNCHANGED registry
    PROVE  RequestsHold'
<1>1. NotYetStored /\ DashboardTypes
  BY DEF DashboardInv, RequestsHold
<1>2. Awaited(fs[n]) /\ fs[n].pc = "sent" /\ fs[n].whose = S /\ fs[n].alone = b
  BY DEF Awaited
<1>3. LoneIsAlone'
  BY <1>2 DEF LoneIsAlone, Lone
<1>4. LoneFetchIsOwn'
  BY <1>2 DEF LoneFetchIsOwn, OwnList
<1>5. LoadingIsAwaited'
  BY <1>2 DEF LoadingIsAwaited
<1>6. NotYetStored'
  BY <1>1 DEF NotYetStored
<1>7. InFlight'
  BY <1>2 DEF InFlight
<1>8. Settled'
  BY <1>7 DEF Settled
<1> QED
  BY <1>3, <1>4, <1>5, <1>6, <1>8 DEF RequestsHold

\* Connecting a wallet starts a fetch beside the requests under way.
LEMMA ConnectKeepsDashboard ==
    ASSUME DashboardInv, NEW a \in Addresses, ConnectWallet(a)
    PROVE  DashboardTypes' /\ RequestsHold'
<1>1. DashboardTypes
  BY DEF DashboardInv
<1>2. PICK n : n = Cardinality({f \in 1 .. Fetches : fetch[f].pc # "idle"}) + 1
  OBVIOUS
<1>3. /\ n <= Fetches
      /\ fetch' = [f \in 1 .. Fetches |->
            IF f = n THEN [pc |-> "sent", whose |-> {a}, list |-> {}, alone |-> ~InFlight]
            ELSE Beside(fetch[f])]
      /\ mint' = [t \in Minted |-> Beside(mint[t])]
      /\ shelf' = [shelf EXCEPT !.loading = TRUE]
      /\ address' = {a} /\ UNCHANGED <<registry, unsettled>>
  BY <1>2 DEF ConnectWallet, FetchTokens
<1>4. n \in 1 .. Fetches
  BY <1>2, <1>3, NextFetch
<1>5. PICK b \in BOOLEAN : b = ~InFlight
  OBVIOUS
<1>6. PICK r : r = [pc |-> "sent", whose |-> {a}, list |-> {}, alone |-> b]
  OBVIOUS
<1>7. r \in FetchState
  BY <1>6 DEF FetchState
<1>8. PICK fs : fs = [f \in 1 .. Fetches |-> IF f = n THEN r ELSE Beside(fetch[f])]
  OBVIOUS
<1>9. \A f \in 1 .. Fetches :
        /\ Beside(fetch[f]) \in FetchState /\ ~Lone(Beside(fetch[f]))
        /\ (Awaited(Beside(fetch[f])) <=> Awaited(fetch[f]))
  BY <1>1, BesideFetch DEF DashboardTypes
<1>10. fs \in [1 .. Fetches -> FetchState] /\ fetch' = fs /\ fs[n] = r
  BY <1>3, <1>4, <1>5, <1>6, <1>7, <1>8, <1>9
<1>11. PICK ms : ms = [t \in Minted |-> Beside(mint[t])]
  OBVIOUS
<1>12. \A t \in Minted :
        /\ Beside(mint[t]) \in MintState /\ ~Lone(Beside(mint[t]))
        /\ Beside(mint[t]).pc = mint[t].pc
        /\ (Awaited(Beside(mint[t])) <=> Awaited(mint[t]))
  BY <1>1, BesideMint DEF DashboardTypes
<1>13. ms \in [Minted -> MintState] /\ mint' = ms
  BY <1>3, <1>11, <1>12
<1>14. /\ \A f \in 1 .. Fetches : f # n => ~Lone(fs[f])
       /\ \A t \in Minted : ~Lone(ms[t])
       /\ \A t \in Minted : ms[t].pc \in {"idle", "sent"} => mint[t].pc \in {"idle", "sent"}
  BY <1>8, <1>9, <1>11, <1>12
<1>15. b => NoneAwaited(fs, (1 .. Fetches) \ {n}) /\ NoneAwaited(ms, Minted)
  BY <1>5, <1>8, <1>9, <1>11, <1>12 DEF InFlight, NoneAwaited
<1>16. {a} \in SUBSET Addresses /\ {a} # {}
  OBVIOUS
<1>17. RequestsHold'
  <2>1. fs[n] = [pc |-> "sent", whose |-> {a}, list |-> {}, alone |-> b]
    BY <1>6, <1>10
  <2>2. address' = {a} /\ registry' = registry
    BY <1>3
  <2> QED
    BY <1>4, <1>10, <1>13, <1>14, <1>15, <1>16, <2>1, <2>2, FetchBegins
<1>18. shelf' \in [tokens : Seq(Minted), loading : BOOLEAN]
  BY <1>1, <1>3 DEF DashboardTypes
<1>19. DashboardTypes'
  BY <1>1, <1>3, <1>10, <1>13, <1>16, <1>18 DEF DashboardTypes
<1> QED
  BY <1>17, <1>19

\* Disconnecting empties the address and starts nothing.
LEMMA DisconnectKeeps ==
    ASSUME DashboardInv, DisconnectWallet
    PROVE  DashboardTypes' /\ RequestsHold'
<1>1. DashboardTypes /\ LoneIsAlone /\ LoneFetchIsOwn /\ LoadingIsAwaited /\ NotYetStored
  BY DEF DashboardInv, RequestsHold
<1>2. address' = {} /\ UNCHANGED <<shelf, fetch, mint, registry, unsettled>>
  BY DEF DisconnectWallet
<1>3. DashboardTypes'
  BY <1>1, <1>2 DEF DashboardTypes
<1>4. LoneIsAlone' /\ LoadingIsAwaited' /\ NotYetStored'
  BY <1>1, <1>2 DEF LoneIsAlone, LoadingIsAwaited, NotYetStored
<1>5. LoneFetchIsOwn'
  BY <1>1, <1>2 DEF LoneFetchIsOwn, OwnList
<1>6. Settled'
  BY <1>2 DEF Settled
<1> QED
  BY <1>3, <1>4, <1>5, <1>6 DEF RequestsHold

\* A reload drops the requests under way and the stores with them.
LEMMA ReloadKeeps ==
    ASSUME DashboardInv, Reload
    PROVE  DashboardTypes' /\ RequestsHold'
<1>1. DashboardTypes /\ NotYetStored
  BY DEF DashboardInv, RequestsHold
<1>2. PICK n : n = Cardinality({f \in 1 .. Fetches : fetch[f].pc # "idle"}) + 1
  OBVIOUS
<1>3. /\ n <= Fetches
      /\ mint' = [t \in Minted |-> Dropped(mint[t])]
      /\ fetch' = [f \in 1 .. Fetches |->
            IF f = n /\ address # {}
            THEN [pc |-> "sent", whose |-> address, list |-> {}, alone |-> TRUE]
            ELSE Dropped(fetch[f])]
      /\ shelf' = [shelf EXCEPT !.loading = address # {}]
      /\ unsettled' = (unsettled \/ InFlight)
      /\ UNCHANGED <<address, registry>>
  BY <1>2 DEF Reload
<1>4. n \in 1 .. Fetches
  BY <1>2, <1>3, NextFetch
<1>5. \A f \in 1 .. Fetches : Dropped(fetch[f]) \in FetchState /\ ~Awaited(Dropped(fetch[f]))
  BY <1>1, DroppedFetch DEF DashboardTypes
<1>6. \A t \in Minted : /\ Dropped(mint[t]) \in MintState /\ ~Awaited(Dropped(mint[t]))
                        /\ Dropped(mint[t]).pc \in {"idle", "sent"} => mint[t].pc = "idle"
  BY <1>1, DroppedMint DEF DashboardTypes
<1>7. PICK ms : ms = [t \in Minted |-> Dropped(mint[t])]
  OBVIOUS
<1>8. /\ ms \in [Minted -> MintState] /\ mint' = ms /\ \A t \in Minted : ~Awaited(ms[t])
      /\ \A t \in Minted : ms[t].pc \in {"idle", "sent"} => mint[t].pc \in {"idle", "sent"}
  BY <1>3, <1>6, <1>7
<1>9. shelf' \in [tokens : Seq(Minted), loading : BOOLEAN] /\ (shelf'.loading <=> address # {})
  BY <1>1, <1>3 DEF DashboardTypes
<1>10. unsettled' \in BOOLEAN
  BY <1>1, <1>3 DEF DashboardTypes, InFlight
<1>11. CASE address # {}
  <2>1. PICK r : r = [pc |-> "sent", whose |-> address, list |-> {}, alone |-> TRUE]
    OBVIOUS
  <2>2. r \in FetchState
    BY <1>1, <2>1 DEF FetchState, DashboardTypes
  <2>3. PICK fs : fs = [f \in 1 .. Fetches |-> IF f = n THEN r ELSE Dropped(fetch[f])]
    OBVIOUS
  <2>4. /\ fs \in [1 .. Fetches -> FetchState] /\ fetch' = fs /\ fs[n] = r
        /\ \A f \in 1 .. Fetches : f # n => ~Awaited(fs[f])
    BY <1>3, <1>4, <1>5, <1>11, <2>1, <2>2, <2>3
  <2>5. /\ \A f \in 1 .. Fetches : f # n => ~Lone(fs[f])
        /\ \A t \in Minted : ~Lone(ms[t])
        /\ NoneAwaited(fs, (1 .. Fetches) \ {n}) /\ NoneAwaited(ms, Minted)
    BY <1>8, <2>4 DEF Lone, NoneAwaited
  <2>6. address \in SUBSET Addresses /\ TRUE \in BOOLEAN /\ address' = address
    BY <1>1, <1>3 DEF DashboardTypes
  <2>7. RequestsHold'
    <3>1. PICK S \in SUBSET Addresses : S = address /\ S # {} /\ address' = S
      BY <1>11, <2>6
    <3>2. fs[n] = [pc |-> "sent", whose |-> S, list |-> {}, alone |-> TRUE]
      BY <2>1, <2>4, <3>1
    <3>3. PICK b \in BOOLEAN : b = TRUE
      OBVIOUS
    <3>4. fs[n] = [pc |-> "sent", whose |-> S, list |-> {}, alone |-> b]
      BY <3>2, <3>3
    <3>5. registry' = registry
      BY <1>3
    <3> QED
      BY <1>4, <1>8, <2>4, <2>5, <3>1, <3>4, <3>5, FetchBegins
  <2>8. DashboardTypes'
    BY <1>1, <1>3, <1>8, <1>9, <1>10, <2>4 DEF DashboardTypes
  <2> QED
    BY <2>7, <2>8
<1>12. CASE address = {}
  <2>1. PICK fs : fs = [f \in 1 .. Fetches |-> Dropped(fetch[f])]
    OBVIOUS
  <2>2. /\ fs \in [1 .. Fetches -> FetchState] /\ fetch' = fs
        /\ \A f \in 1 .. Fetches : ~Awaited(fs[f])
    BY <1>3, <1>5, <1>12, <2>1
  <2>3. LoneIsAlone' /\ LoneFetchIsOwn'
    BY <1>8, <2>2 DEF LoneIsAlone, LoneFetchIsOwn, Lone
  <2>4. LoadingIsAwaited' /\ Settled'
    BY <1>3, <1>9, <1>12 DEF LoadingIsAwaited, Settled
  <2>5. NotYetStored'
    BY <1>1, <1>3, <1>8 DEF NotYetStored
  <2>6. DashboardTypes'
    BY <1>1, <1>3, <1>8, <1>9, <1>10, <2>2 DEF DashboardTypes
  <2> QED
    BY <2>3, <2>4, <2>5, <2>6 DEF RequestsHold
<1> QED
  BY <1>11, <1>12

\* The server's list is that of the moment of its answer.
LEMMA ListsKeeps ==
    ASSUME DashboardInv, NEW f \in 1 .. Fetches, ServerLists(f)
    PROVE  DashboardTypes' /\ RequestsHold'
<1>1. DashboardTypes /\ LoneIsAlone /\ LoneFetchIsOwn /\ NotYetStored /\ Settled
  BY DEF DashboardInv, RequestsHold
<1>2. PICK r \in FetchState : r = fetch[f] /\ r.pc = "sent"
  BY <1>1 DEF DashboardTypes, ServerLists
<1>3. PICK l : l = UNION {registry[a] : a \in r.whose}
  OBVIOUS
<1>4. l \in SUBSET Minted
  BY <1>1, <1>2, <1>3 DEF DashboardTypes, FetchState
<1>5. PICK q : q = [[r EXCEPT !.pc = "read"] EXCEPT !.list = l]
  OBVIOUS
<1>6. /\ q \in FetchState /\ q.pc = "read" /\ q.list = l /\ q.whose = r.whose
      /\ q.alone = r.alone
  BY <1>2, <1>4, <1>5 DEF FetchState
<1>7. /\ fetch' = [fetch EXCEPT ![f] = q]
      /\ UNCHANGED <<address, shelf, mint, registry, unsettled>>
  BY <1>1, <1>2, <1>3, <1>5 DEF ServerLists, DashboardTypes, FetchState
<1>8. /\ fetch' \in [1 .. Fetches -> FetchState] /\ fetch'[f] = q
      /\ \A g \in 1 .. Fetches : g # f => fetch'[g] = fetch[g]
  BY <1>1, <1>6, <1>7 DEF DashboardTypes
<1>9. Awaited(q) /\ Awaited(r) /\ (Lone(q) <=> Lone(r))
  BY <1>2, <1>6 DEF Awaited, Lone
<1>10. \A g \in 1 .. Fetches : /\ (Awaited(fetch'[g]) <=> Awaited(fetch[g]))
                               /\ (Lone(fetch'[g]) <=> Lone(fetch[g]))
  BY <1>2, <1>8, <1>9
<1>11. LoneIsAlone'
  BY <1>1, <1>7, <1>10 DEF LoneIsAlone, NoneAwaited
<1>12. LoneFetchIsOwn'
  <2> SUFFICES ASSUME NEW g \in 1 .. Fetches, Lone(fetch'[g]) PROVE OwnList(fetch[g])'
    BY DEF LoneFetchIsOwn
  <2>1. OwnList(fetch[g])
    BY <1>1, <1>10 DEF LoneFetchIsOwn
  <2>2. CASE g = f
    BY <1>2, <1>3, <1>6, <1>7, <1>8, <2>1, <2>2 DEF OwnList
  <2>3. CASE g # f
    BY <1>7, <1>8, <2>1, <2>3 DEF OwnList
  <2> QED
    BY <2>2, <2>3
<1>13. LoadingIsAwaited' /\ InFlight'
  BY <1>8, <1>9 DEF LoadingIsAwaited, InFlight
<1>14. Settled'
  BY <1>1, <1>7, <1>13 DEF Settled
<1>15. DashboardTypes' /\ NotYetStored'
  BY <1>1, <1>7, <1>8 DEF DashboardTypes, NotYetStored
<1> QED
  BY <1>11, <1>12, <1>13, <1>14, <1>15 DEF RequestsHold

\* A list that arrives replaces the tokens.
LEMMA TokensKeep ==
    ASSUME DashboardInv, NEW f \in 1 .. Fetches, SetTokens(f)
    PROVE  DashboardTypes' /\ RequestsHold'
<1>1. DashboardTypes /\ LoneIsAlone /\ LoneFetchIsOwn /\ NotYetStored
  BY DEF DashboardInv, RequestsHold
<1>2. PICK r \in FetchState : r = fetch[f]
  BY <1>1 DEF DashboardTypes
<1>3. PICK q : q = [r EXCEPT !.pc = "done"]
  OBVIOUS
<1>4. q \in FetchState /\ ~Awaited(q) /\ ~Lone(q) /\ Awaited(r)
  BY <1>2, <1>3 DEF FetchState, Awaited, Lone, SetTokens
<1>5. fetch' = [fetch EXCEPT ![f] = q] /\ UNCHANGED <<address, mint, registry>>
  BY <1>1, <1>2, <1>3 DEF SetTokens, DashboardTypes
<1>6. /\ fetch' \in [1 .. Fetches -> FetchState] /\ fetch'[f] = q
      /\ \A g \in 1 .. Fetches : g # f => fetch'[g] = fetch[g]
  BY <1>1, <1>4, <1>5 DEF DashboardTypes
<1>7. \A g \in 1 .. Fetches : /\ Awaited(fetch'[g]) => Awaited(fetch[g])
                              /\ Lone(fetch'[g]) => g # f /\ Lone(fetch[g])
  BY <1>4, <1>6
<1>8. LoneIsAlone'
  BY <1>1, <1>5, <1>7 DEF LoneIsAlone, NoneAwaited
<1>9. LoneFetchIsOwn'
  BY <1>1, <1>5, <1>6, <1>7 DEF LoneFetchIsOwn, OwnList
<1>10. NotYetStored'
  BY <1>1, <1>5 DEF NotYetStored
<1>11. CASE /\ r.pc = "read" /\ shelf' = Listed(f) /\ unsettled' = ~r.alone
  <2>1. r.list \subseteq Minted /\ r.alone \in BOOLEAN
    BY <1>2 DEF FetchState
  <2>2. IsFiniteSet(r.list)
    BY <2>1, DashboardAssumption, FS_Subset
  <2>3. PICK s : s = SetToSeq(r.list)
    OBVIOUS
  <2>4. s \in Seq(r.list) /\ HasAll(s, r.list)
    BY <2>2, <2>3, SetToSeqHasAll
  <2>5. s \in Seq(Minted)
    BY ONLY <2>1, <2>4
  <2>6. /\ shelf' \in [tokens : Seq(Minted), loading : BOOLEAN] /\ ~shelf'.loading
        /\ shelf'.tokens = s
    BY <1>2, <1>11, <2>3, <2>5 DEF Listed
  <2>7. DashboardTypes'
    BY <1>1, <1>5, <1>6, <1>11, <2>1, <2>6 DEF DashboardTypes
  <2>8. LoadingIsAwaited'
    BY <2>6 DEF LoadingIsAwaited
  <2>9. Settled'
    <3> SUFFICES ASSUME ~unsettled', NEW a \in address
                 PROVE  /\ HasAll(s, registry[a])
                        /\ \A t \in Minted : ~Lone(mint[t])
      BY <1>5, <2>6 DEF Settled
    <3>1. Lone(fetch[f])
      BY <1>2, <1>4, <1>11 DEF Lone
    <3>2. \A t \in Minted : ~Lone(mint[t])
      BY <1>1, <3>1 DEF LoneIsAlone, NoneAwaited, Lone
    <3>3. OwnList(r)
      BY <1>1, <1>2, <3>1 DEF LoneFetchIsOwn
    <3>4. r.whose = {a}
      BY <1>1, <3>3 DEF OwnList, DashboardTypes
    <3>5. r.list = UNION {registry[b] : b \in r.whose}
      BY <1>11, <3>3 DEF OwnList
    <3>6. r.list = registry[a]
      BY <3>4, <3>5
    <3> QED
      BY <2>4, <3>2, <3>6
  <2> QED
    BY <1>8, <1>9, <1>10, <2>7, <2>8, <2>9 DEF RequestsHold
<1>12. CASE shelf' = [shelf EXCEPT !.loading = FALSE] /\ unsettled' = TRUE
  <2>1. shelf' \in [tokens : Seq(Minted), loading : BOOLEAN] /\ ~shelf'.loading
    BY <1>1, <1>12 DEF DashboardTypes
  <2>2. DashboardTypes'
    BY <1>1, <1>5, <1>6, <1>12, <2>1 DEF DashboardTypes
  <2>3. LoadingIsAwaited' /\ Settled'
    BY <1>12, <2>1 DEF LoadingIsAwaited, Settled
  <2> QED
    BY <1>8, <1>9, <1>10, <2>2, <2>3 DEF RequestsHold
<1> QED
  BY <1>2, <1>11, <1>12 DEF SetTokens

\* A mint is sent for the wallet connected.
LEMMA SubmitKeeps ==
    ASSUME DashboardInv, NEW t \in Minted, HandleSubmitMint(t)
    PROVE  DashboardTypes' /\ RequestsHold'
<1>1. DashboardTypes /\ LoadingIsAwaited /\ NotYetStored /\ Settled
  BY DEF DashboardInv, RequestsHold
<1>2. PICK b \in BOOLEAN : b = ~InFlight
  OBVIOUS
<1>3. PICK r : r = [pc |-> "sent", whose |-> address, alone |-> b]
  OBVIOUS
<1>4. /\ r \in MintState /\ r.pc = "sent" /\ r.whose = address /\ Awaited(r)
      /\ (Lone(r) <=> b)
  BY <1>1, <1>3 DEF MintState, Awaited, Lone, DashboardTypes
<1>5. /\ mint[t].pc = "idle" /\ \A u \in Minted : ~Awaited(mint[u])
      /\ mint' = [mint EXCEPT ![t] = r]
      /\ fetch' = [f \in 1 .. Fetches |-> Beside(fetch[f])]
      /\ UNCHANGED <<address, shelf, registry, unsettled>>
  BY <1>2, <1>3 DEF HandleSubmitMint, MintDisabled
<1>6. \A f \in 1 .. Fetches :
        /\ Beside(fetch[f]) \in FetchState /\ ~Lone(Beside(fetch[f]))
        /\ (Awaited(Beside(fetch[f])) <=> Awaited(fetch[f]))
  BY <1>1, BesideFetch DEF DashboardTypes
<1>7. /\ fetch' \in [1 .. Fetches -> FetchState]
      /\ \A f \in 1 .. Fetches : ~Lone(fetch'[f]) /\ (Awaited(fetch'[f]) <=> Awaited(fetch[f]))
  BY <1>5, <1>6
<1>8. /\ mint' \in [Minted -> MintState] /\ mint'[t] = r
      /\ \A u \in Minted : u # t => mint'[u] = mint[u]
  BY <1>1, <1>4, <1>5 DEF DashboardTypes
<1>9. DashboardTypes'
  BY <1>1, <1>5, <1>7, <1>8 DEF DashboardTypes
<1>10. \A u \in Minted : Lone(mint'[u]) => u = t /\ b
  BY <1>4, <1>5, <1>8 DEF Lone
<1>11. LoneIsAlone'
  <2>1. b => NoneAwaited(fetch', 1 .. Fetches)
    BY <1>2, <1>7 DEF InFlight, NoneAwaited
  <2>2. NoneAwaited(mint', Minted \ {t})
    BY <1>5, <1>8 DEF NoneAwaited
  <2> QED
    BY <1>7, <1>10, <2>1, <2>2 DEF LoneIsAlone
<1>12. LoneFetchIsOwn' /\ LoadingIsAwaited'
  BY <1>1, <1>5, <1>7 DEF LoneFetchIsOwn, LoadingIsAwaited
<1>13. NotYetStored'
  BY <1>1, <1>5, <1>8 DEF NotYetStored
<1>14. InFlight'
  BY <1>4, <1>8 DEF InFlight
<1>15. Settled'
  <2> SUFFICES ASSUME ~unsettled, NEW a \in address, NEW u \in Minted, Lone(mint'[u])
               PROVE  /\ mint'[u].whose = address
                      /\ HasAll(shelf.tokens, registry[a] \ {u})
                      /\ mint'[u].pc # "stored"
    BY <1>5, <1>14 DEF Settled
  <2>1. u = t /\ ~InFlight
    BY <1>2, <1>10
  <2>2. HasAll(shelf.tokens, registry[a])
    BY <1>1, <2>1 DEF Settled
  <2>3. a \in Addresses
    BY <1>1 DEF DashboardTypes
  <2>4. t \notin registry[a]
    BY <1>1, <1>5, <2>3 DEF NotYetStored
  <2>5. registry[a] \ {t} = registry[a]
    BY <2>4
  <2> QED
    BY <1>4, <1>8, <2>1, <2>2, <2>5
<1> QED
  BY <1>9, <1>11, <1>12, <1>13, <1>15 DEF RequestsHold

\* The server stores a minted token once.
LEMMA StoresKeeps ==
    ASSUME DashboardInv, NEW t \in Minted, ServerStores(t)
    PROVE  DashboardTypes' /\ RequestsHold'
<1>1. DashboardTypes /\ LoneIsAlone /\ LoadingIsAwaited /\ NotYetStored /\ Settled
  BY DEF DashboardInv, RequestsHold
<1>2. PICK r \in MintState : r = mint[t] /\ r.pc = "sent"
  BY <1>1 DEF DashboardTypes, ServerStores
<1>3. PICK q : q = [r EXCEPT !.pc = "stored"]
  OBVIOUS
<1>4. /\ q \in MintState /\ q.pc = "stored" /\ q.whose = r.whose /\ Awaited(q) /\ Awaited(r)
      /\ (Lone(q) <=> Lone(r))
  BY <1>2, <1>3 DEF MintState, Awaited, Lone
<1>5. /\ mint' = [mint EXCEPT ![t] = q]
      /\ UNCHANGED <<address, shelf, fetch, unsettled>>
  BY <1>1, <1>2, <1>3 DEF ServerStores, DashboardTypes
<1>6. /\ mint' \in [Minted -> MintState] /\ mint'[t] = q
      /\ \A u \in Minted : u # t => mint'[u] = mint[u]
  BY <1>1, <1>4, <1>5 DEF DashboardTypes
<1>7. PICK reg : reg = [a \in Addresses |-> registry[a] \cup IF a \in r.whose THEN {t} ELSE {}]
  OBVIOUS
<1>8. /\ registry' = reg /\ reg \in [Addresses -> SUBSET Minted]
      /\ \A a \in Addresses : /\ a \in r.whose => reg[a] = registry[a] \cup {t}
                              /\ a \notin r.whose => reg[a] = registry[a]
  BY <1>1, <1>2, <1>7 DEF ServerStores, DashboardTypes
<1>9. DashboardTypes'
  BY <1>1, <1>5, <1>6, <1>8 DEF DashboardTypes
<1>10. \A u \in Minted : /\ (Awaited(mint'[u]) <=> Awaited(mint[u]))
                         /\ (Lone(mint'[u]) <=> Lone(mint[u]))
  BY <1>2, <1>4, <1>6
<1>11. \A f \in 1 .. Fetches : ~Lone(fetch[f])
  BY <1>1, <1>2, <1>4 DEF LoneIsAlone, NoneAwaited
<1>12. LoneIsAlone'
  BY <1>1, <1>5, <1>10 DEF LoneIsAlone, NoneAwaited
<1>13. LoneFetchIsOwn' /\ LoadingIsAwaited'
  BY <1>1, <1>5, <1>11 DEF LoneFetchIsOwn, LoadingIsAwaited
<1>14. NotYetStored'
  <2> SUFFICES ASSUME NEW u \in Minted, mint'[u].pc \in {"idle", "sent"}, NEW a \in Addresses
               PROVE  u \notin reg[a]
    BY <1>8 DEF NotYetStored
  <2>1. u # t
    BY <1>4, <1>6
  <2>2. u \notin registry[a]
    BY <1>1, <1>6, <2>1 DEF NotYetStored
  <2> QED
    BY <1>8, <2>1, <2>2
<1>15. InFlight'
  BY <1>4, <1>6 DEF InFlight
<1>16. Settled'
  <2> SUFFICES ASSUME ~unsettled, NEW a \in address, NEW u \in Minted, Lone(mint'[u])
               PROVE  /\ mint'[u].whose = address
                      /\ HasAll(shelf.tokens, reg[a] \ {u})
                      /\ mint'[u].pc = "stored" => u \in reg[a]
    BY <1>5, <1>8, <1>15 DEF Settled
  <2>1. u = t /\ Lone(mint[t])
    BY <1>1, <1>2, <1>4, <1>10 DEF LoneIsAlone, NoneAwaited
  <2>2. r.whose = address /\ HasAll(shelf.tokens, registry[a] \ {t})
    BY <1>1, <1>2, <2>1 DEF Settled
  <2>3. a \in Addresses
    BY <1>1 DEF DashboardTypes
  <2>4. reg[a] = registry[a] \cup {t}
    BY <1>8, <2>2, <2>3
  <2>5. reg[a] \ {t} = registry[a] \ {t} /\ t \in reg[a]
    BY <2>4
  <2> QED
    BY <1>4, <1>6, <2>1, <2>2, <2>5
<1> QED
  BY <1>9, <1>12, <1>13, <1>14, <1>16 DEF RequestsHold

\* A minted token is added to the list that is shown.
LEMMA AddKeeps ==
    ASSUME DashboardInv, NEW t \in Minted, AddToken(t)
    PROVE  DashboardTypes' /\ RequestsHold'
<1>1. DashboardTypes /\ LoneIsAlone /\ LoneFetchIsOwn /\ LoadingIsAwaited /\ NotYetStored /\ Settled
  BY DEF DashboardInv, RequestsHold
<1>2. PICK r \in MintState : r = mint[t] /\ Awaited(r)
  BY <1>1 DEF DashboardTypes, AddToken
<1>3. PICK q : q = [r EXCEPT !.pc = "done"]
  OBVIOUS
<1>4. q \in MintState /\ q.pc = "done" /\ ~Awaited(q) /\ ~Lone(q)
  BY <1>2, <1>3 DEF MintState, Awaited, Lone
<1>5. mint' = [mint EXCEPT ![t] = q] /\ UNCHANGED <<address, fetch, registry>>
  BY <1>1, <1>2, <1>3 DEF AddToken, DashboardTypes
<1>6. /\ mint' \in [Minted -> MintState] /\ mint'[t] = q
      /\ \A u \in Minted : u # t => mint'[u] = mint[u]
  BY <1>1, <1>4, <1>5 DEF DashboardTypes
<1>7. \A u \in Minted : /\ Awaited(mint'[u]) => Awaited(mint[u])
                        /\ Lone(mint'[u]) => u # t /\ Lone(mint[u])
  BY <1>4, <1>6
<1>8. LoneIsAlone'
  BY <1>1, <1>5, <1>7 DEF LoneIsAlone, NoneAwaited
<1>9. LoneFetchIsOwn'
  BY <1>1, <1>5 DEF LoneFetchIsOwn, OwnList
<1>10. NotYetStored'
  BY <1>1, <1>4, <1>5, <1>6 DEF NotYetStored
<1>11. CASE /\ r.pc = "stored" /\ shelf' = [shelf EXCEPT !.tokens = Added(t)]
            /\ unsettled' = (unsettled \/ ~r.alone \/ r.whose # address)
  <2>1. PICK s : s = Append(shelf.tokens, t)
    OBVIOUS
  <2>2. s \in Seq(Minted)
    BY <1>1, <2>1 DEF DashboardTypes
  <2>3. /\ shelf' \in [tokens : Seq(Minted), loading : BOOLEAN]
        /\ shelf'.tokens = s /\ shelf'.loading = shelf.loading
    BY <1>1, <1>11, <2>1, <2>2 DEF DashboardTypes, Added
  <2>4. unsettled' \in BOOLEAN
    BY <1>11
  <2>5. DashboardTypes' /\ LoadingIsAwaited'
    BY <1>1, <1>5, <1>6, <2>3, <2>4 DEF DashboardTypes, LoadingIsAwaited
  <2>6. Settled'
    <3> SUFFICES ASSUME ~unsettled', NEW a \in address
                 PROVE  /\ HasAll(s, registry[a])
                        /\ \A u \in Minted : ~Lone(mint'[u])
      BY <1>5, <2>3 DEF Settled
    <3>1. ~unsettled /\ r.alone /\ r.whose = address
      BY <1>11
    <3>2. Lone(mint[t])
      BY <1>2, <3>1 DEF Lone
    <3>3. \A u \in Minted : ~Lone(mint'[u])
      BY <1>1, <1>7, <3>2 DEF LoneIsAlone, NoneAwaited, Lone
    <3>4. HasAll(shelf.tokens, registry[a] \ {t}) /\ t \in registry[a]
      BY <1>1, <1>2, <1>11, <3>1, <3>2 DEF Settled
    <3>5. shelf.tokens \in Seq(Minted) /\ t \notin registry[a] \ {t}
      BY <1>1 DEF DashboardTypes
    <3>6. HasAll(s, (registry[a] \ {t}) \cup {t})
      BY <2>1, <3>4, <3>5, AppendHasAll
    <3>7. (registry[a] \ {t}) \cup {t} = registry[a]
      BY <3>4
    <3> QED
      BY <3>3, <3>6, <3>7
  <2> QED
    BY <1>8, <1>9, <1>10, <2>5, <2>6 DEF RequestsHold
<1>12. CASE UNCHANGED shelf /\ unsettled' = TRUE
  <2>1. DashboardTypes'
    BY <1>1, <1>5, <1>6, <1>12 DEF DashboardTypes
  <2>2. LoadingIsAwaited' /\ Settled'
    BY <1>1, <1>5, <1>12 DEF LoadingIsAwaited, Settled
  <2> QED
    BY <1>8, <1>9, <1>10, <2>1, <2>2 DEF RequestsHold
<1> QED
  BY <1>2, <1>11, <1>12 DEF AddToken

\* The theme resolves to what is chosen, or to what the system prefers.
LEMMA ThemeSet ==
    ASSUME ThemeHolds, NEW theme \in Themes, NEW preferred \in {"light", "dark"}
    PROVE  LET u == SetTheme(theme, preferred)
           IN  /\ u \in [theme : Themes, resolved : {"light", "dark"}, listening : BOOLEAN]
               /\ u.theme = theme /\ u.resolved = ResolveTheme(theme, preferred) /\ u.listening
<1>1. ResolveTheme(theme, preferred) \in {"light", "dark"}
  BY DEF ResolveTheme, Themes
<1>2. PICK c : c = ResolveTheme(theme, preferred)
  OBVIOUS
<1>3. PICK u : u = [[ui EXCEPT !.theme = theme] EXCEPT !.resolved = c]
  OBVIOUS
<1>4. /\ u \in [theme : Themes, resolved : {"light", "dark"}, listening : BOOLEAN]
      /\ u.theme = theme /\ u.resolved = c /\ u.listening
  BY <1>1, <1>2, <1>3 DEF ThemeHolds
<1>5. SetTheme(theme, preferred) = u
  BY <1>2, <1>3 DEF SetTheme, ThemeHolds
<1> QED
  BY <1>2, <1>4, <1>5

\* Theme, stored choice and toggle agree after every step.
LEMMA ThemeKeeps ==
    ASSUME ThemeHolds, [DashboardNext]_dashboardVars
    PROVE  ThemeHolds'
<1>1. /\ ui \in [theme : Themes, resolved : {"light", "dark"}, listening : BOOLEAN]
      /\ ui.listening /\ system \in {"light", "dark"}
      /\ ui.resolved = ResolveTheme(ui.theme, system) /\ ui.theme \in Themes
  BY DEF ThemeHolds
<1>2. CASE UNCHANGED <<ui, system>>
  BY <1>2 DEF ThemeHolds
<1>3. CASE ui' = InitTheme /\ UNCHANGED system
  <2>1. PICK u : u = SetTheme(ui.theme, system)
    OBVIOUS
  <2>2. /\ u \in [theme : Themes, resolved : {"light", "dark"}, listening : BOOLEAN]
        /\ u.theme = ui.theme /\ u.resolved = ResolveTheme(ui.theme, system)
    BY <1>1, <2>1, ThemeSet
  <2>3. ui' = [u EXCEPT !.listening = TRUE]
    BY <1>3, <2>1 DEF InitTheme
  <2>4. /\ ui' \in [theme : Themes, resolved : {"light", "dark"}, listening : BOOLEAN]
        /\ ui'.theme = u.theme /\ ui'.resolved = u.resolved /\ ui'.listening
    BY <2>2, <2>3
  <2> QED
    BY <1>1, <1>3, <2>2, <2>4 DEF ThemeHolds
<1>4. CASE ToggleTheme
  <2>1. PICK theme \in Themes : ui' = SetTheme(theme, system) /\ UNCHANGED system
    BY <1>1, <1>4 DEF ToggleTheme, Themes
  <2>2. LET u == SetTheme(theme, system)
        IN  /\ u \in [theme : Themes, resolved : {"light", "dark"}, listening : BOOLEAN]
            /\ u.theme = theme /\ u.resolved = ResolveTheme(theme, system) /\ u.listening
    BY <1>1, ThemeSet
  <2> QED
    BY <1>1, <2>1, <2>2 DEF ThemeHolds
<1>5. CASE HandleChange
  <2>1. PICK s \in {"light", "dark"} : system' = s
    BY <1>5 DEF HandleChange
  <2>2. CASE ui.theme = "system"
    <3>1. ui' = SetTheme("system", s)
      BY <1>1, <1>5, <2>1, <2>2 DEF HandleChange
    <3>2. "system" \in Themes
      BY DEF Themes
    <3>3. LET u == SetTheme("system", s)
          IN  /\ u \in [theme : Themes, resolved : {"light", "dark"}, listening : BOOLEAN]
              /\ u.theme = "system" /\ u.resolved = ResolveTheme("system", s) /\ u.listening
      BY <3>2, ThemeSet
    <3> QED
      BY <2>1, <3>1, <3>3 DEF ThemeHolds
  <2>3. CASE ui.theme # "system"
    <3>1. ui' = ui
      BY <1>5, <2>3 DEF HandleChange
    <3> QED
      BY <1>1, <2>1, <2>3, <3>1 DEF ThemeHolds, ResolveTheme
  <2> QED
    BY <2>2, <2>3
<1> QED
  BY <1>2, <1>3, <1>4, <1>5
     DEF DashboardNext, dashboardVars, ConnectWallet, DisconnectWallet, Reload, ServerLists,
         SetTokens, HandleSubmitMint, ServerStores, AddToken

\* Every step of the dashboard keeps the invariant.
LEMMA DashboardStep ==
    ASSUME DashboardInv, [DashboardNext]_dashboardVars
    PROVE  DashboardInv'
<1>1. DashboardTypes /\ RequestsHold /\ ThemeHolds
  BY DEF DashboardInv
<1>2. ThemeHolds'
  BY <1>1, ThemeKeeps
<1>3. ASSUME UNCHANGED <<address, shelf, fetch, mint, registry, unsettled>>
      PROVE  DashboardTypes' /\ RequestsHold'
  <2>1. DashboardTypes'
    BY <1>1, <1>3 DEF DashboardTypes
  <2>2. LoneIsAlone' /\ LoneFetchIsOwn' /\ LoadingIsAwaited' /\ NotYetStored'
    BY <1>1, <1>3
       DEF RequestsHold, LoneIsAlone, LoneFetchIsOwn, OwnList, LoadingIsAwaited, NotYetStored
  <2>3. InFlight' = InFlight
    BY <1>3 DEF InFlight
  <2>4. Settled'
    BY <1>1, <1>3, <2>3 DEF RequestsHold, Settled
  <2> QED
    BY <2>1, <2>2, <2>4 DEF RequestsHold
<1>4. ASSUME NEW a \in Addresses, ConnectWallet(a) PROVE DashboardTypes' /\ RequestsHold'
  BY <1>4, ConnectKeepsDashboard
<1>5. ASSUME NEW f \in 1 .. Fetches, ServerLists(f) \/ SetTokens(f)
      PROVE  DashboardTypes' /\ RequestsHold'
  BY <1>5, ListsKeeps, TokensKeep
<1>6. ASSUME NEW t \in Minted, HandleSubmitMint(t) \/ ServerStores(t) \/ AddToken(t)
      PROVE  DashboardTypes' /\ RequestsHold'
  BY <1>6, SubmitKeeps, StoresKeeps, AddKeeps
<1>7. ASSUME DisconnectWallet \/ Reload PROVE DashboardTypes' /\ RequestsHold'
  BY <1>7, DisconnectKeeps, ReloadKeeps
<1>8. ASSUME ToggleTheme \/ HandleChange \/ UNCHANGED dashboardVars
      PROVE  DashboardTypes' /\ RequestsHold'
  BY <1>3, <1>8 DEF ToggleTheme, HandleChange, dashboardVars
<1>9. DashboardTypes' /\ RequestsHold'
  BY <1>4, <1>5, <1>6, <1>7, <1>8 DEF DashboardNext
<1> QED
  BY <1>2, <1>9 DEF DashboardInv

\* With nothing on its way the dashboard shows the connected wallet each of its
\* tokens once, and the theme that was chosen (App.jsx:313-327, store/index.js).
THEOREM DashboardAlwaysCurrent == DashboardSpec => []DashboardIsCurrent
<1>1. DashboardInit => DashboardInv
  <2> SUFFICES ASSUME DashboardInit PROVE DashboardInv
    OBVIOUS
  <2>1. <<>> \in Seq(Minted)
    OBVIOUS
  <2>2. DashboardTypes
    BY <2>1 DEF DashboardInit, DashboardTypes, FetchState, MintState
  <2>3. ThemeHolds
    BY DEF DashboardInit, ThemeHolds, ResolveTheme, Themes
  <2>4. /\ \A f \in 1 .. Fetches : ~Awaited(fetch[f])
        /\ \A t \in Minted : ~Awaited(mint[t])
    BY DEF DashboardInit, Awaited
  <2>5. LoneIsAlone /\ LoneFetchIsOwn
    BY <2>4 DEF LoneIsAlone, LoneFetchIsOwn, Lone
  <2>6. LoadingIsAwaited /\ NotYetStored /\ Settled
    BY DEF DashboardInit, LoadingIsAwaited, NotYetStored, Settled
  <2> QED
    BY <2>2, <2>3, <2>5, <2>6 DEF DashboardInv, RequestsHold
<1>2. DashboardInv /\ [DashboardNext]_dashboardVars => DashboardInv'
  BY DashboardStep
<1>3. DashboardInv => DashboardIsCurrent
  <2> SUFFICES ASSUME DashboardInv PROVE DashboardIsCurrent
    OBVIOUS
  <2>1. /\ LoadingIsAwaited /\ Settled /\ ui.resolved = ResolveTheme(ui.theme, system)
    BY DEF DashboardInv, RequestsHold, ThemeHolds
  <2>2. ASSUME NEW a \in address, ~InFlight, ~unsettled
        PROVE  ToSet(AssetsShown) = registry[a] /\ IsInjective(AssetsShown)
    <3>1. HasAll(shelf.tokens, registry[a])
      BY <2>1, <2>2 DEF Settled
    <3>2. ~shelf.loading
      BY <2>1, <2>2 DEF LoadingIsAwaited, InFlight
    <3>3. AssetsShown = shelf.tokens
      BY <3>2 DEF AssetsShown
    <3> QED
      BY <3>1, <3>3 DEF HasAll
  <2> QED
    BY <2>1, <2>2 DEF DashboardIsCurrent
<1> QED
  BY <1>1, <1>2, <1>3, PTL DEF DashboardSpec

\* The two pages together: what is shown is that of the session, the tab and
\* the wallet there is now (VotingDashboard.jsx:211-286, store/index.js:45-64).
THEOREM PagesAlwaysCurrent == PagesSpec /\ DashboardSpec => []PagesAreCurrent
<1>1. PageIsCurrent /\ DashboardIsCurrent => PagesAreCurrent
  BY DEF PagesAreCurrent
<1> QED
  BY <1>1, PageAlwaysCurrent, DashboardAlwaysCurrent, PTL

=============================================================================
