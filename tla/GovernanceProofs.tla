-------------------------- MODULE GovernanceProofs --------------------------
(***************************************************************************)
(* Theorems about the timelock for any numbers of factories, proxies and   *)
(* hashes, any delay and any number of queued operations; and about the    *)
(* upgrade pipeline for any lists of signers and any thresholds.           *)
(***************************************************************************)
EXTENDS MCGovernance, FiniteSetTheorems, TLAPS

Entry == [op : Operations, eta : Etas, at : 0 .. MaxTime, target : Factories \cup Proxies]

\* The part of the type invariant the proofs below rest on.
LogTypeOK ==
    /\ now \in 0 .. MaxTime
    /\ pending \subseteq Operations \X Etas
    /\ execLog \in Seq(Entry)

\* What is pending was queued, with the delay its eta stands for.
PendingWasQueued ==
    \A e \in pending : \E q \in queueLog :
        q.op = e[1] /\ q.eta = e[2] /\ e[2] >= q.at + Delay /\ q.at \in Int

\* What was executed is due and no longer pending.  Being due is what keeps a
\* later queue_operation from handing out the same eta again.
ExecutedIsGone ==
    \A i \in DOMAIN execLog :
        /\ execLog[i].eta <= now
        /\ <<execLog[i].op, execLog[i].eta>> \notin pending

IInv == LogTypeOK /\ PendingWasQueued /\ ExecutedIsGone /\ DelayRespected /\ ExecutedOnce

-----------------------------------------------------------------------------
\* Nothing is pending at first.
LEMMA InitEstablishes == ASSUME TimelockInit PROVE IInv
  BY TimelockAssumption
  DEF TimelockInit, IInv, LogTypeOK, PendingWasQueued, ExecutedIsGone, DelayRespected,
      ExecutedOnce, Entry

\* Time alone makes nothing due that was not queued its delay ago.
LEMMA TickStep == ASSUME IInv, Tick PROVE IInv'
  <1>1. now < MaxTime /\ now' = now + 1 /\ UNCHANGED <<pending, queueLog, execLog>>
    BY DEF Tick
  <1>2. LogTypeOK'
    BY <1>1, TimelockAssumption DEF IInv, LogTypeOK
  <1>3. ExecutedIsGone'
    <2> SUFFICES ASSUME NEW i \in DOMAIN execLog
                 PROVE  execLog[i].eta <= now + 1 /\ <<execLog[i].op, execLog[i].eta>> \notin pending
      BY <1>1 DEF ExecutedIsGone
    <2>1. execLog[i] \in Entry
      BY DEF IInv, LogTypeOK
    <2>2. execLog[i].eta \in Int /\ now \in Int
      BY <2>1, TimelockAssumption DEF Entry, Etas, IInv, LogTypeOK
    <2>3. execLog[i].eta <= now /\ <<execLog[i].op, execLog[i].eta>> \notin pending
      BY DEF IInv, ExecutedIsGone
    <2> QED
      BY <2>2, <2>3
  <1>4. PendingWasQueued' /\ DelayRespected' /\ ExecutedOnce'
    BY <1>1 DEF IInv, PendingWasQueued, DelayRespected, ExecutedOnce
  <1> QED
    BY <1>2, <1>3, <1>4 DEF IInv

\* Queueing logs the entry it makes pending, with an eta at least the delay ahead.
LEMMA QueueStep == ASSUME IInv, NEW op \in Operations, QueueOperation(op) PROVE IInv'
  <1> DEFINE eta == now + Delay
             q == [op |-> op, eta |-> eta, at |-> now]
  <1>1. /\ pending' = pending \cup {<<op, eta>>} /\ queueLog' = queueLog \cup {q}
        /\ UNCHANGED <<now, execLog>>
    BY DEF QueueOperation, EtaOf
  <1>2. now \in Int /\ eta \in Etas /\ eta > now
    BY TimelockAssumption DEF IInv, LogTypeOK, Etas
  <1>3. LogTypeOK'
    BY <1>1, <1>2 DEF IInv, LogTypeOK
  <1>4. PendingWasQueued'
    <2> SUFFICES ASSUME NEW e \in pending'
                 PROVE  \E r \in queueLog' :
                          r.op = e[1] /\ r.eta = e[2] /\ e[2] >= r.at + Delay /\ r.at \in Int
      BY DEF PendingWasQueued
    <2>1. CASE e \in pending
      BY <2>1, <1>1 DEF IInv, PendingWasQueued
    <2>2. CASE e = <<op, eta>>
      <3>1. q \in queueLog' /\ q.op = e[1] /\ q.eta = e[2] /\ q.at = now
        BY <2>2, <1>1
      <3> HIDE DEF q
      <3> QED
        BY <3>1, <2>2, <1>2, TimelockAssumption
    <2> QED
      BY <2>1, <2>2, <1>1
  <1>5. ExecutedIsGone'
    BY <1>1, <1>2 DEF IInv, LogTypeOK, ExecutedIsGone, Entry, Etas
  <1>6. DelayRespected'
    BY <1>1 DEF IInv, DelayRespected
  <1>7. ExecutedOnce'
    BY <1>1 DEF IInv, ExecutedOnce
  <1> QED
    BY <1>3, <1>4, <1>5, <1>6, <1>7 DEF IInv

\* Cancelling only takes an entry away.
LEMMA CancelStep ==
    ASSUME IInv, NEW op \in Operations, NEW eta \in Etas, CancelOperation(op, eta)
    PROVE  IInv'
  BY DEF CancelOperation, PendingWithout, IInv, LogTypeOK, PendingWasQueued, ExecutedIsGone,
         DelayRespected, ExecutedOnce

\* An execution takes a due entry away and logs it.
LEMMA DequeueStep ==
    ASSUME IInv, NEW op \in Operations, NEW eta \in Etas,
           NEW target \in Factories \cup Proxies, Dequeue(op, eta, target)
    PROVE  IInv'
  <1> DEFINE x == [op |-> op, eta |-> eta, at |-> now, target |-> target]
  <1>1. /\ <<op, eta>> \in pending /\ now >= eta
        /\ pending' = pending \ {<<op, eta>>}
        /\ execLog' = Append(execLog, x)
        /\ UNCHANGED <<now, queueLog>>
    BY DEF Dequeue, Due, PendingWithout
  <1>2. now \in Int /\ eta \in Int /\ now \in 0 .. MaxTime
    BY TimelockAssumption DEF IInv, LogTypeOK, Etas
  <1>3. x \in Entry
    BY <1>2 DEF Entry
  <1>4. /\ execLog' \in Seq(Entry) /\ execLog \in Seq(Entry)
        /\ DOMAIN execLog = 1 .. Len(execLog)
        /\ DOMAIN execLog' = 1 .. Len(execLog) + 1
        /\ execLog'[Len(execLog) + 1] = x
        /\ \A i \in DOMAIN execLog : execLog'[i] = execLog[i]
    BY <1>1, <1>3 DEF IInv, LogTypeOK
  <1>5. \A i \in DOMAIN execLog' :
          \/ i \in DOMAIN execLog /\ execLog'[i] = execLog[i]
          \/ i = Len(execLog) + 1 /\ execLog'[i] = x
    BY <1>4
  <1>6. x.op = op /\ x.eta = eta /\ x.at = now
    OBVIOUS
  <1> HIDE DEF x
  <1>7. LogTypeOK'
    BY <1>1, <1>2, <1>4 DEF IInv, LogTypeOK
  <1>8. PendingWasQueued'
    BY <1>1 DEF IInv, PendingWasQueued
  <1>9. ExecutedIsGone'
    BY <1>1, <1>2, <1>5, <1>6 DEF IInv, ExecutedIsGone
  <1>10. DelayRespected'
    <2>1. PICK q \in queueLog : q.op = op /\ q.eta = eta /\ eta >= q.at + Delay /\ q.at \in Int
      BY <1>1 DEF IInv, PendingWasQueued
    <2>2. now >= q.at + Delay
      BY <2>1, <1>1, <1>2, TimelockAssumption
    <2> QED
      BY <2>1, <2>2, <1>1, <1>5, <1>6 DEF IInv, DelayRespected
  <1>11. ExecutedOnce'
    <2>1. \A i \in DOMAIN execLog : ~(execLog[i].op = op /\ execLog[i].eta = eta)
      BY <1>1 DEF IInv, ExecutedIsGone
    <2> QED
      BY <2>1, <1>5, <1>6 DEF IInv, ExecutedOnce
  <1> QED
    BY <1>7, <1>8, <1>9, <1>10, <1>11 DEF IInv

\* A step that leaves clock, entries and logs alone keeps the invariant.
LEMMA IdleStep == ASSUME IInv, UNCHANGED <<now, pending, queueLog, execLog>> PROVE IInv'
  BY DEF IInv, LogTypeOK, PendingWasQueued, ExecutedIsGone, DelayRespected, ExecutedOnce

\* Every step of the timelock keeps the invariant.
LEMMA Inductive == ASSUME IInv, [TimelockNext]_tlVars PROVE IInv'
  <1>1. CASE Tick
    BY <1>1, TickStep
  <1>2. ASSUME NEW f \in Factories, NEW op \in UpdateOps, NEW eta \in Etas,
               ExecuteUpdate(f, op, eta)
        PROVE  IInv'
    BY <1>2, DequeueStep DEF ExecuteUpdate, Operations
  <1>3. ASSUME NEW p \in Proxies, NEW op \in UpgradeOps, NEW eta \in Etas,
               ExecuteUpgradeProxy(p, op, eta)
        PROVE  IInv'
    BY <1>3, DequeueStep DEF ExecuteUpgradeProxy, Operations
  <1>4. ASSUME NEW f \in Factories, NEW salt \in Salts, CreateToken(f, salt) PROVE IInv'
    BY <1>4, IdleStep DEF CreateToken
  <1>5. ASSUME NEW op \in Operations, QueueOperation(op) PROVE IInv'
    BY <1>5, QueueStep
  <1>6. ASSUME NEW op \in Operations, NEW eta \in Etas, CancelOperation(op, eta) PROVE IInv'
    BY <1>6, CancelStep
  <1>7. CASE UNCHANGED tlVars
    BY <1>7, IdleStep DEF tlVars
  <1> QED
    BY <1>1, <1>2, <1>3, <1>4, <1>5, <1>6, <1>7 DEF TimelockNext, OpenStep, AdminStep

\* The invariant holds throughout.
LEMMA Invariance == TimelockSpec => []IInv
  <1>1. TimelockInit => IInv
    BY InitEstablishes
  <1>2. IInv /\ [TimelockNext]_tlVars => IInv'
    BY Inductive
  <1> QED
    BY <1>1, <1>2, PTL DEF TimelockSpec

-----------------------------------------------------------------------------
\* For every delay, clock and set of contracts: nothing takes effect less than
\* the delay after it was queued (execute_operation, cancel_operation).
THEOREM DelayAlwaysRespected == TimelockSpec => []DelayRespected
  <1>1. IInv => DelayRespected
    BY DEF IInv
  <1> QED
    BY <1>1, Invariance, PTL

\* For every delay above zero: no queued operation is executed twice, however
\* often the admin cancels it and queues it again.
THEOREM NeverExecutedTwice == TimelockSpec => []ExecutedOnce
  <1>1. IInv => ExecutedOnce
    BY DEF IInv
  <1> QED
    BY <1>1, Invariance, PTL

-----------------------------------------------------------------------------
(* The code of factories and proxies.  The log only grows, so that what was    *)
(* the last of its first n entries stays so.                                   *)

CodeTypeOK ==
    /\ wasmHash \in [Factories -> Hashes]
    /\ tokens \in [Factories -> Seq([salt : Salts, code : Hashes, after : Nat])]
    /\ impl \in [Proxies -> [hash : Hashes, version : Nat \ {0}, schema : Nat]]

TokensAreOld == \A f \in Factories : \A k \in DOMAIN tokens[f] : tokens[f][k].after <= Len(execLog)

CodeInv == CodeTypeOK /\ TokensAreOld /\ CodeIsGoverned

\* The log's next entry is an execution of ops on the target, or is not.
OneMore(log, log2, n, target, ops) ==
    RunsOf(log2, target, ops, n + 1) = RunsOf(log, target, ops, n) \cup {n + 1}

NoMore(log, log2, n, target, ops) ==
    RunsOf(log2, target, ops, n + 1) = RunsOf(log, target, ops, n)

\* The executions of a target are finitely many positions of the log.
LEMMA RunsFinite ==
    ASSUME NEW log, NEW target, NEW ops, NEW n \in Nat
    PROVE  /\ IsFiniteSet(RunsOf(log, target, ops, n))
           /\ RunsOf(log, target, ops, n) \subseteq 1 .. n
  <1>1. RunsOf(log, target, ops, n) \subseteq 1 .. n
    BY DEF RunsOf
  <1> QED
    BY <1>1, FS_Interval, FS_Subset

\* Among the first n executions of two logs that agree on them the same is last.
LEMMA SamePrefix ==
    ASSUME NEW log, NEW log2, NEW m \in Nat, NEW n \in Nat, n <= m,
           \A i \in 1 .. m : log2[i] = log[i],
           NEW target, NEW ops, NEW h
    PROVE  /\ RunsOf(log2, target, ops, n) = RunsOf(log, target, ops, n)
           /\ IsLastOf(log2, target, ops, n, h) <=> IsLastOf(log, target, ops, n, h)
  <1>1. \A i \in 1 .. n : log2[i] = log[i]
    OBVIOUS
  <1>2. RunsOf(log2, target, ops, n) = RunsOf(log, target, ops, n)
    BY <1>1 DEF RunsOf
  <1>3. \A i \in RunsOf(log, target, ops, n) : log2[i] = log[i]
    BY <1>1 DEF RunsOf
  <1> QED
    BY <1>2, <1>3 DEF IsLastOf

\* One more execution, of the target: it is the last.
LEMMA OneMoreRun ==
    ASSUME NEW log, NEW log2, NEW n \in Nat, \A i \in 1 .. n : log2[i] = log[i],
           NEW target, NEW ops, log2[n + 1].target = target, log2[n + 1].op \in ops
    PROVE  /\ OneMore(log, log2, n, target, ops)
           /\ IsLastOf(log2, target, ops, n + 1, log2[n + 1].op.hash)
  <1> DEFINE runs == RunsOf(log, target, ops, n)
             more == RunsOf(log2, target, ops, n + 1)
  <1>1. 1 .. n + 1 = 1 .. n \cup {n + 1} /\ n + 1 \notin 1 .. n
    OBVIOUS
  <1>2. runs \subseteq 1 .. n
    BY DEF RunsOf
  <1>3. more = runs \cup {n + 1}
    BY <1>1 DEF RunsOf
  <1>4. n + 1 \in more
    BY <1>3
  <1>5. \A i \in more : (\A j \in more : j <= i) => i = n + 1
    <2>1. more \subseteq 1 .. n + 1
      BY DEF RunsOf
    <2> HIDE DEF runs, more
    <2> SUFFICES ASSUME NEW i \in more, n + 1 <= i PROVE i = n + 1
      BY <1>4
    <2>2. i \in 1 .. n + 1
      BY <2>1
    <2> QED
      BY <2>2
  <1> QED
    BY <1>3, <1>4, <1>5 DEF IsLastOf, OneMore

\* One more execution, of another target.
LEMMA OneOtherRun ==
    ASSUME NEW log, NEW log2, NEW n \in Nat, \A i \in 1 .. n : log2[i] = log[i],
           NEW target, NEW ops, ~ (log2[n + 1].target = target /\ log2[n + 1].op \in ops)
    PROVE  /\ NoMore(log, log2, n, target, ops)
           /\ \A h : IsLastOf(log2, target, ops, n + 1, h) <=> IsLastOf(log, target, ops, n, h)
  <1>1. 1 .. n + 1 = 1 .. n \cup {n + 1} /\ n + 1 \notin 1 .. n
    OBVIOUS
  <1>2. RunsOf(log2, target, ops, n + 1) = RunsOf(log, target, ops, n)
    BY <1>1 DEF RunsOf
  <1>3. \A i \in RunsOf(log, target, ops, n) : log2[i] = log[i]
    BY DEF RunsOf
  <1> QED
    BY <1>2, <1>3 DEF IsLastOf, NoMore

\* The code installed at first needs no execution.
LEMMA InitCode == ASSUME TimelockInit PROVE CodeInv
  <1>1. CodeTypeOK
    BY TimelockAssumption DEF TimelockInit, CodeTypeOK
  <1>2. Len(execLog) = 0 /\ \A f \in Factories : tokens[f] = <<>>
    BY DEF TimelockInit
  <1>3. \A target, ops : RunsOf(execLog, target, ops, 0) = {}
    BY DEF RunsOf
  <1>4. \A target, ops : IsLastOf(execLog, target, ops, 0, InitialHash)
    BY <1>3 DEF IsLastOf
  <1>5. TokensAreOld /\ \A f \in Factories : FactoryIsGoverned(f)
    BY <1>2, <1>4 DEF TimelockInit, FactoryIsGoverned, TokensAreOld
  <1>6. ASSUME NEW p \in Proxies PROVE ProxyIsGoverned(p)
    <2>1. /\ impl[p].hash = InitialHash /\ impl[p].version = 1
          /\ impl[p].schema = Schema[InitialHash]
      BY DEF TimelockInit
    <2>2. RunsOf(execLog, p, UpgradeOps, Len(execLog)) = {}
      BY <1>2, <1>3
    <2>3. IsLastOf(execLog, p, UpgradeOps, Len(execLog), impl[p].hash)
      BY <1>2, <1>4, <2>1
    <2>4. Cardinality({}) = 0
      BY FS_EmptySet
    <2> QED
      BY <2>1, <2>2, <2>3, <2>4 DEF ProxyIsGoverned
  <1> QED
    BY <1>1, <1>5, <1>6 DEF CodeInv, CodeIsGoverned

\* A step that leaves the targets and the log alone.
LEMMA IdleCode == ASSUME CodeInv, UNCHANGED <<targets, execLog>> PROVE CodeInv'
  <1>1. UNCHANGED <<wasmHash, tokens, impl, execLog>>
    BY DEF targets
  <1>2. CodeTypeOK' /\ TokensAreOld'
    BY <1>1 DEF CodeInv, CodeTypeOK, TokensAreOld
  <1>3. \A f \in Factories : FactoryIsGoverned(f)'
    BY <1>1 DEF CodeInv, CodeIsGoverned, FactoryIsGoverned
  <1>4. \A p \in Proxies : ProxyIsGoverned(p)'
    BY <1>1 DEF CodeInv, CodeIsGoverned, ProxyIsGoverned
  <1> QED
    BY <1>2, <1>3, <1>4 DEF CodeInv, CodeIsGoverned

\* What a new entry in the log is.
LEMMA NewEntry ==
    ASSUME IInv, NEW op \in Operations, NEW eta \in Etas,
           NEW target \in Factories \cup Proxies, Dequeue(op, eta, target)
    PROVE  /\ Len(execLog) \in Nat /\ Len(execLog') = Len(execLog) + 1
           /\ execLog'[Len(execLog) + 1].op = op
           /\ execLog'[Len(execLog) + 1].target = target
           /\ \A i \in 1 .. Len(execLog) : execLog'[i] = execLog[i]
  <1>1. execLog \in Seq(Entry) /\ now \in 0 .. MaxTime
    BY DEF IInv, LogTypeOK
  <1>2. [op |-> op, eta |-> eta, at |-> now, target |-> target] \in Entry
    BY <1>1 DEF Entry
  <1> QED
    BY <1>1, <1>2 DEF Dequeue

\* A token was created after a number of executions the log has.
LEMMA TokensTyped ==
    ASSUME CodeTypeOK, NEW f \in Factories, NEW k \in DOMAIN tokens[f]
    PROVE  tokens[f][k].after \in Nat
  <1> DEFINE S == [salt : Salts, code : Hashes, after : Nat]
  <1>1. tokens[f] \in Seq(S)
    BY DEF CodeTypeOK
  <1>2. tokens[f][k] \in S
    <2> HIDE DEF S
    <2> QED
      BY <1>1
  <1> QED
    BY <1>2

\* What was the code for a token stays so when the log grows.
LEMMA TokensStay ==
    ASSUME CodeInv, NEW f \in Factories, NEW n \in Nat, n = Len(execLog),
           \A i \in 1 .. n : execLog'[i] = execLog[i], tokens' = tokens
    PROVE  \A k \in DOMAIN tokens'[f] :
             IsLastOf(execLog', f, UpdateOps, tokens'[f][k].after, tokens'[f][k].code)
  <1> SUFFICES ASSUME NEW k \in DOMAIN tokens[f]
               PROVE  IsLastOf(execLog', f, UpdateOps, tokens[f][k].after, tokens[f][k].code)
    OBVIOUS
  <1>1. tokens[f][k].after \in Nat /\ tokens[f][k].after <= n
    BY TokensTyped DEF CodeInv, TokensAreOld
  <1>2. IsLastOf(execLog, f, UpdateOps, tokens[f][k].after, tokens[f][k].code)
    BY DEF CodeInv, CodeIsGoverned, FactoryIsGoverned
  <1> QED
    BY <1>1, <1>2, SamePrefix

\* Tokens are no younger for a longer log.
LEMMA TokensStayOld ==
    ASSUME CodeInv, NEW n \in Nat, n = Len(execLog), Len(execLog') = n + 1, tokens' = tokens
    PROVE  TokensAreOld'
  <1> SUFFICES ASSUME NEW f \in Factories, NEW k \in DOMAIN tokens[f]
               PROVE  tokens[f][k].after <= n + 1
    BY DEF TokensAreOld
  <1>1. tokens[f][k].after \in Nat /\ tokens[f][k].after <= n
    BY TokensTyped DEF CodeInv, TokensAreOld
  <1> QED
    BY <1>1

\* A target that an execution does not concern is governed as before.
LEMMA OtherFactory ==
    ASSUME CodeInv, NEW f \in Factories, NEW n \in Nat, n = Len(execLog),
           Len(execLog') = n + 1, \A i \in 1 .. n : execLog'[i] = execLog[i],
           ~ (execLog'[n + 1].target = f /\ execLog'[n + 1].op \in UpdateOps),
           wasmHash'[f] = wasmHash[f], tokens' = tokens
    PROVE  FactoryIsGoverned(f)'
  <1>1. IsLastOf(execLog, f, UpdateOps, n, wasmHash[f])
    BY DEF CodeInv, CodeIsGoverned, FactoryIsGoverned
  <1>2. IsLastOf(execLog', f, UpdateOps, n + 1, wasmHash[f])
    BY <1>1, OneOtherRun
  <1> QED
    BY <1>2, TokensStay DEF FactoryIsGoverned

LEMMA OtherProxy ==
    ASSUME CodeInv, NEW p \in Proxies, NEW n \in Nat, n = Len(execLog),
           Len(execLog') = n + 1, \A i \in 1 .. n : execLog'[i] = execLog[i],
           ~ (execLog'[n + 1].target = p /\ execLog'[n + 1].op \in UpgradeOps),
           impl'[p] = impl[p]
    PROVE  ProxyIsGoverned(p)'
  <1> DEFINE runs == RunsOf(execLog, p, UpgradeOps, n)
  <1>1. /\ IsLastOf(execLog, p, UpgradeOps, n, impl[p].hash)
        /\ impl[p].version = 1 + Cardinality(runs)
        /\ impl[p].schema = Schema[impl[p].hash]
        /\ \A i \in runs : Schema[execLog[i].op.hash] <= impl[p].schema
    BY DEF CodeInv, CodeIsGoverned, ProxyIsGoverned
  <1>2. RunsOf(execLog', p, UpgradeOps, n + 1) = runs
    <2>1. NoMore(execLog, execLog', n, p, UpgradeOps)
      BY OneOtherRun
    <2> QED
      BY <2>1 DEF NoMore
  <1>3. IsLastOf(execLog', p, UpgradeOps, n + 1, impl[p].hash)
    BY <1>1, OneOtherRun
  <1>4. \A i \in runs : execLog'[i] = execLog[i]
    BY DEF RunsOf
  <1>5. \A i \in runs : Schema[execLog'[i].op.hash] <= impl[p].schema
    BY <1>1, <1>4
  <1> HIDE DEF runs
  <1> QED
    BY <1>1, <1>2, <1>3, <1>5 DEF ProxyIsGoverned

\* A factory's hash is changed by an execution that is logged.
LEMMA UpdateCode ==
    ASSUME IInv, CodeInv, NEW f \in Factories, NEW op \in UpdateOps, NEW eta \in Etas,
           ExecuteUpdate(f, op, eta)
    PROVE  CodeInv'
  <1>1. Dequeue(op, eta, f) /\ op \in Operations
    BY DEF ExecuteUpdate, Operations
  <1>2. PICK n \in Nat :
          /\ n = Len(execLog) /\ Len(execLog') = n + 1
          /\ execLog'[n + 1].op = op /\ execLog'[n + 1].target = f
          /\ \A i \in 1 .. n : execLog'[i] = execLog[i]
    BY <1>1, NewEntry
  <1>3. /\ wasmHash' = [wasmHash EXCEPT ![f] = op.hash] /\ tokens' = tokens /\ impl' = impl
    BY DEF ExecuteUpdate
  <1>4. op.hash \in Hashes /\ op \notin UpgradeOps
    BY DEF UpdateOps, UpgradeOps, UpdateWasmHash, UpgradeProxy
  <1>5. CodeTypeOK
    BY DEF CodeInv
  <1>6. CodeTypeOK'
    BY <1>3, <1>4, <1>5 DEF CodeTypeOK
  <1>7. TokensAreOld'
    BY <1>2, <1>3, TokensStayOld
  <1>8. ASSUME NEW g \in Factories, g # f PROVE FactoryIsGoverned(g)'
    <2>1. wasmHash'[g] = wasmHash[g]
      BY <1>3, <1>5, <1>8 DEF CodeTypeOK
    <2> QED
      BY <1>2, <1>3, <1>8, <2>1, OtherFactory
  <1>9. FactoryIsGoverned(f)'
    <2>1. IsLastOf(execLog', f, UpdateOps, n + 1, execLog'[n + 1].op.hash)
      BY <1>2, OneMoreRun
    <2>2. wasmHash'[f] = op.hash
      BY <1>3, <1>5 DEF CodeTypeOK
    <2>3. IsLastOf(execLog', f, UpdateOps, Len(execLog'), wasmHash'[f])
      BY <1>2, <2>1, <2>2
    <2> QED
      BY <1>2, <1>3, <2>3, TokensStay DEF FactoryIsGoverned
  <1>10. ASSUME NEW p \in Proxies PROVE ProxyIsGoverned(p)'
    BY <1>2, <1>3, <1>4, OtherProxy
  <1> QED
    BY <1>6, <1>7, <1>8, <1>9, <1>10 DEF CodeInv, CodeIsGoverned

\* Swap, migration and removal of the entry are one step, which the log shows;
\* a migration that would go back takes all of it back.
LEMMA UpgradeCode ==
    ASSUME IInv, CodeInv, NEW t \in Proxies, NEW op \in UpgradeOps, NEW eta \in Etas,
           ExecuteUpgradeProxy(t, op, eta)
    PROVE  CodeInv'
  <1> DEFINE Code == [hash : Hashes, version : Nat \ {0}, schema : Nat]
             swap == Swapped(impl[t], op.hash)
  <1>1. Dequeue(op, eta, t) /\ op \in Operations
    BY DEF ExecuteUpgradeProxy, Operations
  <1>2. PICK n \in Nat :
          /\ n = Len(execLog) /\ Len(execLog') = n + 1
          /\ execLog'[n + 1].op = op /\ execLog'[n + 1].target = t
          /\ \A i \in 1 .. n : execLog'[i] = execLog[i]
    BY <1>1, NewEntry
  <1>3. CodeTypeOK /\ ProxyIsGoverned(t)
    BY DEF CodeInv, CodeIsGoverned
  <1>4. op.hash \in Hashes /\ Schema[op.hash] \in Nat /\ op \notin UpdateOps
    BY TimelockAssumption DEF UpdateOps, UpgradeOps, UpdateWasmHash, UpgradeProxy
  <1>5. impl \in [Proxies -> Code] /\ impl[t] \in Code
    BY <1>3 DEF CodeTypeOK
  <1>6. /\ impl' = [impl EXCEPT ![t] = Migrated(swap)] /\ ~ MigrateFails(swap)
        /\ wasmHash' = wasmHash /\ tokens' = tokens
    BY DEF ExecuteUpgradeProxy
  <1>7. impl[t].version \in Nat \ {0} /\ impl[t].schema \in Nat
    BY <1>5
  <1>8. swap = [hash |-> op.hash, version |-> impl[t].version + 1, schema |-> impl[t].schema]
    BY DEF Swapped
  <1>9. impl[t].schema <= Schema[op.hash]
    BY <1>4, <1>6, <1>7, <1>8 DEF MigrateFails
  <1>10. Migrated(swap) = [hash |-> op.hash, version |-> impl[t].version + 1,
                           schema |-> Schema[op.hash]]
    <2>1. CASE impl[t].schema < Schema[op.hash]
      BY <1>8, <2>1 DEF Migrated
    <2>2. CASE impl[t].schema = Schema[op.hash]
      BY <1>4, <1>7, <1>8, <2>2 DEF Migrated
    <2> QED
      BY <1>4, <1>7, <1>9, <2>1, <2>2
  <1>11. PICK new : new = Migrated(swap)
    OBVIOUS
  <1>12. /\ new \in Code /\ new.hash = op.hash /\ new.version = impl[t].version + 1
         /\ new.schema = Schema[op.hash]
    BY <1>4, <1>7, <1>10, <1>11
  <1>13. impl' = [impl EXCEPT ![t] = new]
    BY <1>6, <1>11
  <1>14. impl' \in [Proxies -> Code] /\ impl'[t] = new
         /\ \A p \in Proxies : p # t => impl'[p] = impl[p]
    <2> HIDE DEF Code
    <2> QED
      BY <1>5, <1>12, <1>13
  <1>15. CodeTypeOK'
    BY <1>3, <1>6, <1>14 DEF CodeTypeOK
  <1>16. TokensAreOld'
    BY <1>2, <1>6, TokensStayOld
  <1>17. ASSUME NEW g \in Factories PROVE FactoryIsGoverned(g)'
    BY <1>2, <1>4, <1>6, OtherFactory
  <1>18. ASSUME NEW p \in Proxies, p # t PROVE ProxyIsGoverned(p)'
    BY <1>2, <1>14, <1>18, OtherProxy
  <1>19. ProxyIsGoverned(t)'
    <2>1. PICK runs : runs = RunsOf(execLog, t, UpgradeOps, n)
      OBVIOUS
    <2>2. /\ impl[t].version = 1 + Cardinality(runs)
          /\ \A i \in runs : Schema[execLog[i].op.hash] <= impl[t].schema
      BY <1>2, <1>3, <2>1 DEF ProxyIsGoverned
    <2>3. /\ RunsOf(execLog', t, UpgradeOps, n + 1) = runs \cup {n + 1}
          /\ IsLastOf(execLog', t, UpgradeOps, n + 1, execLog'[n + 1].op.hash)
      <3>1. execLog'[n + 1].target = t /\ execLog'[n + 1].op \in UpgradeOps
        BY <1>2
      <3>2. \A i \in 1 .. n : execLog'[i] = execLog[i]
        BY <1>2
      <3>3. OneMore(execLog, execLog', n, t, UpgradeOps)
        BY <3>1, <3>2, OneMoreRun
      <3> QED
        BY <2>1, <3>1, <3>2, <3>3, OneMoreRun DEF OneMore
    <2>4. IsFiniteSet(runs) /\ runs \subseteq 1 .. n
      BY <2>1, RunsFinite
    <2>5. n + 1 \notin runs /\ Cardinality(runs) \in Nat
      BY <2>4, FS_CardinalityType
    <2>6. Cardinality(runs \cup {n + 1}) = Cardinality(runs) + 1
      BY <2>4, <2>5, FS_AddElement
    <2>7. new.version = 1 + Cardinality(runs \cup {n + 1})
      BY <1>12, <2>2, <2>5, <2>6
    <2>8. ASSUME NEW i \in runs \cup {n + 1}
          PROVE  Schema[execLog'[i].op.hash] <= new.schema
      <3>1. CASE i = n + 1
        BY <1>2, <1>4, <1>12, <3>1
      <3>2. CASE i \in runs
        <4>1. execLog'[i] = execLog[i] /\ execLog[i].op \in UpgradeOps
          BY <1>2, <2>1, <2>4, <3>2 DEF RunsOf
        <4>2. Schema[execLog[i].op.hash] <= impl[t].schema
          BY <2>2, <3>2
        <4>3. execLog[i].op.hash \in Hashes
          BY <4>1 DEF UpgradeOps, UpgradeProxy
        <4>4. Schema[execLog[i].op.hash] \in Nat
          BY <4>3, TimelockAssumption
        <4> QED
          BY <1>4, <1>7, <1>9, <1>12, <4>1, <4>2, <4>4
      <3> QED
        BY <3>1, <3>2
    <2>9. impl'[t].hash = op.hash /\ impl'[t].schema = Schema[impl'[t].hash]
      BY <1>12, <1>14
    <2>10. IsLastOf(execLog', t, UpgradeOps, Len(execLog'), impl'[t].hash)
      BY <1>2, <2>3, <2>9
    <2>11. RunsOf(execLog', t, UpgradeOps, Len(execLog')) = runs \cup {n + 1}
      BY <1>2, <2>3
    <2>12. /\ impl'[t].version = 1 + Cardinality(runs \cup {n + 1})
           /\ \A i \in runs \cup {n + 1} : Schema[execLog'[i].op.hash] <= impl'[t].schema
      BY <1>14, <2>7, <2>8
    <2> QED
      BY <2>9, <2>10, <2>11, <2>12 DEF ProxyIsGoverned
  <1> QED
    BY <1>15, <1>16, <1>17, <1>18, <1>19 DEF CodeInv, CodeIsGoverned

\* A created token has the code its factory names, the last one put in place.
LEMMA CreateTokenCode ==
    ASSUME IInv, CodeInv, NEW f \in Factories, NEW salt \in Salts, CreateToken(f, salt)
    PROVE  CodeInv'
  <1> DEFINE S == [salt : Salts, code : Hashes, after : Nat]
  <1>1. PICK rec : rec = [salt |-> salt, code |-> wasmHash[f], after |-> Len(execLog)]
    OBVIOUS
  <1>2. /\ tokens' = [tokens EXCEPT ![f] = Append(tokens[f], rec)]
        /\ UNCHANGED <<wasmHash, impl, execLog>>
    BY <1>1 DEF CreateToken
  <1>3. CodeTypeOK /\ TokensAreOld /\ CodeIsGoverned
    BY DEF CodeInv
  <1>4. Len(execLog) \in Nat
    BY DEF IInv, LogTypeOK
  <1>5. /\ rec \in S /\ rec.code = wasmHash[f] /\ rec.after = Len(execLog)
        /\ tokens \in [Factories -> Seq(S)]
    BY <1>1, <1>3, <1>4 DEF CodeTypeOK
  <1>6. /\ tokens' \in [Factories -> Seq(S)]
        /\ \A g \in Factories : g # f => tokens'[g] = tokens[g]
        /\ tokens'[f] = Append(tokens[f], rec) /\ tokens[f] \in Seq(S)
    <2> HIDE DEF S
    <2> QED
      BY <1>2, <1>5
  <1>7. \A k \in DOMAIN tokens'[f] :
          \/ k \in DOMAIN tokens[f] /\ tokens'[f][k] = tokens[f][k]
          \/ tokens'[f][k] = rec
    <2> HIDE DEF S
    <2> QED
      BY <1>5, <1>6
  <1>8. CodeTypeOK'
    BY <1>2, <1>3, <1>6 DEF CodeTypeOK
  <1>9. TokensAreOld'
    <2>1. ASSUME NEW g \in Factories, NEW k \in DOMAIN tokens'[g]
          PROVE  tokens'[g][k].after <= Len(execLog)
      <3>1. CASE g = f /\ tokens'[f][k] = rec
        BY <1>4, <1>5, <3>1
      <3>2. CASE k \in DOMAIN tokens[g] /\ tokens'[g][k] = tokens[g][k]
        BY <1>3, <3>2 DEF TokensAreOld
      <3> QED
        BY <1>6, <1>7, <2>1, <3>1, <3>2
    <2> QED
      BY <1>2, <2>1 DEF TokensAreOld
  <1>10. ASSUME NEW g \in Factories PROVE FactoryIsGoverned(g)'
    <2>1. /\ IsLastOf(execLog, g, UpdateOps, Len(execLog), wasmHash[g])
          /\ \A k \in DOMAIN tokens[g] :
               IsLastOf(execLog, g, UpdateOps, tokens[g][k].after, tokens[g][k].code)
      BY <1>3 DEF CodeIsGoverned, FactoryIsGoverned
    <2>2. ASSUME NEW k \in DOMAIN tokens'[g]
          PROVE  IsLastOf(execLog, g, UpdateOps, tokens'[g][k].after, tokens'[g][k].code)
      <3>1. CASE g = f /\ tokens'[f][k] = rec
        BY <1>5, <2>1, <3>1
      <3>2. CASE k \in DOMAIN tokens[g] /\ tokens'[g][k] = tokens[g][k]
        BY <2>1, <3>2
      <3> QED
        BY <1>6, <1>7, <2>2, <3>1, <3>2
    <2> QED
      BY <1>2, <2>1, <2>2 DEF FactoryIsGoverned
  <1>11. ASSUME NEW p \in Proxies PROVE ProxyIsGoverned(p)'
    <2>1. ProxyIsGoverned(p)
      BY <1>3 DEF CodeIsGoverned
    <2> QED
      BY <1>2, <2>1 DEF ProxyIsGoverned
  <1> QED
    BY <1>8, <1>9, <1>10, <1>11 DEF CodeInv, CodeIsGoverned

\* Every step of the timelock keeps the invariant about code.
LEMMA CodeInductive == ASSUME IInv, CodeInv, [TimelockNext]_tlVars PROVE CodeInv'
  <1>1. ASSUME NEW op \in Operations,
               \/ QueueOperation(op)
               \/ \E eta \in Etas : CancelOperation(op, eta)
        PROVE  CodeInv'
    BY <1>1, IdleCode DEF QueueOperation, CancelOperation
  <1>2. CASE Tick \/ UNCHANGED tlVars
    BY <1>2, IdleCode DEF Tick, tlVars
  <1> QED
    BY <1>1, <1>2, UpdateCode, UpgradeCode, CreateTokenCode
    DEF TimelockNext, OpenStep, AdminStep

\* For any factories, proxies, hashes and delay: a factory deploys the code of
\* the last operation executed on it, a proxy runs the code of the last upgrade
\* executed on it, with that code's schema, which no upgrade ever lowers
\* (timelock.rs:186-221, upgradeable/src/lib.rs:111-174).
THEOREM CodeGoverned == TimelockSpec => []CodeIsGoverned
  <1>1. TimelockInit => CodeInv
    BY InitCode
  <1>2. IInv /\ CodeInv /\ [TimelockNext]_tlVars => CodeInv'
    BY CodeInductive
  <1>3. CodeInv => CodeIsGoverned
    BY DEF CodeInv
  <1> QED
    BY <1>1, <1>2, <1>3, Invariance, PTL DEF TimelockSpec

-----------------------------------------------------------------------------
(* The multisig.  approve_tx refuses a second signature of the same signer,   *)
(* so a list of signatures is as long as its signers are many, and its length *)
(* can stand for the quorum.                                                  *)

Signed(signatures) ==
    /\ signatures \in Seq(Signers)
    /\ ToSet(signatures) \subseteq ToSet(signers)
    /\ IsFiniteSet(ToSet(signatures))
    /\ Cardinality(ToSet(signatures)) = Len(signatures)

TxHolds(id) ==
    pendingTx[id] # NoItem =>
        /\ id <= txCounter
        /\ Signed(pendingTx[id].signatures)
        /\ pendingTx[id].executed => EnoughSignatures(pendingTx[id].signatures)

UpgradeHolds(id) ==
    upgrades[id] # NoItem =>
        /\ id <= txCounter
        /\ Signed(upgrades[id].signatures)
        /\ upgrades[id].queued => EnoughSignatures(upgrades[id].signatures)

MsInv ==
    /\ signers \in Seq(Signers) /\ threshold \in Nat /\ txCounter \in 0 .. MaxItems
    /\ pendingTx \in [ItemIds -> TxRecord \cup {NoItem}]
    /\ upgrades \in [ItemIds -> UpgradeRecord \cup {NoItem}]
    /\ \A id \in ItemIds : TxHolds(id)
    /\ \A id \in ItemIds : UpgradeHolds(id)

\* The proposer's signature alone.
LEMMA SignedFirst ==
    ASSUME NEW u \in Signers, IsSigner(u)
    PROVE  Signed(<<u>>)
  <1>1. ToSet(<<u>>) = {u}
    BY DEF ToSet
  <1>2. IsFiniteSet({u}) /\ Cardinality({u}) = 1
    BY FS_Singleton
  <1> QED
    BY <1>1, <1>2 DEF Signed, IsSigner

\* One more signature, of a signer who has not signed.
LEMMA SignedMore ==
    ASSUME NEW s, Signed(s), NEW u \in Signers, IsSigner(u), ~ HasSigned(s, u)
    PROVE  Signed(Append(s, u))
  <1>1. s \in Seq(Signers)
    BY DEF Signed
  <1>2. ToSet(Append(s, u)) = ToSet(s) \cup {u}
    BY <1>1 DEF ToSet
  <1>3. u \notin ToSet(s)
    BY <1>1 DEF HasSigned, Contains, ToSet
  <1>4. /\ IsFiniteSet(ToSet(s) \cup {u})
        /\ Cardinality(ToSet(s) \cup {u}) = Cardinality(ToSet(s)) + 1
    BY <1>3, FS_AddElement DEF Signed
  <1>5. Append(s, u) \in Seq(Signers) /\ Len(Append(s, u)) = Len(s) + 1
    BY <1>1
  <1> QED
    BY <1>2, <1>4, <1>5 DEF Signed, IsSigner

\* A list that is long enough is a quorum of different listed signers.
LEMMA EnoughIsQuorate ==
    ASSUME NEW s, Signed(s), EnoughSignatures(s)
    PROVE  Quorate(s)
  <1>1. ToSet(s) \cap ToSet(signers) = ToSet(s)
    BY DEF Signed
  <1> QED
    BY <1>1 DEF Signed, EnoughSignatures, Quorate

\* The multisig's invariant implies that executed items had a quorum.
LEMMA MsInvSuffices == MsInv => ExecutedWithQuorum
  BY EnoughIsQuorate DEF MsInv, TxHolds, ExecutedWithQuorum

\* There is no item at first.
LEMMA InitMs == ASSUME MultiSigInit PROVE MsInv
  BY MultiSigAssumption
  DEF MultiSigInit, MsInv, TxHolds, UpgradeHolds, Thresholds

\* What a new item may overwrite: nothing.
LEMMA NextIsFree ==
    ASSUME MsInv, txCounter < MaxItems
    PROVE  /\ NextItem(txCounter) \in ItemIds /\ NextItem(txCounter) \in 0 .. MaxItems
           /\ pendingTx[NextItem(txCounter)] = NoItem
           /\ upgrades[NextItem(txCounter)] = NoItem
           /\ \A id \in ItemIds : id <= txCounter => id <= NextItem(txCounter)
  <1>1. txCounter \in 0 .. MaxItems /\ MaxItems \in Nat
    BY MultiSigAssumption DEF MsInv
  <1>2. NextItem(txCounter) \in ItemIds /\ ~ (NextItem(txCounter) <= txCounter)
    BY <1>1 DEF NextItem, ItemIds
  <1>3. pendingTx[NextItem(txCounter)] = NoItem /\ upgrades[NextItem(txCounter)] = NoItem
    BY <1>2 DEF MsInv, TxHolds, UpgradeHolds
  <1> QED
    BY <1>1, <1>2, <1>3 DEF NextItem, ItemIds

\* A step that gives one transaction a record and leaves the rest.
LEMMA OneTxStep ==
    ASSUME MsInv, NEW k \in ItemIds, NEW r \in TxRecord,
           pendingTx' = [pendingTx EXCEPT ![k] = r],
           UNCHANGED <<signers, threshold, upgrades>>,
           txCounter' \in 0 .. MaxItems, txCounter <= txCounter', k <= txCounter',
           Signed(r.signatures), r.executed => EnoughSignatures(r.signatures)
    PROVE  MsInv'
  <1>1. /\ signers \in Seq(Signers) /\ threshold \in Nat /\ txCounter \in 0 .. MaxItems
        /\ pendingTx \in [ItemIds -> TxRecord \cup {NoItem}]
        /\ upgrades \in [ItemIds -> UpgradeRecord \cup {NoItem}]
    BY DEF MsInv
  <1>2. pendingTx' \in [ItemIds -> TxRecord \cup {NoItem}]
    BY <1>1
  <1>3. ASSUME NEW id \in ItemIds PROVE TxHolds(id)'
    <2>1. CASE id = k
      <3>1. pendingTx'[id] = r
        BY <1>1, <2>1
      <3> QED
        BY <2>1, <3>1 DEF TxHolds, Signed, EnoughSignatures
    <2>2. CASE id # k
      <3>1. pendingTx'[id] = pendingTx[id] /\ TxHolds(id) /\ id \in Int
        BY <1>1, <2>2 DEF MsInv, ItemIds
      <3> QED
        BY <1>1, <3>1 DEF TxHolds, Signed, EnoughSignatures
    <2> QED
      BY <2>1, <2>2
  <1>4. ASSUME NEW id \in ItemIds PROVE UpgradeHolds(id)'
    <2>1. UpgradeHolds(id) /\ id \in Int
      BY DEF MsInv, ItemIds
    <2> QED
      BY <1>1, <2>1 DEF UpgradeHolds, Signed, EnoughSignatures
  <1> QED
    BY <1>1, <1>2, <1>3, <1>4 DEF MsInv

\* Changing one upgrade item to a properly signed one keeps the multisig's invariant.
LEMMA OneUpgradeStep ==
    ASSUME MsInv, NEW k \in ItemIds, NEW r \in UpgradeRecord,
           upgrades' = [upgrades EXCEPT ![k] = r],
           UNCHANGED <<signers, threshold, pendingTx>>,
           txCounter' \in 0 .. MaxItems, txCounter <= txCounter', k <= txCounter',
           Signed(r.signatures), r.queued => EnoughSignatures(r.signatures)
    PROVE  MsInv'
  <1>1. /\ signers \in Seq(Signers) /\ threshold \in Nat /\ txCounter \in 0 .. MaxItems
        /\ pendingTx \in [ItemIds -> TxRecord \cup {NoItem}]
        /\ upgrades \in [ItemIds -> UpgradeRecord \cup {NoItem}]
    BY DEF MsInv
  <1>2. upgrades' \in [ItemIds -> UpgradeRecord \cup {NoItem}]
    BY <1>1
  <1>3. ASSUME NEW id \in ItemIds PROVE UpgradeHolds(id)'
    <2>1. CASE id = k
      <3>1. upgrades'[id] = r
        BY <1>1, <2>1
      <3> QED
        BY <2>1, <3>1 DEF UpgradeHolds, Signed, EnoughSignatures
    <2>2. CASE id # k
      <3>1. upgrades'[id] = upgrades[id] /\ UpgradeHolds(id) /\ id \in Int
        BY <1>1, <2>2 DEF MsInv, ItemIds
      <3> QED
        BY <1>1, <3>1 DEF UpgradeHolds, Signed, EnoughSignatures
    <2> QED
      BY <2>1, <2>2
  <1>4. ASSUME NEW id \in ItemIds PROVE TxHolds(id)'
    <2>1. TxHolds(id) /\ id \in Int
      BY DEF MsInv, ItemIds
    <2> QED
      BY <1>1, <2>1 DEF TxHolds, Signed, EnoughSignatures
  <1> QED
    BY <1>1, <1>2, <1>3, <1>4 DEF MsInv

\* What an item is, and that its id was given out.
LEMMA ItemsTyped ==
    ASSUME MsInv, NEW id \in ItemIds
    PROVE  /\ txCounter \in 0 .. MaxItems /\ txCounter \in Int
           /\ pendingTx[id] # NoItem => pendingTx[id] \in TxRecord /\ id <= txCounter
           /\ upgrades[id] # NoItem => upgrades[id] \in UpgradeRecord /\ id <= txCounter
  BY DEF MsInv, TxHolds, UpgradeHolds

\* Which proposals are queued, and for what.
QueuedFor(target) ==
    {id \in ItemIds : /\ upgrades[id] # NoItem
                      /\ upgrades[id].queued /\ upgrades[id].target = target}

\* Proposing and approving, of transactions and of upgrades, keeps the
\* invariant and leaves the queued proposals alone.
LEMMA MsStep ==
    ASSUME MsInv, MultiSigStep
    PROVE  MsInv' /\ \A target : QueuedFor(target)' = QueuedFor(target)
  <1>1. ASSUME NEW u \in Signers, ProposeTx(u)
        PROVE  MsInv' /\ upgrades' = upgrades
    <2> DEFINE r == [signatures |-> <<u>>, executed |-> FALSE]
               k == NextItem(txCounter)
    <2>1. /\ k \in ItemIds /\ k \in 0 .. MaxItems /\ txCounter <= k
          /\ txCounter \in 0 .. MaxItems
      BY <1>1, NextIsFree DEF ProposeTx, NextItem, MsInv
    <2>2. r \in TxRecord /\ Signed(r.signatures) /\ ~ r.executed
      BY <1>1, SignedFirst DEF TxRecord, ProposeTx
    <2>3. /\ pendingTx' = [pendingTx EXCEPT ![k] = r] /\ txCounter' = k
          /\ UNCHANGED <<signers, threshold, upgrades>>
      BY <1>1 DEF ProposeTx
    <2> HIDE DEF r, k
    <2>4. k <= txCounter'
      BY <2>1, <2>3
    <2> QED
      BY <2>1, <2>2, <2>3, <2>4, OneTxStep
  <1>2. ASSUME NEW u \in Signers, NEW k \in ItemIds, ApproveTx(u, k)
        PROVE  MsInv' /\ upgrades' = upgrades
    <2> DEFINE s == pendingTx[k].signatures
               r == [pendingTx[k] EXCEPT !.signatures = Append(s, u)]
    <2>1. /\ pendingTx[k] \in TxRecord /\ k <= txCounter /\ txCounter \in 0 .. MaxItems
          /\ txCounter \in Int /\ Signed(s) /\ ~ pendingTx[k].executed
      BY <1>2, ItemsTyped DEF ApproveTx, NotExecuted, MsInv, TxHolds
    <2>2. Signed(Append(s, u)) /\ Append(s, u) \in Seq(Signers)
      BY <1>2, <2>1, SignedMore DEF ApproveTx, Signed
    <2>3. /\ pendingTx' = [pendingTx EXCEPT ![k] = r] /\ txCounter' = txCounter
          /\ UNCHANGED <<signers, threshold, upgrades>>
      BY <1>2 DEF ApproveTx
    <2>4. r \in TxRecord /\ r.signatures = Append(s, u) /\ ~ r.executed
      BY <2>1, <2>2 DEF TxRecord
    <2> HIDE DEF r
    <2>5. txCounter' \in 0 .. MaxItems /\ txCounter <= txCounter' /\ k <= txCounter'
      BY <2>1, <2>3
    <2>6. Signed(r.signatures)
      BY <2>2, <2>4
    <2>7. MsInv'
      BY <2>3, <2>4, <2>5, <2>6, OneTxStep
    <2> QED
      BY <2>3, <2>7
  <1>3. ASSUME NEW u \in Signers, NEW k \in ItemIds, ExecuteTx(u, k)
        PROVE  MsInv' /\ upgrades' = upgrades
    <2> DEFINE s == pendingTx[k].signatures
               r == [pendingTx[k] EXCEPT !.executed = TRUE]
    <2>1. /\ pendingTx[k] \in TxRecord /\ k <= txCounter /\ txCounter \in 0 .. MaxItems
          /\ txCounter \in Int /\ Signed(s) /\ EnoughSignatures(s)
      BY <1>3, ItemsTyped DEF ExecuteTx, MsInv, TxHolds
    <2>2. /\ pendingTx' = [pendingTx EXCEPT ![k] = r] /\ txCounter' = txCounter
          /\ UNCHANGED <<signers, threshold, upgrades>>
      BY <1>3 DEF ExecuteTx
    <2>3. r \in TxRecord /\ r.signatures = s
      BY <2>1 DEF TxRecord
    <2> HIDE DEF r
    <2>4. txCounter' \in 0 .. MaxItems /\ txCounter <= txCounter' /\ k <= txCounter'
      BY <2>1, <2>2
    <2>5. Signed(r.signatures) /\ EnoughSignatures(r.signatures)
      BY <2>1, <2>3
    <2>6. MsInv'
      BY <2>2, <2>3, <2>4, <2>5, OneTxStep
    <2> QED
      BY <2>2, <2>6
  <1>4. ASSUME NEW u \in Signers, NEW target \in Upgrades, ProposeUpgrade(u, target)
        PROVE  MsInv' /\ \A z : QueuedFor(z)' = QueuedFor(z)
    <2> DEFINE r == [target |-> target, signatures |-> <<u>>, queued |-> FALSE]
               k == NextItem(txCounter)
    <2>1. /\ k \in ItemIds /\ k \in 0 .. MaxItems /\ txCounter <= k
          /\ txCounter \in 0 .. MaxItems /\ upgrades[k] = NoItem
      BY <1>4, NextIsFree DEF ProposeUpgrade, NextItem, MsInv
    <2>2. r \in UpgradeRecord /\ Signed(r.signatures) /\ ~ r.queued
      BY <1>4, SignedFirst DEF UpgradeRecord, ProposeUpgrade
    <2>3. /\ upgrades' = [upgrades EXCEPT ![k] = r] /\ txCounter' = k
          /\ UNCHANGED <<signers, threshold, pendingTx>>
      BY <1>4 DEF ProposeUpgrade
    <2>4. upgrades \in [ItemIds -> UpgradeRecord \cup {NoItem}]
      BY DEF MsInv
    <2> HIDE DEF r, k
    <2>5. k <= txCounter'
      BY <2>1, <2>3
    <2>6. MsInv'
      BY <2>1, <2>2, <2>3, <2>5, OneUpgradeStep
    <2>7. \A z : QueuedFor(z)' = QueuedFor(z)
      BY <2>1, <2>2, <2>3, <2>4 DEF QueuedFor, ItemIds
    <2> QED
      BY <2>6, <2>7
  <1>5. ASSUME NEW u \in Signers, NEW k \in ItemIds, ApproveUpgrade(u, k)
        PROVE  MsInv' /\ \A z : QueuedFor(z)' = QueuedFor(z)
    <2> DEFINE s == upgrades[k].signatures
               r == [upgrades[k] EXCEPT !.signatures = Append(s, u)]
    <2>1. /\ upgrades[k] \in UpgradeRecord /\ k <= txCounter /\ txCounter \in 0 .. MaxItems
          /\ txCounter \in Int /\ Signed(s) /\ ~ upgrades[k].queued
      BY <1>5, ItemsTyped DEF ApproveUpgrade, MsInv, UpgradeHolds
    <2>2. Signed(Append(s, u)) /\ Append(s, u) \in Seq(Signers)
      BY <1>5, <2>1, SignedMore DEF ApproveUpgrade, Signed
    <2>3. /\ upgrades' = [upgrades EXCEPT ![k] = r] /\ txCounter' = txCounter
          /\ UNCHANGED <<signers, threshold, pendingTx>>
      BY <1>5 DEF ApproveUpgrade
    <2>4. /\ r \in UpgradeRecord /\ r.signatures = Append(s, u)
          /\ ~ r.queued
      BY <2>1, <2>2 DEF UpgradeRecord
    <2>5. upgrades \in [ItemIds -> UpgradeRecord \cup {NoItem}]
      BY DEF MsInv
    <2> HIDE DEF r
    <2>8. txCounter' \in 0 .. MaxItems /\ txCounter <= txCounter' /\ k <= txCounter'
      BY <2>1, <2>3
    <2>9. Signed(r.signatures)
      BY <2>2, <2>4
    <2>6. MsInv'
      BY <2>3, <2>4, <2>8, <2>9, OneUpgradeStep
    <2>7. \A z : QueuedFor(z)' = QueuedFor(z)
      BY <2>1, <2>3, <2>4, <2>5 DEF QueuedFor, ItemIds
    <2> QED
      BY <2>6, <2>7
  <1>6. upgrades' = upgrades => \A z : QueuedFor(z)' = QueuedFor(z)
    BY DEF QueuedFor, ItemIds
  <1> QED
    BY <1>1, <1>2, <1>3, <1>4, <1>5, <1>6 DEF MultiSigStep

-----------------------------------------------------------------------------
(* The pipeline.  What the timelock holds or has executed was named by queued  *)
(* proposals, one proposal for one entry.                                      *)

OpOf(target) == UpgradeProxy(target[1], target[2])

Waiting(op) == {e \in pending : e[1] = op}

Ran(op) == {i \in DOMAIN execLog : execLog[i].op = op}

Approved == {OpOf(target) : target \in {t \in Upgrades : QueuedFor(t) # {}}}

Counted(target) ==
    Cardinality(QueuedFor(target)) = Cardinality(Waiting(OpOf(target))) + Cardinality(Ran(OpOf(target)))

PipeInv ==
    /\ LogTypeOK /\ MsInv /\ IsFiniteSet(pending)
    /\ \A e \in pending : e[1] \in Approved
    /\ \A i \in DOMAIN execLog : execLog[i].op \in Approved /\ execLog[i].at >= Delay
    /\ \A target \in Upgrades : Counted(target)

\* The invariant of the composition implies the three parts of PipelineHolds.
LEMMA PipeInvSuffices ==
    PipeInv => ExecutedWithQuorum /\ UpgradeNeedsQuorumAndDelay /\ OneProposalOneUpgrade
  <1> SUFFICES ASSUME PipeInv
               PROVE  ExecutedWithQuorum /\ UpgradeNeedsQuorumAndDelay /\ OneProposalOneUpgrade
    OBVIOUS
  <1>1. MsInv
    BY DEF PipeInv
  <1>2. ASSUME NEW i \in DOMAIN execLog
        PROVE  \E id \in ItemIds :
                 /\ upgrades[id] # NoItem /\ upgrades[id].queued
                 /\ execLog[i].op = UpgradeProxy(upgrades[id].target[1], upgrades[id].target[2])
                 /\ Quorate(upgrades[id].signatures)
                 /\ execLog[i].at >= Delay
    <2>1. PICK target \in Upgrades : QueuedFor(target) # {} /\ execLog[i].op = OpOf(target)
      BY DEF PipeInv, Approved
    <2>2. PICK id \in ItemIds : upgrades[id] # NoItem /\ upgrades[id].queued
                                /\ upgrades[id].target = target
      BY <2>1 DEF QueuedFor
    <2>3. Quorate(upgrades[id].signatures)
      BY <1>1, <2>2, EnoughIsQuorate DEF MsInv, UpgradeHolds
    <2>4. execLog[i].at >= Delay
      BY DEF PipeInv
    <2> QED
      BY <2>1, <2>2, <2>3, <2>4 DEF OpOf
  <1>3. UpgradeNeedsQuorumAndDelay
    BY <1>2 DEF UpgradeNeedsQuorumAndDelay
  <1>4. OneProposalOneUpgrade
    BY DEF PipeInv, Counted, Waiting, Ran, OpOf, QueuedFor, OneProposalOneUpgrade
  <1> QED
    BY <1>1, <1>3, <1>4, MsInvSuffices

\* The composition starts with its invariant.
LEMMA InitPipe == ASSUME Init PROVE PipeInv
  <1>1. MsInv /\ LogTypeOK
    BY InitMs, InitEstablishes DEF Init, IInv
  <1>2. pending = {} /\ execLog = <<>> /\ \A id \in ItemIds : upgrades[id] = NoItem
    BY DEF Init, MultiSigInit, TimelockInit
  <1>3. \A target \in Upgrades :
          QueuedFor(target) = {} /\ Waiting(OpOf(target)) = {} /\ Ran(OpOf(target)) = {}
    BY <1>2 DEF QueuedFor, Waiting, Ran
  <1>4. \A target \in Upgrades : Counted(target)
    BY <1>3, FS_EmptySet DEF Counted
  <1> QED
    BY <1>1, <1>2, <1>4, FS_EmptySet DEF PipeInv

\* A step that leaves the timelock and the queued proposals alone.
LEMMA PipeKept ==
    ASSUME PipeInv, LogTypeOK', MsInv', UNCHANGED <<pending, execLog>>,
           \A target : QueuedFor(target)' = QueuedFor(target)
    PROVE  PipeInv'
  <1>1. Approved' = Approved
    BY DEF Approved
  <1>2. \A target \in Upgrades : Counted(target)'
    BY DEF PipeInv, Counted, Waiting, Ran
  <1>3. IsFiniteSet(pending')
    BY DEF PipeInv
  <1>4. /\ \A e \in pending' : e[1] \in Approved
        /\ \A i \in DOMAIN execLog' : execLog'[i].op \in Approved /\ execLog'[i].at >= Delay
    BY DEF PipeInv
  <1>5. /\ \A e \in pending' : e[1] \in Approved'
        /\ \A i \in DOMAIN execLog' : execLog'[i].op \in Approved'
    BY <1>1, <1>4
  <1> QED
    BY <1>2, <1>3, <1>4, <1>5 DEF PipeInv

\* An execution moves one entry from pending to the log.
LEMMA DequeueMoves ==
    ASSUME PipeInv, UNCHANGED msVars, LogTypeOK',
           NEW op \in Operations, NEW eta \in Etas,
           NEW target \in Factories \cup Proxies, Dequeue(op, eta, target)
    PROVE  PipeInv'
  <1> DEFINE n == Len(execLog)
             x == [op |-> op, eta |-> eta, at |-> now, target |-> target]
             e0 == <<op, eta>>
  <1>1. /\ e0 \in pending /\ now >= eta /\ pending' = pending \ {e0}
        /\ execLog' = Append(execLog, x)
    BY DEF Dequeue, Due, PendingWithout
  <1>2. /\ now \in Int /\ eta \in Int /\ Delay \in Int /\ eta >= Delay
        /\ execLog \in Seq(Entry) /\ n \in Nat
    BY TimelockAssumption DEF PipeInv, LogTypeOK, Etas
  <1>3. /\ DOMAIN execLog = 1 .. n /\ DOMAIN execLog' = 1 .. n + 1
        /\ execLog'[n + 1] = x /\ \A i \in 1 .. n : execLog'[i] = execLog[i]
    BY <1>1, <1>2
  <1>4. x.op = op /\ x.at = now
    OBVIOUS
  <1>5. MsInv' /\ \A z : QueuedFor(z)' = QueuedFor(z)
    <2>1. UNCHANGED <<signers, threshold, txCounter, pendingTx, upgrades>>
      BY DEF msVars
    <2>2. \A z : QueuedFor(z)' = QueuedFor(z)
      BY <2>1 DEF QueuedFor, ItemIds
    <2>3. MsInv'
      BY <2>1 DEF PipeInv, MsInv, TxHolds, UpgradeHolds, Signed, EnoughSignatures
    <2> QED
      BY <2>2, <2>3
  <1> HIDE DEF x, e0, n
  <1>6. Approved' = Approved
    BY <1>5 DEF Approved
  <1>7. IsFiniteSet(pending) /\ IsFiniteSet(pending')
    BY <1>1, FS_RemoveElement DEF PipeInv
  <1>8. \A e \in pending' : e[1] \in Approved'
    <2>1. \A e \in pending' : e[1] \in Approved
      BY <1>1 DEF PipeInv
    <2> QED
      BY <2>1, <1>6
  <1>9. \A i \in DOMAIN execLog' : execLog'[i].op \in Approved' /\ execLog'[i].at >= Delay
    <2>1. op \in Approved
      BY <1>1 DEF PipeInv, e0
    <2>2. ASSUME NEW i \in DOMAIN execLog'
          PROVE  execLog'[i].op \in Approved /\ execLog'[i].at >= Delay
      <3>1. CASE i \in 1 .. n
        BY <1>3, <3>1 DEF PipeInv
      <3>2. CASE i = n + 1
        BY <1>1, <1>2, <1>3, <1>4, <2>1, <3>2
      <3> QED
        BY <1>2, <1>3, <3>1, <3>2
    <2> QED
      BY <2>2, <1>6
  <1>10. ASSUME NEW z \in Upgrades PROVE Counted(z)'
    <2> DEFINE o == OpOf(z)
    <2>1. Counted(z) /\ QueuedFor(z)' = QueuedFor(z)
      BY <1>5 DEF PipeInv
    <2>2. IsFiniteSet(Waiting(o)) /\ IsFiniteSet(Ran(o))
      <3>1. Waiting(o) \subseteq pending
        BY DEF Waiting
      <3>2. Ran(o) \subseteq 1 .. n
        BY <1>3 DEF Ran
      <3>3. IsFiniteSet(1 .. n)
        BY <1>2, FS_Interval
      <3> QED
        BY <1>7, <3>1, <3>2, <3>3, FS_Subset
    <2>3. Cardinality(Waiting(o)) \in Nat /\ Cardinality(Ran(o)) \in Nat
      BY <2>2, FS_CardinalityType
    <2>4. CASE o # op
      <3>1. Waiting(o)' = Waiting(o)
        BY <1>1, <2>4 DEF Waiting, e0, OpOf
      <3>2. Ran(o)' = Ran(o)
        BY <1>2, <1>3, <1>4, <2>4 DEF Ran, OpOf
      <3> QED
        BY <2>1, <3>1, <3>2 DEF Counted, OpOf
    <2>5. CASE o = op
      <3>1. Waiting(o)' = Waiting(o) \ {e0} /\ e0 \in Waiting(o)
        BY <1>1, <2>5 DEF Waiting, e0, OpOf
      <3>2. Ran(o)' = Ran(o) \cup {n + 1} /\ n + 1 \notin Ran(o)
        BY <1>2, <1>3, <1>4, <2>5 DEF Ran, OpOf
      <3>3. Cardinality(Waiting(o)') = Cardinality(Waiting(o)) - 1
        BY <2>2, <3>1, FS_RemoveElement
      <3>4. Cardinality(Ran(o)') = Cardinality(Ran(o)) + 1
        BY <2>2, <3>2, FS_AddElement
      <3> QED
        BY <2>1, <2>3, <3>3, <3>4 DEF Counted, OpOf
    <2> QED
      BY <2>4, <2>5
  <1>11. \A z \in Upgrades : Counted(z)'
    BY <1>10
  <1> QED
    BY <1>5, <1>7, <1>8, <1>9, <1>11 DEF PipeInv

\* Acting on a proposal adds one entry to pending, and queues the proposal.
LEMMA QueueAdds ==
    ASSUME PipeInv, NEW u \in Signers, NEW k \in ItemIds, ExecuteUpgrade(u, k), LogTypeOK'
    PROVE  PipeInv'
  <1>1. MsInv
    BY DEF PipeInv
  <1>2. /\ upgrades[k] \in UpgradeRecord /\ k <= txCounter /\ txCounter \in 0 .. MaxItems
        /\ txCounter \in Int /\ Signed(upgrades[k].signatures) /\ ~ upgrades[k].queued
        /\ EnoughSignatures(upgrades[k].signatures)
    BY <1>1, ItemsTyped DEF ExecuteUpgrade, MarkUpgradeQueued, MsInv, UpgradeHolds
  <1>3. PICK t \in Upgrades, eta \in {now + Delay} : t = upgrades[k].target /\ eta = now + Delay
    BY <1>2 DEF UpgradeRecord
  <1> DEFINE op == OpOf(t)
             e0 == <<op, eta>>
             r  == [upgrades[k] EXCEPT !.queued = TRUE]
  <1>4. /\ upgrades' = [upgrades EXCEPT ![k] = r] /\ txCounter' = txCounter
        /\ UNCHANGED <<signers, threshold, pendingTx, execLog>>
        /\ pending' = pending \cup {e0} /\ e0 \notin pending
    BY <1>3 DEF ExecuteUpgrade, MarkUpgradeQueued, QueueOperation, EtaOf, NotQueued, OpOf
  <1>5. /\ r \in UpgradeRecord /\ r.queued /\ r.target = t
        /\ r.signatures = upgrades[k].signatures
    BY <1>2, <1>3 DEF UpgradeRecord
  <1>6. upgrades \in [ItemIds -> UpgradeRecord \cup {NoItem}]
    BY <1>1 DEF MsInv
  <1> HIDE DEF r
  <1>7. MsInv'
    <2>1. txCounter' \in 0 .. MaxItems /\ txCounter <= txCounter' /\ k <= txCounter'
      BY <1>2, <1>4
    <2>2. Signed(r.signatures) /\ EnoughSignatures(r.signatures)
      BY <1>2, <1>5
    <2> QED
      BY <1>1, <1>4, <1>5, <2>1, <2>2, OneUpgradeStep
  <1>8. /\ QueuedFor(t)' = QueuedFor(t) \cup {k} /\ k \notin QueuedFor(t)
        /\ \A z \in Upgrades : z # t => QueuedFor(z)' = QueuedFor(z)
    <2>1. /\ upgrades'[k] = r /\ r # NoItem
          /\ \A id \in ItemIds : id # k => upgrades'[id] = upgrades[id]
      BY <1>4, <1>5, <1>6, MultiSigAssumption
    <2>2. k \notin QueuedFor(t)
      BY <1>2 DEF QueuedFor
    <2>3. \A z \in Upgrades :
            QueuedFor(z)' = {id \in ItemIds : /\ upgrades'[id] # NoItem
                                              /\ upgrades'[id].queued
                                              /\ upgrades'[id].target = z}
      BY DEF QueuedFor, ItemIds
    <2> QED
      BY <1>2, <1>3, <1>5, <2>1, <2>2, <2>3 DEF QueuedFor
  <1> HIDE DEF e0
  <1>9. \A z \in Upgrades : QueuedFor(z) # {} => QueuedFor(z)' # {}
    BY <1>8
  <1>10. Approved \subseteq Approved'
    BY <1>9 DEF Approved
  <1>11. op \in Approved'
    BY <1>8 DEF Approved
  <1>12. IsFiniteSet(pending) /\ IsFiniteSet(pending')
    BY <1>4, FS_AddElement DEF PipeInv
  <1>13. \A e \in pending' : e[1] \in Approved'
    <2>1. ASSUME NEW e \in pending' PROVE e[1] = op \/ e[1] \in Approved
      BY <1>4 DEF PipeInv, e0
    <2> HIDE DEF op
    <2> QED
      BY <2>1, <1>10, <1>11
  <1>14. \A i \in DOMAIN execLog' : execLog'[i].op \in Approved' /\ execLog'[i].at >= Delay
    <2>1. \A i \in DOMAIN execLog' : execLog'[i].op \in Approved /\ execLog'[i].at >= Delay
      BY <1>4 DEF PipeInv
    <2> QED
      BY <2>1, <1>10
  <1>15. ASSUME NEW z \in Upgrades PROVE Counted(z)'
    <2> DEFINE o == OpOf(z)
    <2>1. Counted(z) /\ Ran(o)' = Ran(o)
      BY <1>4 DEF PipeInv, Ran, OpOf
    <2>2. IsFiniteSet(Waiting(o)) /\ IsFiniteSet(QueuedFor(z)) /\ IsFiniteSet(Ran(o))
      <3>1. Waiting(o) \subseteq pending /\ QueuedFor(z) \subseteq 1 .. MaxItems
        BY DEF Waiting, QueuedFor, ItemIds
      <3>2. Ran(o) \subseteq 1 .. Len(execLog) /\ Len(execLog) \in Nat
        BY DEF Ran, PipeInv, LogTypeOK
      <3>3. IsFiniteSet(1 .. MaxItems) /\ IsFiniteSet(1 .. Len(execLog))
        BY <3>2, MultiSigAssumption, FS_Interval
      <3>4. IsFiniteSet(Waiting(o))
        BY <1>12, <3>1, FS_Subset
      <3>5. IsFiniteSet(QueuedFor(z))
        BY <3>1, <3>3, FS_Subset
      <3> QED
        BY <3>2, <3>3, <3>4, <3>5, FS_Subset
    <2>3. /\ Cardinality(Waiting(o)) \in Nat /\ Cardinality(QueuedFor(z)) \in Nat
          /\ Cardinality(Ran(o)) \in Nat
      BY <2>2, FS_CardinalityType
    <2>4. CASE z # t
      <3>1. o # op
        BY <2>4, GovernanceAssumption DEF OpOf, UpgradeProxy
      <3>2. Waiting(o)' = Waiting(o)
        BY <1>4, <3>1 DEF Waiting, e0, OpOf
      <3>3. QueuedFor(z)' = QueuedFor(z)
        BY <1>8, <2>4
      <3> QED
        BY <2>1, <3>2, <3>3 DEF Counted, OpOf
    <2>5. CASE z = t
      <3>1. Waiting(o)' = Waiting(o) \cup {e0} /\ e0 \notin Waiting(o)
        BY <1>4, <2>5 DEF Waiting, e0, OpOf
      <3>2. QueuedFor(z)' = QueuedFor(z) \cup {k} /\ k \notin QueuedFor(z)
        BY <1>8, <2>5
      <3>3. Cardinality(Waiting(o)') = Cardinality(Waiting(o)) + 1
        BY <2>2, <3>1, FS_AddElement
      <3>4. Cardinality(QueuedFor(z)') = Cardinality(QueuedFor(z)) + 1
        BY <2>2, <3>2, FS_AddElement
      <3> QED
        BY <2>1, <2>3, <3>3, <3>4 DEF Counted, OpOf
    <2> QED
      BY <2>4, <2>5
  <1>16. \A z \in Upgrades : Counted(z)'
    BY <1>15
  <1> QED
    BY <1>7, <1>12, <1>13, <1>14, <1>16 DEF PipeInv

\* Every step of the composition keeps both invariants.
LEMMA PipeInductive == ASSUME IInv, PipeInv, [Next]_vars PROVE IInv' /\ PipeInv'
  <1>1. LogTypeOK /\ MsInv
    BY DEF PipeInv
  <1>2. CASE MultiSigStep /\ UNCHANGED tlVars
    <2>1. MsInv' /\ \A target : QueuedFor(target)' = QueuedFor(target)
      BY <1>1, <1>2, MsStep
    <2>2. IInv' /\ LogTypeOK'
      BY <1>2, IdleStep DEF tlVars, IInv
    <2> QED
      BY <1>2, <2>1, <2>2, PipeKept DEF tlVars
  <1>3. ASSUME MsInv', \A target : QueuedFor(target)' = QueuedFor(target),
               UNCHANGED <<pending, execLog, queueLog>>, IInv'
        PROVE  PipeInv'
    BY <1>3, PipeKept DEF IInv
  <1>4. UNCHANGED msVars => MsInv' /\ \A target : QueuedFor(target)' = QueuedFor(target)
    BY <1>1 DEF msVars, MsInv, TxHolds, UpgradeHolds, Signed, EnoughSignatures, QueuedFor,
                ItemIds
  <1>5. CASE OpenStep /\ UNCHANGED msVars
    <2>1. IInv' /\ LogTypeOK'
      BY <1>5, Inductive DEF TimelockNext, IInv
    <2>2. ASSUME UNCHANGED <<pending, execLog, queueLog>> PROVE PipeInv'
      BY <1>3, <1>4, <1>5, <2>1, <2>2
    <2>3. ASSUME NEW op \in Operations, NEW eta \in Etas,
                 NEW target \in Factories \cup Proxies, Dequeue(op, eta, target)
          PROVE  PipeInv'
      BY <1>5, <2>1, <2>3, DequeueMoves
    <2> QED
      BY <1>5, <2>1, <2>2, <2>3
      DEF OpenStep, Tick, ExecuteUpdate, ExecuteUpgradeProxy, CreateToken, Operations
  <1>6. ASSUME NEW u \in Signers, NEW k \in ItemIds, ExecuteUpgrade(u, k)
        PROVE  IInv' /\ PipeInv'
    <2>1. PICK t \in Upgrades : t = upgrades[k].target
      BY <1>1, <1>6, ItemsTyped DEF ExecuteUpgrade, MarkUpgradeQueued, UpgradeRecord
    <2>2. OpOf(t) \in Operations /\ QueueOperation(OpOf(t))
      BY <1>6, <2>1, GovernanceAssumption DEF ExecuteUpgrade, OpOf, Operations, UpgradeOps
    <2>3. IInv' /\ LogTypeOK'
      BY <2>2, QueueStep DEF IInv
    <2> QED
      BY <1>6, <2>3, QueueAdds
  <1>7. CASE UNCHANGED vars
    <2>1. UNCHANGED msVars /\ UNCHANGED tlVars
      BY <1>7 DEF vars
    <2>2. IInv'
      BY <2>1, IdleStep DEF tlVars
    <2> QED
      BY <1>3, <1>4, <2>1, <2>2 DEF tlVars
  <1> QED
    BY <1>2, <1>5, <1>6, <1>7 DEF Next

\* The invariant of the composition holds throughout.
LEMMA PipeInvariance == Spec => []PipeInv
  <1>1. Init => IInv /\ PipeInv
    BY InitPipe, InitEstablishes DEF Init
  <1>2. IInv /\ PipeInv /\ [Next]_vars => IInv' /\ PipeInv'
    BY PipeInductive
  <1> QED
    BY <1>1, <1>2, PTL DEF Spec

\* For any list of signers, with repetitions or without, any threshold and any
\* delay: every upgrade the timelock executed was queued for it by a proposal
\* that different listed signers signed, as many as the threshold, and no
\* earlier than the delay (multisig/src/lib.rs:140-200, timelock.rs).
THEOREM UpgradesAreGoverned == Spec => []UpgradeNeedsQuorumAndDelay
  BY PipeInvariance, PipeInvSuffices, PTL

\* A proposal upgrades a proxy at most once: the queued proposals for an upgrade
\* are as many as its entries, waiting and executed.
THEOREM ProposalsAreSpent == Spec => []OneProposalOneUpgrade
  BY PipeInvariance, PipeInvSuffices, PTL

\* Every generic transaction that was executed had its quorum.
THEOREM TransactionsHadQuorum == Spec => []ExecutedWithQuorum
  BY PipeInvariance, PipeInvSuffices, PTL

\* The pipeline as the run checks it, beside a timelock with a single admin.
THEOREM PipelineGoverned == MCSpec => []PipelineHolds
  <1> DEFINE K == scenario = "pipeline" => IInv /\ PipeInv
  <1>1. MCInit => K
    BY InitPipe, InitEstablishes DEF MCInit, Init
  <1>2. K /\ [MCNext]_<<vars, scenario>> => K'
    BY PipeInductive DEF MCNext, PipelineStep, AdminScenarioStep
  <1>3. K => PipelineHolds
    BY PipeInvSuffices DEF PipelineHolds
  <1> QED
    BY <1>1, <1>2, <1>3, PTL DEF MCSpec

-----------------------------------------------------------------------------
(* The timelock under the multisig is the timelock: whatever its admin is, it  *)
(* takes its own steps.                                                        *)

\* A step of the composition is a step of the timelock or leaves it alone.
LEMMA NextIsTimelockNext == ASSUME PipeInv, [Next]_vars PROVE [TimelockNext]_tlVars
  <1>1. ASSUME NEW u \in Signers, NEW k \in ItemIds, ExecuteUpgrade(u, k)
        PROVE  TimelockNext
    <2>1. PICK t \in Upgrades : t = upgrades[k].target
      BY <1>1, ItemsTyped DEF ExecuteUpgrade, MarkUpgradeQueued, UpgradeRecord, PipeInv
    <2>2. OpOf(t) \in Operations /\ QueueOperation(OpOf(t))
      BY <1>1, <2>1, GovernanceAssumption DEF ExecuteUpgrade, OpOf, Operations, UpgradeOps
    <2> QED
      BY <2>2 DEF TimelockNext, AdminStep
  <1> QED
    BY <1>1 DEF Next, vars, TimelockNext

\* The pipeline implements the timelock: the multisig can make its timelock do
\* nothing the timelock alone could not (multisig/src/lib.rs:171-200 only calls
\* queue_operation).
THEOREM PipelineImplementsTimelock == Spec => TimelockSpec
  <1>1. Init => TimelockInit
    BY DEF Init
  <1>2. PipeInv /\ [Next]_vars => [TimelockNext]_tlVars
    BY NextIsTimelockNext
  <1> QED
    BY <1>1, <1>2, PipeInvariance, PTL DEF Spec, TimelockSpec
=============================================================================
