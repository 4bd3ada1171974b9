------------------------------ MODULE Timelock ------------------------------
(***************************************************************************)
(* The governance timelock (contracts/timelock) together with the two      *)
(* kinds of contract it administers: token factories                       *)
(* (contracts/factory), whose code hash it updates, and upgradeable        *)
(* proxies (contracts/upgradeable), whose implementation it replaces.      *)
(* Every contract here is deployed and initialised, and the factories and  *)
(* proxies have the timelock as their administrator.                       *)
(*                                                                         *)
(* A queued operation is stored under a hash of the operation and its eta; *)
(* the hash is taken to be injective, so pending is a set of such pairs.   *)
(***************************************************************************)
EXTENDS Integers, Sequences, FiniteSets

CONSTANTS
    Factories,      \* factory contracts the timelock administers
    Proxies,        \* proxies the timelock administers
    Hashes,         \* WASM hashes
    InitialHash,    \* the hash every factory and proxy starts with
    Schema,         \* SCHEMA_VERSION of the code each hash stands for
    Salts,          \* salts for token deployments
    Delay,          \* DELAY, 48 hours in units of the model's clock
    MaxTime,        \* bound on the ledger timestamp
    MaxQueued       \* bound on the number of queue_operation calls

ASSUME TimelockAssumption ==
    /\ InitialHash \in Hashes /\ Schema \in [Hashes -> Nat]
    /\ Delay \in Nat \ {0} /\ MaxTime \in Nat /\ MaxQueued \in Nat

VARIABLES
    now,            \* e.ledger().timestamp()
    pending,        \* DataKey::Op: queued <<operation, eta>> pairs
    wasmHash,       \* per factory, ConfigKey::WasmHash
    tokens,         \* per factory, ConfigKey::Tokens with the code each runs and,
                    \* as history, how many executions preceded it
    impl,           \* per proxy, its code, ConfigKey::ImplVersion and
                    \* ConfigKey::SchemaVersion
    queueLog,       \* history: every queue_operation, with its time
    execLog         \* history: every execution, in order

targets == <<wasmHash, tokens, impl>>
tlVars == <<now, pending, targets, queueLog, execLog>>

UpdateWasmHash(h) == [kind |-> "UpdateWasmHash", hash |-> h]
UpgradeProxy(p, h) == [kind |-> "UpgradeProxy", proxy |-> p, hash |-> h]

UpdateOps == {UpdateWasmHash(h) : h \in Hashes}
UpgradeOps == {UpgradeProxy(p, h) : p \in Proxies, h \in Hashes}
Operations == UpdateOps \cup UpgradeOps

Etas == Delay .. MaxTime + Delay

-----------------------------------------------------------------------------
(* Faulty variants of the definitions below, each caught by a property. *)

AlwaysDue(eta) == TRUE
QueuesAgain(op, eta) == TRUE
KeepsOperation(op, eta) == pending
IgnoresFailure(code) == FALSE

-----------------------------------------------------------------------------
\* When an operation queued at t may be executed.
EtaOf(t) == t + Delay

Due(eta) == now >= eta

NotQueued(op, eta) == <<op, eta>> \notin pending

\* Removing the key is what prevents a second execution.
PendingWithout(op, eta) == pending \ {<<op, eta>>}

\* upgrade: the code is swapped and the swap counted; the storage stays.
Swapped(code, h) == [hash |-> h, version |-> code.version + 1, schema |-> code.schema]

\* migrate, run by the new code: it does not know a schema later than its own.
MigrateFails(code) == code.schema > Schema[code.hash]

Migrated(code) ==
    IF code.schema < Schema[code.hash] THEN [code EXCEPT !.schema = Schema[code.hash]]
    ELSE code

-----------------------------------------------------------------------------
TimelockInit ==
    /\ now = 0
    /\ pending = {}
    /\ wasmHash = [f \in Factories |-> InitialHash]
    /\ tokens = [f \in Factories |-> <<>>]
    /\ impl = [p \in Proxies |-> [hash |-> InitialHash, version |-> 1,
                                  schema |-> Schema[InitialHash]]]
    /\ queueLog = {}
    /\ execLog = <<>>

Tick ==
    /\ now < MaxTime
    /\ now' = now + 1
    /\ UNCHANGED <<pending, targets, queueLog, execLog>>

\* queue_operation; the caller is the timelock's admin.
QueueOperation(op) ==
    LET eta == EtaOf(now) IN
    /\ Cardinality(queueLog) < MaxQueued
    /\ NotQueued(op, eta)
    /\ pending' = pending \cup {<<op, eta>>}
    /\ queueLog' = queueLog \cup {[op |-> op, eta |-> eta, at |-> now]}
    /\ UNCHANGED <<now, targets, execLog>>

\* cancel_operation; the caller is the timelock's admin.
CancelOperation(op, eta) ==
    /\ <<op, eta>> \in pending
    /\ pending' = PendingWithout(op, eta)
    /\ UNCHANGED <<now, targets, queueLog, execLog>>

\* execute_operation up to the call it makes: anybody may call it.
Dequeue(op, eta, target) ==
    /\ <<op, eta>> \in pending
    /\ Due(eta)
    /\ pending' = PendingWithout(op, eta)
    /\ execLog' = Append(execLog, [op |-> op, eta |-> eta, at |-> now, target |-> target])
    /\ UNCHANGED <<now, queueLog>>

\* execute_operation of an UpdateWasmHash, which calls update_wasm_hash on the
\* factory the caller names.
ExecuteUpdate(f, op, eta) ==
    /\ op \in UpdateOps
    /\ Dequeue(op, eta, f)
    /\ wasmHash' = [wasmHash EXCEPT ![f] = op.hash]
    /\ UNCHANGED <<tokens, impl>>

\* execute_operation of an UpgradeProxy: the target must be the queued proxy;
\* upgrade and migrate run in the same transaction, which a migration that
\* panics takes back as a whole: the operation is pending still.
ExecuteUpgradeProxy(target, op, eta) ==
    /\ op \in UpgradeOps
    /\ target = op.proxy
    /\ Dequeue(op, eta, target)
    /\ ~MigrateFails(Swapped(impl[target], op.hash))
    /\ impl' = [impl EXCEPT ![target] = Migrated(Swapped(@, op.hash))]
    /\ UNCHANGED <<wasmHash, tokens>>

\* create_token and create_token_with_multisig: the host refuses to deploy
\* twice under one salt.
CreateToken(f, salt) ==
    /\ \A i \in DOMAIN tokens[f] : tokens[f][i].salt # salt
    /\ tokens' = [tokens EXCEPT ![f] = Append(@, [salt |-> salt, code |-> wasmHash[f],
                                                      after |-> Len(execLog)])]
    /\ UNCHANGED <<now, pending, wasmHash, impl, queueLog, execLog>>

\* What anybody can make happen.
OpenStep ==
    \/ Tick
    \/ \E f \in Factories, op \in UpdateOps, eta \in Etas : ExecuteUpdate(f, op, eta)
    \/ \E p \in Proxies, op \in UpgradeOps, eta \in Etas : ExecuteUpgradeProxy(p, op, eta)
    \/ \E f \in Factories, salt \in Salts : CreateToken(f, salt)

\* What only the timelock's admin can.
AdminStep ==
    \/ \E op \in Operations : QueueOperation(op)
    \/ \E op \in Operations, eta \in Etas : CancelOperation(op, eta)

TimelockNext == OpenStep \/ AdminStep

TimelockSpec == TimelockInit /\ [][TimelockNext]_tlVars

-----------------------------------------------------------------------------
(* Properties. *)

TimelockTypeOK ==
    /\ now \in 0 .. MaxTime
    /\ pending \subseteq Operations \X Etas
    /\ wasmHash \in [Factories -> Hashes]
    /\ \A f \in Factories : tokens[f] \in Seq([salt : Salts, code : Hashes, after : Nat])
    /\ impl \in [Proxies -> [hash : Hashes, version : Nat \ {0}, schema : Nat]]
    /\ queueLog \subseteq [op : Operations, eta : Etas, at : 0 .. MaxTime]
    /\ execLog \in Seq([op : Operations, eta : Etas, at : 0 .. MaxTime,
                        target : Factories \cup Proxies])

\* No operation takes effect before the community had the full delay to react:
\* everything executed was queued at least Delay earlier (timelock.rs:1-12).
DelayRespected ==
    \A i \in DOMAIN execLog :
        \E q \in queueLog :
            /\ q.op = execLog[i].op /\ q.eta = execLog[i].eta
            /\ execLog[i].at >= q.at + Delay

\* An operation queued for one eta takes effect at most once, even though the
\* admin may cancel and queue it again: "prevents replay" (timelock.rs:73-75).
ExecutedOnce ==
    \A i, j \in DOMAIN execLog :
        execLog[i].op = execLog[j].op /\ execLog[i].eta = execLog[j].eta => i = j

\* The executions of ops on a target among the first n of the log.
RunsOf(log, target, ops, n) ==
    {i \in 1 .. n : log[i].target = target /\ log[i].op \in ops}

\* h is what the last of them put in place, or the initial hash.
IsLastOf(log, target, ops, n, h) ==
    LET runs == RunsOf(log, target, ops, n)
    IN  /\ runs = {} => h = InitialHash
        /\ \A i \in runs : (\A j \in runs : j <= i) => h = log[i].op.hash

FactoryIsGoverned(f) ==
    /\ IsLastOf(execLog, f, UpdateOps, Len(execLog), wasmHash[f])
    /\ \A k \in DOMAIN tokens[f] :
         IsLastOf(execLog, f, UpdateOps, tokens[f][k].after, tokens[f][k].code)

ProxyIsGoverned(p) ==
    LET runs == RunsOf(execLog, p, UpgradeOps, Len(execLog))
    IN  /\ IsLastOf(execLog, p, UpgradeOps, Len(execLog), impl[p].hash)
        /\ impl[p].version = 1 + Cardinality(runs)
        /\ impl[p].schema = Schema[impl[p].hash]
        /\ \A i \in runs : Schema[execLog[i].op.hash] <= impl[p].schema

\* A factory names the code of the last operation executed on it, and every
\* token runs the code that was the last when it was deployed.  A proxy runs
\* the code of the last upgrade executed on it, counts the upgrades, and its
\* storage has the schema of that code, the latest of all it ran: a swap never
\* stands without its migration, and no execution goes back to an earlier
\* schema (timelock.rs:186-221, upgradeable/src/lib.rs:111-174).
CodeIsGoverned ==
    /\ \A f \in Factories : FactoryIsGoverned(f)
    /\ \A p \in Proxies : ProxyIsGoverned(p)
=============================================================================
