------------------------------ MODULE AccountBatch ------------------------------
(***************************************************************************)
(* Batches submitted for one Stellar account: the Redis lock of            *)
(* server/services/lock-service.js, the handlers that submit for the       *)
(* account (server/routes/batch-routes.js, under the lock, and             *)
(* server/routes/nft-routes.js, without it) and the submission of          *)
(* server/services/stellar-service.js with its failover and retries.       *)
(*                                                                         *)
(* The lock lasts TTL and is never renewed; the calls made under it are    *)
(* retried with back-off and may take longer.  Redis and the RPC endpoints *)
(* may fail, and may fail after having done what was asked.  A process may *)
(* crash at any await.  The answer of a SET that took effect may arrive    *)
(* after the key is gone.  A transaction the network takes is pending      *)
(* until a ledger includes it; the code does not wait for that.  The       *)
(* network, with the account's sequence number, is external.  Time is kept *)
(* relative, as what remains of the lock and the time since it was set.    *)
(***************************************************************************)
EXTENDS Integers, FiniteSets

CONSTANTS
    Batches,        \* requests to POST /tokens/batch
    NftBatches,     \* requests to POST /nfts/batch for the same account
    None,           \* no lock value, no answer, no user of a sequence number
    TTL,            \* the ttl of acquireLock
    Retries,        \* retries of acquireLock
    Resends         \* retries of one call over all RPC endpoints

Requests == Batches \cup NftBatches

ASSUME AccountBatchAssumption ==
    /\ Batches \cap NftBatches = {} /\ None \notin Requests
    /\ TTL \in Nat \ {0} /\ Retries \in Nat /\ Resends \in Nat
    /\ IsFiniteSet(Requests)

VARIABLES
    lock,           \* the value under lock:<account>: the request that set it
    left,           \* what remains of its time to live
    sequence,       \* the account's sequence number on the network
    user,           \* history: the request that used each sequence number
    pc,             \* where each request is
    tries,          \* the attempt of the loop it is in
    read,           \* the sequence number its transaction was built with
    pending,        \* the transactions the network has taken and no ledger has
                    \* included yet
    behind,         \* history: whose were pending when a request read its number
    held            \* time since Redis set each batch's lock, at most TTL

network == <<sequence, user, pending>>
redis == <<lock, left>>
local == <<pc, tries, read, behind, held>>
vars == <<redis, network, local>>

\* Every request uses at most one sequence number.
Sequences == 0 .. Cardinality(Requests)

Transactions == [by : Requests, number : Sequences]

\* The request has learnt that it has the lock and has not released it.
Working(r) == pc[r] \in {"locked", "built", "recording"}

\* Redis has set its lock for it, and it knows or may still come to know.
Granted(r) == pc[r] = "granted" \/ Working(r)

-----------------------------------------------------------------------------
(* Faulty variants of the definitions below: what the checks must notice.  *)

AlwaysFree(r) == TRUE
ForgetsAttempt(n) == n

-----------------------------------------------------------------------------
(* The lock. *)

\* SET NX: the key must be absent.
Free(r) == lock = None

SetLock(r) ==
    /\ lock' = r
    /\ left' = TTL
    /\ held' = [held EXCEPT ![r] = 0]

\* The release script deletes the key only while it holds the caller's value.
AfterRelease(r) == IF lock = r THEN None ELSE lock

\* The key goes when its time to live is over.
AfterTick == IF left = 1 THEN None ELSE lock

NextAttempt(n) == n + 1

\* Another attempt of acquireLock, or its end: 409 when the lock was busy,
\* the error otherwise.
TryAgain(r) ==
    \/ /\ tries[r] < Retries
       /\ tries' = [tries EXCEPT ![r] = NextAttempt(@)]
       /\ pc' = [pc EXCEPT ![r] = "acquiring"]
    \/ /\ tries[r] >= Retries
       /\ tries' = [tries EXCEPT ![r] = 0]
       /\ pc' = [pc EXCEPT ![r] = "done"]

\* Redis carries out the SET: the time to live begins here.
GrantLock(r) ==
    /\ pc[r] = "acquiring"
    /\ Free(r)
    /\ SetLock(r)
    /\ pc' = [pc EXCEPT ![r] = "granted"]
    /\ UNCHANGED <<network, tries, read, behind>>

\* Its OK arrives, however late: the handler goes on as the holder of the lock.
LearnOfLock(r) ==
    /\ pc[r] = "granted"
    /\ pc' = [pc EXCEPT ![r] = "locked"]
    /\ tries' = [tries EXCEPT ![r] = 0]
    /\ UNCHANGED <<redis, network, read, behind, held>>

FindBusy(r) ==
    /\ pc[r] = "acquiring"
    /\ ~Free(r)
    /\ TryAgain(r)
    /\ UNCHANGED <<redis, network, read, behind, held>>

\* The call throws, perhaps after the key was set: the value is not known to
\* be the caller's and finds itself busy at the next attempt.
FailToAcquire(r) ==
    /\ pc[r] \in {"acquiring", "granted"}
    /\ TryAgain(r)
    /\ UNCHANGED <<redis, network, read, behind, held>>

ReleaseLock(r) ==
    /\ pc[r] = "releasing"
    /\ lock' = AfterRelease(r)
    /\ pc' = [pc EXCEPT ![r] = "done"]
    /\ UNCHANGED <<left, network, tries, read, behind, held>>

\* Redis fails: the error is logged and the lock is left to expire.
FailToRelease(r) ==
    /\ pc[r] = "releasing"
    /\ pc' = [pc EXCEPT ![r] = "done"]
    /\ UNCHANGED <<redis, network, tries, read, behind, held>>

-----------------------------------------------------------------------------
(* The submission. *)

\* What a handler knew is gone with it.
Forget(r) ==
    /\ tries' = [tries EXCEPT ![r] = 0]
    /\ read' = [read EXCEPT ![r] = 0]
    /\ behind' = [behind EXCEPT ![r] = {}]

\* The handler is over, but for its audit record.  Only a batch has a lock to
\* release.
Finish(r) ==
    /\ pc' = [pc EXCEPT ![r] = IF r \in Batches THEN "releasing" ELSE "done"]
    /\ Forget(r)

\* getAccount, and the transaction built on the number it returns, which is
\* that of the last ledger.
Build(r) ==
    /\ pc[r] = IF r \in Batches THEN "locked" ELSE "acquiring"
    /\ read' = [read EXCEPT ![r] = sequence]
    /\ behind' = [behind EXCEPT ![r] = {t.by : t \in pending}]
    /\ pc' = [pc EXCEPT ![r] = "built"]
    /\ UNCHANGED <<redis, network, tries, held>>

\* getAccount or the simulation fails for good.
FailToBuild(r) ==
    /\ \/ pc[r] \in {"locked", "built"} /\ tries[r] = 0
       \/ pc[r] = "acquiring" /\ r \in NftBatches
    /\ Finish(r)
    /\ UNCHANGED <<redis, network, held>>

\* The network takes a transaction whose sequence number is the next one: it
\* is pending then, or it is known already, or it was not taken.
Send(r) ==
    /\ \/ /\ read[r] = sequence
          /\ pending' = pending \cup {[by |-> r, number |-> read[r]]}
       \/ UNCHANGED pending
    /\ UNCHANGED <<sequence, user>>

\* sendTransaction is answered PENDING, DUPLICATE or TRY_AGAIN_LATER.
Submitted(r) ==
    /\ pc[r] = "built"
    /\ Send(r)
    /\ pc' = [pc EXCEPT ![r] = "recording"]
    /\ tries' = [tries EXCEPT ![r] = 0]
    /\ UNCHANGED <<redis, read, behind, held>>

\* sendTransaction is answered ERROR, for a reason of the network's own or for
\* a number that the transaction itself has used.
Rejected(r) ==
    /\ pc[r] = "built"
    /\ Finish(r)
    /\ UNCHANGED <<redis, network, held>>

\* The call fails, perhaps after the network took the transaction; it is sent
\* again, here or to the next endpoint, until the attempts are used up.
SendFails(r) ==
    /\ pc[r] = "built"
    /\ Send(r)
    /\ \/ /\ tries[r] < Resends
          /\ tries' = [tries EXCEPT ![r] = NextAttempt(@)]
          /\ UNCHANGED <<pc, read, behind>>
       \/ tries[r] >= Resends /\ Finish(r)
    /\ UNCHANGED <<redis, held>>

\* A batch saves its referral rewards, or saving them throws: the handler is
\* over either way.
Record(r) ==
    /\ pc[r] = "recording"
    /\ Finish(r)
    /\ UNCHANGED <<redis, network, held>>

\* The server process dies.
Crash(r) ==
    /\ pc[r] # "done"
    /\ pc' = [pc EXCEPT ![r] = "done"]
    /\ Forget(r)
    /\ UNCHANGED <<redis, network, held>>

-----------------------------------------------------------------------------
(* The network. *)

\* A ledger includes a pending transaction.
Include(t) ==
    /\ t.number = sequence
    /\ pending' = pending \ {t}
    /\ sequence' = sequence + 1
    /\ user' = [user EXCEPT ![sequence] = t.by]
    /\ UNCHANGED <<redis, local>>

\* A pending transaction is dropped: its number is used, its time (setTimeout)
\* is over, or others paid more.
Drop(t) ==
    /\ pending' = pending \ {t}
    /\ UNCHANGED <<redis, sequence, user, local>>

Older(n) == IF n < TTL THEN n + 1 ELSE n

Tick ==
    /\ left' = IF left > 0 THEN left - 1 ELSE 0
    /\ lock' = AfterTick
    /\ held' = [r \in Batches |-> IF Granted(r) THEN Older(held[r]) ELSE held[r]]
    /\ UNCHANGED <<network, pc, tries, read, behind>>

-----------------------------------------------------------------------------

Init ==
    /\ lock = None /\ left = 0
    /\ sequence = 0
    /\ user = [n \in Sequences |-> None]
    /\ pc = [r \in Requests |-> "acquiring"]
    /\ tries = [r \in Requests |-> 0]
    /\ read = [r \in Requests |-> 0]
    /\ pending = {}
    /\ behind = [r \in Requests |-> {}]
    /\ held = [r \in Batches |-> 0]

Lock(r) == GrantLock(r) \/ LearnOfLock(r) \/ FindBusy(r) \/ FailToAcquire(r)

Release(r) == ReleaseLock(r) \/ FailToRelease(r)

Submit(r) ==
    \/ Build(r) \/ FailToBuild(r) \/ Submitted(r) \/ Rejected(r)
    \/ SendFails(r) \/ Record(r)

Step(r) == Submit(r) \/ (r \in Batches /\ (Lock(r) \/ Release(r)))

Next ==
    \/ Tick
    \/ \E r \in Requests : Step(r) \/ Crash(r)
    \/ \E t \in pending : Include(t) \/ Drop(t)

Spec == Init /\ [][Next]_vars

\* Every await of a handler returns or throws, and time passes.
Fairness == WF_vars(Tick) /\ \A r \in Requests : WF_vars(Step(r))

FairSpec == Spec /\ Fairness

-----------------------------------------------------------------------------
(* Properties. *)

\* Type invariant, with the lock present exactly while it has time left.
TypeOK ==
    /\ lock \in Batches \cup {None} /\ left \in 0 .. TTL
    /\ lock # None => left > 0
    /\ sequence \in Sequences
    /\ user \in [Sequences -> Requests \cup {None}]
    /\ pc \in [Requests -> {"acquiring", "granted", "locked", "built", "recording", "releasing", "done"}]
    /\ tries \in [Requests -> 0 .. (IF Retries > Resends THEN Retries ELSE Resends)]
    /\ read \in [Requests -> Sequences]
    /\ pending \subseteq Transactions /\ behind \in [Requests -> SUBSET Requests]
    /\ held \in [Batches -> 0 .. TTL]

\* Until the TTL has passed since Redis set its lock, a batch at work has the
\* lock and is alone with it, whatever Redis does and whoever releases late:
\* the release script never frees a lock that expired and is now another's
\* (lock-service.js 12-21, 96-129).
OneHolderWithinTTL ==
    \A r \in Batches : Working(r) /\ held[r] < TTL => lock = r

\* The lock of the service is a lease of TTL to each batch, counted from when
\* Redis sets the key to when the batch is done or gives up: no two terms
\* overlap, whatever Redis does, and however late an answer or a release
\* comes.  The batch cannot see its term: an OK that arrives after the key
\* expired sets it to work without a lease (lock-service.js 12-21, 47-129).
RedisLease == INSTANCE Lease WITH
    Clients <- Batches, Term <- TTL,
    spent <- [r \in Batches |-> IF Granted(r) THEN held[r] ELSE TTL]

LockIsLease == RedisLease!LeaseSpec

\* Among the requests that take the lock, one that is about to submit finds
\* its sequence number used by another in two ways only: one of the two had
\* outlived its lock, or the other had released it while its transaction was
\* still pending, before this one read the number.  The lock does not keep
\* the second from happening, since it is released on PENDING
\* (batch-routes.js 50-137, stellar-service.js 162-263).
StolenOnlyInTwoWays ==
    \A r \in Batches :
        LET s == user[read[r]]
        IN  pc[r] = "built" /\ s \in Batches \ {r}
              => held[r] = TTL \/ held[s] = TTL \/ s \in behind[r]

\* At last every request has been answered and the lock is nobody's, also
\* when its holder crashed, when its release failed and when nobody learnt
\* that it was set: the lock expires (the PX of lock-service.js 53-58), and
\* acquiring and sending give up after a bounded number of attempts
\* (lock-service.js 51-84, retry.js 21-45).
EverythingEnds == <>[](lock = None /\ \A r \in Requests : pc[r] = "done")
=============================================================================
