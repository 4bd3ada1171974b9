--------------------------- MODULE AccountBatchProofs ---------------------------
(***************************************************************************)
(* What the lock of AccountBatch guarantees for any number of requests,    *)
(* any time to live and any number of retries.  The invariant ties the     *)
(* time since Redis set a batch's lock to the time the lock has left: as   *)
(* long as that time is below the TTL, the lock is its own.                *)
(***************************************************************************)
EXTENDS AccountBatch, FiniteSetTheorems, TLAPS

Places == {"acquiring", "granted", "locked", "built", "recording", "releasing", "done"}

LockTypes ==
    /\ lock \in Batches \cup {None} /\ left \in 0 .. TTL
    /\ pc \in [Requests -> Places]
    /\ held \in [Batches -> 0 .. TTL]

HoldsOwnLock ==
    \A r \in Batches :
        Granted(r) /\ held[r] < TTL => lock = r /\ left = TTL - held[r]

Inv == LockTypes /\ HoldsOwnLock

-----------------------------------------------------------------------------

\* A step that leaves the lock and the working times alone and lets nobody
\* start to work under the lock keeps the invariant.
LEMMA MoveOn ==
    ASSUME Inv, UNCHANGED <<lock, left, held>>, pc' \in [Requests -> Places],
           \A r \in Batches : Granted(r)' => Granted(r)
    PROVE  Inv'
<1>1. LockTypes'
      BY DEF Inv, LockTypes
<1>2. HoldsOwnLock'
      BY DEF Inv, HoldsOwnLock
<1>3. QED
      BY <1>1, <1>2 DEF Inv

\* Setting a free lock starts the caller's time, and nobody else is within
\* its own.
LEMMA SettingTheLock ==
    ASSUME Inv, NEW r \in Batches, pc[r] = "acquiring", Free(r), SetLock(r),
           pc' \in [Requests -> Places],
           \A s \in Batches \ {r} : Granted(s)' => Granted(s)
    PROVE  Inv'
<1>1. r \in Requests /\ TTL \in Nat \ {0} /\ None \notin Batches
      BY AccountBatchAssumption DEF Requests
<1>2. lock' = r /\ left' = TTL /\ held' = [held EXCEPT ![r] = 0]
      BY DEF SetLock
<1>3. held \in [Batches -> 0 .. TTL]
      BY DEF Inv, LockTypes
<1>4. held' \in [Batches -> 0 .. TTL]
      BY <1>1, <1>2, <1>3
<1>5. LockTypes'
      BY <1>1, <1>2, <1>4 DEF LockTypes
<1>6. ASSUME NEW s \in Batches, Granted(s)', held'[s] < TTL
      PROVE  lock' = s /\ left' = TTL - held'[s]
  <2>1. CASE s = r
        BY <1>1, <1>2, <1>3, <2>1
  <2>2. CASE s # r
    <3>1. Granted(s) /\ held[s] < TTL
          BY <1>2, <1>3, <1>6, <2>2 DEF Requests
    <3>2. lock = s
          BY <3>1 DEF Inv, HoldsOwnLock
    <3>3. QED
          BY <1>1, <3>2 DEF Free
  <2>3. QED
        BY <2>1, <2>2
<1>7. HoldsOwnLock'
      BY <1>6 DEF HoldsOwnLock
<1>8. QED
      BY <1>5, <1>7 DEF Inv

\* The lock is free at first, and no batch is at work.
LEMMA InitInv == Init => Inv
<1> SUFFICES ASSUME Init PROVE Inv
    OBVIOUS
<1>1. TTL \in Nat \ {0}
      BY AccountBatchAssumption
<1>2. LockTypes
      BY <1>1 DEF Init, LockTypes, Places
<1>3. HoldsOwnLock
      BY DEF Init, HoldsOwnLock, Granted, Working, Requests
<1>4. QED
      BY <1>2, <1>3 DEF Inv

\* The steps of taking and giving back the lock.
LEMMA LockSteps ==
    ASSUME Inv, NEW r \in Batches, Lock(r) \/ Release(r)
    PROVE  Inv'
<1>1. r \in Requests /\ pc \in [Requests -> Places]
      BY DEF Inv, LockTypes, Requests
<1>2. CASE GrantLock(r)
  <2>1. pc' \in [Requests -> Places]
        BY <1>1, <1>2 DEF GrantLock, Places
  <2>2. \A s \in Batches \ {r} : Granted(s)' => Granted(s)
        BY <1>1, <1>2 DEF GrantLock, Granted, Working, Requests
  <2>3. QED
        BY <1>2, <2>1, <2>2, SettingTheLock DEF GrantLock
<1>3. CASE LearnOfLock(r)
  <2>1. pc[r] = "granted" /\ pc' = [pc EXCEPT ![r] = "locked"]
        BY <1>3 DEF LearnOfLock
  <2>2. pc' \in [Requests -> Places]
        BY <1>1, <2>1 DEF Places
  <2>3. \A s \in Batches : Granted(s)' => Granted(s)
        BY <1>1, <2>1 DEF Granted, Working, Requests
  <2>4. QED
        BY <1>3, <2>2, <2>3, MoveOn DEF LearnOfLock, redis
<1>4. ASSUME TryAgain(r)
      PROVE  /\ pc' \in [Requests -> Places]
             /\ \A s \in Batches : Granted(s)' => Granted(s)
      BY <1>1, <1>4 DEF TryAgain, Granted, Working, Requests, Places
<1>5. CASE FindBusy(r) \/ FailToAcquire(r)
  <2>1. TryAgain(r) /\ UNCHANGED <<lock, left, held>>
        BY <1>5 DEF FindBusy, FailToAcquire, redis
  <2>2. QED
        BY <1>4, <2>1, MoveOn
<1>6. ASSUME pc[r] = "releasing", pc' = [pc EXCEPT ![r] = "done"]
      PROVE  /\ pc' \in [Requests -> Places]
             /\ \A s \in Batches : Granted(s)' => Granted(s)
      BY <1>1, <1>6 DEF Granted, Working, Requests, Places
<1>7. CASE FailToRelease(r)
      BY <1>6, <1>7, MoveOn DEF FailToRelease, redis
<1>8. CASE ReleaseLock(r)
  <2>1. /\ pc[r] = "releasing" /\ pc' = [pc EXCEPT ![r] = "done"]
        /\ lock' = AfterRelease(r) /\ left' = left /\ held' = held
        BY <1>8 DEF ReleaseLock
  <2>2. LockTypes'
        BY <1>6, <2>1 DEF Inv, LockTypes, AfterRelease
  <2>3. ASSUME NEW s \in Batches, Granted(s)', held'[s] < TTL
        PROVE  lock' = s /\ left' = TTL - held'[s]
    <3>1. Granted(s) /\ held[s] < TTL
          BY <1>6, <2>1, <2>3
    <3>2. lock = s /\ left = TTL - held[s]
          BY <3>1 DEF Inv, HoldsOwnLock
    <3>3. s # r
          BY <2>1, <3>1 DEF Granted, Working
    <3>4. QED
          BY <2>1, <3>2, <3>3 DEF AfterRelease
  <2>4. QED
        BY <2>2, <2>3 DEF Inv, HoldsOwnLock
<1>9. QED
      BY <1>2, <1>3, <1>5, <1>7, <1>8 DEF Lock, Release

\* The steps of the submission do not touch the lock.
LEMMA SubmitSteps ==
    ASSUME Inv, NEW r \in Requests, Submit(r) \/ Crash(r)
    PROVE  Inv'
<1>1. pc \in [Requests -> Places]
      BY DEF Inv, LockTypes
<1>2. UNCHANGED <<lock, left, held>>
      BY DEF Submit, Build, FailToBuild, Submitted, Rejected, SendFails, Record, Crash, redis
<1>3. \/ pc' = pc
      \/ pc' = [pc EXCEPT ![r] = "done"]
      \/ pc' = [pc EXCEPT ![r] = "releasing"]
      \/ pc' = [pc EXCEPT ![r] = "recording"] /\ pc[r] = "built"
      \/ pc' = [pc EXCEPT ![r] = "built"] /\ (r \in Batches => pc[r] = "locked")
      BY DEF Submit, Build, FailToBuild, Submitted, Rejected, SendFails, Record, Crash, Finish
<1>4. pc' \in [Requests -> Places]
      BY <1>1, <1>3 DEF Places
<1>5. ASSUME NEW s \in Batches, Granted(s)' PROVE Granted(s)
  <2>1. s \in Requests
        BY DEF Requests
  <2>2. CASE s = r
        BY <1>1, <1>3, <1>5, <2>1, <2>2 DEF Granted, Working
  <2>3. CASE s # r
        BY <1>1, <1>3, <1>5, <2>1, <2>3 DEF Granted, Working
  <2>4. QED
        BY <2>2, <2>3
<1>6. QED
      BY <1>2, <1>4, <1>5, MoveOn

\* Time takes as much from the lock as it adds to its holder's work.
LEMMA TickStep == Inv /\ Tick => Inv'
<1> SUFFICES ASSUME Inv, Tick PROVE Inv'
    OBVIOUS
<1>1. /\ TTL \in Nat \ {0} /\ left \in 0 .. TTL /\ held \in [Batches -> 0 .. TTL]
      /\ Batches \subseteq Requests
      BY AccountBatchAssumption DEF Inv, LockTypes, Requests
<1>2. /\ left' = (IF left > 0 THEN left - 1 ELSE 0)
      /\ lock' = (IF left = 1 THEN None ELSE lock)
      /\ pc' = pc
      /\ held' = [r \in Batches |-> IF Granted(r) THEN Older(held[r]) ELSE held[r]]
      BY DEF Tick, AfterTick
<1>3. \A r \in Batches : Older(held[r]) \in 0 .. TTL
      BY <1>1 DEF Older
<1>4. held' \in [Batches -> 0 .. TTL]
      BY <1>1, <1>2, <1>3
<1>5. LockTypes'
      BY <1>1, <1>2, <1>4 DEF Inv, LockTypes
<1>6. ASSUME NEW r \in Batches, Granted(r)', held'[r] < TTL
      PROVE  lock' = r /\ left' = TTL - held'[r]
  <2>1. Granted(r) /\ r \in Requests
        BY <1>1, <1>2, <1>6 DEF Granted, Working
  <2>2. held'[r] = Older(held[r])
        BY <1>2, <2>1
  <2>3. held[r] < TTL /\ held'[r] = held[r] + 1
        BY <1>1, <1>6, <2>1, <2>2 DEF Older
  <2>4. lock = r /\ left = TTL - held[r]
        BY <2>1, <2>3 DEF Inv, HoldsOwnLock
  <2>5. held[r] \in Nat
        BY <1>1, <2>1
  <2>6. QED
        BY <1>1, <1>2, <1>6, <2>3, <2>4, <2>5
<1>7. QED
      BY <1>5, <1>6 DEF Inv, HoldsOwnLock

\* Every step of a batch, of the network and of time keeps the invariant.
LEMMA NextInv == Inv /\ [Next]_vars => Inv'
<1> SUFFICES ASSUME Inv, [Next]_vars PROVE Inv'
    OBVIOUS
<1>1. CASE Tick
      BY <1>1, TickStep
<1>2. ASSUME NEW r \in Requests, Step(r) \/ Crash(r) PROVE Inv'
      BY <1>2, LockSteps, SubmitSteps DEF Step
<1>3. CASE UNCHANGED vars \/ \E t \in pending : Include(t) \/ Drop(t)
  <2>1. UNCHANGED <<lock, left, held, pc>>
        BY <1>3 DEF vars, redis, local, Include, Drop
  <2>2. QED
        BY <2>1, MoveOn DEF Inv, LockTypes, Granted, Working
<1>4. QED
      BY <1>1, <1>2, <1>3 DEF Next

-----------------------------------------------------------------------------

\* The lock of lock-service.js does exclude: until its TTL has passed a batch
\* at work has the lock, so two batches for one account work at the same time
\* only when one of them has outlived its own, whatever Redis does and
\* however late a release comes (lock-service.js 12-21, 47-129).
THEOREM LockExcludes == Spec => []OneHolderWithinTTL
<1>1. Inv => OneHolderWithinTTL
      BY DEF Inv, HoldsOwnLock, OneHolderWithinTTL, Granted
<1>2. QED
      BY <1>1, InitInv, NextInv, PTL DEF Spec

-----------------------------------------------------------------------------
(* The refinement. *)

Spent == [r \in Batches |-> IF Granted(r) THEN held[r] ELSE TTL]

LeaseStep == [RedisLease!LeaseNext]_Spent

\* A step that leaves the time worked of every batch at work alone, and lets
\* nobody begin or end, is not seen by the lease.
LEMMA Unseen ==
    ASSUME \A r \in Batches : (Granted(r)' <=> Granted(r)) /\ (Granted(r) => held'[r] = held[r])
    PROVE  LeaseStep
<1>1. Spent' = Spent
      BY DEF Spent
<1>2. QED
      BY <1>1 DEF LeaseStep

\* A request that ends gives its lease back, unless the term was over.
LEMMA EndReturns ==
    ASSUME Inv, NEW r \in Requests, NEW place \in Places, UNCHANGED held,
           pc' = [pc EXCEPT ![r] = place],
           place \notin {"granted", "locked", "built", "recording"}
    PROVE  LeaseStep
<1>1. /\ pc \in [Requests -> Places] /\ held \in [Batches -> 0 .. TTL]
      /\ Batches \subseteq Requests /\ TTL \in Nat \ {0}
      BY AccountBatchAssumption DEF Inv, LockTypes, Requests
<1>2. \A s \in Batches \ {r} : Granted(s)' <=> Granted(s)
      BY <1>1 DEF Granted, Working
<1>3. ~Granted(r)'
      BY <1>1 DEF Granted, Working
<1>4. CASE r \in Batches /\ Granted(r) /\ held[r] < TTL
  <2>1. Spent[r] < TTL
        BY <1>4 DEF Spent
  <2>2. Spent' = [Spent EXCEPT ![r] = TTL]
        BY <1>2, <1>3, <1>4 DEF Spent
  <2>3. RedisLease!Return(r)
        BY <2>1, <2>2 DEF RedisLease!Return, RedisLease!Holds, Spent
  <2>4. QED
        BY <1>4, <2>3 DEF LeaseStep, RedisLease!LeaseNext
<1>5. CASE ~(r \in Batches /\ Granted(r) /\ held[r] < TTL)
  <2>1. r \in Batches /\ Granted(r) => held[r] = TTL
        BY <1>1, <1>5
  <2>2. Spent' = Spent
        BY <1>2, <1>3, <2>1 DEF Spent
  <2>3. QED
        BY <2>2 DEF LeaseStep
<1>6. QED
      BY <1>4, <1>5

\* Setting the lock is a grant: it was free, so nobody is within a term.
LEMMA AcquireGrants ==
    ASSUME Inv, NEW r \in Batches, GrantLock(r)
    PROVE  LeaseStep
<1>1. /\ pc \in [Requests -> Places] /\ held \in [Batches -> 0 .. TTL]
      /\ Batches \subseteq Requests /\ TTL \in Nat \ {0} /\ None \notin Batches
      BY AccountBatchAssumption DEF Inv, LockTypes, Requests
<1>2. /\ lock = None /\ held' = [held EXCEPT ![r] = 0]
      /\ pc[r] = "acquiring" /\ pc' = [pc EXCEPT ![r] = "granted"]
      BY DEF GrantLock, Free, SetLock
<1>3. \A s \in Batches : ~(Spent[s] < TTL)
  <2>1. ASSUME NEW s \in Batches, Granted(s), held[s] < TTL
        PROVE  FALSE
        BY <1>1, <1>2, <2>1 DEF Inv, HoldsOwnLock
  <2>2. QED
        BY <1>1, <2>1 DEF Spent
<1>4. \A s \in Batches \ {r} : (Granted(s)' <=> Granted(s)) /\ held'[s] = held[s]
      BY <1>1, <1>2 DEF Granted, Working
<1>5. Granted(r)' /\ held'[r] = 0
      BY <1>1, <1>2 DEF Granted, Working
<1>6. Spent' = [Spent EXCEPT ![r] = 0]
      BY <1>4, <1>5 DEF Spent
<1>7. RedisLease!Grant(r)
      BY <1>3, <1>6 DEF RedisLease!Grant, RedisLease!Holds, Spent
<1>8. QED
      BY <1>7 DEF LeaseStep, RedisLease!LeaseNext

\* The other steps of taking and giving back the lock.
LEMMA LockStepsOfLease ==
    ASSUME Inv, NEW r \in Batches, Lock(r) \/ Release(r)
    PROVE  LeaseStep
<1>1. /\ pc \in [Requests -> Places] /\ held \in [Batches -> 0 .. TTL]
      /\ Batches \subseteq Requests /\ r \in Requests
      BY DEF Inv, LockTypes, Requests
<1>2. CASE GrantLock(r)
      BY <1>2, AcquireGrants
<1>3. CASE LearnOfLock(r) \/ ((FindBusy(r) \/ FailToAcquire(r)) /\ pc[r] = "acquiring")
  <2>1. /\ UNCHANGED held
        /\ \/ pc[r] = "granted" /\ pc' = [pc EXCEPT ![r] = "locked"]
           \/ pc[r] = "acquiring" /\ pc' = [pc EXCEPT ![r] = "acquiring"]
           \/ pc[r] = "acquiring" /\ pc' = [pc EXCEPT ![r] = "done"]
        BY <1>3 DEF LearnOfLock, FindBusy, FailToAcquire, TryAgain
  <2>2. ASSUME NEW s \in Batches
        PROVE  (Granted(s)' <=> Granted(s)) /\ (Granted(s) => held'[s] = held[s])
        BY <1>1, <2>1 DEF Granted, Working
  <2>3. QED
        BY <2>2, Unseen
<1>6. CASE FailToAcquire(r) /\ pc[r] = "granted"
  <2>1. /\ UNCHANGED held
        /\ \E place \in {"acquiring", "done"} : pc' = [pc EXCEPT ![r] = place]
        BY <1>6 DEF FailToAcquire, TryAgain
  <2>2. {"acquiring", "done"} \subseteq Places
        BY DEF Places
  <2>3. QED
        BY <1>1, <2>1, <2>2, EndReturns
<1>4. CASE Release(r)
  <2>1. pc' = [pc EXCEPT ![r] = "done"] /\ UNCHANGED held
        BY <1>4 DEF Release, ReleaseLock, FailToRelease
  <2>2. "done" \in Places
        BY DEF Places
  <2>3. QED
        BY <1>1, <2>1, <2>2, EndReturns
<1>5. QED
      BY <1>2, <1>3, <1>4, <1>6 DEF Lock, FindBusy, FailToAcquire

\* The steps of the submission.
LEMMA SubmitStepsOfLease ==
    ASSUME Inv, NEW r \in Requests, Submit(r) \/ Crash(r)
    PROVE  LeaseStep
<1>1. pc \in [Requests -> Places] /\ Batches \subseteq Requests
      BY DEF Inv, LockTypes, Requests
<1>2. UNCHANGED held
      BY DEF Submit, Build, FailToBuild, Submitted, Rejected, SendFails, Record, Crash
<1>3. \/ pc' = pc
      \/ pc' = [pc EXCEPT ![r] = "done"]
      \/ pc' = [pc EXCEPT ![r] = "releasing"]
      \/ pc' = [pc EXCEPT ![r] = "recording"] /\ pc[r] = "built"
      \/ pc' = [pc EXCEPT ![r] = "built"] /\ (r \in Batches => pc[r] = "locked")
      BY DEF Submit, Build, FailToBuild, Submitted, Rejected, SendFails, Record, Crash, Finish
<1>4. CASE pc' = [pc EXCEPT ![r] = "done"]
      BY <1>2, <1>4, EndReturns DEF Places
<1>5. CASE pc' = [pc EXCEPT ![r] = "releasing"]
      BY <1>2, <1>5, EndReturns DEF Places
<1>6. CASE \/ pc' = pc
           \/ pc' = [pc EXCEPT ![r] = "recording"] /\ pc[r] = "built"
           \/ pc' = [pc EXCEPT ![r] = "built"] /\ (r \in Batches => pc[r] = "locked")
  <2>1. ASSUME NEW s \in Batches
        PROVE  Granted(s)' <=> Granted(s)
    <3>1. CASE s = r
          BY <1>1, <1>6, <3>1 DEF Granted, Working
    <3>2. CASE s # r
          BY <1>1, <1>6, <3>2 DEF Granted, Working
    <3>3. QED
          BY <3>1, <3>2
  <2>2. QED
        BY <1>2, <2>1, Unseen
<1>7. QED
      BY <1>3, <1>4, <1>5, <1>6

\* Time passes for the leases as it does for the lock.
LEMMA TickOfLease == Inv /\ Tick => LeaseStep
<1> SUFFICES ASSUME Inv, Tick PROVE LeaseStep
    OBVIOUS
<1>1. /\ TTL \in Nat \ {0} /\ held \in [Batches -> 0 .. TTL] /\ Batches \subseteq Requests
      BY AccountBatchAssumption DEF Inv, LockTypes, Requests
<1>2. /\ pc' = pc
      /\ held' = [r \in Batches |-> IF Granted(r) THEN Older(held[r]) ELSE held[r]]
      BY DEF Tick
<1>3. ASSUME NEW r \in Batches
      PROVE  Spent'[r] = IF Spent[r] < TTL THEN Spent[r] + 1 ELSE Spent[r]
  <2>1. r \in Requests /\ held[r] \in 0 .. TTL /\ (Granted(r)' <=> Granted(r))
        BY <1>1, <1>2 DEF Granted, Working
  <2>2. CASE Granted(r)
    <3>1. Spent[r] = held[r] /\ Spent'[r] = Older(held[r])
          BY <1>2, <2>1, <2>2 DEF Spent
    <3>2. QED
          BY <1>1, <2>1, <3>1 DEF Older
  <2>3. CASE ~Granted(r)
    <3>1. Spent[r] = TTL /\ Spent'[r] = TTL
          BY <2>1, <2>3 DEF Spent
    <3>2. QED
          BY <1>1, <3>1
  <2>4. QED
        BY <2>2, <2>3
<1>4. Spent' = [r \in Batches |-> IF Spent[r] < TTL THEN Spent[r] + 1 ELSE Spent[r]]
      BY <1>3 DEF Spent
<1>5. RedisLease!Pass
      BY <1>4 DEF RedisLease!Pass, RedisLease!Holds, Spent
<1>6. QED
      BY <1>5 DEF LeaseStep, RedisLease!LeaseNext

\* Every step maps to a step of the lease or leaves its variable alone.
LEMMA NextOfLease == Inv /\ [Next]_vars => LeaseStep
<1> SUFFICES ASSUME Inv, [Next]_vars PROVE LeaseStep
    OBVIOUS
<1>1. CASE Tick
      BY <1>1, TickOfLease
<1>2. ASSUME NEW r \in Requests, Step(r) \/ Crash(r) PROVE LeaseStep
      BY <1>2, LockStepsOfLease, SubmitStepsOfLease DEF Step
<1>3. CASE UNCHANGED vars \/ \E t \in pending : Include(t) \/ Drop(t)
  <2>1. UNCHANGED <<held, pc>>
        BY <1>3 DEF vars, local, Include, Drop
  <2>2. QED
        BY <2>1, Unseen DEF Granted, Working
<1>4. QED
      BY <1>1, <1>2, <1>3 DEF Next

\* The lock service implements the lease: to any number of batches, for any
\* TTL, whatever Redis does and whichever process crashes, it grants one term
\* at a time, which ends only with the work it was granted for or after the
\* TTL (lock-service.js 12-21, 47-129).
THEOREM LockImplementsLease == Spec => LockIsLease
<1>1. Init => RedisLease!LeaseInit
  <2> SUFFICES ASSUME Init PROVE RedisLease!LeaseInit
      OBVIOUS
  <2>1. \A r \in Batches : ~Granted(r)
        BY DEF Init, Granted, Working, Requests
  <2>2. QED
        BY <2>1 DEF RedisLease!LeaseInit
<1>2. Inv /\ [Next]_vars => [RedisLease!LeaseNext]_Spent
      BY NextOfLease DEF LeaseStep
<1>3. QED
      BY <1>1, <1>2, InitInv, NextInv, PTL DEF Spec, LockIsLease, RedisLease!LeaseSpec, Spent

-----------------------------------------------------------------------------
(* The sequence numbers.  A number has one user, which has built its           *)
(* transaction and never builds another.  Of two batches that built on one     *)
(* number, the second sends its own while the first has it pending only when   *)
(* one of them had outlived its lock or the first was pending before.          *)

Begun == {"built", "recording", "releasing", "done"}

NumberTypes ==
    /\ sequence \in Sequences
    /\ user \in [Sequences -> Requests \cup {None}]
    /\ read \in [Requests -> Sequences]
    /\ pending \subseteq Transactions
    /\ behind \in [Requests -> SUBSET Requests]

UsedInOrder ==
    /\ \A n \in Sequences : user[n] = None <=> n >= sequence
    /\ \A n, m \in Sequences : user[n] = user[m] /\ user[n] # None => n = m

UsersHaveBegun ==
    \A n \in Sequences : \A r \in Requests :
        user[n] = r => pc[r] \in Begun /\ (pc[r] = "built" => read[r] = n)

PendingHaveBegun ==
    \A t \in pending :
        /\ pc[t.by] \in Begun /\ (pc[t.by] = "built" => read[t.by] = t.number)
        /\ \A n \in Sequences : user[n] # t.by
        /\ \A u \in pending : u.by = t.by => u = t

\* Why the number that r has built on may be used by s.
Excused(r, s) == held[r] = TTL \/ held[s] = TTL \/ s \in behind[r]

Clash(r, s, n) == pc[r] = "built" /\ read[r] = n => Excused(r, s)

UsersClash ==
    \A r \in Batches : \A s \in Batches \ {r} : \A n \in Sequences :
        user[n] = s => Clash(r, s, n)

PendingClash ==
    \A r \in Batches : \A s \in Batches \ {r} : \A n \in Sequences :
        [by |-> s, number |-> n] \in pending => Clash(r, s, n)

NumberInv ==
    /\ NumberTypes /\ UsedInOrder /\ UsersHaveBegun /\ PendingHaveBegun
    /\ UsersClash /\ PendingClash

\* There are as many sequence numbers as the properties speak of.
LEMMA NumbersExist ==
    /\ Cardinality(Requests) \in Nat
    /\ Sequences \subseteq Nat /\ 0 \in Sequences
    /\ \A n \in Sequences : n <= Cardinality(Requests)
<1>1. Cardinality(Requests) \in Nat
      BY AccountBatchAssumption, FS_CardinalityType
<1>2. QED
      BY <1>1 DEF Sequences

\* No sequence number is used at first, and nothing is pending.
LEMMA InitNumbers == Init => NumberInv
<1> SUFFICES ASSUME Init PROVE NumberInv
    OBVIOUS
<1>1. /\ sequence = 0 /\ user = [n \in Sequences |-> None] /\ pending = {}
      /\ read = [r \in Requests |-> 0] /\ pc = [r \in Requests |-> "acquiring"]
      /\ behind = [r \in Requests |-> {}]
      BY DEF Init
<1>2. NumberTypes
      BY <1>1, NumbersExist DEF NumberTypes
<1>3. UsedInOrder
      BY <1>1, NumbersExist DEF UsedInOrder
<1>4. UsersHaveBegun /\ PendingHaveBegun
      BY <1>1, AccountBatchAssumption DEF UsersHaveBegun, PendingHaveBegun
<1>5. UsersClash /\ PendingClash
      BY <1>1 DEF UsersClash, PendingClash, Clash, Requests
<1>6. QED
      BY <1>2, <1>3, <1>4, <1>5 DEF NumberInv

\* The one who used a number, or whose transaction is pending, has begun.
LEMMA OthersHaveBegun ==
    ASSUME NumberInv, NEW s \in Requests, NEW n \in Sequences,
           user[n] = s \/ [by |-> s, number |-> n] \in pending
    PROVE  pc[s] \in Begun
<1>1. UsersHaveBegun /\ PendingHaveBegun
      BY DEF NumberInv
<1>2. CASE user[n] = s
      BY <1>1, <1>2 DEF UsersHaveBegun
<1>3. CASE [by |-> s, number |-> n] \in pending
      BY <1>1, <1>3 DEF PendingHaveBegun
<1>4. QED
      BY <1>2, <1>3

\* An excuse lasts while nobody starts anew.
LEMMA ExcuseLasts ==
    ASSUME NEW r \in Batches, NEW s \in Batches, NEW n \in Sequences, Clash(r, s, n),
           pc[s] \in Begun,
           \A q \in Requests :
              pc'[q] = "built" => pc[q] = "built" /\ read'[q] = read[q] /\ behind'[q] = behind[q],
           \A q \in Batches : pc[q] \in Begun /\ held[q] = TTL => held'[q] = TTL
    PROVE  Clash(r, s, n)'
<1> SUFFICES ASSUME pc'[r] = "built", read'[r] = n PROVE Excused(r, s)'
    BY DEF Clash
<1>1. r \in Requests
      BY DEF Requests
<1>2. pc[r] = "built" /\ read[r] = n /\ behind'[r] = behind[r]
      BY <1>1
<1>3. Excused(r, s) /\ pc[r] \in Begun
      BY <1>2 DEF Clash, Begun
<1>4. QED
      BY <1>2, <1>3 DEF Excused

\* A step that uses no number, builds no transaction and sends none; who has
\* begun and outlived its lock stays so.
LEMMA CalmStep ==
    ASSUME NumberInv, UNCHANGED <<sequence, user>>, pending' \subseteq pending,
           read' \in [Requests -> Sequences], behind' \in [Requests -> SUBSET Requests],
           \A q \in Requests :
              pc'[q] = "built" => pc[q] = "built" /\ read'[q] = read[q] /\ behind'[q] = behind[q],
           \A q \in Requests : pc[q] \in Begun => pc'[q] \in Begun,
           \A q \in Batches : pc[q] \in Begun /\ held[q] = TTL => held'[q] = TTL
    PROVE  NumberInv'
<1>1. /\ NumberTypes /\ UsedInOrder /\ UsersHaveBegun /\ PendingHaveBegun
      /\ UsersClash /\ PendingClash
      BY DEF NumberInv
<1>2. NumberTypes' /\ UsedInOrder'
      BY <1>1 DEF NumberTypes, UsedInOrder
<1>3. UsersHaveBegun'
      BY <1>1 DEF UsersHaveBegun
<1>4. PendingHaveBegun'
  <2>1. \A t \in pending : t.by \in Requests
        BY <1>1 DEF NumberTypes, Transactions
  <2>2. QED
        BY <1>1, <2>1 DEF PendingHaveBegun
<1>5. ASSUME NEW r \in Batches, NEW s \in Batches \ {r}, NEW n \in Sequences,
             Clash(r, s, n), user[n] = s \/ [by |-> s, number |-> n] \in pending
      PROVE  Clash(r, s, n)'
  <2>1. pc[s] \in Begun
        BY <1>5, OthersHaveBegun DEF Requests
  <2>2. QED
        BY <1>5, <2>1, ExcuseLasts
<1>6. UsersClash'
      BY <1>1, <1>5 DEF UsersClash
<1>7. PendingClash'
      BY <1>1, <1>5 DEF PendingClash
<1>8. QED
      BY <1>2, <1>3, <1>4, <1>6, <1>7 DEF NumberInv

\* A transaction is built on a number nobody has used; whose is pending is
\* remembered.
LEMMA BuildStep == ASSUME Inv, NumberInv, NEW r \in Requests, Build(r) PROVE NumberInv'
<1>1. /\ sequence' = sequence /\ user' = user /\ pending' = pending /\ held' = held
      /\ read' = [read EXCEPT ![r] = sequence]
      /\ behind' = [behind EXCEPT ![r] = {t.by : t \in pending}]
      /\ pc' = [pc EXCEPT ![r] = "built"] /\ pc[r] \in {"locked", "acquiring"}
      BY DEF Build, network
<1>2. /\ NumberTypes /\ UsedInOrder /\ UsersHaveBegun /\ PendingHaveBegun
      /\ UsersClash /\ PendingClash
      BY DEF NumberInv
<1>3. /\ pc \in [Requests -> Places] /\ Batches \subseteq Requests
      /\ behind \in [Requests -> SUBSET Requests]
      BY <1>2 DEF Inv, LockTypes, Requests, NumberTypes
<1>4. NumberTypes' /\ UsedInOrder'
  <2>1. {t.by : t \in pending} \subseteq Requests
        BY <1>2 DEF NumberTypes, Transactions
  <2>2. QED
        BY <1>1, <1>2, <2>1 DEF NumberTypes, UsedInOrder
<1>5. pc[r] \notin Begun
      BY <1>1 DEF Begun
<1>6. (\A n \in Sequences : user[n] # r) /\ (\A t \in pending : t.by # r)
      BY <1>2, <1>5 DEF UsersHaveBegun, PendingHaveBegun
<1>7. UsersHaveBegun'
      BY <1>1, <1>2, <1>3, <1>6 DEF NumberTypes, UsersHaveBegun
<1>8. PendingHaveBegun'
      BY <1>1, <1>2, <1>3, <1>6 DEF NumberTypes, PendingHaveBegun, Transactions
<1>9. ASSUME NEW q \in Batches, NEW s \in Batches \ {q}, NEW n \in Sequences,
             Clash(q, s, n), q # r
      PROVE  Clash(q, s, n)'
      BY <1>1, <1>3, <1>9, <1>2 DEF Clash, Excused, NumberTypes
<1>10. UsersClash'
  <2> SUFFICES ASSUME NEW q \in Batches, NEW s \in Batches \ {q}, NEW n \in Sequences,
                      user[n] = s
               PROVE  Clash(q, s, n)'
      BY <1>1 DEF UsersClash
  <2>1. CASE q # r
        BY <1>2, <1>9, <2>1 DEF UsersClash
  <2>2. CASE q = r
    <3>1. user[sequence] = None /\ s # None
          BY <1>2, NumbersExist, AccountBatchAssumption DEF NumberTypes, UsedInOrder, Requests
    <3>2. read'[q] = sequence
          BY <1>1, <1>2, <2>2 DEF NumberTypes
    <3>3. QED
          BY <3>1, <3>2 DEF Clash
  <2>3. QED
        BY <2>1, <2>2
<1>11. PendingClash'
  <2> SUFFICES ASSUME NEW q \in Batches, NEW s \in Batches \ {q}, NEW n \in Sequences,
                      [by |-> s, number |-> n] \in pending
               PROVE  Clash(q, s, n)'
      BY <1>1 DEF PendingClash
  <2>1. CASE q # r
        BY <1>2, <1>9, <2>1 DEF PendingClash
  <2>2. CASE q = r
    <3>1. behind'[q] = {t.by : t \in pending}
          BY <1>1, <1>3, <2>2
    <3>2. [by |-> s, number |-> n].by \in {t.by : t \in pending}
          OBVIOUS
    <3>3. s \in behind'[q]
          BY <3>1, <3>2
    <3>4. QED
          BY <3>3 DEF Clash, Excused
  <2>3. QED
        BY <2>1, <2>2
<1>12. QED
      BY <1>4, <1>7, <1>8, <1>10, <1>11 DEF NumberInv

\* There is a number for each request: those used have different users, of
\* which the next one is not.
LEMMA NumbersSuffice ==
    ASSUME NumberInv, NEW r \in Requests, \A n \in Sequences : user[n] # r
    PROVE  sequence + 1 \in Sequences
<1>1. /\ Cardinality(Requests) \in Nat /\ sequence \in Nat /\ sequence <= Cardinality(Requests)
      /\ sequence \in Sequences
      BY NumbersExist DEF NumberInv, NumberTypes
<1> DEFINE S == 0 .. sequence - 1
           T == Requests \ {r}
           f == [n \in S |-> user[n]]
<1>2. IsFiniteSet(T) /\ Cardinality(T) = Cardinality(Requests) - 1
      BY AccountBatchAssumption, FS_RemoveElement
<1>3. IsFiniteSet(S) /\ Cardinality(S) = sequence
  <2>1. sequence - 1 \in Int /\ 0 \in Int
        BY <1>1
  <2>2. /\ IsFiniteSet(0 .. sequence - 1)
        /\ Cardinality(0 .. sequence - 1)
             = IF 0 > sequence - 1 THEN 0 ELSE sequence - 1 - 0 + 1
        BY <2>1, FS_Interval
  <2>3. QED
        BY <1>1, <2>2
<1>4. S \subseteq Sequences /\ \A n \in S : ~ (n >= sequence)
      BY <1>1, NumbersExist DEF Sequences
<1>5. \A n \in S : user[n] \in T
      BY <1>4 DEF NumberInv, NumberTypes, UsedInOrder
<1>6. f \in [S -> T]
      BY <1>5
<1>7. \A x, y \in S : f[x] = f[y] => x = y
      BY <1>4, <1>5, AccountBatchAssumption DEF NumberInv, UsedInOrder
<1> HIDE DEF f, S, T
<1>8. ~ (Cardinality(T) < Cardinality(S))
      BY <1>2, <1>3, <1>6, <1>7, FS_PigeonHole
<1>9. QED
      BY <1>1, <1>2, <1>3, <1>8 DEF Sequences

\* A request sends the transaction it built.  A batch within its TTL has the
\* lock, so another that is about to send on the number has outlived its own.
LEMMA SendStep ==
    ASSUME Inv, NumberInv, NEW r \in Requests, pc[r] = "built", read[r] = sequence,
           pending' = pending \cup {[by |-> r, number |-> read[r]]},
           UNCHANGED <<sequence, user, held>>,
           read' \in [Requests -> Sequences], behind' \in [Requests -> SUBSET Requests],
           \A q \in Requests :
              pc'[q] = "built" => pc[q] = "built" /\ read'[q] = read[q] /\ behind'[q] = behind[q],
           \A q \in Requests : pc[q] \in Begun => pc'[q] \in Begun
    PROVE  NumberInv'
<1> DEFINE tx == [by |-> r, number |-> sequence]
<1>1. /\ NumberTypes /\ UsedInOrder /\ UsersHaveBegun /\ PendingHaveBegun
      /\ UsersClash /\ PendingClash
      BY DEF NumberInv
<1>2. sequence \in Sequences /\ tx \in Transactions /\ pending' = pending \cup {tx}
      BY <1>1 DEF NumberTypes, Transactions
<1>3. NumberTypes' /\ UsedInOrder'
      BY <1>1, <1>2 DEF NumberTypes, UsedInOrder
<1>4. UsersHaveBegun'
      BY <1>1 DEF UsersHaveBegun
<1>5. \A n \in Sequences : user[n] # r
  <2> SUFFICES ASSUME NEW n \in Sequences, user[n] = r PROVE FALSE
      OBVIOUS
  <2>1. n = sequence
        BY <1>1 DEF UsersHaveBegun
  <2>2. user[n] = None /\ None \notin Requests
        BY <1>1, <2>1, NumbersExist, AccountBatchAssumption DEF UsedInOrder
  <2>3. QED
        BY <2>2
<1>6. \A t \in pending : t.by = r => t = tx
  <2> SUFFICES ASSUME NEW t \in pending, t.by = r PROVE t = tx
      OBVIOUS
  <2>1. t.number = sequence
        BY <1>1 DEF PendingHaveBegun
  <2>2. t \in Transactions
        BY <1>1 DEF NumberTypes
  <2>3. QED
        BY <2>1, <2>2 DEF Transactions
<1>7. PendingHaveBegun'
  <2> SUFFICES ASSUME NEW t \in pending'
               PROVE  /\ pc'[t.by] \in Begun
                      /\ pc'[t.by] = "built" => read'[t.by] = t.number
                      /\ \A n \in Sequences : user[n] # t.by
                      /\ \A u \in pending' : u.by = t.by => u = t
      BY DEF PendingHaveBegun
  <2>1. CASE t = tx
    <3>1. pc[r] \in Begun /\ tx.by = r /\ tx.number = sequence
          BY DEF Begun
    <3>2. QED
          BY <1>2, <1>5, <1>6, <2>1, <3>1
  <2>2. CASE t \in pending
    <3>1. t.by \in Requests
          BY <1>1, <2>2 DEF NumberTypes, Transactions
    <3>2. /\ pc[t.by] \in Begun /\ (pc[t.by] = "built" => read[t.by] = t.number)
          /\ \A n \in Sequences : user[n] # t.by
          /\ \A u \in pending : u.by = t.by => u = t
          BY <1>1, <2>2 DEF PendingHaveBegun
    <3>3. tx.by = t.by => tx = t
          BY <1>6, <2>2
    <3>4. QED
          BY <1>2, <3>1, <3>2, <3>3
  <2>3. QED
        BY <1>2, <2>1, <2>2
<1>8. ASSUME NEW q \in Batches, NEW s \in Batches \ {q}, NEW n \in Sequences,
             Clash(q, s, n), user[n] = s \/ [by |-> s, number |-> n] \in pending
      PROVE  Clash(q, s, n)'
  <2>1. pc[s] \in Begun
        BY <1>8, OthersHaveBegun DEF Requests
  <2>2. QED
        BY <1>8, <2>1, ExcuseLasts
<1>9. UsersClash'
      BY <1>1, <1>8 DEF UsersClash
<1>10. ASSUME NEW q \in Batches, NEW s \in Batches \ {q}, s = r
       PROVE  Clash(q, s, sequence)'
  <2> SUFFICES ASSUME pc'[q] = "built" PROVE Excused(q, s)'
      BY DEF Clash
  <2>1. q \in Requests /\ pc[q] = "built"
        BY DEF Requests
  <2>2. Granted(q) /\ Granted(s)
        BY <1>10, <2>1 DEF Granted, Working
  <2>3. ~ (held[q] < TTL /\ held[s] < TTL)
        BY <2>2 DEF Inv, HoldsOwnLock
  <2>4. held[q] \in 0 .. TTL /\ held[s] \in 0 .. TTL /\ TTL \in Nat
        BY AccountBatchAssumption DEF Inv, LockTypes
  <2>5. held[q] = TTL \/ held[s] = TTL
        BY <2>3, <2>4
  <2>6. QED
        BY <2>5 DEF Excused
<1>11. PendingClash'
  <2> SUFFICES ASSUME NEW q \in Batches, NEW s \in Batches \ {q}, NEW n \in Sequences,
                      [by |-> s, number |-> n] \in pending'
               PROVE  Clash(q, s, n)'
      BY DEF PendingClash
  <2>1. CASE [by |-> s, number |-> n] \in pending
        BY <1>1, <1>8, <2>1 DEF PendingClash
  <2>2. CASE [by |-> s, number |-> n] = tx
    <3>1. s = r /\ n = sequence
          BY <2>2
    <3>2. QED
          BY <1>10, <3>1
  <2>3. QED
        BY <1>2, <2>1, <2>2
<1>12. QED
      BY <1>3, <1>4, <1>7, <1>9, <1>11 DEF NumberInv

\* A ledger includes a pending transaction: its sender uses the number, and
\* has used none.
LEMMA IncludeStep == ASSUME NumberInv, NEW t \in pending, Include(t) PROVE NumberInv'
<1>1. /\ NumberTypes /\ UsedInOrder /\ UsersHaveBegun /\ PendingHaveBegun
      /\ UsersClash /\ PendingClash
      BY DEF NumberInv
<1> DEFINE r == t.by
<1>2. /\ t.number = sequence /\ sequence' = sequence + 1
      /\ user' = [user EXCEPT ![sequence] = r] /\ pending' = pending \ {t}
      /\ UNCHANGED <<pc, read, behind, held>>
      BY DEF Include, local
<1>3. r \in Requests /\ t = [by |-> r, number |-> sequence]
      BY <1>1, <1>2 DEF NumberTypes, Transactions
<1>4. /\ pc[r] \in Begun /\ (pc[r] = "built" => read[r] = sequence)
      /\ \A n \in Sequences : user[n] # r
      /\ \A u \in pending : u.by = r => u = t
      BY <1>1, <1>2 DEF PendingHaveBegun
<1>5. sequence + 1 \in Sequences
      BY <1>3, <1>4, NumbersSuffice
<1>6. sequence \in Sequences /\ user[sequence] = None /\ r # None /\ None \notin Requests
      BY <1>1, <1>3, NumbersExist, AccountBatchAssumption DEF NumberTypes, UsedInOrder
<1>7. /\ user'[sequence] = r
      /\ \A n \in Sequences : n # sequence => user'[n] = user[n]
      BY <1>1, <1>2, <1>6 DEF NumberTypes
<1>8. NumberTypes'
  <2>1. user' \in [Sequences -> Requests \cup {None}]
        BY <1>1, <1>2, <1>3 DEF NumberTypes
  <2>2. QED
        BY <1>1, <1>2, <1>5, <2>1 DEF NumberTypes
<1>9. UsedInOrder'
  <2>1. \A n \in Sequences : user'[n] = None <=> n >= sequence + 1
        BY <1>1, <1>6, <1>7, NumbersExist DEF UsedInOrder
  <2>2. \A n, m \in Sequences : user'[n] = user'[m] /\ user'[n] # None => n = m
        BY <1>1, <1>4, <1>7 DEF UsedInOrder
  <2>3. QED
        BY <1>2, <2>1, <2>2 DEF UsedInOrder
<1>10. UsersHaveBegun'
  <2> SUFFICES ASSUME NEW n \in Sequences, NEW q \in Requests, user'[n] = q
               PROVE  pc[q] \in Begun /\ (pc[q] = "built" => read[q] = n)
      BY <1>2 DEF UsersHaveBegun
  <2>1. CASE n = sequence
        BY <1>4, <1>7, <2>1
  <2>2. CASE n # sequence
        BY <1>1, <1>7, <2>2 DEF UsersHaveBegun
  <2>3. QED
        BY <2>1, <2>2
<1>11. PendingHaveBegun'
  <2> SUFFICES ASSUME NEW u \in pending \ {t}
               PROVE  /\ pc[u.by] \in Begun /\ (pc[u.by] = "built" => read[u.by] = u.number)
                      /\ \A n \in Sequences : user'[n] # u.by
                      /\ \A v \in pending \ {t} : v.by = u.by => v = u
      BY <1>2 DEF PendingHaveBegun
  <2>1. /\ pc[u.by] \in Begun /\ (pc[u.by] = "built" => read[u.by] = u.number)
        /\ \A n \in Sequences : user[n] # u.by
        /\ \A v \in pending : v.by = u.by => v = u
        BY <1>1 DEF PendingHaveBegun
  <2>2. u.by # r
        BY <1>4
  <2>3. QED
        BY <1>7, <2>1, <2>2
<1>12. \A q, s, n : Clash(q, s, n)' <=> Clash(q, s, n)
      BY <1>2 DEF Clash, Excused
<1>13. UsersClash'
  <2> SUFFICES ASSUME NEW q \in Batches, NEW s \in Batches \ {q}, NEW n \in Sequences,
                      user'[n] = s
               PROVE  Clash(q, s, n)
      BY <1>12 DEF UsersClash
  <2>1. CASE n = sequence
    <3>1. [by |-> s, number |-> n] \in pending
          BY <1>3, <1>7, <2>1
    <3>2. QED
          BY <1>1, <3>1 DEF PendingClash
  <2>2. CASE n # sequence
        BY <1>1, <1>7, <2>2 DEF UsersClash
  <2>3. QED
        BY <2>1, <2>2
<1>14. PendingClash'
      BY <1>1, <1>2, <1>12 DEF PendingClash
<1>15. QED
      BY <1>8, <1>9, <1>10, <1>11, <1>13, <1>14 DEF NumberInv

\* Every step keeps the numbers in order and the thefts excused.
LEMMA NumberStep == Inv /\ NumberInv /\ [Next]_vars => NumberInv'
<1> SUFFICES ASSUME Inv, NumberInv, [Next]_vars PROVE NumberInv'
    OBVIOUS
<1>1. /\ pc \in [Requests -> Places] /\ held \in [Batches -> 0 .. TTL]
      /\ read \in [Requests -> Sequences] /\ behind \in [Requests -> SUBSET Requests]
      /\ TTL \in Nat \ {0} /\ 0 \in Sequences /\ Batches \subseteq Requests
      BY NumbersExist, AccountBatchAssumption
      DEF Inv, LockTypes, NumberInv, NumberTypes, Requests
<1>2. CASE Tick
  <2>1. /\ UNCHANGED <<sequence, user, pending, pc, read, behind>>
        /\ held' = [r \in Batches |-> IF Granted(r) THEN Older(held[r]) ELSE held[r]]
        BY <1>2 DEF Tick, network
  <2>2. \A r \in Batches : held[r] = TTL => held'[r] = TTL
        BY <1>1, <2>1 DEF Older
  <2>3. QED
        BY <1>1, <2>1, <2>2, CalmStep
<1>3. ASSUME NEW r \in Batches, Lock(r) \/ Release(r) PROVE NumberInv'
  <2>1. UNCHANGED <<sequence, user, pending, read, behind>> /\ r \in Requests
        BY <1>1, <1>3 DEF Lock, Release, GrantLock, LearnOfLock, FindBusy, FailToAcquire,
                          ReleaseLock, FailToRelease, network
  <2>2. \/ UNCHANGED held
        \/ held' = [held EXCEPT ![r] = 0] /\ pc[r] = "acquiring"
        BY <1>3 DEF Lock, Release, GrantLock, LearnOfLock, FindBusy, FailToAcquire,
                    ReleaseLock, FailToRelease, SetLock
  <2>3. \/ /\ pc[r] \in {"acquiring", "granted"}
           /\ \E place \in {"acquiring", "granted", "locked", "done"} :
                pc' = [pc EXCEPT ![r] = place]
        \/ pc' = [pc EXCEPT ![r] = "done"]
        BY <1>3 DEF Lock, Release, GrantLock, LearnOfLock, FindBusy, FailToAcquire,
                    ReleaseLock, FailToRelease, TryAgain
  <2>4. \A q \in Requests :
          /\ pc'[q] = "built" => pc[q] = "built"
          /\ pc[q] \in Begun => pc'[q] \in Begun
        BY <1>1, <2>1, <2>3 DEF Begun
  <2>5. \A q \in Batches : pc[q] \in Begun /\ held[q] = TTL => held'[q] = TTL
        BY <1>1, <2>2 DEF Begun
  <2>6. QED
        BY <1>1, <2>1, <2>4, <2>5, CalmStep
<1>4. ASSUME NEW r \in Requests, Build(r) PROVE NumberInv'
      BY <1>4, BuildStep
<1>5. ASSUME NEW r \in Requests,
             \/ UNCHANGED <<pc, read, behind>>
             \/ /\ \E place \in Begun \ {"built"} : pc' = [pc EXCEPT ![r] = place]
                /\ read' = read \/ read' = [read EXCEPT ![r] = 0]
                /\ behind' = behind \/ behind' = [behind EXCEPT ![r] = {}]
      PROVE  /\ read' \in [Requests -> Sequences] /\ behind' \in [Requests -> SUBSET Requests]
             /\ \A q \in Requests :
                  pc'[q] = "built" =>
                    pc[q] = "built" /\ read'[q] = read[q] /\ behind'[q] = behind[q]
             /\ \A q \in Requests : pc[q] \in Begun => pc'[q] \in Begun
  <2>1. CASE UNCHANGED <<pc, read, behind>>
        BY <1>1, <2>1
  <2>2. CASE ~ UNCHANGED <<pc, read, behind>>
    <3>1. PICK place \in Begun \ {"built"} : pc' = [pc EXCEPT ![r] = place]
          BY <1>5, <2>2
    <3>2. \A q \in Requests : q # r => pc'[q] = pc[q] /\ read'[q] = read[q] /\ behind'[q] = behind[q]
          BY <1>1, <1>5, <2>2, <3>1
    <3>3. pc'[r] = place
          BY <1>1, <3>1
    <3>4. read' \in [Requests -> Sequences] /\ behind' \in [Requests -> SUBSET Requests]
          BY <1>1, <1>5, <2>2
    <3>5. QED
          BY <3>2, <3>3, <3>4
  <2>3. QED
        BY <2>1, <2>2
<1>6. ASSUME NEW r \in Requests,
             \/ FailToBuild(r) \/ Submitted(r) \/ Rejected(r) \/ SendFails(r)
             \/ Record(r) \/ Crash(r)
      PROVE  /\ UNCHANGED <<sequence, user, held>>
             /\ \/ UNCHANGED pending
                \/ /\ pc[r] = "built" /\ read[r] = sequence
                   /\ pending' = pending \cup {[by |-> r, number |-> read[r]]}
             /\ \/ UNCHANGED <<pc, read, behind>>
                \/ /\ \E place \in Begun \ {"built"} : pc' = [pc EXCEPT ![r] = place]
                   /\ read' = read \/ read' = [read EXCEPT ![r] = 0]
                   /\ behind' = behind \/ behind' = [behind EXCEPT ![r] = {}]
  <2>1. UNCHANGED <<sequence, user, held>>
        BY <1>6 DEF FailToBuild, Rejected, Record, Crash, Submitted, SendFails, Send, network
  <2>2. \/ UNCHANGED pending
        \/ /\ pc[r] = "built" /\ read[r] = sequence
           /\ pending' = pending \cup {[by |-> r, number |-> read[r]]}
        BY <1>6 DEF FailToBuild, Rejected, Record, Crash, Submitted, SendFails, Send, network
  <2>3. \/ UNCHANGED <<pc, read, behind>>
        \/ /\ \E place \in Begun \ {"built"} : pc' = [pc EXCEPT ![r] = place]
           /\ read' = read \/ read' = [read EXCEPT ![r] = 0]
           /\ behind' = behind \/ behind' = [behind EXCEPT ![r] = {}]
        BY <1>6 DEF FailToBuild, Rejected, Record, Crash, Submitted, SendFails, Finish, Forget,
                    Begun
  <2>4. QED
        BY <2>1, <2>2, <2>3
<1>7. ASSUME NEW r \in Requests,
             \/ FailToBuild(r) \/ Submitted(r) \/ Rejected(r) \/ SendFails(r)
             \/ Record(r) \/ Crash(r)
      PROVE  NumberInv'
  <2>1. /\ read' \in [Requests -> Sequences] /\ behind' \in [Requests -> SUBSET Requests]
        /\ \A q \in Requests :
             pc'[q] = "built" =>
               pc[q] = "built" /\ read'[q] = read[q] /\ behind'[q] = behind[q]
        /\ \A q \in Requests : pc[q] \in Begun => pc'[q] \in Begun
        BY <1>5, <1>6, <1>7
  <2>2. UNCHANGED <<sequence, user, held>>
        BY <1>6, <1>7
  <2>3. CASE UNCHANGED pending
        BY <2>1, <2>2, <2>3, CalmStep
  <2>4. CASE /\ pc[r] = "built" /\ read[r] = sequence
             /\ pending' = pending \cup {[by |-> r, number |-> read[r]]}
        BY <2>1, <2>2, <2>4, SendStep
  <2>5. QED
        BY <1>6, <1>7, <2>3, <2>4
<1>8. ASSUME NEW t \in pending, Include(t) \/ Drop(t) PROVE NumberInv'
  <2>1. CASE Include(t)
        BY <2>1, IncludeStep
  <2>2. CASE Drop(t)
    <3>1. pending' \subseteq pending /\ UNCHANGED <<sequence, user, pc, read, behind, held>>
          BY <2>2 DEF Drop, local
    <3>2. QED
          BY <1>1, <3>1, CalmStep
  <2>3. QED
        BY <1>8, <2>1, <2>2
<1>9. CASE UNCHANGED vars
  <2>1. UNCHANGED <<sequence, user, pending, pc, read, behind, held>>
        BY <1>9 DEF vars, local, network
  <2>2. QED
        BY <1>1, <2>1, CalmStep
<1>10. ASSUME NEW r \in Requests, Step(r) \/ Crash(r) PROVE NumberInv'
      BY <1>3, <1>4, <1>7, <1>10 DEF Step, Submit
<1>11. QED
      BY <1>2, <1>8, <1>9, <1>10 DEF Next

\* Whatever Redis and the network do, however calls are resent and whoever
\* crashes: a batch finds the sequence number it built on used by another only
\* when one of the two had outlived its lock, or the other's transaction was
\* pending, and its lock released, before the number was read
\* (batch-routes.js 50-137, stellar-service.js 162-263).
THEOREM TheftHasTwoWays == Spec => []StolenOnlyInTwoWays
<1>1. Init => Inv /\ NumberInv
      BY InitInv, InitNumbers
<1>2. Inv /\ NumberInv /\ [Next]_vars => Inv' /\ NumberInv'
      BY NextInv, NumberStep
<1>3. NumberInv => StolenOnlyInTwoWays
  <2> SUFFICES ASSUME NumberInv, NEW r \in Batches, NEW s \in Batches \ {r},
                      s = user[read[r]], pc[r] = "built"
               PROVE  held[r] = TTL \/ held[s] = TTL \/ s \in behind[r]
      BY DEF StolenOnlyInTwoWays
  <2>1. read[r] \in Sequences /\ UsersClash
        BY DEF NumberInv, NumberTypes, Requests
  <2>2. Clash(r, s, read[r])
        BY <2>1 DEF UsersClash
  <2>3. QED
        BY <2>2 DEF Clash, Excused
<1>4. QED
      BY <1>1, <1>2, <1>3, PTL DEF Spec
=============================================================================
