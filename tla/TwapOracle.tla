----------------------------- MODULE TwapOracle -----------------------------
(***************************************************************************)
(* The time-weighted average price (contracts/twap_oracle/src/lib.rs) of   *)
(* one registered pool: a ring of observations of the pool's cumulative    *)
(* prices, from which consult computes the average over a window.          *)
(*                                                                         *)
(* The bounds the code sets to ring, interval and window only matter for   *)
(* the storage they take; the ring and the times here are shorter.         *)
(***************************************************************************)
EXTENDS AmmPool, Sequences, SequencesExt

CONSTANTS
    RingSize,       \* cardinality of the feed
    MinInterval,    \* min_interval of the feed
    Windows,        \* windows prices are asked for
    NoFeed, NoPrice \* unregistered pool; a consultation that panics

ASSUME TwapAssumption ==
    /\ RingSize \in Nat \ {0} /\ MinInterval \in Nat \ {0}
    /\ Windows \subseteq Nat \ {0}
    /\ NoPrice \notin [Pair -> Int]

VARIABLES
    feed,           \* PoolFeed with its observations: index, count, ring
    spots           \* history: the prices in force in each unit of time

twapVars == <<feed, spots>>
marketVars == <<ammVars, twapVars>>

Slots == 0 .. RingSize - 1

-----------------------------------------------------------------------------
(* A faulty variant of the definition below, caught by a property. *)

NoInterpolation(before, after, target) == before.cum

-----------------------------------------------------------------------------
\* oldest_index
OldestIndex(f) == IF f.count < RingSize THEN 0 ELSE f.index

LastIndex(f) == (f.index + RingSize - 1) % RingSize

\* The observations from the oldest on (physical_index).
History(f) == [i \in 1 .. f.count |-> f.ring[(OldestIndex(f) + i - 1) % RingSize]]

\* try_record
Recorded(f, snapshot) ==
    IF f.count > 0 /\ snapshot.time - f.ring[LastIndex(f)].time < MinInterval
    THEN f
    ELSE [ring |-> [f.ring EXCEPT ![f.index] = snapshot],
          index |-> (f.index + 1) % RingSize,
          count |-> Min({f.count + 1, RingSize})]

\* lerp for both prices.
Interpolated(before, after, target) ==
    [c \in Pair |-> before.cum[c] + ((after.cum[c] - before.cum[c]) * (target - before.time))
                                       \div (after.time - before.time)]

\* observe_at: the cumulative prices at an instant between the oldest
\* observation and now.  after is the next observation, or else now.
Before(f, target) == Max({i \in 1 .. f.count : History(f)[i].time <= target})

CumAt(f, live, target) ==
    LET i == Before(f, target)
        before == History(f)[i]
        after == Append(History(f), live)[i + 1]
    IN  IF before.time = target THEN before.cum ELSE Interpolated(before, after, target)

\* compute_twap
Average(f, live, window) ==
    LET start == CumAt(f, live, live.time - window)
    IN  [c \in Pair |-> (live.cum[c] - start[c]) \div window]

Reaches(f, live, window) ==
    f.count > 0 /\ live.time >= window /\ History(f)[1].time <= live.time - window

\* consult in the present state: it syncs and records before it looks.
Consulted(window) ==
    LET f == Recorded(feed, Synced)
    IN  IF Reaches(f, Synced, window) /\ \A c \in Pair : Average(f, Synced, window)[c] > 0
        THEN Average(f, Synced, window) ELSE NoPrice

\* has_twap_window, which neither syncs nor records.
HasTwap(window) ==
    /\ feed # NoFeed /\ feed.count > 0
    /\ clock - History(feed)[1].time >= window

-----------------------------------------------------------------------------
TwapInit == AmmInit /\ feed = NoFeed /\ spots = <<>>

\* register_pool observes at once.
RegisterPool ==
    /\ feed = NoFeed
    /\ SyncOracle
    /\ feed' = Recorded([index |-> 0, count |-> 0,
                         ring |-> [i \in Slots |-> Synced]], Synced)
    /\ UNCHANGED spots

Observe ==
    /\ feed # NoFeed
    /\ SyncOracle
    /\ feed' = Recorded(feed, Synced)
    /\ UNCHANGED spots

\* A consultation that panics takes its observation back with it.
Consult(window) ==
    /\ feed # NoFeed /\ Consulted(window) # NoPrice
    /\ SyncOracle
    /\ feed' = Recorded(feed, Synced)
    /\ UNCHANGED spots

Trade == AmmTrades /\ UNCHANGED twapVars

Sync == SyncOracle /\ UNCHANGED twapVars

TimePasses(seconds) ==
    /\ LedgerCloses(seconds)
    /\ spots' = spots \o [i \in 1 .. seconds |-> Spot(reserve)]
    /\ UNCHANGED feed

TwapNext ==
    \/ RegisterPool \/ Observe \/ Trade \/ Sync
    \/ \E window \in Windows : Consult(window)
    \/ \E seconds \in Closings : TimePasses(seconds)

TwapSpec == TwapInit /\ [][TwapNext]_marketVars

-----------------------------------------------------------------------------
(* Properties. *)

TwapTypeOK ==
    /\ AmmTypeOK
    /\ feed # NoFeed =>
         /\ feed.index \in Slots /\ feed.count \in 1 .. RingSize
         /\ \A i \in 1 .. feed.count : History(feed)[i].time \in 0 .. clock
    /\ Len(spots) = clock

\* The prices in force after time t.
SpotsSince(c, t) == {spots[i][c] : i \in t + 1 .. clock}

\* The average lies between the lowest and the highest price that was in force
\* since the last observation before the window, however the ring has wrapped,
\* the start was interpolated and divisions were rounded.  An empty pool counts
\* with a price of zero (oracle.rs:70-105, lib.rs:353-500).
AverageOfSpots(f, window) ==
    LET average == Average(f, Synced, window)
        since == History(f)[Before(f, clock - window)].time
    IN  \A c \in Pair : LET prices == SpotsSince(c, since)
                        IN  average[c] \in Min(prices) .. Max(prices)

\* The vault asks for the price because has_twap told it to (vault lib.rs
\* 654-675): it gets one, unless the observation recorded first was written over
\* the one has_twap went by, or the prices of the window average to nothing.
PromiseKept(f, window) ==
    HasTwap(window) =>
        IF Reaches(f, Synced, window)
        THEN Consulted(window) # NoPrice \/ \E c \in Pair : Average(f, Synced, window)[c] = 0
        ELSE feed.count = RingSize /\ f # feed

TwapHolds ==
    feed # NoFeed =>
        LET f == Recorded(feed, Synced)
        IN  \A window \in Windows :
              /\ Reaches(f, Synced, window) => AverageOfSpots(f, window)
              /\ PromiseKept(f, window)
=============================================================================
