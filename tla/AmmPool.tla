------------------------------ MODULE AmmPool ------------------------------
(***************************************************************************)
(* The constant-product pool (contracts/amm_pool/src/pool.rs) with the     *)
(* price accumulator that lives in it (oracle.rs).                         *)
(*                                                                         *)
(* External: the two tokens, which refuse to move more than the payer      *)
(* holds.  The caller's slippage bounds only refuse a call, as its not     *)
(* being made does, and are left out.  A ledger closes later than the one  *)
(* before, so that "once per ledger" and "once per instant" are the same.  *)
(***************************************************************************)
EXTENDS Integers, FiniteSetsExt, Functions

CONSTANTS
    Providers,      \* accounts that trade and provide liquidity
    Base, Quote,    \* the two coins of the pool
    Coins,          \* all coins accounts may hold
    FeeBps,         \* fee_bps of initialize
    PriceScale,     \* PRICE_SCALE of oracle.rs
    Amounts,        \* amounts the calls are made with
    Purse,          \* what every provider starts with, of each coin
    Closings,       \* how long a ledger may take
    MaxClock        \* bound on the ledgers' time

ASSUME AmmAssumption ==
    /\ IsFiniteSet(Providers)
    /\ {Base, Quote} \subseteq Coins /\ Base # Quote
    /\ FeeBps \in 0 .. 1000 /\ PriceScale \in Nat \ {0}
    /\ Amounts \subseteq Nat \ {0} /\ Purse \in Nat
    /\ Closings \subseteq Nat \ {0} /\ MaxClock \in Nat

VARIABLES
    reserve,        \* ReserveToken and ReserveQuote
    totalShares,    \* TotalShares
    shareBalance,   \* ShareBalance(provider)
    accumulator,    \* OracleState: cumulative prices and their time
    purse,          \* coins of the providers
    clock           \* time of the open ledger

poolVars == <<reserve, totalShares, shareBalance, accumulator>>
ammVars == <<poolVars, purse, clock>>

Bps == 10000
Pair == {Base, Quote}
Other(c) == IF c = Base THEN Quote ELSE Base

-----------------------------------------------------------------------------
(* A faulty variant of the definition below, caught by a property. *)

RoundsForProvider(a, b) == a \div b

-----------------------------------------------------------------------------
CeilDiv(a, b) == (a + b - 1) \div b

IntegerSqrt(n) == Max({k \in 0 .. n : k * k <= n})

\* compute_spot_prices: the price of a coin in the other one.
Spot(r) ==
    [c \in Pair |-> IF r[Base] = 0 \/ r[Quote] = 0 THEN 0
                    ELSE (r[Other(c)] * PriceScale) \div r[c]]

\* oracle::sync: the reserves before a trade have been in force until now.
Synced ==
    [cum |-> [c \in Pair |-> accumulator.cum[c] + Spot(reserve)[c] * (clock - accumulator.time)],
     time |-> clock]

\* compute_liquidity: the coins taken of the offer, all of c and as much of the
\* other as the reserves' ratio asks for, and the shares for them.
Matching(c, offer) ==
    LET d == Other(c)
    IN [coin |-> [x \in Pair |-> IF x = c THEN offer[c]
                                 ELSE CeilDiv(offer[c] * reserve[d], reserve[c])],
        shares |-> (offer[c] * totalShares) \div reserve[c]]

Position(offer) ==
    IF totalShares = 0
    THEN [coin |-> offer, shares |-> IntegerSqrt(offer[Base] * offer[Quote])]
    ELSE IF offer[Base] * reserve[Quote] <= offer[Quote] * reserve[Base]
         THEN Matching(Base, offer) ELSE Matching(Quote, offer)

\* compute_swap
AmountOut(c, in) ==
    LET paid == (in * (Bps - FeeBps)) \div Bps
    IN  (reserve[Other(c)] * paid) \div (reserve[c] + paid)

\* compute_swap refuses an empty pool, an input the fee eats up and an output
\* of nothing or of everything.
MaySwap(c, in) ==
    /\ reserve[Base] > 0 /\ reserve[Quote] > 0
    /\ (in * (Bps - FeeBps)) \div Bps > 0
    /\ AmountOut(c, in) \in 1 .. reserve[Other(c)] - 1

\* What the pool does for a swap of anybody who pays in and receives the rest.
SwapReserves(c, in) ==
    /\ MaySwap(c, in)
    /\ accumulator' = Synced
    /\ reserve' = [reserve EXCEPT ![c] = @ + in, ![Other(c)] = @ - AmountOut(c, in)]
    /\ UNCHANGED <<totalShares, shareBalance>>

-----------------------------------------------------------------------------
AmmInit ==
    /\ reserve = [c \in Pair |-> 0]
    /\ totalShares = 0 /\ shareBalance = [p \in Providers |-> 0]
    /\ clock = 0
    /\ accumulator = [cum |-> [c \in Pair |-> 0], time |-> clock]
    /\ purse = [p \in Providers |-> [c \in Coins |-> Purse]]

AddLiquidity(p, offer) ==
    LET take == Position(offer)
    IN
      /\ take.shares > 0
      /\ \A c \in Pair : take.coin[c] \in 1 .. offer[c] /\ take.coin[c] <= purse[p][c]
      /\ accumulator' = Synced
      /\ reserve' = [c \in Pair |-> reserve[c] + take.coin[c]]
      /\ totalShares' = totalShares + take.shares
      /\ shareBalance' = [shareBalance EXCEPT ![p] = @ + take.shares]
      /\ purse' = [purse EXCEPT ![p] =
                     [c \in Coins |-> IF c \in Pair THEN @[c] - take.coin[c] ELSE @[c]]]
      /\ UNCHANGED clock

RemoveLiquidity(p, shares) ==
    LET out == [c \in Pair |-> (reserve[c] * shares) \div totalShares]
    IN
      /\ shares \in 1 .. shareBalance[p]
      /\ \A c \in Pair : out[c] > 0
      /\ accumulator' = Synced
      /\ reserve' = [c \in Pair |-> reserve[c] - out[c]]
      /\ totalShares' = totalShares - shares
      /\ shareBalance' = [shareBalance EXCEPT ![p] = @ - shares]
      /\ purse' = [purse EXCEPT ![p] =
                     [c \in Coins |-> IF c \in Pair THEN @[c] + out[c] ELSE @[c]]]
      /\ UNCHANGED clock

Swap(p, c, in) ==
    /\ purse[p][c] >= in
    /\ SwapReserves(c, in)
    /\ purse' = [purse EXCEPT ![p][c] = @ - in, ![p][Other(c)] = @ + AmountOut(c, in)]
    /\ UNCHANGED clock

SyncOracle ==
    /\ accumulator' = Synced
    /\ UNCHANGED <<reserve, totalShares, shareBalance, purse, clock>>

LedgerCloses(seconds) ==
    /\ clock + seconds <= MaxClock
    /\ clock' = clock + seconds
    /\ UNCHANGED <<poolVars, purse>>

AmmTrades ==
    \/ \E p \in Providers, offer \in [Pair -> Amounts] : AddLiquidity(p, offer)
    \/ \E p \in Providers, shares \in 1 .. totalShares : RemoveLiquidity(p, shares)
    \/ \E p \in Providers, c \in Pair, in \in Amounts : Swap(p, c, in)

AmmNext ==
    \/ AmmTrades
    \/ SyncOracle
    \/ \E seconds \in Closings : LedgerCloses(seconds)

AmmSpec == AmmInit /\ [][AmmNext]_ammVars

-----------------------------------------------------------------------------
(* Properties. *)

AmmTypeOK ==
    /\ reserve \in [Pair -> Nat]
    /\ totalShares \in Nat /\ shareBalance \in [Providers -> Nat]
    /\ accumulator \in [cum : [Pair -> Nat], time : 0 .. clock]
    /\ purse \in [Providers -> [Coins -> Nat]] /\ clock \in 0 .. MaxClock

\* The shares are those of the providers, there is something behind each as
\* soon as there is one and nothing behind none (an emptied pool starts afresh),
\* and a share is never worth less than the unit it cost at first
\* (pool.rs:163-288, 452-520).
SharesBacked ==
    /\ totalShares = SumFunctionOnSet(shareBalance, DOMAIN shareBalance)
    /\ totalShares * totalShares <= reserve[Base] * reserve[Quote]
    /\ \A c \in Pair : reserve[c] > 0 <=> totalShares > 0

\* Rounding and fees favour those who stay: no deposit, withdrawal or swap of
\* anybody, at whatever ratio, makes the product of the reserves per squared
\* share fall (pool.rs:163-356, 523-580).
NothingIsDrawnFromShares ==
    [][totalShares > 0 =>
         reserve'[Base] * reserve'[Quote] * totalShares * totalShares
           >= reserve[Base] * reserve[Quote] * totalShares' * totalShares']_poolVars

SharesKeepTheirWorth == []SharesBacked /\ NothingIsDrawnFromShares
=============================================================================
