----------------------------- MODULE MarketProofs -----------------------------
(***************************************************************************)
(* Theorems about the contracts that handle prices, for any users, coins,  *)
(* amounts and fees: the AMM pool, the lending pool over it, the vault and *)
(* the server's mirror of a vault.                                         *)
(***************************************************************************)
EXTENDS MCVault, SumTheorems

-----------------------------------------------------------------------------
(* Rounded division. *)

\* Quotient and remainder.
LEMMA Division ==
    ASSUME NEW a \in Nat, NEW b \in Nat \ {0}
    PROVE  a \div b \in Nat /\ (a \div b) * b <= a /\ a < (a \div b) * b + b
  OBVIOUS

\* A division rounded up is natural and covers the dividend.
LEMMA DivisionUp ==
    ASSUME NEW a \in Nat, NEW b \in Nat \ {0}
    PROVE  CeilDiv(a, b) \in Nat /\ a <= CeilDiv(a, b) * b
<1>1. a + b - 1 \in Nat
  OBVIOUS
<1>2. /\ (a + b - 1) \div b \in Nat
      /\ a + b - 1 < ((a + b - 1) \div b) * b + b
  BY <1>1, Division
<1> DEFINE quot == (a + b - 1) \div b
<1>3. quot * b \in Nat
  BY <1>2
<1> HIDE DEF quot
<1> QED
  BY <1>1, <1>2, <1>3 DEF CeilDiv, quot

\* Products of naturals are natural.
LEMMA Products == ASSUME NEW a \in Nat, NEW b \in Nat PROVE a * b \in Nat
  OBVIOUS

\* Smaller factors, smaller products; and back.
LEMMA ProductGrows ==
    ASSUME NEW a \in Nat, NEW b \in Nat, NEW c \in Nat, NEW d \in Nat, a <= b, c <= d
    PROVE  a * c <= b * d
  OBVIOUS

\* A positive factor cancels in a comparison.
LEMMA FactorCancels ==
    ASSUME NEW a \in Int, NEW b \in Int, NEW c \in Nat \ {0}, a * c <= b * c
    PROVE  a <= b
  OBVIOUS

-----------------------------------------------------------------------------
(* The AMM pool.  Each operation keeps, for each coin, what a share stands   *)
(* for, or (a swap) the product of the reserves; rounding favours the pool.  *)

AmmTypes ==
    /\ reserve \in [Pair -> Nat] /\ totalShares \in Nat
    /\ shareBalance \in [Providers -> Nat]

AmmInv == AmmTypes /\ SharesBacked

\* No less of a coin for each share.
NoLess(r, shares, new, newShares) == r * newShares <= new * shares

WorthKept ==
    reserve'[Base] * reserve'[Quote] * totalShares * totalShares
      >= reserve[Base] * reserve[Quote] * totalShares' * totalShares'

\* If each coin behind a share is no less than before, neither is their product.
LEMMA WorthOfBoth ==
    ASSUME NEW x \in Nat, NEW y \in Nat, NEW t \in Nat,
           NEW u \in Nat, NEW v \in Nat, NEW s \in Nat,
           NoLess(x, t, u, s), NoLess(y, t, v, s)
    PROVE  u * v * t * t >= x * y * s * s
<1>1. x * s \in Nat /\ u * t \in Nat /\ y * s \in Nat /\ v * t \in Nat
  BY Products
<1>2. x * s <= u * t /\ y * s <= v * t
  BY DEF NoLess
<1>3. (x * s) * (y * s) <= (u * t) * (v * t)
  BY <1>1, <1>2, ProductGrows
<1> QED
  BY <1>3

\* A pool has two different coins.
LEMMA PairIsTwo ==
    Base \in Pair /\ Quote \in Pair /\ Base # Quote /\ \A c \in Pair : c = Base \/ c = Quote
  BY AmmAssumption DEF Pair

\* The shares for a first deposit.
LEMMA Root ==
    ASSUME NEW n \in Nat
    PROVE  IntegerSqrt(n) \in Nat /\ IntegerSqrt(n) * IntegerSqrt(n) <= n
<1> DEFINE S == {k \in 0 .. n : k * k <= n}
<1>1. 0 \in S /\ S \subseteq Int /\ S \subseteq 0 .. n
  OBVIOUS
<1>2. IsFiniteSet(S)
  <2>1. IsFiniteSet(0 .. n)
    BY FS_Interval
  <2> QED
    BY <1>1, <2>1, FS_Subset
<1>3. \E x \in S : \A y \in S : x >= y
  <2> HIDE DEF S
  <2> QED
    BY <1>1, <1>2, GreatestExists
<1>4. Max(S) \in S
  BY <1>3 DEF Max
<1> QED
  BY <1>4 DEF IntegerSqrt

\* A deposit at the reserves' ratio: what is taken of the other coin is rounded
\* up, and the shares are rounded down.
LEMMA MatchingKeeps ==
    ASSUME NEW x \in Nat \ {0}, NEW y \in Nat, NEW t \in Nat, NEW a \in Nat,
           NEW b, b = CeilDiv(a * y, x), NEW s, s = (a * t) \div x
    PROVE  /\ b \in Nat /\ s \in Nat
           /\ NoLess(x, t, x + a, t + s) /\ NoLess(y, t, y + b, t + s)
<1>1. b \in Nat /\ a * y <= b * x /\ s \in Nat /\ s * x <= a * t
  BY Products, Division, DivisionUp
<1>2. NoLess(x, t, x + a, t + s)
  <2>1. x * (t + s) = x * t + s * x /\ (x + a) * t = x * t + a * t
    BY <1>1
  <2>2. x * t \in Nat /\ s * x \in Nat /\ a * t \in Nat
    BY <1>1, Products
  <2> QED
    BY <1>1, <2>1, <2>2 DEF NoLess
<1>3. y * s <= b * t
  <2>1. (y * s) * x = (s * x) * y /\ (a * t) * y = (a * y) * t /\ (b * x) * t = (b * t) * x
    BY <1>1
  <2>2. s * x \in Nat /\ a * t \in Nat /\ a * y \in Nat /\ b * x \in Nat
    BY <1>1, Products
  <2>3. (s * x) * y <= (a * t) * y /\ (a * y) * t <= (b * x) * t
    BY <1>1, <2>2, ProductGrows
  <2>4. y * s \in Int /\ b * t \in Int
    BY <1>1
  <2>5. (s * x) * y \in Int /\ (a * t) * y \in Int /\ (b * x) * t \in Int
    BY <2>2
  <2>6. (y * s) * x <= (b * t) * x
    BY <2>1, <2>3, <2>5
  <2> QED
    BY <2>4, <2>6, FactorCancels
<1>4. NoLess(y, t, y + b, t + s)
  <2>1. y * (t + s) = y * t + y * s /\ (y + b) * t = y * t + b * t
    BY <1>1
  <2>2. y * t \in Nat /\ y * s \in Nat /\ b * t \in Nat
    BY <1>1, Products
  <2> QED
    BY <1>3, <2>1, <2>2 DEF NoLess
<1> QED
  BY <1>1, <1>2, <1>4

\* A step that keeps each coin's part per share keeps the worth and the backing.
LEMMA PartsSuffice ==
    ASSUME AmmInv, AmmTypes', totalShares > 0,
           \A c \in Pair : NoLess(reserve[c], totalShares, reserve'[c], totalShares'),
           totalShares' = SumFunctionOnSet(shareBalance', DOMAIN shareBalance'),
           totalShares' = 0 => \A c \in Pair : reserve'[c] = 0
    PROVE  WorthKept /\ AmmInv'
<1>1. /\ reserve[Base] \in Nat /\ reserve[Quote] \in Nat
      /\ reserve'[Base] \in Nat /\ reserve'[Quote] \in Nat
      /\ totalShares \in Nat \ {0} /\ totalShares' \in Nat
  BY PairIsTwo DEF AmmInv, AmmTypes
<1>2. WorthKept
  BY <1>1, PairIsTwo, WorthOfBoth DEF WorthKept
<1>3. totalShares' * totalShares' <= reserve'[Base] * reserve'[Quote]
  <2> DEFINE t == totalShares * totalShares
             k == reserve[Base] * reserve[Quote]
             s == totalShares' * totalShares'
             m == reserve'[Base] * reserve'[Quote]
  <2>1. /\ t \in Nat \ {0} /\ k \in Nat /\ s \in Nat /\ m \in Nat
        /\ t <= k
    BY <1>1, Products DEF AmmInv, SharesBacked
  <2>2. k * s <= m * t
    BY <1>1, <1>2 DEF WorthKept
  <2> HIDE DEF t, k, s, m
  <2>3. s * t <= m * t
    <3>1. t * s <= k * s
      BY <2>1, ProductGrows
    <3>2. t * s = s * t /\ t * s \in Nat /\ k * s \in Nat /\ m * t \in Nat
      BY <2>1
    <3> QED
      BY <2>2, <3>1, <3>2
  <2>4. s <= m
    BY <2>1, <2>3, FactorCancels
  <2> QED
    BY <2>4 DEF s, m
<1>4. \A c \in Pair : reserve'[c] > 0 <=> totalShares' > 0
  <2> SUFFICES ASSUME NEW c \in Pair PROVE reserve'[c] > 0 <=> totalShares' > 0
    OBVIOUS
  <2>1. reserve[c] \in Nat \ {0} /\ reserve'[c] \in Nat
    BY <1>1 DEF AmmInv, AmmTypes, SharesBacked
  <2>2. reserve[c] * totalShares' <= reserve'[c] * totalShares
    BY DEF NoLess
  <2>3. reserve'[c] = 0 => totalShares' = 0
    <3> SUFFICES ASSUME reserve'[c] = 0, totalShares' # 0 PROVE FALSE
      OBVIOUS
    <3>1. reserve[c] * totalShares' <= 0
      BY <1>1, <2>2
    <3>2. reserve[c] * totalShares' > 0
      BY <1>1, <2>1
    <3> QED
      BY <1>1, <2>1, <3>1, <3>2
  <2> QED
    BY <1>1, <2>1, <2>3
<1> QED
  BY <1>2, <1>3, <1>4 DEF AmmInv, SharesBacked

\* The shares of one provider changed.
LEMMA SharesChanged ==
    ASSUME AmmInv, NEW p \in Providers, NEW n \in Nat,
           shareBalance' = [shareBalance EXCEPT ![p] = n]
    PROVE  /\ SumFunctionOnSet(shareBalance', DOMAIN shareBalance')
                = totalShares - shareBalance[p] + n
           /\ shareBalance' \in [Providers -> Nat]
<1>1. shareBalance \in [Providers -> Int] /\ IsFiniteSet(Providers) /\ n \in Int
  BY AmmAssumption DEF AmmInv, AmmTypes
<1>2. SumFunction([shareBalance EXCEPT ![p] = n]) = SumFunction(shareBalance) - shareBalance[p] + n
  BY <1>1, SumOfExcept
<1>3. shareBalance' \in [Providers -> Nat]
  BY DEF AmmInv, AmmTypes
<1>4. /\ SumFunctionOnSet(shareBalance, DOMAIN shareBalance) = SumFunction(shareBalance)
      /\ SumFunctionOnSet(shareBalance', DOMAIN shareBalance') = SumFunction(shareBalance')
  BY DEF SumFunction
<1>5. totalShares = SumFunctionOnSet(shareBalance, DOMAIN shareBalance)
  BY DEF AmmInv, SharesBacked
<1> QED
  BY <1>2, <1>3, <1>4, <1>5

\* Shares given for a deposit, rounded down, take nothing from the others.
LEMMA AddStep ==
    ASSUME AmmInv, NEW p \in Providers, NEW offer \in [Pair -> Amounts], AddLiquidity(p, offer)
    PROVE  AmmInv' /\ (totalShares > 0 => WorthKept)
<1> DEFINE take == Position(offer)
<1>1. /\ reserve[Base] \in Nat /\ reserve[Quote] \in Nat /\ totalShares \in Nat
      /\ \A c \in Pair : reserve[c] \in Nat /\ offer[c] \in Nat \ {0}
      /\ shareBalance[p] \in Nat
  BY PairIsTwo, AmmAssumption DEF AmmInv, AmmTypes
<1>2. /\ take.shares > 0
      /\ \A c \in Pair : take.coin[c] \in 1 .. offer[c]
      /\ reserve' = [c \in Pair |-> reserve[c] + take.coin[c]]
      /\ totalShares' = totalShares + take.shares
      /\ shareBalance' = [shareBalance EXCEPT ![p] = shareBalance[p] + take.shares]
  BY DEF AddLiquidity
<1>3. CASE totalShares = 0
  <2>1. take = [coin |-> offer, shares |-> IntegerSqrt(offer[Base] * offer[Quote])]
    BY <1>3 DEF Position
  <2>2. /\ take.coin = offer /\ take.shares \in Nat
        /\ take.shares * take.shares <= offer[Base] * offer[Quote]
    <3>1. offer[Base] * offer[Quote] \in Nat
      BY <1>1, PairIsTwo, Products
    <3> QED
      BY <2>1, <3>1, Root
  <2> HIDE DEF take
  <2>3. \A c \in Pair : reserve[c] = 0
    BY <1>1, <1>3 DEF AmmInv, SharesBacked
  <2>4. \A c \in Pair : reserve'[c] = offer[c]
    BY <1>1, <1>2, <2>2, <2>3
  <2>5. totalShares' = take.shares /\ shareBalance[p] + take.shares \in Nat
    BY <1>1, <1>2, <1>3, <2>2
  <2>6. /\ SumFunctionOnSet(shareBalance', DOMAIN shareBalance')
             = totalShares - shareBalance[p] + (shareBalance[p] + take.shares)
        /\ shareBalance' \in [Providers -> Nat]
    BY <1>2, <2>5, SharesChanged
  <2>7. totalShares' = SumFunctionOnSet(shareBalance', DOMAIN shareBalance')
    BY <1>1, <1>3, <2>2, <2>5, <2>6
  <2>8. AmmTypes'
    BY <1>1, <1>2, <2>2, <2>4, <2>5, <2>6 DEF AmmTypes
  <2>9. totalShares' * totalShares' <= reserve'[Base] * reserve'[Quote]
    BY <2>2, <2>4, <2>5, PairIsTwo
  <2>10. \A c \in Pair : reserve'[c] > 0 <=> totalShares' > 0
    BY <1>1, <1>2, <2>4, <2>5
  <2> QED
    BY <1>3, <2>7, <2>8, <2>9, <2>10 DEF AmmInv, SharesBacked
<1>4. CASE totalShares > 0
  <2>1. PICK c \in Pair : take = Matching(c, offer)
    BY <1>1, <1>4, PairIsTwo DEF Position
  <2>2. PICK d \in Pair : d = Other(c) /\ d # c /\ Pair = {c, d}
    BY PairIsTwo DEF Other, Pair
  <2>3. reserve[c] \in Nat \ {0} /\ reserve[d] \in Nat /\ offer[c] \in Nat
    BY <1>1, <1>4 DEF AmmInv, SharesBacked
  <2>4. /\ take.coin[c] = offer[c]
        /\ take.coin[d] = CeilDiv(offer[c] * reserve[d], reserve[c])
        /\ take.shares = (offer[c] * totalShares) \div reserve[c]
    BY <2>1, <2>2 DEF Matching
  <2> HIDE DEF take
  <2>5. /\ take.shares \in Nat /\ take.coin[d] \in Nat
        /\ NoLess(reserve[c], totalShares, reserve[c] + take.coin[c], totalShares + take.shares)
        /\ NoLess(reserve[d], totalShares, reserve[d] + take.coin[d], totalShares + take.shares)
    BY <1>1, <2>3, <2>4, MatchingKeeps
  <2>6. \A x \in Pair : reserve'[x] = reserve[x] + take.coin[x]
    BY <1>2
  <2>7. \A x \in Pair : NoLess(reserve[x], totalShares, reserve'[x], totalShares')
    BY <1>2, <2>2, <2>5, <2>6
  <2>8. shareBalance[p] + take.shares \in Nat
    BY <1>1, <2>5
  <2>9. /\ SumFunctionOnSet(shareBalance', DOMAIN shareBalance')
             = totalShares - shareBalance[p] + (shareBalance[p] + take.shares)
        /\ shareBalance' \in [Providers -> Nat]
    BY <1>2, <2>8, SharesChanged
  <2>10. totalShares' = SumFunctionOnSet(shareBalance', DOMAIN shareBalance')
    BY <1>1, <1>2, <2>5, <2>9
  <2>11. AmmTypes'
    <3>1. \A x \in Pair : take.coin[x] \in Nat
      BY <2>2, <2>3, <2>4, <2>5
    <3> QED
      BY <1>1, <1>2, <2>5, <2>9, <3>1 DEF AmmTypes
  <2>12. totalShares' # 0
    BY <1>1, <1>2, <1>4, <2>5
  <2> QED
    BY <1>4, <2>7, <2>10, <2>11, <2>12, PartsSuffice
<1> QED
  BY <1>1, <1>3, <1>4

\* A withdrawal, rounded down, leaves no less behind each remaining share.
LEMMA RemoveStep ==
    ASSUME AmmInv, NEW p \in Providers, NEW shares \in 1 .. totalShares, RemoveLiquidity(p, shares)
    PROVE  AmmInv' /\ WorthKept
<1> DEFINE out(c) == (reserve[c] * shares) \div totalShares
<1>1. /\ shares \in 1 .. shareBalance[p]
      /\ reserve' = [c \in Pair |-> reserve[c] - out(c)]
      /\ totalShares' = totalShares - shares
      /\ shareBalance' = [shareBalance EXCEPT ![p] = shareBalance[p] - shares]
  BY DEF RemoveLiquidity
<1>2. /\ totalShares \in Nat \ {0} /\ shares \in Nat /\ shares <= totalShares
      /\ \A c \in Pair : reserve[c] \in Nat
      /\ shareBalance[p] \in Nat /\ shares <= shareBalance[p]
      /\ reserve \in [Pair -> Nat]
  BY <1>1 DEF AmmInv, AmmTypes
<1>3. ASSUME NEW c \in Pair
      PROVE  /\ out(c) \in Nat /\ out(c) * totalShares <= reserve[c] * shares
             /\ out(c) <= reserve[c]
             /\ shares = totalShares => out(c) = reserve[c]
  <2>1. reserve[c] * shares \in Nat /\ reserve[c] \in Nat
    BY <1>2, Products
  <2>2. out(c) \in Nat /\ out(c) * totalShares <= reserve[c] * shares
    BY <1>2, <2>1, Division
  <2>3. reserve[c] * shares <= reserve[c] * totalShares
    BY <1>2, <2>1, ProductGrows
  <2>4. shares = totalShares => out(c) = reserve[c]
    BY <1>2, <2>1
  <2> HIDE DEF out
  <2>5. out(c) * totalShares \in Nat /\ reserve[c] * totalShares \in Nat
    BY <1>2, <2>1, <2>2, Products
  <2>6. out(c) <= reserve[c]
    BY <1>2, <2>1, <2>2, <2>3, <2>5, FactorCancels
  <2> QED
    BY <2>2, <2>4, <2>6
<1> HIDE DEF out
<1>4. \A c \in Pair : reserve'[c] = reserve[c] - out(c)
  BY <1>1
<1>5. ASSUME NEW c \in Pair
      PROVE  NoLess(reserve[c], totalShares, reserve'[c], totalShares')
  <2>1. out(c) * totalShares <= reserve[c] * shares /\ out(c) \in Nat /\ reserve[c] \in Nat
    BY <1>2, <1>3
  <2>2. /\ reserve[c] * (totalShares - shares) = reserve[c] * totalShares - reserve[c] * shares
        /\ (reserve[c] - out(c)) * totalShares = reserve[c] * totalShares - out(c) * totalShares
    BY <1>2, <2>1
  <2>3. /\ reserve[c] * totalShares \in Nat /\ reserve[c] * shares \in Nat
        /\ out(c) * totalShares \in Nat
    BY <1>2, <2>1, Products
  <2> QED
    BY <1>1, <1>4, <2>1, <2>2, <2>3 DEF NoLess
<1>6. shareBalance[p] - shares \in Nat /\ totalShares' \in Nat
  BY <1>1, <1>2
<1>7. /\ SumFunctionOnSet(shareBalance', DOMAIN shareBalance')
           = totalShares - shareBalance[p] + (shareBalance[p] - shares)
      /\ shareBalance' \in [Providers -> Nat]
  BY <1>1, <1>6, SharesChanged
<1>8. totalShares' = SumFunctionOnSet(shareBalance', DOMAIN shareBalance')
  BY <1>1, <1>2, <1>7
<1>9. AmmTypes'
  <2>1. \A c \in Pair : reserve[c] - out(c) \in Nat
    BY <1>2, <1>3
  <2> QED
    BY <1>1, <1>6, <1>7, <2>1 DEF AmmTypes
<1>10. totalShares' = 0 => \A c \in Pair : reserve'[c] = 0
  BY <1>1, <1>2, <1>3, <1>4
<1> QED
  BY <1>2, <1>5, <1>8, <1>9, <1>10, PartsSuffice

\* A swap, whoever pays: the fee and the rounding stay in the pool.
LEMMA SwapStep ==
    ASSUME AmmInv, NEW c \in Pair, NEW in \in Nat, SwapReserves(c, in)
    PROVE  AmmInv' /\ WorthKept
<1> DEFINE paid == (in * (Bps - FeeBps)) \div Bps
           out  == AmountOut(c, in)
<1>1. PICK d \in Pair : d = Other(c) /\ d # c /\ Pair = {c, d}
  BY PairIsTwo DEF Other, Pair
<1>2. /\ reserve' = [reserve EXCEPT ![c] = reserve[c] + in, ![d] = reserve[d] - out]
      /\ reserve[Base] > 0 /\ reserve[Quote] > 0
      /\ paid > 0 /\ out \in 1 .. reserve[d] - 1
      /\ UNCHANGED <<totalShares, shareBalance>>
  BY <1>1 DEF SwapReserves, MaySwap
<1>3. /\ reserve \in [Pair -> Nat] /\ totalShares \in Nat
      /\ reserve[c] \in Nat \ {0} /\ reserve[d] \in Nat \ {0}
      /\ Bps \in Nat \ {0} /\ FeeBps \in Nat /\ Bps - FeeBps \in Nat /\ Bps - FeeBps <= Bps
  BY <1>1, <1>2, PairIsTwo, AmmAssumption DEF AmmInv, AmmTypes, Bps
<1>4. paid \in Nat /\ paid <= in
  <2>1. in * (Bps - FeeBps) \in Nat /\ in * (Bps - FeeBps) <= in * Bps
    BY <1>3, Products, ProductGrows
  <2>2. paid \in Nat /\ paid * Bps <= in * (Bps - FeeBps)
    BY <1>3, <2>1, Division
  <2>3. paid * Bps <= in * Bps
    <3> HIDE DEF paid
    <3>1. paid * Bps \in Nat /\ in * Bps \in Nat
      BY <1>3, <2>2, Products
    <3> QED
      BY <2>1, <2>2, <3>1
  <2> HIDE DEF paid
  <2> QED
    BY <1>3, <2>2, <2>3, FactorCancels
<1>5. out * (reserve[c] + paid) <= reserve[d] * paid /\ out \in Nat /\ out < reserve[d]
  <2>1. out = (reserve[d] * paid) \div (reserve[c] + paid)
    BY <1>1 DEF AmountOut
  <2>2. reserve[d] * paid \in Nat /\ reserve[c] + paid \in Nat \ {0}
    <3> HIDE DEF paid
    <3> QED
      BY <1>3, <1>4, Products
  <2> HIDE DEF paid, out
  <2> QED
    BY <1>2, <1>3, <2>1, <2>2, Division
<1> HIDE DEF paid, out
<1>6. reserve'[c] = reserve[c] + in /\ reserve'[d] = reserve[d] - out
  BY <1>1, <1>2, <1>3
<1>7. reserve[c] * reserve[d] <= reserve'[c] * reserve'[d]
  <2> DEFINE x == reserve[c]
             y == reserve[d]
  <2>1. /\ x \in Nat \ {0} /\ y \in Nat \ {0} /\ y - out \in Nat /\ x + paid \in Nat
        /\ x + in \in Nat /\ x + paid <= x + in /\ out * (x + paid) <= y * paid
        /\ paid \in Nat /\ out \in Nat
    BY <1>3, <1>4, <1>5
  <2> HIDE DEF x, y
  <2>2. (y - out) * (x + paid) = y * x + y * paid - out * (x + paid)
    BY <2>1
  <2>3. y * x \in Nat /\ y * paid \in Nat /\ out * (x + paid) \in Nat
    BY <2>1, Products
  <2>4. y * x <= (y - out) * (x + paid)
    BY <2>1, <2>2, <2>3
  <2>5. (y - out) * (x + paid) <= (y - out) * (x + in)
    BY <2>1, ProductGrows
  <2>6. /\ y * x = x * y /\ (y - out) * (x + in) = (x + in) * (y - out)
        /\ (y - out) * (x + paid) \in Nat /\ (y - out) * (x + in) \in Nat
    BY <2>1
  <2>7. x * y <= (x + in) * (y - out)
    BY <2>3, <2>4, <2>5, <2>6
  <2> QED
    BY <1>6, <2>7 DEF x, y
<1>8. AmmTypes'
  BY <1>1, <1>2, <1>3, <1>5, <1>6 DEF AmmInv, AmmTypes
<1>9. reserve[Base] * reserve[Quote] <= reserve'[Base] * reserve'[Quote]
  BY <1>1, <1>3, <1>5, <1>6, <1>7, PairIsTwo
<1>10. WorthKept
  <2> DEFINE k == reserve[Base] * reserve[Quote]
             m == reserve'[Base] * reserve'[Quote]
             t == totalShares * totalShares
  <2>1. k \in Nat /\ m \in Nat /\ t \in Nat /\ k <= m
    BY <1>3, <1>8, <1>9, PairIsTwo, Products DEF AmmTypes
  <2>2. m * t >= k * t
    <3> HIDE DEF k, m, t
    <3> QED
      BY <2>1, ProductGrows
  <2> QED
    BY <1>2, <1>3, <1>8, <2>2, PairIsTwo DEF WorthKept, AmmTypes
<1>11. SharesBacked'
  <2>1. \A x \in Pair : reserve'[x] > 0 /\ reserve[x] > 0
    BY <1>1, <1>3, <1>5, <1>6
  <2>2. totalShares > 0 /\ totalShares * totalShares <= reserve[Base] * reserve[Quote]
        /\ totalShares = SumFunctionOnSet(shareBalance, DOMAIN shareBalance)
    BY <1>1, <2>1 DEF AmmInv, SharesBacked
  <2>3. /\ totalShares * totalShares \in Nat /\ reserve[Base] * reserve[Quote] \in Nat
        /\ reserve'[Base] * reserve'[Quote] \in Nat
    BY <1>3, <1>8, PairIsTwo, Products DEF AmmTypes
  <2>4. totalShares' * totalShares' <= reserve'[Base] * reserve'[Quote]
    BY <1>2, <1>9, <2>2, <2>3
  <2>5. totalShares' = SumFunctionOnSet(shareBalance', DOMAIN shareBalance')
    BY <1>2, <2>2
  <2>6. \A x \in Pair : reserve'[x] > 0 <=> totalShares' > 0
    BY <1>2, <2>1, <2>2
  <2> QED
    BY <2>4, <2>5, <2>6 DEF SharesBacked
<1> QED
  BY <1>8, <1>10, <1>11 DEF AmmInv

\* What a step of the pool, of its oracle or of the ledger does to the reserves
\* and the shares.
LEMMA AmmStep ==
    ASSUME AmmInv, [AmmNext]_ammVars
    PROVE  AmmInv' /\ (totalShares > 0 => WorthKept \/ UNCHANGED <<reserve, totalShares>>)
<1>1. CASE UNCHANGED <<reserve, totalShares, shareBalance>>
  BY <1>1 DEF AmmInv, AmmTypes, SharesBacked
<1>2. ASSUME NEW p \in Providers, NEW offer \in [Pair -> Amounts], AddLiquidity(p, offer)
      PROVE  AmmInv' /\ (totalShares > 0 => WorthKept)
  BY <1>2, AddStep
<1>3. ASSUME NEW p \in Providers, NEW shares \in 1 .. totalShares, RemoveLiquidity(p, shares)
      PROVE  AmmInv' /\ WorthKept
  BY <1>3, RemoveStep
<1>4. ASSUME NEW p \in Providers, NEW c \in Pair, NEW in \in Amounts, Swap(p, c, in)
      PROVE  AmmInv' /\ WorthKept
  <2>1. in \in Nat /\ SwapReserves(c, in)
    BY <1>4, AmmAssumption DEF Swap
  <2> QED
    BY <2>1, SwapStep
<1>5. CASE SyncOracle
  BY <1>1, <1>5 DEF SyncOracle
<1>6. ASSUME NEW seconds \in Closings, LedgerCloses(seconds)
      PROVE  UNCHANGED <<reserve, totalShares, shareBalance>>
  BY <1>6 DEF LedgerCloses, poolVars
<1> QED
  BY <1>1, <1>2, <1>3, <1>4, <1>5, <1>6 DEF AmmNext, AmmTrades, ammVars, poolVars

\* An empty pool has no shares.
LEMMA AmmStarts == AmmInit => AmmInv
<1> SUFFICES ASSUME AmmInit PROVE AmmInv
  OBVIOUS
<1>1. /\ reserve \in [Pair -> Nat] /\ totalShares = 0 /\ shareBalance \in [Providers -> Nat]
      /\ \A c \in Pair : reserve[c] = 0
      /\ \A p \in Providers : shareBalance[p] = 0
      /\ IsFiniteSet(Providers) /\ DOMAIN shareBalance = Providers
  BY AmmAssumption DEF AmmInit
<1>2. SumFunctionOnSet(shareBalance, Providers) = 0
  BY <1>1, SumOfZeros
<1>3. totalShares * totalShares <= reserve[Base] * reserve[Quote]
  BY <1>1, PairIsTwo
<1> QED
  BY <1>1, <1>2, <1>3 DEF AmmInv, AmmTypes, SharesBacked

\* The backing of the shares and their worth, for any number of providers, any
\* amounts and any fee up to MAX_FEE_BPS: no operation of the pool, in whatever
\* order, dilutes those who stay (pool.rs:163-356).
THEOREM SharesAreWorth == AmmSpec => SharesKeepTheirWorth
<1>1. AmmInit => AmmInv
  BY AmmStarts
<1>2. AmmInv /\ [AmmNext]_ammVars => AmmInv'
  BY AmmStep
<1>3. AmmInv /\ [AmmNext]_ammVars =>
        [totalShares > 0 =>
          reserve'[Base] * reserve'[Quote] * totalShares * totalShares
            >= reserve[Base] * reserve[Quote] * totalShares' * totalShares']_poolVars
  <2> SUFFICES ASSUME AmmInv, [AmmNext]_ammVars, totalShares > 0
               PROVE  WorthKept
    BY DEF WorthKept
  <2>1. CASE UNCHANGED <<reserve, totalShares>>
    <3>1. reserve[Base] \in Nat /\ reserve[Quote] \in Nat /\ totalShares \in Nat
      BY PairIsTwo DEF AmmInv, AmmTypes
    <3>2. reserve[Base] * reserve[Quote] * totalShares * totalShares \in Nat
      BY <3>1, Products
    <3> QED
      BY <2>1, <3>2 DEF WorthKept
  <2> QED
    BY <2>1, AmmStep
<1>4. AmmInv => SharesBacked
  BY DEF AmmInv
<1> QED
  BY <1>1, <1>2, <1>3, <1>4, PTL DEF AmmSpec, SharesKeepTheirWorth, NothingIsDrawnFromShares

-----------------------------------------------------------------------------
(* The lending pool.                                                         *)

LendTypes ==
    /\ assetConfig \in [Assets -> AssetConfigs \cup {NoAsset}]
    /\ quoted \in [Assets -> [price : AssetPrices, fresh : BOOLEAN]]
    /\ collateral \in [Providers -> [Assets -> Nat]] /\ debt \in [Providers -> Nat]
    /\ kept \in [Coins -> Int]
    /\ flash # NoFlash =>
          /\ flash.borrower \in Providers /\ flash.asset \in Assets
          /\ flash.amount \in LendAmounts /\ flash.least \in MinOutputs

LendInv == LendTypes /\ CollateralKept

\* The smaller of two integers is one of them and exceeds neither.
LEMMA LeastOfTwo ==
    ASSUME NEW x \in Int, NEW y \in Int
    PROVE  Min({x, y}) \in {x, y} /\ Min({x, y}) <= x /\ Min({x, y}) <= y
  BY DEF Min

\* What the assumptions say of amounts, assets and prices.
LEMMA Amounts1 ==
    /\ LendAmounts \subseteq Nat \ {0} /\ Assets \subseteq Coins
    /\ IsFiniteSet(Assets) /\ IsFiniteSet(Providers)
    /\ Quote \in Coins /\ Quote \notin Assets /\ Base \in Coins
    /\ PriceScale \in Nat \ {0} /\ AssetPrices \subseteq Nat \ {0}
  BY AmmAssumption, LendingAssumption

\* A position is sound when it owes no more than its safe value.
SafeOf(cfg, qs, amounts, limit) ==
    SumFunction([a \in Assets |->
        IF amounts[a] = 0 \/ cfg[a] = NoAsset THEN 0
        ELSE (((amounts[a] * qs[a].price) \div PriceScale) * cfg[a][limit]) \div Bps])

\* The weighted sum of a position as a function of its parts.
LEMMA WeightedIs ==
    ASSUME NEW amounts, NEW limit
    PROVE  Weighted(amounts, limit) = SafeOf(assetConfig, quoted, amounts, limit)
  BY DEF Weighted, AssetValue, SafeOf

\* Comparing a ratio with one is comparing numerator and denominator, rounding included.
LEMMA SoundMeans ==
    ASSUME NEW s \in Nat, NEW due \in Nat \ {0}
    PROVE  (s * PriceScale) \div due >= PriceScale <=> due <= s
<1> DEFINE k == (s * PriceScale) \div due
<1>0. PriceScale \in Nat \ {0}
  BY Amounts1
<1>1. s * PriceScale \in Nat
  BY <1>0, Products
<1>2. k \in Nat /\ k * due <= s * PriceScale /\ s * PriceScale < k * due + due
  BY <1>1, Division
<1> HIDE DEF k
<1>3. ASSUME k >= PriceScale PROVE due <= s
  <2>1. PriceScale * due <= k * due
    BY <1>0, <1>2, <1>3, ProductGrows
  <2>2. due * PriceScale = PriceScale * due /\ k * due \in Nat /\ PriceScale * due \in Nat
    BY <1>0, <1>2
  <2>3. due * PriceScale <= s * PriceScale
    BY <1>1, <1>2, <2>1, <2>2
  <2> QED
    BY <1>0, <2>3, FactorCancels
<1>4. ASSUME due <= s PROVE k >= PriceScale
  <2>1. due * PriceScale <= s * PriceScale
    BY <1>0, <1>4, ProductGrows
  <2>2. (k + 1) * due = k * due + due /\ PriceScale * due = due * PriceScale
    BY <1>0, <1>2
  <2>3. k * due \in Nat /\ due * PriceScale \in Nat
    BY <1>0, <1>2, Products
  <2>4. PriceScale * due < (k + 1) * due
    BY <1>1, <1>2, <2>1, <2>2, <2>3
  <2>5. ~ (k + 1 <= PriceScale)
    <3> SUFFICES ASSUME k + 1 <= PriceScale PROVE FALSE
      OBVIOUS
    <3>1. (k + 1) * due <= PriceScale * due
      BY <1>0, <1>2, ProductGrows
    <3>2. (k + 1) * due \in Nat /\ PriceScale * due \in Nat
      BY <1>0, <1>2, Products
    <3> QED
      BY <2>4, <3>1, <3>2
  <2> QED
    BY <1>0, <1>2, <2>5
<1> QED
  BY <1>0, <1>2, <1>3, <1>4 DEF k

\* A quotient of more is no less.
LEMMA QuotientGrows ==
    ASSUME NEW m \in Nat, NEW n \in Nat, m <= n, NEW d \in Nat \ {0}
    PROVE  m \div d <= n \div d /\ m \div d \in Nat /\ n \div d \in Nat
<1> DEFINE x == m \div d
           y == n \div d
<1>1. x \in Nat /\ x * d <= m /\ y \in Nat /\ n < y * d + d
  BY Division
<1> HIDE DEF x, y
<1>2. ~ (y + 1 <= x)
  <2> SUFFICES ASSUME y + 1 <= x PROVE FALSE
    OBVIOUS
  <2>1. (y + 1) * d <= x * d /\ (y + 1) * d = y * d + d
    BY <1>1, ProductGrows
  <2>2. x * d \in Nat /\ y * d \in Nat
    BY <1>1, Products
  <2> QED
    BY <1>1, <2>1, <2>2
<1> QED
  BY <1>1, <1>2 DEF x, y

\* One asset's term grows with its amount and its limit.
LEMMA TermGrows ==
    ASSUME NEW m \in Nat, NEW n \in Nat, m <= n, NEW p \in Nat,
           NEW k \in Nat, NEW l \in Nat, k <= l
    PROVE  /\ (((m * p) \div PriceScale) * k) \div Bps <= (((n * p) \div PriceScale) * l) \div Bps
           /\ (((m * p) \div PriceScale) * k) \div Bps \in Nat
           /\ (((n * p) \div PriceScale) * l) \div Bps \in Nat
<1> DEFINE v == (m * p) \div PriceScale
           w == (n * p) \div PriceScale
<1>1. m * p \in Nat /\ n * p \in Nat /\ m * p <= n * p
  BY Products, ProductGrows
<1>2. v <= w /\ v \in Nat /\ w \in Nat
  BY <1>1, Amounts1, QuotientGrows
<1> HIDE DEF v, w
<1>3. v * k \in Nat /\ w * l \in Nat /\ v * k <= w * l
  BY <1>2, Products, ProductGrows
<1>4. Bps \in Nat \ {0}
  BY DEF Bps
<1>5. (v * k) \div Bps <= (w * l) \div Bps /\ (v * k) \div Bps \in Nat /\ (w * l) \div Bps \in Nat
  BY <1>3, <1>4, QuotientGrows
<1> QED
  BY <1>5 DEF v, w

Limits == {"ltv", "threshold"}

\* More collateral, at a limit that is no lower, is worth no less.
LEMMA SafeOfGrows ==
    ASSUME NEW cfg \in [Assets -> AssetConfigs \cup {NoAsset}],
           NEW qs \in [Assets -> [price : AssetPrices, fresh : BOOLEAN]],
           NEW less \in [Assets -> Nat], NEW more \in [Assets -> Nat],
           \A a \in Assets : less[a] <= more[a],
           NEW k \in Limits, NEW l \in Limits,
           \A a \in Assets : cfg[a] # NoAsset => cfg[a][k] <= cfg[a][l]
    PROVE  /\ SafeOf(cfg, qs, less, k) <= SafeOf(cfg, qs, more, l)
           /\ SafeOf(cfg, qs, less, k) \in Nat /\ SafeOf(cfg, qs, more, l) \in Nat
<1> DEFINE term(amounts, limit, a) ==
             IF amounts[a] = 0 \/ cfg[a] = NoAsset THEN 0
             ELSE (((amounts[a] * qs[a].price) \div PriceScale) * cfg[a][limit]) \div Bps
           f == [a \in Assets |-> term(less, k, a)]
           g == [a \in Assets |-> term(more, l, a)]
<1>1. ASSUME NEW a \in Assets
      PROVE  term(less, k, a) \in Nat /\ term(more, l, a) \in Nat
             /\ term(less, k, a) <= term(more, l, a)
  <2>1. CASE cfg[a] = NoAsset
    BY <2>1
  <2>2. CASE cfg[a] # NoAsset
    <3>1. cfg[a] \in AssetConfig /\ qs[a].price \in Nat /\ less[a] \in Nat /\ more[a] \in Nat
      BY <2>2, LendingAssumption
    <3>2. cfg[a][k] \in Nat /\ cfg[a][l] \in Nat /\ cfg[a][k] <= cfg[a][l]
      BY <2>2, <3>1 DEF AssetConfig, Limits
    <3>3. PICK m \in Nat, n \in Nat, p \in Nat, i \in Nat, j \in Nat :
             /\ m = less[a] /\ n = more[a] /\ p = qs[a].price /\ i = cfg[a][k] /\ j = cfg[a][l]
             /\ m <= n /\ i <= j
      BY <3>1, <3>2
    <3>4. /\ (((m * p) \div PriceScale) * i) \div Bps <= (((n * p) \div PriceScale) * j) \div Bps
          /\ (((m * p) \div PriceScale) * i) \div Bps \in Nat
          /\ (((n * p) \div PriceScale) * j) \div Bps \in Nat
      BY <3>3, TermGrows
    <3>5. /\ term(less, k, a) = IF m = 0 THEN 0 ELSE (((m * p) \div PriceScale) * i) \div Bps
          /\ term(more, l, a) = IF n = 0 THEN 0 ELSE (((n * p) \div PriceScale) * j) \div Bps
      BY <2>2, <3>3
    <3> QED
      BY <3>3, <3>4, <3>5
  <2> QED
    BY <2>1, <2>2
<1>2. /\ \A a \in Assets : f[a] \in Nat /\ g[a] \in Nat /\ f[a] <= g[a]
      /\ DOMAIN f = Assets /\ DOMAIN g = Assets
  BY <1>1
<1>3. SafeOf(cfg, qs, less, k) = SumFunction(f) /\ SafeOf(cfg, qs, more, l) = SumFunction(g)
  BY DEF SafeOf
<1> HIDE DEF f, g
<1>4. SumFunction(f) = SumFunctionOnSet(f, Assets) /\ SumFunction(g) = SumFunctionOnSet(g, Assets)
  BY <1>2, SumOfFunction
<1>5. SumFunctionOnSet(f, Assets) \in Nat /\ SumFunctionOnSet(g, Assets) \in Nat
  BY <1>2, Amounts1, SumIsNat
<1>6. SumFunctionOnSet(f, Assets) <= SumFunctionOnSet(g, Assets)
  <2>1. \A a \in Assets : f[a] \in Int /\ g[a] \in Int /\ f[a] <= g[a]
    BY <1>2
  <2> QED
    BY <2>1, Amounts1, SumGrows
<1> QED
  BY <1>3, <1>4, <1>5, <1>6

Backing(u) == SafeOf(assetConfig, quoted, collateral[u], "threshold")

OwingTooMuch ==
    \A u \in Providers :
        /\ Backing(u) \in Nat
        /\ IsLiquidatable(u) <=> debt[u] > 0 /\ Backing(u) < debt[u]

\* A position is liquidatable exactly when its weighted collateral is below its debt.
LEMMA LiquidatableMeans == LendTypes => OwingTooMuch
<1> SUFFICES ASSUME LendTypes, NEW u \in Providers
             PROVE  /\ Backing(u) \in Nat
                    /\ IsLiquidatable(u) <=> debt[u] > 0 /\ Backing(u) < debt[u]
  BY DEF OwingTooMuch
<1>1. /\ assetConfig \in [Assets -> AssetConfigs \cup {NoAsset}]
      /\ quoted \in [Assets -> [price : AssetPrices, fresh : BOOLEAN]]
      /\ collateral[u] \in [Assets -> Nat] /\ debt[u] \in Nat
  BY DEF LendTypes
<1>2. \A a \in Assets :
         /\ collateral[u][a] <= collateral[u][a]
         /\ assetConfig[a] # NoAsset => assetConfig[a]["threshold"] <= assetConfig[a]["threshold"]
  <2> SUFFICES ASSUME NEW a \in Assets
               PROVE  /\ collateral[u][a] <= collateral[u][a]
                      /\ assetConfig[a] # NoAsset =>
                            assetConfig[a]["threshold"] <= assetConfig[a]["threshold"]
    OBVIOUS
  <2>1. assetConfig[a] # NoAsset => assetConfig[a]["threshold"] \in Nat
    BY <1>1, LendingAssumption DEF AssetConfig
  <2>2. collateral[u][a] \in Nat
    BY <1>1
  <2> QED
    BY <2>1, <2>2
<1>3. Backing(u) \in Nat
  BY <1>1, <1>2, SafeOfGrows DEF Backing, Limits
<1>4. SafeValue(collateral[u]) = Backing(u)
  BY WeightedIs DEF SafeValue, Backing
<1>5. IsLiquidatable(u)
         <=> ~ (debt[u] > 0 => (Backing(u) * PriceScale) \div debt[u] >= PriceScale)
  BY <1>4 DEF IsLiquidatable, Sound
<1>6. debt[u] > 0 =>
         ((Backing(u) * PriceScale) \div debt[u] >= PriceScale <=> debt[u] <= Backing(u))
  BY <1>1, <1>3, SoundMeans
<1> QED
  BY <1>1, <1>3, <1>5, <1>6

\* The same of the next state.
LEMMA LiquidatableNext == LendTypes' => OwingTooMuch'
  BY LiquidatableMeans, PTL

\* The limit for borrowing is no higher than that for liquidation.
LimitsInOrder ==
    \A a \in Assets : assetConfig[a] # NoAsset => assetConfig[a].ltv <= assetConfig[a].threshold

LossIsInFlash ==
    kept'[Quote] + SumFunction(debt') < Funds =>
         /\ flash # NoFlash /\ flash' = NoFlash
         /\ IsLiquidatable(flash.borrower)
         /\ flash.pool = "amm" /\ UNCHANGED purse =>
              kept'[Quote] + SumFunction(debt')
                >= Funds + flash.least - flash.amount - FlashFee(flash.amount)

SoundStays ==
    (UNCHANGED <<assetConfig, quoted>> /\ LimitsInOrder)
       => \A u \in Providers : ~IsLiquidatable(u) => ~IsLiquidatable(u)'

\* One user's position changed, to one that is sound or was not before.
LEMMA PositionChanged ==
    ASSUME LendTypes, LendTypes', UNCHANGED <<assetConfig, quoted>>, NEW u \in Providers,
           \A w \in Providers : w # u => collateral'[w] = collateral[w] /\ debt'[w] = debt[w],
           \/ IsLiquidatable(u)
           \/ LimitsInOrder /\ debt[u] <= Backing(u) =>
                 debt'[u] <= SafeOf(assetConfig, quoted, collateral'[u], "threshold")
    PROVE  SoundStays
<1> SUFFICES ASSUME LimitsInOrder, NEW w \in Providers, ~IsLiquidatable(w), IsLiquidatable(w)'
             PROVE  FALSE
  BY DEF SoundStays
<1>1. /\ Backing(w) \in Nat /\ ~ (debt[w] > 0 /\ Backing(w) < debt[w])
      /\ Backing(w)' \in Nat /\ debt'[w] > 0 /\ Backing(w)' < debt'[w]
      /\ debt[w] \in Nat /\ debt'[w] \in Nat
  BY LiquidatableMeans, LiquidatableNext DEF LendTypes, OwingTooMuch
<1>2. debt[w] <= Backing(w)
  BY <1>1
<1>3. Backing(w)' = SafeOf(assetConfig, quoted, collateral'[w], "threshold")
  BY DEF Backing, SafeOf
<1>4. CASE w = u
  BY <1>1, <1>2, <1>3, <1>4
<1>5. CASE w # u
  <2>1. debt'[w] = debt[w] /\ Backing(w)' = Backing(w)
    BY <1>3, <1>5 DEF Backing
  <2> QED
    BY <1>1, <1>2, <2>1
<1> QED
  BY <1>4, <1>5

\* One user's collateral of one asset changed, and what the pool keeps with it.
LEMMA CollateralChanged ==
    ASSUME LendInv, NEW u \in Providers, NEW a \in Assets, NEW n \in Nat,
           collateral' = [collateral EXCEPT ![u][a] = n],
           kept'[a] = kept[a] - collateral[u][a] + n,
           \A x \in Assets \ {a} : kept'[x] = kept[x]
    PROVE  CollateralKept' /\ collateral' \in [Providers -> [Assets -> Nat]]
<1>1. /\ collateral \in [Providers -> [Assets -> Nat]] /\ IsFiniteSet(Providers)
      /\ Assets \subseteq Coins /\ kept \in [Coins -> Int]
      /\ \A x \in Assets : kept[x] = SumFunction([w \in Providers |-> collateral[w][x]])
  BY Amounts1 DEF LendInv, LendTypes, CollateralKept
<1>2. collateral' \in [Providers -> [Assets -> Nat]]
  BY <1>1
<1>3. ASSUME NEW x \in Assets
      PROVE  kept'[x] = SumFunction([w \in Providers |-> collateral'[w][x]])
  <2> DEFINE f == [w \in Providers |-> collateral[w][x]]
             g == [w \in Providers |-> collateral'[w][x]]
  <2>1. f \in [Providers -> Int] /\ kept[x] = SumFunction(f)
    BY <1>1
  <2>2. CASE x = a
    <3>1. f[u] = collateral[u][a] /\ n \in Int
      BY <1>1, <2>2
    <3>2. g = [f EXCEPT ![u] = n]
      <4>1. \A w \in Providers : collateral'[w][x] = IF w = u THEN n ELSE collateral[w][x]
        BY <1>1, <2>2
      <4> QED
        BY <4>1
    <3> HIDE DEF f, g
    <3>3. SumFunction([f EXCEPT ![u] = n]) = SumFunction(f) - f[u] + n
      <4>1. IsFiniteSet(Providers) /\ f \in [Providers -> Int] /\ n \in Int
        BY <1>1, <2>1
      <4> QED
        BY ONLY <4>1, SumOfExcept
    <3> QED
      BY <1>1, <2>1, <2>2, <3>1, <3>2, <3>3 DEF g
  <2>3. CASE x # a
    <3>1. g = f
      BY <1>1, <2>3
    <3> QED
      BY <2>1, <2>3, <3>1
  <2> QED
    BY <2>2, <2>3
<1> QED
  BY <1>2, <1>3 DEF CollateralKept

\* Changing one debt changes the sum of the debts by as much.
LEMMA DebtChanged ==
    ASSUME LendInv, NEW u \in Providers, NEW n \in Nat, debt' = [debt EXCEPT ![u] = n]
    PROVE  /\ debt' \in [Providers -> Nat]
           /\ SumFunction(debt) \in Int
           /\ SumFunction(debt') = SumFunction(debt) - debt[u] + n
<1>1. debt \in [Providers -> Int] /\ IsFiniteSet(Providers) /\ n \in Int
  BY Amounts1 DEF LendInv, LendTypes
<1>2. /\ SumFunction([debt EXCEPT ![u] = n]) = SumFunction(debt) - debt[u] + n
      /\ SumFunction(debt) \in Int
  BY <1>1, SumOfExcept, SumFunctionIsInt
<1>3. debt' \in [Providers -> Nat]
  BY DEF LendInv, LendTypes
<1> QED
  BY <1>2, <1>3

\* The facts of a state that the steps go by.
LEMMA LendFacts ==
    ASSUME LendInv
    PROVE  /\ collateral \in [Providers -> [Assets -> Nat]] /\ debt \in [Providers -> Nat]
           /\ kept \in [Coins -> Int] /\ SumFunction(debt) \in Int
<1>1. debt \in [Providers -> Int] /\ IsFiniteSet(Providers)
  BY Amounts1 DEF LendInv, LendTypes
<1>2. SumFunction(debt) \in Int
  BY <1>1, SumFunctionIsInt
<1> QED
  BY <1>2 DEF LendInv, LendTypes

\* Nothing about the collateral changed, nor what is kept of it.
LEMMA CollateralSame ==
    ASSUME LendInv, collateral' = collateral, \A x \in Assets : kept'[x] = kept[x]
    PROVE  CollateralKept'
<1>1. \A x \in Assets : kept'[x] = SumFunction([w \in Providers |-> collateral[w][x]])
  BY DEF LendInv, CollateralKept
<1> QED
  BY <1>1 DEF CollateralKept

LendStepHolds == LendInv' /\ LossIsInFlash /\ SoundStays

\* A deposit moves coins into the pool with the books, and endangers nobody.
LEMMA DepositAssetStep ==
    ASSUME LendInv, NEW u \in Providers, NEW a \in Assets, NEW amount \in LendAmounts,
           DepositAsset(u, a, amount)
    PROVE  LendStepHolds
<1>1. /\ kept' = [kept EXCEPT ![a] = kept[a] + amount]
      /\ collateral' = [collateral EXCEPT ![u][a] = collateral[u][a] + amount]
      /\ UNCHANGED <<assetConfig, quoted, debt, flash>>
  BY DEF DepositAsset, PaysIn
<1>2. /\ collateral[u][a] \in Nat /\ kept[a] \in Int /\ amount \in Nat
      /\ kept \in [Coins -> Int] /\ a \in Coins /\ collateral \in [Providers -> [Assets -> Nat]]
  BY LendFacts, Amounts1
<1>3. CollateralKept' /\ collateral' \in [Providers -> [Assets -> Nat]]
  <2>1. /\ kept'[a] = kept[a] - collateral[u][a] + (collateral[u][a] + amount)
        /\ \A x \in Assets \ {a} : kept'[x] = kept[x]
        /\ collateral[u][a] + amount \in Nat
    BY <1>1, <1>2, Amounts1
  <2> QED
    BY <1>1, <2>1, CollateralChanged
<1>4. LendTypes'
  <2>1. kept' \in [Coins -> Int]
    BY <1>1, <1>2
  <2> QED
    BY <1>1, <1>3, <2>1 DEF LendInv, LendTypes
<1>5. LossIsInFlash
  <2>1. kept'[Quote] = kept[Quote] /\ SumFunction(debt') = SumFunction(debt)
        /\ kept[Quote] \in Int /\ SumFunction(debt) \in Int
    BY <1>1, <1>2, Amounts1, LendFacts
  <2> QED
    BY <2>1 DEF LossIsInFlash, Funds
<1>6. SoundStays
  <2>1. \A w \in Providers : w # u => collateral'[w] = collateral[w] /\ debt'[w] = debt[w]
    BY <1>1, <1>2
  <2>2. ASSUME debt[u] <= Backing(u)
        PROVE  debt'[u] <= SafeOf(assetConfig, quoted, collateral'[u], "threshold")
    <3>1. /\ collateral[u] \in [Assets -> Nat] /\ collateral'[u] \in [Assets -> Nat]
          /\ \A x \in Assets : collateral[u][x] <= collateral'[u][x]
          /\ assetConfig \in [Assets -> AssetConfigs \cup {NoAsset}]
          /\ quoted \in [Assets -> [price : AssetPrices, fresh : BOOLEAN]]
          /\ debt[u] \in Nat /\ debt'[u] = debt[u]
      BY <1>1, <1>2, <1>3 DEF LendInv, LendTypes
    <3>2. \A x \in Assets : assetConfig[x] # NoAsset =>
               assetConfig[x]["threshold"] <= assetConfig[x]["threshold"]
      <4>1. \A x \in Assets : assetConfig[x] # NoAsset => assetConfig[x]["threshold"] \in Nat
        BY <3>1, LendingAssumption DEF AssetConfig
      <4> QED
        BY <4>1
    <3>3. /\ Backing(u) <= SafeOf(assetConfig, quoted, collateral'[u], "threshold")
          /\ Backing(u) \in Nat /\ SafeOf(assetConfig, quoted, collateral'[u], "threshold") \in Nat
      BY <3>1, <3>2, SafeOfGrows DEF Backing, Limits
    <3> QED
      BY <2>2, <3>1, <3>3
  <2>3. LendTypes
    BY DEF LendInv
  <2> QED
    BY <1>1, <1>4, <2>1, <2>2, <2>3, PositionChanged
<1> QED
  BY <1>3, <1>4, <1>5, <1>6 DEF LendInv, LendStepHolds

\* A withdrawal leaves its position sound.
LEMMA WithdrawStep ==
    ASSUME LendInv, NEW u \in Providers, NEW a \in Assets, NEW amount \in LendAmounts,
           Withdraw(u, a, amount)
    PROVE  LendStepHolds
<1>1. /\ kept' = [kept EXCEPT ![a] = kept[a] - amount]
      /\ collateral' = [collateral EXCEPT ![u][a] = collateral[u][a] - amount]
      /\ amount <= collateral[u][a]
      /\ UNCHANGED <<assetConfig, quoted, debt, flash>>
  BY DEF Withdraw, PaysOut
<1>2. /\ collateral[u][a] \in Nat /\ kept[a] \in Int /\ amount \in Nat
      /\ kept \in [Coins -> Int] /\ a \in Coins /\ collateral \in [Providers -> [Assets -> Nat]]
  BY LendFacts, Amounts1
<1>3. CollateralKept' /\ collateral' \in [Providers -> [Assets -> Nat]]
  <2>1. /\ kept'[a] = kept[a] - collateral[u][a] + (collateral[u][a] - amount)
        /\ \A x \in Assets \ {a} : kept'[x] = kept[x]
        /\ collateral[u][a] - amount \in Nat
    BY <1>1, <1>2, Amounts1
  <2> QED
    BY <1>1, <2>1, CollateralChanged
<1>4. LendTypes'
  <2>1. kept' \in [Coins -> Int]
    BY <1>1, <1>2
  <2> QED
    BY <1>1, <1>3, <2>1 DEF LendInv, LendTypes
<1>5. LossIsInFlash
  <2>1. kept'[Quote] = kept[Quote] /\ SumFunction(debt') = SumFunction(debt)
        /\ kept[Quote] \in Int /\ SumFunction(debt) \in Int
    BY <1>1, <1>2, Amounts1, LendFacts
  <2> QED
    BY <2>1 DEF LossIsInFlash, Funds
<1>6. SoundStays
  <2>1. \A w \in Providers : w # u => collateral'[w] = collateral[w] /\ debt'[w] = debt[w]
    BY <1>1, <1>2
  <2>2. Sound(collateral'[u], debt[u])
    BY DEF Withdraw
  <2>3. SafeValue(collateral'[u]) = Backing(u)'
    <3>1. SafeValue(collateral'[u]) = SafeOf(assetConfig, quoted, collateral'[u], "threshold")
      BY WeightedIs DEF SafeValue
    <3> QED
      BY <1>1, <3>1 DEF Backing, SafeOf
  <2>4. Backing(u)' \in Nat /\ debt[u] \in Nat
    BY <1>4, LiquidatableNext DEF OwingTooMuch, LendInv, LendTypes
  <2>5. debt'[u] <= Backing(u)'
    <3>1. debt[u] > 0 => (Backing(u)' * PriceScale) \div debt[u] >= PriceScale
      BY <2>2, <2>3 DEF Sound
    <3>2. debt[u] > 0 => debt[u] <= Backing(u)'
      BY <2>4, <3>1, SoundMeans
    <3> QED
      BY <1>1, <2>4, <3>2
  <2>6. Backing(u)' = SafeOf(assetConfig, quoted, collateral'[u], "threshold")
    BY <1>1 DEF Backing, SafeOf
  <2>7. LendTypes
    BY DEF LendInv
  <2> QED
    BY <1>1, <1>4, <2>1, <2>5, <2>6, <2>7, PositionChanged
<1> QED
  BY <1>3, <1>4, <1>5, <1>6 DEF LendInv, LendStepHolds

\* A loan stays within the limit, which is no higher than that of liquidation.
LEMMA BorrowStep ==
    ASSUME LendInv, NEW u \in Providers, NEW amount \in LendAmounts, Borrow(u, amount)
    PROVE  LendStepHolds
<1>1. /\ kept' = [kept EXCEPT ![Quote] = kept[Quote] - amount]
      /\ debt' = [debt EXCEPT ![u] = debt[u] + amount]
      /\ debt[u] + amount <= BorrowPower(collateral[u])
      /\ UNCHANGED <<assetConfig, quoted, collateral, flash>>
  BY DEF Borrow, PaysOut, MayOwe
<1>2. /\ amount \in Nat /\ kept \in [Coins -> Int] /\ debt[u] \in Nat /\ kept[Quote] \in Int
      /\ debt \in [Providers -> Nat]
  BY LendFacts, Amounts1
<1>3. /\ debt' \in [Providers -> Nat] /\ SumFunction(debt) \in Int
      /\ SumFunction(debt') = SumFunction(debt) - debt[u] + (debt[u] + amount)
  <2>1. debt[u] + amount \in Nat
    BY <1>2
  <2> QED
    BY <1>1, <2>1, DebtChanged
<1>4. CollateralKept'
  BY <1>1, <1>2, Amounts1, CollateralSame
<1>5. LendTypes'
  <2>1. kept' \in [Coins -> Int]
    BY <1>1, <1>2, Amounts1
  <2> QED
    BY <1>1, <1>3, <2>1 DEF LendInv, LendTypes
<1>6. LossIsInFlash
  <2>1. kept'[Quote] = kept[Quote] - amount
    BY <1>1, <1>2, Amounts1
  <2> QED
    BY <1>2, <1>3, <2>1 DEF LossIsInFlash, Funds
<1>7. SoundStays
  <2>1. \A w \in Providers : w # u => collateral'[w] = collateral[w] /\ debt'[w] = debt[w]
    BY <1>1, <1>2
  <2>2. ASSUME LimitsInOrder
        PROVE  debt'[u] <= SafeOf(assetConfig, quoted, collateral'[u], "threshold")
    <3>1. /\ collateral[u] \in [Assets -> Nat] /\ collateral'[u] = collateral[u]
          /\ \A x \in Assets : collateral[u][x] <= collateral[u][x]
          /\ assetConfig \in [Assets -> AssetConfigs \cup {NoAsset}]
          /\ quoted \in [Assets -> [price : AssetPrices, fresh : BOOLEAN]]
          /\ debt'[u] = debt[u] + amount
      BY <1>1, <1>2 DEF LendInv, LendTypes
    <3>2. \A x \in Assets : assetConfig[x] # NoAsset => assetConfig[x]["ltv"] <= assetConfig[x]["threshold"]
      BY <2>2 DEF LimitsInOrder
    <3>3. /\ SafeOf(assetConfig, quoted, collateral[u], "ltv")
               <= SafeOf(assetConfig, quoted, collateral[u], "threshold")
          /\ SafeOf(assetConfig, quoted, collateral[u], "ltv") \in Nat
          /\ SafeOf(assetConfig, quoted, collateral[u], "threshold") \in Nat
      BY <3>1, <3>2, SafeOfGrows DEF Limits
    <3>4. BorrowPower(collateral[u]) = SafeOf(assetConfig, quoted, collateral[u], "ltv")
      BY WeightedIs DEF BorrowPower
    <3> QED
      BY <1>1, <1>2, <3>1, <3>3, <3>4
  <2>3. LendTypes
    BY DEF LendInv
  <2> QED
    BY <1>1, <1>5, <2>1, <2>2, <2>3, PositionChanged
<1> QED
  BY <1>4, <1>5, <1>6, <1>7 DEF LendInv, LendStepHolds

\* A repayment lowers debt and brings the coins.
LEMMA RepayStep ==
    ASSUME LendInv, NEW u \in Providers, NEW amount \in LendAmounts, Repay(u, amount)
    PROVE  LendStepHolds
<1>0. PICK paid \in Int : paid = Min({amount, debt[u]}) /\ paid > 0 /\ paid <= debt[u]
  <2>1. amount \in Int /\ debt[u] \in Int
    BY LendFacts, Amounts1
  <2> QED
    BY <2>1, LeastOfTwo DEF Repay
<1>1. /\ kept' = [kept EXCEPT ![Quote] = kept[Quote] + paid]
      /\ debt' = [debt EXCEPT ![u] = debt[u] - paid]
      /\ UNCHANGED <<assetConfig, quoted, collateral, flash>>
  BY <1>0 DEF Repay, PaysIn
<1>2. /\ kept \in [Coins -> Int] /\ debt[u] \in Nat /\ kept[Quote] \in Int
      /\ debt \in [Providers -> Nat]
  BY LendFacts, Amounts1
<1>3. /\ debt' \in [Providers -> Nat] /\ SumFunction(debt) \in Int
      /\ SumFunction(debt') = SumFunction(debt) - debt[u] + (debt[u] - paid)
  <2>1. debt[u] - paid \in Nat
    BY <1>0, <1>2
  <2> QED
    BY <1>1, <2>1, DebtChanged
<1>4. CollateralKept'
  BY <1>1, <1>2, Amounts1, CollateralSame
<1>5. LendTypes'
  <2>1. kept' \in [Coins -> Int]
    BY <1>0, <1>1, <1>2, Amounts1
  <2> QED
    BY <1>1, <1>3, <2>1 DEF LendInv, LendTypes
<1>6. LossIsInFlash
  <2>1. kept'[Quote] = kept[Quote] + paid
    BY <1>1, <1>2, Amounts1
  <2> QED
    BY <1>0, <1>2, <1>3, <2>1 DEF LossIsInFlash, Funds
<1>7. SoundStays
  <2>1. \A w \in Providers : w # u => collateral'[w] = collateral[w] /\ debt'[w] = debt[w]
    BY <1>1, <1>2
  <2>2. LendTypes
    BY DEF LendInv
  <2>3. ASSUME debt[u] <= Backing(u)
        PROVE  debt'[u] <= SafeOf(assetConfig, quoted, collateral'[u], "threshold")
    <3>1. Backing(u) = SafeOf(assetConfig, quoted, collateral'[u], "threshold")
      BY <1>1 DEF Backing
    <3>2. Backing(u) \in Nat /\ debt'[u] = debt[u] - paid
      BY <1>1, <1>2, <2>2, LiquidatableMeans DEF OwingTooMuch
    <3> QED
      BY <1>0, <1>2, <2>3, <3>1, <3>2
  <2> QED
    BY <1>1, <1>5, <2>1, <2>2, <2>3, PositionChanged
<1> QED
  BY <1>4, <1>5, <1>6, <1>7 DEF LendInv, LendStepHolds

\* What can be seized is a number, and the borrower has it.
LEMMA SeizedFits ==
    ASSUME LendInv, NEW b \in Providers, NEW a \in Assets, NEW amount \in LendAmounts,
           assetConfig[a] # NoAsset
    PROVE  Seized(b, a, amount) \in Int /\ Seized(b, a, amount) <= collateral[b][a]
<1>0. amount \in Nat /\ collateral[b][a] \in Nat
  BY LendFacts, Amounts1
<1> DEFINE most == (((amount * PriceScale) \div quoted[a].price) * (Bps + assetConfig[a].bonus)) \div Bps
<1>1. quoted[a].price \in Nat \ {0} /\ assetConfig[a].bonus \in Nat
  BY Amounts1, LendingAssumption DEF LendInv, LendTypes, AssetConfig
<1>2. (amount * PriceScale) \div quoted[a].price \in Nat
  <2>1. amount * PriceScale \in Nat
    BY <1>0, Amounts1, Products
  <2> QED
    BY <1>1, <2>1, Division
<1>3. most \in Int
  <2>1. Bps + assetConfig[a].bonus \in Nat /\ Bps \in Nat \ {0}
    BY <1>1 DEF Bps
  <2>2. ((amount * PriceScale) \div quoted[a].price) * (Bps + assetConfig[a].bonus) \in Nat
    BY <1>2, <2>1, Products
  <2>3. most \in Nat
    BY <2>1, <2>2, Division
  <2> QED
    BY <2>3
<1>4. Seized(b, a, amount) = Min({most, collateral[b][a]})
  BY DEF Seized
<1> HIDE DEF most
<1>5. /\ Min({most, collateral[b][a]}) \in {most, collateral[b][a]}
      /\ Min({most, collateral[b][a]}) <= collateral[b][a]
  <2>1. collateral[b][a] \in Int
    BY <1>0
  <2> QED
    BY ONLY <1>3, <2>1, LeastOfTwo
<1> QED
  BY <1>0, <1>3, <1>4, <1>5

\* What a seizure does to the borrower, when the pool gives up what was seized.
LEMMA SeizureStep ==
    ASSUME LendInv, NEW b \in Providers, NEW a \in Assets, NEW amount \in LendAmounts,
           Seize(b, a, amount), NEW rest \in Int,
           kept' = [kept EXCEPT ![Quote] = rest, ![a] = kept[a] - Seized(b, a, amount)],
           UNCHANGED <<assetConfig, quoted>>, flash' = flash \/ flash' = NoFlash
    PROVE  /\ LendInv' /\ SoundStays
           /\ kept'[Quote] = rest
           /\ SumFunction(debt') = SumFunction(debt) - amount
<1>1. /\ IsLiquidatable(b) /\ amount <= debt[b] /\ assetConfig[a] # NoAsset
      /\ Seized(b, a, amount) > 0
      /\ debt' = [debt EXCEPT ![b] = debt[b] - amount]
      /\ collateral' = [collateral EXCEPT ![b][a] = collateral[b][a] - Seized(b, a, amount)]
  BY DEF Seize
<1>2. /\ amount \in Nat /\ kept \in [Coins -> Int] /\ debt[b] \in Nat /\ collateral[b][a] \in Nat
      /\ debt \in [Providers -> Nat] /\ collateral \in [Providers -> [Assets -> Nat]]
      /\ a \in Coins /\ a # Quote /\ kept[a] \in Int
  BY LendFacts, Amounts1
<1>3. PICK taken \in Int : taken = Seized(b, a, amount) /\ taken <= collateral[b][a]
  BY <1>1, SeizedFits
<1>4. kept'[Quote] = rest /\ kept' \in [Coins -> Int]
      /\ kept'[a] = kept[a] - taken /\ \A x \in Assets \ {a} : kept'[x] = kept[x]
  BY <1>2, <1>3, Amounts1
<1>5. CollateralKept' /\ collateral' \in [Providers -> [Assets -> Nat]]
  <2>1. /\ kept'[a] = kept[a] - collateral[b][a] + (collateral[b][a] - taken)
        /\ collateral[b][a] - taken \in Nat
        /\ collateral' = [collateral EXCEPT ![b][a] = collateral[b][a] - taken]
    BY <1>1, <1>2, <1>3, <1>4
  <2> QED
    BY <1>4, <2>1, CollateralChanged
<1>6. /\ debt' \in [Providers -> Nat] /\ SumFunction(debt) \in Int
      /\ SumFunction(debt') = SumFunction(debt) - debt[b] + (debt[b] - amount)
  <2>1. debt[b] - amount \in Nat
    BY <1>1, <1>2
  <2> QED
    BY <1>1, <2>1, DebtChanged
<1>7. LendTypes'
  BY <1>4, <1>5, <1>6 DEF LendInv, LendTypes
<1>8. SoundStays
  <2>1. \A w \in Providers : w # b => collateral'[w] = collateral[w] /\ debt'[w] = debt[w]
    BY <1>1, <1>2
  <2>2. LendTypes
    BY DEF LendInv
  <2> QED
    BY <1>1, <1>7, <2>1, <2>2, PositionChanged
<1> QED
  BY <1>2, <1>4, <1>5, <1>6, <1>7, <1>8 DEF LendInv

\* A liquidation repays debt and moves collateral with the books.
LEMMA LiquidateLoanStep ==
    ASSUME LendInv, NEW u \in Providers, NEW b \in Providers, NEW a \in Assets,
           NEW amount \in LendAmounts, LiquidateLoan(u, b, a, amount)
    PROVE  LendStepHolds
<1>1. /\ Seize(b, a, amount)
      /\ kept' = [kept EXCEPT ![Quote] = kept[Quote] + amount,
                              ![a] = kept[a] - Seized(b, a, amount)]
      /\ UNCHANGED <<assetConfig, quoted, flash>>
  BY Amounts1 DEF LiquidateLoan
<1>2. kept[Quote] \in Int /\ amount \in Nat /\ SumFunction(debt) \in Int
  BY LendFacts, Amounts1
<1>3. /\ LendInv' /\ SoundStays
      /\ kept'[Quote] = kept[Quote] + amount
      /\ SumFunction(debt') = SumFunction(debt) - amount
  <2>1. kept[Quote] + amount \in Int
    BY <1>2
  <2> QED
    BY <1>1, <2>1, SeizureStep
<1>4. LossIsInFlash
  BY <1>2, <1>3 DEF LossIsInFlash, Funds
<1> QED
  BY <1>3, <1>4 DEF LendStepHolds

\* What the pool is left with after a loan came in or did not, a sale, and what
\* is paid to the provider: the books of collateral stay, and the pool's money
\* changes by loan and sale less what is due and the debt taken down.
LEMMA FlashReceiveStep ==
    ASSUME LendInv, NEW loan \in Nat, NEW due \in Int, FlashReceive(loan, due)
    PROVE  /\ LendInv' /\ SoundStays
           /\ flash # NoFlash /\ flash' = NoFlash /\ IsLiquidatable(flash.borrower)
           /\ flash.amount \in Nat /\ flash.least \in Int /\ Funds \in Int
           /\ \E got \in Int :
                /\ flash.pool = "amm" => got >= flash.least
                /\ kept'[Quote] + SumFunction(debt') = Funds + loan + got - due - flash.amount
<1>1. PICK b \in Providers, a \in Assets, amount \in LendAmounts, least \in MinOutputs :
         /\ flash # NoFlash /\ flash.borrower = b /\ flash.asset = a
         /\ flash.amount = amount /\ flash.least = least
  BY DEF FlashReceive, LendInv, LendTypes
<1>2. PICK got \in Sale(a, Seized(b, a, amount)) :
         /\ flash' = NoFlash
         /\ Seize(b, a, amount)
         /\ flash.pool = "amm" => SwapReserves(a, Seized(b, a, amount))
         /\ kept' = [kept EXCEPT ![a] = kept[a] - Seized(b, a, amount),
                                 ![Quote] = kept[Quote] + loan + got - due]
         /\ UNCHANGED <<assetConfig, quoted>>
  BY <1>1, Amounts1 DEF FlashReceive
<1>3. got \in Int /\ (flash.pool = "amm" => got >= least)
  <2>1. CASE flash.pool = "amm"
    <3>1. got = AmountOut(a, Seized(b, a, amount)) /\ got >= flash.least
      BY <1>2, <2>1 DEF Sale
    <3>2. AmountOut(a, Seized(b, a, amount)) \in Int
      BY <1>2, <2>1 DEF SwapReserves, MaySwap
    <3> QED
      BY <1>1, <3>1, <3>2
  <2>2. CASE flash.pool # "amm"
    <3>1. got \in OtherPays
      BY <2>2 DEF Sale
    <3>2. OtherPays \subseteq Nat
      BY LendingAssumption
    <3> QED
      BY <2>2, <3>1, <3>2
  <2> QED
    BY <2>1, <2>2
<1>4. kept[Quote] \in Int /\ amount \in Nat /\ SumFunction(debt) \in Int
      /\ a # Quote /\ least \in Int
  BY LendFacts, Amounts1, LendingAssumption
<1>5. PICK rest \in Int : rest = kept[Quote] + loan + got - due
  BY <1>3, <1>4
<1>6. kept' = [kept EXCEPT ![Quote] = rest, ![a] = kept[a] - Seized(b, a, amount)]
  BY <1>2, <1>4, <1>5
<1>7. /\ LendInv' /\ SoundStays
      /\ kept'[Quote] = rest
      /\ SumFunction(debt') = SumFunction(debt) - amount
  <2>1. (flash' = flash \/ flash' = NoFlash) /\ UNCHANGED <<assetConfig, quoted>>
    BY <1>2
  <2>2. Seize(b, a, amount)
    BY <1>2
  <2> QED
    BY <1>6, <2>1, <2>2, SeizureStep
<1>8. Funds \in Int
      /\ kept'[Quote] + SumFunction(debt') = Funds + loan + got - due - amount
  BY <1>3, <1>4, <1>5, <1>7 DEF Funds
<1>9. IsLiquidatable(b)
  BY <1>2 DEF Seize
<1> QED
  BY <1>1, <1>2, <1>3, <1>4, <1>7, <1>8, <1>9

\* The loan is repaid from what the sale brings and from what the pool has; in
\* the AMM pool it loses at most what the set-up left open.
LEMMA FlashLiquidateStep ==
    ASSUME LendInv, FlashLiquidate
    PROVE  LendStepHolds
<1>1. PICK amount \in LendAmounts : flash.amount = amount
  BY DEF FlashLiquidate, FlashReceive, LendInv, LendTypes
<1>2. amount \in Nat
  BY Amounts1
<1>3. PICK fee \in Int : fee = FlashFee(amount)
  <2>1. amount \in Nat /\ FlashFeeBps \in Nat /\ Bps \in Nat \ {0}
    BY <1>2, LendingAssumption DEF Bps
  <2>2. amount * FlashFeeBps \in Nat
    BY <2>1, Products
  <2>3. FlashFee(amount) \in Nat
    BY <2>1, <2>2, Division DEF FlashFee
  <2> QED
    BY <2>3
<1>4. PICK due \in Int : due = amount + fee
  BY <1>2, <1>3
<1>5. FlashReceive(amount, due)
  BY <1>1, <1>3, <1>4 DEF FlashLiquidate
<1>6. /\ LendInv' /\ SoundStays
      /\ flash # NoFlash /\ flash' = NoFlash /\ IsLiquidatable(flash.borrower)
      /\ flash.least \in Int /\ Funds \in Int
  BY <1>2, <1>5, FlashReceiveStep
<1>7. PICK got \in Int :
        /\ flash.pool = "amm" => got >= flash.least
        /\ kept'[Quote] + SumFunction(debt') = Funds + amount + got - due - flash.amount
  BY <1>2, <1>5, FlashReceiveStep
<1>8. flash.pool = "amm" =>
        kept'[Quote] + SumFunction(debt') >= Funds + flash.least - amount - fee
  BY <1>1, <1>2, <1>3, <1>4, <1>6, <1>7
<1>9. LossIsInFlash
  BY <1>1, <1>3, <1>6, <1>8 DEF LossIsInFlash
<1> QED
  BY <1>6, <1>9 DEF LendStepHolds

Purses == purse \in [Providers -> [Coins -> Int]]

\* One coin of one purse changes.
LEMMA PurseChanged ==
    ASSUME Purses, NEW u \in Providers, NEW c \in Coins, NEW n \in Int,
           purse' = [purse EXCEPT ![u][c] = n]
    PROVE  Purses'
<1>1. [purse[u] EXCEPT ![c] = n] \in [Coins -> Int]
  BY DEF Purses
<1>2. purse' = [purse EXCEPT ![u] = [purse[u] EXCEPT ![c] = n]]
  OBVIOUS
<1> QED
  BY <1>1, <1>2 DEF Purses

\* Two coins of one purse change.
LEMMA PurseTraded ==
    ASSUME Purses, NEW u \in Providers, NEW c \in Coins, NEW d \in Coins, NEW n \in Int, NEW m \in Int,
           purse' = [purse EXCEPT ![u][c] = n, ![u][d] = m]
    PROVE  Purses'
<1>1. [purse[u] EXCEPT ![c] = n, ![d] = m] \in [Coins -> Int]
  BY DEF Purses
<1>2. purse' = [purse EXCEPT ![u] = [purse[u] EXCEPT ![c] = n, ![d] = m]]
  BY DEF Purses
<1> QED
  BY <1>1, <1>2 DEF Purses

\* Coins of the pair go between a purse and the AMM pool, the rest of it stays.
LEMMA PursePaired ==
    ASSUME Purses, NEW p \in Providers, NEW new \in [Pair -> Int],
           purse' = [purse EXCEPT ![p] =
                       [c \in Coins |-> IF c \in Pair THEN new[c] ELSE purse[p][c]]]
    PROVE  Purses'
<1>1. [c \in Coins |-> IF c \in Pair THEN new[c] ELSE purse[p][c]] \in [Coins -> Int]
  BY DEF Purses
<1> QED
  BY <1>1 DEF Purses

\* What the AMM pool's operations do to the purses.
LEMMA AmmPurses ==
    ASSUME AmmInv, Purses, AmmNext
    PROVE  Purses'
<1>0. Pair \subseteq Coins /\ \A p \in Providers, c \in Coins : purse[p][c] \in Int
  BY AmmAssumption DEF Purses, Pair
<1>1. ASSUME NEW p \in Providers, NEW offer \in [Pair -> Amounts], AddLiquidity(p, offer)
      PROVE  Purses'
  <2> DEFINE take == Position(offer)
             new  == [c \in Pair |-> purse[p][c] - take.coin[c]]
  <2>1. /\ \A c \in Pair : take.coin[c] \in 1 .. offer[c]
        /\ purse' = [purse EXCEPT ![p] =
                       [c \in Coins |-> IF c \in Pair THEN purse[p][c] - take.coin[c] ELSE purse[p][c]]]
    BY <1>1 DEF AddLiquidity
  <2> HIDE DEF take
  <2>2. new \in [Pair -> Int]
    BY <1>0, <2>1
  <2>3. purse' = [purse EXCEPT ![p] =
                    [c \in Coins |-> IF c \in Pair THEN new[c] ELSE purse[p][c]]]
    BY <2>1
  <2> HIDE DEF new
  <2> QED
    BY <2>2, <2>3, PursePaired
<1>2. ASSUME NEW p \in Providers, NEW shares \in 1 .. totalShares, RemoveLiquidity(p, shares)
      PROVE  Purses'
  <2> DEFINE out == [c \in Pair |-> (reserve[c] * shares) \div totalShares]
             new == [c \in Pair |-> purse[p][c] + out[c]]
  <2>1. purse' = [purse EXCEPT ![p] =
                    [c \in Coins |-> IF c \in Pair THEN purse[p][c] + out[c] ELSE purse[p][c]]]
    BY <1>2 DEF RemoveLiquidity
  <2>2. ASSUME NEW c \in Pair PROVE out[c] \in Int
    <3>1. reserve[c] \in Nat /\ shares \in Nat /\ totalShares \in Nat \ {0}
      BY DEF AmmInv, AmmTypes
    <3>2. reserve[c] * shares \in Nat
      BY <3>1, Products
    <3>3. (reserve[c] * shares) \div totalShares \in Nat
      BY <3>1, <3>2, Division
    <3> QED
      BY <3>3
  <2> HIDE DEF out
  <2>3. new \in [Pair -> Int]
    BY <1>0, <2>2
  <2>4. purse' = [purse EXCEPT ![p] =
                    [c \in Coins |-> IF c \in Pair THEN new[c] ELSE purse[p][c]]]
    BY <2>1
  <2> HIDE DEF new
  <2> QED
    BY <2>3, <2>4, PursePaired
<1>3. ASSUME NEW p \in Providers, NEW c \in Pair, NEW in \in Amounts, Swap(p, c, in)
      PROVE  Purses'
  <2>1. PICK d \in Pair : d = Other(c) /\ d # c
    BY PairIsTwo DEF Other, Pair
  <2>2. /\ AmountOut(c, in) \in Int /\ in \in Int
        /\ purse' = [purse EXCEPT ![p][c] = purse[p][c] - in,
                                  ![p][d] = purse[p][d] + AmountOut(c, in)]
    <3>1. purse' = [purse EXCEPT ![p][c] = @ - in, ![p][Other(c)] = @ + AmountOut(c, in)]
      BY <1>3 DEF Swap
    <3>2. [purse EXCEPT ![p][c] = @ - in, ![p][d] = @ + AmountOut(c, in)]
            = [purse EXCEPT ![p][c] = purse[p][c] - in, ![p][d] = purse[p][d] + AmountOut(c, in)]
      BY <1>0, <2>1 DEF Purses
    <3>3. AmountOut(c, in) \in Int
      BY <1>3 DEF Swap, SwapReserves, MaySwap
    <3> QED
      BY <2>1, <3>1, <3>2, <3>3, AmmAssumption
  <2>3. purse[p][c] - in \in Int /\ purse[p][d] + AmountOut(c, in) \in Int /\ c \in Coins /\ d \in Coins
    BY <1>0, <2>1, <2>2
  <2> QED
    BY <2>2, <2>3, PurseTraded
<1>4. CASE UNCHANGED purse
  BY <1>4 DEF Purses
<1> QED
  BY <1>1, <1>2, <1>3, <1>4 DEF AmmNext, AmmTrades, SyncOracle, LedgerCloses

\* The lending pool's side: only a sale of seized collateral touches the AMM pool,
\* and what users pay and get are numbers.
LEMMA LendPurses ==
    ASSUME LendInv, AmmInv, Purses, LendNext
    PROVE  AmmInv' /\ Purses'
<1>0. /\ Assets \subseteq Coins /\ Quote \in Coins /\ LendAmounts \subseteq Int
      /\ \A p \in Providers, c \in Coins : purse[p][c] \in Int
  BY Amounts1 DEF Purses
<1>1. ASSUME UNCHANGED poolVars PROVE AmmInv'
  BY <1>1 DEF poolVars, AmmInv, AmmTypes, SharesBacked
<1>2. ASSUME UNCHANGED purse PROVE Purses'
  BY <1>2 DEF Purses
<1>3. ASSUME NEW a \in Assets, NEW c \in AssetConfigs, SetAssetConfig(a, c) PROVE AmmInv' /\ Purses'
  BY <1>1, <1>2, <1>3 DEF SetAssetConfig, ammVars
<1>4. ASSUME NEW a \in Assets, NEW p \in [price : AssetPrices, fresh : BOOLEAN], ReportPrice(a, p)
      PROVE  AmmInv' /\ Purses'
  BY <1>1, <1>2, <1>4 DEF ReportPrice, ammVars
<1>5. ASSUME NEW b \in Providers, NEW a \in Assets, NEW amount \in LendAmounts,
             NEW least \in MinOutputs, NEW pool \in {"amm", "other"},
             SetupFlashLiquidation(b, a, amount, least, pool)
      PROVE  AmmInv' /\ Purses'
  BY <1>1, <1>2, <1>5 DEF SetupFlashLiquidation, ammVars
<1>6. ASSUME NEW u \in Providers, NEW c \in Coins, NEW amount \in Int, UNCHANGED poolVars,
             PaysIn(u, c, amount) \/ PaysOut(u, c, amount)
      PROVE  AmmInv' /\ Purses'
  <2>1. purse[u][c] - amount \in Int /\ purse[u][c] + amount \in Int
    BY <1>0, <1>6
  <2>2. \/ purse' = [purse EXCEPT ![u][c] = purse[u][c] - amount]
        \/ purse' = [purse EXCEPT ![u][c] = purse[u][c] + amount]
    BY <1>6 DEF PaysIn, PaysOut
  <2> QED
    BY <1>1, <1>6, <2>1, <2>2, PurseChanged
<1>7. ASSUME NEW u \in Providers, NEW a \in Assets, NEW amount \in LendAmounts,
             DepositAsset(u, a, amount) \/ Withdraw(u, a, amount)
      PROVE  AmmInv' /\ Purses'
  BY <1>0, <1>6, <1>7 DEF DepositAsset, Withdraw
<1>8. ASSUME NEW u \in Providers, NEW amount \in LendAmounts, Borrow(u, amount) PROVE AmmInv' /\ Purses'
  BY <1>0, <1>6, <1>8 DEF Borrow
<1>9. ASSUME NEW u \in Providers, NEW amount \in LendAmounts, Repay(u, amount) PROVE AmmInv' /\ Purses'
  <2>1. amount \in Int /\ debt[u] \in Int
    BY <1>0, LendFacts
  <2>2. Min({amount, debt[u]}) \in Int
    BY <2>1, LeastOfTwo
  <2> QED
    BY <1>0, <1>6, <1>9, <2>2 DEF Repay
<1>10. ASSUME NEW u \in Providers, NEW b \in Providers, NEW a \in Assets, NEW amount \in LendAmounts,
              LiquidateLoan(u, b, a, amount)
       PROVE  AmmInv' /\ Purses'
  <2>1. assetConfig[a] # NoAsset /\ UNCHANGED poolVars
        /\ purse' = [purse EXCEPT ![u][Quote] = @ - amount, ![u][a] = @ + Seized(b, a, amount)]
    BY <1>10 DEF LiquidateLoan, Seize
  <2>2. [purse EXCEPT ![u][Quote] = @ - amount, ![u][a] = @ + Seized(b, a, amount)]
          = [purse EXCEPT ![u][Quote] = purse[u][Quote] - amount,
                          ![u][a] = purse[u][a] + Seized(b, a, amount)]
    BY <1>0, Amounts1 DEF Purses
  <2>3. Seized(b, a, amount) \in Int
    BY <2>1, SeizedFits
  <2>4. purse[u][Quote] - amount \in Int /\ purse[u][a] + Seized(b, a, amount) \in Int
    BY <1>0, <2>3
  <2> QED
    BY <1>0, <1>1, <2>1, <2>2, <2>4, PurseTraded
<1>11. ASSUME NEW loan, NEW due, FlashReceive(loan, due) PROVE AmmInv'
  <2>1. CASE flash.pool = "amm"
    <3>1. PICK b \in Providers, a \in Assets, amount \in LendAmounts :
             flash.borrower = b /\ flash.asset = a /\ flash.amount = amount
      BY <1>11 DEF FlashReceive, LendInv, LendTypes
    <3>2. /\ a = Base /\ SwapReserves(a, Seized(b, a, amount))
          /\ assetConfig[a] # NoAsset /\ Seized(b, a, amount) > 0
      BY <1>11, <2>1, <3>1 DEF FlashReceive, Seize
    <3>3. Seized(b, a, amount) \in Nat
      BY <3>2, SeizedFits
    <3> QED
      BY <3>2, <3>3, PairIsTwo, SwapStep
  <2>2. CASE flash.pool # "amm"
    BY <1>1, <1>11, <2>2 DEF FlashReceive
  <2> QED
    BY <2>1, <2>2
<1>12. CASE FlashLiquidate
  BY <1>2, <1>11, <1>12 DEF FlashLiquidate
<1>13. ASSUME NEW u \in Providers, NEW fee \in LoanFees, ReceiveLoan(u, fee) PROVE AmmInv' /\ Purses'
  <2>1. PICK due : FlashReceive(0, due) /\ due = flash.amount + fee
                   /\ purse' = [purse EXCEPT ![u][Quote] = purse[u][Quote] + due]
    BY <1>13 DEF ReceiveLoan
  <2>2. flash.amount \in Int /\ fee \in Int
    BY <1>0, <2>1, LendingAssumption DEF FlashReceive, LendInv, LendTypes
  <2>3. purse[u][Quote] + due \in Int
    BY <1>0, <2>1, <2>2
  <2> QED
    BY <1>0, <1>11, <2>1, <2>3, PurseChanged
<1> QED
  BY <1>3, <1>4, <1>5, <1>7, <1>8, <1>9, <1>10, <1>12, <1>13 DEF LendNext

\* A direct call pays out without a loan; it too ends the set-up, of a borrower
\* who can be liquidated, and leaves the books of collateral in order.
LEMMA ReceiveLoanStep ==
    ASSUME LendInv, NEW u \in Providers, NEW fee \in LoanFees, ReceiveLoan(u, fee), Purses
    PROVE  LendStepHolds
<1>1. PICK amount \in LendAmounts : flash.amount = amount
  BY DEF ReceiveLoan, FlashReceive, LendInv, LendTypes
<1>2. amount \in Nat /\ fee \in Int
  BY Amounts1, LendingAssumption
<1>3. PICK due \in Int : due = amount + fee
  BY <1>2
<1>4. FlashReceive(0, due) /\ due >= 0
      /\ purse' = [purse EXCEPT ![u][Quote] = purse[u][Quote] + due]
  BY <1>1, <1>3 DEF ReceiveLoan
<1>5. /\ LendInv' /\ SoundStays
      /\ flash # NoFlash /\ flash' = NoFlash /\ IsLiquidatable(flash.borrower)
      /\ flash.least \in Int /\ Funds \in Int
  BY <1>4, FlashReceiveStep
<1>6. PICK got \in Int :
        /\ flash.pool = "amm" => got >= flash.least
        /\ kept'[Quote] + SumFunction(debt') = Funds + 0 + got - due - flash.amount
  BY <1>4, FlashReceiveStep
<1>7. ASSUME UNCHANGED purse PROVE due = 0
  <2>1. Quote \in Coins /\ purse[u][Quote] \in Int
    BY AmmAssumption DEF Purses
  <2>2. purse'[u][Quote] = purse[u][Quote] + due
    BY <1>4, <2>1 DEF Purses
  <2> QED
    BY <1>7, <2>1, <2>2
<1>8. FlashFee(amount) \in Nat
  <2>1. amount \in Nat /\ FlashFeeBps \in Nat /\ Bps \in Nat \ {0}
    BY <1>2, LendingAssumption DEF Bps
  <2>2. amount * FlashFeeBps \in Nat
    BY <2>1, Products
  <2> QED
    BY <2>1, <2>2, Division DEF FlashFee
<1>9. ASSUME UNCHANGED purse, flash.pool = "amm"
      PROVE  kept'[Quote] + SumFunction(debt') >= Funds + flash.least - amount - FlashFee(amount)
  <2>1. due = 0
    BY <1>7, <1>9
  <2> QED
    BY <1>1, <1>2, <1>5, <1>6, <1>8, <1>9, <2>1
<1>10. LossIsInFlash
  BY <1>1, <1>5, <1>9 DEF LossIsInFlash
<1> QED
  BY <1>5, <1>10 DEF LendStepHolds

\* Steps that leave the positions alone.
LEMMA QuietStep ==
    ASSUME LendInv, UNCHANGED positions,
           \/ \E a \in Assets, c \in AssetConfigs : SetAssetConfig(a, c)
           \/ \E a \in Assets, p \in [price : AssetPrices, fresh : BOOLEAN] : ReportPrice(a, p)
           \/ \E b \in Providers, a \in Assets, amount \in LendAmounts, least \in MinOutputs,
                pool \in {"amm", "other"} : SetupFlashLiquidation(b, a, amount, least, pool)
           \/ UNCHANGED lendVars
    PROVE  LendStepHolds
<1>1. UNCHANGED <<collateral, debt, kept>>
  BY DEF positions
<1>2. LendTypes'
  <2>1. ASSUME NEW a \in Assets, NEW c \in AssetConfigs, SetAssetConfig(a, c) PROVE LendTypes'
    BY <1>1, <2>1 DEF SetAssetConfig, LendInv, LendTypes
  <2>2. ASSUME NEW a \in Assets, NEW p \in [price : AssetPrices, fresh : BOOLEAN],
               ReportPrice(a, p)
        PROVE  LendTypes'
    BY <1>1, <2>2 DEF ReportPrice, LendInv, LendTypes
  <2>3. ASSUME NEW b \in Providers, NEW a \in Assets, NEW amount \in LendAmounts,
               NEW least \in MinOutputs, NEW pool \in {"amm", "other"},
               SetupFlashLiquidation(b, a, amount, least, pool)
        PROVE  LendTypes'
    BY <1>1, <2>3 DEF SetupFlashLiquidation, LendInv, LendTypes
  <2>4. UNCHANGED lendVars => LendTypes'
    BY DEF lendVars, positions, LendInv, LendTypes
  <2> QED
    BY <2>1, <2>2, <2>3, <2>4
<1>3. CollateralKept'
  BY <1>1, CollateralSame
<1>4. LossIsInFlash
  BY <1>1, LendFacts, Amounts1 DEF LossIsInFlash, Funds
<1>5. SoundStays
  <2> SUFFICES ASSUME UNCHANGED <<assetConfig, quoted>>, NEW u \in Providers, ~IsLiquidatable(u)
               PROVE  ~IsLiquidatable(u)'
    BY DEF SoundStays
  <2>1. Backing(u)' = Backing(u) /\ debt'[u] = debt[u]
    BY <1>1 DEF Backing
  <2>2. LendTypes
    BY DEF LendInv
  <2> QED
    BY <1>2, <2>1, <2>2, LiquidatableMeans, LiquidatableNext DEF OwingTooMuch
<1> QED
  BY <1>2, <1>3, <1>4, <1>5 DEF LendInv, LendStepHolds

\* Every step of the lending pool keeps the invariant and its three promises.
LEMMA LendStep ==
    ASSUME LendInv, Purses, [LendingNext]_lendingVars
    PROVE  LendStepHolds
<1>1. CASE UNCHANGED lendVars
  BY <1>1, QuietStep DEF lendVars
<1>2. ASSUME NEW a \in Assets, NEW c \in AssetConfigs, SetAssetConfig(a, c) PROVE LendStepHolds
  BY <1>2, QuietStep DEF SetAssetConfig
<1>3. ASSUME NEW a \in Assets, NEW p \in [price : AssetPrices, fresh : BOOLEAN], ReportPrice(a, p)
      PROVE  LendStepHolds
  BY <1>3, QuietStep DEF ReportPrice
<1>4. ASSUME NEW b \in Providers, NEW a \in Assets, NEW amount \in LendAmounts,
             NEW least \in MinOutputs, NEW pool \in {"amm", "other"},
               SetupFlashLiquidation(b, a, amount, least, pool)
      PROVE  LendStepHolds
  BY <1>4, QuietStep DEF SetupFlashLiquidation
<1>5. ASSUME NEW u \in Providers, NEW a \in Assets, NEW amount \in LendAmounts,
             DepositAsset(u, a, amount) \/ Withdraw(u, a, amount)
      PROVE  LendStepHolds
  BY <1>5, DepositAssetStep, WithdrawStep
<1>6. ASSUME NEW u \in Providers, NEW amount \in LendAmounts, Borrow(u, amount) \/ Repay(u, amount)
      PROVE  LendStepHolds
  BY <1>6, BorrowStep, RepayStep
<1>7. ASSUME NEW u \in Providers, NEW b \in Providers, NEW a \in Assets, NEW amount \in LendAmounts,
             LiquidateLoan(u, b, a, amount)
      PROVE  LendStepHolds
  BY <1>7, LiquidateLoanStep
<1>8. CASE FlashLiquidate
  BY <1>8, FlashLiquidateStep
<1>9. ASSUME NEW u \in Providers, NEW fee \in LoanFees, ReceiveLoan(u, fee) PROVE LendStepHolds
  BY <1>9, ReceiveLoanStep
<1> QED
  BY <1>1, <1>2, <1>3, <1>4, <1>5, <1>6, <1>7, <1>8, <1>9 DEF LendingNext, LendNext, lendingVars

\* The AMM pool, the purses and the lending pool together.
LendAllInv == LendInv /\ AmmInv /\ Purses

\* The lending pool keeps all collateral, loses money only when a flash
\* liquidation is executed, once for each that was set up and while its borrower
\* can be liquidated, by no more than min_swap_output left open if the provider
\* lends and the AMM pool buys, and nobody's own calls make a position
\* liquidatable: for any number of users and assets, any prices, limits, bonuses,
\* fees and other pools (lib.rs:68-201, liquidation.rs:58-394).
THEOREM LendingIsKept == LendingSpec => LendingHolds
<1>1. LendInit => LendInv
  <2> SUFFICES ASSUME LendInit PROVE LendInv
    OBVIOUS
  <2>1. LendTypes
    <3>1. quoted \in [Assets -> [price : AssetPrices, fresh : BOOLEAN]]
      BY DEF LendInit
    <3>2. kept \in [Coins -> Int]
      BY LendingAssumption DEF LendInit
    <3> QED
      BY <3>1, <3>2, Amounts1, LendingAssumption DEF LendInit, LendTypes
  <2>2. ASSUME NEW a \in Assets
        PROVE  kept[a] = SumFunction([u \in Providers |-> collateral[u][a]])
    <3> DEFINE f == [u \in Providers |-> collateral[u][a]]
    <3>1. DOMAIN f = Providers /\ \A u \in Providers : f[u] = 0
      BY <2>2 DEF LendInit
    <3>2. kept[a] = 0
      BY <2>2, Amounts1 DEF LendInit
    <3> HIDE DEF f
    <3>3. SumFunction(f) = 0
      BY <3>1, SumOfFunction, SumOfZeros, Amounts1
    <3> QED
      BY <3>2, <3>3 DEF f
  <2> QED
    BY <2>1, <2>2 DEF LendInv, CollateralKept
<1>0. AmmInit /\ LendInit => LendAllInv
  <2>1. AmmInit => Purses
    BY AmmAssumption DEF AmmInit, Purses
  <2> QED
    BY <1>1, <2>1, AmmStarts DEF LendAllInv
<1>2. LendAllInv /\ [LendingNext]_lendingVars => LendAllInv'
  <2> SUFFICES ASSUME LendInv, AmmInv, Purses, [LendingNext]_lendingVars
               PROVE  LendInv' /\ AmmInv' /\ Purses'
    BY DEF LendAllInv
  <2>1. LendInv'
    BY LendStep DEF LendStepHolds
  <2>2. CASE LendNext
    BY <2>1, <2>2, LendPurses
  <2>3. CASE AmmNext
    BY <2>1, <2>3, AmmStep, AmmPurses
  <2>4. CASE UNCHANGED lendingVars
    <3>1. UNCHANGED ammVars /\ UNCHANGED purse
      BY <2>4 DEF lendingVars, ammVars
    <3> QED
      BY <2>1, <3>1, AmmStep DEF Purses
  <2> QED
    BY <2>2, <2>3, <2>4 DEF LendingNext
<1>3. LendAllInv /\ [LendingNext]_lendingVars => [LossIsInFlash]_lendVars
  BY LendStep DEF LendStepHolds, LendAllInv
<1>4. LendAllInv /\ [LendingNext]_lendingVars =>
        [(/\ UNCHANGED <<assetConfig, quoted>>
          /\ \A a \in Assets : assetConfig[a] # NoAsset => assetConfig[a].ltv <= assetConfig[a].threshold)
         => \A u \in Providers : ~IsLiquidatable(u) => ~IsLiquidatable(u)']_lendVars
  BY LendStep DEF LendStepHolds, SoundStays, LimitsInOrder, LendAllInv
<1>5. LendAllInv => CollateralKept
  BY DEF LendAllInv, LendInv
<1>6. LossOnlyInFlash <=> [][LossIsInFlash]_lendVars
  BY DEF LossOnlyInFlash, LossIsInFlash
<1> QED
  BY <1>0, <1>2, <1>3, <1>4, <1>5, <1>6, PTL DEF LendingSpec, LendingHolds, SoundStaysSound

-----------------------------------------------------------------------------
(* The vault.  First the loop of liquidate: a fold over the token order,     *)
(* which is a recursive function; that there is one follows as for the sums  *)
(* of SumTheorems.                                                           *)

\* g[s] is what the turns for the positions in s leave.
IsLoop(coll, covered, S, g) ==
    g = [s \in SUBSET S |->
            IF s = {} THEN coll
            ELSE AfterToken(coll, covered, g[s \ {Max(s)}], TokenOrder[Max(s)])]

Loop(coll, covered, S) == CHOOSE g : IsLoop(coll, covered, S, g)

Turns == DOMAIN TokenOrder

\* The fold of the seizure is the recursive loop over the turns.
LEMMA SeizureIsLoop ==
    ASSUME NEW coll, NEW covered
    PROVE  AfterSeizure(coll, covered) = Loop(coll, covered, Turns)[Turns]
  BY DEF AfterSeizure, FoldLeft, MapThenFoldSet, Loop, IsLoop, Turns

\* The turns are finitely many positions of the token order.
LEMMA TurnsAre ==
    /\ IsFiniteSet(Turns) /\ \A x \in Turns : x \in Int
    /\ \A i \in Turns : TokenOrder[i] \in Tokens
    /\ IsFiniteSet(Tokens)
<1>1. TokenOrder \in Seq(Tokens) /\ Len(TokenOrder) \in Nat /\ Turns = 1 .. Len(TokenOrder)
  BY VaultAssumption DEF Turns
<1>2. IsFiniteSet(Turns)
  <2>1. IsFiniteSet(1 .. Len(TokenOrder))
    BY <1>1, FS_Interval
  <2> QED
    BY <1>1, <2>1
<1>3. Tokens = {TokenOrder[i] : i \in Turns}
  BY DEF Tokens, ToSet, Turns
<1>4. IsFiniteSet(Tokens)
  <2> DEFINE h == [i \in Turns |-> TokenOrder[i]]
  <2>1. h \in Surjection(Turns, Tokens)
    BY <1>3 DEF Surjection
  <2> QED
    BY <1>2, <2>1, FS_Surjection
<1> QED
  BY <1>1, <1>2, <1>3, <1>4

\* The last of some turns is one of them.
LEMMA LastTurn ==
    ASSUME NEW S \in SUBSET Turns, S # {}
    PROVE  Max(S) \in S
<1>1. IsFiniteSet(S) /\ \A x \in S : x \in Int
  BY TurnsAre, FS_Subset
<1>2. \E x \in S : \A y \in S : x >= y
  BY <1>1, GreatestExists
<1> QED
  BY <1>2 DEF Max

\* What a function that obeys the recursion of the loop gives for one set of turns.
LEMMA LoopAt ==
    ASSUME NEW coll, NEW covered, NEW S, NEW g, IsLoop(coll, covered, S, g), NEW s \in SUBSET S
    PROVE  g[s] = IF s = {} THEN coll
                  ELSE AfterToken(coll, covered, g[s \ {Max(s)}], TokenOrder[Max(s)])
<1>1. g[s] = [t \in SUBSET S |->
                IF t = {} THEN coll
                ELSE AfterToken(coll, covered, g[t \ {Max(t)}], TokenOrder[Max(t)])][s]
  BY DEF IsLoop
<1> QED
  BY <1>1

\* Two functions that obey the recursion agree.
LEMMA LoopsAgree ==
    ASSUME NEW coll, NEW covered, NEW S \in SUBSET Turns, NEW R \in SUBSET S,
           NEW g, IsLoop(coll, covered, S, g), NEW h, IsLoop(coll, covered, R, h)
    PROVE  g[R] = h[R]
<1> DEFINE Off == {s \in SUBSET R : g[s] # h[s]}
<1> SUFFICES ASSUME Off # {} PROVE FALSE
  OBVIOUS
<1>1. IsFiniteSet(R)
  BY TurnsAre, FS_Subset
<1>2. PICK s \in Off : \A y \in Off : y \subseteq s => y = s
  <2>1. Off \subseteq SUBSET R
    OBVIOUS
  <2> HIDE DEF Off
  <2> QED
    BY <1>1, <2>1, MinimalSubset
<1>3. s \in SUBSET S /\ s \in SUBSET R /\ s \in SUBSET Turns
  OBVIOUS
<1> HIDE DEF Off
<1>4. g[s] = IF s = {} THEN coll
             ELSE AfterToken(coll, covered, g[s \ {Max(s)}], TokenOrder[Max(s)])
  BY <1>3, LoopAt
<1>5. h[s] = IF s = {} THEN coll
             ELSE AfterToken(coll, covered, h[s \ {Max(s)}], TokenOrder[Max(s)])
  BY <1>3, LoopAt
<1>6. s # {}
  BY <1>2, <1>4, <1>5 DEF Off
<1>7. s \ {Max(s)} # s /\ s \ {Max(s)} \in SUBSET R
  BY <1>3, <1>6, LastTurn
<1>8. s \ {Max(s)} \notin Off
  BY <1>2, <1>7
<1>9. g[s \ {Max(s)}] = h[s \ {Max(s)}]
  BY <1>7, <1>8 DEF Off
<1> QED
  BY <1>2, <1>4, <1>5, <1>6, <1>9 DEF Off

\* The recursion of the loop has a solution, for the turns are finite.
LEMMA LoopExists ==
    ASSUME NEW coll, NEW covered
    PROVE  IsLoop(coll, covered, Turns, Loop(coll, covered, Turns))
<1> DEFINE None == {R \in SUBSET Turns : ~ \E g : IsLoop(coll, covered, R, g)}
<1>1. SUFFICES None = {}
  <2>1. ASSUME None = {} PROVE \E g : IsLoop(coll, covered, Turns, g)
    BY <2>1
  <2> QED
    BY <2>1, <1>1 DEF Loop
<1> SUFFICES ASSUME None # {} PROVE FALSE
  OBVIOUS
<1>2. PICK R \in None : \A y \in None : y \subseteq R => y = R
  <2>1. None \subseteq SUBSET Turns
    OBVIOUS
  <2> HIDE DEF None
  <2> QED
    BY <2>1, MinimalSubset, TurnsAre
<1>3. \A Q \in SUBSET R : Q # R => IsLoop(coll, covered, Q, Loop(coll, covered, Q))
  <2> SUFFICES ASSUME NEW Q \in SUBSET R, Q # R
               PROVE  IsLoop(coll, covered, Q, Loop(coll, covered, Q))
    OBVIOUS
  <2>1. Q \notin None /\ Q \in SUBSET Turns
    BY <1>2
  <2>2. \E g : IsLoop(coll, covered, Q, g)
    BY <2>1
  <2> QED
    BY <2>2 DEF Loop
<1> DEFINE Val(s) == IF s = {} THEN coll
                     ELSE AfterToken(coll, covered,
                            Loop(coll, covered, s \ {Max(s)})[s \ {Max(s)}], TokenOrder[Max(s)])
           g == [s \in SUBSET R |-> Val(s)]
<1>4. \A s \in SUBSET R : s # R => g[s] = Loop(coll, covered, s)[s]
  <2> SUFFICES ASSUME NEW s \in SUBSET R, s # R PROVE Val(s) = Loop(coll, covered, s)[s]
    OBVIOUS
  <2>0. s \in SUBSET Turns
    BY <1>2
  <2>1. IsLoop(coll, covered, s, Loop(coll, covered, s))
    BY <1>3
  <2>2. Loop(coll, covered, s)[s] =
          IF s = {} THEN coll
          ELSE AfterToken(coll, covered, Loop(coll, covered, s)[s \ {Max(s)}], TokenOrder[Max(s)])
    BY <2>1, LoopAt
  <2>3. CASE s = {}
    BY <2>2, <2>3
  <2>4. CASE s # {}
    <3> DEFINE t == s \ {Max(s)}
    <3>1. t # s /\ t \in SUBSET s /\ t \in SUBSET R /\ t # R
      BY <2>0, <2>4, LastTurn
    <3>2. IsLoop(coll, covered, t, Loop(coll, covered, t))
      BY <3>1, <1>3
    <3>3. Loop(coll, covered, s)[t] = Loop(coll, covered, t)[t]
      <4> HIDE DEF t
      <4> QED
        BY <2>0, <3>1, <3>2, <2>1, LoopsAgree
    <3> QED
      BY <2>2, <2>4, <3>3
  <2> QED
    BY <2>3, <2>4
<1>5. IsLoop(coll, covered, R, g)
  <2>1. \A s \in SUBSET R :
            Val(s) = IF s = {} THEN coll
                     ELSE AfterToken(coll, covered, g[s \ {Max(s)}], TokenOrder[Max(s)])
    <3> SUFFICES ASSUME NEW s \in SUBSET R, s # {}
                 PROVE  Val(s) = AfterToken(coll, covered, g[s \ {Max(s)}], TokenOrder[Max(s)])
      OBVIOUS
    <3> DEFINE t == s \ {Max(s)}
    <3>0. s \in SUBSET Turns
      BY <1>2
    <3>1. t \in SUBSET R /\ t # R
      BY <3>0, LastTurn
    <3>2. g[t] = Loop(coll, covered, t)[t]
      BY <3>1, <1>4
    <3> QED
      BY <3>2
  <2> QED
    BY <2>1 DEF IsLoop
<1> QED
  BY <1>5, <1>2

Colls == UNION {[ts -> Int] : ts \in SUBSET Tokens}

\* What a collateral map is.
LEMMA CollIs ==
    ASSUME NEW c \in Colls
    PROVE  /\ DOMAIN c \in SUBSET Tokens /\ c \in [DOMAIN c -> Int]
           /\ \A t \in DOMAIN c : c[t] \in Int
           /\ IsFiniteSet(DOMAIN c)
<1>1. PICK ts \in SUBSET Tokens : c \in [ts -> Int]
  BY DEF Colls
<1>2. DOMAIN c = ts /\ IsFiniteSet(ts)
  BY <1>1, TurnsAre, FS_Subset
<1> QED
  BY <1>1, <1>2

\* A map from some tokens to integers is a collateral map.
LEMMA CollsAre ==
    ASSUME NEW ts \in SUBSET Tokens, NEW c \in [ts -> Int]
    PROVE  c \in Colls /\ DOMAIN c = ts
  BY DEF Colls

\* Division rounds down, also below zero.
LEMMA Floor ==
    ASSUME NEW a \in Int, NEW b \in Nat \ {0}
    PROVE  a \div b \in Int /\ (a \div b) * b <= a /\ a < (a \div b) * b + b
  OBVIOUS

\* Products of integers are integers.
LEMMA IntProducts == ASSUME NEW a \in Int, NEW b \in Int PROVE a * b \in Int
  OBVIOUS

\* What all parts rely on: prices, limits and positions.
PriceTypes ==
    /\ price \in [Tokens -> Prices]
    /\ config \in [Tokens -> Configs \cup {NoConfig}]
    /\ \A t \in Tokens : config[t] # NoConfig => ValidConfig(config[t])

\* Prices are positive, and a configuration that is set is a record.
LEMMA PricesAre ==
    ASSUME PriceTypes, NEW t \in Tokens
    PROVE  /\ price[t] \in Nat \ {0} /\ Scale \in Nat \ {0}
           /\ config[t] # NoConfig => config[t] \in ConfigRecord
  BY VaultAssumption DEF PriceTypes

\* The value of a collateral map is an integer.
LEMMA TotalIsInt ==
    ASSUME PriceTypes, NEW c \in Colls
    PROVE  TotalValue(c) \in Int
<1> DEFINE f == [t \in DOMAIN c |-> Value(t, c[t])]
<1>1. \A t \in DOMAIN c : Value(t, c[t]) \in Int
  <2> SUFFICES ASSUME NEW t \in DOMAIN c PROVE Value(t, c[t]) \in Int
    OBVIOUS
  <2>1. c[t] \in Int /\ price[t] \in Int /\ Scale \in Nat \ {0}
    BY CollIs, PricesAre
  <2>2. c[t] * price[t] \in Int
    BY <2>1, IntProducts
  <2> QED
    BY <2>1, <2>2, Floor DEF Value
<1>2. f \in [DOMAIN c -> Int] /\ IsFiniteSet(DOMAIN c)
  BY <1>1, CollIs
<1> HIDE DEF f
<1>3. SumFunction(f) \in Int
  BY <1>2, SumFunctionIsInt
<1> QED
  BY <1>3 DEF TotalValue, f

\* The collaterals of a vault are configured, or they would not be in it.
Configured(c) == \A t \in DOMAIN c : config[t] # NoConfig

\* What liquidate takes is a number.
LEMMA SeizableIsInt ==
    ASSUME PriceTypes, NEW c \in Colls, NEW t \in DOMAIN c, config[t] # NoConfig,
           NEW amount \in Int, NEW covered \in Int
    PROVE  Seizable(c, t, amount, covered) \in Int
<1> DEFINE total == TotalValue(c)
           ratio == IF total > 0 THEN (Value(t, amount) * BP) \div total ELSE 0
           part  == (covered * ratio) \div BP
           seize == (part * Scale * (BP + config[t].penalty)) \div (price[t] * BP)
<1>1. /\ t \in Tokens /\ price[t] \in Nat \ {0} /\ Scale \in Nat \ {0}
      /\ config[t].penalty \in Nat /\ BP \in Nat \ {0}
  BY CollIs, PricesAre DEF ConfigRecord, BP
<1>2. total \in Int
  BY TotalIsInt
<1> HIDE DEF total
<1>3. Value(t, amount) * BP \in Int
  <2>1. amount * price[t] \in Int
    BY <1>1, IntProducts
  <2>2. Value(t, amount) \in Int
    BY <1>1, <2>1, Floor DEF Value
  <2> QED
    BY <1>1, <2>2, IntProducts
<1>4. ratio \in Int
  <2>1. CASE total > 0
    <3>1. total \in Nat \ {0}
      BY <1>2, <2>1
    <3> QED
      BY <1>3, <2>1, <3>1, Floor
  <2>2. CASE ~ (total > 0)
    BY <2>2
  <2> QED
    BY <2>1, <2>2
<1> HIDE DEF ratio
<1>5. part \in Int
  <2>1. covered * ratio \in Int
    BY <1>4, IntProducts
  <2> QED
    BY <1>1, <2>1, Floor
<1> HIDE DEF part
<1>6. seize \in Int
  <2>1. part * Scale * (BP + config[t].penalty) \in Int
    BY <1>1, <1>5, IntProducts
  <2>2. price[t] * BP \in Nat \ {0}
    BY <1>1
  <2> QED
    BY <2>1, <2>2, Floor
<1>7. Seizable(c, t, amount, covered) = IF seize <= amount THEN seize ELSE 0
  BY DEF Seizable, seize, part, ratio, total
<1> HIDE DEF seize
<1> QED
  BY <1>6, <1>7

\* The loop leaves amounts of the tokens it found.
LEMMA SeizureKeepsTokens ==
    ASSUME PriceTypes, NEW c \in Colls, Configured(c), NEW covered \in Int
    PROVE  AfterSeizure(c, covered) \in [DOMAIN c -> Int]
<1> DEFINE g == Loop(c, covered, Turns)
           Bad == {s \in SUBSET Turns : g[s] \notin [DOMAIN c -> Int]}
<1>1. IsLoop(c, covered, Turns, g)
  BY LoopExists
<1>2. SUFFICES Bad = {}
  BY SeizureIsLoop
<1> SUFFICES ASSUME Bad # {} PROVE FALSE
  OBVIOUS
<1>3. PICK s \in Bad : \A y \in Bad : y \subseteq s => y = s
  <2>1. Bad \subseteq SUBSET Turns
    OBVIOUS
  <2> HIDE DEF Bad
  <2> QED
    BY <2>1, MinimalSubset, TurnsAre
<1> HIDE DEF g
<1>4. s \in SUBSET Turns /\ g[s] \notin [DOMAIN c -> Int]
  OBVIOUS
<1>5. g[s] = IF s = {} THEN c ELSE AfterToken(c, covered, g[s \ {Max(s)}], TokenOrder[Max(s)])
  BY <1>1, <1>4, LoopAt
<1>6. c \in [DOMAIN c -> Int] /\ DOMAIN c \in SUBSET Tokens
  BY CollIs
<1>7. s # {}
  BY <1>4, <1>5, <1>6
<1> DEFINE left == g[s \ {Max(s)}]
           t == TokenOrder[Max(s)]
<1>8. left \in [DOMAIN c -> Int]
  <2>1. s \ {Max(s)} # s /\ s \ {Max(s)} \in SUBSET Turns
    BY <1>4, <1>7, LastTurn
  <2> QED
    BY <1>3, <2>1
<1>9. g[s] = AfterToken(c, covered, left, t)
  BY <1>5, <1>7
<1> HIDE DEF left, t
<1>10. CASE t \in DOMAIN c
  <2>1. left \in Colls /\ DOMAIN left = DOMAIN c
    BY <1>6, <1>8, CollsAre
  <2>2. c[t] \in Int /\ config[t] # NoConfig
    BY <1>6, <1>10 DEF Configured
  <2>3. Seizable(left, t, c[t], covered) \in Int
    BY <1>10, <2>1, <2>2, SeizableIsInt
  <2>4. g[s] = [left EXCEPT ![t] = left[t] - Seizable(left, t, c[t], covered)]
    BY <1>9, <1>10 DEF AfterToken, Without
  <2> QED
    BY <1>4, <1>8, <1>10, <2>3, <2>4
<1>11. CASE t \notin DOMAIN c
  BY <1>4, <1>8, <1>9, <1>11 DEF AfterToken
<1> QED
  BY <1>10, <1>11

VaultTypes ==
    /\ PriceTypes
    /\ counter \in 0 .. MaxVaults
    /\ vault \in [Ids -> VaultRecord \cup {NoVault}]
    /\ \A id \in Ids : vault[id] # NoVault <=> id <= counter
    /\ \A id \in Open : Configured(vault[id].coll)
    /\ wallet \in [Tokens -> [Users -> Int]]
    /\ held \in [Tokens -> Int] /\ smt \in [Users -> Int]

VaultInv == VaultTypes /\ BooksBalance

Amount(c, t) == IF t \in DOMAIN c THEN c[t] ELSE 0

Lent == SumFunction([id \in Open |-> vault[id].debt])
Locked == [t \in Tokens |-> SumFunction([id \in Open |-> CollateralOf(id, t)])]

\* The open vaults are finitely many, and typed.
LEMMA OpenAre ==
    ASSUME VaultTypes
    PROVE  /\ Open \in SUBSET Ids /\ IsFiniteSet(Open)
           /\ \A id \in Open : /\ vault[id] \in VaultRecord /\ vault[id].coll \in Colls
                               /\ vault[id].owner \in Users /\ vault[id].debt \in Int
                               /\ \A t \in Tokens : CollateralOf(id, t) \in Int
<1>1. Open \in SUBSET Ids
  BY DEF Open
<1>2. IsFiniteSet(Open)
  <2>1. MaxVaults \in Int /\ Ids = 1 .. MaxVaults
    BY VaultAssumption DEF Ids
  <2>2. IsFiniteSet(1 .. MaxVaults)
    BY <2>1, FS_Interval
  <2> QED
    BY <1>1, <2>1, <2>2, FS_Subset
<1>3. ASSUME NEW id \in Open
      PROVE  /\ vault[id] \in VaultRecord /\ vault[id].coll \in Colls
             /\ vault[id].owner \in Users /\ vault[id].debt \in Int
             /\ \A t \in Tokens : CollateralOf(id, t) \in Int
  <2>1. vault[id] \in VaultRecord
    BY <1>3 DEF Open, VaultTypes
  <2>2. vault[id].coll \in Colls /\ vault[id].owner \in Users /\ vault[id].debt \in Int
    BY <2>1 DEF VaultRecord, Colls
  <2>3. \A t \in DOMAIN vault[id].coll : vault[id].coll[t] \in Int
    BY <2>2, CollIs
  <2> QED
    BY <2>1, <2>2, <2>3 DEF CollateralOf
<1> QED
  BY <1>1, <1>2, <1>3

\* One vault changed: what is owed and what is locked changed by as much.
LEMMA OneVault ==
    ASSUME VaultTypes, PriceTypes', NEW id \in Open, NEW r \in VaultRecord,
           vault' = [vault EXCEPT ![id] = r], UNCHANGED <<counter, config>>,
           Configured(r.coll),
           wallet' \in [Tokens -> [Users -> Int]],
           held' \in [Tokens -> Int], smt' \in [Users -> Int]
    PROVE  /\ VaultTypes' /\ Open' = Open
           /\ Lent \in Int /\ Lent' = Lent - vault[id].debt + r.debt
           /\ \A t \in Tokens :
                 /\ Locked[t] \in Int
                 /\ Locked'[t] = Locked[t] - CollateralOf(id, t) + Amount(r.coll, t)
<1>1. /\ vault \in [Ids -> VaultRecord \cup {NoVault}] /\ id \in Ids
      /\ r # NoVault /\ vault[id] # NoVault /\ IsFiniteSet(Open)
      /\ Open \in SUBSET Ids /\ r.debt \in Int /\ r.coll \in Colls
  BY OpenAre, VaultAssumption DEF VaultTypes, Open, VaultRecord, Colls
<1>2. /\ vault' \in [Ids -> VaultRecord \cup {NoVault}]
      /\ vault'[id] = r /\ \A x \in Ids : x # id => vault'[x] = vault[x]
      /\ \A x \in Ids : vault'[x] # NoVault <=> vault[x] # NoVault
  BY <1>1
<1>3. Open' = Open
  BY <1>2 DEF Open, Ids
<1>4. VaultTypes'
  <2>1. \A x \in Ids : vault'[x] # NoVault <=> x <= counter'
    BY <1>2 DEF VaultTypes
  <2>2. \A x \in Open, t \in Tokens : t \in DOMAIN vault'[x].coll => config[t] # NoConfig
    <3> SUFFICES ASSUME NEW x \in Open, NEW t \in Tokens, t \in DOMAIN vault'[x].coll
                 PROVE  config[t] # NoConfig
      OBVIOUS
    <3>1. CASE x = id
      BY <1>2, <3>1 DEF Configured
    <3>2. CASE x # id
      BY <1>1, <1>2, <3>2 DEF VaultTypes, Configured
    <3> QED
      BY <3>1, <3>2
  <2>3. \A x \in Open : DOMAIN vault'[x].coll \in SUBSET Tokens
    <3> SUFFICES ASSUME NEW x \in Open PROVE DOMAIN vault'[x].coll \in SUBSET Tokens
      OBVIOUS
    <3>1. vault'[x].coll \in Colls
      BY <1>1, <1>2, OpenAre
    <3> QED
      BY <3>1, CollIs
  <2>4. \A x \in Open' : \A t \in DOMAIN vault'[x].coll : config'[t] # NoConfig
    BY <1>3, <2>2, <2>3
  <2>5. counter' \in 0 .. MaxVaults
    BY DEF VaultTypes
  <2> QED
    BY <1>2, <2>1, <2>4, <2>5 DEF VaultTypes, Configured, Ids
<1>5. Lent \in Int /\ Lent' = Lent - vault[id].debt + r.debt
  <2> DEFINE f == [x \in Open |-> vault[x].debt]
             g == [x \in Open |-> vault'[x].debt]
  <2>1. f \in [Open -> Int] /\ f[id] = vault[id].debt
    BY OpenAre
  <2>2. g = [f EXCEPT ![id] = r.debt]
    BY <1>1, <1>2
  <2>3. Lent = SumFunction(f) /\ Lent' = SumFunction(g)
    BY <1>3 DEF Lent
  <2> HIDE DEF f, g
  <2>4. SumFunction(f) \in Int /\ SumFunction([f EXCEPT ![id] = r.debt]) = SumFunction(f) - f[id] + r.debt
    BY <1>1, <2>1, SumOfExcept, SumFunctionIsInt
  <2> QED
    BY <2>1, <2>2, <2>3, <2>4
<1>6. ASSUME NEW t \in Tokens
      PROVE  /\ Locked[t] \in Int
             /\ Locked'[t] = Locked[t] - CollateralOf(id, t) + Amount(r.coll, t)
  <2> DEFINE f == [x \in Open |-> CollateralOf(x, t)]
             g == [x \in Open |-> Amount(vault'[x].coll, t)]
  <2>1. f \in [Open -> Int] /\ f[id] = CollateralOf(id, t) /\ Amount(r.coll, t) \in Int
    BY <1>1, OpenAre, CollIs DEF Amount
  <2>2. g = [f EXCEPT ![id] = Amount(r.coll, t)]
    BY <1>1, <1>2 DEF CollateralOf, Amount
  <2>3. Locked[t] = SumFunction(f)
    BY DEF Locked
  <2>4. Locked'[t] = SumFunction(g)
    <3>1. Locked' = [z \in Tokens |-> SumFunction([x \in Open |-> Amount(vault'[x].coll, z)])]
      BY <1>3 DEF Locked, CollateralOf, Amount
    <3> QED
      BY <3>1
  <2> HIDE DEF f, g
  <2>5. /\ SumFunction(f) \in Int
        /\ SumFunction([f EXCEPT ![id] = Amount(r.coll, t)]) = SumFunction(f) - f[id] + Amount(r.coll, t)
    BY <1>1, <2>1, SumOfExcept, SumFunctionIsInt
  <2> QED
    BY <2>1, <2>2, <2>3, <2>4, <2>5
<1> QED
  BY <1>3, <1>4, <1>5, <1>6

Books == SumFunction(smt) = Lent /\ \A t \in Tokens : held[t] = Locked[t]

\* BooksBalance in terms of the state's parts.
LEMMA BooksAre == BooksBalance <=> Books
  BY DEF BooksBalance, DebtMatchesSupply, CollateralBacked, Lent, Locked, Books

\* The same of the next state.
LEMMA BooksNext == BooksBalance' <=> Books'
  BY BooksAre, PTL

\* One balance of SMT changed.
LEMMA SmtChanged ==
    ASSUME VaultInv, NEW u \in Users, NEW n \in Int
    PROVE  /\ [smt EXCEPT ![u] = n] \in [Users -> Int]
           /\ SumFunction([smt EXCEPT ![u] = n]) = Lent - smt[u] + n
           /\ smt[u] \in Int
<1>1. smt \in [Users -> Int] /\ IsFiniteSet(Users) /\ SumFunction(smt) = Lent
  BY BooksAre, VaultAssumption DEF VaultInv, VaultTypes, Books
<1> QED
  BY <1>1, SumOfExcept

\* Steps that touch no fund.
LEMMA VaultQuiet ==
    ASSUME VaultInv, UNCHANGED funds, PriceTypes',
           \A t \in Tokens : config[t] # NoConfig => config'[t] # NoConfig
    PROVE  VaultInv'
<1>1. UNCHANGED <<counter, vault, wallet, held, smt>>
  BY DEF funds
<1>2. \A id \in Open : \A t \in DOMAIN vault[id].coll : config'[t] # NoConfig
  <2> SUFFICES ASSUME NEW id \in Open, NEW t \in DOMAIN vault[id].coll PROVE config'[t] # NoConfig
    OBVIOUS
  <2>1. t \in Tokens
    BY OpenAre, CollIs DEF VaultInv
  <2> QED
    BY <2>1 DEF VaultInv, VaultTypes, Configured
<1>3. Open' = Open
  BY <1>1 DEF Open, Ids
<1>4. VaultTypes'
  BY <1>1, <1>2, <1>3 DEF VaultInv, VaultTypes, Configured
<1>5. BooksBalance'
  <2>1. Lent' = Lent /\ Locked' = Locked
    BY <1>1, <1>3 DEF Lent, Locked, CollateralOf
  <2> QED
    BY <1>1, <2>1, BooksAre, BooksNext DEF VaultInv, Books
<1> QED
  BY <1>4, <1>5 DEF VaultInv

\* Configuring a token moves nothing.
LEMMA SetConfigStep ==
    ASSUME VaultInv, NEW t \in Tokens, NEW c \in Configs, SetCollateralConfig(t, c)
    PROVE  VaultInv'
<1>1. c # NoConfig /\ ValidConfig(c) /\ config' = [config EXCEPT ![t] = c]
      /\ UNCHANGED funds /\ price' = price
  BY VaultAssumption DEF SetCollateralConfig, oracles
<1>2. PriceTypes'
  BY <1>1 DEF VaultInv, VaultTypes, PriceTypes, ValidConfig
<1>3. \A x \in Tokens : config[x] # NoConfig => config'[x] # NoConfig
  BY <1>1 DEF VaultInv, VaultTypes, PriceTypes
<1> QED
  BY <1>1, <1>2, <1>3, VaultQuiet

\* A price moves nothing.
LEMMA SetPriceStep ==
    ASSUME VaultInv, NEW t \in Tokens, NEW p \in Prices, SetPrice(t, p)
    PROVE  VaultInv'
<1>1. price' = [price EXCEPT ![t] = p] /\ UNCHANGED funds /\ config' = config
  BY DEF SetPrice
<1>2. PriceTypes'
  BY <1>1 DEF VaultInv, VaultTypes, PriceTypes, ValidConfig
<1> QED
  BY <1>1, <1>2, VaultQuiet

\* Pausing and resuming move nothing.
LEMMA SwitchStep ==
    ASSUME VaultInv, UNCHANGED <<price, config, funds>>
    PROVE  VaultInv'
<1>1. PriceTypes'
  BY DEF VaultInv, VaultTypes, PriceTypes, ValidConfig
<1> QED
  BY <1>1, VaultQuiet

\* A transfer of SMT leaves the amount in circulation.
LEMMA TransferSmtStep ==
    ASSUME VaultInv, NEW u \in Users, NEW w \in Users, NEW amount \in SmtAmounts,
           TransferSmt(u, w, amount)
    PROVE  VaultInv'
<1> DEFINE less == [smt EXCEPT ![u] = smt[u] - amount]
<1>1. UNCHANGED <<price, config, counter, vault, wallet, held>>
  BY DEF TransferSmt, oracles
<1>2. amount \in Int /\ smt[u] \in Int /\ smt \in [Users -> Int] /\ IsFiniteSet(Users)
  BY VaultAssumption DEF VaultInv, VaultTypes
<1>3. less \in [Users -> Int] /\ SumFunction(less) = Lent - smt[u] + (smt[u] - amount)
  <2>1. smt[u] - amount \in Int
    BY <1>2
  <2> QED
    BY <2>1, SmtChanged
<1>4. PICK more \in Int : more = less[w] + amount /\ smt' = [less EXCEPT ![w] = more]
  <2>1. less[w] \in Int /\ less[w] + amount \in Int
    BY <1>2, <1>3
  <2>2. smt' = [less EXCEPT ![w] = less[w] + amount]
    BY DEF TransferSmt
  <2> QED
    BY <2>1, <2>2
<1> HIDE DEF less
<1>4a. smt' \in [Users -> Int] /\ SumFunction(smt') = SumFunction(less) - less[w] + more
       /\ less[w] \in Int
  <2>1. SumFunction([less EXCEPT ![w] = more]) = SumFunction(less) - less[w] + more
    <3>1. IsFiniteSet(Users) /\ less \in [Users -> Int]
      BY <1>2, <1>3
    <3> QED
      BY ONLY <3>1, SumOfExcept
  <2> QED
    BY <1>3, <1>4, <2>1
<1>5. Lent \in Int
  <2>1. Lent = SumFunction(smt)
    BY BooksAre DEF VaultInv, Books
  <2> QED
    BY <1>2, <2>1, SumFunctionIsInt
<1>6. SumFunction(smt') = Lent
  BY <1>2, <1>3, <1>4, <1>4a, <1>5
<1>7. Open' = Open
  BY <1>1 DEF Open, Ids
<1>8. VaultTypes'
  BY <1>1, <1>4a, <1>7 DEF VaultInv, VaultTypes, PriceTypes, ValidConfig, Configured
<1>9. Lent' = Lent /\ Locked' = Locked
  BY <1>1, <1>7 DEF Lent, Locked, CollateralOf
<1> QED
  BY <1>1, <1>6, <1>8, <1>9, BooksAre, BooksNext DEF VaultInv, Books

\* One vault, one balance of SMT and the funds of each token changed by as much.
LEMMA VaultMoves ==
    ASSUME VaultInv, NEW id \in Open, NEW r \in VaultRecord, Configured(r.coll),
           vault' = [vault EXCEPT ![id] = r], UNCHANGED <<price, config, counter>>,
           NEW u \in Users, smt' = [smt EXCEPT ![u] = smt[u] + (r.debt - vault[id].debt)],
           wallet' \in [Tokens -> [Users -> Int]], held' \in [Tokens -> Int],
           \A t \in Tokens : held'[t] = held[t] + (Amount(r.coll, t) - CollateralOf(id, t))
    PROVE  VaultInv'
<1>1. /\ vault[id].debt \in Int /\ r.debt \in Int
      /\ \A t \in Tokens : CollateralOf(id, t) \in Int /\ Amount(r.coll, t) \in Int
  <2>1. vault[id].debt \in Int /\ \A t \in Tokens : CollateralOf(id, t) \in Int
    BY OpenAre DEF VaultInv
  <2>2. r.debt \in Int /\ r.coll \in Colls
    BY DEF VaultRecord, Colls
  <2>3. \A t \in Tokens : Amount(r.coll, t) \in Int
    BY <2>2, CollIs DEF Amount
  <2> QED
    BY <2>1, <2>2, <2>3
<1>2. PriceTypes'
  BY DEF VaultInv, VaultTypes, PriceTypes, ValidConfig
<1>3. /\ smt' \in [Users -> Int] /\ smt[u] \in Int
      /\ SumFunction(smt') = Lent - smt[u] + (smt[u] + (r.debt - vault[id].debt))
  <2>1. smt[u] \in Int
    BY DEF VaultInv, VaultTypes
  <2>2. smt[u] + (r.debt - vault[id].debt) \in Int
    BY <1>1, <2>1
  <2> QED
    BY <2>2, SmtChanged
<1>4. VaultTypes
  BY DEF VaultInv
<1>5. /\ VaultTypes'
      /\ Lent \in Int /\ Lent' = Lent - vault[id].debt + r.debt
      /\ \A t \in Tokens :
            /\ Locked[t] \in Int
            /\ Locked'[t] = Locked[t] - CollateralOf(id, t) + Amount(r.coll, t)
  BY <1>2, <1>3, <1>4, OneVault
<1>6. SumFunction(smt') = Lent'
  BY <1>1, <1>3, <1>5
<1>7. \A t \in Tokens : held'[t] = Locked'[t]
  <2>1. \A t \in Tokens : held[t] = Locked[t]
    BY BooksAre DEF VaultInv, Books
  <2> QED
    BY <1>1, <1>5, <2>1
<1> QED
  BY <1>5, <1>6, <1>7, BooksNext DEF VaultInv, Books

\* Minting adds as much to the debt as to what circulates.
LEMMA MintMoreStep ==
    ASSUME VaultInv, NEW id \in Ids, NEW minted \in SmtAmounts, MintMore(id, minted)
    PROVE  VaultInv'
<1> DEFINE r == [vault[id] EXCEPT !.debt = vault[id].debt + minted]
<1>1. /\ id \in Open /\ vault' = [vault EXCEPT ![id] = r]
      /\ smt' = [smt EXCEPT ![vault[id].owner] = smt[vault[id].owner] + minted]
      /\ UNCHANGED <<price, config, counter, wallet, held>>
  BY DEF MintMore, oracles
<1>2. /\ vault[id] \in VaultRecord /\ vault[id].owner \in Users /\ vault[id].debt \in Int
      /\ Configured(vault[id].coll) /\ minted \in Int
  BY <1>1, OpenAre, VaultAssumption DEF VaultInv, VaultTypes
<1>3. /\ r \in VaultRecord /\ r.coll = vault[id].coll /\ r.debt = vault[id].debt + minted
      /\ r.debt - vault[id].debt = minted
  BY <1>2 DEF VaultRecord
<1> HIDE DEF r
<1>4. \A t \in Tokens : held'[t] = held[t] + (Amount(r.coll, t) - CollateralOf(id, t))
  <2>1. \A t \in Tokens : Amount(r.coll, t) = CollateralOf(id, t) /\ CollateralOf(id, t) \in Int
                          /\ held[t] \in Int
    BY <1>1, <1>3, OpenAre DEF Amount, CollateralOf, VaultInv, VaultTypes
  <2> QED
    BY <1>1, <2>1
<1>5. wallet' \in [Tokens -> [Users -> Int]] /\ held' \in [Tokens -> Int]
  BY <1>1 DEF VaultInv, VaultTypes
<1> QED
  BY <1>1, <1>2, <1>3, <1>4, <1>5, VaultMoves

\* A liquidation burns what it takes off the debt, and pays out what it takes off the
\* books.
LEMMA LiquidateStep ==
    ASSUME VaultInv, NEW id \in Ids, NEW u \in Users, NEW covered \in SmtAmounts,
           Liquidate(id, u, covered)
    PROVE  VaultInv'
<1> DEFINE coll == vault[id].coll
           left == AfterSeizure(coll, covered)
           taken(t) == IF t \in DOMAIN coll THEN coll[t] - left[t] ELSE 0
           r == [[vault[id] EXCEPT !.debt = vault[id].debt - covered] EXCEPT !.coll = left]
<1>1. /\ id \in Open /\ vault' = [vault EXCEPT ![id] = r]
      /\ smt' = [smt EXCEPT ![u] = smt[u] - covered]
      /\ held' = [t \in Tokens |-> held[t] - taken(t)]
      /\ wallet' = [t \in Tokens |-> [wallet[t] EXCEPT ![u] = wallet[t][u] + taken(t)]]
      /\ UNCHANGED <<price, config, counter>>
  BY DEF Liquidate, Repaid, oracles
<1>0. VaultTypes
  BY DEF VaultInv
<1>2. /\ vault[id] \in VaultRecord /\ vault[id].debt \in Int /\ coll \in Colls
      /\ Configured(coll) /\ covered \in Int /\ PriceTypes
  <2>1. vault[id] \in VaultRecord /\ vault[id].debt \in Int /\ vault[id].coll \in Colls
    BY <1>0, <1>1, OpenAre
  <2>2. Configured(vault[id].coll) /\ PriceTypes
    BY <1>0, <1>1 DEF VaultTypes
  <2> QED
    BY <2>1, <2>2, VaultAssumption
<1>3. left \in [DOMAIN coll -> Int] /\ DOMAIN coll \in SUBSET Tokens
      /\ \A t \in DOMAIN coll : coll[t] \in Int
  BY <1>2, SeizureKeepsTokens, CollIs
<1> HIDE DEF left, coll
<1>4. /\ r \in VaultRecord /\ r.coll = left /\ r.debt = vault[id].debt - covered
      /\ r.debt - vault[id].debt = - covered /\ DOMAIN left = DOMAIN coll
  <2>1. left \in Colls /\ DOMAIN left = DOMAIN coll
    BY <1>3, CollsAre
  <2>2. /\ vault[id] \in [owner : Users, debt : Int, coll : Colls]
        /\ vault[id].debt - covered \in Int /\ vault[id].debt - covered - vault[id].debt = - covered
    BY <1>2 DEF VaultRecord, Colls
  <2> HIDE DEF Colls
  <2>3. /\ r \in [owner : Users, debt : Int, coll : Colls] /\ r.coll = left
        /\ r.debt = vault[id].debt - covered
    BY <2>1, <2>2
  <2>4. r \in VaultRecord
    BY <2>3 DEF VaultRecord, Colls
  <2> QED
    BY <2>1, <2>2, <2>3, <2>4
<1> HIDE DEF r
<1>5. \A t \in Tokens : taken(t) \in Int
  BY <1>3
<1>6. \A t \in Tokens : taken(t) = CollateralOf(id, t) - Amount(r.coll, t)
  BY <1>3, <1>4 DEF Amount, CollateralOf, coll
<1> HIDE DEF taken
<1>7. /\ smt[u] \in Int /\ held \in [Tokens -> Int] /\ wallet \in [Tokens -> [Users -> Int]]
      /\ \A t \in Tokens : CollateralOf(id, t) \in Int /\ Amount(r.coll, t) \in Int
  <2>1. \A t \in Tokens : CollateralOf(id, t) \in Int /\ Amount(r.coll, t) \in Int
    BY <1>1, <1>3, <1>4, OpenAre DEF Amount, VaultInv
  <2> QED
    BY <2>1 DEF VaultInv, VaultTypes
<1>8. smt' = [smt EXCEPT ![u] = smt[u] + (r.debt - vault[id].debt)]
  <2>1. smt[u] - covered = smt[u] + (r.debt - vault[id].debt)
    BY <1>2, <1>4, <1>7
  <2> QED
    BY <1>1, <2>1
<1>9. \A t \in Tokens : held'[t] = held[t] + (Amount(r.coll, t) - CollateralOf(id, t))
  BY <1>1, <1>6, <1>7
<1>10. wallet' \in [Tokens -> [Users -> Int]] /\ held' \in [Tokens -> Int]
  BY <1>1, <1>5, <1>7
<1>11. Configured(r.coll)
  BY <1>2, <1>4 DEF Configured
<1>12. id \in Open /\ vault' = [vault EXCEPT ![id] = r] /\ UNCHANGED <<price, config, counter>>
  BY <1>1
<1>13. r \in VaultRecord
  BY <1>4
<1> QED
  BY <1>8, <1>9, <1>10, <1>11, <1>12, <1>13, VaultMoves

\* The owner's side of a movement of amount of t, out of the wallet or into it.
LEMMA WalletTypes ==
    ASSUME VaultInv, NEW t \in Tokens, NEW u \in Users, NEW n \in Int,
           wallet' = [wallet EXCEPT ![t][u] = n]
    PROVE  wallet' \in [Tokens -> [Users -> Int]]
<1>1. wallet \in [Tokens -> [Users -> Int]]
  BY DEF VaultInv, VaultTypes
<1>2. [wallet[t] EXCEPT ![u] = n] \in [Users -> Int]
  BY <1>1
<1>3. wallet' = [wallet EXCEPT ![t] = [wallet[t] EXCEPT ![u] = n]]
  OBVIOUS
<1> QED
  BY <1>1, <1>2, <1>3

\* A deposit is booked where it is held.
LEMMA AddCollateralStep ==
    ASSUME VaultInv, NEW id \in Ids, NEW t \in Tokens, NEW amount \in Deposits,
           AddCollateralToVault(id, t, amount)
    PROVE  VaultInv'
<1> DEFINE coll == vault[id].coll
           more == With(coll, t, amount)
           r == [vault[id] EXCEPT !.coll = more]
           u == vault[id].owner
<1>0. VaultTypes
  BY DEF VaultInv
<1>1. /\ id \in Open /\ vault' = [vault EXCEPT ![id] = r]
      /\ config[t] # NoConfig
      /\ wallet' = [wallet EXCEPT ![t][u] = wallet[t][u] - amount]
      /\ held' = [held EXCEPT ![t] = held[t] + amount]
      /\ UNCHANGED <<price, config, counter, smt>>
  BY DEF AddCollateralToVault, oracles
<1>2. /\ vault[id] \in VaultRecord /\ u \in Users /\ vault[id].debt \in Int
      /\ amount \in Int
  BY <1>0, <1>1, OpenAre, VaultAssumption
<1>2a. coll \in Colls
  BY <1>0, <1>1, OpenAre
<1>2b. Configured(coll)
  BY <1>0, <1>1 DEF VaultTypes
<1>3. /\ DOMAIN coll \in SUBSET Tokens /\ \A x \in DOMAIN coll : coll[x] \in Int
      /\ DOMAIN more = DOMAIN coll \cup {t}
      /\ \A x \in DOMAIN more : more[x] = Amount(coll, x) + IF x = t THEN amount ELSE 0
  <2>1. DOMAIN coll \in SUBSET Tokens /\ \A x \in DOMAIN coll : coll[x] \in Int
    BY <1>2a, CollIs
  <2> QED
    BY <2>1 DEF With, Amount
<1>4. more \in [DOMAIN coll \cup {t} -> Int]
  <2>1. \A x \in DOMAIN more : more[x] \in Int
    BY <1>2, <1>3 DEF Amount
  <2> QED
    BY <1>3, <2>1 DEF With
<1> HIDE DEF coll, more
<1>5. /\ r \in VaultRecord /\ r.coll = more /\ r.debt = vault[id].debt
  <2>1. more \in Colls
    BY <1>3, <1>4, CollsAre
  <2>2. vault[id] \in [owner : Users, debt : Int, coll : Colls]
    BY <1>2 DEF VaultRecord, Colls
  <2> HIDE DEF Colls
  <2>3. r \in [owner : Users, debt : Int, coll : Colls] /\ r.coll = more /\ r.debt = vault[id].debt
    BY <2>1, <2>2
  <2> QED
    BY <2>3 DEF VaultRecord, Colls
<1> HIDE DEF r
<1>6. Configured(r.coll)
  BY <1>1, <1>2b, <1>3, <1>5 DEF Configured
<1>7. smt[u] \in Int /\ wallet[t][u] - amount \in Int /\ held \in [Tokens -> Int]
  BY <1>2 DEF VaultInv, VaultTypes
<1>8. smt' = [smt EXCEPT ![u] = smt[u] + (r.debt - vault[id].debt)]
  <2>1. smt[u] + (r.debt - vault[id].debt) = smt[u]
    BY <1>2, <1>5, <1>7
  <2>2. smt \in [Users -> Int]
    BY <1>0 DEF VaultTypes
  <2> QED
    BY <1>1, <2>1, <2>2
<1>9. \A x \in Tokens : held'[x] = held[x] + (Amount(r.coll, x) - CollateralOf(id, x))
  <2> SUFFICES ASSUME NEW x \in Tokens
               PROVE  held'[x] = held[x] + (Amount(more, x) - Amount(coll, x))
    BY <1>5 DEF CollateralOf, Amount, coll
  <2>1. Amount(coll, x) \in Int /\ held[x] \in Int
    BY <1>3, <1>7 DEF Amount
  <2>2. Amount(more, x) = Amount(coll, x) + IF x = t THEN amount ELSE 0
    BY <1>2, <1>3, <2>1 DEF Amount
  <2> QED
    BY <1>1, <1>2, <1>7, <2>1, <2>2
<1>10. wallet' \in [Tokens -> [Users -> Int]] /\ held' \in [Tokens -> Int]
  <2>1. held[t] + amount \in Int
    BY <1>2, <1>7
  <2> QED
    BY <1>1, <1>2, <1>7, <2>1, WalletTypes
<1>11. id \in Open /\ vault' = [vault EXCEPT ![id] = r] /\ UNCHANGED <<price, config, counter>>
  BY <1>1
<1>12. r \in VaultRecord /\ u \in Users
  BY <1>2, <1>5
<1> QED
  BY <1>6, <1>8, <1>9, <1>10, <1>11, <1>12, VaultMoves

\* Repayment and withdrawal change books and balances alike.
LEMMA WithdrawVaultStep ==
    ASSUME VaultInv, NEW id \in Ids, NEW t \in Tokens, NEW repay \in SmtAmounts \cup {0},
           NEW amount \in Deposits \cup {0}, RepayAndWithdraw(id, repay, t, amount)
    PROVE  VaultInv'
<1> DEFINE coll == vault[id].coll
           less == IF amount = 0 THEN coll ELSE [coll EXCEPT ![t] = coll[t] - amount]
           r == [vault[id] EXCEPT !.debt = vault[id].debt - repay, !.coll = less]
           u == vault[id].owner
<1>0. VaultTypes
  BY DEF VaultInv
<1>1. id \in Open
  BY DEF RepayAndWithdraw
<1>2. /\ vault[id] \in VaultRecord /\ u \in Users /\ vault[id].debt \in Int
      /\ amount \in Int /\ repay \in Int
  <2>1. amount \in Int /\ repay \in Int
    BY VaultAssumption
  <2>2. vault[id] \in VaultRecord /\ vault[id].owner \in Users /\ vault[id].debt \in Int
    BY <1>0, <1>1, OpenAre
  <2> QED
    BY <2>1, <2>2
<1>2a. coll \in Colls
  BY <1>0, <1>1, OpenAre
<1>2b. Configured(coll)
  BY <1>0, <1>1 DEF VaultTypes
<1>3. DOMAIN coll \in SUBSET Tokens /\ \A x \in DOMAIN coll : coll[x] \in Int
  BY <1>2a, CollIs
<1>3a. /\ DOMAIN less = DOMAIN coll /\ less \in [DOMAIN coll -> Int]
       /\ \A x \in DOMAIN coll :
             less[x] = coll[x] - IF x = t THEN amount ELSE 0
  <2>1. coll \in [DOMAIN coll -> Int] /\ \A x \in DOMAIN coll : coll[x] \in Int
    BY <1>2a, CollIs
  <2> HIDE DEF coll
  <2>2. CASE amount = 0
    BY <2>1, <2>2
  <2>3. CASE amount # 0
    <3>1. less = [coll EXCEPT ![t] = coll[t] - amount]
      BY <2>3
    <3>2. t \in DOMAIN coll => coll[t] - amount \in Int
      BY <1>2, <2>1
    <3> HIDE DEF less
    <3>3. \A x \in DOMAIN coll : less[x] = coll[x] - IF x = t THEN amount ELSE 0
      BY <1>2, <2>1, <3>1
    <3> QED
      BY <2>1, <3>1, <3>2, <3>3
  <2> QED
    BY <2>2, <2>3
<1>4. amount # 0 => t \in DOMAIN coll
  BY DEF RepayAndWithdraw
<1>5. smt' = [smt EXCEPT ![u] = smt[u] - repay] /\ UNCHANGED <<price, config, counter>>
  BY DEF RepayAndWithdraw, oracles
<1>6. vault' = [vault EXCEPT ![id] = r]
  <2>1. CASE amount = 0
    <3>1. vault' = [vault EXCEPT ![id] = [vault[id] EXCEPT !.debt = vault[id].debt - repay]]
      BY <2>1 DEF RepayAndWithdraw, Repaid
    <3>2. r = [vault[id] EXCEPT !.debt = vault[id].debt - repay]
      BY <1>2, <2>1 DEF VaultRecord
    <3> QED
      BY <3>1, <3>2
  <2>2. CASE amount # 0
    <3>1. vault' = [vault EXCEPT ![id] = [[vault[id] EXCEPT !.debt = vault[id].debt - repay]
                       EXCEPT !.coll = [coll EXCEPT ![t] = coll[t] - amount]]]
      BY <2>2 DEF RepayAndWithdraw, Repaid, Without
    <3>2. r = [[vault[id] EXCEPT !.debt = vault[id].debt - repay]
                       EXCEPT !.coll = [coll EXCEPT ![t] = coll[t] - amount]]
      BY <1>2, <2>2 DEF VaultRecord
    <3> QED
      BY <3>1, <3>2
  <2> QED
    BY <2>1, <2>2
<1>7. /\ amount = 0 => UNCHANGED <<wallet, held>>
      /\ amount # 0 => /\ held' = [held EXCEPT ![t] = held[t] - amount]
                       /\ wallet' = [wallet EXCEPT ![t][u] = wallet[t][u] + amount]
  BY DEF RepayAndWithdraw
<1> HIDE DEF coll, less
<1>8. /\ r \in VaultRecord /\ r.coll = less /\ r.debt = vault[id].debt - repay
      /\ r.debt - vault[id].debt = - repay
  <2>1. less \in Colls
    BY <1>3, <1>3a, CollsAre
  <2>2. vault[id] \in [owner : Users, debt : Int, coll : Colls] /\ vault[id].debt - repay \in Int
    BY <1>2 DEF VaultRecord, Colls
  <2> HIDE DEF Colls
  <2>3. /\ r \in [owner : Users, debt : Int, coll : Colls] /\ r.coll = less
        /\ r.debt = vault[id].debt - repay
    BY <2>1, <2>2
  <2>4. vault[id].debt - repay - vault[id].debt = - repay
    BY <1>2
  <2> QED
    BY <2>3, <2>4 DEF VaultRecord, Colls
<1> HIDE DEF r
<1>9. Configured(r.coll)
  BY <1>2b, <1>3a, <1>8 DEF Configured
<1>10. /\ smt[u] \in Int /\ wallet[t][u] + amount \in Int /\ held \in [Tokens -> Int]
       /\ wallet \in [Tokens -> [Users -> Int]]
  BY <1>2 DEF VaultInv, VaultTypes
<1>11. smt' = [smt EXCEPT ![u] = smt[u] + (r.debt - vault[id].debt)]
  <2>1. smt[u] - repay = smt[u] + (r.debt - vault[id].debt)
    BY <1>2, <1>8, <1>10
  <2> QED
    BY <1>5, <2>1
<1>12. \A x \in Tokens : held'[x] = held[x] + (Amount(r.coll, x) - CollateralOf(id, x))
  <2> SUFFICES ASSUME NEW x \in Tokens
               PROVE  held'[x] = held[x] + (Amount(less, x) - Amount(coll, x))
    BY <1>8 DEF CollateralOf, Amount, coll
  <2>1. Amount(coll, x) \in Int /\ held[x] \in Int
    BY <1>3, <1>10 DEF Amount
  <2>2. Amount(less, x) = Amount(coll, x) - IF x = t THEN amount ELSE 0
    BY <1>2, <1>3, <1>3a, <1>4, <2>1 DEF Amount
  <2>3. held'[x] = held[x] - IF x = t THEN amount ELSE 0
    BY <1>2, <1>7, <1>10, <2>1
  <2> QED
    BY <1>2, <2>1, <2>2, <2>3
<1>13. wallet' \in [Tokens -> [Users -> Int]] /\ held' \in [Tokens -> Int]
  <2>1. CASE amount = 0
    BY <1>7, <1>10, <2>1
  <2>2. CASE amount # 0
    <3>1. held[t] - amount \in Int
      BY <1>2, <1>10
    <3>2. held' \in [Tokens -> Int]
      BY <1>7, <1>10, <2>2, <3>1
    <3> QED
      BY <1>2, <1>7, <1>10, <2>2, <3>2, WalletTypes
  <2> QED
    BY <2>1, <2>2
<1>14. r \in VaultRecord /\ u \in Users
  BY <1>2, <1>8
<1> QED
  BY <1>1, <1>5, <1>6, <1>9, <1>11, <1>12, <1>13, <1>14, VaultMoves

\* A new vault starts with its deposit and its debt booked.
LEMMA DepositAndMintStep ==
    ASSUME VaultInv, NEW u \in Users, NEW t \in Tokens, NEW amount \in Deposits,
           NEW minted \in SmtAmounts, DepositAndMint(u, t, amount, minted)
    PROVE  VaultInv'
<1> DEFINE id == counter + 1
           coll == [s \in {t} |-> amount]
           r == [owner |-> u, debt |-> minted, coll |-> coll]
<1>0. VaultTypes
  BY DEF VaultInv
<1>1. /\ counter < MaxVaults /\ config[t] # NoConfig
      /\ wallet' = [wallet EXCEPT ![t][u] = wallet[t][u] - amount]
      /\ held' = [held EXCEPT ![t] = held[t] + amount]
      /\ counter' = id
      /\ vault' = [vault EXCEPT ![id] = r]
      /\ smt' = [smt EXCEPT ![u] = smt[u] + minted]
      /\ UNCHANGED <<price, config>>
  BY DEF DepositAndMint, oracles
<1>2. /\ amount \in Int /\ minted \in Int /\ MaxVaults \in Nat
      /\ counter \in 0 .. MaxVaults /\ Ids = 1 .. MaxVaults
      /\ smt[u] \in Int /\ wallet[t][u] \in Int /\ held \in [Tokens -> Int]
      /\ vault \in [Ids -> VaultRecord \cup {NoVault}]
  BY <1>0, VaultAssumption DEF VaultTypes, Ids
<1>3. id \in Ids /\ id \notin Open /\ vault[id] = NoVault
  BY <1>0, <1>1, <1>2 DEF VaultTypes, Open
<1>4. r \in VaultRecord /\ r # NoVault /\ r.debt = minted /\ r.coll = coll
  <2>1. coll \in [{t} -> Int] /\ {t} \in SUBSET Tokens
    BY <1>2
  <2> HIDE DEF coll
  <2>2. coll \in Colls
    BY ONLY <2>1, CollsAre
  <2>3. r \in VaultRecord
    BY <1>2, <2>2 DEF VaultRecord, Colls
  <2> QED
    BY <2>3, VaultAssumption
<1>5. /\ vault' \in [Ids -> VaultRecord \cup {NoVault}] /\ vault'[id] = r
      /\ \A x \in Ids : x # id => vault'[x] = vault[x]
  BY <1>1, <1>2, <1>3, <1>4
<1>6. Open' = Open \cup {id}
  BY <1>3, <1>4, <1>5 DEF Open, Ids
<1>6a. IsFiniteSet(Open) /\ Open \in SUBSET Ids
  BY <1>0, OpenAre
<1> HIDE DEF r, id
<1>7. VaultTypes'
  <2>1. PriceTypes'
    BY <1>0, <1>1 DEF VaultTypes, PriceTypes, ValidConfig
  <2>2. counter' \in 0 .. MaxVaults /\ \A x \in Ids : vault'[x] # NoVault <=> x <= counter'
    BY <1>0, <1>1, <1>2, <1>3, <1>4, <1>5 DEF VaultTypes, id
  <2>3. \A x \in Open' : \A z \in DOMAIN vault'[x].coll : config'[z] # NoConfig
    <3> SUFFICES ASSUME NEW x \in Open', NEW z \in DOMAIN vault'[x].coll PROVE config[z] # NoConfig
      BY <1>1
    <3>1. CASE x = id
      BY <1>1, <1>4, <1>5, <3>1
    <3>2. CASE x # id
      <4>1. x \in Open /\ vault'[x] = vault[x]
        BY <1>5, <1>6, <1>6a, <3>2
      <4> QED
        BY <1>0, <4>1 DEF VaultTypes, Configured
    <3> QED
      BY <3>1, <3>2
  <2>4. wallet' \in [Tokens -> [Users -> Int]]
    <3>1. wallet[t][u] - amount \in Int
      BY <1>2
    <3> QED
      BY <1>1, <3>1, WalletTypes
  <2>5. held' \in [Tokens -> Int] /\ smt' \in [Users -> Int]
    BY <1>0, <1>1, <1>2 DEF VaultTypes
  <2> QED
    BY <1>5, <2>1, <2>2, <2>3, <2>4, <2>5 DEF VaultTypes, Configured, Ids
<1>8. Lent \in Int /\ Lent' = Lent + minted
  <2> DEFINE f == [x \in Open |-> vault[x].debt]
             g == [x \in Open \cup {id} |-> vault'[x].debt]
  <2>1. /\ \A x \in Open : f[x] \in Int /\ g[x] = f[x]
        /\ g[id] = minted /\ \A x \in Open \cup {id} : g[x] \in Int
    <3>1. \A x \in Open : vault'[x] = vault[x] /\ vault[x].debt \in Int
      BY <1>0, <1>3, <1>5, <1>6a, OpenAre
    <3> QED
      BY <1>2, <1>4, <1>5, <3>1
  <2>2. Lent = SumFunction(f) /\ Lent' = SumFunction(g)
    BY <1>6 DEF Lent
  <2>3. DOMAIN f = Open /\ DOMAIN g = Open \cup {id}
    OBVIOUS
  <2> HIDE DEF f, g
  <2>4. SumFunctionOnSet(g, Open \cup {id}) = g[id] + SumFunctionOnSet(g, Open)
    BY <1>3, <1>6a, <2>1, SumWith
  <2>5. SumFunctionOnSet(g, Open) = SumFunctionOnSet(f, Open) /\ SumFunctionOnSet(f, Open) \in Int
    <3>1. \A x \in Open : g[x] = f[x] /\ f[x] \in Int
      BY <2>1
    <3> QED
      BY ONLY <1>6a, <3>1, SumSame, SumIsInt
  <2> QED
    BY <1>2, <2>1, <2>2, <2>3, <2>4, <2>5, SumOfFunction
<1>9. ASSUME NEW z \in Tokens
      PROVE  Locked[z] \in Int /\ Locked'[z] = Locked[z] + IF z = t THEN amount ELSE 0
  <2> DEFINE f == [x \in Open |-> CollateralOf(x, z)]
             g == [x \in Open \cup {id} |-> Amount(vault'[x].coll, z)]
             n == IF z = t THEN amount ELSE 0
  <2>1. /\ \A x \in Open : f[x] \in Int /\ g[x] = f[x]
        /\ g[id] = n /\ \A x \in Open \cup {id} : g[x] \in Int
    <3>1. \A x \in Open : vault'[x] = vault[x] /\ CollateralOf(x, z) \in Int
      BY <1>0, <1>3, <1>5, <1>6a, OpenAre
    <3>2. \A x \in Open : f[x] \in Int /\ g[x] = f[x]
      BY <3>1 DEF CollateralOf, Amount
    <3>3. g[id] = n
      BY <1>4, <1>5 DEF Amount
    <3>4. n \in Int
      BY <1>2
    <3> QED
      BY <3>2, <3>3, <3>4
  <2>2. Locked[z] = SumFunction(f) /\ Locked'[z] = SumFunction(g)
    <3>1. Locked' = [y \in Tokens |-> SumFunction([x \in Open \cup {id} |-> Amount(vault'[x].coll, y)])]
      BY <1>6 DEF Locked, CollateralOf, Amount
    <3> QED
      BY <3>1 DEF Locked
  <2>3. DOMAIN f = Open /\ DOMAIN g = Open \cup {id}
    OBVIOUS
  <2> HIDE DEF f, g
  <2>4. SumFunctionOnSet(g, Open \cup {id}) = g[id] + SumFunctionOnSet(g, Open)
    BY <1>3, <1>6a, <2>1, SumWith
  <2>5. SumFunctionOnSet(g, Open) = SumFunctionOnSet(f, Open) /\ SumFunctionOnSet(f, Open) \in Int
    <3>1. \A x \in Open : g[x] = f[x] /\ f[x] \in Int
      BY <2>1
    <3> QED
      BY ONLY <1>6a, <3>1, SumSame, SumIsInt
  <2> QED
    BY <1>2, <2>1, <2>2, <2>3, <2>4, <2>5, SumOfFunction
<1>10. SumFunction(smt') = Lent'
  <2>1. smt[u] + minted \in Int
    BY <1>2
  <2>2. SumFunction(smt') = Lent - smt[u] + (smt[u] + minted)
    BY <1>1, <2>1, SmtChanged
  <2> QED
    BY <1>2, <1>8, <2>2
<1>11. \A z \in Tokens : held'[z] = Locked'[z]
  <2> SUFFICES ASSUME NEW z \in Tokens PROVE held'[z] = Locked'[z]
    OBVIOUS
  <2>1. held[z] = Locked[z] /\ held[z] \in Int
    BY <1>2, BooksAre DEF VaultInv, Books
  <2>2. held'[z] = held[z] + IF z = t THEN amount ELSE 0
    BY <1>1, <1>2, <2>1
  <2> QED
    BY <1>9, <2>1, <2>2
<1> QED
  BY <1>7, <1>10, <1>11, BooksNext DEF VaultInv, Books

\* Every entry point keeps the vault's invariant.
LEMMA VaultStep ==
    ASSUME VaultInv, [Next]_vars
    PROVE  VaultInv'
<1>1. ASSUME UNCHANGED vars PROVE VaultInv'
  BY <1>1, SwitchStep DEF vars, oracles
<1>2. ASSUME NEW b \in BOOLEAN, SetTwapOracle(b) \/ SetLiquidationsPaused(b) PROVE VaultInv'
  BY <1>2, SwitchStep DEF SetTwapOracle, SetLiquidationsPaused, oracles
<1>3. ASSUME NEW t \in Tokens, TripOracleCircuitBreaker(t) PROVE VaultInv'
  BY <1>3, SwitchStep DEF TripOracleCircuitBreaker, oracles
<1>4. ASSUME NEW t \in Tokens, NEW p \in TwapPrices, SetTwap(t, p) PROVE VaultInv'
  BY <1>4, SwitchStep DEF SetTwap
<1> QED
  BY <1>1, <1>2, <1>3, <1>4, SetConfigStep, SetPriceStep, TransferSmtStep, DepositAndMintStep,
     AddCollateralStep, MintMoreStep, WithdrawVaultStep, LiquidateStep DEF Next

\* There is no vault at first.
LEMMA VaultStarts ==
    ASSUME Init
    PROVE  VaultInv
<1>1. /\ MaxVaults \in Nat /\ Endowment \in Int /\ IsFiniteSet(Users)
      /\ counter = 0 /\ vault = [id \in Ids |-> NoVault]
      /\ smt = [u \in Users |-> 0] /\ held = [t \in Tokens |-> 0]
      /\ wallet = [t \in Tokens |-> [u \in Users |-> Endowment]]
  BY VaultAssumption DEF Init
<1>2. Open = {}
  BY <1>1 DEF Open
<1>3. PriceTypes
  BY DEF Init, PriceTypes
<1>4. VaultTypes
  BY <1>1, <1>2, <1>3 DEF VaultTypes, Ids
<1>5. Lent = 0
  <2> DEFINE f == [id \in Open |-> vault[id].debt]
  <2>1. DOMAIN f = {}
    BY <1>2
  <2> HIDE DEF f
  <2>2. SumFunction(f) = 0
    BY <2>1, SumOfFunction, SumEmpty
  <2> QED
    BY <2>2 DEF Lent, f
<1>6. \A t \in Tokens : Locked[t] = 0
  <2> SUFFICES ASSUME NEW t \in Tokens PROVE Locked[t] = 0
    OBVIOUS
  <2> DEFINE f == [id \in Open |-> CollateralOf(id, t)]
  <2>1. DOMAIN f = {}
    BY <1>2
  <2> HIDE DEF f
  <2>2. SumFunction(f) = 0
    BY <2>1, SumOfFunction, SumEmpty
  <2> QED
    BY <2>2 DEF Locked, f
<1>7. SumFunction(smt) = 0
  <2>1. DOMAIN smt = Users /\ \A u \in Users : smt[u] = 0
    BY <1>1
  <2> QED
    BY <1>1, <2>1, SumOfFunction, SumOfZeros
<1> QED
  BY <1>1, <1>4, <1>5, <1>6, <1>7, BooksAre DEF VaultInv, Books

\* The vault's books balance for any number of users, collaterals, prices and
\* limits, and whatever the loop of a partial liquidation takes: the contract
\* holds the collateral of its positions and all SMT is owed (lib.rs:182-541).
THEOREM VaultBooks == Spec => []BooksBalance
<1>1. VaultInv /\ [Next]_vars => VaultInv'
  BY VaultStep
<1>2. VaultInv => BooksBalance
  BY DEF VaultInv
<1>3. Init => VaultInv
  BY VaultStarts
<1> QED
  BY <1>1, <1>2, <1>3, PTL DEF Spec

-----------------------------------------------------------------------------
(* Who endangers a vault.  The values and limits of a position as operators  *)
(* of the prices and the configuration, which most steps leave alone.        *)

TotalOf(p, c) == SumFunction([t \in DOMAIN c |-> (c[t] * p[t]) \div Scale])
HighestOf(cfg, c) == Max({LiquidationThreshold} \cup {cfg[t].threshold : t \in DOMAIN c})
DangerOf(p, cfg, v) ==
    v.debt > 0 /\ (TotalOf(p, v.coll) * BP) \div v.debt < HighestOf(cfg, v.coll)

\* Danger as a function of prices, configuration and vault.
LEMMA DangerIs ==
    ASSUME NEW v
    PROVE  v.debt \in Int => (InDanger(v) <=> DangerOf(price, config, v))
<1>1. TotalValue(v.coll) = TotalOf(price, v.coll)
  BY DEF TotalValue, Value, TotalOf
<1>2. HighestThreshold(v.coll) = HighestOf(config, v.coll)
  BY DEF HighestThreshold, HighestOf
<1> SUFFICES ASSUME v.debt \in Int PROVE InDanger(v) <=> DangerOf(price, config, v)
  OBVIOUS
<1>3. Ratio(v.coll, v.debt) = (TotalOf(price, v.coll) * BP) \div v.debt
  BY <1>1 DEF Ratio
<1> QED
  BY <1>2, <1>3 DEF InDanger, Liquidatable, DangerOf

\* The limits of finitely many tokens, and one more.
LEMMA LimitsFinite ==
    ASSUME NEW S, IsFiniteSet(S), NEW f, \A t \in S : f[t] \in Int, NEW n \in Int
    PROVE  LET L == {n} \cup {f[t] : t \in S}
           IN  Max(L) \in L /\ \A y \in L : y <= Max(L) /\ y \in Int
<1> DEFINE image == {f[t] : t \in S}
           L == {n} \cup image
           h == [t \in S |-> f[t]]
<1>1. IsFiniteSet(image)
  <2>1. h \in Surjection(S, image)
    BY DEF Surjection
  <2> HIDE DEF h, image
  <2> QED
    BY <2>1, FS_Surjection
<1>2. \A x \in L : x \in Int
  OBVIOUS
<1>3. IsFiniteSet(L)
  <2> HIDE DEF image
  <2>1. L = image \cup {n}
    OBVIOUS
  <2> QED
    BY <1>1, <2>1, FS_AddElement
<1>4. L # {}
  OBVIOUS
<1> HIDE DEF L
<1>5. Max(L) \in L /\ \A y \in L : y <= Max(L)
  BY <1>2, <1>3, <1>4, GreatestOf
<1> QED
  BY <1>2, <1>5 DEF L

\* The minimum a vault must have is above the threshold of its liquidation.
LEMMA MinAboveThreshold ==
    ASSUME PriceTypes, NEW c \in Colls, Configured(c)
    PROVE  /\ HighestOf(config, c) \in Int /\ HighestOf(config, c) > 0
           /\ StrictestMin(c) \in Int /\ HighestOf(config, c) < StrictestMin(c)
<1> DEFINE f == [t \in DOMAIN c |-> config[t].threshold]
           g == [t \in DOMAIN c |-> config[t].min]
<1>1. IsFiniteSet(DOMAIN c) /\ DOMAIN c \in SUBSET Tokens
  BY CollIs
<1>2. \A t \in DOMAIN c : f[t] \in Int /\ g[t] \in Int /\ f[t] < g[t]
  <2> SUFFICES ASSUME NEW t \in DOMAIN c
               PROVE  /\ config[t].threshold \in Int /\ config[t].min \in Int
                      /\ config[t].threshold < config[t].min
    OBVIOUS
  <2>1. t \in Tokens /\ config[t] # NoConfig
    BY <1>1 DEF Configured
  <2> QED
    BY <2>1, PricesAre DEF PriceTypes, ValidConfig, ConfigRecord
<1>3. /\ HighestOf(config, c) = Max({LiquidationThreshold} \cup {f[t] : t \in DOMAIN c})
      /\ StrictestMin(c) = Max({MinCollateralRatio} \cup {g[t] : t \in DOMAIN c})
  <2>1. {config[t].threshold : t \in DOMAIN c} = {f[t] : t \in DOMAIN c}
    OBVIOUS
  <2>2. {config[t].min : t \in DOMAIN c} = {g[t] : t \in DOMAIN c}
    OBVIOUS
  <2> QED
    BY <2>1, <2>2 DEF HighestOf, StrictestMin
<1> HIDE DEF f, g
<1>4. /\ LiquidationThreshold \in Int /\ MinCollateralRatio \in Int
      /\ 0 < LiquidationThreshold /\ LiquidationThreshold < MinCollateralRatio
  BY DEF LiquidationThreshold, MinCollateralRatio
<1> DEFINE L == {LiquidationThreshold} \cup {f[t] : t \in DOMAIN c}
           M == {MinCollateralRatio} \cup {g[t] : t \in DOMAIN c}
<1>5. Max(L) \in L /\ \A y \in L : y <= Max(L) /\ y \in Int
  BY <1>1, <1>2, <1>4, LimitsFinite
<1>6. Max(M) \in M /\ \A y \in M : y <= Max(M) /\ y \in Int
  BY <1>1, <1>2, <1>4, LimitsFinite
<1>5a. LiquidationThreshold \in L /\ MinCollateralRatio \in M /\ \A t \in DOMAIN c : g[t] \in M
  OBVIOUS
<1>5b. Max(L) = LiquidationThreshold \/ \E t \in DOMAIN c : Max(L) = f[t]
  <2>1. Max(L) \in L
    BY <1>5
  <2> QED
    BY <2>1
<1> HIDE DEF L, M
<1>7. Max(L) \in Int /\ Max(L) > 0 /\ Max(M) \in Int
  <2>1. Max(L) \in Int /\ Max(M) \in Int
    BY <1>5, <1>6
  <2>2. LiquidationThreshold <= Max(L)
    BY <1>5, <1>5a
  <2> QED
    BY <1>4, <2>1, <2>2
<1>8. Max(L) < Max(M)
  <2>1. CASE Max(L) = LiquidationThreshold
    BY <1>4, <1>5a, <1>6, <1>7, <2>1
  <2>2. ASSUME NEW t \in DOMAIN c, Max(L) = f[t] PROVE Max(L) < Max(M)
    <3>1. g[t] <= Max(M) /\ f[t] < g[t] /\ g[t] \in Int /\ f[t] \in Int
      BY <1>2, <1>5a, <1>6
    <3> QED
      BY <1>7, <2>2, <3>1
  <2> QED
    BY <1>5b, <2>1, <2>2
<1> QED
  BY <1>3, <1>7, <1>8 DEF L, M

\* Out of danger: the limit times the debt is at most the value.
LEMMA OutOfDanger ==
    ASSUME NEW total \in Int, NEW d \in Nat \ {0}, NEW limit \in Int
    PROVE  (total * BP) \div d >= limit <=> limit * d <= total * BP
<1> DEFINE k == (total * BP) \div d
           v == total * BP
<1>1. k \in Int /\ k * d <= v /\ v < k * d + d /\ v \in Int
  BY Floor DEF BP
<1> HIDE DEF k, v
<1>2. ASSUME k >= limit PROVE limit * d <= v
  <2>1. limit * d <= k * d
    BY <1>1, <1>2
  <2> QED
    BY <1>1, <2>1
<1>3. ASSUME limit * d <= v PROVE k >= limit
  <2> SUFFICES ASSUME k + 1 <= limit PROVE FALSE
    BY <1>1
  <2>1. (k + 1) * d <= limit * d /\ (k + 1) * d = k * d + d
    BY <1>1
  <2>2. k * d \in Int /\ limit * d \in Int
    BY <1>1, IntProducts
  <2> QED
    BY <1>1, <1>3, <2>1, <2>2
<1> QED
  BY <1>1, <1>2, <1>3 DEF k, v

\* The two parts of OwnersAreSafe, for one step.
MarketOnly ==
    \A id \in Open :
       (/\ UNCHANGED <<price, config>>
        /\ HighestThreshold(vault'[id].coll) = HighestThreshold(vault[id].coll)
        /\ ~InDanger(vault[id])) => ~InDanger(vault[id])'

LeavesSafely ==
    \A id \in Open, t \in Tokens :
       CollateralOf(id, t)' < CollateralOf(id, t) =>
          \/ wallet'[t][vault[id].owner] > wallet[t][vault[id].owner]
          \/ /\ ~liqPaused /\ InDanger(vault[id])
             /\ \A s \in DOMAIN vault[id].coll : ~Diverged(s)

DangerInVaults ==
    \A id \in Ids : vault[id].debt \in Int =>
                      (InDanger(vault[id]) <=> DangerOf(price, config, vault[id]))

\* Danger of the vaults of a state in those terms.
LEMMA DangerNow == DangerInVaults
  BY DangerIs DEF DangerInVaults

\* The same of the next state.
LEMMA DangerNext == DangerInVaults'
  BY DangerNow, PTL

\* No vault changed but k.
LEMMA OneSafe ==
    ASSUME VaultInv, VaultInv', NEW k \in Open, NEW r \in VaultRecord,
           \A id \in Open : id # k => vault'[id] = vault[id],
           vault'[k] = r, Open \in SUBSET (Open'),
           /\ HighestOf(config, r.coll) = HighestOf(config, vault[k].coll)
           /\ ~DangerOf(price, config, vault[k])
           => ~DangerOf(price, config, r),
           \A t \in Tokens : Amount(r.coll, t) < CollateralOf(k, t) =>
              \/ wallet'[t][vault[k].owner] > wallet[t][vault[k].owner]
              \/ /\ ~liqPaused /\ InDanger(vault[k])
                 /\ \A s \in DOMAIN vault[k].coll : ~Diverged(s)
    PROVE  MarketOnly /\ LeavesSafely
<1>1. /\ Open \in SUBSET Ids
      /\ \A id \in Open : vault[id].debt \in Int /\ \A t \in Tokens : CollateralOf(id, t) \in Int
  BY OpenAre DEF VaultInv
<1>2. \A id \in Open : vault'[id].debt \in Int
  <2>1. VaultTypes'
    BY DEF VaultInv
  <2> SUFFICES ASSUME NEW id \in Open PROVE vault'[id].debt \in Int
    OBVIOUS
  <2>2. CASE id = k
    BY <2>2 DEF VaultRecord
  <2>3. CASE id # k
    BY <1>1, <2>3
  <2> QED
    BY <2>2, <2>3
<1>3. MarketOnly
  <2> SUFFICES ASSUME NEW id \in Open, UNCHANGED <<price, config>>,
                      HighestThreshold(vault'[id].coll) = HighestThreshold(vault[id].coll),
                      ~InDanger(vault[id])
               PROVE  ~InDanger(vault[id])'
    BY DEF MarketOnly
  <2>1. InDanger(vault[id])' <=> DangerOf(price, config, vault'[id])
    <3>1. InDanger(vault[id])' <=> DangerOf(price', config', vault'[id])
      <4>1. id \in Ids /\ vault'[id].debt \in Int /\ Ids' = Ids
        BY <1>1, <1>2 DEF Ids
      <4> QED
        BY <4>1, DangerNext DEF DangerInVaults
    <3> QED
      BY <3>1
  <2>2. ~DangerOf(price, config, vault[id])
    BY <1>1, DangerIs
  <2>3. HighestOf(config, vault'[id].coll) = HighestOf(config, vault[id].coll)
    BY DEF HighestThreshold, HighestOf
  <2> QED
    BY <2>1, <2>2, <2>3
<1>4. LeavesSafely
  <2> SUFFICES ASSUME NEW id \in Open, NEW t \in Tokens,
                      CollateralOf(id, t)' < CollateralOf(id, t)
               PROVE  \/ wallet'[t][vault[id].owner] > wallet[t][vault[id].owner]
                      \/ /\ ~liqPaused /\ InDanger(vault[id])
                         /\ \A s \in DOMAIN vault[id].coll : ~Diverged(s)
    BY DEF LeavesSafely
  <2>1. CollateralOf(id, t)' = Amount(vault'[id].coll, t)
    BY DEF CollateralOf, Amount
  <2>2. CASE id = k
    BY <2>1, <2>2
  <2>3. CASE id # k
    <3>1. CollateralOf(id, t)' = CollateralOf(id, t) /\ CollateralOf(id, t) \in Int
      BY <1>1, <2>1, <2>3 DEF CollateralOf, Amount
    <3> QED
      BY <3>1
  <2> QED
    BY <2>2, <2>3
<1> QED
  BY <1>3, <1>4

\* No vault changed that there was.
LEMMA VaultsSame ==
    ASSUME VaultInv, VaultInv', \A id \in Open : vault'[id] = vault[id], Open \in SUBSET (Open')
    PROVE  MarketOnly /\ LeavesSafely
<1>1. ASSUME NEW k \in Open PROVE MarketOnly /\ LeavesSafely
  <2>1. /\ vault[k] \in VaultRecord
        /\ \A t \in Tokens : CollateralOf(k, t) \in Int /\ Amount(vault[k].coll, t) = CollateralOf(k, t)
    BY OpenAre DEF VaultInv, Amount, CollateralOf
  <2>2. PICK r \in VaultRecord : r = vault[k] /\ vault'[k] = r
    BY <2>1
  <2>3. \A t \in Tokens : ~ (Amount(r.coll, t) < CollateralOf(k, t))
    BY <2>1, <2>2
  <2>4. DangerOf(price, config, r) <=> DangerOf(price, config, vault[k])
    BY <2>2
  <2> QED
    BY <2>2, <2>3, <2>4, OneSafe
<1>2. Open = {} => MarketOnly /\ LeavesSafely
  BY DEF MarketOnly, LeavesSafely
<1> QED
  BY <1>1, <1>2

\* A smaller debt or a greater value leaves a vault out of danger.
LEMMA FartherFromDanger ==
    ASSUME NEW total \in Int, NEW more \in Int, total <= more,
           NEW d \in Nat \ {0}, NEW e \in Nat \ {0}, e <= d,
           NEW limit \in Nat, (total * BP) \div d >= limit
    PROVE  (more * BP) \div e >= limit
<1>1. limit * d <= total * BP
  BY OutOfDanger
<1>2. limit * e <= limit * d /\ total * BP <= more * BP
  BY DEF BP
<1>3. limit * e \in Int /\ limit * d \in Int /\ total * BP \in Int /\ more * BP \in Int
  BY IntProducts DEF BP
<1>4. limit * e <= more * BP
  BY <1>1, <1>2, <1>3
<1> QED
  BY <1>4, OutOfDanger

\* The value of a position does not fall when none of its amounts does.
LEMMA ValueGrows ==
    ASSUME PriceTypes, NEW c \in Colls, NEW e \in Colls, DOMAIN c \in SUBSET (DOMAIN e),
           \A x \in DOMAIN c : c[x] <= e[x],
           \A x \in DOMAIN e : x \notin DOMAIN c => e[x] >= 0
    PROVE  /\ TotalOf(price, c) \in Int /\ TotalOf(price, e) \in Int
           /\ TotalOf(price, c) <= TotalOf(price, e)
<1> DEFINE f == [x \in DOMAIN c |-> (c[x] * price[x]) \div Scale]
           g == [x \in DOMAIN e |-> (e[x] * price[x]) \div Scale]
           h == [x \in DOMAIN e |-> IF x \in DOMAIN c THEN f[x] ELSE 0]
<1>1. /\ \A x \in DOMAIN c : c[x] \in Int
      /\ \A x \in DOMAIN e : e[x] \in Int /\ price[x] \in Nat \ {0}
      /\ Scale \in Nat \ {0} /\ IsFiniteSet(DOMAIN e)
  <2>1. DOMAIN e \in SUBSET Tokens /\ IsFiniteSet(DOMAIN e) /\ \A x \in DOMAIN e : e[x] \in Int
    BY CollIs
  <2>2. \A x \in DOMAIN c : c[x] \in Int
    BY CollIs
  <2>3. Scale \in Nat \ {0}
    BY VaultAssumption
  <2> QED
    BY <2>1, <2>2, <2>3, PricesAre
<1>2. ASSUME NEW a \in Int, NEW b \in Int, a <= b, NEW p \in Nat \ {0}, NEW n \in Nat \ {0}
      PROVE  /\ (a * p) \div n \in Int /\ (b * p) \div n \in Int
             /\ (a * p) \div n <= (b * p) \div n
  <2> DEFINE v == a * p
             w == b * p
             k == v \div n
             l == w \div n
  <2>1. v \in Int /\ w \in Int /\ v <= w
    BY <1>2
  <2> HIDE DEF v, w
  <2>2. k \in Int /\ k * n <= v /\ l \in Int /\ w < l * n + n
    BY <2>1, Floor
  <2> HIDE DEF k, l
  <2>3. k <= l
    <3> SUFFICES ASSUME l + 1 <= k PROVE FALSE
      BY <2>2
    <3>1. (l + 1) * n <= k * n /\ (l + 1) * n = l * n + n
      BY <2>2
    <3>2. l * n \in Int /\ k * n \in Int
      BY <2>2, IntProducts
    <3> QED
      BY <2>1, <2>2, <3>1, <3>2
  <2> QED
    BY <2>2, <2>3 DEF k, l, v, w
<1>3. \A x \in DOMAIN c : f[x] \in Int /\ g[x] \in Int /\ f[x] <= g[x]
  <2> SUFFICES ASSUME NEW x \in DOMAIN c
               PROVE  /\ (c[x] * price[x]) \div Scale \in Int /\ (e[x] * price[x]) \div Scale \in Int
                      /\ (c[x] * price[x]) \div Scale <= (e[x] * price[x]) \div Scale
    OBVIOUS
  <2>1. c[x] \in Int /\ e[x] \in Int /\ c[x] <= e[x] /\ price[x] \in Nat \ {0} /\ Scale \in Nat \ {0}
    BY <1>1
  <2> QED
    BY <1>2, <2>1
<1>4. \A x \in DOMAIN e : x \notin DOMAIN c => g[x] \in Int /\ 0 <= g[x]
  <2> SUFFICES ASSUME NEW x \in DOMAIN e, x \notin DOMAIN c
               PROVE  (e[x] * price[x]) \div Scale \in Int /\ 0 <= (e[x] * price[x]) \div Scale
    OBVIOUS
  <2>1. 0 \in Int /\ e[x] \in Int /\ 0 <= e[x] /\ price[x] \in Nat \ {0} /\ Scale \in Nat \ {0}
    BY <1>1
  <2>2. /\ (e[x] * price[x]) \div Scale \in Int
        /\ (0 * price[x]) \div Scale <= (e[x] * price[x]) \div Scale
    BY <1>2, <2>1
  <2>3. (0 * price[x]) \div Scale = 0
    BY <2>1
  <2> QED
    BY <2>2, <2>3
<1>4a. DOMAIN f = DOMAIN c /\ DOMAIN g = DOMAIN e
  OBVIOUS
<1> HIDE DEF f, g
<1>5. /\ \A x \in DOMAIN e : h[x] \in Int /\ g[x] \in Int /\ h[x] <= g[x]
      /\ \A x \in DOMAIN c : f[x] \in Int /\ h[x] = f[x]
      /\ \A x \in DOMAIN e \ DOMAIN c : h[x] = 0
  BY <1>3, <1>4
<1> HIDE DEF h
<1>6. SumFunctionOnSet(h, DOMAIN e) = SumFunctionOnSet(f, DOMAIN c)
  BY <1>1, <1>5, SumPadded
<1>7. SumFunctionOnSet(h, DOMAIN e) <= SumFunctionOnSet(g, DOMAIN e)
  BY <1>1, <1>5, SumGrows
<1>8. SumFunctionOnSet(h, DOMAIN e) \in Int /\ SumFunctionOnSet(g, DOMAIN e) \in Int
  BY <1>1, <1>5, SumIsInt
<1>9. /\ TotalOf(price, c) = SumFunctionOnSet(f, DOMAIN c)
      /\ TotalOf(price, e) = SumFunctionOnSet(g, DOMAIN e)
  BY <1>4a, SumOfFunction DEF TotalOf, f, g
<1> QED
  BY <1>6, <1>7, <1>8, <1>9

\* A vault that passes require_healthy_vault is not in danger.
LEMMA HealthyIsSafe ==
    ASSUME PriceTypes, NEW r \in VaultRecord, Configured(r.coll), Healthy(r.coll, r.debt)
    PROVE  ~DangerOf(price, config, r)
<1>1. r.coll \in Colls /\ r.debt \in Int
  BY DEF VaultRecord, Colls
<1>2. /\ HighestOf(config, r.coll) \in Int /\ StrictestMin(r.coll) \in Int
      /\ HighestOf(config, r.coll) < StrictestMin(r.coll)
  BY <1>1, MinAboveThreshold
<1>3. TotalValue(r.coll) = TotalOf(price, r.coll) /\ TotalValue(r.coll) \in Int
  BY <1>1, TotalIsInt DEF TotalValue, Value, TotalOf
<1>4. r.debt > 0 /\ (TotalOf(price, r.coll) * BP) \div r.debt >= StrictestMin(r.coll)
  BY <1>3 DEF Healthy, Ratio
<1>5. (TotalOf(price, r.coll) * BP) \div r.debt \in Int
  <2>1. TotalOf(price, r.coll) * BP \in Int /\ r.debt \in Nat \ {0}
    BY <1>1, <1>3, <1>4, IntProducts DEF BP
  <2> QED
    BY <2>1, Floor
<1> QED
  BY <1>2, <1>4, <1>5 DEF DangerOf

\* OneSafe for the steps that replace one position.
LEMMA ReplacedSafely ==
    ASSUME VaultInv, VaultInv', NEW k \in Open, NEW r \in VaultRecord,
           vault' = [vault EXCEPT ![k] = r],
           /\ HighestOf(config, r.coll) = HighestOf(config, vault[k].coll)
           /\ ~DangerOf(price, config, vault[k])
           => ~DangerOf(price, config, r),
           \A t \in Tokens : Amount(r.coll, t) < CollateralOf(k, t) =>
              \/ wallet'[t][vault[k].owner] > wallet[t][vault[k].owner]
              \/ /\ ~liqPaused /\ InDanger(vault[k])
                 /\ \A s \in DOMAIN vault[k].coll : ~Diverged(s)
    PROVE  MarketOnly /\ LeavesSafely
<1>1. vault \in [Ids -> VaultRecord \cup {NoVault}] /\ r # NoVault
  BY VaultAssumption DEF VaultInv, VaultTypes
<1>2. /\ \A id \in Open : id # k => vault'[id] = vault[id]
      /\ vault'[k] = r
  BY <1>1 DEF Open
<1>3. Open \in SUBSET (Open')
  BY <1>1, <1>2 DEF Open, Ids
<1> QED
  BY <1>2, <1>3, OneSafe

\* Minting leaves its vault out of danger and moves no collateral.
LEMMA MintMoreSafe ==
    ASSUME VaultInv, VaultInv', NEW id \in Ids, NEW minted \in SmtAmounts, MintMore(id, minted)
    PROVE  MarketOnly /\ LeavesSafely
<1> DEFINE r == [vault[id] EXCEPT !.debt = vault[id].debt + minted]
<1>1. /\ id \in Open /\ vault' = [vault EXCEPT ![id] = r]
      /\ Healthy(vault[id].coll, vault[id].debt + minted)
  BY DEF MintMore
<1>2. /\ vault[id] \in VaultRecord /\ vault[id].debt \in Int
      /\ Configured(vault[id].coll) /\ minted \in Int /\ PriceTypes
      /\ \A t \in Tokens : CollateralOf(id, t) \in Int
  <2>1. VaultTypes
    BY DEF VaultInv
  <2>2. Configured(vault[id].coll) /\ PriceTypes
    BY <1>1, <2>1 DEF VaultTypes
  <2>3. minted \in Int
    BY VaultAssumption
  <2> QED
    BY <1>1, <2>1, <2>2, <2>3, OpenAre
<1>3. r \in VaultRecord /\ r.coll = vault[id].coll /\ r.debt = vault[id].debt + minted
  BY <1>2 DEF VaultRecord
<1> HIDE DEF r
<1>4. ~DangerOf(price, config, r)
  BY <1>1, <1>2, <1>3, HealthyIsSafe
<1>5. \A t \in Tokens : ~(Amount(r.coll, t) < CollateralOf(id, t))
  BY <1>2, <1>3 DEF Amount, CollateralOf
<1> QED
  BY <1>1, <1>3, <1>4, <1>5, ReplacedSafely

\* A deposit that endangers its vault is the case the property names.
LEMMA AddCollateralSafe ==
    ASSUME VaultInv, VaultInv', NEW id \in Ids, NEW t \in Tokens, NEW amount \in Deposits,
           AddCollateralToVault(id, t, amount)
    PROVE  MarketOnly /\ LeavesSafely
<1> DEFINE coll == vault[id].coll
           more == With(coll, t, amount)
           r == [vault[id] EXCEPT !.coll = more]
<1>0. VaultTypes /\ PriceTypes
  BY DEF VaultInv, VaultTypes
<1>1. id \in Open /\ vault' = [vault EXCEPT ![id] = r]
  BY DEF AddCollateralToVault
<1>2. /\ vault[id] \in VaultRecord /\ vault[id].debt \in Int /\ coll \in Colls
      /\ amount \in Int /\ 0 < amount
  <2>1. amount \in Int /\ 0 < amount
    BY VaultAssumption
  <2> QED
    BY <1>0, <1>1, <2>1, OpenAre
<1>2a. Configured(coll)
  BY <1>0, <1>1 DEF VaultTypes
<1>3. /\ DOMAIN coll \in SUBSET Tokens /\ \A x \in DOMAIN coll : coll[x] \in Int
      /\ DOMAIN more = DOMAIN coll \cup {t}
      /\ \A x \in DOMAIN more : more[x] = Amount(coll, x) + IF x = t THEN amount ELSE 0
  <2>1. DOMAIN coll \in SUBSET Tokens /\ \A x \in DOMAIN coll : coll[x] \in Int
    BY <1>2, CollIs
  <2> QED
    BY <2>1 DEF With, Amount
<1>4. more \in [DOMAIN coll \cup {t} -> Int]
  <2>1. \A x \in DOMAIN more : more[x] \in Int
    BY <1>2, <1>3 DEF Amount
  <2> QED
    BY <1>3, <2>1 DEF With
<1> HIDE DEF coll, more
<1>5. more \in Colls
  BY <1>3, <1>4, CollsAre
<1>6. /\ DOMAIN coll \in SUBSET (DOMAIN more) /\ \A x \in DOMAIN coll : coll[x] <= more[x]
      /\ \A x \in DOMAIN more : x \notin DOMAIN coll => more[x] >= 0
  BY <1>2, <1>3 DEF Amount
<1>7. /\ TotalOf(price, coll) \in Int /\ TotalOf(price, more) \in Int
      /\ TotalOf(price, coll) <= TotalOf(price, more)
  BY <1>0, <1>2, <1>5, <1>6, ValueGrows
<1>8. /\ r \in VaultRecord /\ r.coll = more /\ r.debt = vault[id].debt
  <2>1. vault[id] \in [owner : Users, debt : Int, coll : Colls]
    BY <1>2 DEF VaultRecord, Colls
  <2> HIDE DEF Colls
  <2>2. r \in [owner : Users, debt : Int, coll : Colls] /\ r.coll = more /\ r.debt = vault[id].debt
    BY <1>5, <2>1
  <2> QED
    BY <2>2 DEF VaultRecord, Colls
<1> HIDE DEF r
<1>9. HighestOf(config, coll) \in Nat
  BY <1>0, <1>2, <1>2a, MinAboveThreshold
<1>10. ASSUME HighestOf(config, more) = HighestOf(config, coll),
              ~DangerOf(price, config, vault[id]), r.debt > 0
       PROVE  ~((TotalOf(price, more) * BP) \div r.debt < HighestOf(config, more))
  <2>1. ~((TotalOf(price, coll) * BP) \div vault[id].debt < HighestOf(config, coll))
    BY <1>8, <1>10 DEF DangerOf, coll
  <2>2. vault[id].debt \in Nat \ {0}
    BY <1>2, <1>8, <1>10
  <2>3. /\ (TotalOf(price, coll) * BP) \div vault[id].debt \in Int
        /\ (TotalOf(price, more) * BP) \div vault[id].debt \in Int
    <3>1. TotalOf(price, coll) * BP \in Int /\ TotalOf(price, more) * BP \in Int
      BY <1>7, IntProducts DEF BP
    <3> QED
      BY <2>2, <3>1, Floor
  <2>4. (TotalOf(price, coll) * BP) \div vault[id].debt >= HighestOf(config, coll)
    BY <1>9, <2>1, <2>3
  <2>5. (TotalOf(price, more) * BP) \div vault[id].debt >= HighestOf(config, coll)
    BY <1>7, <1>9, <2>2, <2>4, FartherFromDanger
  <2> QED
    BY <1>8, <1>9, <1>10, <2>3, <2>5
<1>11. /\ HighestOf(config, r.coll) = HighestOf(config, vault[id].coll)
       /\ ~DangerOf(price, config, vault[id])
       => ~DangerOf(price, config, r)
  BY <1>8, <1>10 DEF DangerOf, coll
<1>12. \A x \in Tokens : ~(Amount(r.coll, x) < CollateralOf(id, x))
  <2> SUFFICES ASSUME NEW x \in Tokens PROVE ~(Amount(more, x) < Amount(coll, x))
    BY <1>8 DEF Amount, CollateralOf, coll
  <2> QED
    BY <1>2, <1>3 DEF Amount
<1> QED
  BY <1>1, <1>8, <1>11, <1>12, ReplacedSafely

\* A liquidation needs a vault in danger.
LEMMA LiquidateSafe ==
    ASSUME VaultInv, VaultInv', NEW id \in Ids, NEW u \in Users, NEW covered \in SmtAmounts,
           Liquidate(id, u, covered)
    PROVE  MarketOnly /\ LeavesSafely
<1> DEFINE r == [Repaid(vault[id], covered) EXCEPT !.coll = AfterSeizure(vault[id].coll, covered)]
<1>1. /\ id \in Open /\ vault' = [vault EXCEPT ![id] = r] /\ ~liqPaused
      /\ covered <= vault[id].debt /\ Aligned(vault[id].coll) /\ Liquidatable(vault[id])
  BY DEF Liquidate
<1>2. vault[id].debt \in Int /\ covered \in Int /\ 0 < covered
  <2>1. vault[id].debt \in Int
    BY <1>1, OpenAre DEF VaultInv
  <2> QED
    BY <2>1, VaultAssumption
<1>3. InDanger(vault[id]) /\ DangerOf(price, config, vault[id])
  BY <1>1, <1>2, DangerIs DEF InDanger
<1>4. \A s \in DOMAIN vault[id].coll : ~Diverged(s)
  BY <1>1 DEF Aligned
<1>5. vault'[id] = r /\ id \in Open'
  <2>1. vault \in [Ids -> VaultRecord \cup {NoVault}]
    BY DEF VaultInv, VaultTypes
  <2>2. vault'[id] = r
    BY <1>1, <2>1
  <2>3. counter' = counter
    BY DEF Liquidate
  <2>4. id <= counter'
    BY <1>1, <2>3 DEF VaultInv, VaultTypes, Open
  <2>5. vault'[id] # NoVault
    BY <2>4 DEF VaultInv, VaultTypes, Ids
  <2> QED
    BY <2>2, <2>5 DEF Open, Ids
<1>6. r \in VaultRecord
  <2>1. vault' \in [Ids -> VaultRecord \cup {NoVault}] /\ vault'[id] # NoVault
    BY <1>5 DEF VaultInv, VaultTypes, Open, Ids, VaultRecord
  <2>2. vault'[id] \in VaultRecord
    BY <2>1
  <2> QED
    BY <1>5, <2>2
<1> HIDE DEF r
<1> QED
  BY <1>1, <1>3, <1>4, <1>6, ReplacedSafely

\* Collateral leaves a vault that is healthy after it.
LEMMA WithdrawSafe ==
    ASSUME VaultInv, VaultInv', NEW id \in Ids, NEW t \in Tokens,
           NEW repay \in SmtAmounts \cup {0}, NEW amount \in Deposits \cup {0},
           RepayAndWithdraw(id, repay, t, amount)
    PROVE  MarketOnly /\ LeavesSafely
<1> DEFINE coll == vault[id].coll
           u == vault[id].owner
<1>0. VaultTypes /\ PriceTypes
  BY DEF VaultInv, VaultTypes
<1>1. id \in Open
  BY DEF RepayAndWithdraw
<1>2. /\ vault[id] \in VaultRecord /\ u \in Users /\ vault[id].debt \in Int /\ coll \in Colls
      /\ amount \in Nat /\ repay \in Nat
  <2>1. amount \in Nat /\ repay \in Nat
    BY VaultAssumption
  <2> QED
    BY <1>0, <1>1, <2>1, OpenAre
<1>2a. Configured(coll)
  BY <1>0, <1>1 DEF VaultTypes
<1>2b. \A x \in Tokens : CollateralOf(id, x) \in Int /\ Amount(coll, x) = CollateralOf(id, x)
  BY <1>0, <1>1, OpenAre DEF Amount, CollateralOf
<1>2c. vault[id] \in [owner : Users, debt : Int, coll : Colls]
  BY <1>2 DEF VaultRecord, Colls
<1>3. CASE amount = 0
  <2> DEFINE r == [vault[id] EXCEPT !.debt = vault[id].debt - repay]
  <2>1. vault' = [vault EXCEPT ![id] = r]
    BY <1>3 DEF RepayAndWithdraw, Repaid
  <2>2. r \in VaultRecord /\ r.coll = coll /\ r.debt = vault[id].debt - repay
    BY <1>2 DEF VaultRecord
  <2> HIDE DEF r
  <2>3. HighestOf(config, coll) \in Nat /\ TotalOf(price, coll) \in Int
    <3>1. HighestOf(config, coll) \in Nat
      BY <1>0, <1>2, <1>2a, MinAboveThreshold
    <3>2. TotalValue(coll) \in Int /\ TotalValue(coll) = TotalOf(price, coll)
      BY <1>0, <1>2, TotalIsInt DEF TotalValue, Value, TotalOf
    <3> QED
      BY <3>1, <3>2
  <2>4. ~DangerOf(price, config, vault[id]) => ~DangerOf(price, config, r)
    <3> SUFFICES ASSUME ~DangerOf(price, config, vault[id]), r.debt > 0
                 PROVE  ~((TotalOf(price, coll) * BP) \div r.debt < HighestOf(config, coll))
      BY <2>2 DEF DangerOf
    <3>1. vault[id].debt \in Nat \ {0} /\ r.debt \in Nat \ {0} /\ r.debt <= vault[id].debt
      BY <1>2, <2>2
    <3>2. /\ (TotalOf(price, coll) * BP) \div vault[id].debt \in Int
          /\ (TotalOf(price, coll) * BP) \div r.debt \in Int
      <4>1. TotalOf(price, coll) * BP \in Int
        BY <2>3, IntProducts DEF BP
      <4> QED
        BY <3>1, <4>1, Floor
    <3>3. (TotalOf(price, coll) * BP) \div vault[id].debt >= HighestOf(config, coll)
      <4>1. ~((TotalOf(price, coll) * BP) \div vault[id].debt < HighestOf(config, coll))
        BY <3>1 DEF DangerOf
      <4> QED
        BY <2>3, <3>2, <4>1
    <3>4. TotalOf(price, coll) <= TotalOf(price, coll)
      BY <2>3
    <3>5. (TotalOf(price, coll) * BP) \div r.debt >= HighestOf(config, coll)
      BY <2>3, <3>1, <3>3, <3>4, FartherFromDanger
    <3> QED
      BY <2>3, <3>2, <3>5
  <2>5. \A x \in Tokens : ~(Amount(r.coll, x) < CollateralOf(id, x))
    BY <1>2b, <2>2
  <2> QED
    BY <1>1, <2>1, <2>2, <2>4, <2>5, ReplacedSafely
<1>4. CASE amount # 0
  <2> DEFINE less == [coll EXCEPT ![t] = coll[t] - amount]
             r == [[vault[id] EXCEPT !.debt = vault[id].debt - repay] EXCEPT !.coll = less]
  <2>1. /\ t \in DOMAIN coll /\ vault' = [vault EXCEPT ![id] = r]
        /\ vault[id].debt - repay > 0 => Healthy(less, vault[id].debt - repay)
        /\ wallet' = [wallet EXCEPT ![t][u] = wallet[t][u] + amount]
    <3>1. Repaid(vault[id], repay).debt = vault[id].debt - repay
      BY <1>2 DEF Repaid, VaultRecord
    <3> QED
      BY <1>4, <3>1 DEF RepayAndWithdraw, Repaid, Without
  <2>2. less \in Colls /\ DOMAIN less = DOMAIN coll
    <3>1. DOMAIN coll \in SUBSET Tokens /\ coll \in [DOMAIN coll -> Int] /\ coll[t] - amount \in Int
      BY <1>2, <2>1, CollIs
    <3>2. less \in [DOMAIN coll -> Int]
      BY <3>1
    <3> QED
      BY <3>1, <3>2, CollsAre
  <2>2a. \A x \in Tokens : x # t => Amount(less, x) = Amount(coll, x)
    BY <2>2 DEF Amount
  <2> HIDE DEF less, coll
  <2>3. r \in VaultRecord /\ r.coll = less /\ r.debt = vault[id].debt - repay
    <3>1. vault[id].debt - repay \in Int
      BY <1>2
    <3> HIDE DEF Colls
    <3>2. /\ r \in [owner : Users, debt : Int, coll : Colls] /\ r.coll = less
          /\ r.debt = vault[id].debt - repay
      BY <1>2c, <2>2, <3>1
    <3> QED
      BY <3>2 DEF VaultRecord, Colls
  <2> HIDE DEF r
  <2>4. Configured(r.coll)
    BY <1>2a, <2>2, <2>3 DEF Configured
  <2>5. ~DangerOf(price, config, r)
    <3>1. CASE r.debt > 0
      <4>1. Healthy(r.coll, r.debt)
        BY <2>1, <2>3, <3>1
      <4> QED
        BY <1>0, <2>3, <2>4, <4>1, HealthyIsSafe
    <3>2. CASE ~(r.debt > 0)
      BY <3>2 DEF DangerOf
    <3> QED
      BY <3>1, <3>2
  <2>6. wallet'[t][u] > wallet[t][u]
    <3>1. wallet \in [Tokens -> [Users -> Int]]
      BY <1>0 DEF VaultTypes
    <3>2. wallet'[t][u] = wallet[t][u] + amount /\ wallet[t][u] \in Int
      BY <1>2, <2>1, <3>1
    <3> QED
      BY <1>2, <1>4, <3>2
  <2>7. \A x \in Tokens : Amount(r.coll, x) < CollateralOf(id, x) =>
            wallet'[x][vault[id].owner] > wallet[x][vault[id].owner]
    <3> SUFFICES ASSUME NEW x \in Tokens, Amount(r.coll, x) < CollateralOf(id, x)
                 PROVE  wallet'[x][vault[id].owner] > wallet[x][vault[id].owner]
      OBVIOUS
    <3>1. CASE x = t
      BY <2>6, <3>1
    <3>2. CASE x # t
      BY <1>2b, <2>2a, <2>3, <3>2
    <3> QED
      BY <3>1, <3>2
  <2> QED
    BY <1>1, <2>1, <2>3, <2>5, <2>7, ReplacedSafely
<1> QED
  BY <1>3, <1>4

\* A new vault leaves the others alone.
LEMMA DepositSafe ==
    ASSUME VaultInv, VaultInv', NEW u \in Users, NEW t \in Tokens, NEW amount \in Deposits,
           NEW minted \in SmtAmounts, DepositAndMint(u, t, amount, minted)
    PROVE  MarketOnly /\ LeavesSafely
<1>1. /\ counter < MaxVaults /\ counter' = counter + 1
      /\ \E r : vault' = [vault EXCEPT ![counter + 1] = r]
  BY DEF DepositAndMint
<1>2. PICK r : vault' = [vault EXCEPT ![counter + 1] = r]
  BY <1>1
<1>3. /\ counter \in Nat /\ MaxVaults \in Nat
      /\ vault \in [Ids -> VaultRecord \cup {NoVault}]
      /\ \A id \in Ids : vault[id] # NoVault <=> id <= counter
  BY VaultAssumption DEF VaultInv, VaultTypes
<1>4. \A id \in Open : id \in Ids /\ id # counter + 1 /\ id <= counter
  BY <1>3 DEF Open, Ids
<1>5. \A id \in Open : vault'[id] = vault[id]
  BY <1>2, <1>3, <1>4
<1>6. Open \in SUBSET (Open')
  BY <1>4, <1>5 DEF Open, Ids
<1> QED
  BY <1>5, <1>6, VaultsSame

\* What leaves the vaults alone endangers one by the market only.
LEMMA OthersSafe ==
    ASSUME VaultInv, VaultInv', vault' = vault
    PROVE  MarketOnly /\ LeavesSafely
<1>1. Open' = Open
  BY DEF Open, Ids
<1> QED
  BY <1>1, VaultsSame

\* Every entry point keeps owners safe.
LEMMA StepIsSafe ==
    ASSUME VaultInv, VaultInv', [Next]_vars
    PROVE  MarketOnly /\ LeavesSafely
<1>1. ASSUME UNCHANGED vars PROVE MarketOnly /\ LeavesSafely
  BY <1>1, OthersSafe DEF vars, funds
<1>2. ASSUME NEW b \in BOOLEAN, SetTwapOracle(b) \/ SetLiquidationsPaused(b)
      PROVE  MarketOnly /\ LeavesSafely
  BY <1>2, OthersSafe DEF SetTwapOracle, SetLiquidationsPaused, funds
<1>3. ASSUME NEW t \in Tokens, TripOracleCircuitBreaker(t) PROVE MarketOnly /\ LeavesSafely
  BY <1>3, OthersSafe DEF TripOracleCircuitBreaker, funds
<1>4. ASSUME NEW t \in Tokens, NEW p \in TwapPrices, SetTwap(t, p)
      PROVE  MarketOnly /\ LeavesSafely
  BY <1>4, OthersSafe DEF SetTwap, funds
<1>5. ASSUME NEW t \in Tokens, NEW p \in Prices, SetPrice(t, p)
      PROVE  MarketOnly /\ LeavesSafely
  BY <1>5, OthersSafe DEF SetPrice, funds
<1>6. ASSUME NEW t \in Tokens, NEW c \in Configs, SetCollateralConfig(t, c)
      PROVE  MarketOnly /\ LeavesSafely
  BY <1>6, OthersSafe DEF SetCollateralConfig, funds
<1>7. ASSUME NEW u \in Users, NEW w \in Users, NEW amount \in SmtAmounts,
             TransferSmt(u, w, amount)
      PROVE  MarketOnly /\ LeavesSafely
  BY <1>7, OthersSafe DEF TransferSmt
<1> QED
  BY <1>1, <1>2, <1>3, <1>4, <1>5, <1>6, <1>7, DepositSafe, AddCollateralSafe, MintMoreSafe,
     WithdrawSafe, LiquidateSafe DEF Next

\* For any users, collaterals, prices and limits: nothing but the market (or a
\* stricter collateral of the owner's own) makes a vault liquidatable, and
\* collateral leaves a vault to its owner or by a liquidation that found the
\* vault in danger, the oracles aligned and liquidations open (lib.rs:284-541).
THEOREM OwnersKeepVaults == Spec => OwnersAreSafe
<1>1. Spec => []VaultInv
  <2>1. VaultInv /\ [Next]_vars => VaultInv'
    BY VaultStep
  <2>2. Init => VaultInv
    BY VaultStarts
  <2> QED
    BY <2>1, <2>2, PTL DEF Spec
<1>2. VaultInv /\ VaultInv' /\ [Next]_vars =>
         \A id \in Open :
            (/\ UNCHANGED <<price, config>>
             /\ HighestThreshold(vault'[id].coll) = HighestThreshold(vault[id].coll)
             /\ ~InDanger(vault[id])) => ~InDanger(vault[id])'
  BY StepIsSafe DEF MarketOnly
<1>3. VaultInv /\ VaultInv' /\ [Next]_vars =>
         \A id \in Open, t \in Tokens :
            CollateralOf(id, t)' < CollateralOf(id, t) =>
               \/ wallet'[t][vault[id].owner] > wallet[t][vault[id].owner]
               \/ /\ ~liqPaused /\ InDanger(vault[id])
                  /\ \A s \in DOMAIN vault[id].coll : ~Diverged(s)
  BY StepIsSafe DEF LeavesSafely
<1>4. Spec => OnlyMarketEndangers
  BY <1>1, <1>2, PTL DEF Spec, OnlyMarketEndangers
<1>5. Spec => CollateralLeavesSafely
  BY <1>1, <1>3, PTL DEF Spec, CollateralLeavesSafely
<1> QED
  BY <1>4, <1>5 DEF OwnersAreSafe

-----------------------------------------------------------------------------
(* The server's mirror of a vault.                                           *)

MirrorSpec == MirrorInit /\ [][MirrorNext]_mirrorVars

Entries == [token : Collaterals, amount : Int]
Documents ==
    [debt : Int, status : {"active", "closed", "liquidated"},
     collaterals : Seq(Entries), version : Nat]

MirrorTypes ==
    /\ mirror \in SUBSET Documents /\ \A c, d \in mirror : c = d
    /\ request \in [VaultRequests -> [pc : {"idle", "simulated", "read", "done"},
                                      ask : SUBSET Asks, doc : SUBSET Documents]]
    /\ owed \in Int /\ deposited \in [Collaterals -> Int] /\ overlapped \in BOOLEAN

\* Without an overlap every request has read what is stored, and before the
\* vault is created there is nothing to read.
ReadIsStored ==
    /\ \A r \in VaultRequests : At(r) = "read" =>
          \A ask \in request[r].ask : ask.op # "create"
    /\ mirror = {} =>
          /\ owed = 0 /\ \A t \in Collaterals : deposited[t] = 0
          /\ \A r \in VaultRequests : At(r) # "read"
    /\ ~overlapped => \A r \in VaultRequests : At(r) = "read" => request[r].doc = mirror

MirrorInv == MirrorTypes /\ ReadIsStored /\ MirrorOffOnlyByOverlap

\* What a list of entries holds of a token.
HeldOf(cs, t) ==
    SumFunction([i \in DOMAIN cs |-> IF cs[i].token = t THEN cs[i].amount ELSE 0])

\* The collateral entries of a document are a finite list, and what it holds of a token
\* an integer.
LEMMA EntriesAre ==
    ASSUME NEW cs \in Seq(Entries)
    PROVE  /\ DOMAIN cs = 1 .. Len(cs) /\ IsFiniteSet(DOMAIN cs) /\ Len(cs) \in Nat
           /\ \A i \in DOMAIN cs : cs[i] \in Entries /\ cs[i].token \in Collaterals
                                   /\ cs[i].amount \in Int
           /\ \A t : HeldOf(cs, t) \in Int
<1>1. DOMAIN cs = 1 .. Len(cs) /\ Len(cs) \in Nat
  OBVIOUS
<1>2. IsFiniteSet(1 .. Len(cs))
  BY <1>1, FS_Interval
<1>3. \A i \in DOMAIN cs : cs[i] \in Entries /\ cs[i].token \in Collaterals /\ cs[i].amount \in Int
  <2>1. \A i \in 1 .. Len(cs) : cs[i] \in Entries
    OBVIOUS
  <2> QED
    BY <1>1, <2>1 DEF Entries
<1>4. ASSUME NEW t PROVE HeldOf(cs, t) \in Int
  <2> DEFINE f == [i \in DOMAIN cs |-> IF cs[i].token = t THEN cs[i].amount ELSE 0]
  <2>1. f \in [DOMAIN cs -> Int]
    BY <1>3
  <2> HIDE DEF f
  <2>2. SumFunction(f) \in Int
    BY <1>1, <1>2, <2>1, SumFunctionIsInt
  <2> QED
    BY <2>2 DEF HeldOf, f
<1> QED
  BY <1>1, <1>2, <1>3, <1>4

\* Changing the amount of one entry changes what is held of its token by as much.
LEMMA EntryChanged ==
    ASSUME NEW cs \in Seq(Entries), NEW i \in DOMAIN cs, NEW n \in Int
    PROVE  LET ds == [cs EXCEPT ![i].amount = n]
           IN  /\ ds \in Seq(Entries)
               /\ \A t : HeldOf(ds, t) =
                            HeldOf(cs, t) + IF cs[i].token = t THEN n - cs[i].amount ELSE 0
<1> DEFINE e == [cs[i] EXCEPT !.amount = n]
           ds == [cs EXCEPT ![i] = e]
<1>1. e \in Entries /\ e.token = cs[i].token /\ e.amount = n
  BY EntriesAre DEF Entries
<1> HIDE DEF e
<1>2. ds \in Seq(Entries) /\ DOMAIN ds = DOMAIN cs
  BY <1>1
<1>3. ASSUME NEW t
      PROVE  HeldOf(ds, t) = HeldOf(cs, t) + IF cs[i].token = t THEN n - cs[i].amount ELSE 0
  <2> DEFINE f == [x \in DOMAIN cs |-> IF cs[x].token = t THEN cs[x].amount ELSE 0]
             g == [x \in DOMAIN ds |-> IF ds[x].token = t THEN ds[x].amount ELSE 0]
             v == IF cs[i].token = t THEN n ELSE 0
  <2>1. f \in [DOMAIN cs -> Int] /\ v \in Int /\ f[i] = IF cs[i].token = t THEN cs[i].amount ELSE 0
    BY EntriesAre
  <2>2. g = [f EXCEPT ![i] = v]
    BY <1>1, <1>2
  <2>3. HeldOf(cs, t) = SumFunction(f) /\ HeldOf(ds, t) = SumFunction(g)
    BY DEF HeldOf
  <2>3a. v = IF cs[i].token = t THEN n ELSE 0
    OBVIOUS
  <2> HIDE DEF f, g, v
  <2>4. IsFiniteSet(DOMAIN cs)
    BY EntriesAre
  <2>5. SumFunction([f EXCEPT ![i] = v]) = SumFunction(f) - f[i] + v /\ SumFunction(f) \in Int
    BY <2>1, <2>4, SumOfExcept, SumFunctionIsInt
  <2>6. cs[i].amount \in Int
    BY EntriesAre
  <2>7. CASE cs[i].token = t
    BY <2>1, <2>2, <2>3, <2>3a, <2>5, <2>6, <2>7
  <2>8. CASE cs[i].token # t
    BY <2>1, <2>2, <2>3, <2>3a, <2>5, <2>6, <2>8
  <2> QED
    BY <2>7, <2>8
<1> QED
  BY <1>2, <1>3 DEF e

\* An appended entry adds its amount to its token.
LEMMA EntryAppended ==
    ASSUME NEW cs \in Seq(Entries), NEW e \in Entries
    PROVE  /\ Append(cs, e) \in Seq(Entries)
           /\ \A t : HeldOf(Append(cs, e), t) =
                        HeldOf(cs, t) + IF e.token = t THEN e.amount ELSE 0
<1> DEFINE ds == Append(cs, e)
           n == Len(cs) + 1
<1>1. /\ ds \in Seq(Entries) /\ DOMAIN ds = DOMAIN cs \cup {n} /\ n \notin DOMAIN cs
      /\ ds[n] = e /\ \A i \in DOMAIN cs : ds[i] = cs[i]
  BY EntriesAre
<1> HIDE DEF ds, n
<1>2. ASSUME NEW t
      PROVE  HeldOf(ds, t) = HeldOf(cs, t) + IF e.token = t THEN e.amount ELSE 0
  <2> DEFINE f == [x \in DOMAIN cs |-> IF cs[x].token = t THEN cs[x].amount ELSE 0]
             g == [x \in DOMAIN ds |-> IF ds[x].token = t THEN ds[x].amount ELSE 0]
             v == IF e.token = t THEN e.amount ELSE 0
  <2>1. /\ \A x \in DOMAIN cs : f[x] \in Int /\ g[x] = f[x]
        /\ g[n] = v /\ v \in Int /\ IsFiniteSet(DOMAIN cs)
    <3>1. e.amount \in Int
      BY DEF Entries
    <3>2. \A x \in DOMAIN cs : cs[x].amount \in Int
      BY EntriesAre
    <3>3. \A x \in DOMAIN cs : f[x] \in Int /\ g[x] = f[x]
      BY <1>1, <3>2
    <3> QED
      BY <1>1, <3>1, <3>3, EntriesAre
  <2>2. HeldOf(cs, t) = SumFunction(f) /\ HeldOf(ds, t) = SumFunction(g)
        /\ DOMAIN f = DOMAIN cs /\ DOMAIN g = DOMAIN cs \cup {n}
    BY <1>1 DEF HeldOf
  <2> HIDE DEF f, g
  <2>3. SumFunctionOnSet(g, DOMAIN cs \cup {n}) = g[n] + SumFunctionOnSet(g, DOMAIN cs)
    <3>1. \A x \in DOMAIN cs \cup {n} : g[x] \in Int
      BY <2>1
    <3> QED
      BY <1>1, <2>1, <3>1, SumWith
  <2>4. SumFunctionOnSet(g, DOMAIN cs) = SumFunctionOnSet(f, DOMAIN cs)
    BY <2>1, SumSame
  <2>5. SumFunctionOnSet(f, DOMAIN cs) \in Int
    BY <2>1, SumIsInt
  <2>6. SumFunction(f) = SumFunctionOnSet(f, DOMAIN cs)
        /\ SumFunction(g) = SumFunctionOnSet(g, DOMAIN cs \cup {n})
    BY <2>2, SumOfFunction
  <2> QED
    BY <2>1, <2>2, <2>3, <2>4, <2>5, <2>6
<1> QED
  BY <1>1, <1>2 DEF ds

\* The entry a request finds is one of its token.
LEMMA EntryIs ==
    ASSUME NEW ask \in Asks, NEW d \in Documents, Entry(ask, d) > 0
    PROVE  /\ Entry(ask, d) \in DOMAIN d.collaterals
           /\ d.collaterals[Entry(ask, d)].token = ask.token
<1> DEFINE found == {i \in DOMAIN d.collaterals : d.collaterals[i].token = ask.token}
<1>1. found # {} /\ Entry(ask, d) = Min(found)
  BY DEF Entry
<1>2. d.collaterals \in Seq(Entries)
  BY DEF Documents
<1>3. /\ IsFiniteSet(DOMAIN d.collaterals) /\ found \in SUBSET (DOMAIN d.collaterals)
      /\ \A i \in DOMAIN d.collaterals : i \in Int
  BY <1>2, EntriesAre
<1>4. IsFiniteSet(found) /\ \A i \in found : i \in Int
  BY <1>3, FS_Subset
<1> HIDE DEF found
<1>5. \E i \in found : \A j \in found : i <= j
  BY <1>1, <1>4, LeastExists
<1>6. Min(found) \in found
  BY <1>5 DEF Min
<1> QED
  BY <1>1, <1>6 DEF found

\* What a request is.
LEMMA AskIs ==
    ASSUME NEW ask \in Asks
    PROVE  /\ ask.op \in Ops /\ ask.debt \in Nat /\ ask.amount \in Nat
           /\ ask.token \in Collaterals /\ Moved(ask) \in Int
           /\ ask.op = "add" => ask.debt = 0 /\ Moved(ask) > 0
  BY VaultMirrorAssumption DEF Asks, Moved, Ops

\* What a save makes of the collaterals of the document that was read.
LEMMA CollateralsSaved ==
    ASSUME NEW ask \in Asks, NEW d \in Documents
    PROVE  /\ NewCollaterals(ask, d, d) \in Seq(Entries)
           /\ \A t : HeldOf(NewCollaterals(ask, d, d), t) = HeldOf(d.collaterals, t) +
                IF (ask.op = "add" \/ Entry(ask, d) > 0) /\ ask.token = t THEN Moved(ask) ELSE 0
<1> DEFINE cs == d.collaterals
<1>1. cs \in Seq(Entries) /\ \A t : HeldOf(cs, t) \in Int
  <2>1. cs \in Seq(Entries)
    BY DEF Documents
  <2> QED
    BY <2>1, EntriesAre
<1>2. Moved(ask) \in Int /\ (ask.op = "add" => Moved(ask) > 0)
      /\ ask.token \in Collaterals /\ ask.amount \in Int
      /\ (ask.op = "add" => Moved(ask) = ask.amount)
  BY AskIs DEF Moved
<1>2a. Entry(ask, d) = 0 \/ Entry(ask, d) > 0
  <2> DEFINE found == {i \in DOMAIN d.collaterals : d.collaterals[i].token = ask.token}
  <2>1. CASE found = {}
    BY <2>1 DEF Entry
  <2>2. CASE found # {}
    <3>1. /\ IsFiniteSet(DOMAIN cs) /\ found \in SUBSET (DOMAIN cs)
          /\ \A i \in DOMAIN cs : i \in Int /\ i > 0
      BY <1>1, EntriesAre
    <3>2. IsFiniteSet(found) /\ \A i \in found : i \in Int /\ i > 0
      BY <3>1, FS_Subset
    <3>3. Entry(ask, d) = Min(found)
      BY <2>2 DEF Entry
    <3> HIDE DEF found
    <3>4. \E i \in found : \A j \in found : i <= j
      BY <2>2, <3>2, LeastExists
    <3>5. Min(found) \in found
      BY <3>4 DEF Min
    <3> QED
      BY <3>2, <3>3, <3>5
  <2> QED
    BY <2>1, <2>2
<1> HIDE DEF cs
<1>3. CASE Moved(ask) = 0
  <2>1. NewCollaterals(ask, d, d) = cs
    BY <1>2, <1>3 DEF NewCollaterals, cs
  <2> QED
    BY <1>1, <1>3, <2>1 DEF cs
<1>4. CASE Moved(ask) # 0 /\ Entry(ask, d) > 0
  <2> DEFINE i == Entry(ask, d)
             n == cs[i].amount + Moved(ask)
  <2>1. i \in DOMAIN cs /\ cs[i].token = ask.token /\ cs[i].amount \in Int
    BY <1>1, <1>4, EntryIs, EntriesAre DEF cs
  <2>2. NewCollaterals(ask, d, d) = [cs EXCEPT ![i].amount = n]
    BY <1>4 DEF NewCollaterals, cs
  <2>3. n \in Int /\ n - cs[i].amount = Moved(ask)
    BY <1>2, <2>1
  <2> HIDE DEF i, n
  <2>4. /\ [cs EXCEPT ![i].amount = n] \in Seq(Entries)
        /\ \A t : HeldOf([cs EXCEPT ![i].amount = n], t) =
                     HeldOf(cs, t) + IF cs[i].token = t THEN n - cs[i].amount ELSE 0
    BY <1>1, <2>1, <2>3, EntryChanged
  <2> QED
    BY <1>4, <2>1, <2>2, <2>3, <2>4 DEF cs
<1>5. CASE Moved(ask) # 0 /\ Entry(ask, d) = 0 /\ ask.op = "add"
  <2> DEFINE e == [token |-> ask.token, amount |-> ask.amount]
  <2>1. NewCollaterals(ask, d, d) = Append(cs, e)
    BY <1>5 DEF NewCollaterals, cs
  <2>2. e \in Entries /\ e.token = ask.token /\ e.amount = Moved(ask)
    BY <1>2, <1>5 DEF Entries
  <2> HIDE DEF e
  <2>3. /\ Append(cs, e) \in Seq(Entries)
        /\ \A t : HeldOf(Append(cs, e), t) =
                     HeldOf(cs, t) + IF e.token = t THEN e.amount ELSE 0
    BY <1>1, <2>2, EntryAppended
  <2> QED
    BY <1>5, <2>1, <2>2, <2>3 DEF cs
<1>6. CASE Moved(ask) # 0 /\ Entry(ask, d) = 0 /\ ask.op # "add"
  <2>1. NewCollaterals(ask, d, d) = cs
    BY <1>6 DEF NewCollaterals, cs
  <2> QED
    BY <1>1, <1>6, <2>1 DEF cs
<1> QED
  BY <1>2a, <1>3, <1>4, <1>5, <1>6

\* Steps that save nothing.
LEMMA MirrorQuiet ==
    ASSUME MirrorInv, NEW r \in VaultRequests,
           UNCHANGED <<mirror, owed, deposited, overlapped>>,
           NEW n \in [pc : {"idle", "simulated", "read", "done"},
                      ask : SUBSET Asks, doc : SUBSET Documents],
           request' = [request EXCEPT ![r] = n],
           n.pc = "read" => /\ mirror # {} /\ n.doc = mirror
                            /\ \A ask \in n.ask : ask.op # "create"
    PROVE  MirrorInv'
<1>1. /\ request'[r] = n /\ \A x \in VaultRequests : x # r => request'[x] = request[x]
      /\ MirrorTypes'
  BY DEF MirrorInv, MirrorTypes
<1>2. ReadIsStored'
  BY <1>1 DEF MirrorInv, ReadIsStored, At
<1>3. MirrorOffOnlyByOverlap'
  BY DEF MirrorInv, MirrorOffOnlyByOverlap, InMirror
<1> QED
  BY <1>1, <1>2, <1>3 DEF MirrorInv

\* A created document holds what was asked for.
LEMMA SaveNewStep ==
    ASSUME MirrorInv, NEW r \in VaultRequests, NEW ask \in request[r].ask, SaveNew(r, ask)
    PROVE  MirrorInv'
<1> DEFINE n == [request[r] EXCEPT !.pc = "done"]
<1>0. MirrorTypes /\ ReadIsStored
  BY DEF MirrorInv
<1>1. /\ request' = [request EXCEPT ![r] = n] /\ overlapped' = overlapped
      /\ n \in [pc : {"idle", "simulated", "read", "done"},
                ask : SUBSET Asks, doc : SUBSET Documents]
      /\ n.pc = "done" /\ ask \in Asks
  <2>1. request[r] \in [pc : {"idle", "simulated", "read", "done"},
                        ask : SUBSET Asks, doc : SUBSET Documents]
    BY <1>0 DEF MirrorTypes
  <2> QED
    BY <2>1 DEF SaveNew, Goes
<1> HIDE DEF n
<1>2. CASE UNCHANGED <<mirror, owed, deposited>>
  BY <1>1, <1>2, MirrorQuiet
<1>3. CASE /\ mirror = {} /\ owed' = ask.debt
           /\ mirror' = {[debt |-> ask.debt, status |-> "active", version |-> 0,
                          collaterals |-> <<[token |-> ask.token, amount |-> ask.amount]>>]}
           /\ deposited' = [deposited EXCEPT ![ask.token] = ask.amount]
  <2> DEFINE e == [token |-> ask.token, amount |-> ask.amount]
             none == << >>
             d == [debt |-> ask.debt, status |-> "active", version |-> 0,
                   collaterals |-> Append(none, e)]
  <2>1. mirror' = {d}
    BY <1>3
  <2>2. e \in Entries /\ e.token = ask.token /\ e.amount = ask.amount
        /\ ask.debt \in Int /\ ask.amount \in Int /\ ask.token \in Collaterals
    BY <1>1, AskIs DEF Entries
  <2>3. none \in Seq(Entries) /\ DOMAIN none = {}
    OBVIOUS
  <2> HIDE DEF e, none
  <2>4. /\ Append(none, e) \in Seq(Entries)
        /\ \A t : HeldOf(Append(none, e), t) =
                     HeldOf(none, t) + IF e.token = t THEN e.amount ELSE 0
    BY <2>2, <2>3, EntryAppended
  <2>5. \A t : HeldOf(none, t) = 0
    <3> SUFFICES ASSUME NEW t PROVE HeldOf(none, t) = 0
      OBVIOUS
    <3> DEFINE f == [i \in DOMAIN none |-> IF none[i].token = t THEN none[i].amount ELSE 0]
    <3>1. DOMAIN f = {}
      BY <2>3
    <3> HIDE DEF f
    <3>2. SumFunction(f) = 0
      BY <3>1, SumOfFunction, SumEmpty
    <3> QED
      BY <3>2 DEF HeldOf, f
  <2>6. d \in Documents /\ d.debt = ask.debt /\ d.collaterals = Append(none, e)
    BY <2>2, <2>4 DEF Documents
  <2> HIDE DEF d
  <2>7. /\ deposited' \in [Collaterals -> Int]
        /\ \A t \in Collaterals : deposited'[t] = IF ask.token = t THEN ask.amount ELSE 0
    BY <1>0, <1>3, <2>2 DEF MirrorTypes, ReadIsStored
  <2>8. MirrorTypes'
    BY <1>0, <1>1, <1>3, <2>1, <2>2, <2>6, <2>7 DEF MirrorTypes
  <2>9. \A x \in VaultRequests : request'[x].pc # "read"
    BY <1>0, <1>1, <1>3 DEF ReadIsStored, At, MirrorTypes
  <2>10. ReadIsStored'
    BY <2>1, <2>9 DEF ReadIsStored, At
  <2>11. \A t \in Collaterals : HeldOf(d.collaterals, t) = deposited'[t]
    BY <2>2, <2>4, <2>5, <2>6, <2>7
  <2>12. MirrorOffOnlyByOverlap'
    BY <1>3, <2>1, <2>6, <2>11 DEF MirrorOffOnlyByOverlap, InMirror, HeldOf
  <2> QED
    BY <2>8, <2>10, <2>12 DEF MirrorInv
<1> QED
  BY <1>2, <1>3 DEF SaveNew

\* A save without an overlap carries the request's change to the document; one with it is
\* noted.
LEMMA SaveVaultStep ==
    ASSUME MirrorInv, NEW r \in VaultRequests, NEW ask \in request[r].ask,
           NEW d \in request[r].doc, NEW now \in mirror, SaveVault(r, ask, d, now)
    PROVE  MirrorInv'
<1> DEFINE n == [[request[r] EXCEPT !.pc = "done"] EXCEPT !.doc = {}]
           new == [debt |-> Sent(now.debt, d.debt, NewDebt(ask, d)),
                   status |-> Sent(now.status, d.status, NewStatus(ask, d)),
                   collaterals |-> NewCollaterals(ask, d, now),
                   version |-> IF Pushes(ask, d) THEN now.version + 1 ELSE now.version]
<1>0. MirrorTypes /\ ReadIsStored /\ MirrorOffOnlyByOverlap
  BY DEF MirrorInv
<1>1. request[r] \in [pc : {"idle", "simulated", "read", "done"},
                      ask : SUBSET Asks, doc : SUBSET Documents]
  BY <1>0 DEF MirrorTypes
<1>2. /\ ask \in Asks /\ d \in Documents /\ now \in Documents /\ mirror = {now}
      /\ request[r].doc = {d} /\ At(r) = "read" /\ mirror' = {new}
      /\ owed' = owed + (IF ask.op = "mint" THEN ask.debt ELSE -ask.debt)
      /\ deposited' = IF ask.op = "add" \/ Entry(ask, d) > 0
                      THEN [deposited EXCEPT ![ask.token] = @ + Moved(ask)] ELSE deposited
      /\ overlapped' = (overlapped \/ Reading # {r})
  BY <1>0, <1>1 DEF SaveVault, MirrorTypes
<1>3. request' = [request EXCEPT ![r] = n]
  BY <1>1 DEF SaveVault
<1>4. n \in [pc : {"idle", "simulated", "read", "done"},
             ask : SUBSET Asks, doc : SUBSET Documents] /\ n.pc = "done"
  BY <1>1
<1> HIDE DEF n
<1>5. /\ ask.op \in Ops /\ ask.debt \in Nat /\ Moved(ask) \in Int /\ ask.token \in Collaterals
      /\ ask.op # "create" /\ (ask.op = "add" => ask.debt = 0)
  BY <1>0, <1>2, AskIs DEF ReadIsStored
<1>6. /\ now.debt \in Int /\ d.debt \in Int /\ now.version \in Nat
      /\ now.status \in {"active", "closed", "liquidated"}
      /\ d.status \in {"active", "closed", "liquidated"}
      /\ now.collaterals \in Seq(Entries) /\ d.collaterals \in Seq(Entries)
  BY <1>2 DEF Documents
<1>7. NewDebt(ask, d) = d.debt + (IF ask.op = "mint" THEN ask.debt ELSE -ask.debt)
  BY <1>5, <1>6 DEF NewDebt, Ops
<1>8. NewStatus(ask, d) \in {"active", "closed", "liquidated"}
  BY <1>6 DEF NewStatus
<1>9. NewCollaterals(ask, d, now) \in Seq(Entries)
  <2>1. CASE Positional(ask, d)
    <3> DEFINE i == Entry(ask, d)
               m == d.collaterals[i].amount + Moved(ask)
    <3>1. NewCollaterals(ask, d, now) = [now.collaterals EXCEPT ![i].amount = m]
      BY <2>1 DEF NewCollaterals, Positional
    <3>2. d.collaterals[i].amount \in Int /\ m \in Int
      BY <1>2, <1>5, <1>6, <2>1, EntryIs, EntriesAre DEF Positional
    <3>3. CASE i \in DOMAIN now.collaterals
      <4> HIDE DEF i, m
      <4> DEFINE cs == now.collaterals
      <4>1. cs \in Seq(Entries) /\ i \in DOMAIN cs /\ m \in Int
        BY <1>6, <3>2, <3>3
      <4>2. NewCollaterals(ask, d, now) = [cs EXCEPT ![i].amount = m]
        BY <3>1
      <4> HIDE DEF cs
      <4>3. [cs EXCEPT ![i].amount = m] \in Seq(Entries)
        BY <4>1, EntryChanged
      <4> QED
        BY <4>2, <4>3
    <3>4. CASE i \notin DOMAIN now.collaterals
      <4> HIDE DEF i, m
      <4> DEFINE cs == now.collaterals
      <4>1. cs \in Seq(Entries) /\ i \notin DOMAIN cs
        BY <1>6, <3>4
      <4>2. NewCollaterals(ask, d, now) = [cs EXCEPT ![i].amount = m]
        BY <3>1
      <4> HIDE DEF cs
      <4>3. [cs EXCEPT ![i].amount = m] = cs
        <5>1. /\ DOMAIN [cs EXCEPT ![i].amount = m] = DOMAIN cs
              /\ \A x \in DOMAIN cs : [cs EXCEPT ![i].amount = m][x] = cs[x]
          BY <4>1
        <5> QED
          BY <4>1, <5>1
      <4> QED
        BY <4>1, <4>2, <4>3
    <3> QED
      BY <3>3, <3>4
  <2>2. CASE ~Positional(ask, d)
    <3>1. [token |-> ask.token, amount |-> ask.amount] \in Entries
      BY <1>2, AskIs DEF Entries
    <3>2. Append(now.collaterals, [token |-> ask.token, amount |-> ask.amount]) \in Seq(Entries)
      BY <1>6, <3>1
    <3> QED
      BY <1>6, <2>2, <3>2 DEF NewCollaterals, Positional
  <2> QED
    BY <2>1, <2>2
<1>10. /\ new \in Documents /\ new.collaterals = NewCollaterals(ask, d, now)
       /\ new.debt = Sent(now.debt, d.debt, NewDebt(ask, d))
  <2>1. /\ Sent(now.debt, d.debt, NewDebt(ask, d)) \in Int
        /\ Sent(now.status, d.status, NewStatus(ask, d)) \in {"active", "closed", "liquidated"}
    BY <1>5, <1>6, <1>7, <1>8 DEF Sent
  <2>2. (IF Pushes(ask, d) THEN now.version + 1 ELSE now.version) \in Nat
    BY <1>6
  <2> QED
    BY <1>9, <2>1, <2>2 DEF Documents
<1> HIDE DEF new
<1>11. MirrorTypes'
  <2>1. owed' \in Int /\ deposited' \in [Collaterals -> Int] /\ overlapped' \in BOOLEAN
    BY <1>0, <1>2, <1>5 DEF MirrorTypes
  <2>2. request' \in [VaultRequests -> [pc : {"idle", "simulated", "read", "done"},
                                        ask : SUBSET Asks, doc : SUBSET Documents]]
    BY <1>0, <1>3, <1>4 DEF MirrorTypes
  <2> QED
    BY <1>2, <1>10, <2>1, <2>2 DEF MirrorTypes
<1>12. request'[r] = n /\ \A x \in VaultRequests : x # r => request'[x] = request[x]
  BY <1>0, <1>3 DEF MirrorTypes
<1>13. ReadIsStored'
  <2>1. ~overlapped' => \A x \in VaultRequests : request'[x].pc # "read"
    BY <1>2, <1>4, <1>12 DEF Reading, At
  <2>2. \A x \in VaultRequests : request'[x].pc = "read" =>
            \A a \in request'[x].ask : a.op # "create"
    BY <1>0, <1>4, <1>12 DEF ReadIsStored, At
  <2> QED
    BY <1>2, <2>1, <2>2 DEF ReadIsStored, At
<1>14. ASSUME ~overlapped'
       PROVE  new.debt = owed' /\ \A t \in Collaterals : HeldOf(new.collaterals, t) = deposited'[t]
  <2>1. d = now /\ ~overlapped
    BY <1>0, <1>2, <1>14 DEF ReadIsStored
  <2>2. /\ d.debt = owed
        /\ \A t \in Collaterals : HeldOf(d.collaterals, t) = deposited[t]
    BY <1>0, <1>2, <2>1 DEF MirrorOffOnlyByOverlap, InMirror, HeldOf
  <2>3. new.debt = owed'
    BY <1>2, <1>7, <1>10, <2>1, <2>2 DEF Sent
  <2>4. \A t : HeldOf(new.collaterals, t) = HeldOf(d.collaterals, t) +
                IF (ask.op = "add" \/ Entry(ask, d) > 0) /\ ask.token = t THEN Moved(ask) ELSE 0
    BY <1>2, <1>10, <2>1, CollateralsSaved
  <2>5. \A t \in Collaterals : deposited'[t] = deposited[t] +
                IF (ask.op = "add" \/ Entry(ask, d) > 0) /\ ask.token = t THEN Moved(ask) ELSE 0
    BY <1>0, <1>2, <1>5 DEF MirrorTypes
  <2> QED
    BY <2>2, <2>3, <2>4, <2>5
<1>15. MirrorOffOnlyByOverlap'
  BY <1>2, <1>14 DEF MirrorOffOnlyByOverlap, InMirror, HeldOf
<1> QED
  BY <1>11, <1>13, <1>15 DEF MirrorInv

\* Every step of the mirror keeps the invariant.
LEMMA MirrorStep ==
    ASSUME MirrorInv, [MirrorNext]_mirrorVars
    PROVE  MirrorInv'
<1> DEFINE Requests == [pc : {"idle", "simulated", "read", "done"},
                        ask : SUBSET Asks, doc : SUBSET Documents]
<1>0. MirrorTypes /\ ReadIsStored
  BY DEF MirrorInv
<1>1. \A r \in VaultRequests : request[r] \in Requests
  BY <1>0 DEF MirrorTypes
<1>2. ASSUME UNCHANGED mirrorVars PROVE MirrorInv'
  <2>1. UNCHANGED <<mirror, request, owed, deposited, overlapped>>
    BY <1>2 DEF mirrorVars
  <2> QED
    BY <2>1 DEF MirrorInv, MirrorTypes, ReadIsStored, MirrorOffOnlyByOverlap, InMirror, At
<1>3. ASSUME NEW r \in VaultRequests, NEW ask \in Asks, Simulate(r, ask) PROVE MirrorInv'
  <2>1. PICK n \in Requests : request' = [request EXCEPT ![r] = n] /\ n.pc # "read"
    <3>1. CASE Goes(r, "done")
      <4>1. [request[r] EXCEPT !.pc = "done"] \in Requests
        BY <1>1
      <4> QED
        BY <3>1, <4>1 DEF Goes
    <3>2. CASE request' = [request EXCEPT ![r].ask = {ask}, ![r].pc = "simulated"]
      <4>1. [[request[r] EXCEPT !.ask = {ask}] EXCEPT !.pc = "simulated"] \in Requests
        BY <1>1
      <4>2. request' = [request EXCEPT ![r] = [[request[r] EXCEPT !.ask = {ask}] EXCEPT !.pc = "simulated"]]
        BY <1>1, <3>2
      <4> QED
        BY <4>1, <4>2
    <3> QED
      BY <1>3, <3>1, <3>2 DEF Simulate
  <2> QED
    BY <1>3, <2>1, MirrorQuiet DEF Simulate
<1>4. ASSUME NEW r \in VaultRequests, FindVault(r) PROVE MirrorInv'
  <2>1. PICK n \in Requests :
           /\ request' = [request EXCEPT ![r] = n]
           /\ n.pc = "read" => /\ mirror # {} /\ n.doc = mirror
                               /\ \A ask \in n.ask : ask.op # "create"
    <3>1. CASE mirror = {}
      <4>1. [request[r] EXCEPT !.pc = "done"] \in Requests
        BY <1>1
      <4> QED
        BY <1>4, <3>1, <4>1 DEF FindVault, Goes
    <3>2. CASE mirror # {}
      <4> DEFINE n == [[request[r] EXCEPT !.pc = "read"] EXCEPT !.doc = mirror]
      <4>1. n \in Requests /\ n.doc = mirror /\ n.ask = request[r].ask
        BY <1>0, <1>1 DEF MirrorTypes
      <4>2. request' = [request EXCEPT ![r] = n] /\ \A ask \in request[r].ask : ask.op # "create"
        BY <1>1, <1>4, <3>2 DEF FindVault
      <4> QED
        BY <3>2, <4>1, <4>2
    <3> QED
      BY <3>1, <3>2
  <2> QED
    BY <1>4, <2>1, MirrorQuiet DEF FindVault
<1>5. ASSUME NEW r \in VaultRequests, SaveFails(r) PROVE MirrorInv'
  <2> DEFINE n == [[request[r] EXCEPT !.pc = "done"] EXCEPT !.doc = {}]
  <2>1. n \in Requests /\ n.pc = "done"
    BY <1>1
  <2>2. request' = [request EXCEPT ![r] = n]
    BY <1>1, <1>5 DEF SaveFails
  <2> HIDE DEF n
  <2> QED
    BY <1>5, <2>1, <2>2, MirrorQuiet DEF SaveFails
<1> QED
  BY <1>2, <1>3, <1>4, <1>5, SaveNewStep, SaveVaultStep DEF MirrorNext

\* For any number of requests and collaterals: the mirrored debt and collateral
\* are those of the requests that succeeded, in any order, unless one of them
\* saved between another's read and its save (vault-service.js:71-244).
THEOREM MirrorIsTrue == MirrorSpec => []MirrorOffOnlyByOverlap
<1>1. MirrorInit => MirrorInv
  <2> SUFFICES ASSUME MirrorInit PROVE MirrorInv
    OBVIOUS
  <2>1. MirrorTypes
    <3>1. /\ mirror \in SUBSET Documents /\ \A c, d \in mirror : c = d
          /\ owed \in Int /\ deposited \in [Collaterals -> Int] /\ overlapped \in BOOLEAN
      <4>1. mirror \in SUBSET Documents /\ \A c, d \in mirror : c = d
        BY DEF MirrorInit
      <4>2. owed \in Int /\ deposited \in [Collaterals -> Int]
        BY DEF MirrorInit
      <4>3. overlapped \in BOOLEAN
        BY DEF MirrorInit
      <4> QED
        BY <4>1, <4>2, <4>3
    <3>2. request = [r \in VaultRequests |-> [pc |-> "idle", ask |-> {}, doc |-> {}]]
      BY DEF MirrorInit
    <3>3. [pc |-> "idle", ask |-> {}, doc |-> {}] \in
              [pc : {"idle", "simulated", "read", "done"}, ask : SUBSET Asks, doc : SUBSET Documents]
      OBVIOUS
    <3> QED
      BY <3>1, <3>2, <3>3 DEF MirrorTypes
  <2>2. ReadIsStored
    BY DEF MirrorInit, ReadIsStored, At
  <2>3. MirrorOffOnlyByOverlap
    BY DEF MirrorInit, MirrorOffOnlyByOverlap
  <2> QED
    BY <2>1, <2>2, <2>3 DEF MirrorInv
<1>2. MirrorInv /\ [MirrorNext]_mirrorVars => MirrorInv'
  BY MirrorStep
<1>3. MirrorInv => MirrorOffOnlyByOverlap
  BY DEF MirrorInv
<1> QED
  BY <1>1, <1>2, <1>3, PTL DEF MirrorSpec

-----------------------------------------------------------------------------
(* The average price.  Between any two observations the cumulative price     *)
(* grew as by prices in force between their times; the ring holds such       *)
(* observations, however it has wrapped, and so is what a synchronization    *)
(* would read now.                                                           *)

Snapshots == [cum : [Pair -> Nat], time : Nat]

\* The growth of the cumulative prices from one observation to the next is
\* within the bounds of the prices s in force in between.
Between(s, before, after) ==
    /\ before.time <= after.time
    /\ \A c \in Pair, m \in Int :
          /\ (\A i \in before.time + 1 .. after.time : m <= s[i][c])
                => m * (after.time - before.time) <= after.cum[c] - before.cum[c]
          /\ (\A i \in before.time + 1 .. after.time : s[i][c] <= m)
                => after.cum[c] - before.cum[c] <= m * (after.time - before.time)

\* A feed whose ring is filled from the first slot on.
FeedTyped(f) ==
    /\ f \in [index : Slots, count : 0 .. RingSize, ring : [Slots -> Snapshots]]
    /\ f.count < RingSize => f.index = f.count

\* Its observations go with each other and with the cumulative prices of now.
Follows(f, s, now) ==
    \A k \in 0 .. f.count - 1 :
        /\ Between(s, f.ring[k], now)
        /\ \A l \in 0 .. f.count - 1 :
              f.ring[k].time <= f.ring[l].time => Between(s, f.ring[k], f.ring[l])

\* Since the accumulator was moved on, the prices have been those of now.
SpotsAreCurrent ==
    /\ spots \in Seq([Pair -> Nat]) /\ Len(spots) = clock
    /\ accumulator \in Snapshots /\ accumulator.time <= clock /\ clock \in Nat
    /\ \A i \in accumulator.time + 1 .. clock : spots[i] = Spot(reserve)

FeedFollows ==
    feed # NoFeed =>
        FeedTyped(feed) /\ feed.count > 0 /\ Follows(feed, spots, accumulator)

TwapInv == AmmInv /\ SpotsAreCurrent /\ FeedFollows

-----------------------------------------------------------------------------
\* What is cumulated in two stretches is cumulated in both.
LEMMA StretchesAdd ==
    ASSUME NEW m \in Int, NEW a \in Int, NEW b \in Int, NEW c \in Int,
           NEW x \in Int, NEW y \in Int, NEW z \in Int
    PROVE  /\ m * (b - a) <= y - x /\ m * (c - b) <= z - y => m * (c - a) <= z - x
           /\ y - x <= m * (b - a) /\ z - y <= m * (c - b) => z - x <= m * (c - a)
<1>1. m * (c - a) = m * (b - a) + m * (c - b)
  OBVIOUS
<1>2. m * (c - a) \in Int /\ m * (b - a) \in Int /\ m * (c - b) \in Int
  OBVIOUS
<1> QED
  BY <1>1, <1>2

\* A bound on what a growth of D over p + r units comes to in the last r, when
\* the first p are interpolated and rounded down.
LEMMA InterpolationBounds ==
    ASSUME NEW D \in Int, NEW m \in Int, NEW p \in Nat, NEW r \in Nat \ {0}
    PROVE  LET x == (D * p) \div (p + r)
           IN  /\ x \in Int
               /\ m * (p + r) <= D => m * r <= D - x
               /\ D <= m * (p + r) => D - x <= m * r
<1> DEFINE x == (D * p) \div (p + r)
<1>1. PICK w \in Nat \ {0} : w = p + r
  OBVIOUS
<1>2. PICK n \in Int : n = D * p
  OBVIOUS
<1>3. x = n \div w
  BY <1>1, <1>2
<1>4. x \in Int /\ w * x <= n /\ n < w * x + w
  BY <1>3
<1> HIDE DEF x
<1>5. D * r = D * w - n
  BY ONLY <1>1, <1>2, D \in Int, r \in Nat \ {0}, p \in Nat
<1>6. D * r <= w * (D - x) /\ w * (D - x) < D * r + w
  <2>1. w * (D - x) = D * w - w * x
    BY ONLY <1>4, <1>1, D \in Int
  <2>2. D * w \in Int /\ w * x \in Int /\ D * r \in Int
    BY ONLY <1>4, <1>1, D \in Int, r \in Nat \ {0}
  <2> QED
    BY ONLY <1>1, <1>2, <1>4, <1>5, <2>1, <2>2
<1>7. ASSUME m * w <= D PROVE m * r <= D - x
  <2>1. (m * w) * r <= D * r
    BY ONLY <1>1, <1>7, D \in Int, m \in Int, r \in Nat \ {0}
  <2>2. (m * r) * w <= (D - x) * w
    BY ONLY <1>1, <1>4, <1>6, <2>1, D \in Int, m \in Int, r \in Nat \ {0}
  <2>3. m * r \in Int /\ D - x \in Int
    BY ONLY <1>4, D \in Int, m \in Int, r \in Nat \ {0}
  <2> QED
    BY ONLY <1>1, <2>2, <2>3, FactorCancels
<1>8. ASSUME D <= m * w PROVE D - x <= m * r
  <2>1. D * r <= (m * w) * r
    BY ONLY <1>1, <1>8, D \in Int, m \in Int, r \in Nat \ {0}
  <2>2. (D - x) * w < (m * r) * w + w
    BY ONLY <1>1, <1>4, <1>6, <2>1, D \in Int, m \in Int, r \in Nat \ {0}
  <2>3. m * r \in Int /\ D - x \in Int
    BY ONLY <1>4, D \in Int, m \in Int, r \in Nat \ {0}
  <2>4. ASSUME D - x > m * r PROVE FALSE
    <3>1. (m * r + 1) * w <= (D - x) * w
      BY ONLY <1>1, <2>3, <2>4
    <3>2. (m * r + 1) * w = (m * r) * w + w
      BY ONLY <1>1, <2>3
    <3> QED
      BY ONLY <1>1, <2>2, <2>3, <3>1, <3>2
  <2> QED
    BY <2>3, <2>4
<1> QED
  BY <1>1, <1>4, <1>7, <1>8 DEF x

\* A quotient lies between the bounds that hold times the divisor.
LEMMA QuotientBounds ==
    ASSUME NEW a \in Int, NEW w \in Nat \ {0}, NEW m \in Int
    PROVE  /\ a \div w \in Int
           /\ m * w <= a => m <= a \div w
           /\ a <= m * w => a \div w <= m
<1>1. PICK x : x = a \div w
  OBVIOUS
<1>2. x \in Int /\ x * w <= a /\ a < x * w + w
  BY <1>1
<1>3. ASSUME m * w <= a, m > x PROVE FALSE
  <2>1. (x + 1) * w <= m * w
    BY ONLY <1>2, <1>3, w \in Nat \ {0}, m \in Int
  <2>2. (x + 1) * w = x * w + w
    BY ONLY <1>2, w \in Nat \ {0}
  <2>3. m * w \in Int /\ x * w \in Int
    BY ONLY <1>2, w \in Nat \ {0}, m \in Int
  <2> QED
    BY ONLY <1>2, <1>3, <2>1, <2>2, <2>3, a \in Int, w \in Nat \ {0}
<1>4. ASSUME a <= m * w PROVE x <= m
  <2>1. x * w <= m * w
    <3>1. m * w \in Int /\ x * w \in Int
      BY ONLY <1>2, w \in Nat \ {0}, m \in Int
    <3> QED
      BY ONLY <1>2, <1>4, <3>1, a \in Int
  <2> QED
    BY ONLY <1>2, <2>1, m \in Int, w \in Nat \ {0}, FactorCancels
<1> QED
  BY <1>1, <1>2, <1>3, <1>4

\* From one observation to the next and on to a third.
LEMMA BetweenComposes ==
    ASSUME NEW s, NEW o \in Snapshots, NEW p \in Snapshots, NEW third \in Snapshots,
           Between(s, o, p), Between(s, p, third)
    PROVE  Between(s, o, third)
<1>1. /\ o.time \in Nat /\ p.time \in Nat /\ third.time \in Nat
      /\ o.time <= p.time /\ p.time <= third.time
  BY DEF Snapshots, Between
<1>2. /\ \A i \in o.time + 1 .. p.time : i \in o.time + 1 .. third.time
      /\ \A i \in p.time + 1 .. third.time : i \in o.time + 1 .. third.time
  BY <1>1
<1> SUFFICES ASSUME NEW c \in Pair, NEW m \in Int
             PROVE  /\ (\A i \in o.time + 1 .. third.time : m <= s[i][c])
                         => m * (third.time - o.time) <= third.cum[c] - o.cum[c]
                    /\ (\A i \in o.time + 1 .. third.time : s[i][c] <= m)
                         => third.cum[c] - o.cum[c] <= m * (third.time - o.time)
  BY <1>1 DEF Between
<1>3. o.cum[c] \in Int /\ p.cum[c] \in Int /\ third.cum[c] \in Int
  BY DEF Snapshots
<1>4. ASSUME \A i \in o.time + 1 .. third.time : m <= s[i][c]
      PROVE  m * (third.time - o.time) <= third.cum[c] - o.cum[c]
  <2>1. /\ m * (p.time - o.time) <= p.cum[c] - o.cum[c]
        /\ m * (third.time - p.time) <= third.cum[c] - p.cum[c]
    BY <1>2, <1>4 DEF Between
  <2> QED
    BY <1>1, <1>3, <2>1, StretchesAdd
<1>5. ASSUME \A i \in o.time + 1 .. third.time : s[i][c] <= m
      PROVE  third.cum[c] - o.cum[c] <= m * (third.time - o.time)
  <2>1. /\ p.cum[c] - o.cum[c] <= m * (p.time - o.time)
        /\ third.cum[c] - p.cum[c] <= m * (third.time - p.time)
    BY <1>2, <1>5 DEF Between
  <2> QED
    BY <1>1, <1>3, <2>1, StretchesAdd
<1> QED
  BY <1>4, <1>5

\* Two observations of one instant, or one with itself, agree.
LEMMA BetweenSame ==
    ASSUME NEW s, NEW o \in Snapshots, NEW p \in Snapshots, o.time = p.time,
           Between(s, o, p) \/ o = p
    PROVE  Between(s, p, o)
<1>1. o.time \in Nat /\ p.time \in Nat /\ o.time + 1 .. p.time = {}
  BY DEF Snapshots
<1>2. ASSUME NEW c \in Pair PROVE o.cum[c] = p.cum[c]
  <2>1. o.cum[c] \in Int /\ p.cum[c] \in Int
    BY DEF Snapshots
  <2>2. CASE o = p
    BY <2>2
  <2>3. CASE Between(s, o, p)
    <3>1. 0 * (p.time - o.time) <= p.cum[c] - o.cum[c]
      BY <1>1, <2>3 DEF Between
    <3>2. p.cum[c] - o.cum[c] <= 0 * (p.time - o.time)
      BY <1>1, <2>3 DEF Between
    <3> QED
      BY <1>1, <2>1, <3>1, <3>2
  <2> QED
    BY <2>2, <2>3
<1>3. ASSUME NEW c \in Pair, NEW m \in Int
      PROVE  m * (o.time - p.time) = 0 /\ o.cum[c] - p.cum[c] = 0
  <2>1. o.cum[c] \in Int /\ p.cum[c] \in Int /\ o.cum[c] = p.cum[c]
    BY <1>2 DEF Snapshots
  <2>2. o.time - p.time = 0
    BY <1>1
  <2> QED
    BY <2>1, <2>2
<1>4. ASSUME NEW c \in Pair, NEW m \in Int
      PROVE  /\ m * (o.time - p.time) <= o.cum[c] - p.cum[c]
             /\ o.cum[c] - p.cum[c] <= m * (o.time - p.time)
  BY <1>3
<1> QED
  BY <1>1, <1>4 DEF Between

\* Prices are natural numbers.
LEMMA SpotIs ==
    ASSUME reserve \in [Pair -> Nat]
    PROVE  Spot(reserve) \in [Pair -> Nat]
<1> SUFFICES ASSUME NEW c \in Pair
             PROVE  (IF reserve[Base] = 0 \/ reserve[Quote] = 0 THEN 0
                     ELSE (reserve[Other(c)] * PriceScale) \div reserve[c]) \in Nat
  BY DEF Spot
<1>1. Other(c) \in Pair
  BY DEF Other, Pair
<1>2. reserve[Other(c)] \in Nat /\ reserve[c] \in Nat /\ PriceScale \in Nat
  BY <1>1, AmmAssumption
<1>3. reserve[Other(c)] * PriceScale \in Nat
  BY <1>2, Products
<1>4. reserve[Base] # 0 /\ reserve[Quote] # 0 => reserve[c] # 0
  BY PairIsTwo
<1> QED
  BY <1>2, <1>3, <1>4, Division

\* What a synchronization reads now goes with what the accumulator holds.
LEMMA SyncedFollows ==
    ASSUME reserve \in [Pair -> Nat], SpotsAreCurrent
    PROVE  Synced \in Snapshots /\ Synced.time = clock /\ Between(spots, accumulator, Synced)
<1>1. PICK spot \in [Pair -> Nat] : spot = Spot(reserve)
  BY SpotIs
<1>2. /\ accumulator.cum \in [Pair -> Nat] /\ accumulator.time \in Nat /\ clock \in Nat
      /\ accumulator.time <= clock
      /\ \A i \in accumulator.time + 1 .. clock : spots[i] = spot
  BY <1>1 DEF SpotsAreCurrent, Snapshots
<1>3. PICK d \in Nat : d = clock - accumulator.time
  BY <1>2
<1>4. Synced = [cum |-> [c \in Pair |-> accumulator.cum[c] + spot[c] * d], time |-> clock]
  BY <1>1, <1>3 DEF Synced
<1>5. \A c \in Pair : accumulator.cum[c] + spot[c] * d \in Nat
  <2> SUFFICES ASSUME NEW c \in Pair PROVE accumulator.cum[c] + spot[c] * d \in Nat
    OBVIOUS
  <2>1. spot[c] * d \in Nat
    BY <1>1, <1>3, Products
  <2> QED
    BY <1>2, <2>1
<1>6. Synced \in Snapshots /\ Synced.time = clock
  BY <1>2, <1>4, <1>5 DEF Snapshots
<1>7. ASSUME NEW c \in Pair, NEW m \in Int
      PROVE  /\ (\A i \in accumulator.time + 1 .. clock : m <= spots[i][c])
                   => m * (clock - accumulator.time) <= Synced.cum[c] - accumulator.cum[c]
             /\ (\A i \in accumulator.time + 1 .. clock : spots[i][c] <= m)
                   => Synced.cum[c] - accumulator.cum[c] <= m * (clock - accumulator.time)
  <2>1. PICK n \in Nat : n = spot[c]
    BY <1>1
  <2>2. Synced.cum[c] - accumulator.cum[c] = n * d
    <3>1. accumulator.cum[c] \in Nat /\ n * d \in Nat
      BY <1>2, <1>3, <2>1, Products
    <3>2. Synced.cum[c] = accumulator.cum[c] + n * d
      BY <1>4, <2>1
    <3> QED
      BY <3>1, <3>2
  <2>3. CASE d = 0
    <3>1. m * d = 0 /\ n * d = 0
      BY <2>3, <2>1
    <3> QED
      BY <1>3, <2>2, <3>1
  <2>4. CASE d > 0
    <3>1. PICK i \in accumulator.time + 1 .. clock : spots[i] = spot
      BY <1>2, <1>3, <2>4
    <3>2. m <= n => m * d <= n * d
      BY ONLY <2>1, <1>3, m \in Int, n \in Nat, d \in Nat
    <3>3. n <= m => n * d <= m * d
      BY ONLY <2>1, <1>3, m \in Int, n \in Nat, d \in Nat
    <3> QED
      BY <1>3, <2>1, <2>2, <3>1, <3>2, <3>3
  <2> QED
    BY <1>3, <2>3, <2>4
<1> QED
  BY <1>2, <1>6, <1>7 DEF Between

-----------------------------------------------------------------------------
\* An observation recorded in the ring goes with those that stay.
LEMMA RecordingKeeps ==
    ASSUME NEW f, FeedTyped(f), NEW s, NEW acc \in Snapshots, NEW now \in Snapshots,
           Follows(f, s, acc), Between(s, acc, now)
    PROVE  /\ FeedTyped(Recorded(f, now)) /\ Recorded(f, now).count > 0
           /\ Follows(Recorded(f, now), s, now)
<1>1. /\ f \in [index : Slots, count : 0 .. RingSize, ring : [Slots -> Snapshots]]
      /\ f.count < RingSize => f.index = f.count
      /\ RingSize \in Nat \ {0}
  BY TwapAssumption DEF FeedTyped
<1>2. \A k \in 0 .. f.count - 1 : k \in Slots /\ f.ring[k] \in Snapshots
  BY <1>1 DEF Slots
<1>3. Follows(f, s, now)
  <2>1. ASSUME NEW k \in 0 .. f.count - 1 PROVE Between(s, f.ring[k], now)
    BY <1>2, BetweenComposes DEF Follows
  <2> QED
    BY <2>1 DEF Follows
<1>4. CASE Recorded(f, now) = f /\ f.count > 0
  BY <1>3, <1>4
<1>5. CASE Recorded(f, now) = [ring |-> [f.ring EXCEPT ![f.index] = now],
                               index |-> (f.index + 1) % RingSize,
                               count |-> Min({f.count + 1, RingSize})]
  <2> DEFINE g == Recorded(f, now)
  <2>1. Min({f.count + 1, RingSize}) = IF f.count < RingSize THEN f.count + 1 ELSE RingSize
    <3>1. PICK x \in Nat : x = f.count + 1
      BY <1>1
    <3>2. PICK y : y = Min({x, RingSize})
      OBVIOUS
    <3>3. y \in {x, RingSize} /\ y <= x /\ y <= RingSize
      <4>1. x \in Int /\ RingSize \in Int
        BY <1>1
      <4>2. /\ Min({x, RingSize}) \in {x, RingSize}
            /\ Min({x, RingSize}) <= x /\ Min({x, RingSize}) <= RingSize
        BY ONLY <4>1, LeastOfTwo
      <4> QED
        BY <3>2, <4>2
    <3>4. y = IF x <= RingSize THEN x ELSE RingSize
      BY <1>1, <3>3
    <3> QED
      BY <1>1, <3>1, <3>2, <3>4
  <2>2. g.count = IF f.count < RingSize THEN f.count + 1 ELSE RingSize
    BY <1>5, <2>1
  <2>3. g.index = (f.index + 1) % RingSize /\ g.ring = [f.ring EXCEPT ![f.index] = now]
    BY <1>5
  <2>4. g.index \in Slots /\ (f.index + 1 < RingSize => g.index = f.index + 1)
    <3>1. PICK n \in Nat : n = f.index + 1
      BY <1>1 DEF Slots
    <3>2. n % RingSize \in 0 .. RingSize - 1 /\ (n < RingSize => n % RingSize = n)
      BY <1>1, <3>1
    <3> QED
      BY <2>3, <3>1, <3>2 DEF Slots
  <2>5. FeedTyped(g)
    <3>1. g.count \in 0 .. RingSize /\ (g.count < RingSize => g.index = g.count)
      BY <1>1, <2>2, <2>4
    <3>2. g.ring \in [Slots -> Snapshots]
      BY <1>1, <2>3
    <3>3. g = [ring |-> g.ring, index |-> g.index, count |-> g.count]
      BY <1>5
    <3> QED
      BY <2>4, <3>1, <3>2, <3>3 DEF FeedTyped
  <2>6. ASSUME NEW k \in 0 .. g.count - 1
        PROVE  \/ g.ring[k] = now
               \/ k \in 0 .. f.count - 1 /\ g.ring[k] = f.ring[k]
    <3>1. k \in Slots
      BY <1>1, <2>2 DEF Slots
    <3>2. CASE k = f.index
      BY <1>1, <2>3, <3>1, <3>2
    <3>3. CASE k # f.index
      <4>1. g.ring[k] = f.ring[k]
        BY <1>1, <2>3, <3>1, <3>3
      <4>2. k \in 0 .. f.count - 1
        BY <1>1, <2>2, <3>3
      <4> QED
        BY <4>1, <4>2
    <3> QED
      BY <3>2, <3>3
  <2>7. Between(s, now, now)
    BY BetweenSame
  <2>8. ASSUME NEW k \in 0 .. g.count - 1 PROVE Between(s, g.ring[k], now)
    BY <1>3, <2>6, <2>7 DEF Follows
  <2>9. ASSUME NEW k \in 0 .. g.count - 1, NEW l \in 0 .. g.count - 1,
               g.ring[k].time <= g.ring[l].time
        PROVE  Between(s, g.ring[k], g.ring[l])
    <3>1. CASE g.ring[l] = now
      BY <2>8, <3>1
    <3>2. CASE g.ring[l] # now /\ g.ring[k] # now
      <4>1. /\ k \in 0 .. f.count - 1 /\ g.ring[k] = f.ring[k]
            /\ l \in 0 .. f.count - 1 /\ g.ring[l] = f.ring[l]
        BY <2>6, <3>2
      <4> QED
        BY <1>3, <2>9, <4>1 DEF Follows
    <3>3. CASE g.ring[l] # now /\ g.ring[k] = now
      <4>1. l \in 0 .. f.count - 1 /\ g.ring[l] = f.ring[l]
        BY <2>6, <3>3
      <4>2. g.ring[l] \in Snapshots /\ Between(s, g.ring[l], now)
        BY <1>2, <1>3, <4>1 DEF Follows
      <4>3. g.ring[l].time = now.time
        <5>1. PICK o \in Snapshots : o = g.ring[l]
          BY <4>2
        <5>2. o.time \in Nat /\ now.time \in Nat
          BY DEF Snapshots
        <5>3. now.time <= o.time
          BY <2>9, <3>3, <5>1
        <5>4. o.time <= now.time
          BY <4>2, <5>1 DEF Between
        <5> QED
          BY <5>1, <5>2, <5>3, <5>4
      <4> QED
        BY <3>3, <4>2, <4>3, BetweenSame
    <3> QED
      BY <3>1, <3>2, <3>3
  <2>10. Follows(g, s, now)
    <3> HIDE DEF g
    <3> QED
      BY <2>8, <2>9 DEF Follows
  <2>11. g.count > 0
    BY <1>1, <2>2
  <2> QED
    BY <2>5, <2>10, <2>11
<1> QED
  BY <1>4, <1>5 DEF Recorded

\* The history of a feed is what the used slots of its ring hold.
LEMMA HistoryIs ==
    ASSUME NEW f, FeedTyped(f), f.count > 0
    PROVE  /\ History(f) \in Seq(Snapshots) /\ Len(History(f)) = f.count
           /\ \A i \in 1 .. f.count :
                 \E k \in 0 .. f.count - 1 : History(f)[i] = f.ring[k]
           /\ OldestIndex(f) = 0 => History(f)[1] = f.ring[0]
<1>1. /\ f \in [index : Slots, count : 0 .. RingSize, ring : [Slots -> Snapshots]]
      /\ RingSize \in Nat \ {0}
  BY TwapAssumption DEF FeedTyped
<1>2. ASSUME NEW i \in 1 .. f.count
      PROVE  /\ (OldestIndex(f) + i - 1) % RingSize \in 0 .. f.count - 1
             /\ f.count < RingSize => (OldestIndex(f) + i - 1) % RingSize = i - 1
  <2>1. PICK n \in Nat : n = OldestIndex(f) + i - 1
    BY <1>1 DEF OldestIndex, Slots
  <2>2. n % RingSize \in 0 .. RingSize - 1 /\ (n < RingSize => n % RingSize = n)
    BY <1>1, <2>1
  <2>3. CASE f.count < RingSize
    BY <1>1, <2>1, <2>2, <2>3 DEF OldestIndex
  <2>4. CASE ~ (f.count < RingSize)
    BY <1>1, <2>1, <2>2, <2>4
  <2> QED
    BY <2>3, <2>4
<1>3. \A k \in 0 .. f.count - 1 : f.ring[k] \in Snapshots
  BY <1>1 DEF Slots
<1>4. History(f) = [i \in 1 .. f.count |-> f.ring[(OldestIndex(f) + i - 1) % RingSize]]
  BY DEF History
<1>5. \A i \in 1 .. f.count : History(f)[i] = f.ring[(OldestIndex(f) + i - 1) % RingSize]
  BY <1>4
<1>6. History(f) \in Seq(Snapshots) /\ Len(History(f)) = f.count
  <2>1. \A i \in 1 .. f.count : f.ring[(OldestIndex(f) + i - 1) % RingSize] \in Snapshots
    BY <1>2, <1>3
  <2>2. f.count \in Nat
    BY <1>1
  <2> QED
    BY <1>4, <2>1, <2>2
<1>7. OldestIndex(f) = 0 => History(f)[1] = f.ring[0]
  <2>1. 1 \in 1 .. f.count /\ (0 + 1 - 1) % RingSize = 0
    BY <1>1
  <2> QED
    BY <1>5, <2>1
<1> QED
  BY <1>2, <1>5, <1>6, <1>7

-----------------------------------------------------------------------------
\* What is cumulated from an instant between two observations until now, when
\* the start is one of them or interpolated.
LEMMA FromTheStart ==
    ASSUME NEW s, NEW before \in Snapshots, NEW after \in Snapshots, NEW live \in Snapshots,
           NEW target \in Nat, before.time <= target, target < after.time,
           Between(s, before, after), Between(s, after, live),
           NEW start, start = IF before.time = target THEN before.cum
                              ELSE Interpolated(before, after, target),
           NEW c \in Pair
    PROVE  /\ start \in [Pair -> Int]
           /\ \A m \in Int :
                 /\ (\A i \in before.time + 1 .. live.time : m <= s[i][c])
                       => m * (live.time - target) <= live.cum[c] - start[c]
                 /\ (\A i \in before.time + 1 .. live.time : s[i][c] <= m)
                       => live.cum[c] - start[c] <= m * (live.time - target)
<1>1. /\ before.time \in Nat /\ after.time \in Nat /\ live.time \in Nat
      /\ after.time <= live.time
  BY DEF Snapshots, Between
<1>2. Between(s, before, live)
  BY BetweenComposes
<1>3. /\ before.cum[c] \in Nat /\ after.cum[c] \in Nat /\ live.cum[c] \in Nat
      /\ before.cum \in [Pair -> Nat]
  BY DEF Snapshots
<1>4. CASE before.time = target
  <2>1. start = before.cum
    BY <1>4
  <2> QED
    BY <1>2, <1>3, <1>4, <2>1 DEF Between
<1>5. CASE before.time # target
  <2>1. PICK p \in Nat : p = target - before.time
    BY <1>1
  <2>2. PICK r \in Nat \ {0} : r = after.time - target
    BY <1>1
  <2>3. after.time - before.time = p + r /\ p + r \in Nat \ {0}
    BY <1>1, <2>1, <2>2
  <2>4. start = [d \in Pair |-> before.cum[d] +
                    ((after.cum[d] - before.cum[d]) * p) \div (p + r)]
    BY <1>5, <2>1, <2>3 DEF Interpolated
  <2>5. start \in [Pair -> Int]
    <3> SUFFICES ASSUME NEW d \in Pair
                 PROVE  before.cum[d] + ((after.cum[d] - before.cum[d]) * p) \div (p + r) \in Int
      BY <2>4
    <3>1. before.cum[d] \in Nat /\ after.cum[d] - before.cum[d] \in Int
      BY DEF Snapshots
    <3>2. ((after.cum[d] - before.cum[d]) * p) \div (p + r) \in Int
      BY <3>1, InterpolationBounds
    <3> QED
      BY <3>1, <3>2
  <2>6. PICK D \in Int : D = after.cum[c] - before.cum[c]
    BY <1>3
  <2>7. PICK x : x = (D * p) \div (p + r)
    OBVIOUS
  <2>8. x \in Int /\ start[c] = before.cum[c] + x
    <3>1. x \in Int
      BY <2>7, InterpolationBounds
    <3> QED
      BY <2>4, <2>6, <2>7, <3>1
  <2>9. live.cum[c] - start[c] = (live.cum[c] - after.cum[c]) + (D - x)
    BY <1>3, <2>6, <2>8
  <2>10. live.time - target = (live.time - after.time) + r
    BY <1>1, <2>2
  <2>11. /\ \A i \in before.time + 1 .. after.time : i \in before.time + 1 .. live.time
         /\ \A i \in after.time + 1 .. live.time : i \in before.time + 1 .. live.time
    BY <1>1
  <2>12. ASSUME NEW m \in Int, \A i \in before.time + 1 .. live.time : m <= s[i][c]
         PROVE  m * (live.time - target) <= live.cum[c] - start[c]
    <3>1. m * (p + r) <= D
      BY <2>3, <2>6, <2>11, <2>12 DEF Between
    <3>2. m * (live.time - after.time) <= live.cum[c] - after.cum[c]
      BY <2>11, <2>12 DEF Between
    <3>3. m * r <= D - x
      BY <2>7, <3>1, InterpolationBounds
    <3>4. m * (live.time - target) = m * (live.time - after.time) + m * r
      BY ONLY <1>1, <2>2, <2>10, m \in Int
    <3>5. m * (live.time - after.time) \in Int /\ m * r \in Int
      BY ONLY <1>1, <2>2, m \in Int
    <3> QED
      BY ONLY <1>3, <2>8, <2>9, <3>2, <3>3, <3>4, <3>5, D \in Int
  <2>13. ASSUME NEW m \in Int, \A i \in before.time + 1 .. live.time : s[i][c] <= m
         PROVE  live.cum[c] - start[c] <= m * (live.time - target)
    <3>1. D <= m * (p + r)
      BY <2>3, <2>6, <2>11, <2>13 DEF Between
    <3>2. live.cum[c] - after.cum[c] <= m * (live.time - after.time)
      BY <2>11, <2>13 DEF Between
    <3>3. D - x <= m * r
      BY <2>7, <3>1, InterpolationBounds
    <3>4. m * (live.time - target) = m * (live.time - after.time) + m * r
      BY ONLY <1>1, <2>2, <2>10, m \in Int
    <3>5. m * (live.time - after.time) \in Int /\ m * r \in Int
      BY ONLY <1>1, <2>2, m \in Int
    <3> QED
      BY ONLY <1>3, <2>8, <2>9, <3>2, <3>3, <3>4, <3>5, D \in Int
  <2> QED
    BY <2>5, <2>12, <2>13
<1> QED
  BY <1>4, <1>5

\* The observation a window starts from, and what is cumulated over the window.
LEMMA WindowBounds ==
    ASSUME NEW f, FeedTyped(f), f.count > 0, NEW s, NEW live \in Snapshots,
           Follows(f, s, live), NEW w \in Nat \ {0}, Reaches(f, live, w),
           NEW since, since = History(f)[Before(f, live.time - w)].time
    PROVE  /\ since \in Nat /\ since <= live.time - w
           /\ CumAt(f, live, live.time - w) \in [Pair -> Int]
           /\ \A c \in Pair, m \in Int :
                 /\ (\A i \in since + 1 .. live.time : m <= s[i][c])
                       => m * w <= live.cum[c] - CumAt(f, live, live.time - w)[c]
                 /\ (\A i \in since + 1 .. live.time : s[i][c] <= m)
                       => live.cum[c] - CumAt(f, live, live.time - w)[c] <= m * w
<1>1. /\ History(f) \in Seq(Snapshots) /\ Len(History(f)) = f.count
      /\ \A i \in 1 .. f.count : \E k \in 0 .. f.count - 1 : History(f)[i] = f.ring[k]
  BY HistoryIs
<1>2. f.count \in Nat \ {0} /\ live.time \in Nat /\ live.cum \in [Pair -> Nat]
  BY TwapAssumption DEF FeedTyped, Snapshots
<1>3. PICK target \in Nat : target = live.time - w
  BY <1>2 DEF Reaches
<1> DEFINE S == {i \in 1 .. f.count : History(f)[i].time <= target}
<1>4. PICK b \in S : b = Before(f, target) /\ \A i \in S : i <= b
  <2>1. 1 \in S
    BY <1>2, <1>3 DEF Reaches
  <2>2. S \subseteq 1 .. f.count
    OBVIOUS
  <2>3. IsFiniteSet(S) /\ S # {} /\ \A i \in S : i \in Int
    <3>1. PICK n \in Nat : n = f.count
      BY <1>2
    <3>2. IsFiniteSet(1 .. n)
      BY FS_Interval
    <3> HIDE DEF S
    <3>3. IsFiniteSet(S)
      BY <2>2, <3>1, <3>2, FS_Subset
    <3> QED
      BY <2>1, <2>2, <3>1, <3>3
  <2>4. Before(f, target) = Max(S)
    BY DEF Before
  <2> HIDE DEF S
  <2>5. Max(S) \in S /\ \A i \in S : i <= Max(S)
    BY <2>3, GreatestOf
  <2> QED
    BY <2>4, <2>5
<1>5. PICK k \in 0 .. f.count - 1 : History(f)[b] = f.ring[k]
  BY <1>1
<1>6. PICK before \in Snapshots : before = History(f)[b]
  BY <1>1
<1>7. before.time <= target /\ since = before.time /\ before = f.ring[k]
  BY <1>3, <1>4, <1>5, <1>6
<1>8. PICK after \in Snapshots :
        /\ after = Append(History(f), live)[b + 1]
        /\ target < after.time /\ Between(s, before, after) /\ Between(s, after, live)
  <2>1. CASE b = f.count
    <3>1. Append(History(f), live)[b + 1] = live
      BY <1>1, <1>2, <2>1
    <3>2. target < live.time
      BY <1>2, <1>3
    <3>3. Between(s, before, live) /\ Between(s, live, live)
      BY <1>7, BetweenSame DEF Follows
    <3> QED
      BY <3>1, <3>2, <3>3
  <2>2. CASE b # f.count
    <3>1. b + 1 \in 1 .. f.count
      BY <1>2, <2>2
    <3>2. Append(History(f), live)[b + 1] = History(f)[b + 1]
      BY <1>1, <3>1
    <3>3. PICK l \in 0 .. f.count - 1 : History(f)[b + 1] = f.ring[l]
      BY <1>1, <3>1
    <3>4. PICK next \in Snapshots : next = f.ring[l] /\ next = History(f)[b + 1]
      BY <1>1, <3>1, <3>3
    <3>5. next.time \in Nat /\ before.time \in Nat
      BY DEF Snapshots
    <3>6. b + 1 \notin S
      BY <1>2, <1>4
    <3>7. target < next.time
      BY <3>1, <3>4, <3>5, <3>6
    <3>8. f.ring[k].time <= f.ring[l].time
      BY <1>7, <3>4, <3>5, <3>7
    <3>9. Between(s, before, next) /\ Between(s, next, live)
      BY <1>7, <3>4, <3>8 DEF Follows
    <3> QED
      BY <3>2, <3>4, <3>7, <3>9
  <2> QED
    BY <2>1, <2>2
<1>9. CumAt(f, live, target) = IF before.time = target THEN before.cum
                               ELSE Interpolated(before, after, target)
  BY <1>4, <1>6, <1>8 DEF CumAt
<1>10. live.time - target = w
  BY <1>2, <1>3
<1>11. since \in Nat
  BY <1>7 DEF Snapshots
<1>12. PICK start : start = CumAt(f, live, target)
  OBVIOUS
<1>13. ASSUME NEW c \in Pair
       PROVE  /\ start \in [Pair -> Int]
              /\ \A m \in Int :
                   /\ (\A i \in since + 1 .. live.time : m <= s[i][c])
                        => m * w <= live.cum[c] - start[c]
                   /\ (\A i \in since + 1 .. live.time : s[i][c] <= m)
                        => live.cum[c] - start[c] <= m * w
  <2>1. /\ start \in [Pair -> Int]
        /\ \A m \in Int :
             /\ (\A i \in before.time + 1 .. live.time : m <= s[i][c])
                  => m * (live.time - target) <= live.cum[c] - start[c]
             /\ (\A i \in before.time + 1 .. live.time : s[i][c] <= m)
                  => live.cum[c] - start[c] <= m * (live.time - target)
    <3>1. start = IF before.time = target THEN before.cum
                  ELSE Interpolated(before, after, target)
      BY <1>9, <1>12
    <3>2. before.time <= target /\ target < after.time
      BY <1>7, <1>8
    <3>3. Between(s, before, after) /\ Between(s, after, live)
      BY <1>8
    <3>4. start \in [Pair -> Int]
      BY <3>1, <3>2, <3>3, FromTheStart
    <3>5. ASSUME NEW m \in Int
          PROVE  (\A i \in before.time + 1 .. live.time : m <= s[i][c])
                   => m * (live.time - target) <= live.cum[c] - start[c]
      BY <3>1, <3>2, <3>3, FromTheStart
    <3>6. ASSUME NEW m \in Int
          PROVE  (\A i \in before.time + 1 .. live.time : s[i][c] <= m)
                   => live.cum[c] - start[c] <= m * (live.time - target)
      BY <3>1, <3>2, <3>3, FromTheStart
    <3> QED
      BY <3>4, <3>5, <3>6
  <2> QED
    BY <2>1, <1>7, <1>10
<1> QED
  BY <1>3, <1>7, <1>11, <1>12, <1>13, PairIsTwo

\* The average over a window that the feed reaches is a natural number, between
\* the prices in force since the observation the window starts from.
LEMMA AverageIsOfSpots ==
    ASSUME reserve \in [Pair -> Nat], SpotsAreCurrent,
           NEW f, FeedTyped(f), f.count > 0, Follows(f, spots, Synced),
           NEW w \in Nat \ {0}, Reaches(f, Synced, w)
    PROVE  AverageOfSpots(f, w) /\ Average(f, Synced, w) \in [Pair -> Nat]
<1>1. PICK live \in Snapshots : live = Synced /\ live.time = clock
  BY SyncedFollows
<1>2. clock \in Nat /\ spots \in Seq([Pair -> Nat]) /\ Len(spots) = clock
  BY DEF SpotsAreCurrent
<1>3. PICK since : since = History(f)[Before(f, clock - w)].time
  OBVIOUS
<1>4. PICK start : start = CumAt(f, live, clock - w)
  OBVIOUS
<1>5. since \in Nat /\ since <= clock - w /\ start \in [Pair -> Int]
  <2>1. since = History(f)[Before(f, live.time - w)].time
    BY <1>1, <1>3
  <2>2. Follows(f, spots, live) /\ Reaches(f, live, w)
    BY <1>1
  <2>3. /\ since \in Nat /\ since <= live.time - w
        /\ CumAt(f, live, live.time - w) \in [Pair -> Int]
    BY <2>1, <2>2, WindowBounds
  <2> QED
    BY <1>1, <1>4, <2>3
<1>6. ASSUME NEW c \in Pair, NEW m \in Int
      PROVE  /\ (\A i \in since + 1 .. clock : m <= spots[i][c])
                   => m * w <= live.cum[c] - start[c]
             /\ (\A i \in since + 1 .. clock : spots[i][c] <= m)
                   => live.cum[c] - start[c] <= m * w
  <2>1. since = History(f)[Before(f, live.time - w)].time
    BY <1>1, <1>3
  <2>2. Follows(f, spots, live) /\ Reaches(f, live, w)
    BY <1>1
  <2>3. (\A i \in since + 1 .. live.time : m <= spots[i][c])
          => m * w <= live.cum[c] - CumAt(f, live, live.time - w)[c]
    BY <2>1, <2>2, WindowBounds
  <2>4. (\A i \in since + 1 .. live.time : spots[i][c] <= m)
          => live.cum[c] - CumAt(f, live, live.time - w)[c] <= m * w
    BY <2>1, <2>2, WindowBounds
  <2> QED
    BY <1>1, <1>4, <2>3, <2>4
<1>7. Average(f, Synced, w) = [c \in Pair |-> (live.cum[c] - start[c]) \div w]
  BY <1>1, <1>4 DEF Average
<1>8. ASSUME NEW c \in Pair
      PROVE  /\ Average(f, Synced, w)[c] \in Nat
             /\ Average(f, Synced, w)[c] \in Min(SpotsSince(c, since)) .. Max(SpotsSince(c, since))
  <2> DEFINE prices == SpotsSince(c, since)
             spotAt == [i \in since + 1 .. clock |-> spots[i][c]]
  <2>1. PICK grown \in Int : grown = live.cum[c] - start[c]
    BY <1>5 DEF Snapshots
  <2>2. PICK avg : avg = grown \div w
    OBVIOUS
  <2>3. Average(f, Synced, w)[c] = avg
    BY <1>7, <2>1, <2>2
  <2>4. avg \in Int
    BY <2>2, QuotientBounds
  <2>5. \A i \in since + 1 .. clock : spots[i][c] \in Nat
    BY <1>2, <1>5
  <2>6. IsFiniteSet(prices) /\ prices # {} /\ \A x \in prices : x \in Nat
    <3>1. IsFiniteSet(since + 1 .. clock)
      <4>1. since + 1 \in Int /\ clock \in Int
        BY <1>2, <1>5
      <4> QED
        BY <4>1, FS_Interval
    <3>2. prices = {spotAt[i] : i \in since + 1 .. clock}
      BY DEF SpotsSince
    <3>3. IsFiniteSet(prices)
      <4> HIDE DEF spotAt
      <4>1. IsFiniteSet({spotAt[i] : i \in since + 1 .. clock})
        BY <3>1, ValuesFinite
      <4> QED
        BY <3>2, <4>1
    <3>4. since + 1 \in since + 1 .. clock
      BY <1>2, <1>5
    <3>5. prices # {}
      BY <3>4 DEF SpotsSince
    <3>6. \A x \in prices : x \in Nat
      BY <2>5 DEF SpotsSince
    <3> QED
      BY <3>3, <3>5, <3>6
  <2>7. \A i \in since + 1 .. clock : spots[i][c] \in prices
    BY DEF SpotsSince
  <2> HIDE DEF prices
  <2>8. Min(prices) \in Nat /\ \A x \in prices : Min(prices) <= x
    BY <2>6, LeastOf
  <2>9. Max(prices) \in Nat /\ \A x \in prices : x <= Max(prices)
    BY <2>6, GreatestOf
  <2>10. PICK low \in Nat : low = Min(prices)
    BY <2>8
  <2>11. PICK high \in Nat : high = Max(prices)
    BY <2>9
  <2>12. low * w <= grown
    BY <1>6, <2>1, <2>7, <2>8, <2>10
  <2>13. grown <= high * w
    BY <1>6, <2>1, <2>7, <2>9, <2>11
  <2>14. low <= avg /\ avg <= high
    BY <2>2, <2>12, <2>13, QuotientBounds
  <2>15. avg \in Nat /\ avg \in low .. high
    BY <2>4, <2>14
  <2> QED
    BY <2>3, <2>10, <2>11, <2>15 DEF prices
<1>9. AverageOfSpots(f, w)
  BY <1>3, <1>8 DEF AverageOfSpots
<1>10. Average(f, Synced, w) \in [Pair -> Nat]
  BY <1>7, <1>8
<1> QED
  BY <1>9, <1>10

\* A ring that is not full keeps its oldest observation.
LEMMA OldestStays ==
    ASSUME NEW f, FeedTyped(f), f.count > 0, f.count < RingSize,
           NEW now \in Snapshots
    PROVE  OldestIndex(Recorded(f, now)) = 0 /\ Recorded(f, now).ring[0] = f.ring[0]
<1>1. /\ f.index \in Nat \ {0} /\ f.index = f.count /\ f.ring \in [Slots -> Snapshots]
      /\ f.index \in Slots /\ 0 \in Slots /\ RingSize \in Nat \ {0}
  BY TwapAssumption DEF FeedTyped, Slots
<1>2. CASE Recorded(f, now) = f
  BY <1>2 DEF OldestIndex
<1>3. CASE Recorded(f, now) # f
  <2>1. Recorded(f, now) = [ring |-> [f.ring EXCEPT ![f.index] = now],
                            index |-> (f.index + 1) % RingSize,
                            count |-> Min({f.count + 1, RingSize})]
    BY <1>3 DEF Recorded
  <2>2. Recorded(f, now).ring[0] = f.ring[0]
    BY <1>1, <2>1
  <2>3. PICK x \in Nat : x = f.count + 1 /\ x <= RingSize
    BY <1>1
  <2>4. Recorded(f, now).index = x % RingSize /\ Recorded(f, now).count = Min({x, RingSize})
    BY <1>1, <2>1, <2>3
  <2>5. CASE x = RingSize
    <3>1. x % RingSize = 0
      BY <1>1, <2>5
    <3> QED
      BY <2>2, <2>4, <3>1 DEF OldestIndex
  <2>6. CASE x < RingSize
    <3>1. x \in Int /\ RingSize \in Int
      BY <1>1
    <3>2. Min({x, RingSize}) <= x /\ Min({x, RingSize}) \in {x, RingSize}
      BY ONLY <3>1, LeastOfTwo
    <3>3. Min({x, RingSize}) < RingSize
      BY ONLY <3>1, <3>2, <2>6
    <3> QED
      BY <2>2, <2>4, <3>3 DEF OldestIndex
  <2> QED
    BY <1>1, <2>2, <2>3, <2>5, <2>6
<1> QED
  BY <1>2, <1>3

\* A window that was there before the consultation recorded is reached, unless
\* the record took the place of the oldest one.
LEMMA PromiseIsKept ==
    ASSUME reserve \in [Pair -> Nat], SpotsAreCurrent, feed # NoFeed,
           FeedTyped(feed), feed.count > 0,
           NEW f, f = Recorded(feed, Synced), FeedTyped(f), f.count > 0,
           Follows(f, spots, Synced), NEW w \in Windows
    PROVE  PromiseKept(f, w)
<1>1. w \in Nat \ {0}
  BY TwapAssumption
<1>2. Synced \in Snapshots /\ Synced.time = clock /\ clock \in Nat
  BY SyncedFollows DEF SpotsAreCurrent
<1>3. ASSUME Reaches(f, Synced, w)
      PROVE  Consulted(w) # NoPrice \/ \E c \in Pair : Average(f, Synced, w)[c] = 0
  <2>1. Average(f, Synced, w) \in [Pair -> Nat]
    BY <1>1, <1>3, AverageIsOfSpots
  <2>2. ASSUME \A c \in Pair : Average(f, Synced, w)[c] # 0
        PROVE  Consulted(w) # NoPrice
    <3>1. \A c \in Pair : Average(f, Synced, w)[c] > 0
      BY <2>1, <2>2
    <3>2. Consulted(w) = Average(f, Synced, w)
      BY <1>3, <3>1 DEF Consulted
    <3>3. Average(f, Synced, w) \in [Pair -> Int]
      BY <2>1
    <3> QED
      BY <3>2, <3>3, TwapAssumption
  <2> QED
    BY <2>2
<1>4. ASSUME HasTwap(w), ~Reaches(f, Synced, w)
      PROVE  feed.count = RingSize /\ f # feed
  <2>1. History(feed) \in Seq(Snapshots) /\ Len(History(feed)) = feed.count
    BY HistoryIs
  <2>2. History(f) \in Seq(Snapshots) /\ Len(History(f)) = f.count
    BY HistoryIs
  <2>3. feed.count \in Nat \ {0} /\ f.count \in Nat \ {0} /\ RingSize \in Nat
        /\ feed.count <= RingSize
    BY TwapAssumption DEF FeedTyped
  <2>4. PICK old \in Snapshots : old = History(feed)[1]
    BY <2>1, <2>3
  <2>5. PICK new \in Snapshots : new = History(f)[1]
    BY <2>2, <2>3
  <2>6. old.time \in Nat /\ new.time \in Nat
    BY DEF Snapshots
  <2>7. clock - old.time >= w
    BY <1>4, <2>4 DEF HasTwap
  <2>8. ~ (clock >= w /\ new.time <= clock - w)
    BY <1>2, <1>4, <2>5 DEF Reaches
  <2>9. old # new
    BY <1>1, <1>2, <2>6, <2>7, <2>8
  <2>10. f # feed
    BY <2>4, <2>5, <2>9
  <2>11. ASSUME feed.count < RingSize PROVE FALSE
    <3>1. OldestIndex(f) = 0 /\ f.ring[0] = feed.ring[0]
      BY <1>2, <2>11, OldestStays
    <3>2. OldestIndex(feed) = 0
      BY <2>11 DEF OldestIndex
    <3>3. History(f)[1] = f.ring[0] /\ History(feed)[1] = feed.ring[0]
      BY <3>1, <3>2, HistoryIs
    <3> QED
      BY <2>4, <2>5, <2>9, <3>1, <3>3
  <2> QED
    BY <2>3, <2>10, <2>11
<1> QED
  BY <1>3, <1>4 DEF PromiseKept

-----------------------------------------------------------------------------
\* The steps of the market.

\* What a history of prices says of two observations is not changed by what is
\* appended to it later.
LEMMA BetweenExtends ==
    ASSUME NEW s, NEW t, NEW n \in Nat, \A i \in 1 .. n : t[i] = s[i],
           NEW o \in Snapshots, NEW p \in Snapshots, p.time <= n, Between(s, o, p)
    PROVE  Between(t, o, p)
<1>1. o.time \in Nat /\ p.time \in Nat
  BY DEF Snapshots
<1>2. \A i \in o.time + 1 .. p.time : t[i] = s[i]
  BY <1>1
<1> QED
  BY <1>2 DEF Between

\* A step that synchronizes, and may record in the feed.
LEMMA SyncKeeps ==
    ASSUME reserve \in [Pair -> Nat], SpotsAreCurrent, FeedFollows,
           accumulator' = Synced, UNCHANGED <<clock, spots>>,
           \/ feed' = feed
           \/ feed # NoFeed /\ feed' = Recorded(feed, Synced)
           \/ feed' = Recorded([index |-> 0, count |-> 0,
                                ring |-> [i \in Slots |-> Synced]], Synced)
    PROVE  SpotsAreCurrent' /\ FeedFollows'
<1>1. Synced \in Snapshots /\ Synced.time = clock /\ Between(spots, accumulator, Synced)
  BY SyncedFollows
<1>2. accumulator \in Snapshots /\ clock \in Nat
  BY DEF SpotsAreCurrent
<1>3. SpotsAreCurrent'
  <2>1. accumulator' \in Snapshots /\ accumulator'.time = clock'
    BY <1>1
  <2>2. \A i \in accumulator'.time + 1 .. clock' : FALSE
    BY <1>2, <2>1
  <2> QED
    BY <1>2, <2>1, <2>2 DEF SpotsAreCurrent
<1>4. ASSUME feed' = feed PROVE FeedFollows'
  <2> SUFFICES ASSUME feed # NoFeed
               PROVE  FeedTyped(feed) /\ feed.count > 0 /\ Follows(feed, spots, Synced)
    BY <1>4 DEF FeedFollows
  <2>1. FeedTyped(feed) /\ feed.count > 0 /\ Follows(feed, spots, accumulator)
    BY DEF FeedFollows
  <2>2. \A k \in 0 .. feed.count - 1 : feed.ring[k] \in Snapshots
    BY <2>1, TwapAssumption DEF FeedTyped, Slots
  <2>3. ASSUME NEW k \in 0 .. feed.count - 1 PROVE Between(spots, feed.ring[k], Synced)
    BY <1>1, <1>2, <2>1, <2>2, BetweenComposes DEF Follows
  <2> QED
    BY <2>1, <2>3 DEF Follows
<1>5. ASSUME NEW f, FeedTyped(f), Follows(f, spots, accumulator), feed' = Recorded(f, Synced)
      PROVE  FeedFollows'
  <2>1. /\ FeedTyped(Recorded(f, Synced)) /\ Recorded(f, Synced).count > 0
        /\ Follows(Recorded(f, Synced), spots, Synced)
    BY <1>1, <1>2, <1>5, RecordingKeeps
  <2>2. FeedTyped(feed') /\ feed'.count > 0 /\ Follows(feed', spots', accumulator')
    BY <1>5, <2>1
  <2> QED
    BY <2>2 DEF FeedFollows
<1>6. ASSUME feed # NoFeed, feed' = Recorded(feed, Synced) PROVE FeedFollows'
  BY <1>5, <1>6 DEF FeedFollows
<1>7. ASSUME feed' = Recorded([index |-> 0, count |-> 0,
                               ring |-> [i \in Slots |-> Synced]], Synced)
      PROVE  FeedFollows'
  <2>1. PICK f : f = [index |-> 0, count |-> 0, ring |-> [i \in Slots |-> Synced]]
    OBVIOUS
  <2>2. FeedTyped(f)
    BY <1>1, <2>1, TwapAssumption DEF FeedTyped, Slots
  <2>3. Follows(f, spots, accumulator)
    BY <2>1 DEF Follows
  <2> QED
    BY <1>5, <1>7, <2>1, <2>2, <2>3
<1> QED
  BY <1>3, <1>4, <1>6, <1>7

\* Time passes at the prices of now.
LEMMA TimeKeeps ==
    ASSUME reserve \in [Pair -> Nat], SpotsAreCurrent, FeedFollows,
           NEW seconds \in Closings, TimePasses(seconds)
    PROVE  SpotsAreCurrent' /\ FeedFollows'
<1>1. /\ clock' = clock + seconds /\ UNCHANGED <<reserve, accumulator, feed>>
      /\ spots' = spots \o [i \in 1 .. seconds |-> Spot(reserve)]
  BY DEF TimePasses, LedgerCloses, poolVars
<1>2. /\ spots \in Seq([Pair -> Nat]) /\ Len(spots) = clock /\ clock \in Nat
      /\ accumulator \in Snapshots /\ accumulator.time <= clock /\ seconds \in Nat
      /\ accumulator.time \in Nat
      /\ \A i \in accumulator.time + 1 .. clock : spots[i] = Spot(reserve)
  BY AmmAssumption DEF SpotsAreCurrent, Snapshots
<1>3. PICK spot \in [Pair -> Nat] : spot = Spot(reserve)
  BY SpotIs
<1> DEFINE more == [i \in 1 .. seconds |-> spot]
<1>4. more \in Seq([Pair -> Nat]) /\ Len(more) = seconds /\ \A i \in 1 .. seconds : more[i] = spot
  BY <1>2
<1>5. spots' = spots \o more
  BY <1>1, <1>3
<1> HIDE DEF more
<1>6. /\ spots' \in Seq([Pair -> Nat]) /\ Len(spots') = clock'
      /\ \A i \in 1 .. clock : spots'[i] = spots[i]
      /\ \A i \in clock + 1 .. clock' : spots'[i] = spot
  <2>1. spots' \in Seq([Pair -> Nat]) /\ Len(spots') = clock + seconds
    <3>1. spots \in Seq([Pair -> Nat]) /\ more \in Seq([Pair -> Nat])
      BY <1>2, <1>4
    <3>2. /\ spots \o more \in Seq([Pair -> Nat])
          /\ Len(spots \o more) = Len(spots) + Len(more)
      BY ONLY <3>1
    <3> QED
      BY <1>2, <1>4, <1>5, <3>2
  <2>2. ASSUME NEW i \in 1 .. clock PROVE spots'[i] = spots[i]
    BY <1>2, <1>4, <1>5
  <2>3. ASSUME NEW i \in clock + 1 .. clock + seconds PROVE spots'[i] = spot
    <3>1. i - clock \in 1 .. seconds /\ spots'[i] = more[i - clock]
      BY <1>2, <1>4, <1>5
    <3> QED
      BY <1>4, <3>1
  <2> QED
    BY <1>1, <2>1, <2>2, <2>3
<1>7. SpotsAreCurrent'
  <2>1. ASSUME NEW i \in accumulator.time + 1 .. clock' PROVE spots'[i] = spot
    <3>1. CASE i \in 1 .. clock
      <4>1. spots'[i] = spots[i]
        BY <1>6, <3>1
      <4>2. i \in accumulator.time + 1 .. clock
        BY <1>2, <2>1, <3>1
      <4>3. spots[i] = Spot(reserve)
        BY <1>2, <4>2
      <4> QED
        BY <1>3, <4>1, <4>3
    <3>2. CASE i \in clock + 1 .. clock'
      BY <1>6, <3>2
    <3>3. PICK a \in Nat : a = accumulator.time
      BY <1>2
    <3>4. i \in a + 1 .. clock + seconds
      BY <1>1, <3>3
    <3>5. i \in 1 .. clock \/ i \in clock + 1 .. clock + seconds
      BY ONLY <1>2, <3>4, a \in Nat
    <3> QED
      BY <1>1, <3>1, <3>2, <3>5
  <2>2. accumulator.time <= clock' /\ clock' \in Nat
    BY <1>1, <1>2
  <2> QED
    BY <1>1, <1>2, <1>3, <1>6, <2>1, <2>2 DEF SpotsAreCurrent
<1>8. FeedFollows'
  <2> SUFFICES ASSUME feed # NoFeed
               PROVE  FeedTyped(feed) /\ feed.count > 0 /\ Follows(feed, spots', accumulator)
    BY <1>1 DEF FeedFollows
  <2>1. FeedTyped(feed) /\ feed.count > 0 /\ Follows(feed, spots, accumulator)
    BY DEF FeedFollows
  <2>2. ASSUME NEW k \in 0 .. feed.count - 1
        PROVE  /\ feed.ring[k] \in Snapshots /\ feed.ring[k].time \in Nat
               /\ feed.ring[k].time <= clock
    <3>1. feed.ring[k] \in Snapshots
      BY <2>1, TwapAssumption DEF FeedTyped, Slots
    <3>2. feed.ring[k].time <= accumulator.time
      BY <2>1 DEF Follows, Between
    <3>3. feed.ring[k].time \in Nat
      BY <3>1 DEF Snapshots
    <3> QED
      BY <1>2, <3>1, <3>2, <3>3
  <2>3. ASSUME NEW k \in 0 .. feed.count - 1 PROVE Between(spots', feed.ring[k], accumulator)
    <3>1. Between(spots, feed.ring[k], accumulator)
      BY <2>1 DEF Follows
    <3> QED
      BY <1>2, <1>6, <2>2, <3>1, BetweenExtends
  <2>4. ASSUME NEW k \in 0 .. feed.count - 1, NEW l \in 0 .. feed.count - 1,
               feed.ring[k].time <= feed.ring[l].time
        PROVE  Between(spots', feed.ring[k], feed.ring[l])
    <3>1. Between(spots, feed.ring[k], feed.ring[l])
      BY <2>1, <2>4 DEF Follows
    <3> QED
      BY <1>2, <1>6, <2>2, <3>1, BetweenExtends
  <2> QED
    BY <2>1, <2>3, <2>4 DEF Follows
<1> QED
  BY <1>7, <1>8

\* Every step, and every stutter, keeps the invariant.
LEMMA TwapStep ==
    ASSUME TwapInv, [TwapNext]_marketVars
    PROVE  TwapInv'
<1>1. AmmInv /\ SpotsAreCurrent /\ FeedFollows /\ reserve \in [Pair -> Nat]
  BY DEF TwapInv, AmmInv, AmmTypes
<1>2. ASSUME AmmTrades, UNCHANGED twapVars PROVE TwapInv'
  <2>1. AmmInv'
    BY <1>1, <1>2, AmmStep DEF AmmNext
  <2>2. accumulator' = Synced /\ clock' = clock
    BY <1>2 DEF AmmTrades, AddLiquidity, RemoveLiquidity, Swap, SwapReserves
  <2>3. SpotsAreCurrent' /\ FeedFollows'
    BY <1>1, <1>2, <2>2, SyncKeeps DEF twapVars
  <2> QED
    BY <2>1, <2>3 DEF TwapInv
<1>3. ASSUME SyncOracle, UNCHANGED spots,
             \/ feed' = feed
             \/ feed # NoFeed /\ feed' = Recorded(feed, Synced)
             \/ feed' = Recorded([index |-> 0, count |-> 0,
                                  ring |-> [i \in Slots |-> Synced]], Synced)
      PROVE  TwapInv'
  <2>1. AmmInv'
    BY <1>1, <1>3, AmmStep DEF AmmNext
  <2>2. accumulator' = Synced /\ clock' = clock
    BY <1>3 DEF SyncOracle
  <2>3. SpotsAreCurrent' /\ FeedFollows'
    BY <1>1, <1>3, <2>2, SyncKeeps
  <2> QED
    BY <2>1, <2>3 DEF TwapInv
<1>4. ASSUME NEW seconds \in Closings, TimePasses(seconds) PROVE TwapInv'
  <2>1. AmmInv'
    BY <1>1, <1>4, AmmStep DEF AmmNext, TimePasses
  <2> QED
    BY <1>1, <1>4, <2>1, TimeKeeps DEF TwapInv
<1>5. CASE UNCHANGED marketVars
  <2>1. AmmInv'
    BY <1>1, <1>5, AmmStep DEF marketVars
  <2>2. UNCHANGED <<reserve, accumulator, clock, feed, spots>>
    BY <1>5 DEF marketVars, ammVars, poolVars, twapVars
  <2>3. SpotsAreCurrent' /\ FeedFollows'
    BY <1>1, <2>2 DEF SpotsAreCurrent, FeedFollows
  <2> QED
    BY <2>1, <2>3 DEF TwapInv
<1>6. ASSUME RegisterPool \/ Observe \/ Sync \/ \E window \in Windows : Consult(window)
      PROVE  TwapInv'
  BY <1>3, <1>6 DEF RegisterPool, Observe, Sync, Consult, twapVars
<1> QED
  BY <1>2, <1>4, <1>5, <1>6 DEF TwapNext, Trade

\* Averages between the prices that were in force, and no promise of has_twap
\* broken but in the two known ways, for any ring, interval, windows, amounts
\* and fee (oracle.rs:70-105, lib.rs:353-500, vault lib.rs:654-675).
THEOREM AveragesAreOfSpots == TwapSpec => []TwapHolds
<1>1. TwapInit => TwapInv
  <2> SUFFICES ASSUME TwapInit PROVE TwapInv
    OBVIOUS
  <2>1. AmmInv /\ feed = NoFeed /\ spots = <<>> /\ clock = 0
    BY AmmStarts DEF TwapInit, AmmInit
  <2>2. accumulator = [cum |-> [c \in Pair |-> 0], time |-> clock]
    BY DEF TwapInit, AmmInit
  <2>3. SpotsAreCurrent
    BY <2>1, <2>2 DEF SpotsAreCurrent, Snapshots
  <2> QED
    BY <2>1, <2>3 DEF TwapInv, FeedFollows
<1>2. TwapInv /\ [TwapNext]_marketVars => TwapInv'
  BY TwapStep
<1>3. TwapInv => TwapHolds
  <2> SUFFICES ASSUME TwapInv, feed # NoFeed, NEW f, f = Recorded(feed, Synced),
                      NEW w \in Windows
               PROVE  /\ Reaches(f, Synced, w) => AverageOfSpots(f, w)
                      /\ PromiseKept(f, w)
    BY DEF TwapHolds
  <2>1. /\ reserve \in [Pair -> Nat] /\ SpotsAreCurrent
        /\ FeedTyped(feed) /\ feed.count > 0 /\ Follows(feed, spots, accumulator)
    BY DEF TwapInv, AmmInv, AmmTypes, FeedFollows
  <2>2. accumulator \in Snapshots /\ Synced \in Snapshots /\ Between(spots, accumulator, Synced)
    BY <2>1, SyncedFollows DEF SpotsAreCurrent
  <2>3. FeedTyped(f) /\ f.count > 0 /\ Follows(f, spots, Synced)
    BY <2>1, <2>2, RecordingKeeps
  <2>4. Reaches(f, Synced, w) => AverageOfSpots(f, w)
    BY <2>1, <2>3, AverageIsOfSpots, TwapAssumption
  <2>5. PromiseKept(f, w)
    BY <2>1, <2>3, PromiseIsKept
  <2> QED
    BY <2>4, <2>5
<1> QED
  BY <1>1, <1>2, <1>3, PTL DEF TwapSpec

=============================================================================
