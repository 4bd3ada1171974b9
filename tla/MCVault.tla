------------------------------ MODULE MCVault ------------------------------
(* Two users and two collaterals with different limits; the server's mirror *)
(* of a vault, which calls the contract only to simulate; an AMM pool that  *)
(* two users fill, trade in and empty; its TWAP through a ring of two       *)
(* observations; and the lending pool that sells collateral in it.          *)
EXTENDS Vault, VaultMirror, TwapOracle, LendingPool, TLC

CONSTANTS u1, u2, t1, t2, q, r1, r2, r3

VARIABLE scenario

MCUsers == {u1, u2}
TwoTokens == <<t1, t2>>
\* The default limits and a stricter pair, with a penalty that shows in units.
Default == [min |-> 15000, threshold |-> 13000, penalty |-> 5000]
Strict == [min |-> 20000, threshold |-> 17000, penalty |-> 5000]
\* Refused by set_collateral_config.
Lax == [min |-> 14000, threshold |-> 14000, penalty |-> 5000]
MCConfigs == {Default, Strict, Lax}
MCRequests == {r1, r2, r3}
Symmetry == Permutations(MCUsers)
\* A dollar and two dollars.
MCPrices == {2, 4}

MCCoins == {t1, t2, q}
MCWindows == {1, 2, 3}
Wide == [ltv |-> 5000, threshold |-> 7500, bonus |-> 1000, active |-> TRUE]
\* Borrowing above the threshold; no further deposits.
Reckless == [ltv |-> 10000, threshold |-> 5000, bonus |-> 1000, active |-> FALSE]
MCAssetConfigs == {Wide, Reckless}

Scenarios == {"contract", "mirror", "pool", "twap", "lending"}

\* A user has put four of each coin into the pool before and has the coins of
\* mine left; the others have those of theirs.
Filled(mine, theirs) ==
    /\ reserve = [c \in Pair |-> 4] /\ totalShares = 4
    /\ \E u \in Providers :
          /\ shareBalance = [p \in Providers |-> IF p = u THEN 4 ELSE 0]
          /\ purse = [p \in Providers |-> IF p = u THEN mine ELSE theirs]
    /\ clock = 0 /\ accumulator = [cum |-> [c \in Pair |-> 0], time |-> 0]

\* Where a part has nothing to do, one initial state of it will do.
MCInit ==
    /\ scenario \in Scenarios
    /\ Init /\ MirrorInit
    /\ scenario # "contract" => price = [t \in Tokens |-> 2]
    /\ CASE scenario = "twap" -> Filled([c \in Coins |-> 0], [c \in Coins |-> 4])
         [] scenario = "lending" -> Filled([c \in Coins |-> IF c = Quote THEN 2 ELSE 0],
                                           [c \in Coins |-> IF c = Base THEN 4
                                                             ELSE IF c = t2 THEN 2 ELSE 0])
         [] OTHER -> AmmInit
    /\ feed = NoFeed /\ spots = <<>>
    /\ LendInit
    /\ quoted = [a \in Assets |-> [price |-> 8, fresh |-> TRUE]]

\* At most two swaps, of one size, and the pool emptied.
Coarse ==
    \/ UNCHANGED reserve
    \/ totalShares' = 0
    \/ /\ totalShares' = totalShares
       /\ \E c \in Pair : reserve'[c] = reserve[c] + 4
       /\ reserve'[Base] + reserve'[Quote] <= 11

\* The second asset keeps its price and is configured once.
Steady ==
    /\ quoted'[t2] = quoted[t2]
    /\ assetConfig'[t2] \in {NoAsset, Wide}

MCNext ==
    /\ UNCHANGED scenario
    /\ IF scenario = "contract" THEN Next ELSE UNCHANGED vars
    /\ IF scenario = "mirror" THEN MirrorNext ELSE UNCHANGED mirrorVars
    /\ CASE scenario = "pool" -> AmmTrades /\ UNCHANGED <<twapVars, lendVars>>
         [] scenario = "twap" -> TwapNext /\ Coarse /\ UNCHANGED lendVars
         [] scenario = "lending" ->
              /\ LendNext \/ \E p \in Providers, c \in Pair :
                               Swap(p, c, 4) /\ UNCHANGED lendVars
              /\ Steady /\ UNCHANGED twapVars
         [] OTHER -> UNCHANGED <<marketVars, lendVars>>

MCSpec ==
    MCInit /\ [][MCNext]_<<vars, mirrorVars, marketVars, lendVars, scenario>>
=============================================================================
