---------------------------- MODULE LendingPool ----------------------------
(***************************************************************************)
(* The lending pool (contracts/lending_pool/src/lib.rs, liquidation.rs)    *)
(* over the AMM pool that its flash liquidations sell collateral to and    *)
(* the flash-loan provider (contracts/flash_loan/src/lib.rs) that calls it *)
(* back.  Users are the providers of AmmPool; SMT is the pool's quote coin.*)
(*                                                                         *)
(* External: the coins, and the price oracle, whose prices may be stale.   *)
(* A flash liquidation is taken as the contract's tests run it, with every *)
(* transfer authorised: the AMM pulls the collateral from the lending pool *)
(* in a call of its own, for which the lending pool's code gives it none.  *)
(* Whoever sets one up may name another pool than the AMM pool: it pays    *)
(* what it pays, and what was approved to it counts as gone, taken or not. *)
(* The reentrancy flag is set and cleared within a call and left out.      *)
(***************************************************************************)
EXTENDS AmmPool

CONSTANTS
    Assets,         \* coins that may become collateral
    AssetConfigs,   \* arguments of set_asset_config
    AssetPrices,    \* prices the oracle may report, with PriceScale
    LendAmounts,    \* amounts of the calls
    MinOutputs,     \* min_swap_output of flash liquidations
    LendFunds,      \* SMT the pool starts with
    FlashFunds,     \* SMT the flash-loan provider starts with
    FlashFeeBps,    \* fee_bps of the flash-loan provider
    LoanFees,       \* fees named in direct calls of receive_loan
    OtherPays,      \* SMT another pool may pay for what it was approved
    NoAsset, NoFlash  \* unset storage keys

AssetConfig == [ltv : Nat, threshold : Nat, bonus : Nat, active : BOOLEAN]

ASSUME LendingAssumption ==
    /\ IsFiniteSet(Assets) /\ Assets \subseteq Coins \ {Quote}
    /\ AssetConfigs \subseteq AssetConfig /\ NoAsset \notin AssetConfig
    /\ AssetPrices \subseteq Nat \ {0} /\ LendAmounts \subseteq Nat \ {0}
    /\ MinOutputs \subseteq Nat /\ {LendFunds, FlashFunds, FlashFeeBps} \subseteq Nat
    /\ LoanFees \subseteq Int /\ OtherPays \subseteq Nat

VARIABLES
    assetConfig,    \* ConfigKey::AssetConfig
    quoted,         \* the oracle's price of each asset, and whether it is fresh
    collateral,     \* UserCollateral(user, asset)
    debt,           \* UserDebt(user)
    kept,           \* coins the pool holds
    flash,          \* PendingFlashLiquidate
    loanable        \* SMT of the flash-loan provider

positions == <<collateral, debt, kept>>
lendVars == <<assetConfig, quoted, positions, flash, loanable>>
lendingVars == <<ammVars, lendVars>>

-----------------------------------------------------------------------------
AssetValue(a, amount) == (amount * quoted[a].price) \div PriceScale

\* The value of a position, each asset weighted by a limit of its configuration.
Weighted(amounts, limit) ==
    SumFunction([a \in Assets |->
        IF amounts[a] = 0 \/ assetConfig[a] = NoAsset THEN 0
        ELSE (AssetValue(a, amounts[a]) * assetConfig[a][limit]) \div Bps])

\* ltv_adjusted_collateral and threshold_adjusted_collateral
BorrowPower(amounts) == Weighted(amounts, "ltv")
SafeValue(amounts) == Weighted(amounts, "threshold")

\* health_factor is at least one.
Sound(amounts, owed) ==
    owed > 0 => (SafeValue(amounts) * PriceScale) \div owed >= PriceScale

IsLiquidatable(u) == ~Sound(collateral[u], debt[u])

-----------------------------------------------------------------------------
(* A faulty variant of the definition below, caught by a property. *)

NewLoanOnly(u, new) == new - debt[u] <= BorrowPower(collateral[u])

-----------------------------------------------------------------------------
MayOwe(u, new) == new <= BorrowPower(collateral[u])

\* compute_collateral_to_seize, as far as the borrower has it.
Seized(u, a, amount) ==
    Min({(((amount * PriceScale) \div quoted[a].price) * (Bps + assetConfig[a].bonus)) \div Bps,
         collateral[u][a]})

-----------------------------------------------------------------------------
LendInit ==
    /\ assetConfig = [a \in Assets |-> NoAsset]
    /\ quoted \in [Assets -> [price : AssetPrices, fresh : {TRUE}]]
    /\ collateral = [u \in Providers |-> [a \in Assets |-> 0]]
    /\ debt = [u \in Providers |-> 0]
    /\ kept = [c \in Coins |-> IF c = Quote THEN LendFunds ELSE 0]
    /\ flash = NoFlash
    /\ loanable = FlashFunds

SetAssetConfig(a, c) ==
    /\ assetConfig' = [assetConfig EXCEPT ![a] = c]
    /\ UNCHANGED <<ammVars, quoted, positions, flash, loanable>>

\* The oracle gets a price, or its last one grows old.
ReportPrice(a, p) ==
    /\ quoted' = [quoted EXCEPT ![a] = p]
    /\ UNCHANGED <<ammVars, assetConfig, positions, flash, loanable>>

\* Between a user and the lending pool.
PaysIn(u, c, amount) ==
    /\ purse[u][c] >= amount
    /\ purse' = [purse EXCEPT ![u][c] = @ - amount]
    /\ kept' = [kept EXCEPT ![c] = @ + amount]

PaysOut(u, c, amount) ==
    /\ kept[c] >= amount
    /\ purse' = [purse EXCEPT ![u][c] = @ + amount]
    /\ kept' = [kept EXCEPT ![c] = @ - amount]

DepositAsset(u, a, amount) ==
    /\ assetConfig[a] # NoAsset /\ assetConfig[a].active
    /\ PaysIn(u, a, amount)
    /\ collateral' = [collateral EXCEPT ![u][a] = @ + amount]
    /\ UNCHANGED <<poolVars, clock, assetConfig, quoted, debt, flash, loanable>>

Withdraw(u, a, amount) ==
    LET rest == [collateral EXCEPT ![u][a] = @ - amount]
    IN
      /\ amount <= collateral[u][a]
      /\ Sound(rest[u], debt[u])
      /\ collateral' = rest
      /\ PaysOut(u, a, amount)
      /\ UNCHANGED <<poolVars, clock, assetConfig, quoted, debt, flash, loanable>>

Borrow(u, amount) ==
    /\ MayOwe(u, debt[u] + amount)
    /\ debt' = [debt EXCEPT ![u] = @ + amount]
    /\ PaysOut(u, Quote, amount)
    /\ UNCHANGED <<poolVars, clock, assetConfig, quoted, collateral, flash, loanable>>

Repay(u, amount) ==
    LET paid == Min({amount, debt[u]})
    IN
      /\ paid > 0
      /\ PaysIn(u, Quote, paid)
      /\ debt' = [debt EXCEPT ![u] = @ - paid]
      /\ UNCHANGED <<poolVars, clock, assetConfig, quoted, collateral, flash, loanable>>

\* What execute_liquidation and execute_flash_receive have in common: the
\* guards, and the seizure's effect on the borrower.
Seize(b, a, amount) ==
    /\ IsLiquidatable(b)
    /\ amount <= debt[b]
    /\ assetConfig[a] # NoAsset
    /\ Seized(b, a, amount) > 0
    /\ debt' = [debt EXCEPT ![b] = @ - amount]
    /\ collateral' = [collateral EXCEPT ![b][a] = @ - Seized(b, a, amount)]

LiquidateLoan(u, b, a, amount) ==
    /\ quoted[a].fresh
    /\ Seize(b, a, amount)
    /\ purse[u][Quote] >= amount
    /\ purse' = [purse EXCEPT ![u][Quote] = @ - amount, ![u][a] = @ + Seized(b, a, amount)]
    /\ kept' = [kept EXCEPT ![Quote] = @ + amount, ![a] = @ - Seized(b, a, amount)]
    /\ UNCHANGED <<poolVars, clock, assetConfig, quoted, flash, loanable>>

\* Anybody may set one up; nothing but its execution takes it down again.
SetupFlashLiquidation(b, a, amount, least, pool) ==
    /\ flash = NoFlash
    /\ IsLiquidatable(b)
    /\ flash' = [borrower |-> b, asset |-> a, amount |-> amount, least |-> least, pool |-> pool]
    /\ UNCHANGED <<ammVars, assetConfig, quoted, positions, loanable>>

FlashFee(amount) == (amount * FlashFeeBps) \div Bps

\* What the pool named in the set-up pays for the collateral: min_swap_output
\* is for it to keep to, and the AMM pool does.
Sale(a, amount) ==
    IF flash.pool = "amm" THEN {n \in {AmountOut(a, amount)} : n >= flash.least}
    ELSE OtherPays

\* execute_flash_receive: the seizure, the sale of what was seized, and the
\* repayment, for which all SMT of the pool is good.  How old a price may be is
\* the choice of whoever set it up.
FlashReceive(loan, due) ==
    LET b == flash.borrower
        a == flash.asset
        seized == Seized(b, a, flash.amount)
    IN
      /\ flash # NoFlash /\ flash' = NoFlash
      /\ Seize(b, a, flash.amount)
      /\ IF flash.pool = "amm" THEN a = Base /\ SwapReserves(a, seized) ELSE UNCHANGED poolVars
      /\ \E got \in Sale(a, seized) :
            /\ kept[Quote] + loan + got >= due
            /\ kept' = [kept EXCEPT ![a] = @ - seized, ![Quote] = @ + loan + got - due]
      /\ UNCHANGED <<clock, assetConfig, quoted>>

\* flash_loan lends to the pool and calls its receive_loan in one transaction.
FlashLiquidate ==
    LET due == flash.amount + FlashFee(flash.amount) IN
      /\ FlashReceive(flash.amount, due)
      /\ loanable >= flash.amount
      /\ loanable' = loanable + due - flash.amount
      /\ UNCHANGED purse

\* receive_loan asks nobody to authenticate: u calls it, with its own address
\* as the provider and a fee of its choice, and no loan has come in.
ReceiveLoan(u, fee) ==
    LET due == flash.amount + fee IN
      /\ FlashReceive(0, due)
      /\ due >= 0
      /\ purse' = [purse EXCEPT ![u][Quote] = @ + due]
      /\ UNCHANGED loanable

LendNext ==
    \/ \E a \in Assets, c \in AssetConfigs : SetAssetConfig(a, c)
    \/ \E a \in Assets, p \in [price : AssetPrices, fresh : BOOLEAN] : ReportPrice(a, p)
    \/ \E u \in Providers, a \in Assets, amount \in LendAmounts :
          DepositAsset(u, a, amount) \/ Withdraw(u, a, amount)
    \/ \E u \in Providers, amount \in LendAmounts : Borrow(u, amount) \/ Repay(u, amount)
    \/ \E u, b \in Providers, a \in Assets, amount \in LendAmounts :
          LiquidateLoan(u, b, a, amount)
    \/ \E b \in Providers, a \in Assets, amount \in LendAmounts, least \in MinOutputs,
          pool \in {"amm", "other"} : SetupFlashLiquidation(b, a, amount, least, pool)
    \/ FlashLiquidate
    \/ \E u \in Providers, fee \in LoanFees : ReceiveLoan(u, fee)

LendingNext ==
    \/ LendNext
    \/ AmmNext /\ UNCHANGED lendVars

LendingSpec == AmmInit /\ LendInit /\ [][LendingNext]_lendingVars

-----------------------------------------------------------------------------
(* Properties. *)

LendTypeOK ==
    /\ \A a \in Assets : assetConfig[a] = NoAsset \/ assetConfig[a] \in AssetConfigs
    /\ quoted \in [Assets -> [price : AssetPrices, fresh : BOOLEAN]]
    /\ collateral \in [Providers -> [Assets -> Nat]] /\ debt \in [Providers -> Nat]
    /\ kept \in [Coins -> Nat] /\ loanable \in Nat
    /\ flash # NoFlash =>
          flash.borrower \in Providers /\ flash.asset \in Assets /\ flash.amount \in LendAmounts

\* The pool holds the collateral its users have in it, also when a flash
\* liquidation passed some through its own hands (lib.rs:68-103, liquidation.rs:
\* 215-290, 346-372).
CollateralKept ==
    \A a \in Assets : kept[a] = SumFunction([u \in Providers |-> collateral[u][a]])

\* What the pool has lent and what it has left.
Funds == kept[Quote] + SumFunction(debt)

\* Only the execution of a pending flash liquidation loses the pool's money, one
\* execution of each, while its borrower can be liquidated.  Where the provider
\* lends and the AMM pool buys, what a sale at a low price leaves open is at most
\* what min_swap_output accepted.  Where somebody calls receive_loan without a
\* loan, or names another pool, nothing bounds the loss but the SMT of the pool
\* (lib.rs:171-201, liquidation.rs:327-394).
LossOnlyInFlash ==
    [][kept'[Quote] + SumFunction(debt') < Funds =>
         /\ flash # NoFlash /\ flash' = NoFlash
         /\ IsLiquidatable(flash.borrower)
         /\ flash.pool = "amm" /\ UNCHANGED purse =>
              kept'[Quote] + SumFunction(debt')
                >= Funds + flash.least - flash.amount - FlashFee(flash.amount)]_lendVars

\* Where the limit for borrowing is no higher than that for liquidation, which
\* set_asset_config leaves to the admin, nothing a user does with several assets makes a
\* sound position liquidatable (lib.rs:68-140, liquidation.rs:58-191).
SoundStaysSound ==
    [][(/\ UNCHANGED <<assetConfig, quoted>>
        /\ \A a \in Assets : assetConfig[a] # NoAsset => assetConfig[a].ltv <= assetConfig[a].threshold)
       => \A u \in Providers : ~IsLiquidatable(u) => ~IsLiquidatable(u)']_lendVars

LendingHolds == []CollateralKept /\ LossOnlyInFlash /\ SoundStaysSound
=============================================================================
