------------------------------- MODULE Vault -------------------------------
(***************************************************************************)
(* The collateral vault (contracts/vault/src/lib.rs): users lock           *)
(* collateral of several kinds and mint SMT against it; anybody may        *)
(* liquidate a vault whose collateral has become worth too little.         *)
(*                                                                         *)
(* External: the collateral tokens and the SMT token, which refuse to move *)
(* or burn more than the payer holds, and the price oracles.  The vault is *)
(* the only minter of SMT.  Prices and values have Scale fractions of a    *)
(* dollar (10^7 in the code), an SMT unit is worth one.  The UserVaults    *)
(* index repeats what the positions say and is left out.                   *)
(***************************************************************************)
EXTENDS Integers, Sequences, SequencesExt, FiniteSetsExt, Functions

CONSTANTS
    Users,          \* vault owners and liquidators
    TokenOrder,     \* the collateral tokens in the order Map iterates them
    Configs,        \* arguments of set_collateral_config
    Prices,         \* prices the push oracle may report
    TwapPrices,     \* averages the TWAP oracle may report
    Scale,          \* fixed-point scale of prices
    DivergenceBps,  \* divergence_threshold_bps
    Deposits,       \* collateral amounts
    SmtAmounts,     \* SMT amounts
    Endowment,      \* collateral every user starts with, of each token
    MaxVaults,      \* bound on deposit_and_mint calls
    NoVault, NoConfig, NoTwap   \* unset storage keys, no TWAP history

Tokens == ToSet(TokenOrder)
Ids == 1 .. MaxVaults
BP == 10000
MinCollateralRatio == 15000
LiquidationThreshold == 13000

ConfigRecord == [min : Nat, threshold : Nat, penalty : Nat]
VaultRecord ==
    [owner : Users, debt : Int, coll : UNION {[ts -> Int] : ts \in SUBSET Tokens}]

ASSUME VaultAssumption ==
    /\ IsFiniteSet(Users) /\ TokenOrder \in Seq(Tokens)
    /\ NoVault \notin VaultRecord
    /\ Configs \subseteq ConfigRecord /\ NoConfig \notin ConfigRecord
    /\ Prices \cup TwapPrices \subseteq Nat \ {0} /\ NoTwap \notin TwapPrices
    /\ Scale \in Nat \ {0} /\ DivergenceBps \in 1 .. 5000
    /\ Deposits \subseteq Nat \ {0} /\ SmtAmounts \subseteq Nat \ {0}
    /\ Endowment \in Nat /\ MaxVaults \in Nat

VARIABLES
    price,          \* push oracle
    twap,           \* TWAP oracle, NoTwap without enough history
    twapSet,        \* ConfigKey::TwapOracle is configured
    liqPaused,      \* ConfigKey::LiqPaused
    config,         \* DataKey::Collateral
    counter,        \* ConfigKey::Counter
    vault,          \* DataKey::Vault(id): owner, debt and a map of collaterals
    wallet,         \* collateral held by users
    held,           \* collateral held by the contract
    smt             \* SMT balances

oracles == <<price, twap>>
switches == <<twapSet, liqPaused>>
funds == <<counter, vault, wallet, held, smt>>
vars == <<oracles, switches, config, funds>>

Open == {id \in Ids : vault[id] # NoVault}

-----------------------------------------------------------------------------
(* Valuation. *)

Value(t, amount) == (amount * price[t]) \div Scale

\* get_total_collateral_value
TotalValue(coll) == SumFunction([t \in DOMAIN coll |-> Value(t, coll[t])])

Ratio(coll, debt) == (TotalValue(coll) * BP) \div debt

\* The strictest of the default and the configured limits of the tokens in coll.
StrictestMin(coll) == Max({MinCollateralRatio} \cup {config[t].min : t \in DOMAIN coll})
HighestThreshold(coll) ==
    Max({LiquidationThreshold} \cup {config[t].threshold : t \in DOMAIN coll})

-----------------------------------------------------------------------------
(* Faulty variants of the definitions below, each caught by a property. *)

HealthyBeforeMint(coll, debt) == debt > 1 => Ratio(coll, debt - 1) >= StrictestMin(coll)
KeepsDebt(v, amount) == v

-----------------------------------------------------------------------------
\* require_healthy_vault; a debt of zero divides by zero there.
Healthy(coll, debt) == debt > 0 /\ Ratio(coll, debt) >= StrictestMin(coll)

\* check_liquidation; the ratio to a negative debt is below every threshold.
Liquidatable(v) ==
    v.debt < 0 \/ (v.debt > 0 /\ Ratio(v.coll, v.debt) < HighestThreshold(v.coll))

\* token_oracles_diverged; tokens without TWAP history pass.
Diverged(t) ==
    /\ twapSet /\ twap[t] # NoTwap
    /\ (Max({price[t] - twap[t], twap[t] - price[t]}) * BP) \div twap[t] > DivergenceBps

\* require_oracles_aligned
Aligned(coll) == \A t \in DOMAIN coll : ~Diverged(t)

ValidConfig(c) == c.min >= MinCollateralRatio /\ c.threshold < c.min

\* The collaterals with an amount of t taken out.
Without(coll, t, amount) == [coll EXCEPT ![t] = @ - amount]

Repaid(v, amount) == [v EXCEPT !.debt = @ - amount]

With(coll, t, amount) ==
    [s \in DOMAIN coll \cup {t} |->
        (IF s \in DOMAIN coll THEN coll[s] ELSE 0) + (IF s = t THEN amount ELSE 0)]

-----------------------------------------------------------------------------
Init ==
    /\ price \in [Tokens -> Prices] /\ twap = [t \in Tokens |-> NoTwap]
    /\ twapSet = FALSE /\ liqPaused = FALSE
    /\ config = [t \in Tokens |-> NoConfig]
    /\ counter = 0 /\ vault = [id \in Ids |-> NoVault]
    /\ wallet = [t \in Tokens |-> [u \in Users |-> Endowment]]
    /\ held = [t \in Tokens |-> 0]
    /\ smt = [u \in Users |-> 0]

SetCollateralConfig(t, c) ==
    /\ ValidConfig(c)
    /\ config' = [config EXCEPT ![t] = c]
    /\ UNCHANGED <<oracles, switches, funds>>

\* set_twap_oracle and clear_twap_oracle
SetTwapOracle(set) ==
    /\ twapSet' = set
    /\ UNCHANGED <<oracles, liqPaused, config, funds>>

SetLiquidationsPaused(paused) ==
    /\ liqPaused' = paused
    /\ UNCHANGED <<oracles, twapSet, config, funds>>

TripOracleCircuitBreaker(t) ==
    /\ ~liqPaused => Diverged(t)
    /\ liqPaused' = TRUE
    /\ UNCHANGED <<oracles, twapSet, config, funds>>

\* The oracles report, and SMT changes hands.
SetPrice(t, p) ==
    /\ price' = [price EXCEPT ![t] = p]
    /\ UNCHANGED <<twap, switches, config, funds>>

SetTwap(t, p) ==
    /\ twap' = [twap EXCEPT ![t] = p]
    /\ UNCHANGED <<price, switches, config, funds>>

TransferSmt(u, w, amount) ==
    /\ smt[u] >= amount
    /\ smt' = [[smt EXCEPT ![u] = @ - amount] EXCEPT ![w] = @ + amount]
    /\ UNCHANGED <<oracles, switches, config, counter, vault, wallet, held>>

DepositAndMint(u, t, amount, minted) ==
    /\ counter < MaxVaults
    /\ config[t] # NoConfig
    /\ (Value(t, amount) * BP) \div minted >= config[t].min
    /\ wallet[t][u] >= amount
    /\ wallet' = [wallet EXCEPT ![t][u] = @ - amount]
    /\ held' = [held EXCEPT ![t] = @ + amount]
    /\ counter' = counter + 1
    /\ vault' = [vault EXCEPT ![counter + 1] =
                   [owner |-> u, debt |-> minted, coll |-> [s \in {t} |-> amount]]]
    /\ smt' = [smt EXCEPT ![u] = @ + minted]
    /\ UNCHANGED <<oracles, switches, config>>

AddCollateralToVault(id, t, amount) ==
    /\ id \in Open
    /\ config[t] # NoConfig
    /\ LET u == vault[id].owner IN
         /\ wallet[t][u] >= amount
         /\ wallet' = [wallet EXCEPT ![t][u] = @ - amount]
    /\ held' = [held EXCEPT ![t] = @ + amount]
    /\ vault' = [vault EXCEPT ![id].coll = With(@, t, amount)]
    /\ UNCHANGED <<oracles, switches, config, counter, smt>>

MintMore(id, minted) ==
    /\ id \in Open
    /\ Healthy(vault[id].coll, vault[id].debt + minted)
    /\ vault' = [vault EXCEPT ![id].debt = @ + minted]
    /\ smt' = [smt EXCEPT ![vault[id].owner] = @ + minted]
    /\ UNCHANGED <<oracles, switches, config, counter, wallet, held>>

\* Nothing keeps the owner from repaying more than the debt.
RepayAndWithdraw(id, repay, t, amount) ==
    /\ id \in Open
    /\ LET v == vault[id]
           w == Repaid(v, repay)
           coll == Without(v.coll, t, amount)
       IN
         /\ smt[v.owner] >= repay
         /\ smt' = [smt EXCEPT ![v.owner] = @ - repay]
         /\ IF amount = 0
            THEN vault' = [vault EXCEPT ![id] = w] /\ UNCHANGED <<wallet, held>>
            ELSE /\ t \in DOMAIN v.coll /\ amount <= v.coll[t]
                 /\ w.debt > 0 => Healthy(coll, w.debt)
                 /\ vault' = [vault EXCEPT ![id] = [w EXCEPT !.coll = coll]]
                 /\ held' = [held EXCEPT ![t] = @ - amount]
                 /\ wallet' = [wallet EXCEPT ![t][v.owner] = @ + amount]
    /\ UNCHANGED <<oracles, switches, config, counter>>

\* What liquidate takes of token t.  coll is the position as the loop has left
\* it so far, amount what the position held of t when the loop began; nothing
\* is taken where the position does not hold enough.
Seizable(coll, t, amount, covered) ==
    LET total == TotalValue(coll)
        ratio == IF total > 0 THEN (Value(t, amount) * BP) \div total ELSE 0
        share == (covered * ratio) \div BP
        seize == (share * Scale * (BP + config[t].penalty)) \div (price[t] * BP)
    IN  IF seize <= amount THEN seize ELSE 0

\* What liquidate's loop leaves of coll after its turn for token t.
AfterToken(coll, covered, left, t) ==
    IF t \in DOMAIN coll THEN Without(left, t, Seizable(left, t, coll[t], covered)) ELSE left

\* The collaterals after liquidate's loop over the tokens.
AfterSeizure(coll, covered) ==
    FoldLeft(LAMBDA left, t : AfterToken(coll, covered, left, t), coll, TokenOrder)

Liquidate(id, u, covered) ==
    /\ ~liqPaused
    /\ id \in Open
    /\ covered <= vault[id].debt
    /\ Aligned(vault[id].coll)
    /\ Liquidatable(vault[id])
    /\ smt[u] >= covered
    /\ smt' = [smt EXCEPT ![u] = @ - covered]
    /\ LET coll == vault[id].coll
           left == AfterSeizure(coll, covered)
           taken(t) == IF t \in DOMAIN coll THEN coll[t] - left[t] ELSE 0
       IN
         /\ vault' = [vault EXCEPT ![id] = [Repaid(@, covered) EXCEPT !.coll = left]]
         /\ held' = [t \in Tokens |-> held[t] - taken(t)]
         /\ wallet' = [t \in Tokens |-> [wallet[t] EXCEPT ![u] = @ + taken(t)]]
    /\ UNCHANGED <<oracles, switches, config, counter>>

Next ==
    \/ \E t \in Tokens, c \in Configs : SetCollateralConfig(t, c)
    \/ \E b \in BOOLEAN : SetTwapOracle(b) \/ SetLiquidationsPaused(b)
    \/ \E t \in Tokens, p \in Prices : SetPrice(t, p)
    \/ \E t \in Tokens, p \in TwapPrices : SetTwap(t, p)
    \/ \E t \in Tokens : TripOracleCircuitBreaker(t)
    \/ \E u, w \in Users, amount \in SmtAmounts : TransferSmt(u, w, amount)
    \/ \E u \in Users, t \in Tokens, amount \in Deposits, minted \in SmtAmounts :
          DepositAndMint(u, t, amount, minted)
    \/ \E id \in Ids, t \in Tokens, amount \in Deposits : AddCollateralToVault(id, t, amount)
    \/ \E id \in Ids, minted \in SmtAmounts : MintMore(id, minted)
    \/ \E id \in Ids, t \in Tokens, repay \in SmtAmounts \cup {0}, amount \in Deposits \cup {0} :
          RepayAndWithdraw(id, repay, t, amount)
    \/ \E id \in Ids, u \in Users, covered \in SmtAmounts : Liquidate(id, u, covered)

Spec == Init /\ [][Next]_vars

-----------------------------------------------------------------------------
(* Properties. *)

TypeOK ==
    /\ price \in [Tokens -> Prices] /\ twap \in [Tokens -> TwapPrices \cup {NoTwap}]
    /\ twapSet \in BOOLEAN /\ liqPaused \in BOOLEAN
    /\ \A t \in Tokens : config[t] # NoConfig =>
          config[t].min >= MinCollateralRatio /\ config[t].threshold < config[t].min
    /\ counter \in 0 .. MaxVaults /\ Open = 1 .. counter
    /\ \A id \in Open : /\ vault[id].owner \in Users /\ vault[id].debt \in Int
                        /\ \A t \in DOMAIN vault[id].coll : vault[id].coll[t] \in Nat
    /\ wallet \in [Tokens -> [Users -> Nat]]
    /\ held \in [Tokens -> Nat] /\ smt \in [Users -> Nat]

CollateralOf(id, t) == IF t \in DOMAIN vault[id].coll THEN vault[id].coll[t] ELSE 0

\* The vault owes something and is open to liquidation.
InDanger(v) == v.debt > 0 /\ Liquidatable(v)

\* The contract holds exactly the collateral its positions add up to, whatever
\* mix of deposits, withdrawals and partial liquidations over several tokens
\* ran (lib.rs:182-541): no position is backed by another's collateral.
CollateralBacked ==
    \A t \in Tokens : held[t] = SumFunction([id \in Open |-> CollateralOf(id, t)])

\* All SMT in circulation is owed by some vault: repaying and liquidating burn
\* what they strike off (lib.rs:393-402, 482-489, 535).
DebtMatchesSupply ==
    SumFunction(smt) = SumFunction([id \in Open |-> vault[id].debt])

\* Every SMT and every collateral unit is on the vault's books.
BooksBalance == DebtMatchesSupply /\ CollateralBacked

\* Only the market endangers a vault: as long as prices and limits stand still,
\* nothing anybody calls makes a vault liquidatable that was not, but for one
\* thing its owner may do: add a collateral with a stricter threshold, which
\* from then on is the threshold of the vault (lib.rs:284-444, 762-773).
OnlyMarketEndangers ==
    [][\A id \in Open :
          (/\ UNCHANGED <<price, config>>
           /\ HighestThreshold(vault'[id].coll) = HighestThreshold(vault[id].coll)
           /\ ~InDanger(vault[id])) => ~InDanger(vault[id])']_vars

\* Collateral leaves a vault to its owner, or else the vault was below its
\* threshold by a price that agrees with the TWAP of every one of its tokens,
\* and liquidations were not paused (lib.rs:447-541, 654-675).
CollateralLeavesSafely ==
    [][\A id \in Open, t \in Tokens :
          CollateralOf(id, t)' < CollateralOf(id, t) =>
             \/ wallet'[t][vault[id].owner] > wallet[t][vault[id].owner]
             \/ /\ ~liqPaused /\ InDanger(vault[id])
                /\ \A s \in DOMAIN vault[id].coll : ~Diverged(s)]_vars

\* An owner whom the market has not put in danger is not put there by others,
\* and keeps the collateral.
OwnersAreSafe == OnlyMarketEndangers /\ CollateralLeavesSafely
=============================================================================
