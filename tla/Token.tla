--------------------------------- MODULE Token ---------------------------------
(***************************************************************************)
(* The SoroMint token (contracts/token/src/lib.rs): balances, allowances,  *)
(* two kinds of minting, burning, the transfer fee and the transferability *)
(* switch.  One action per entry point that changes state; a call that     *)
(* panics is reverted by the host, so an action is enabled exactly when    *)
(* the call succeeds.                                                      *)
(*                                                                         *)
(* Storage keys matter here: the contract keeps two fee settings           *)
(* (DataKey::FeeConfig and DataKey::Config(ConfigKey::Fee)) and two        *)
(* supplies (DataKey::Supply and DataKey::TotalSupply), and each has its   *)
(* own variable.  Left out: snapshots, the verified flag and the metadata  *)
(* hash, which no modelled operation reads, the permit nonce, which is     *)
(* counted and compared with nothing, and the pause check of               *)
(* soromint_lifecycle, since the token exports no way to pause.  Amounts   *)
(* are i128s of either sign: only minter_mint and set_minter_limit look at *)
(* the sign of theirs, so a balance or an allowance may be negative.       *)
(***************************************************************************)
EXTENDS Integers, Functions, FiniteSets

CONSTANTS
    Users,          \* accounts that hold tokens
    Spenders,       \* accounts that are given allowances
    Minters,        \* accounts that are given a mint limit
    Admin,          \* the administrator passed to initialize
    None,           \* a storage key that was never written
    Amounts,        \* amounts that callers choose from
    FeeConfigs,     \* arguments of set_fee_config
    Window,         \* WINDOW, the length of a mint window (86400 s in the code)
    MaxTime,        \* bound on the ledger timestamp
    MaxTokens,      \* bound on DataKey::TotalSupply
    MaxHeld         \* bound on a balance or an allowance, above and below zero

BpsDenominator == 10000

FeeConfig == [enabled : BOOLEAN, fee_bps : Nat, treasury : Users]

Times == 0 .. MaxTime

MintWindowState == [minted : Nat, window_start : Times]

ASSUME TokenAssumption ==
    /\ IsFiniteSet(Users) /\ Spenders \subseteq Users
    /\ None \notin FeeConfig \cup MintWindowState \cup {Admin}
    /\ Amounts \subseteq Int /\ FeeConfigs \subseteq FeeConfig
    /\ Window \in Nat \ {0} /\ MaxTime \in Nat /\ MaxTokens \in Nat /\ MaxHeld \in Nat

VARIABLES
    now,            \* e.ledger().timestamp()
    admin,          \* DataKey::Admin
    supply,         \* DataKey::Supply
    totalSupply,    \* DataKey::TotalSupply
    transferable,   \* DataKey::Transferable
    feeConfig,      \* DataKey::FeeConfig
    configFee,      \* DataKey::Config(ConfigKey::Fee)
    balance,        \* AccountKey::Balance
    allowance,      \* AccountKey::Allowance
    mintLimit,      \* AccountKey::MintLimit
    mintWindow,     \* AccountKey::MintWindow
    granted,        \* history: the amount of the last approve or permit
    spent,          \* history: what was spent of it since
    minted,         \* history: what each minter minted at each instant
    highestLimit    \* history: the highest limit a minter was ever given

settings == <<admin, transferable, feeConfig, configFee>>
supplies == <<supply, totalSupply>>
approvals == <<allowance, granted, spent>>
minting == <<mintLimit, mintWindow, minted, highestLimit>>
vars == <<now, settings, supplies, balance, approvals, minting>>

Total(b) == SumFunction(b)

\* No number of a function is beyond the bound.
InBounds(f) == \A x \in DOMAIN f : -MaxHeld <= f[x] /\ f[x] <= MaxHeld

-----------------------------------------------------------------------------
(* Faulty variants of the definitions below: what the checks must notice.  *)

CreditsSelf(b, from, to, amount) == [b EXCEPT ![to] = b[to] + amount]
KeepsAllowance(from, spender, amount) == allowance
RestartsAlways(m) == [minted |-> 0, window_start |-> now]

-----------------------------------------------------------------------------
(* Internal helpers of the contract. *)

HasBalance(b, from, amount) == b[from] >= amount

Fee(config, amount) ==
    IF config # None /\ config.enabled
    THEN (amount * config.fee_bps) \div BpsDenominator
    ELSE 0

\* Every right-hand side is read from storage where the code reads it: the
\* payer's balance before the treasury is credited, the payee's after.
Moved(b, from, to, amount) ==
    LET fee == Fee(configFee, amount)
        credited == IF fee > 0 THEN [b EXCEPT ![configFee.treasury] = @ + fee] ELSE b
        debited == [credited EXCEPT ![from] = b[from] - amount]
    IN  [debited EXCEPT ![to] = credited[to] + (amount - fee)]

\* A transfer to oneself is only checked.
MoveBalance(b, from, to, amount) ==
    IF from = to THEN b ELSE Moved(b, from, to, amount)

Debited(from, spender, amount) ==
    [allowance EXCEPT ![<<from, spender>>] = @ - amount]

\* The minter's window at this instant: a fresh one when there is none or
\* the stored one is over.
CurrentWindow(m) ==
    IF mintWindow[m] = None \/ now >= mintWindow[m].window_start + Window
    THEN [minted |-> 0, window_start |-> now]
    ELSE mintWindow[m]

-----------------------------------------------------------------------------
(* The entry points. *)

Initialize ==
    /\ admin = None
    /\ admin' = Admin
    /\ supply' = 0
    /\ transferable' = TRUE
    /\ UNCHANGED <<now, totalSupply, feeConfig, configFee, balance, approvals, minting>>

SetFeeConfig(config) ==
    /\ admin # None
    /\ feeConfig' = config
    /\ UNCHANGED <<now, admin, transferable, configFee, supplies, balance, approvals, minting>>

SetTransferable(flag) ==
    /\ admin # None
    /\ transferable' = flag
    /\ UNCHANGED <<now, admin, feeConfig, configFee, supplies, balance, approvals, minting>>

Mint(to, amount) ==
    /\ admin # None
    /\ balance' = [balance EXCEPT ![to] = @ + amount] /\ InBounds(balance')
    /\ supply' = supply + amount
    /\ UNCHANGED <<now, settings, totalSupply, approvals, minting>>

SetMinterLimit(m, limit) ==
    /\ admin # None
    /\ limit > 0
    /\ mintLimit' = [mintLimit EXCEPT ![m] = limit]
    /\ highestLimit' = [highestLimit EXCEPT ![m] = IF limit > @ THEN limit ELSE @]
    /\ UNCHANGED <<now, settings, supplies, balance, approvals, mintWindow, minted>>

MinterMint(m, to, amount) ==
    /\ amount > 0
    /\ mintLimit[m] # None
    /\ CurrentWindow(m).minted + amount <= mintLimit[m]
    /\ totalSupply + amount <= MaxTokens
    /\ mintWindow' = [mintWindow EXCEPT ![m] =
                          [CurrentWindow(m) EXCEPT !.minted = @ + amount]]
    /\ balance' = [balance EXCEPT ![to] = @ + amount] /\ InBounds(balance')
    /\ totalSupply' = totalSupply + amount
    /\ minted' = [minted EXCEPT ![m][now] = @ + amount]
    /\ UNCHANGED <<now, settings, supply, approvals, mintLimit, highestLimit>>

Allow(from, spender, amount) ==
    /\ allowance' = [allowance EXCEPT ![<<from, spender>>] = amount]
    /\ granted' = [granted EXCEPT ![<<from, spender>>] = amount]
    /\ spent' = [spent EXCEPT ![<<from, spender>>] = 0]

Approve(from, spender, amount) ==
    /\ transferable
    /\ Allow(from, spender, amount)
    /\ UNCHANGED <<now, settings, supplies, balance, minting>>

\* A permit also works while transfers are off.
Permit(from, spender, amount, deadline) ==
    /\ now <= deadline
    /\ Allow(from, spender, amount)
    /\ UNCHANGED <<now, settings, supplies, balance, minting>>

Transfer(from, to, amount) ==
    /\ transferable
    /\ HasBalance(balance, from, amount)
    /\ balance' = MoveBalance(balance, from, to, amount) /\ InBounds(balance')
    /\ UNCHANGED <<now, settings, supplies, approvals, minting>>

UseAllowance(from, spender, amount) ==
    /\ allowance[<<from, spender>>] >= amount
    /\ allowance' = Debited(from, spender, amount) /\ InBounds(allowance')
    /\ spent' = [spent EXCEPT ![<<from, spender>>] = @ + amount]
    /\ UNCHANGED granted

TransferFrom(spender, from, to, amount) ==
    /\ transferable
    /\ UseAllowance(from, spender, amount)
    /\ HasBalance(balance, from, amount)
    /\ balance' = MoveBalance(balance, from, to, amount) /\ InBounds(balance')
    /\ UNCHANGED <<now, settings, supplies, minting>>

\* burn reads the administrator for its event, and so needs one.
Burned(from, amount) ==
    /\ HasBalance(balance, from, amount)
    /\ admin # None
    /\ balance' = [balance EXCEPT ![from] = @ - amount] /\ InBounds(balance')
    /\ supply' = supply - amount

Burn(from, amount) ==
    /\ Burned(from, amount)
    /\ UNCHANGED <<now, settings, totalSupply, approvals, minting>>

BurnFrom(spender, from, amount) ==
    /\ transferable
    /\ UseAllowance(from, spender, amount)
    /\ Burned(from, amount)
    /\ UNCHANGED <<now, settings, totalSupply, minting>>

\* Ledgers close and the timestamp grows.
Tick ==
    /\ now < MaxTime
    /\ now' = now + 1
    /\ UNCHANGED <<settings, supplies, balance, approvals, minting>>

-----------------------------------------------------------------------------

Init ==
    /\ now = 0
    /\ admin = None
    /\ supply = 0 /\ totalSupply = 0
    /\ transferable = TRUE
    /\ feeConfig = None /\ configFee = None
    /\ balance = [u \in Users |-> 0]
    /\ allowance = [p \in Users \X Spenders |-> 0]
    /\ granted = allowance /\ spent = allowance
    /\ mintLimit = [m \in Minters |-> None]
    /\ mintWindow = [m \in Minters |-> None]
    /\ minted = [m \in Minters |-> [t \in Times |-> 0]]
    /\ highestLimit = [m \in Minters |-> 0]

Administer ==
    \/ Initialize
    \/ \E config \in FeeConfigs : SetFeeConfig(config)
    \/ \E flag \in BOOLEAN : SetTransferable(flag)
    \/ \E m \in Minters, limit \in Amounts : SetMinterLimit(m, limit)

Issue ==
    \/ \E to \in Users, amount \in Amounts : Mint(to, amount)
    \/ \E m \in Minters, to \in Users, amount \in Amounts : MinterMint(m, to, amount)

Spend ==
    \E from \in Users, amount \in Amounts :
        \/ Burn(from, amount)
        \/ \E to \in Users : Transfer(from, to, amount)
        \/ \E spender \in Spenders :
              \/ Approve(from, spender, amount)
              \/ \E deadline \in Times : Permit(from, spender, amount, deadline)
              \/ BurnFrom(spender, from, amount)
              \/ \E to \in Users : TransferFrom(spender, from, to, amount)

Next == Administer \/ Issue \/ Spend \/ Tick

Spec == Init /\ [][Next]_vars

-----------------------------------------------------------------------------
(* Properties. *)

\* Type invariant: a minter's limits and mints are natural numbers
\* (lib.rs 183-233); balances, allowances and the supply are integers.
TypeOK ==
    /\ now \in Times /\ admin \in {Admin, None}
    /\ supply \in Int /\ totalSupply \in Nat /\ transferable \in BOOLEAN
    /\ feeConfig \in FeeConfig \cup {None} /\ configFee \in FeeConfig \cup {None}
    /\ balance \in [Users -> Int]
    /\ allowance \in [Users \X Spenders -> Int]
    /\ granted \in [Users \X Spenders -> Int]
    /\ spent \in [Users \X Spenders -> Int]
    /\ mintLimit \in [Minters -> Nat \cup {None}]
    /\ mintWindow \in [Minters -> MintWindowState \cup {None}]
    /\ minted \in [Minters -> [Times -> Nat]]
    /\ highestLimit \in [Minters -> Nat]

\* The two supply counters together account for every token held: mint and
\* burn keep one, minter_mint the other (lib.rs 171-181, 195-233, 324-357),
\* and transfers, also those to oneself, create and destroy nothing.
EveryTokenAccounted == supply + totalSupply = Total(balance)

\* What a spender has used since the last approve or permit and what is left
\* of its allowance make up exactly the amount approved, whichever of
\* transfer_from and burn_from it used (lib.rs 279-300, 313-357).
AllowanceConserved ==
    \A p \in Users \X Spenders : spent[p] + allowance[p] = granted[p]

MintedFrom(m, t) ==
    SumFunctionOnSet(minted[m], {u \in Times : t <= u /\ u < t + Window})

\* In no period as long as a window does a minter mint more than twice the
\* highest limit it was given: the window of lib.rs 205-219 restarts at a
\* mint, so a period meets at most two of them.
TwoWindowCap ==
    \A m \in Minters, t \in Times : MintedFrom(m, t) <= 2 * highestLimit[m]
=============================================================================
