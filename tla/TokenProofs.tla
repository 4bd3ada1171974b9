------------------------------ MODULE TokenProofs ------------------------------
(***************************************************************************)
(* Proofs about Token for any number of accounts, minters and any amounts. *)
(* The invariant that carries them says, besides the types, that the fee   *)
(* setting move_balance reads is never written, and that every allowance   *)
(* is what is left of its last approval.                                   *)
(***************************************************************************)
EXTENDS Token, SumTheorems, TLAPS

Inv ==
    /\ TypeOK
    /\ configFee = None
    /\ AllowanceConserved

Pairs == Users \X Spenders

-----------------------------------------------------------------------------

\* With no fee setting in the slot that move_balance reads, a transfer of an
\* amount of either sign leaves every balance an integer.
LEMMA MoveKeepsType ==
    ASSUME TypeOK, configFee = None,
           NEW from \in Users, NEW to \in Users, NEW amount \in Int
    PROVE  MoveBalance(balance, from, to, amount) \in [Users -> Int]
<1>1. balance \in [Users -> Int]
      BY DEF TypeOK
<1>2. CASE from = to
      BY <1>1, <1>2 DEF MoveBalance
<1>3. CASE from # to
  <2>1. Fee(configFee, amount) = 0
        BY DEF Fee
  <2>2. Moved(balance, from, to, amount)
          = [[balance EXCEPT ![from] = balance[from] - amount]
                EXCEPT ![to] = balance[to] + (amount - 0)]
        BY <2>1 DEF Moved
  <2>3. QED
        BY <1>1, <1>3, <2>2 DEF MoveBalance
<1>4. QED
      BY <1>2, <1>3

\* approve and permit start the account of an allowance afresh.
LEMMA AllowKeepsInv ==
    ASSUME Inv, NEW from \in Users, NEW spender \in Spenders, NEW amount \in Int,
           Allow(from, spender, amount)
    PROVE  /\ allowance' \in [Pairs -> Int] /\ granted' \in [Pairs -> Int]
           /\ spent' \in [Pairs -> Int] /\ AllowanceConserved'
<1>1. /\ allowance \in [Pairs -> Int] /\ granted \in [Pairs -> Int]
      /\ spent \in [Pairs -> Int]
      BY DEF Inv, TypeOK, Pairs
<1>2. <<from, spender>> \in Pairs
      BY DEF Pairs
<1>3. /\ allowance' \in [Pairs -> Int] /\ granted' \in [Pairs -> Int]
      /\ spent' \in [Pairs -> Int]
      BY <1>1, <1>2 DEF Allow
<1>4. ASSUME NEW p \in Pairs PROVE spent'[p] + allowance'[p] = granted'[p]
      BY <1>1, <1>2 DEF Allow, Inv, AllowanceConserved, Pairs
<1>5. QED
      BY <1>3, <1>4 DEF AllowanceConserved, Pairs

\* Spending moves an amount from what is left to what was spent.
LEMMA UseKeepsInv ==
    ASSUME Inv, NEW from \in Users, NEW spender \in Spenders, NEW amount \in Int,
           UseAllowance(from, spender, amount)
    PROVE  /\ allowance' \in [Pairs -> Int] /\ granted' \in [Pairs -> Int]
           /\ spent' \in [Pairs -> Int] /\ AllowanceConserved'
<1>1. /\ allowance \in [Pairs -> Int] /\ granted \in [Pairs -> Int]
      /\ spent \in [Pairs -> Int]
      BY DEF Inv, TypeOK, Pairs
<1>2. <<from, spender>> \in Pairs
      BY DEF Pairs
<1>3. /\ allowance' = [allowance EXCEPT ![<<from, spender>>] = @ - amount]
      /\ spent' = [spent EXCEPT ![<<from, spender>>] = @ + amount]
      /\ granted' = granted
      BY DEF UseAllowance, Debited
<1>5. /\ allowance' \in [Pairs -> Int] /\ granted' \in [Pairs -> Int]
      /\ spent' \in [Pairs -> Int]
      BY <1>1, <1>2, <1>3
<1>6. ASSUME NEW p \in Pairs PROVE spent'[p] + allowance'[p] = granted'[p]
  <2>1. spent[p] + allowance[p] = granted[p]
        BY DEF Inv, AllowanceConserved, Pairs
  <2>2. CASE p = <<from, spender>>
        BY <1>1, <1>2, <1>3, <2>1, <2>2
  <2>3. CASE p # <<from, spender>>
        BY <1>1, <1>2, <1>3, <2>1, <2>3
  <2>4. QED
        BY <2>2, <2>3
<1>7. QED
      BY <1>5, <1>6 DEF AllowanceConserved, Pairs

\* A burn keeps the types.
LEMMA BurnKeepsType ==
    ASSUME TypeOK, NEW from \in Users, NEW amount \in Int, Burned(from, amount)
    PROVE  balance' \in [Users -> Int] /\ supply' \in Int
<1>1. balance \in [Users -> Int] /\ supply \in Int
      BY DEF TypeOK
<1>2. QED
      BY <1>1 DEF Burned

\* The window a mint is counted in is a window.
LEMMA WindowTyped ==
    ASSUME TypeOK, NEW m \in Minters
    PROVE  CurrentWindow(m) \in MintWindowState
<1>1. mintWindow[m] \in MintWindowState \cup {None} /\ now \in Times
      BY DEF TypeOK
<1>2. [minted |-> 0, window_start |-> now] \in MintWindowState
      BY <1>1 DEF MintWindowState
<1>3. QED
      BY <1>1, <1>2 DEF CurrentWindow

-----------------------------------------------------------------------------

\* At first there are no balances and no allowances.
LEMMA InitInv == Init => Inv
<1> SUFFICES ASSUME Init PROVE Inv
    OBVIOUS
<1>1. 0 \in Times
      BY TokenAssumption DEF Times
<1>2. TypeOK
      BY <1>1 DEF Init, TypeOK
<1>3. AllowanceConserved
      BY DEF Init, AllowanceConserved
<1>4. QED
      BY <1>2, <1>3 DEF Inv, Init

\* Every entry point keeps types and allowance accounting.
LEMMA NextInv == Inv /\ [Next]_vars => Inv'
<1> SUFFICES ASSUME Inv, [Next]_vars PROVE Inv'
    OBVIOUS
<1> USE DEF Inv
<1>a. Amounts \subseteq Int /\ FeeConfigs \subseteq FeeConfig
      BY TokenAssumption
<1>1. CASE Initialize
      BY <1>1 DEF Initialize, TypeOK, AllowanceConserved, approvals, minting
<1>2. ASSUME NEW config \in FeeConfigs, SetFeeConfig(config) PROVE Inv'
      BY <1>a, <1>2 DEF SetFeeConfig, TypeOK, AllowanceConserved, supplies, approvals, minting
<1>3. ASSUME NEW flag \in BOOLEAN, SetTransferable(flag) PROVE Inv'
  <2>1. transferable' \in BOOLEAN
        BY <1>3 DEF SetTransferable
  <2>2. QED
        BY <1>3, <2>1 DEF SetTransferable, TypeOK, AllowanceConserved, supplies, approvals, minting
<1>4. ASSUME NEW m \in Minters, NEW limit \in Amounts, SetMinterLimit(m, limit) PROVE Inv'
  <2>1. limit \in Nat
        BY <1>a, <1>4 DEF SetMinterLimit
  <2>2. mintLimit' \in [Minters -> Nat \cup {None}]
        BY <1>4, <2>1 DEF SetMinterLimit, TypeOK
  <2>3. highestLimit' \in [Minters -> Nat]
        BY <1>4, <2>1 DEF SetMinterLimit, TypeOK
  <2>4. QED
        BY <1>4, <2>2, <2>3
           DEF SetMinterLimit, TypeOK, AllowanceConserved, settings, supplies, approvals
<1>5. ASSUME NEW to \in Users, NEW amount \in Amounts, Mint(to, amount) PROVE Inv'
  <2>1. amount \in Int
        BY <1>a
  <2>2. balance' \in [Users -> Int] /\ supply' \in Int
        BY <1>5, <2>1 DEF Mint, TypeOK
  <2>3. QED
        BY <1>5, <2>2 DEF Mint, TypeOK, AllowanceConserved, settings, approvals, minting
<1>6. ASSUME NEW m \in Minters, NEW to \in Users, NEW amount \in Amounts,
             MinterMint(m, to, amount)
      PROVE  Inv'
  <2>1. amount \in Nat
        BY <1>a, <1>6 DEF MinterMint
  <2>2. CurrentWindow(m) \in MintWindowState
        BY WindowTyped
  <2>3. balance' \in [Users -> Int] /\ totalSupply' \in Nat
        BY <1>6, <2>1 DEF MinterMint, TypeOK
  <2>4. [CurrentWindow(m) EXCEPT !.minted = @ + amount] \in MintWindowState
        BY <2>1, <2>2 DEF MintWindowState
  <2>5. mintWindow' \in [Minters -> MintWindowState \cup {None}]
        BY <1>6, <2>4 DEF MinterMint, TypeOK
  <2>6. minted' \in [Minters -> [Times -> Nat]]
    <3>1. minted \in [Minters -> [Times -> Nat]] /\ now \in Times
          BY DEF TypeOK
    <3>2. minted' = [minted EXCEPT ![m] = [minted[m] EXCEPT ![now] = @ + amount]]
          BY <1>6, <3>1 DEF MinterMint
    <3>3. [minted[m] EXCEPT ![now] = @ + amount] \in [Times -> Nat]
          BY <2>1, <3>1
    <3>4. QED
          BY <3>1, <3>2, <3>3
  <2>7. QED
        BY <1>6, <2>3, <2>5, <2>6
           DEF MinterMint, TypeOK, AllowanceConserved, settings, approvals
<1>7. ASSUME NEW from \in Users, NEW amount \in Amounts, Burn(from, amount) PROVE Inv'
  <2>1. balance' \in [Users -> Int] /\ supply' \in Int
        BY <1>a, <1>7, BurnKeepsType DEF Burn
  <2>2. QED
        BY <1>7, <2>1 DEF Burn, TypeOK, AllowanceConserved, settings, approvals, minting
<1>8. ASSUME NEW from \in Users, NEW to \in Users, NEW amount \in Amounts,
             Transfer(from, to, amount)
      PROVE  Inv'
  <2>1. balance' \in [Users -> Int]
        BY <1>a, <1>8, MoveKeepsType DEF Transfer
  <2>2. QED
        BY <1>8, <2>1
           DEF Transfer, TypeOK, AllowanceConserved, settings, supplies, approvals, minting
<1>9. ASSUME NEW from \in Users, NEW spender \in Spenders, NEW amount \in Amounts,
             NEW deadline \in Times,
             Approve(from, spender, amount) \/ Permit(from, spender, amount, deadline)
      PROVE  Inv'
  <2>1. /\ Allow(from, spender, amount)
        /\ UNCHANGED <<now, settings, supplies, balance, minting>>
        BY <1>9 DEF Approve, Permit
  <2>2. /\ allowance' \in [Pairs -> Int] /\ granted' \in [Pairs -> Int]
        /\ spent' \in [Pairs -> Int] /\ AllowanceConserved'
        BY <1>a, <2>1, AllowKeepsInv
  <2>3. QED
        BY <2>1, <2>2 DEF TypeOK, Pairs, settings, supplies, minting
<1>10. ASSUME NEW from \in Users, NEW spender \in Spenders, NEW amount \in Amounts,
              BurnFrom(spender, from, amount)
       PROVE  Inv'
  <2>1. /\ allowance' \in [Pairs -> Int] /\ granted' \in [Pairs -> Int]
        /\ spent' \in [Pairs -> Int] /\ AllowanceConserved'
        BY <1>a, <1>10, UseKeepsInv DEF BurnFrom
  <2>2. balance' \in [Users -> Int] /\ supply' \in Int
        BY <1>a, <1>10, BurnKeepsType DEF BurnFrom
  <2>3. QED
        BY <1>10, <2>1, <2>2 DEF BurnFrom, TypeOK, Pairs, settings, minting
<1>11. ASSUME NEW from \in Users, NEW to \in Users, NEW spender \in Spenders,
              NEW amount \in Amounts, TransferFrom(spender, from, to, amount)
       PROVE  Inv'
  <2>1. /\ allowance' \in [Pairs -> Int] /\ granted' \in [Pairs -> Int]
        /\ spent' \in [Pairs -> Int] /\ AllowanceConserved'
        BY <1>a, <1>11, UseKeepsInv DEF TransferFrom
  <2>2. balance' \in [Users -> Int]
        BY <1>a, <1>11, MoveKeepsType DEF TransferFrom
  <2>3. QED
        BY <1>11, <2>1, <2>2 DEF TransferFrom, TypeOK, Pairs, settings, supplies, minting
<1>12. CASE Tick
  <2>1. now' \in Times
        BY <1>12, TokenAssumption DEF Tick, TypeOK, Times
  <2>2. QED
        BY <1>12, <2>1
           DEF Tick, TypeOK, AllowanceConserved, settings, supplies, approvals, minting
<1>13. CASE UNCHANGED vars
       BY <1>13 DEF vars, TypeOK, AllowanceConserved, settings, supplies, approvals, minting
<1>14. CASE Administer
       BY <1>1, <1>2, <1>3, <1>4, <1>14 DEF Administer
<1>15. CASE Issue
       BY <1>5, <1>6, <1>15 DEF Issue
<1>16. CASE Spend
  <2>1. PICK from \in Users, amount \in Amounts :
           \/ Burn(from, amount)
           \/ \E to \in Users : Transfer(from, to, amount)
           \/ \E spender \in Spenders :
                 \/ Approve(from, spender, amount)
                 \/ \E deadline \in Times : Permit(from, spender, amount, deadline)
                 \/ BurnFrom(spender, from, amount)
                 \/ \E to \in Users : TransferFrom(spender, from, to, amount)
        BY <1>16 DEF Spend
  <2>2. 0 \in Times
        BY TokenAssumption DEF Times
  <2>3. QED
        BY <1>7, <1>8, <1>9, <1>10, <1>11, <2>1, <2>2, Zenon
<1>17. QED
       BY <1>12, <1>13, <1>14, <1>15, <1>16 DEF Next

-----------------------------------------------------------------------------

\* The invariant holds throughout.
LEMMA InvAlways == Spec => []Inv
<1>1. QED
      BY InitInv, NextInv, PTL DEF Spec

\* No sequence of approve, permit, transfer_from and burn_from calls lets a
\* spender use more than the last amount approved (lib.rs 279-300, 313-357).
THEOREM AllowanceAccounts == Spec => []AllowanceConserved
<1>1. Inv => AllowanceConserved
      BY DEF Inv
<1>2. QED
      BY <1>1, InvAlways, PTL

-----------------------------------------------------------------------------
(* The supplies: as long as there is no administrator nothing is minted, so   *)
(* the supply that Initialize sets to zero was zero.                          *)

LedgerInv ==
    /\ EveryTokenAccounted
    /\ admin = None => supply = 0

\* One balance changed by an amount changes the total by it.
LEMMA TotalOfExcept ==
    ASSUME NEW b \in [Users -> Int], NEW u \in Users, NEW v \in Int
    PROVE  Total([b EXCEPT ![u] = v]) = Total(b) - b[u] + v
<1>1. IsFiniteSet(Users)
      BY TokenAssumption
<1>2. QED
      BY <1>1, SumOfExcept DEF Total

\* The balances add up to an integer.
LEMMA TotalIsInt ==
    ASSUME NEW b \in [Users -> Int]
    PROVE  Total(b) \in Int
<1>1. IsFiniteSet(Users)
      BY TokenAssumption
<1>2. QED
      BY <1>1, SumFunctionIsInt DEF Total

\* A transfer, also one to oneself, leaves the total as it was.
LEMMA MoveKeepsTotal ==
    ASSUME TypeOK, configFee = None,
           NEW from \in Users, NEW to \in Users, NEW amount \in Int
    PROVE  Total(MoveBalance(balance, from, to, amount)) = Total(balance)
<1>1. balance \in [Users -> Int] /\ Total(balance) \in Int
      BY TotalIsInt DEF TypeOK
<1>2. CASE from = to
      BY <1>2 DEF MoveBalance
<1>3. CASE from # to
  <2> DEFINE debited == [balance EXCEPT ![from] = balance[from] - amount]
  <2>1. Fee(configFee, amount) = 0
        BY DEF Fee
  <2>2. Moved(balance, from, to, amount)
          = [debited EXCEPT ![to] = balance[to] + (amount - 0)]
        BY <2>1 DEF Moved
  <2>3. /\ debited \in [Users -> Int] /\ debited[to] = balance[to]
        /\ balance[from] - amount \in Int /\ balance[to] + (amount - 0) \in Int
        BY <1>1, <1>3
  <2>4. Total(debited) = Total(balance) - balance[from] + (balance[from] - amount)
        BY <1>1, <2>3, TotalOfExcept
  <2> HIDE DEF debited
  <2>5. Total([debited EXCEPT ![to] = balance[to] + (amount - 0)])
          = Total(debited) - debited[to] + (balance[to] + (amount - 0))
        BY <2>3, TotalOfExcept
  <2>6. balance[from] \in Int /\ balance[to] \in Int
        BY <1>1
  <2>7. QED
        BY <1>1, <1>3, <2>2, <2>3, <2>4, <2>5, <2>6 DEF MoveBalance
<1>4. QED
      BY <1>2, <1>3

\* A burn takes the same amount from the total and from the supply.
LEMMA BurnKeepsLedger ==
    ASSUME TypeOK, LedgerInv, NEW from \in Users, NEW amount \in Int,
           Burned(from, amount), admin' = admin, totalSupply' = totalSupply
    PROVE  LedgerInv'
<1>1. /\ balance \in [Users -> Int] /\ Total(balance) \in Int /\ balance[from] \in Int
      /\ balance[from] - amount \in Int
      BY TotalIsInt DEF TypeOK
<1>2. Total([balance EXCEPT ![from] = balance[from] - amount])
        = Total(balance) - balance[from] + (balance[from] - amount)
      BY <1>1, TotalOfExcept
<1>3. supply \in Int /\ totalSupply \in Int
      BY DEF TypeOK
<1>4. balance' = [balance EXCEPT ![from] = balance[from] - amount]
      BY DEF Burned
<1>5. QED
      BY <1>1, <1>2, <1>3, <1>4 DEF Burned, LedgerInv, EveryTokenAccounted

\* At first both supply counters and all balances are zero.
LEMMA InitLedger == Init => LedgerInv
<1> SUFFICES ASSUME Init PROVE LedgerInv
    OBVIOUS
<1>1. IsFiniteSet(Users) /\ DOMAIN balance = Users /\ \A u \in Users : balance[u] = 0
      BY TokenAssumption DEF Init
<1>2. Total(balance) = 0
      BY <1>1, SumOfFunction, SumOfZeros DEF Total
<1>3. QED
      BY <1>2 DEF Init, LedgerInv, EveryTokenAccounted

\* Every entry point moves counters and balances together.
LEMMA NextLedger == Inv /\ LedgerInv /\ [Next]_vars => LedgerInv'
<1> SUFFICES ASSUME Inv, LedgerInv, [Next]_vars PROVE LedgerInv'
    OBVIOUS
<1>a. Amounts \subseteq Int
      BY TokenAssumption
<1>b. /\ TypeOK /\ configFee = None
      /\ balance \in [Users -> Int] /\ Total(balance) \in Int
      /\ supply \in Int /\ totalSupply \in Int
      BY TotalIsInt DEF Inv, TypeOK
<1>1. ASSUME UNCHANGED <<admin, supplies>>, Total(balance') = Total(balance)
      PROVE  LedgerInv'
      BY <1>1 DEF LedgerInv, EveryTokenAccounted, supplies
<1>2. CASE Initialize
  <2>1. admin' # None
        BY <1>2, TokenAssumption DEF Initialize
  <2>2. QED
        BY <1>2, <1>b, <2>1 DEF Initialize, LedgerInv, EveryTokenAccounted
<1>3. CASE Administer /\ ~ Initialize
      BY <1>1, <1>3 DEF Administer, SetFeeConfig, SetTransferable, SetMinterLimit, settings
<1>4. ASSUME NEW to \in Users, NEW amount \in Amounts, Mint(to, amount)
      PROVE  LedgerInv'
  <2>1. /\ amount \in Int /\ balance[to] \in Int
        /\ balance[to] + amount \in Int
        BY <1>a, <1>b
  <2>2. Total([balance EXCEPT ![to] = balance[to] + amount])
          = Total(balance) - balance[to] + (balance[to] + amount)
        BY <1>b, <2>1, TotalOfExcept
  <2>3. balance' = [balance EXCEPT ![to] = balance[to] + amount]
        BY <1>4 DEF Mint
  <2>4. QED
        BY <1>4, <1>b, <2>1, <2>2, <2>3 DEF Mint, LedgerInv, EveryTokenAccounted, settings
<1>5. ASSUME NEW m \in Minters, NEW to \in Users, NEW amount \in Amounts,
             MinterMint(m, to, amount)
      PROVE  LedgerInv'
  <2>1. /\ amount \in Int /\ balance[to] \in Int
        /\ balance[to] + amount \in Int
        BY <1>a, <1>b
  <2>2. Total([balance EXCEPT ![to] = balance[to] + amount])
          = Total(balance) - balance[to] + (balance[to] + amount)
        BY <1>b, <2>1, TotalOfExcept
  <2>3. balance' = [balance EXCEPT ![to] = balance[to] + amount]
        BY <1>5 DEF MinterMint
  <2>4. QED
        BY <1>5, <1>b, <2>1, <2>2, <2>3 DEF MinterMint, LedgerInv, EveryTokenAccounted, settings
<1>6. ASSUME NEW from \in Users, NEW amount \in Amounts,
             \/ Burn(from, amount)
             \/ \E spender \in Spenders : BurnFrom(spender, from, amount)
      PROVE  LedgerInv'
  <2>1. Burned(from, amount) /\ admin' = admin /\ totalSupply' = totalSupply
        BY <1>6 DEF Burn, BurnFrom, settings
  <2>2. QED
        BY <1>a, <1>b, <2>1, BurnKeepsLedger
<1>7. ASSUME NEW from \in Users, NEW to \in Users, NEW amount \in Amounts,
             \/ Transfer(from, to, amount)
             \/ \E spender \in Spenders : TransferFrom(spender, from, to, amount)
      PROVE  LedgerInv'
  <2>1. /\ balance' = MoveBalance(balance, from, to, amount)
        /\ UNCHANGED <<admin, supplies>>
        BY <1>7 DEF Transfer, TransferFrom, settings
  <2>2. QED
        BY <1>1, <1>a, <1>b, <2>1, MoveKeepsTotal
<1>8. ASSUME NEW from \in Users, NEW amount \in Amounts, NEW spender \in Spenders,
             \/ Approve(from, spender, amount)
             \/ \E deadline \in Times : Permit(from, spender, amount, deadline)
      PROVE  LedgerInv'
      BY <1>1, <1>8 DEF Approve, Permit, settings
<1>9. CASE Tick \/ UNCHANGED vars
      BY <1>1, <1>9 DEF Tick, vars, settings
<1>10. CASE Spend
  <2>1. PICK from \in Users, amount \in Amounts :
           \/ Burn(from, amount)
           \/ \E to \in Users : Transfer(from, to, amount)
           \/ \E spender \in Spenders :
                 \/ Approve(from, spender, amount)
                 \/ \E deadline \in Times : Permit(from, spender, amount, deadline)
                 \/ BurnFrom(spender, from, amount)
                 \/ \E to \in Users : TransferFrom(spender, from, to, amount)
        BY <1>10 DEF Spend
  <2>2. QED
        BY <1>6, <1>7, <1>8, <2>1, Zenon
<1>11. CASE Issue
       BY <1>4, <1>5, <1>11 DEF Issue
<1>12. QED
       BY <1>2, <1>3, <1>9, <1>10, <1>11 DEF Next

\* For any accounts and amounts, the two supply counters together are exactly
\* the tokens held: what mint, minter_mint, burn and burn_from count is what
\* they move, and no transfer creates or destroys a token
\* (lib.rs 107-129, 171-181, 195-233, 324-357).
THEOREM TokensAccounted == Spec => []EveryTokenAccounted
<1>1. LedgerInv => EveryTokenAccounted
      BY DEF LedgerInv
<1>2. QED
      BY <1>1, InvAlways, InitLedger, NextLedger, PTL DEF Spec

-----------------------------------------------------------------------------
(* The mint windows. A window that restarts may be followed by as much again  *)
(* in less than a window's time; what bounds the two together is that the     *)
(* part of the earlier one which can still share a period with the new one is *)
(* no more than the limit.                                                    *)

Within(a, b) == {u \in Times : a <= u /\ u < b}
MintedOf(f, a, b) == SumFunctionOnSet(f, Within(a, b))

\* What is known of a window w that minter m has.
WindowHolds(m, w) ==
    /\ w.window_start <= now
    /\ w.minted <= highestLimit[m]
    /\ \A u \in Times : u >= w.window_start + Window => minted[m][u] = 0
    /\ MintedOf(minted[m], w.window_start, w.window_start + Window) = w.minted
    /\ \A t \in Times : t + Window > w.window_start =>
          MintedOf(minted[m], t, w.window_start) <= highestLimit[m]

MinterInv(m) ==
    /\ mintLimit[m] # None => mintLimit[m] <= highestLimit[m]
    /\ \A u \in Times : u > now => minted[m][u] = 0
    /\ mintWindow[m] = None => \A u \in Times : minted[m][u] = 0
    /\ mintWindow[m] # None => WindowHolds(m, mintWindow[m])
    /\ \A t \in Times : MintedOf(minted[m], t, t + Window) <= 2 * highestLimit[m]

MintingInv == \A m \in Minters : MinterInv(m)

\* The instants of a window are finitely many.
LEMMA WithinFinite ==
    ASSUME NEW a \in Int, NEW b \in Int
    PROVE  IsFiniteSet(Within(a, b)) /\ Within(a, b) \subseteq Times
<1>1. IsFiniteSet(Times)
      BY TokenAssumption, FS_Interval DEF Times
<1>2. QED
      BY <1>1, FS_Subset DEF Within

\* What a minter mints in a period is a natural number.
LEMMA MintedInTyped ==
    ASSUME TypeOK, NEW m \in Minters, NEW a \in Int, NEW b \in Int
    PROVE  MintedOf(minted[m], a, b) \in Nat
<1>1. IsFiniteSet(Within(a, b)) /\ Within(a, b) \subseteq Times
      BY WithinFinite
<1>2. \A u \in Within(a, b) : minted[m][u] \in Nat
      BY <1>1 DEF TypeOK
<1>3. QED
      BY <1>1, <1>2, SumIsNat DEF MintedOf

\* In a shorter period a minter mints no more.
LEMMA MintedInPart ==
    ASSUME TypeOK, NEW m \in Minters, NEW a \in Int, NEW b \in Int,
           NEW c \in Int, NEW d \in Int, c <= a, b <= d
    PROVE  MintedOf(minted[m], a, b) <= MintedOf(minted[m], c, d)
<1>1. IsFiniteSet(Within(c, d)) /\ Within(c, d) \subseteq Times
      BY WithinFinite
<1>2. \A u \in Within(c, d) : minted[m][u] \in Nat
      BY <1>1 DEF TypeOK
<1>3. Within(a, b) \subseteq Within(c, d)
      BY DEF Within, Times
<1>4. QED
      BY <1>1, <1>2, <1>3, SumOfFewer DEF MintedOf

\* A period is its two parts.
LEMMA MintedInParts ==
    ASSUME TypeOK, NEW m \in Minters, NEW a \in Int, NEW b \in Int, NEW c \in Int,
           a <= b, b <= c
    PROVE  MintedOf(minted[m], a, c) = MintedOf(minted[m], a, b) + MintedOf(minted[m], b, c)
<1>1. /\ IsFiniteSet(Within(a, b)) /\ Within(a, b) \subseteq Times
      /\ IsFiniteSet(Within(b, c)) /\ Within(b, c) \subseteq Times
      BY WithinFinite
<1>2. /\ Within(a, b) \cap Within(b, c) = {}
      /\ Within(a, b) \cup Within(b, c) = Within(a, c)
      BY DEF Within, Times
<1>3. \A u \in Within(a, b) \cup Within(b, c) : minted[m][u] \in Int
      BY <1>1 DEF TypeOK
<1>4. QED
      BY <1>1, <1>2, <1>3, SumOfUnion DEF MintedOf

\* A period in which nothing was minted.
LEMMA MintedInNone ==
    ASSUME NEW m \in Minters, NEW a \in Int, NEW b \in Int,
           \A u \in Within(a, b) : minted[m][u] = 0
    PROVE  MintedOf(minted[m], a, b) = 0
<1>1. IsFiniteSet(Within(a, b))
      BY WithinFinite
<1>2. QED
      BY <1>1, SumOfZeros DEF MintedOf

\* A mint adds its amount to the periods that hold this instant, and only to
\* those.
LEMMA MintAdds ==
    ASSUME TypeOK, NEW m \in Minters, NEW n \in Minters, NEW amount \in Nat,
           minted' = [minted EXCEPT ![m][now] = @ + amount],
           NEW a \in Int, NEW b \in Int
    PROVE  MintedOf(minted'[n], a, b) =
               IF n = m /\ a <= now /\ now < b THEN MintedOf(minted[n], a, b) + amount
               ELSE MintedOf(minted[n], a, b)
<1> DEFINE S == Within(a, b)
           f == minted[n]
           g == minted'[n]
<1>1. minted \in [Minters -> [Times -> Nat]] /\ now \in Times
      BY DEF TypeOK
<1>2. IsFiniteSet(S) /\ S \subseteq Times
      BY WithinFinite
<1>3. /\ MintedOf(minted'[n], a, b) = SumFunctionOnSet(g, S)
      /\ MintedOf(minted[n], a, b) = SumFunctionOnSet(f, S)
      BY DEF MintedOf, Within, Times
<1>4. \A u \in Times : f[u] \in Nat /\ g[u] \in Nat
      BY <1>1
<1>5. CASE n = m /\ a <= now /\ now < b
  <2>1. now \in S
        BY <1>1, <1>5 DEF Within
  <2>2. \A u \in S : u # now => g[u] = f[u]
        BY <1>1, <1>2, <1>5
  <2>3. g[now] = f[now] + amount /\ f[now] \in Int
        BY <1>1, <1>5
  <2>4. \A u \in S : f[u] \in Int /\ g[u] \in Int
        BY <1>2, <1>4
  <2> HIDE DEF S, f, g
  <2>5. SumFunctionOnSet(g, S) = SumFunctionOnSet(f, S) - f[now] + g[now]
        BY <1>2, <2>1, <2>2, <2>4, SumChanged
  <2>6. SumFunctionOnSet(f, S) \in Int
        BY <1>2, <2>4, SumIsInt
  <2>7. QED
        BY <1>3, <1>5, <2>3, <2>5, <2>6
<1>6. CASE ~ (n = m /\ a <= now /\ now < b)
  <2>1. \A u \in S : f[u] = g[u]
        BY <1>1, <1>2, <1>6 DEF Within
  <2> HIDE DEF S, f, g
  <2>2. SumFunctionOnSet(f, S) = SumFunctionOnSet(g, S)
        BY <1>2, <2>1, SumSame
  <2>3. QED
        BY <1>3, <1>6, <2>2
<1>7. QED
      BY <1>5, <1>6

\* The window a mint at this instant is counted in, be it the stored one or a
\* fresh one.
LEMMA CurrentWindowHolds ==
    ASSUME TypeOK, NEW m \in Minters, MinterInv(m)
    PROVE  LET w == CurrentWindow(m)
           IN  WindowHolds(m, w) /\ now < w.window_start + Window
<1> DEFINE old == mintWindow[m]
           w == CurrentWindow(m)
<1>1. /\ now \in Times /\ now \in Int /\ Window \in Nat \ {0}
      /\ old \in MintWindowState \cup {None} /\ minted[m] \in [Times -> Nat]
      /\ highestLimit[m] \in Nat /\ \A u \in Times : u \in Int
      BY TokenAssumption DEF TypeOK, Times
<1>2. CASE ~ (old = None \/ now >= old.window_start + Window)
  <2>1. w = old /\ old # None /\ old \in MintWindowState
        BY <1>1, <1>2 DEF CurrentWindow
  <2>2. old.window_start \in Int
        BY <1>1, <2>1 DEF MintWindowState
  <2>3. QED
        BY <1>1, <1>2, <2>1, <2>2 DEF MinterInv
<1>3. CASE old = None \/ now >= old.window_start + Window
  <2>1. w = [minted |-> 0, window_start |-> now]
        BY <1>3 DEF CurrentWindow
  <2>2. \A u \in Times : u >= now => minted[m][u] = 0
    <3>1. CASE old = None
          BY <3>1 DEF MinterInv
    <3>2. CASE old # None
      <4>1. old.window_start + Window <= now /\ old.window_start \in Int
            BY <1>1, <1>3, <3>2 DEF MintWindowState
      <4>2. \A u \in Times : u >= old.window_start + Window => minted[m][u] = 0
            BY <3>2 DEF MinterInv, WindowHolds
      <4>3. QED
            BY <1>1, <4>1, <4>2
    <3>3. QED
          BY <3>1, <3>2
  <2>3. MintedOf(minted[m], now, now + Window) = 0
    <3>1. \A u \in Within(now, now + Window) : minted[m][u] = 0
          BY <2>2 DEF Within
    <3>2. now + Window \in Int
          BY <1>1
    <3>3. QED
          BY <1>1, <3>1, <3>2, MintedInNone
  <2>4. ASSUME NEW t \in Times, t + Window > now
        PROVE  MintedOf(minted[m], t, now) <= highestLimit[m]
    <3>1. CASE old = None
      <4>1. \A u \in Within(t, now) : minted[m][u] = 0
            BY <3>1 DEF MinterInv, Within
      <4>2. MintedOf(minted[m], t, now) = 0
            BY <1>1, <4>1, MintedInNone
      <4>3. QED
            BY <1>1, <4>2
    <3>2. CASE old # None
      <4> DEFINE a == old.window_start
                 b == old.window_start + Window
      <4>0. old \in MintWindowState /\ now >= old.window_start + Window
            BY <1>1, <1>3, <3>2
      <4>1. a \in Int /\ b \in Int /\ b <= now /\ a <= b /\ a <= t /\ t \in Int
        <5>1. a \in Times
              BY <4>0 DEF MintWindowState
        <5>2. a \in Int /\ t \in Int
              BY <5>1, TokenAssumption DEF Times
        <5>3. QED
              BY <1>1, <2>4, <4>0, <5>2
      <4>2. WindowHolds(m, old)
            BY <3>2 DEF MinterInv
      <4>3. \A u \in Within(b, now) : minted[m][u] = 0
            BY <4>2 DEF WindowHolds, Within
      <4>4. MintedOf(minted[m], a, b) <= highestLimit[m]
            BY <4>2 DEF WindowHolds
      <4> HIDE DEF a, b
      <4>5. MintedOf(minted[m], b, now) = 0
            BY <1>1, <4>1, <4>3, MintedInNone
      <4>6. MintedOf(minted[m], a, now) = MintedOf(minted[m], a, b) + MintedOf(minted[m], b, now)
            BY <1>1, <4>1, MintedInParts
      <4>7. MintedOf(minted[m], t, now) <= MintedOf(minted[m], a, now)
            BY <1>1, <4>1, MintedInPart
      <4>8. /\ MintedOf(minted[m], t, now) \in Nat /\ MintedOf(minted[m], a, now) \in Nat
            /\ MintedOf(minted[m], a, b) \in Nat
            BY <1>1, <4>1, MintedInTyped
      <4>9. QED
            BY <1>1, <4>4, <4>5, <4>6, <4>7, <4>8
    <3>3. QED
          BY <3>1, <3>2
  <2>5. \A u \in Times : u >= now + Window => minted[m][u] = 0
        BY <1>1, <2>2
  <2>6. QED
        BY <1>1, <2>1, <2>3, <2>4, <2>5 DEF WindowHolds
<1>4. QED
      BY <1>2, <1>3

\* A mint by minter m.
LEMMA MinterMintKeeps ==
    ASSUME Inv, MintingInv, NEW m \in Minters, NEW to \in Users,
           NEW amount \in Nat, MinterMint(m, to, amount)
    PROVE  MintingInv'
<1> DEFINE w == CurrentWindow(m)
           s == w.window_start
           e == s + Window
           limit == highestLimit[m]
<1>0. TypeOK
      BY DEF Inv
<1>1. /\ TypeOK /\ now \in Times /\ now \in Int /\ Window \in Nat \ {0}
      /\ limit \in Nat /\ \A u \in Times : u \in Int
      /\ minted \in [Minters -> [Times -> Nat]]
      /\ mintWindow \in [Minters -> MintWindowState \cup {None}]
  <2>1. /\ now \in Times /\ limit \in Nat
        /\ minted \in [Minters -> [Times -> Nat]]
        /\ mintWindow \in [Minters -> MintWindowState \cup {None}]
        BY <1>0 DEF TypeOK
  <2>2. Window \in Nat \ {0} /\ \A u \in Times : u \in Int
        BY TokenAssumption DEF Times
  <2>3. QED
        BY <1>0, <2>1, <2>2
<1>2. /\ minted' = [minted EXCEPT ![m][now] = @ + amount]
      /\ mintWindow' = [mintWindow EXCEPT ![m] = [w EXCEPT !.minted = @ + amount]]
      /\ mintLimit' = mintLimit /\ highestLimit' = highestLimit /\ now' = now
      /\ mintLimit[m] # None /\ w.minted + amount <= mintLimit[m]
      BY DEF MinterMint
<1>3. w \in MintWindowState /\ w.minted \in Nat /\ s \in Int
      BY <1>1, WindowTyped DEF MintWindowState, Times
<1>4. WindowHolds(m, w) /\ now < e
      BY <1>1, CurrentWindowHolds DEF MintingInv
<1>5. w.minted + amount <= limit
  <2>1. mintLimit[m] \in Nat /\ mintLimit[m] <= limit
        BY <1>1, <1>2 DEF TypeOK, MintingInv, MinterInv
  <2>2. QED
        BY <1>1, <1>2, <1>3, <2>1
<1>6. s <= now /\ e \in Int /\ s <= e
      BY <1>1, <1>3, <1>4 DEF WindowHolds
<1>7. mintWindow'[m] = [minted |-> w.minted + amount, window_start |-> s]
      BY <1>1, <1>2, <1>3 DEF MintWindowState
<1>8. mintWindow'[m] # None
  <2>1. mintWindow'[m] \in MintWindowState
        BY <1>3, <1>7 DEF MintWindowState
  <2>2. QED
        BY <2>1, TokenAssumption
<1>9. ASSUME NEW n \in Minters, NEW a \in Int, NEW b \in Int
      PROVE  MintedOf(minted'[n], a, b) =
               IF n = m /\ a <= now /\ now < b THEN MintedOf(minted[n], a, b) + amount
               ELSE MintedOf(minted[n], a, b)
  <2>1. TypeOK /\ minted' = [minted EXCEPT ![m][now] = @ + amount]
        BY <1>1, <1>2
  <2>2. n \in Minters /\ a \in Int /\ b \in Int /\ m \in Minters /\ amount \in Nat
        OBVIOUS
  <2> HIDE DEF w, s, e, limit
  <2>3. QED
        BY ONLY <2>1, <2>2, MintAdds
<1>10. ASSUME NEW n \in Minters, n # m PROVE MinterInv(n)'
  <2>1. minted'[n] = minted[n] /\ mintWindow'[n] = mintWindow[n]
        BY <1>1, <1>2, <1>10
  <2>2. \A a, b \in Int : MintedOf(minted'[n], a, b) = MintedOf(minted[n], a, b)
        BY <1>9, <1>10
  <2>3. MinterInv(n)
        BY DEF MintingInv
  <2>4. (\A t \in Times : MintedOf(minted[n], t, t + Window) <= 2 * highestLimit[n])'
    <3> SUFFICES ASSUME NEW t \in Times
                 PROVE  MintedOf(minted'[n], t, t + Window) <= 2 * highestLimit'[n]
        BY DEF Times
    <3>1. t \in Int /\ t + Window \in Int
          BY TokenAssumption DEF Times
    <3>2. MintedOf(minted'[n], t, t + Window) = MintedOf(minted[n], t, t + Window)
          BY <2>2, <3>1
    <3>3. QED
          BY <1>2, <2>3, <3>2 DEF MinterInv
  <2>5. ASSUME mintWindow[n] # None PROVE WindowHolds(n, mintWindow[n])'
    <3>1. WindowHolds(n, mintWindow[n])
          BY <2>3, <2>5 DEF MinterInv
    <3>2. mintWindow[n].window_start \in Times
      <4>1. mintWindow[n] \in MintWindowState
            BY <1>1, <2>5
      <4>2. QED
            BY <4>1 DEF MintWindowState
    <3>3. /\ mintWindow[n].window_start \in Int
          /\ mintWindow[n].window_start + Window \in Int
          BY <3>2, TokenAssumption DEF Times
    <3>4. QED
          BY <1>1, <1>2, <2>1, <2>2, <3>1, <3>3 DEF WindowHolds, Times
  <2>6. QED
        BY <1>2, <2>1, <2>3, <2>4, <2>5 DEF MinterInv, Times
<1>11. WindowHolds(m, mintWindow[m])'
  <2>1. MintedOf(minted'[m], s, e) = MintedOf(minted[m], s, e) + amount
        BY <1>3, <1>4, <1>6, <1>9
  <2>2. ASSUME NEW t \in Times PROVE MintedOf(minted'[m], t, s) = MintedOf(minted[m], t, s)
        BY <1>1, <1>3, <1>6, <1>9
  <2>3. \A u \in Times : u >= e => minted'[m][u] = 0
        BY <1>1, <1>2, <1>4, <1>6 DEF WindowHolds
  <2>4. QED
        BY <1>1, <1>2, <1>3, <1>4, <1>5, <1>6, <1>7, <2>1, <2>2, <2>3
           DEF WindowHolds, Times
<1>12. ASSUME NEW t \in Times
       PROVE  MintedOf(minted'[m], t, t + Window) <= 2 * limit
  <2> DEFINE f == t + Window
  <2>1. f \in Int /\ t \in Int
        BY <1>1
  <2>2. MintedOf(minted[m], t, f) <= 2 * limit
        BY DEF MintingInv, MinterInv
  <2>3. MintedOf(minted[m], s, e) = w.minted
        BY <1>4 DEF WindowHolds
  <2>4. \A u \in Within(e, f) : minted[m][u] = 0
        BY <1>4 DEF WindowHolds, Within
  <2>5. t < s /\ s < f => MintedOf(minted[m], t, s) <= limit
        BY <1>4 DEF WindowHolds
  <2>6. t < s => f <= e
        BY <1>1, <1>3
  <2>7. t >= s => e <= f
        BY <1>1, <1>3
  <2> HIDE DEF f, e, s, w, limit
  <2>8. CASE ~ (t <= now /\ now < f)
        BY <1>9, <2>1, <2>2, <2>8 DEF f
  <2>9. CASE t <= now /\ now < f /\ t >= s
    <3>1. MintedOf(minted[m], e, f) = 0
          BY <1>6, <2>1, <2>4, MintedInNone
    <3>2. MintedOf(minted[m], s, f) = MintedOf(minted[m], s, e) + MintedOf(minted[m], e, f)
          BY <1>0, <1>3, <1>6, <2>1, <2>7, <2>9, MintedInParts
    <3>3. MintedOf(minted[m], t, f) <= MintedOf(minted[m], s, f)
          BY <1>0, <1>3, <2>1, <2>9, MintedInPart
    <3>4. MintedOf(minted[m], t, f) \in Nat /\ MintedOf(minted[m], s, f) \in Nat
          BY <1>0, <1>3, <2>1, MintedInTyped
    <3>5. MintedOf(minted'[m], t, f) = MintedOf(minted[m], t, f) + amount
          BY <1>9, <2>1, <2>9
    <3>6. MintedOf(minted[m], t, f) + amount <= 2 * limit
          BY <1>1, <1>3, <1>5, <2>3, <3>1, <3>2, <3>3, <3>4
    <3>7. QED
          BY <3>5, <3>6 DEF f
  <2>10. CASE t <= now /\ now < f /\ t < s
    <3>1. s < f
          BY <1>1, <1>3, <1>6, <2>1, <2>10
    <3>2. MintedOf(minted[m], t, f) = MintedOf(minted[m], t, s) + MintedOf(minted[m], s, f)
          BY <1>0, <1>3, <2>1, <2>10, <3>1, MintedInParts
    <3>3. MintedOf(minted[m], s, f) <= MintedOf(minted[m], s, e)
          BY <1>0, <1>3, <1>6, <2>1, <2>6, <2>10, MintedInPart
    <3>4. /\ MintedOf(minted[m], t, f) \in Nat /\ MintedOf(minted[m], t, s) \in Nat
          /\ MintedOf(minted[m], s, f) \in Nat
          BY <1>0, <1>3, <2>1, MintedInTyped
    <3>5. MintedOf(minted'[m], t, f) = MintedOf(minted[m], t, f) + amount
          BY <1>9, <2>1, <2>10
    <3>6. MintedOf(minted[m], t, f) + amount <= 2 * limit
          BY <1>1, <1>3, <1>5, <2>3, <2>5, <2>10, <3>1, <3>2, <3>3, <3>4
    <3>7. QED
          BY <3>5, <3>6 DEF f
  <2>11. QED
         BY <1>1, <1>3, <2>1, <2>8, <2>9, <2>10 DEF f
<1>13. MinterInv(m)'
  <2>1. (\A u \in Times : u > now => minted[m][u] = 0)'
    <3>1. \A u \in Times : u > now => minted[m][u] = 0
          BY DEF MintingInv, MinterInv
    <3>2. QED
          BY <1>1, <1>2, <3>1 DEF Times
  <2>2. (mintLimit[m] # None => mintLimit[m] <= highestLimit[m])'
        BY <1>2 DEF MintingInv, MinterInv
  <2>3. (\A t \in Times : MintedOf(minted[m], t, t + Window) <= 2 * highestLimit[m])'
        BY <1>2, <1>12 DEF Times
  <2>4. QED
        BY <1>8, <1>11, <2>1, <2>2, <2>3 DEF MinterInv
<1>14. QED
       BY <1>10, <1>13 DEF MintingInv

\* Which steps touch the minters' windows.
LEMMA MintingSteps ==
    ASSUME [Next]_vars
    PROVE  \/ UNCHANGED <<now, minting>>
           \/ Tick
           \/ \E m \in Minters, limit \in Amounts : SetMinterLimit(m, limit)
           \/ \E m \in Minters, to \in Users, amount \in Amounts :
                 MinterMint(m, to, amount)
<1>1. CASE Administer
      BY <1>1 DEF Administer, Initialize, SetFeeConfig, SetTransferable
<1>2. CASE Issue
      BY <1>2 DEF Issue, Mint
<1>3. CASE Spend
      BY <1>3 DEF Spend, Burn, Transfer, Approve, Permit, BurnFrom, TransferFrom
<1>4. CASE Tick \/ UNCHANGED vars
      BY <1>4 DEF vars
<1>5. QED
      BY <1>1, <1>2, <1>3, <1>4 DEF Next

\* Nothing was minted at first.
LEMMA InitMinting == Init => MintingInv
<1> SUFFICES ASSUME Init, NEW m \in Minters PROVE MinterInv(m)
    BY DEF MintingInv
<1>1. /\ mintLimit[m] = None /\ mintWindow[m] = None /\ highestLimit[m] = 0
      /\ \A u \in Times : minted[m][u] = 0
      BY DEF Init
<1>2. ASSUME NEW t \in Times
      PROVE  MintedOf(minted[m], t, t + Window) <= 2 * highestLimit[m]
  <2>1. t \in Int /\ t + Window \in Int
        BY TokenAssumption DEF Times
  <2>2. \A u \in Within(t, t + Window) : minted[m][u] = 0
        BY <1>1 DEF Within
  <2>3. MintedOf(minted[m], t, t + Window) = 0
        BY <2>1, <2>2, MintedInNone
  <2>4. QED
        BY <1>1, <2>3
<1>3. QED
      BY <1>1, <1>2 DEF MinterInv

\* Every entry point keeps what is known of the mint windows.
LEMMA NextMinting == Inv /\ MintingInv /\ [Next]_vars => MintingInv'
<1> SUFFICES ASSUME Inv, MintingInv, [Next]_vars PROVE MintingInv'
    OBVIOUS
<1>1. CASE UNCHANGED <<now, minting>>
      BY <1>1 DEF minting, MintingInv, MinterInv, WindowHolds, MintedOf, Within, Times
<1>2. CASE Tick
  <2> SUFFICES ASSUME NEW m \in Minters PROVE MinterInv(m)'
      BY DEF MintingInv
  <2>1. UNCHANGED minting /\ now' = now + 1 /\ now \in Int /\ \A u \in Times : u \in Int
        BY <1>2, TokenAssumption DEF Tick, Inv, TypeOK, Times
  <2>2. MinterInv(m)
        BY DEF MintingInv
  <2>3. (\A u \in Times : u > now => minted[m][u] = 0)'
        BY <2>1, <2>2, TokenAssumption DEF MinterInv, minting, Times
  <2>4. ASSUME mintWindow[m] # None PROVE WindowHolds(m, mintWindow[m])'
    <3>1. WindowHolds(m, mintWindow[m])
          BY <2>2, <2>4 DEF MinterInv
    <3>2. mintWindow[m].window_start \in Times
      <4>1. mintWindow[m] \in MintWindowState
            BY <2>4 DEF Inv, TypeOK
      <4>2. QED
            BY <4>1 DEF MintWindowState
    <3>3. (mintWindow[m].window_start <= now)'
          BY <2>1, <3>1, <3>2, TokenAssumption DEF WindowHolds, minting, Times
    <3>4. QED
          BY <2>1, <3>1, <3>3 DEF WindowHolds, minting, MintedOf, Within, Times
  <2>5. QED
        BY <2>1, <2>2, <2>3, <2>4 DEF MinterInv, minting, MintedOf, Within, Times
<1>3. ASSUME NEW m \in Minters, NEW limit \in Amounts, SetMinterLimit(m, limit)
      PROVE  MintingInv'
  <2> SUFFICES ASSUME NEW n \in Minters PROVE MinterInv(n)'
      BY DEF MintingInv
  <2>1. /\ mintLimit' = [mintLimit EXCEPT ![m] = limit]
        /\ highestLimit' = [highestLimit EXCEPT ![m] =
              IF limit > highestLimit[m] THEN limit ELSE highestLimit[m]]
        /\ now' = now /\ mintWindow' = mintWindow /\ minted' = minted
        BY <1>3 DEF SetMinterLimit
  <2>2. /\ limit \in Nat /\ highestLimit \in [Minters -> Nat]
        /\ mintLimit \in [Minters -> Nat \cup {None}]
        BY <1>3, TokenAssumption DEF SetMinterLimit, Inv, TypeOK
  <2>3. /\ highestLimit[n] \in Nat /\ highestLimit'[n] \in Nat
        /\ highestLimit'[n] >= highestLimit[n]
        BY <2>1, <2>2
  <2>4. MinterInv(n)
        BY DEF MintingInv
  <2>5. mintLimit'[n] # None => mintLimit'[n] <= highestLimit'[n]
    <3>1. CASE n = m
          BY <2>1, <2>2, <3>1
    <3>2. CASE n # m
          BY <2>1, <2>2, <2>4, <3>2 DEF MinterInv
    <3>3. QED
          BY <3>1, <3>2
  <2>6. ASSUME NEW t \in Times
        PROVE  MintedOf(minted[n], t, t + Window) <= 2 * highestLimit'[n]
    <3>1. t \in Int /\ t + Window \in Int
          BY TokenAssumption DEF Times
    <3>2. MintedOf(minted[n], t, t + Window) \in Nat
          BY <3>1, MintedInTyped DEF Inv
    <3>3. MintedOf(minted[n], t, t + Window) <= 2 * highestLimit[n]
          BY <2>4 DEF MinterInv
    <3>4. QED
          BY <2>3, <3>2, <3>3
  <2>7. ASSUME mintWindow[n] # None PROVE WindowHolds(n, mintWindow[n])'
    <3>1. WindowHolds(n, mintWindow[n])
          BY <2>4, <2>7 DEF MinterInv
    <3> DEFINE s == mintWindow[n].window_start
    <3>2. s \in Times /\ mintWindow[n].minted \in Nat
      <4>1. mintWindow[n] \in MintWindowState
            BY <2>7 DEF Inv, TypeOK
      <4>2. QED
            BY <4>1 DEF MintWindowState
    <3>3. mintWindow[n].minted <= highestLimit'[n]
          BY <2>3, <3>1, <3>2 DEF WindowHolds
    <3>4. ASSUME NEW t \in Times, t + Window > s
          PROVE  MintedOf(minted[n], t, s) <= highestLimit'[n]
      <4>1. t \in Int /\ s \in Int
            BY <3>2, TokenAssumption DEF Times
      <4>2. MintedOf(minted[n], t, s) \in Nat
            BY <4>1, MintedInTyped DEF Inv
      <4>3. MintedOf(minted[n], t, s) <= highestLimit[n]
            BY <3>1, <3>4 DEF WindowHolds
      <4>4. QED
            BY <2>3, <4>2, <4>3
    <3>5. QED
          BY <2>1, <3>1, <3>3, <3>4 DEF WindowHolds, MintedOf, Within, Times
  <2>8. QED
        BY <2>1, <2>4, <2>5, <2>6, <2>7 DEF MinterInv, MintedOf, Within, Times
<1>4. ASSUME NEW m \in Minters, NEW to \in Users, NEW amount \in Amounts,
             MinterMint(m, to, amount)
      PROVE  MintingInv'
  <2>1. amount \in Nat
        BY <1>4, TokenAssumption DEF MinterMint
  <2>2. QED
        BY <1>4, <2>1, MinterMintKeeps
<1>5. QED
      BY <1>1, <1>2, <1>3, <1>4, MintingSteps

\* For any window length, limits and schedule of mints and limit changes, no
\* period as long as a window sees a minter mint more than twice the highest
\* limit it ever had (lib.rs 195-233).
THEOREM MintCap == Spec => []TwoWindowCap
<1>1. MintingInv => TwoWindowCap
      BY DEF MintingInv, MinterInv, TwoWindowCap, MintedFrom, MintedOf, Within
<1>2. QED
      BY <1>1, InvAlways, InitMinting, NextMinting, PTL DEF Spec
=============================================================================
