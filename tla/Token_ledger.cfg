\* Two users, an allowance and a minter over a mint window and the start of the
\* next, with every entry point that moves balances and amounts of either sign:
\* the two supply counters together are the balances, allowances are conserved,
\* and no window of time holds more than twice the highest limit.
SPECIFICATION Spec
CONSTANTS
    u1 = u1
    u2 = u2
    m1 = m1
    Users <- MCUsers
    Spenders <- MCSpenders
    Minters <- MCMinters
    FeeConfigs <- MCFees
    Amounts <- MCAmounts
    Admin = Admin
    None = None
    Window = 2
    MaxTime = 2
    MaxTokens = 3
    MaxHeld = 2
INVARIANTS
    EveryTokenAccounted
    AllowanceConserved
    TwoWindowCap
