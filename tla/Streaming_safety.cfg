\* Two streams over two ledgers and two tokens, with late initialize calls,
\* operators, batches and cancellations: the escrow stays solvent stream by
\* stream and nothing takes back what had accrued.
SPECIFICATION Spec
CONSTANTS
    u1 = u1
    u2 = u2
    t1 = t1
    t2 = t2
    Users <- MCUsers
    Tokens <- MCTokens
    Amounts <- MCAmounts
    Ranges <- MCRanges
    FeeChoices <- MCFees
    Escrow = Escrow
    None = None
    MaxLedger = 2
    MaxStreams = 2
    Endowment = 4
SYMMETRY Symmetry
INVARIANTS
    Solvent
    NeverAheadOfSchedule
    PaidOutOfOwnDeposit
PROPERTY AccrualIsKept
CHECK_DEADLOCK FALSE
