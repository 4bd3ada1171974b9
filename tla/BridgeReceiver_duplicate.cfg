\* Two signals filed for one source transaction before either is executed are
\* both executed: the mark is set and checked at different steps.
SPECIFICATION Spec
CONSTANTS
    Accounts = {a1, a2}
    Txs = {x1, x2}
    Payloads = {payload}
    NoSignal = NoSignal
    NoAdmin = NoAdmin
    MaxSignals = 3
    MaxInits = 2
INVARIANT NoDuplicateProcessing
CHECK_DEADLOCK FALSE
