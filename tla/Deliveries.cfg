\* What reaches whom, a scenario each: signals filed twice for a transaction,
\* requests, polls, resets and timers around one queue of commands, webhook
\* attempts that fail half way, an event stream that reconnects, and the
\* answers to overlapping requests of the client's pages.
SPECIFICATION MCSpec
CONSTANTS
    a1 = a1
    a2 = a2
    x1 = x1
    x2 = x2
    v1 = v1
    v2 = v2
    Accounts = {a1, a2}
    Txs = {x1, x2}
    Payloads = {payload}
    NoSignal = NoSignal
    NoAdmin = NoAdmin
    MaxSignals = 3
    MaxInits = 2
    Hooks = {a1, a2}
    Dispatches = {x}
    MaxRetries = 3
    MaxArchived = 1
    MaxRecords = 5
    Connections = 3
    Sessions = {v1, v2}
    PowerReads = 3
    ListReads = 3
    Sends = {1}
    Owners = {v1}
    Loads = 2
    Forms = {1}
    Addresses = {a1, a2}
    Minted = {x1}
    Fetches = 3
    e1 = e1
    e2 = e2
    usdc = usdc
    ten = ten
    alice = alice
    Missing = Missing
    p1 = p1
    p2 = p2
    c1 = c1
    c2 = c2
    Pollers <- MCPollers
    Callers <- MCCallers
    Events <- MCEvents
    Logs <- MCLogs
    MaxTimers = 2
    MaxQueue = 1
    MaxResets = 1
SYMMETRY Symmetry
INVARIANTS
    OneExecutionPerFiling
    ReplaysAreOlderFilings
    OneDrains
    EveryReceiptAccounted
    StreamIsExact
    PagesAreCurrent
    ShownIsOneLoad
CHECK_DEADLOCK FALSE
