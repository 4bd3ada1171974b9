\* The poller runs for ever and the node answers, and what the EVM bridge
\* logged of a transfer never reaches the relay endpoint: the polls hand on raw
\* logs, of which no command is made.
SPECIFICATION FairRelayerSpec
CONSTANTS
    e1 = e1
    e2 = e2
    usdc = usdc
    ten = ten
    alice = alice
    Missing = Missing
    p1 = p1
    p2 = p2
    c1 = c1
    c2 = c2
    Pollers <- MCPollers
    Callers <- MCCallers
    Events <- MCEvents
    Logs <- MCLogs
    MaxTimers = 2
    MaxQueue = 1
    MaxResets = 1
PROPERTY EveryLogRelayed
