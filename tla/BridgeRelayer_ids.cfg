\* Two transfers between the same parties are relayed under one id: the 48
\* bytes kept of it end before the event id.
SPECIFICATION RelayerSpec
CONSTANTS
    e1 = e1
    e2 = e2
    usdc = usdc
    ten = ten
    alice = alice
    Missing = Missing
    p1 = p1
    p2 = p2
    c1 = c1
    c2 = c2
    Pollers <- MCPollers
    Callers <- MCCallers
    Events <- MCEvents
    Logs <- MCLogs
    MaxTimers = 2
    MaxQueue = 1
    MaxResets = 1
INVARIANT BridgeIdsTellApart
CHECK_DEADLOCK FALSE
