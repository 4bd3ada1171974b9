\* Approval sets the status to approved, and execution requires it to be
\* pending.
SPECIFICATION SigningSpec
CONSTANTS
    Cosigners = {u1, u2, u3}
    Requests = {r1, r2, r3}
    Thresholds = {2}
    NoTx = NoTx
INVARIANT ApprovedCanBeExecuted
CHECK_DEADLOCK FALSE
