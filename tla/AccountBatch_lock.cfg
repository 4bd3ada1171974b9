\* Two token batches and an NFT batch for one account, with a lock that
\* expires, Redis and RPC calls that fail before or after taking effect, and
\* crashes: the lock implements a lease, a sequence number is taken from a
\* batch under it only after a TTL or by a transaction that was already
\* pending, and in the end every request is answered and the lock is free.
SPECIFICATION FairSpec
CONSTANTS
    None = None
    TTL = 2
    Resends = 1
    Retries = 1
    Batches = {r1, r2}
    NftBatches = {r3}
INVARIANTS
    StolenOnlyInTwoWays
PROPERTIES
    LockIsLease
    EverythingEnds
