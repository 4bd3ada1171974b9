\* A chain of up to six events, a live worker that is killed and restarted at
\* any await, and the historical rebuild, which inserts its pages one document
\* at a time and may be killed too: what the index lacks lies in ledgers a page
\* cut, in what a crash or a failed insert left, or in the page a rebuild is
\* inserting, everything else is stored at last, and a finished rebuild lacks
\* nothing that existed when it ended.
SPECIFICATION FairIndexerSpec
CONSTANTS
    MaxLedger = 3
    PerLedger = 2
    BatchSize = 2
    RebuildSize = 2
    MaxCrashes = 2
INVARIANT IndexHolds
PROPERTY EveryEventIndexed
CHECK_DEADLOCK FALSE
