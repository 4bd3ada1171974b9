\* The multisig as the admin of the timelock that owns a proxy, and beside it a
\* timelock with two factories under a single admin: no code changes without an
\* entry that waited, no entry acts twice, and every upgrade of the pipeline
\* stands on a quorum and is one approved proposal.
SPECIFICATION MCSpec
CONSTANTS
    s1 = s1
    s2 = s2
    s3 = s3
    p1 = p1
    f1 = f1
    f2 = f2
    h0 = h0
    h1 = h1
    Signers <- MCSigners
    SignerLists <- MCSignerLists
    Upgrades <- MCUpgrades
    NoItem = NoItem
    MaxItems = 2
    Factories <- MCFactories
    Proxies <- MCProxies
    Hashes <- MCHashes
    InitialHash = h0
    Schema <- MCSchema
    Salts = {salt1}
    Delay = 2
    MaxTime = 5
    MaxQueued = 3
SYMMETRY Symmetry
INVARIANTS
    DelayRespected
    ExecutedOnce
    CodeIsGoverned
    PipelineHolds
CHECK_DEADLOCK FALSE
