\* Nine kinds of documents, a scenario each, every one under concurrent
\* requests that are split at their awaits, with calls that fail before or
\* after taking effect: what each document says in spite of it, and which races
\* alone make it wrong.
SPECIFICATION MCSpec
CONSTANTS
    a1 = a1
    a2 = a2
    b1 = b1
    b2 = b2
    x1 = x1
    x2 = x2
    x3 = x3
    c1 = c1
    c2 = c2
    c3 = c3
    c4 = c4
    Wallets = {c1}
    Profiles = {b1, b2}
    EmailOf <- MCEmailOf
    Users = {a1, a2}
    SignIns = {c2, c3}
    Posts = 2
    Claims = {c4, c1}
    KeyUses = {a1, a2}
    KeyEdits = {b1, b2}
    Limits = {1, 2}
    Rotations = 1
    Deploys = {a1, a2}
    Edits = {b1, b2}
    FreeMax = 1
    ProMax = 2
    Months = 2
    RegOwners = {c1}
    RegTokens = {b1, b2}
    OwnerOf <- MCOwnerOf
    RegReads = {a1, a2}
    RegWrites = {c3, c4}
    MaxVersion = 2
    ScanUsers = {a1, a2}
    Uploads = {c1}
    Deployments = {c2}
    MaxSections = 2
    Jobs = {a1, a2}
    Tests = {c1}
    Retention = 1
    LastDay = 2
    Cosigners = {x1, x2, x3}
    Requests = {c1, c2, c3}
    Thresholds = {1, 2}
    NoTx = NoTx
    NftRequests = {x1, x2, x3}
    NftOwners = {a1, a2}
    NftIds = {b1, b2}
    DaoVoters = {c1, c2, c3}
    Ballots = {x1, x2, x3}
    ApprovalQuorum = 51
SYMMETRY Symmetry
INVARIANTS
    
    BillingAddsUp
    
    RegisteredWasRead
    BackupsHold
    SignaturesStand
    CollectionIsItsOwners
PROPERTIES
    KeyRulesHold
    ApprovedByItsVotes
CHECK_DEADLOCK FALSE
