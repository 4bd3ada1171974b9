---------------------------- MODULE EventIndexer ----------------------------
(***************************************************************************)
(* The event indexer of the server (server/services/event-indexer.js and   *)
(* its worker) together with the historical rebuild                        *)
(* (server/historical-indexer-worker.js): both page through the events of  *)
(* a Soroban RPC node and insert them into one MongoDB collection.         *)
(*                                                                         *)
(* External: the RPC node answers getEvents with the first events at or    *)
(* after a ledger, or after a cursor, up to the limit, or fails; MongoDB   *)
(* inserts the documents of an unordered insertMany one by one and refuses *)
(* a second document with the same pagingToken.  A paging token stands for *)
(* a ledger and a position in it, as initialize and _fetchAndIndexEvents   *)
(* take it to.                                                             *)
(***************************************************************************)
EXTENDS Integers, Sequences, SequencesExt, FiniteSetsExt

CONSTANTS
    MaxLedger,      \* bound on the ledgers closed
    PerLedger,      \* bound on the events of a ledger
    BatchSize,      \* BATCH_SIZE of the live indexer
    RebuildSize,    \* BATCH_SIZE of the historical one
    MaxCrashes      \* bound on the times the live worker is killed

ASSUME IndexerAssumption ==
    /\ MaxLedger \in Nat /\ PerLedger \in Nat /\ MaxCrashes \in Nat
    /\ BatchSize \in Nat \ {0} /\ RebuildSize \in Nat \ {0}

VARIABLES
    chain,          \* events on the network, in order
    tip,            \* last closed ledger
    stored,         \* the SorobanEvent collection
    worker,         \* the live worker: up or down
    cursor,         \* ledger of lastCursor, 0 when undefined
    processingBatch,
    batch,          \* events of the insertMany under way, in order
    rebuild,        \* the historical worker: off, running or done
    rebuildCursor,  \* its currentCursor, a position in chain
    rebuildPage,    \* events of its insertMany under way, in order
    crashes,        \* history: times the live worker was killed
    cut,            \* history: ledgers a full batch of either worker ended in
    abandoned       \* history: events of a batch whose insertion was cut short

liveVars == <<worker, cursor, processingBatch, batch>>
rebuildVars == <<rebuild, rebuildCursor, rebuildPage>>
lossVars == <<crashes, cut, abandoned>>
indexerVars == <<chain, tip, stored, liveVars, rebuildVars, lossVars>>

ChainEvents == (1 .. MaxLedger) \X (1 .. PerLedger)

\* At most n events of s, from its beginning.
FirstOf(s, n) == SubSeq(s, 1, Min({n, Len(s)}))

-----------------------------------------------------------------------------
(* Faulty variants of the definitions below, each caught by a property. *)

SkipsOne(c) == c + 2
StaysBusy(answered) == ~answered

-----------------------------------------------------------------------------
\* The startLedger of a request for events after ledger c.
StartLedger(c) == c + 1

\* What the historical worker asks for, its cursor being position c.
AfterCursor(c) == SubSeq(chain, c + 1, Len(chain))

\* The position of the last event before ledger l.
BeforeLedger(l) == Max({i \in DOMAIN chain : chain[i][1] < l} \cup {0})

\* initialize: the cursor is taken from an event of the highest ledger stored.
LastIndexed(s) == IF s = {} THEN 0 ELSE Max({e[1] : e \in s})

\* The ledgers in which a page of at most n events may have ended.
CutBy(page, n) == IF Len(page) = n THEN cut \cup {Last(page)[1]} ELSE cut

\* The finally block clears processingBatch however the batch ended.
BusyAfter(answered) == FALSE

IndexerInit ==
    /\ chain = <<>> /\ tip = 0 /\ stored = {}
    /\ worker = "down" /\ cursor = 0 /\ processingBatch = FALSE /\ batch = <<>>
    /\ rebuild = "off" /\ rebuildCursor = 0 /\ rebuildPage = <<>>
    /\ crashes = 0 /\ cut = {} /\ abandoned = {}

\* The network closes a ledger with n events.
CloseLedger(n) ==
    /\ tip < MaxLedger
    /\ tip' = tip + 1
    /\ chain' = chain \o [i \in 1 .. n |-> <<tip + 1, i>>]
    /\ UNCHANGED <<stored, liveVars, rebuildVars, lossVars>>

\* The worker starts: initialize and start.
StartWorker ==
    /\ worker = "down"
    /\ worker' = "up"
    /\ cursor' = LastIndexed(stored)
    /\ processingBatch' = FALSE /\ batch' = <<>>
    /\ UNCHANGED <<chain, tip, stored, rebuildVars, lossVars>>

\* SIGTERM or a crash; an insertMany under way may be cut short.
KillWorker ==
    /\ worker = "up" /\ crashes < MaxCrashes
    /\ worker' = "down"
    /\ crashes' = crashes + 1
    /\ abandoned' = abandoned \cup ToSet(batch)
    /\ processingBatch' = FALSE /\ batch' = <<>>
    /\ UNCHANGED <<chain, tip, stored, cursor, rebuildVars, cut>>

\* _fetchAndIndexEvents up to the insert, or its failure.
Fetch(answered) ==
    LET events == AfterCursor(BeforeLedger(StartLedger(cursor)))
        page == IF answered THEN FirstOf(events, BatchSize) ELSE <<>>
    IN
    /\ worker = "up" /\ ~processingBatch
    /\ batch' = page
    /\ processingBatch' = (page # <<>> \/ BusyAfter(answered))
    /\ cut' = CutBy(page, BatchSize)
    /\ UNCHANGED <<chain, tip, stored, worker, cursor, rebuildVars, crashes, abandoned>>

\* One document of the insertMany arrives, in any order.
InsertOne(e) ==
    /\ e \in ToSet(batch) \ stored
    /\ stored' = stored \cup {e}
    /\ UNCHANGED <<chain, tip, liveVars, rebuildVars, lossVars>>

\* The insertMany is done, duplicates ignored: the cursor moves on.
Inserted ==
    /\ batch # <<>> /\ ToSet(batch) \subseteq stored
    /\ cursor' = Last(batch)[1]
    /\ batch' = <<>> /\ processingBatch' = BusyAfter(TRUE)
    /\ UNCHANGED <<chain, tip, stored, worker, rebuildVars, lossVars>>

\* The insertMany fails; the next poll asks for the same events again.  What
\* did arrive already counts for a restart, so the rest may be skipped then.
InsertFails ==
    /\ batch # <<>>
    /\ batch' = <<>> /\ processingBatch' = BusyAfter(FALSE)
    /\ abandoned' = abandoned \cup (ToSet(batch) \ stored)
    /\ UNCHANGED <<chain, tip, stored, worker, cursor, rebuildVars, crashes, cut>>

\* The historical worker is run, from the first ledger.
StartRebuild ==
    /\ rebuild = "off"
    /\ rebuild' = "running" /\ rebuildCursor' = 0
    /\ UNCHANGED <<chain, tip, stored, liveVars, rebuildPage, lossVars>>

\* It is answered with a page and begins to insert it.
RebuildFetch ==
    LET page == FirstOf(AfterCursor(rebuildCursor), RebuildSize) IN
    /\ rebuild = "running" /\ rebuildPage = <<>> /\ page # <<>>
    /\ rebuildPage' = page
    /\ cut' = CutBy(page, RebuildSize)
    /\ UNCHANGED <<chain, tip, stored, liveVars, rebuild, rebuildCursor, crashes, abandoned>>

\* One document of the page arrives, in any order.
RebuildOne(e) ==
    /\ e \in ToSet(rebuildPage) \ stored
    /\ stored' = stored \cup {e}
    /\ UNCHANGED <<chain, tip, liveVars, rebuildVars, lossVars>>

\* The page is inserted: its last paging token becomes the cursor.
RebuildInserted ==
    /\ rebuildPage # <<>> /\ ToSet(rebuildPage) \subseteq stored
    /\ rebuildCursor' = CHOOSE i \in DOMAIN chain : chain[i] = Last(rebuildPage)
    /\ rebuildPage' = <<>>
    /\ UNCHANGED <<chain, tip, stored, liveVars, rebuild, lossVars>>

\* The rest of the page is given up.
RebuildAbandons ==
    /\ rebuildPage' = <<>>
    /\ abandoned' = abandoned \cup (ToSet(rebuildPage) \ stored)
    /\ UNCHANGED <<chain, tip, stored, liveVars, rebuildCursor, crashes, cut>>

\* The insertMany fails part way: the same page is asked for again.
RebuildFails ==
    /\ rebuildPage # <<>>
    /\ RebuildAbandons
    /\ UNCHANGED rebuild

\* The historical worker is killed, also in the middle of a page.
KillRebuild ==
    /\ rebuild = "running"
    /\ rebuild' = "off"
    /\ RebuildAbandons

\* No more events: the worker exits.
RebuildEnds ==
    /\ rebuild = "running" /\ rebuildPage = <<>> /\ AfterCursor(rebuildCursor) = <<>>
    /\ rebuild' = "done"
    /\ UNCHANGED <<chain, tip, stored, liveVars, rebuildCursor, rebuildPage, lossVars>>

IndexerNext ==
    \/ \E n \in 0 .. PerLedger : CloseLedger(n)
    \/ StartWorker \/ KillWorker
    \/ \E answered \in BOOLEAN : Fetch(answered)
    \/ \E e \in ChainEvents : InsertOne(e) \/ RebuildOne(e)
    \/ Inserted \/ InsertFails
    \/ StartRebuild \/ RebuildFetch \/ RebuildInserted \/ RebuildFails
    \/ KillRebuild \/ RebuildEnds

\* The worker is restarted when it is down, polls for ever, and neither the RPC
\* node nor MongoDB fails for ever; the insertions of a rebuild are answered.
IndexerFairness ==
    /\ WF_indexerVars(StartWorker) /\ SF_indexerVars(Fetch(TRUE))
    /\ SF_indexerVars(\E e \in ChainEvents : InsertOne(e))
    /\ SF_indexerVars(Inserted)
    /\ WF_indexerVars(\E e \in ChainEvents : RebuildOne(e))

IndexerSpec == IndexerInit /\ [][IndexerNext]_indexerVars
FairIndexerSpec == IndexerSpec /\ IndexerFairness

-----------------------------------------------------------------------------
(* Properties. *)

IndexerTypeOK ==
    /\ ToSet(chain) \subseteq ChainEvents /\ tip \in 0 .. MaxLedger
    /\ stored \subseteq ToSet(chain)
    /\ worker \in {"up", "down"} /\ cursor \in 0 .. tip
    /\ processingBatch \in BOOLEAN /\ ToSet(batch) \subseteq ToSet(chain)
    /\ rebuild \in {"off", "running", "done"} /\ rebuildCursor \in 0 .. Len(chain)
    /\ ToSet(rebuildPage) \subseteq ToSet(chain)
    /\ crashes \in 0 .. MaxCrashes

\* What the live worker will never ask for again.
Behind(e) == e[1] <= cursor

\* The live worker loses events in two ways and no other: a ledger that a full
\* batch ended in, and a batch whose insertion failed or was cut short, by it or
\* by a rebuild next to it.  Everything else behind the cursor is in the
\* database or just being inserted by the rebuild, whose page may be half there
\* when a restart takes the cursor from it (event-indexer.js:18-30, 56-109).
LossesAreKnown ==
    \A e \in ToSet(chain) :
        worker = "up" /\ Behind(e) =>
            \/ e \in stored \/ e[1] \in cut \/ e \in abandoned
            \/ e \in ToSet(rebuildPage)

\* A historical rebuild repairs them: when it ends, every event up to where it
\* stopped is in the database, whatever the live worker does meanwhile
\* (historical-indexer-worker.js:31-88).
RebuildIsComplete ==
    rebuild = "done" => \A i \in 1 .. rebuildCursor : chain[i] \in stored

\* Neither the live index nor a rebuilt one lacks anything unaccounted for.
IndexHolds == LossesAreKnown /\ RebuildIsComplete

\* However often the node, the database or the worker fails, every event is in
\* the database at last or lost in one of the two known ways; neither is ever
\* undone (event-indexer.js:32-109).
EveryEventIndexed ==
    []<>(\A e \in ToSet(chain) : e \in stored \/ e[1] \in cut \/ e \in abandoned)
=============================================================================
