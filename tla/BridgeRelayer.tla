---------------------------- MODULE BridgeRelayer ----------------------------
(***************************************************************************)
(* The bridge relayer of the server (server/services/bridge-relayer.js and *)
(* its routes): an in-memory queue of commands filled by HTTP requests and *)
(* by pollers of the EVM chain, and drained by one flush loop at a time.   *)
(* The server is one JavaScript event loop, so an action runs from one     *)
(* await to the next.                                                      *)
(*                                                                         *)
(* The relayer is enabled and configured for both directions.  The Soroban *)
(* monitor is a stub in the code and does nothing.  The relay endpoint and *)
(* the EVM node are external: a call of either succeeds or fails.  An      *)
(* event is a record of the fields a command is built from, with Missing   *)
(* for one that is absent; symbols and amounts are short, and a recipient  *)
(* is an address.  The node answers eth_getLogs with raw entries (address, *)
(* topics, data), which nothing decodes and which have none of the fields. *)
(***************************************************************************)
EXTENDS Integers, Sequences, FiniteSets, SequencesExt

CONSTANTS
    Pollers,        \* slots for _pollEvmOnce calls running at the same time
    Callers,        \* slots for HTTP requests running at the same time
    Events,         \* bridge events
    Logs,           \* those the EVM bridge may log; requests bring any event
    Missing,        \* no value
    MaxTimers,      \* bound on the interval timers started and never stopped
    MaxQueue,       \* bound on the commands HTTP requests may leave waiting
    MaxResets       \* bound on the resets by an administrator

ASSUME RelayerAssumption ==
    /\ Pollers \cap Callers = {} /\ Logs \subseteq Events
    /\ MaxTimers \in Nat /\ MaxQueue \in Nat /\ MaxResets \in Nat

VARIABLES
    chain,          \* what the EVM bridge has logged, in order
    timers,         \* how many setInterval timers are running
    evmPollTimer,   \* whether this.evmPollTimer holds one
    calls,          \* what each poller or request is doing
    queue,          \* this.queue
    processing,     \* this.processing is set
    inFlight,       \* the command each running flush loop is dispatching
    resets,         \* history: number of resets
    relayed         \* history: the commands the endpoint accepted

relayerVars == <<chain, timers, evmPollTimer, calls, queue, processing, inFlight, resets, relayed>>

Slots == Pollers \cup Callers

Idle == [pc |-> "idle", starts |-> FALSE, left |-> <<>>]

-----------------------------------------------------------------------------
(* Faulty variants of the definitions below, each caught by a property. *)

NeverLocks(locked) == FALSE
ForgetsLoop(q) == FALSE

-----------------------------------------------------------------------------
(* The command of an event. *)

\* An action classifies the event; another one, or none, makes no command.
ActionFamily ==
    [lock |-> "LOCK", deposit |-> "LOCK", release |-> "RELEASE", withdraw |-> "RELEASE",
     mint |-> "MINT", burn |-> "BURN", transfer |-> "TRANSFER"]

RelayAction ==
    [LOCK |-> "mint", RELEASE |-> "release", MINT |-> "mint", BURN |-> "release",
     TRANSFER |-> "transfer"]

\* The fields are joined, the event's id last, and 48 bytes are kept: an
\* address takes all that the other fields leave.
BridgeId(e) ==
    <<ActionFamily[e.action], e.symbol, e.amount, e.recipient,
      IF e.recipient = Missing THEN e.id ELSE Missing>>

\* Nothing is relayed of an event that names neither recipient nor amount.
BuildRelayCommand(e) ==
    IF e.action \in DOMAIN ActionFamily /\ (e.recipient # Missing \/ e.amount # Missing)
    THEN {[bridgeId |-> BridgeId(e), action |-> RelayAction[ActionFamily[e.action]], event |-> e]}
    ELSE {}

Recognised == {e \in Events : BuildRelayCommand(e) # {}}

\* A log as the node returns it.
RawLog ==
    [action |-> Missing, symbol |-> Missing, amount |-> Missing, recipient |-> Missing,
     id |-> Missing]

Inputs == Events \cup {RawLog}
Commands == UNION {BuildRelayCommand(e) : e \in Inputs}

-----------------------------------------------------------------------------
\* flushQueue returns the running loop's promise when there is one.
Locked(locked) == locked

\* evmStartBlock is never advanced: every poll reads all logs again, and hands
\* them on as they are.
Polled(logs) == [i \in DOMAIN logs |-> RawLog]

\* The loop goes on while the queue has a command.
GoesOn(q) == q # <<>>

\* Whoever awaited the loop goes on when it ends.
Awakened(p) == IF calls[p].pc = "await" THEN [calls[p] EXCEPT !.pc = "ingest"] ELSE calls[p]

RelayerInit ==
    /\ chain = <<>> /\ timers = 0 /\ evmPollTimer = FALSE
    /\ calls = [p \in Slots |-> Idle]
    /\ queue = <<>> /\ processing = FALSE /\ inFlight = <<>>
    /\ resets = 0 /\ relayed = {}

\* A bridge event is logged on the EVM chain.
Emit(e) ==
    /\ e \notin ToSet(chain)
    /\ chain' = Append(chain, e)
    /\ UNCHANGED <<timers, evmPollTimer, calls, queue, processing, inFlight, resets, relayed>>

\* start: polls once and then sets a timer; nothing stops a second start.
Start(p) ==
    /\ calls[p] = Idle
    /\ timers + Cardinality({o \in Pollers : calls[o].starts}) < MaxTimers
    /\ calls' = [calls EXCEPT ![p] = [pc |-> "fetch", starts |-> TRUE, left |-> <<>>]]
    /\ UNCHANGED <<chain, timers, evmPollTimer, queue, processing, inFlight, resets, relayed>>

\* An interval timer calls _pollEvmOnce, whether or not the last one is done.
TimerFires(p) ==
    /\ timers > 0 /\ calls[p] = Idle
    /\ calls' = [calls EXCEPT ![p] = [pc |-> "fetch", starts |-> FALSE, left |-> <<>>]]
    /\ UNCHANGED <<chain, timers, evmPollTimer, queue, processing, inFlight, resets, relayed>>

\* The answer to eth_getLogs, or its last failure after the retries.
Fetch(p, answered) ==
    /\ calls[p].pc = "fetch"
    /\ calls' = [calls EXCEPT ![p].pc = "ingest",
                              ![p].left = IF answered THEN Polled(chain) ELSE <<>>]
    /\ UNCHANGED <<chain, timers, evmPollTimer, queue, processing, inFlight, resets, relayed>>

\* POST /bridge/relayer/ingest and /simulate.
Request(p, e) ==
    /\ calls[p] = Idle /\ Len(queue) < MaxQueue
    /\ calls' = [calls EXCEPT ![p] = [pc |-> "ingest", starts |-> FALSE, left |-> <<e>>]]
    /\ UNCHANGED <<chain, timers, evmPollTimer, queue, processing, inFlight, resets, relayed>>

\* flushQueue on the queue q, called by p: start a loop, whose first command is
\* dispatched at once, or join the running one.
Flush(p, q, rest) ==
    /\ calls' = [calls EXCEPT ![p] = [@ EXCEPT !.pc = "await", !.left = rest]]
    /\ IF Locked(processing)
       THEN queue' = q /\ UNCHANGED <<processing, inFlight>>
       ELSE /\ processing' = TRUE
            /\ queue' = Tail(q)
            /\ inFlight' = Append(inFlight, Head(q))

\* ingestEvent for the next event of p: skipped, or queued and flushed.
Ingest(p) ==
    /\ calls[p].pc = "ingest" /\ calls[p].left # <<>>
    /\ LET built == BuildRelayCommand(Head(calls[p].left)) IN
         \/ \E command \in built : Flush(p, Append(queue, command), Tail(calls[p].left))
         \/ /\ built = {}
            /\ calls' = [calls EXCEPT ![p].left = Tail(@)]
            /\ UNCHANGED <<queue, processing, inFlight>>
    /\ UNCHANGED <<chain, timers, evmPollTimer, resets, relayed>>

\* p has nothing left to ingest; the poll of start() then sets the timer and
\* overwrites the handle of an earlier one.
Finish(p) ==
    /\ calls[p].pc = "ingest" /\ calls[p].left = <<>>
    /\ calls' = [calls EXCEPT ![p] = Idle]
    /\ timers' = IF calls[p].starts THEN timers + 1 ELSE timers
    /\ evmPollTimer' = (calls[p].starts \/ evmPollTimer)
    /\ UNCHANGED <<chain, queue, processing, inFlight, resets, relayed>>

\* stop: clears the one timer the relayer has a handle of and flushes.
Stop(p) ==
    /\ calls[p] = Idle
    /\ timers' = IF evmPollTimer THEN timers - 1 ELSE timers
    /\ evmPollTimer' = FALSE
    /\ IF queue = <<>> /\ ~Locked(processing)
       THEN UNCHANGED <<calls, queue, processing, inFlight>>
       ELSE Flush(p, queue, <<>>)
    /\ UNCHANGED <<chain, resets, relayed>>

\* POST /bridge/relayer/reset empties the queue.
Reset ==
    /\ resets < MaxResets
    /\ resets' = resets + 1
    /\ queue' = <<>>
    /\ UNCHANGED <<chain, timers, evmPollTimer, calls, processing, inFlight, relayed>>

\* The relay endpoint answers loop i: the command is done, whether it was
\* accepted or not, and the loop takes the next one or ends.
Dispatched(i, accepted) ==
    /\ i \in DOMAIN inFlight
    /\ relayed' = IF accepted THEN relayed \cup {inFlight[i]} ELSE relayed
    /\ IF GoesOn(queue)
       THEN /\ inFlight' = [inFlight EXCEPT ![i] = Head(queue)]
            /\ queue' = Tail(queue)
            /\ UNCHANGED <<processing, calls>>
       ELSE /\ inFlight' = RemoveAt(inFlight, i)
            /\ processing' = FALSE
            /\ calls' = [p \in Slots |-> Awakened(p)]
            /\ UNCHANGED queue
    /\ UNCHANGED <<chain, timers, evmPollTimer, resets>>

RelayerNext ==
    \/ \E e \in Logs : Emit(e)
    \/ \E p \in Pollers : Start(p) \/ TimerFires(p) \/ \E ok \in BOOLEAN : Fetch(p, ok)
    \/ \E p \in Callers : Stop(p) \/ \E e \in Events : Request(p, e)
    \/ \E p \in Slots : Ingest(p) \/ Finish(p)
    \/ Reset
    \/ \E i \in DOMAIN inFlight, ok \in BOOLEAN : Dispatched(i, ok)

\* The event loop runs what is ready, timers fire, calls get an answer, and an
\* EVM node or endpoint asked for ever is not down for ever.
Fairness ==
    /\ \A p \in Slots : WF_relayerVars(Ingest(p) \/ Finish(p))
    /\ \A p \in Pollers : WF_relayerVars(TimerFires(p)) /\ SF_relayerVars(Fetch(p, TRUE))
    /\ WF_relayerVars(\E ok \in BOOLEAN : Dispatched(1, ok))
    /\ \A e \in Recognised : SF_relayerVars(inFlight # <<>> /\ inFlight[1].event = e /\ Dispatched(1, TRUE))

RelayerSpec == RelayerInit /\ [][RelayerNext]_relayerVars
FairRelayerSpec == RelayerSpec /\ Fairness

-----------------------------------------------------------------------------
(* Properties. *)

RelayerTypeOK ==
    /\ ToSet(chain) \subseteq Logs /\ timers \in 0 .. MaxTimers
    /\ evmPollTimer \in BOOLEAN /\ processing \in BOOLEAN
    /\ calls \in [Slots -> [pc : {"idle", "fetch", "ingest", "await"},
                            starts : BOOLEAN, left : Seq(Inputs)]]
    /\ queue \in Seq(Commands) /\ inFlight \in Seq(Commands)
    /\ resets \in 0 .. MaxResets /\ relayed \subseteq Commands

\* Commands are dispatched one at a time however many polls and requests flush
\* at once: the processing lock is held exactly while a loop has a command out
\* (bridge-relayer.js:520-525, docs/architecture/bridge-receiver.md:831).
SingleFlight ==
    /\ Len(inFlight) <= 1
    /\ processing <=> inFlight # <<>>

\* No command and no caller is left behind: what is queued, and whoever waits
\* for a flush, waits for a loop that is running (bridge-relayer.js:520-560).
NobodyStranded ==
    queue # <<>> \/ (\E p \in Slots : calls[p].pc = "await") => inFlight # <<>>

\* The queue is drained by one loop, whenever there is something to drain.
OneDrains == SingleFlight /\ NobodyStranded

\* As long as the poller runs, what the EVM bridge logs of a transfer reaches
\* the relay endpoint: "EVM emits TokensLocked event", "Relayer polls
\* eth_getLogs", "buildRelayCommand()", "HTTP POST to relay endpoint"
\* (docs/architecture/bridge-receiver.md:572-575).  Expected to fail: no command
\* is made of a log as the node returns it (bridge-relayer.js:138-147, 451-453).
EveryLogRelayed ==
    <>[](timers > 0) =>
        \A e \in Recognised : (e \in ToSet(chain)) ~> (\E c \in relayed : c.event = e)

\* The bridge id is a "Deterministic ID for deduplication"
\* (docs/architecture/bridge-receiver.md:131): commands of different events can
\* be told apart by it.  Expected to fail (bridge-relayer.js:101-113).
BridgeIdsTellApart ==
    \A c, d \in relayed : c.bridgeId = d.bridgeId => c.event = d.event
=============================================================================
