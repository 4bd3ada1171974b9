----------------------------- MODULE EventStream -----------------------------
(***************************************************************************)
(* The live event endpoint of the server (server/routes/event-routes.js):  *)
(* each GET /events/stream opens a HorizonEventStream                      *)
(* (server/services/event-stream.js) that follows Horizon's operations     *)
(* until the client goes, reconnecting from its cursor after an error.     *)
(* A connection is modelled at a time; every one has a stream of its own.  *)
(*                                                                         *)
(* External: Horizon streams the operations after the cursor in order, or  *)
(* those to come for the cursor 'now'; the SDK reports errors and, left    *)
(* without records, asks again from the last one itself.                   *)
(***************************************************************************)
EXTENDS Integers, Sequences

CONSTANTS
    MaxRecords,     \* bound on the operations
    Connections     \* bound on the times the client connects

ASSUME StreamAssumption == MaxRecords \in Nat /\ Connections \in Nat

Now == 0

VARIABLES
    records,        \* number of operations on the network
    connections,    \* history: times the client has connected
    stream,         \* this: cursor, _stopFn, _stopped and _reconnectTimer
    position,       \* the last operation the open stream has passed
    written         \* the operations written to the client, in order

streamVars == <<records, connections, stream, position, written>>

-----------------------------------------------------------------------------
(* Faulty variants of the definitions below, each caught by a property. *)

KeepsCursor(s, r) == s
LeavesTimer(s) == [s EXCEPT !.stopped = TRUE, !.open = FALSE]

-----------------------------------------------------------------------------
\* What a new stream starts from.
Fresh == [cursor |-> Now, open |-> FALSE, stopped |-> FALSE, timer |-> FALSE]

\* Where Horizon starts from for a cursor.
StartOf(cursor) == IF cursor = Now THEN records ELSE cursor

\* _handleRecord: the cursor follows the records handled.
Advanced(s, r) == [s EXCEPT !.cursor = r]

\* stop: no timer and no stream is left.
Stopped(s) == [s EXCEPT !.stopped = TRUE, !.timer = FALSE, !.open = FALSE]

StreamInit ==
    /\ records = 0 /\ connections = 0 /\ position = 0 /\ written = <<>>
    /\ stream = [Fresh EXCEPT !.stopped = TRUE]

Operation ==
    /\ records < MaxRecords
    /\ records' = records + 1
    /\ UNCHANGED <<connections, stream, position, written>>

\* _connect on the stream s: a stream is opened at the cursor, or the SDK throws
\* and a reconnect is scheduled.
Connect(s, works) ==
    IF works
    THEN /\ stream' = [s EXCEPT !.open = TRUE]
         /\ position' = StartOf(s.cursor)
    ELSE /\ stream' = [s EXCEPT !.timer = TRUE]
         /\ UNCHANGED position

\* GET /events/stream: a new stream is started.
GetEventStream(works) ==
    /\ connections < Connections /\ stream.stopped
    /\ connections' = connections + 1
    /\ Connect(Fresh, works)
    /\ written' = <<>>
    /\ UNCHANGED records

\* The next record comes, moves the cursor and is written to the client.
HandleRecord ==
    /\ stream.open /\ position < records
    /\ position' = position + 1
    /\ stream' = Advanced(stream, position + 1)
    /\ written' = Append(written, position + 1)
    /\ UNCHANGED <<records, connections>>

\* The SDK asks again when no record came for a while: from its last record,
\* or from 'now' when there was none.
AsksAgain ==
    /\ stream.open
    /\ position' = IF stream.cursor = Now THEN records ELSE position
    /\ UNCHANGED <<records, connections, stream, written>>

\* _handleError: the client is told, the stream closed, a reconnect scheduled.
HandleError ==
    /\ stream.open
    /\ stream' = [stream EXCEPT !.open = FALSE, !.timer = TRUE]
    /\ UNCHANGED <<records, connections, position, written>>

\* The reconnect timer fires.
Reconnect(works) ==
    /\ stream.timer
    /\ Connect([stream EXCEPT !.timer = FALSE], works)
    /\ UNCHANGED <<records, connections, written>>

\* The client closes its request.
ClientCloses ==
    /\ ~stream.stopped
    /\ stream' = Stopped(stream)
    /\ UNCHANGED <<records, connections, position, written>>

StreamNext ==
    \/ Operation \/ HandleRecord \/ AsksAgain \/ HandleError \/ ClientCloses
    \/ \E works \in BOOLEAN : GetEventStream(works) \/ Reconnect(works)

-----------------------------------------------------------------------------
(* Properties. *)

StreamTypeOK ==
    /\ records \in 0 .. MaxRecords /\ connections \in 0 .. Connections
    /\ stream \in [cursor : 0 .. MaxRecords, open : BOOLEAN, stopped : BOOLEAN,
                   timer : BOOLEAN]
    /\ position \in 0 .. records /\ written \in Seq(1 .. MaxRecords)

\* From the first operation a client sees to the last there is no gap and no
\* repetition, however often the stream fails in between; and once the client
\* has gone nothing is open or will be (event-stream.js:2-6, 65-77, 114-170).
StreamIsExact ==
    /\ \A i \in 1 .. Len(written) - 1 : written[i + 1] = written[i] + 1
    /\ stream.stopped => ~stream.open /\ ~stream.timer
    /\ ~(stream.open /\ stream.timer)
=============================================================================
