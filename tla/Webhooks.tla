------------------------------ MODULE Webhooks ------------------------------
(***************************************************************************)
(* The webhooks of the server: their registration, soft deletion and       *)
(* restoration (server/routes/webhook-routes.js, admin-routes.js,          *)
(* server/utils/soft-delete-plugin.js) and the delivery of events to them  *)
(* (server/services/webhook-service.js).  A token that is created starts a *)
(* dispatch nobody awaits; every subscriber it finds is served by a loop   *)
(* of its own, kept in memory only.                                        *)
(*                                                                         *)
(* External: MongoDB answers a find or fails; a subscriber's endpoint gets *)
(* a request or not, and a 2xx answer comes back only if it did.           *)
(***************************************************************************)
EXTENDS Integers, FiniteSets

CONSTANTS
    Hooks,          \* webhooks an owner may register
    Dispatches,     \* events that happen
    MaxRetries,     \* MAX_RETRIES
    MaxArchived     \* bound on the deletions

ASSUME WebhooksAssumption == MaxRetries \in Nat /\ MaxArchived \in Nat

VARIABLES
    hooks,          \* the Webhook collection: absent, registered or archived
    loops,          \* deliverWithRetry for each event and webhook
    got,            \* history: requests the webhook's endpoint got of an event
    due,            \* history: webhooks registered and not deleted at an event
    archived        \* history: number of deletions

webhookVars == <<hooks, loops, got, due, archived>>

Running == {"first", "second", "waiting"}
NotFound == [pc |-> "none", attempt |-> 0]
Waits == [pc |-> "find", attempt |-> 0]

-----------------------------------------------------------------------------
(* Faulty variants of the definitions below, each caught by a property. *)

FindsEverything == {h \in Hooks : hooks[h] # "absent"}
ResumesSecond(loop) == [pc |-> "second", attempt |-> loop.attempt + 1]

-----------------------------------------------------------------------------
(* The collection. *)

\* The plugin adds isArchived to every schema and to every find a condition
\* on it, beside the one on the event and on active, which nothing clears.
Subscribers == {h \in Hooks : hooks[h] = "registered"}

\* POST /webhooks.  The schema asks for an array of arrays of events, which no
\* document takes, so only a request that names no events registers: for the
\* default, token.minted.
CreateWebhook(h) ==
    /\ hooks[h] = "absent"
    /\ hooks' = [hooks EXCEPT ![h] = "registered"]
    /\ UNCHANGED <<loops, got, due, archived>>

\* DELETE /webhooks/:id, which an archived webhook answers with 404.
DeleteWebhook(h) ==
    /\ archived < MaxArchived /\ hooks[h] = "registered"
    /\ archived' = archived + 1
    /\ hooks' = [hooks EXCEPT ![h] = "archived"]
    /\ UNCHANGED <<loops, got, due>>

\* POST /admin/restore/Webhook/:id, 400 unless it is archived.
RestoreWebhook(h) ==
    /\ hooks[h] = "archived"
    /\ hooks' = [hooks EXCEPT ![h] = "registered"]
    /\ UNCHANGED <<loops, got, due, archived>>

-----------------------------------------------------------------------------
(* The delivery. *)

\* The route calls dispatch after it saved the token and does not await it.
Dispatch(d) ==
    /\ \A h \in Hooks : loops[d][h] = NotFound
    /\ loops' = [loops EXCEPT ![d] = [h \in Hooks |-> Waits]]
    /\ UNCHANGED <<hooks, got, due, archived>>

\* Webhook.find answers: a loop starts for each webhook found.
Found(d) ==
    /\ \A h \in Hooks : loops[d][h].pc = "find"
    /\ loops' = [loops EXCEPT ![d] = [h \in Hooks |->
           [pc |-> IF h \in Subscribers THEN "first" ELSE "skipped", attempt |-> 0]]]
    /\ due' = [due EXCEPT ![d] = {h \in Hooks : hooks[h] = "registered"}]
    /\ UNCHANGED <<hooks, got, archived>>

\* The process ends: every loop is lost with it.
Died(ls) ==
    [d \in Dispatches |-> [h \in Hooks |->
        IF ls[d][h].pc \in Running \cup {"find"} THEN [ls[d][h] EXCEPT !.pc = "lost"]
        ELSE ls[d][h]]]

Restart ==
    /\ \E d \in Dispatches, h \in Hooks : loops[d][h].pc \in Running \cup {"find"}
    /\ loops' = Died(loops)
    /\ UNCHANGED <<hooks, got, due, archived>>

\* Webhook.find fails: nobody catches the rejection of dispatch, which ends the
\* process unless an error monitor is set up.
FindFails(d, dies) ==
    /\ \A h \in Hooks : loops[d][h].pc = "find"
    /\ LET failed == [loops EXCEPT ![d] = [h \in Hooks |-> [Waits EXCEPT !.pc = "skipped"]]]
       IN loops' = IF dies THEN Died(failed) ELSE failed
    /\ UNCHANGED <<hooks, got, due, archived>>

\* What a loop does after an attempt that failed.
Failed(loop) ==
    [loop EXCEPT !.pc = IF loop.attempt < MaxRetries THEN "waiting" ELSE "exhausted"]

\* deliver once: the endpoint gets the request or not, and answers 2xx,
\* otherwise, or too late.  An attempt delivers twice, the second time without
\* the event's headers.
Deliver(d, h, reached, ok) ==
    LET loop == loops[d][h] IN
    /\ loop.pc \in {"first", "second"} /\ (ok => reached)
    /\ got' = IF reached THEN [got EXCEPT ![d][h] = @ + 1] ELSE got
    /\ loops' = [loops EXCEPT ![d][h] =
           IF ~ok THEN Failed(loop)
           ELSE [loop EXCEPT !.pc = IF loop.pc = "first" THEN "second" ELSE "delivered"]]
    /\ UNCHANGED <<hooks, due, archived>>

\* The delay is over: the next attempt makes both deliveries again.
Again(loop) == [pc |-> "first", attempt |-> loop.attempt + 1]

Retry(d, h) ==
    /\ loops[d][h].pc = "waiting"
    /\ loops' = [loops EXCEPT ![d][h] = Again(loops[d][h])]
    /\ UNCHANGED <<hooks, got, due, archived>>

WebhooksInit ==
    /\ hooks = [h \in Hooks |-> "absent"]
    /\ loops = [d \in Dispatches |-> [h \in Hooks |-> NotFound]]
    /\ got = [d \in Dispatches |-> [h \in Hooks |-> 0]]
    /\ due = [d \in Dispatches |-> {}]
    /\ archived = 0

WebhooksNext ==
    \/ \E h \in Hooks : CreateWebhook(h) \/ DeleteWebhook(h) \/ RestoreWebhook(h)
    \/ \E d \in Dispatches : Dispatch(d) \/ Found(d) \/ \E dies \in BOOLEAN : FindFails(d, dies)
    \/ \E d \in Dispatches, h \in Hooks :
           Retry(d, h) \/ \E reached, ok \in BOOLEAN : Deliver(d, h, reached, ok)
    \/ Restart

-----------------------------------------------------------------------------
(* Properties. *)

WebhooksTypeOK ==
    /\ hooks \in [Hooks -> {"absent", "registered", "archived"}]
    /\ loops \in [Dispatches -> [Hooks ->
           [pc : Running \cup {"none", "find", "skipped", "delivered", "exhausted", "lost"},
            attempt : 0 .. MaxRetries]]]
    /\ got \in [Dispatches -> [Hooks -> 0 .. 2 * (MaxRetries + 1)]]
    /\ due \in [Dispatches -> SUBSET Hooks]
    /\ archived \in 0 .. MaxArchived

\* Whatever fails, and whatever is deleted or restored meanwhile: an event
\* reaches only webhooks that were registered and not deleted when it was
\* dispatched, at most twice an attempt, and at least twice where the log says
\* it was delivered (webhook-service.js:67-106, soft-delete-plugin.js:18-25).
EveryReceiptAccounted ==
    \A d \in Dispatches, h \in Hooks :
        /\ got[d][h] > 0 => h \in due[d]
        /\ got[d][h] <= 2 * (loops[d][h].attempt + 1)
        /\ loops[d][h].pc = "delivered" => got[d][h] >= 2
=============================================================================
