----------------------------- MODULE MCDeliveries -----------------------------
(* What reaches whom: the signals of the bridge receiver, the commands of the  *)
(* relayer, webhooks, the event stream and the client's pages, each in a       *)
(* scenario of its own.                                                        *)
EXTENDS BridgeReceiver, MCBridgeRelayer, Webhooks, EventStream, VotingPages, StatusPages, Dashboard, TLC

CONSTANTS a1, a2, x1, x2, v1, v2

VARIABLE scenario

Symmetry == Permutations({a1, a2}) \cup Permutations({x1, x2})

Scenarios == {"signals", "commands", "hooks", "stream", "power", "list", "status",
              "dashboard"}

MCInit ==
    /\ scenario \in Scenarios
    /\ Init /\ RelayerInit /\ WebhooksInit /\ StreamInit /\ PagesInit /\ StatusInit
    /\ DashboardInit

\* The page is looked at twice: with one list read beside several reads of the
\* power, and with one session, whose first read of the power may fail or not
\* come back, beside several list reads.
PowerNext ==
    /\ PagesNext
    /\ listRead'[1].pc \in {"sent", "done"}
    /\ \A l \in 2 .. ListReads : listRead'[l].pc = "idle"
ListNext ==
    /\ PagesNext
    /\ page'.session \subseteq {v1} /\ powerRead'[1].pc # "done"
    /\ powerRead'[1] # powerRead[1] => page'.session # {}
    /\ \A r \in 2 .. PowerReads : powerRead'[r] = powerRead[r]

MCNext ==
    /\ UNCHANGED scenario
    /\ IF scenario = "signals" THEN Next ELSE UNCHANGED vars
    /\ IF scenario = "commands" THEN RelayerNext ELSE UNCHANGED relayerVars
    /\ IF scenario = "hooks" THEN WebhooksNext ELSE UNCHANGED webhookVars
    /\ IF scenario = "stream" THEN StreamNext ELSE UNCHANGED streamVars
    /\ IF scenario = "status" THEN StatusNext ELSE UNCHANGED statusVars
    /\ IF scenario = "dashboard" THEN DashboardNext ELSE UNCHANGED dashboardVars
    /\ CASE scenario = "power" -> PowerNext
         [] scenario = "list" -> ListNext
         [] OTHER -> UNCHANGED pagesVars

MCSpec ==
    MCInit /\ [][MCNext]_<<scenario, vars, relayerVars, webhookVars, streamVars, statusVars,
                           pagesVars, dashboardVars>>

\* What the client's pages show is that of the session, the tab and the wallet
\* there is now, in the governance page and on the dashboard
\* (VotingDashboard.jsx:211-286, store/index.js:45-64).
PagesAreCurrent == PageIsCurrent /\ DashboardIsCurrent
=============================================================================
