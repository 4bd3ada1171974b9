----------------------------- MODULE StatusPages ------------------------------
(***************************************************************************)
(* The client's pages over one contract or service each: Multisig, Backstop*)
(* and ZKAuditLog, BridgeReceiverDashboard and TokenFactory, with the      *)
(* services they call (client/src/services).                               *)
(*                                                                         *)
(* A load asks all endpoints of its page at once and shows what came of    *)
(* them together.  Three pages replace the data of an endpoint that is not *)
(* deployed by demo data.  Loads may overlap, whichever ends last is shown.*)
(* TokenFactory also deploys tokens; the server, with its validator, is    *)
(* external.                                                               *)
(***************************************************************************)
EXTENDS Integers, FiniteSets

CONSTANTS
    Owners,         \* wallets that sign in
    Loads,          \* bound: loads of all pages
    Forms           \* bound: deployments submitted

ASSUME StatusPagesAssumption == Loads \in Nat

VARIABLES
    view,           \* of each page: its data, the load they came with, flags
    load,           \* the loads: page, session, answer of each endpoint
    wallet,         \* the session of the wallet, a set of at most one
    signing,        \* whether the refresh after a signature is to come
    form            \* the deployments: their form, and what came of them

statusVars == <<view, load, wallet, signing, form>>

\* The endpoints of each page.
Parts == [multisig |-> {"config", "proposals", "version"},
          backstop |-> {"config", "balance", "version"},
          audit |-> {"logs"}, bridge |-> {"status"}, factory |-> {"tokens"}]
PageNames == DOMAIN Parts
PartNames == UNION {Parts[p] : p \in PageNames}

\* 404, 501 and 502 say that an endpoint is not there.
Answers == {"none", "ok", "absent", "error"}
View == [shown : [PartNames -> {"nothing", "live", "demo"}], of : 0 .. Loads,
         whose : SUBSET Owners, loading : BOOLEAN, failed : BOOLEAN, hint : BOOLEAN]
LoadState == [pc : {"idle", "asked", "done"}, page : PageNames,
              whose : SUBSET Owners, answer : [PartNames -> Answers]]
FormState == [pc : {"idle", "sent", "created", "refused", "done"},
              fits : BOOLEAN, whose : SUBSET Owners]

Nothing == [x \in PartNames |-> "nothing"]

-----------------------------------------------------------------------------
(* Faulty variants: what the checks must notice. *)

AlwaysFallsBack(p, a) ==
    IF a = "ok" THEN "live" ELSE IF p \in {"bridge", "factory"} THEN "nothing" ELSE "demo"

-----------------------------------------------------------------------------
(* Services: one endpoint each, all of a page with Promise.all. *)

\* get...Config, getProposals and the like: the demo data stands in for an
\* endpoint that is not there, any other error is thrown on.
OrDemo(p, a) ==
    IF a = "ok" THEN "live"
    ELSE IF a = "absent" /\ p \notin {"bridge", "factory"} THEN "demo" ELSE "nothing"

EndpointAnswers(l, x) ==
    /\ load[l].pc = "asked" /\ x \in Parts[load[l].page]
    /\ load[l].answer[x] = "none"
    /\ \E a \in Answers \ {"none"} : load' = [load EXCEPT ![l].answer[x] = a]
    /\ UNCHANGED <<view, wallet, signing, form>>

Result(l) == [x \in PartNames |-> OrDemo(load[l].page, load[l].answer[x])]
Asked(l) == Parts[load[l].page]
Resolved(l) == \A x \in Asked(l) : Result(l)[x] # "nothing"
Rejected(l) == \E x \in Asked(l) : /\ load[l].answer[x] # "none"
                                   /\ Result(l)[x] = "nothing"

-----------------------------------------------------------------------------
(* Loads. *)

Begin(p) ==
    LET l == Cardinality({k \in 1 .. Loads : load[k].pc # "idle"}) + 1
    IN  /\ l <= Loads
        /\ load' = [load EXCEPT ![l].pc = "asked", ![l].page = p, ![l].whose = wallet]

Loading(p) == [view EXCEPT ![p].loading = TRUE, ![p].failed = FALSE]

\* On mount and by a button that is not there, or disabled, during a load.
MultisigFetchStatus ==
    /\ ~view.multisig.loading
    /\ Begin("multisig") /\ view' = Loading("multisig")
    /\ UNCHANGED <<wallet, signing, form>>

BackstopLoadStatus ==
    /\ ~view.backstop.loading
    /\ Begin("backstop") /\ view' = Loading("backstop")
    /\ UNCHANGED <<wallet, signing, form>>

FetchLogs ==
    /\ ~view.audit.loading
    /\ Begin("audit") /\ view' = Loading("audit")
    /\ UNCHANGED <<wallet, signing, form>>

\* Only with a token.
BridgeFetchStatus ==
    /\ wallet # {} /\ ~view.bridge.loading
    /\ Begin("bridge") /\ view' = Loading("bridge")
    /\ UNCHANGED <<wallet, signing, form>>

RefreshTokens ==
    /\ wallet # {} /\ ~view.factory.loading
    /\ Begin("factory") /\ view' = Loading("factory")
    /\ UNCHANGED <<wallet, signing, form>>

\* The session of the wallet changes: bridge and factory load again, and the
\* factory shows nothing without one.  What was running goes on.
ChangeWallet(S) ==
    /\ S # wallet
    /\ wallet' = S
    /\ IF S = {}
       THEN view' = [view EXCEPT !.factory.shown = Nothing, !.factory.of = 0,
                                 !.factory.whose = {}] /\ UNCHANGED load
       ELSE LET l == Cardinality({k \in 1 .. Loads : load[k].pc # "idle"}) + 1
            IN  /\ l < Loads
                /\ load' = [load EXCEPT
                        ![l].pc = "asked", ![l].page = "bridge", ![l].whose = S,
                        ![l + 1].pc = "asked", ![l + 1].page = "factory",
                        ![l + 1].whose = S]
                /\ view' = [p \in PageNames |-> IF p \in {"bridge", "factory"}
                    THEN [view[p] EXCEPT !.loading = TRUE, !.failed = FALSE]
                    ELSE view[p]]
    /\ UNCHANGED <<signing, form>>

\* Whether a load makes the page say that its data are demo data: Multisig
\* always says so, Backstop when the config is.
MultisigHint(r) == TRUE
BackstopHint(r) == r["config"] = "demo"
AuditHint(r) == r["logs"] = "demo"
HintOf(p, r) ==
    CASE p = "multisig" -> MultisigHint(r) [] p = "backstop" -> BackstopHint(r)
      [] p = "audit" -> AuditHint(r) [] OTHER -> FALSE

ShowLoad(l) ==
    LET p == load[l].page
    IN  /\ load[l].pc = "asked" /\ Resolved(l)
        /\ view' = [view EXCEPT ![p] =
                [shown |-> [x \in PartNames |->
                                IF x \in Parts[p] THEN Result(l)[x] ELSE "nothing"],
                 of |-> l, whose |-> load[l].whose, loading |-> FALSE,
                 failed |-> view[p].failed, hint |-> HintOf(p, Result(l))]]
        /\ load' = [load EXCEPT ![l].pc = "done"]
        /\ UNCHANGED <<wallet, signing, form>>

\* The audit log is emptied by an error, the other pages keep what they had.
FailLoad(l) ==
    LET p == load[l].page
    IN  /\ load[l].pc = "asked" /\ Rejected(l)
        /\ view' = [view EXCEPT ![p].loading = FALSE, ![p].failed = TRUE,
                ![p].shown = IF p = "audit" THEN Nothing ELSE @,
                ![p].of = IF p = "audit" THEN 0 ELSE @]
        /\ load' = [load EXCEPT ![l].pc = "done"]
        /\ UNCHANGED <<wallet, signing, form>>

-----------------------------------------------------------------------------
(* What the pages display of their state. *)

Empty(p) == \A x \in Parts[p] : view[p].shown[x] = "nothing"
If(b, what) == IF b THEN {what} ELSE {}

MultisigDisplays ==
    IF view.multisig.loading THEN {"skeleton"}
    ELSE IF view.multisig.failed /\ Empty("multisig") THEN {"error"}
    ELSE {"data"} \cup If(MultisigHint(view.multisig.shown), "hint")

\* An error takes the place of the hint, not of the data.
BackstopDisplays ==
    {IF view.backstop.loading THEN "skeleton" ELSE "data"}
    \cup If(view.backstop.failed, "error")
    \cup If(view.backstop.hint /\ ~view.backstop.failed, "hint")

AuditTable ==
    IF view.audit.loading THEN "skeleton" ELSE IF Empty("audit") THEN "empty" ELSE "data"
AuditDisplays ==
    {AuditTable} \cup If(view.audit.failed, "error") \cup If(view.audit.hint, "hint")

\* Without a token the prompt joins what is there.
BridgeDisplays ==
    If(wallet = {}, "prompt")
    \cup IF ~Empty("bridge") THEN {"data"}
         ELSE If(view.bridge.loading, "skeleton")
              \cup If(view.bridge.failed /\ ~view.bridge.loading, "error")

FactoryTable ==
    IF view.factory.loading THEN "skeleton" ELSE IF Empty("factory") THEN "empty" ELSE "data"
FactoryDisplays ==
    {FactoryTable} \cup If(wallet = {}, "prompt") \cup If(view.factory.failed, "error")

Displays(p) ==
    CASE p = "multisig" -> MultisigDisplays [] p = "backstop" -> BackstopDisplays
      [] p = "audit" -> AuditDisplays [] p = "bridge" -> BridgeDisplays
      [] p = "factory" -> FactoryDisplays

-----------------------------------------------------------------------------
(* Signing and deploying. *)

\* handleSign reports success, sends nothing and refreshes half a second later.
HandleSign ==
    /\ "data" \in MultisigDisplays /\ view.multisig.shown["proposals"] # "nothing"
    /\ ~signing
    /\ signing' = TRUE
    /\ UNCHANGED <<view, load, wallet, form>>

RefreshAfterSign ==
    /\ signing
    /\ signing' = FALSE
    /\ Begin("multisig") /\ view' = Loading("multisig")
    /\ UNCHANGED <<wallet, form>>

\* validate lets names and symbols pass that are too short or too long for
\* the server's validator, and the contract id is a made-up one of at most 17
\* characters; only a test's mock of the service creates a token.
GeneratedIdFits == FALSE
Accepts(f) == form[f].fits /\ GeneratedIdFits

\* The form is there with an address, its button rests while one is sent.
DeployFormOffers ==
    IF wallet = {} THEN {"prompt"}
    ELSE {"fields"} \cup If(\A g \in Forms : form[g].pc # "sent", "deploy")

HandleSubmit(f, fits) ==
    /\ form[f].pc = "idle" /\ "deploy" \in DeployFormOffers
    /\ form' = [form EXCEPT ![f] = [pc |-> "sent", fits |-> fits, whose |-> wallet]]
    /\ UNCHANGED <<view, load, wallet, signing>>

\* The request, its refusal, and the error the form shows.
DeployToken(f) ==
    /\ form[f].pc = "sent"
    /\ form' = [form EXCEPT ![f].pc = IF Accepts(f) THEN "created" ELSE "refused"]
    /\ UNCHANGED <<view, load, wallet, signing>>

-----------------------------------------------------------------------------
StatusInit ==
    /\ view = [p \in PageNames |-> [shown |-> Nothing, of |-> 0, whose |-> {},
                    loading |-> FALSE, failed |-> FALSE, hint |-> FALSE]]
    /\ load = [l \in 1 .. Loads |-> [pc |-> "idle", page |-> "audit", whose |-> {},
                    answer |-> [x \in PartNames |-> "none"]]]
    /\ wallet = {} /\ signing = FALSE
    /\ form = [f \in Forms |-> [pc |-> "idle", fits |-> TRUE, whose |-> {}]]

StatusNext ==
    \/ MultisigFetchStatus \/ BackstopLoadStatus \/ FetchLogs
    \/ BridgeFetchStatus \/ RefreshTokens \/ HandleSign \/ RefreshAfterSign
    \/ \E S \in {{}} \cup {{w} : w \in Owners} : ChangeWallet(S)
    \/ \E l \in 1 .. Loads :
        \/ \E x \in PartNames : EndpointAnswers(l, x)
        \/ ShowLoad(l) \/ FailLoad(l)
    \/ \E f \in Forms : DeployToken(f) \/ \E b \in BOOLEAN : HandleSubmit(f, b)

StatusTypeOK ==
    /\ view \in [PageNames -> View] /\ load \in [1 .. Loads -> LoadState]
    /\ wallet \subseteq Owners /\ signing \in BOOLEAN
    /\ form \in [Forms -> FormState]

\* The data a page displays came from one load of that page, demo data only
\* from the endpoints of it that are not there, however the loads overlap; an
\* endpoint that failed otherwise shows nothing new
\* (multisigService.js:109-194, backstopService.js:119-196).
ShownIsOneLoad ==
    \A p \in PageNames : "data" \in Displays(p) /\ ~Empty(p) =>
        /\ load[view[p].of].page = p
        /\ \A x \in Parts[p] :
            view[p].shown[x] = CASE load[view[p].of].answer[x] = "ok" -> "live"
                                 [] load[view[p].of].answer[x] = "absent" -> "demo"
                                 [] OTHER -> "nothing"

=============================================================================
