------------------------------- MODULE Billing -------------------------------
(***************************************************************************)
(* Tiers, subscriptions and deployment counts of one user:                 *)
(* server/services/billing-service.js, server/routes/billing-routes.js     *)
(* and server/middleware/deployment-limit-middleware.js.  Users share no   *)
(* record.                                                                 *)
(*                                                                         *)
(* A deployment is checked against the month's count before its handler    *)
(* and counted after the response, unawaited.  Every method loads a        *)
(* document, computes and saves only the paths it changed, so that an await*)
(* separates what was read from what is written; MongoDB and Stripe may    *)
(* fail at each.  Stripe itself is external.                               *)
(***************************************************************************)
EXTENDS Integers, FiniteSets

CONSTANTS
    Deploys,        \* deployment requests of the user
    Edits,          \* billing requests and Stripe events about the user
    FreeMax,        \* maxDeploymentsPerMonth of the free tier
    ProMax,         \* and of the pro tier
    Months          \* bound: how many months the model sees

ASSUME BillingAssumption ==
    /\ FreeMax \in Nat \ {0} /\ ProMax \in Nat \ {0} /\ Months \in Nat \ {0}
    /\ Deploys \cap Edits = {} /\ IsFiniteSet(Deploys)

VARIABLES
    user,           \* the user's accountTierId and totalDeployments
    billing,        \* the billing record, the empty set while there is none
    usage,          \* the DeploymentUsage record of each month, a set too
    month,          \* the current month
    customers,      \* Stripe customers created for the user
    deploy,         \* where each deployment is, and what it has read
    edit,           \* where each billing request or event is
    made,           \* history: the deployments made in each month
    uncounted,      \* history: those whose count failed or met another's
    mixed           \* history: an edit failed half way or met another

billingVars == <<user, billing, usage, month, customers, deploy, edit, made,
                 uncounted, mixed>>

TierNames == {"free", "pro", "enterprise"}
Calls == {"customer", "subscribe", "upgrade", "cancel", "updated", "deleted",
          "paid", "failed"}

\* The hard limit of a tier; 0 stands for null, unlimited.
TierMax(t) ==
    CASE t = "free" -> FreeMax [] t = "pro" -> ProMax [] OTHER -> 0

UsageRecord == [count : Nat, max : Nat, warned : 0 .. 1]
BillingRecord == [tier : TierNames, subscribed : BOOLEAN,
                  status : {"active", "canceled", "past_due"},
                  paid : Nat, failures : Nat]
DeployState == [pc : {"idle", "checked", "made", "loaded", "found", "counted",
                      "done"},
                month : 0 .. Months, tier : TierNames, total : Nat,
                seen : SUBSET UsageRecord]
EditState == [pc : {"idle", "read", "called", "user", "billing", "done"},
              call : Calls, tier : TierNames, seen : SUBSET BillingRecord]

\* The record a set of at most one holds.
Only(S) == CHOOSE x \in S : TRUE

-----------------------------------------------------------------------------
(* Faulty variants: what the checks must notice. *)

CountsTwice(rec) == [rec EXCEPT !.count = @ + 2]
SavesUserOnly(e) ==
    billing' = IF billing = {} THEN {[tier |-> "free", subscribed |-> FALSE,
                        status |-> "active", paid |-> 0, failures |-> 0]} ELSE billing

-----------------------------------------------------------------------------
(* Deployments. *)

\* No record of the month, no limit in it, or room below the limit that was
\* in force when the record was created.
CanDeploy == \A r \in usage[month] : r.max = 0 \/ r.count < r.max

CheckDeploymentLimit(d) ==
    /\ deploy[d].pc = "idle"
    /\ deploy' = [deploy EXCEPT ![d].pc = IF CanDeploy THEN "checked"
                                                       ELSE "done"]
    /\ UNCHANGED <<user, billing, usage, month, customers, edit, made,
                   uncounted, mixed>>

\* The handler answers: with a 2xx status the deployment is tracked.
TrackDeployment(d) ==
    /\ deploy[d].pc = "checked"
    /\ \/ /\ deploy' = [deploy EXCEPT ![d].pc = "made"]
          /\ made' = [made EXCEPT ![month] = @ \cup {d}]
       \/ deploy' = [deploy EXCEPT ![d].pc = "done"] /\ UNCHANGED made
    /\ UNCHANGED <<user, billing, usage, month, customers, edit, uncounted,
                   mixed>>

\* incrementDeploymentCount takes the period and loads the user's tier.
LoadUser(d) ==
    /\ deploy[d].pc = "made" /\ user.tier # {}
    /\ deploy' = [deploy EXCEPT ![d].pc = "loaded", ![d].month = month,
                                ![d].tier = Only(user.tier),
                                ![d].total = user.total]
    /\ UNCHANGED <<user, billing, usage, month, customers, edit, made,
                   uncounted, mixed>>

\* Those that have read a month's count and not yet saved it.
Counting(m) == {d \in Deploys : deploy[d].pc = "found" /\ deploy[d].month = m}

FindUsage(d) ==
    LET found == usage[deploy[d].month]
        max == TierMax(deploy[d].tier)
        others == Counting(deploy[d].month)
    IN  /\ deploy[d].pc = "loaded"
        /\ \A r \in found : max = 0 \/ r.count < max
        /\ deploy' = [deploy EXCEPT ![d].pc = "found", ![d].seen = found]
        /\ uncounted' = uncounted \cup (IF others = {} THEN {}
                                                       ELSE others \cup {d})
        /\ UNCHANGED <<user, billing, usage, month, customers, edit, made,
                       mixed>>

\* One more deployment, and one warning at the soft limit (80 per cent).
Counted(rec) == [rec EXCEPT !.count = @ + 1]
Warned(rec, max) ==
    IF max # 0 /\ 100 * rec.count >= 80 * max THEN [rec EXCEPT !.warned = 1]
                                              ELSE rec

\* An existing record is overwritten with the values computed; a new one must
\* be the first of its month (the unique index).
SaveUsage(d) ==
    LET m == deploy[d].month
        max == TierMax(deploy[d].tier)
        old == IF deploy[d].seen = {} THEN [count |-> 0, max |-> max, warned |-> 0]
                                      ELSE Only(deploy[d].seen)
        new == Warned(Counted(old), max)
    IN  /\ deploy[d].pc = "found"
        /\ deploy[d].seen = {} => usage[m] = {}
        /\ usage' = [usage EXCEPT ![m] = {new}]
        /\ deploy' = [deploy EXCEPT ![d].pc = "counted"]
        /\ UNCHANGED <<user, billing, month, customers, edit, made, uncounted,
                       mixed>>

SaveTotal(d) ==
    /\ deploy[d].pc = "counted"
    /\ user' = [user EXCEPT !.total = deploy[d].total + 1]
    /\ deploy' = [deploy EXCEPT ![d].pc = "done"]
    /\ UNCHANGED <<billing, usage, month, customers, edit, made, uncounted,
                   mixed>>

\* No tier, the hard limit, a duplicate record, a database error or the end
\* of the process: the error is logged and the deployment stays uncounted.
CountFails(d) ==
    /\ deploy[d].pc \in {"made", "loaded", "found", "counted"}
    /\ deploy' = [deploy EXCEPT ![d].pc = "done"]
    /\ uncounted' = IF deploy[d].pc = "counted" THEN uncounted
                                                ELSE uncounted \cup {d}
    /\ UNCHANGED <<user, billing, usage, month, customers, edit, made, mixed>>

NextMonth ==
    /\ month < Months
    /\ month' = month + 1
    /\ UNCHANGED <<user, billing, usage, customers, deploy, edit, made,
                   uncounted, mixed>>

-----------------------------------------------------------------------------
(* Billing requests and Stripe events. *)

Busy == {e \in Edits : edit[e].pc \notin {"idle", "done"}}

\* Only creating the customer is open to a user without a record; what is
\* about a subscription finds the record by it.
CanBegin(call) ==
    CASE call = "customer" -> billing = {}
      [] call \in {"cancel", "updated", "deleted", "paid", "failed"} ->
            \E b \in billing : b.subscribed
      [] OTHER -> billing # {}

BeginEdit(e, call, t) ==
    /\ edit[e].pc = "idle"
    /\ CanBegin(call)
    /\ call # "upgrade" => t = "free"
    /\ edit' = [edit EXCEPT ![e] = [pc |-> "read", call |-> call, tier |-> t,
                                    seen |-> billing]]
    /\ mixed' = (mixed \/ Busy # {})
    /\ UNCHANGED <<user, billing, usage, month, customers, deploy, made,
                   uncounted>>

\* createStripeCustomer, createSubscription, upgradeTier (with a subscription)
\* and cancelSubscription call Stripe before they save.
CallStripe(e) ==
    /\ edit[e].pc = "read"
    /\ customers' = IF edit[e].call = "customer" THEN customers + 1
                                                 ELSE customers
    /\ edit' = [edit EXCEPT ![e].pc = "called"]
    /\ UNCHANGED <<user, billing, usage, month, deploy, made, uncounted, mixed>>

\* upgradeTier and handleSubscriptionDeleted save the user, then the record;
\* createStripeCustomer the record, then the user.
SaveUser(e) ==
    LET c == edit[e].call
    IN  /\ \/ c \in {"upgrade", "deleted"} /\ edit[e].pc = "called"
           \/ c = "customer" /\ edit[e].pc = "billing"
        /\ user' = [user EXCEPT !.tier = {edit[e].tier}]
        /\ edit' = [edit EXCEPT ![e].pc = IF c = "customer" THEN "done"
                                                            ELSE "user"]
        /\ UNCHANGED <<billing, usage, month, customers, deploy, made,
                       uncounted, mixed>>

\* What each call writes: counters from the record it read, the rest as given.
Edited(e) ==
    LET c == edit[e].call
        was == Only(edit[e].seen)
        now == Only(billing)
    IN  CASE c = "subscribe" -> [now EXCEPT !.subscribed = TRUE,
                                            !.status = "active"]
          [] c = "upgrade" -> [now EXCEPT !.tier = edit[e].tier]
          [] c = "cancel" -> [now EXCEPT !.status = "canceled"]
          [] c = "updated" -> [now EXCEPT !.status = "past_due"]
          [] c = "deleted" -> [now EXCEPT !.tier = "free",
                                          !.status = "canceled"]
          [] c = "paid" -> [now EXCEPT !.paid = was.paid + 1, !.failures = 0]
          [] OTHER -> [now EXCEPT !.failures = was.failures + 1]

WriteBilling(e) ==
    \/ /\ edit[e].call = "customer" /\ billing = {}
       /\ billing' = {[tier |-> "free", subscribed |-> FALSE,
                       status |-> "active", paid |-> 0, failures |-> 0]}
    \/ /\ edit[e].call # "customer"
       /\ billing' = {Edited(e)}

SaveBilling(e) ==
    LET c == edit[e].call
    IN  /\ edit[e].pc = IF c \in {"upgrade", "deleted"} THEN "user" ELSE "called"
        /\ WriteBilling(e)
        /\ edit' = [edit EXCEPT ![e].pc = IF c = "customer" THEN "billing"
                                                            ELSE "done"]
        /\ UNCHANGED <<user, usage, month, customers, deploy, made, uncounted,
                       mixed>>

\* Stripe or MongoDB fails, the second record of the user is refused, or the
\* process ends; what was saved stays.
EditFails(e) ==
    /\ edit[e].pc \notin {"idle", "done"}
    /\ edit' = [edit EXCEPT ![e].pc = "done"]
    /\ mixed' = (mixed \/ edit[e].pc \in {"called", "user", "billing"})
    /\ UNCHANGED <<user, billing, usage, month, customers, deploy, made,
                   uncounted>>

-----------------------------------------------------------------------------
BillingInit ==
    /\ user = [tier |-> {}, total |-> 0]
    /\ billing = {}
    /\ usage = [m \in 1 .. Months |-> {}]
    /\ month = 1
    /\ customers = 0
    /\ deploy = [d \in Deploys |-> [pc |-> "idle", month |-> 0, tier |-> "free",
                                    total |-> 0, seen |-> {}]]
    /\ edit = [e \in Edits |-> [pc |-> "idle", call |-> "paid", tier |-> "free",
                                seen |-> {}]]
    /\ made = [m \in 1 .. Months |-> {}]
    /\ uncounted = {}
    /\ mixed = FALSE

BillingNext ==
    \/ \E d \in Deploys :
        \/ CheckDeploymentLimit(d) \/ TrackDeployment(d) \/ LoadUser(d)
        \/ FindUsage(d) \/ SaveUsage(d) \/ SaveTotal(d) \/ CountFails(d)
    \/ \E e \in Edits :
        \/ \E call \in Calls, t \in TierNames : BeginEdit(e, call, t)
        \/ CallStripe(e) \/ SaveUser(e) \/ SaveBilling(e) \/ EditFails(e)
    \/ NextMonth

BillingTypeOK ==
    /\ user \in [tier : {S \in SUBSET TierNames : Cardinality(S) <= 1},
                 total : 0 .. Cardinality(Deploys)]
    /\ Cardinality(billing) <= 1 /\ billing \subseteq BillingRecord
    /\ \A m \in 1 .. Months : Cardinality(usage[m]) <= 1
                              /\ usage[m] \subseteq UsageRecord
    /\ month \in 1 .. Months /\ customers \in 0 .. Cardinality(Edits)
    /\ deploy \in [Deploys -> DeployState] /\ edit \in [Edits -> EditState]

\* The count of a month (deployment-limit-middleware.js:81, billing-service.js:
\* 302-332) misses only deployments whose counting failed, is still under way
\* or overlapped another's, and never counts what was not made.  Requests are
\* attributed to the month their counting began in.
CountsEveryDeployment ==
    LET inMonth(m) == {d \in Deploys : deploy[d].month = m}
        settled(m) == {d \in inMonth(m) \ uncounted :
                        deploy[d].pc \in {"counted", "done"}}
        count(m) == IF usage[m] = {} THEN 0 ELSE Only(usage[m]).count
    IN  \A m \in 1 .. Months :
            /\ Cardinality(settled(m)) <= count(m)
            /\ count(m) <= Cardinality(inMonth(m))

\* The two copies of the user's tier (the user's, which limits deployments, and
\* the billing record's, which opens features) agree, and Stripe holds one
\* customer for the one record, whenever no edit is under way, unless an edit
\* failed after its call to Stripe or overlapped another (billing-service.js:
\* 90-124, 196-243, 447-470).
RecordsAgree ==
    (Busy = {} /\ ~mixed) =>
        /\ \A b \in billing : user.tier = {b.tier}
        /\ customers = Cardinality(billing)

\* What is counted and what is stored twice: both of the above.
BillingAddsUp == CountsEveryDeployment /\ RecordsAgree

=============================================================================
