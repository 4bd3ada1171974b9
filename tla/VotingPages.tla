----------------------------- MODULE VotingPages -----------------------------
(***************************************************************************)
(* The governance page of the client: VotingDashboard, VoteModal,          *)
(* CreateProposalModal and ProposalCard of client/src/components over      *)
(* client/src/services/votingService.js.                                   *)
(*                                                                         *)
(* The page keeps the list of one tab and the voting power of the session; *)
(* each is read by requests that may answer in any order.  A modal that is *)
(* taken off the page keeps its requests running: their answers no longer  *)
(* change it, but still call the page's callbacks, which are those of the  *)
(* render in which the request was sent.  Proposals are abstracted to the  *)
(* version of the server's collection; the server is external.             *)
(***************************************************************************)
EXTENDS Integers, FiniteSets

CONSTANTS
    Sessions,       \* wallets that sign in
    PowerReads,     \* bound: requests of the page for a session's power
    ListReads,      \* bound: requests for a list, in the order they are sent
    Sends           \* bound: votes and proposals sent

ASSUME VotingPagesAssumption == PowerReads \in Nat /\ ListReads \in Nat \ {0}

VARIABLES
    page,           \* session, tab, list shown, isLoading, error
    badge,          \* votingPower of the page, whose it is, isPowerLoading
    powerRead,      \* those requests: whose, answered, cancelled
    listRead,       \* the list requests: tab and version read
    voteBox,        \* the vote modal, and the timer of the closed one
    createBox,      \* the proposal modal
    sent,           \* votes and proposals on their way
    version,        \* of the collection on the server
    told,           \* history: the version the page was told of last
    crossed         \* history: a list answer was overtaken by a later one, or
                    \* a tab changed while something sent from it was running

pagesVars == <<page, badge, powerRead, listRead, voteBox, createBox, sent,
               version, told, crossed>>

Tabs == {"all", "active"}
Page == [session : SUBSET Sessions, tab : Tabs, loading : BOOLEAN,
         failed : BOOLEAN, listTab : Tabs, listVersion : Nat, added : BOOLEAN]
VoteBox == [show : BOOLEAN, selected : BOOLEAN, open : BOOLEAN, active : BOOLEAN,
            chosen : BOOLEAN,
            power : {"unknown", "none", "some"}, reads : Nat, loading : BOOLEAN,
            submitting : BOOLEAN, timer : BOOLEAN]
CreateBox == [show : BOOLEAN, submitting : BOOLEAN]
Sent == [pc : {"idle", "sent", "accepted", "refused", "done"},
         kind : {"vote", "proposal"}, mounted : BOOLEAN, tab : Tabs, version : Nat]
Read == [pc : {"idle", "sent", "read", "done"}, tab : Tabs, version : Nat]
PowerRead == [pc : {"idle", "sent", "cancelled", "done"}, whose : SUBSET Sessions]

NoVoteBox == [show |-> FALSE, selected |-> FALSE, open |-> FALSE,
              active |-> FALSE, chosen |-> FALSE, power |-> "unknown", reads |-> 0,
              loading |-> FALSE, submitting |-> FALSE, timer |-> FALSE]

-----------------------------------------------------------------------------
(* Faulty variants: what the checks must notice. *)

NeverCancels(S) == [r \in S |-> powerRead[r]]
TellsOnly(t) == UNCHANGED listRead

-----------------------------------------------------------------------------
(* The list of proposals. *)

\* fetchProposals of the render for tab t sends the next request.
FetchProposals(t) ==
    LET n == Cardinality({l \in 1 .. ListReads : listRead[l].pc # "idle"}) + 1
    IN  /\ n <= ListReads
        /\ listRead' = [listRead EXCEPT ![n] = [pc |-> "sent", tab |-> t,
                                                version |-> 0]]

Fetching(p) == [p EXCEPT !.loading = TRUE, !.failed = FALSE]

\* The tab bar; Refresh is disabled while a list is loading, Try Again stands
\* in for the list after an error.
SetTab(t) ==
    /\ t # page.tab
    /\ FetchProposals(t)
    /\ page' = Fetching([page EXCEPT !.tab = t])
    /\ UNCHANGED <<badge, powerRead, voteBox, createBox, sent, version, told,
                   crossed>>

Refresh ==
    /\ ~page.loading
    /\ FetchProposals(page.tab)
    /\ page' = Fetching(page)
    /\ UNCHANGED <<badge, powerRead, voteBox, createBox, sent, version, told,
                   crossed>>

ListProposals(l) ==
    /\ listRead[l].pc = "sent"
    /\ listRead' = [listRead EXCEPT ![l].pc = "read", ![l].version = version]
    /\ UNCHANGED <<page, badge, powerRead, voteBox, createBox, sent, version,
                   told, crossed>>

Overtaken(l) == \E m \in l + 1 .. ListReads : listRead[m].pc = "done"

\* The list, or an error, which no later list takes back; isLoading ends with
\* whichever request ends.
SetProposals(l) ==
    /\ listRead[l].pc \in {"sent", "read"}
    /\ listRead' = [listRead EXCEPT ![l].pc = "done"]
    /\ \/ /\ listRead[l].pc = "read"
          /\ page' = [page EXCEPT !.listTab = listRead[l].tab, !.added = FALSE,
                                  !.listVersion = listRead[l].version,
                                  !.loading = FALSE]
       \/ page' = [page EXCEPT !.failed = TRUE, !.loading = FALSE]
    /\ crossed' = (crossed \/ Overtaken(l))
    /\ UNCHANGED <<badge, powerRead, voteBox, createBox, sent, version, told>>

\* showGrid: cards, each with its button, are there to be clicked.
ShowGrid == ~page.loading /\ ~page.failed

-----------------------------------------------------------------------------
(* The session and its voting power. *)

Cancelled(S) == [r \in S |-> IF powerRead[r].pc = "sent"
                             THEN [powerRead[r] EXCEPT !.pc = "cancelled"]
                             ELSE powerRead[r]]

\* The effect on address and authToken: its cleanup cancels what is running;
\* without a session the power is cleared and isPowerLoading left as it is.
ChangeSession(S, r) ==
    /\ S # page.session
    /\ powerRead[r].pc = "idle"
    /\ page' = [page EXCEPT !.session = S]
    /\ LET cut == Cancelled(1 .. PowerReads)
       IN  IF S = {}
           THEN powerRead' = cut /\ badge' = [badge EXCEPT !.power = {}]
           ELSE /\ powerRead' = [cut EXCEPT ![r] = [pc |-> "sent", whose |-> S]]
                /\ badge' = [badge EXCEPT !.loading = TRUE]
    /\ voteBox' = IF voteBox.open /\ S # {}
                  THEN [voteBox EXCEPT !.chosen = FALSE, !.power = "unknown",
                                       !.loading = TRUE, !.reads = @ + 1]
                  ELSE voteBox
    /\ UNCHANGED <<listRead, createBox, sent, version, told, crossed>>

\* getMyVotingPower answers, or fails: then no power is shown.
SetVotingPower(r) ==
    /\ powerRead[r].pc \in {"sent", "cancelled"}
    /\ powerRead' = [powerRead EXCEPT ![r].pc = "done"]
    /\ IF powerRead[r].pc = "cancelled" THEN UNCHANGED badge
       ELSE \E shown \in {{}, powerRead[r].whose} :
                badge' = [power |-> shown, loading |-> FALSE]
    /\ UNCHANGED <<page, listRead, voteBox, createBox, sent, version, told,
                   crossed>>

\* VotingPowerBadge: a skeleton while loading, and nothing without an address.
BadgeShows == IF page.session = {} \/ badge.loading THEN {} ELSE badge.power

-----------------------------------------------------------------------------
(* The vote modal. *)

\* handleVote, for an active proposal, and handleViewResults, for any; the modal
\* goes by the proposal.  It is mounted while it is shown with one, and then
\* reads the power unless there is no session.
HandleVote(active) ==
    /\ ShowGrid /\ ~voteBox.open
    /\ voteBox' = [NoVoteBox EXCEPT !.show = TRUE, !.selected = TRUE,
                    !.open = TRUE, !.timer = voteBox.timer,
                    !.active = active,
                    !.loading = page.session # {},
                    !.reads = IF page.session # {} THEN 1 ELSE 0]
    /\ UNCHANGED <<page, badge, powerRead, listRead, createBox, sent, version,
                   told, crossed>>

\* What the modal says of the power, and the controls it offers: choices and
\* the vote itself only for an active proposal.
ModalBadge ==
    IF voteBox.loading THEN "loading"
    ELSE IF voteBox.power = "none" THEN "no power" ELSE "power"
ChoiceDisabled == ModalBadge # "power" \/ voteBox.submitting
CanSubmit == voteBox.active /\ voteBox.chosen /\ ~ChoiceDisabled
When(b, what) == IF b THEN {what} ELSE {}
VoteModalOffers ==
    IF ~voteBox.open THEN {}
    ELSE When(~voteBox.submitting, "close")
         \cup When(voteBox.active /\ ~ChoiceDisabled, "choices")
         \cup When(CanSubmit, "cast")

\* Unmounting drops what the modal still waits for.
Unmounted(kind) ==
    [s \in Sends |-> IF sent[s].kind = kind THEN [sent[s] EXCEPT !.mounted = FALSE]
                                            ELSE sent[s]]
ClosedVoteBox ==
    [voteBox EXCEPT !.show = FALSE, !.open = FALSE, !.active = FALSE, !.reads = 0,
                    !.submitting = FALSE, !.timer = TRUE]

\* handleVoteModalClose, by button, Escape or the backdrop, none of them while
\* the modal submits.
HandleVoteModalClose ==
    /\ "close" \in VoteModalOffers
    /\ voteBox' = ClosedVoteBox
    /\ sent' = Unmounted("vote")
    /\ UNCHANGED <<page, badge, powerRead, listRead, createBox, version, told,
                   crossed>>

\* 300 ms later the proposal is deselected, whichever modal shows it by then.
Deselect ==
    /\ voteBox.timer
    /\ voteBox' = [voteBox EXCEPT !.timer = FALSE, !.selected = FALSE,
                                  !.open = FALSE, !.active = FALSE, !.reads = 0]
    /\ sent' = Unmounted("vote")
    /\ UNCHANGED <<page, badge, powerRead, listRead, createBox, version, told,
                   crossed>>

\* A failure counts as no power; an old session's answer counts as well.
PowerAnswered ==
    /\ voteBox.open /\ voteBox.reads > 0
    /\ \E p \in {"none", "some"} :
        voteBox' = [voteBox EXCEPT !.power = p, !.loading = FALSE, !.reads = @ - 1]
    /\ UNCHANGED <<page, badge, powerRead, listRead, createBox, sent, version,
                   told, crossed>>

Choose ==
    /\ "choices" \in VoteModalOffers /\ ~voteBox.chosen
    /\ voteBox' = [voteBox EXCEPT !.chosen = TRUE]
    /\ UNCHANGED <<page, badge, powerRead, listRead, createBox, sent, version,
                   told, crossed>>

\* A request leaves with a token; without one it is refused on the spot.
Send(s, kind) ==
    /\ sent[s].pc = "idle"
    /\ sent' = [sent EXCEPT ![s] =
            [pc |-> IF page.session # {} THEN "sent" ELSE "refused", kind |-> kind,
             mounted |-> TRUE, tab |-> page.tab, version |-> 0]]

HandleCastVote(s) ==
    /\ "cast" \in VoteModalOffers
    /\ Send(s, "vote")
    /\ voteBox' = [voteBox EXCEPT !.submitting = TRUE]
    /\ UNCHANGED <<page, badge, powerRead, listRead, createBox, version, told,
                   crossed>>

-----------------------------------------------------------------------------
(* The proposal modal. *)

\* The New Proposal button is there with a session.
OpenCreate ==
    /\ page.session # {} /\ ~createBox.show
    /\ createBox' = [show |-> TRUE, submitting |-> FALSE]
    /\ UNCHANGED <<page, badge, powerRead, listRead, voteBox, sent, version,
                   told, crossed>>

\* The form with its Create and Cancel buttons, which wait for a submission;
\* Escape does not.
CreateModalOffers ==
    IF ~createBox.show THEN {}
    ELSE {"escape"} \cup IF createBox.submitting THEN {} ELSE {"close", "create"}

CloseCreate ==
    /\ CreateModalOffers \cap {"escape", "close"} # {}
    /\ createBox' = [createBox EXCEPT !.show = FALSE]
    /\ sent' = Unmounted("proposal")
    /\ UNCHANGED <<page, badge, powerRead, listRead, voteBox, version, told,
                   crossed>>

\* A form that validate refuses shows its errors and sends nothing.
HandleCreate(s) ==
    /\ "create" \in CreateModalOffers
    /\ Send(s, "proposal")
    /\ createBox' = [createBox EXCEPT !.submitting = TRUE]
    /\ UNCHANGED <<page, badge, powerRead, listRead, voteBox, version, told,
                   crossed>>

-----------------------------------------------------------------------------
(* Answers. *)

ServerAnswers(s) ==
    /\ sent[s].pc = "sent"
    /\ \/ /\ version' = version + 1
          /\ sent' = [sent EXCEPT ![s].pc = "accepted", ![s].version = version']
       \/ sent' = [sent EXCEPT ![s].pc = "refused"] /\ UNCHANGED version
    /\ UNCHANGED <<page, badge, powerRead, listRead, voteBox, createBox, told,
                   crossed>>

\* onVoted and onCreated refetch with the tab of their render; a new proposal,
\* pending, is shown at once in the tab of all.
Refetch(t) == FetchProposals(t)

Accepted(s) ==
    LET k == sent[s].kind
    IN  /\ sent[s].pc = "accepted"
        /\ Refetch(sent[s].tab)
        /\ page' = Fetching([page EXCEPT !.added =
                                (k = "proposal" /\ sent[s].tab = "all") \/ @])
        /\ told' = sent[s].version
        /\ crossed' = (crossed \/ sent[s].tab # page.tab
                       \/ sent[s].version < told)
        /\ voteBox' = IF k = "vote" THEN ClosedVoteBox ELSE voteBox
        /\ createBox' = IF k = "vote" THEN createBox
                        ELSE [createBox EXCEPT !.show = FALSE]
        /\ sent' = [Unmounted(k) EXCEPT ![s].pc = "done"]
        /\ UNCHANGED <<badge, powerRead, version>>

\* The error is shown, or the answer was lost; the modal submits again.
Refused(s) ==
    /\ sent[s].pc = "refused" \/ sent[s].pc = "accepted"
    /\ sent' = [sent EXCEPT ![s].pc = "done"]
    /\ voteBox' = IF sent[s].kind = "vote" /\ sent[s].mounted
                  THEN [voteBox EXCEPT !.submitting = FALSE] ELSE voteBox
    /\ createBox' = IF sent[s].kind = "proposal" /\ sent[s].mounted
                    THEN [createBox EXCEPT !.submitting = FALSE] ELSE createBox
    /\ UNCHANGED <<page, badge, powerRead, listRead, version, told, crossed>>

-----------------------------------------------------------------------------
\* The page is mounted without a session and sends its first request.
PagesInit ==
    /\ page = [session |-> {}, tab |-> "all", loading |-> TRUE, failed |-> FALSE,
               listTab |-> "all", listVersion |-> 0, added |-> FALSE]
    /\ badge = [power |-> {}, loading |-> FALSE]
    /\ powerRead = [r \in 1 .. PowerReads |-> [pc |-> "idle", whose |-> {}]]
    /\ listRead = [l \in 1 .. ListReads |-> [tab |-> "all", version |-> 0,
                        pc |-> IF l = 1 THEN "sent" ELSE "idle"]]
    /\ voteBox = NoVoteBox
    /\ createBox = [show |-> FALSE, submitting |-> FALSE]
    /\ sent = [s \in Sends |-> [pc |-> "idle", kind |-> "vote", mounted |-> FALSE,
                                tab |-> "all", version |-> 0]]
    /\ version = 0 /\ told = 0 /\ crossed = FALSE

PagesNext ==
    \/ \E t \in Tabs : SetTab(t)
    \/ \E l \in 1 .. ListReads : ListProposals(l) \/ SetProposals(l)
    \/ \E S \in {{}} \cup {{w} : w \in Sessions}, r \in 1 .. PowerReads :
        ChangeSession(S, r)
    \/ \E r \in 1 .. PowerReads : SetVotingPower(r)
    \/ Refresh \/ HandleVoteModalClose \/ Deselect
    \/ \E active \in BOOLEAN : HandleVote(active)
    \/ PowerAnswered \/ Choose \/ OpenCreate \/ CloseCreate
    \/ \E s \in Sends :
        \/ HandleCastVote(s) \/ HandleCreate(s) \/ ServerAnswers(s)
        \/ Accepted(s) \/ Refused(s)

PagesTypeOK ==
    /\ page \in Page /\ voteBox \in VoteBox /\ createBox \in CreateBox
    /\ badge \in [power : SUBSET Sessions, loading : BOOLEAN]
    /\ powerRead \in [1 .. PowerReads -> PowerRead]
    /\ listRead \in [1 .. ListReads -> Read] /\ sent \in [Sends -> Sent]

\* The voting power on the page is never another wallet's, however the answers
\* and changes of the session interleave (VotingDashboard.jsx:232-253).
PowerShownIsOwn == BadgeShows \subseteq page.session

\* When no list is on its way and none failed, the page shows the list of its
\* tab as it was at the last vote or proposal it was told of, or later, unless
\* answers crossed (VotingDashboard.jsx:211-229, 272-286).
ListIsCurrent ==
    LET quiet == \A l \in 1 .. ListReads : listRead[l].pc \in {"idle", "done"}
    IN  quiet /\ ~page.failed /\ ~crossed =>
            page.listTab = page.tab /\ page.listVersion >= told

\* Both of the above: the page shows what is the session's and the tab's.
PageIsCurrent == PowerShownIsOwn /\ ListIsCurrent

=============================================================================
