--------------------------------- MODULE Dao ---------------------------------
(***************************************************************************)
(* Voting on a metadata change of a token: server/services/dao-service.js  *)
(* behind server/routes/dao-routes.js, for one proposal.                   *)
(*                                                                         *)
(* castVote keeps the proposal it loaded for the whole request: it stores  *)
(* the vote, writes the tally it computed from its own copy, decides on    *)
(* that copy and executes on it.  Votes are unique per voter by an index;  *)
(* nothing guards the tally or the status.  MongoDB, the RPC server and    *)
(* the process may fail at every await.                                    *)
(***************************************************************************)
EXTENDS Integers, FiniteSets

CONSTANTS
    DaoVoters,      \* accounts named in votes
    Ballots,        \* POST /votes requests
    ApprovalQuorum  \* the proposal's quorum, a percentage

ASSUME DaoAssumption == ApprovalQuorum \in 1 .. 100

VARIABLES
    status,         \* the stored status of the proposal
    tally,          \* the stored votesFor and votesAgainst
    votes,          \* the stored votes
    expired,        \* whether expiresAt is past
    applied,        \* whether the token carries the proposed changes
    ballot,         \* where each request is, its vote and its copy
    daoRaced        \* history: requests that wrote from a stale copy, or whose
                    \* tally did, or which failed after storing their vote

daoVars == <<status, tally, votes, expired, applied, ballot, daoRaced>>

Statuses == {"ACTIVE", "EXECUTED", "REJECTED", "EXPIRED"}
Tally == [for : 0 .. Cardinality(Ballots), against : 0 .. Cardinality(Ballots)]
VoteRecord == [voter : DaoVoters, support : BOOLEAN]
BallotState ==
    [pc : {"idle", "late", "loaded", "clear", "voted", "approved", "executed",
           "failed", "done"},
     vote : SUBSET VoteRecord, copy : Tally]

The(b) == CHOOSE v \in ballot[b].vote : TRUE

-----------------------------------------------------------------------------
(* Faulty variants: what the checks must notice. *)

AcceptsAnyTally(t) == t.for + t.against # 0

-----------------------------------------------------------------------------
\* checkAndExecuteProposal: the share of votes for and at least three votes.
Approved(t) ==
    LET total == t.for + t.against
    IN  total >= 3 /\ 100 * t.for >= ApprovalQuorum * total

PlusVote(t, support) ==
    IF support THEN [t EXCEPT !.for = @ + 1] ELSE [t EXCEPT !.against = @ + 1]

Goto(b, l) == ballot' = [ballot EXCEPT ![b].pc = l]

\* castVote loads the proposal; it must be active, and not expired.
LoadProposal(b, v, s) ==
    /\ ballot[b].pc = "idle"
    /\ ballot' = [ballot EXCEPT ![b] =
                    [pc |-> IF status # "ACTIVE" THEN "done"
                            ELSE IF expired THEN "late" ELSE "loaded",
                     vote |-> {[voter |-> v, support |-> s]}, copy |-> tally]]
    /\ UNCHANGED <<status, tally, votes, expired, applied, daoRaced>>

SaveExpired(b) ==
    /\ ballot[b].pc = "late"
    /\ status' = "EXPIRED"
    /\ Goto(b, "done")
    /\ UNCHANGED <<tally, votes, expired, applied, daoRaced>>

FindExistingVote(b) ==
    /\ ballot[b].pc = "loaded"
    /\ Goto(b, IF \E v \in votes : v.voter = The(b).voter THEN "done" ELSE "clear")
    /\ UNCHANGED <<status, tally, votes, expired, applied, daoRaced>>

\* The unique index on proposal and voter refuses a second vote.
CreateVote(b) ==
    /\ ballot[b].pc = "clear"
    /\ IF \E v \in votes : v.voter = The(b).voter
       THEN Goto(b, "done") /\ UNCHANGED votes
       ELSE /\ votes' = votes \cup {The(b)}
            /\ ballot' = [ballot EXCEPT ![b].pc = "voted",
                            ![b].copy = PlusVote(@, The(b).support)]
    /\ UNCHANGED <<status, tally, expired, applied, daoRaced>>

\* Requests that work on a copy older than the tally b saves.
Overlapping(b) ==
    {c \in Ballots \ {b} : ballot[c].pc \in {"loaded", "clear", "voted"}}

\* Only the counter of the side voted for is written; then the copy decides.
SaveTally(b) ==
    LET copy == ballot[b].copy
    IN  /\ ballot[b].pc = "voted"
        /\ tally' = IF The(b).support THEN [tally EXCEPT !.for = copy.for]
                                      ELSE [tally EXCEPT !.against = copy.against]
        /\ Goto(b, IF Approved(copy) THEN "approved" ELSE "done")
        /\ daoRaced' = daoRaced \cup Overlapping(b)
                        \cup (IF b \in daoRaced THEN {c \in Ballots :
                                                ballot[c].pc # "idle"} ELSE {})
        /\ UNCHANGED <<status, votes, expired, applied>>

\* executeProposal: the simulation passes and the status is saved first.
SaveExecuted(b) ==
    /\ ballot[b].pc = "approved"
    /\ status' = "EXECUTED"
    /\ Goto(b, "executed")
    /\ UNCHANGED <<tally, votes, expired, applied, daoRaced>>

ApplyChanges(b) ==
    /\ ballot[b].pc = "executed"
    /\ applied' = TRUE
    /\ Goto(b, "done")
    /\ UNCHANGED <<status, tally, votes, expired, daoRaced>>

\* The token is gone, the simulation fails or a save does: the catch block.
ExecutionFails(b) ==
    /\ ballot[b].pc \in {"approved", "executed"}
    /\ Goto(b, "failed")
    /\ UNCHANGED <<status, tally, votes, expired, applied, daoRaced>>

SaveRejected(b) ==
    /\ ballot[b].pc = "failed"
    /\ status' = "REJECTED"
    /\ Goto(b, "done")
    /\ UNCHANGED <<tally, votes, expired, applied, daoRaced>>

\* An await outside the catch block fails, or the process ends.
BallotFails(b) ==
    /\ ballot[b].pc \notin {"idle", "done"}
    /\ Goto(b, "done")
    /\ daoRaced' = IF ballot[b].pc = "voted" THEN daoRaced \cup {b} ELSE daoRaced
    /\ UNCHANGED <<status, tally, votes, expired, applied>>

PassExpiry ==
    /\ ~expired
    /\ expired' = TRUE
    /\ UNCHANGED <<status, tally, votes, applied, ballot, daoRaced>>

-----------------------------------------------------------------------------
DaoInit ==
    /\ status = "ACTIVE" /\ tally = [for |-> 0, against |-> 0]
    /\ votes = {} /\ expired = FALSE /\ applied = FALSE
    /\ ballot = [b \in Ballots |-> [pc |-> "idle", vote |-> {},
                                    copy |-> [for |-> 0, against |-> 0]]]
    /\ daoRaced = {}

DaoNext ==
    \/ \E b \in Ballots :
        \/ \E v \in DaoVoters, s \in BOOLEAN : LoadProposal(b, v, s)
        \/ SaveExpired(b) \/ FindExistingVote(b) \/ CreateVote(b)
        \/ SaveTally(b) \/ SaveExecuted(b) \/ ApplyChanges(b)
        \/ ExecutionFails(b) \/ SaveRejected(b) \/ BallotFails(b)
    \/ PassExpiry

DaoTypeOK ==
    /\ status \in Statuses /\ tally \in Tally
    /\ votes \subseteq VoteRecord
    /\ expired \in BOOLEAN /\ applied \in BOOLEAN
    /\ ballot \in [Ballots -> BallotState] /\ daoRaced \subseteq Ballots

\* A request approves the proposal only on three stored votes at least, the
\* quorum's share of them for it, unless some request worked on a stale copy
\* (dao-service.js:70-94): the tally it decides on has then lost votes.
ApprovedByItsVotes ==
    [][\A b \in Ballots :
        LET for == {v \in votes' : v.support}
        IN  ballot[b].pc # "approved" /\ ballot'[b].pc = "approved" /\ daoRaced' = {}
            => /\ Cardinality(votes') >= 3
               /\ 100 * Cardinality(for) >= ApprovalQuorum * Cardinality(votes')]_daoVars

=============================================================================
