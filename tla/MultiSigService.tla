--------------------------- MODULE MultiSigService ---------------------------
(***************************************************************************)
(* The server's side of multi-signature administration                     *)
(* (server/services/multisig-service.js, models/MultiSigTransaction.js):   *)
(* each request reads a document, awaits a simulation of the contract call *)
(* and then saves, so requests interleave between the read and the save.   *)
(*                                                                         *)
(* The transaction id is always 1 (extractTxIdFromResult) and the model's  *)
(* txId is unique, so there is one document.  extractU32FromResult decodes *)
(* every threshold as 2; Thresholds lists what it may decode.              *)
(* External: the RPC node, whose simulation succeeds or fails, mongoose,   *)
(* which saves a pushed element with $push and a changed field with $set.  *)
(***************************************************************************)
EXTENDS Naturals, Sequences, FiniteSets, SequencesExt

CONSTANTS
    Cosigners,      \* authenticated accounts
    Requests,       \* slots for requests running at the same time
    Thresholds,     \* what getThreshold may return
    NoTx            \* no document

ValidTargets == {"mint", "burn", "transfer_ownership", "set_fee_config", "pause", "unpause"}
TxDocument == [signatures : Seq(Cosigners), required : Nat \ {0},
               status : {"pending", "approved", "executed"}, target : ValidTargets]

ASSUME ServiceAssumption == Thresholds \subseteq Nat \ {0} /\ NoTx \notin TxDocument

VARIABLES
    tx,             \* the document
    txExpired,      \* expiresAt has passed
    calls,          \* per request, what it awaits and the document it read
    acknowledged    \* history: signers whose approval was answered with success

signingVars == <<tx, txExpired, calls, acknowledged>>

Idle == [op |-> "idle"]

-----------------------------------------------------------------------------
(* Faulty variants of the definitions below, each caught by a property. *)

SavesWholeArray(read, u) == Append(read.signatures, u)

-----------------------------------------------------------------------------
Signed(doc, u) == Contains(doc.signatures, u)

CanExecute(doc) ==
    /\ Len(doc.signatures) >= doc.required
    /\ doc.status = "pending"
    /\ ~txExpired

\* The signatures in the database after u was pushed on the document read.
Pushed(read, u) == Append(tx.signatures, u)

\* The status saved with u's signature: only set when the document that was
\* read reaches the threshold with it.
StatusAfter(read, u) ==
    IF Len(read.signatures) + 1 >= read.required THEN "approved" ELSE tx.status

GetThreshold(contract) == Thresholds

SigningInit ==
    /\ tx = NoTx /\ txExpired = FALSE
    /\ calls = [r \in Requests |-> Idle]
    /\ acknowledged = {}

\* What validateProposal lets through, and the route's own list again.
ValidProposal(p) == p.contractsMatch /\ p.target \in ValidTargets
Proposals == [contractsMatch : BOOLEAN, target : {"mint", "upgrade"}]

\* proposeTransaction; a second document is refused by the unique index.
Propose(u, p, required) ==
    /\ tx = NoTx
    /\ tx' = [signatures |-> <<u>>, required |-> required, status |-> "pending",
              target |-> p.target]
    /\ acknowledged' = {u}
    /\ UNCHANGED <<txExpired, calls>>

\* POST /propose for the authenticated account.
ProposeRoute(u, p) ==
    /\ ValidProposal(p)
    /\ \E required \in GetThreshold("contract") : Propose(u, p, required)

\* approveTransaction up to the simulation; expiry is not looked at.
ApproveReads(r, u) ==
    /\ calls[r] = Idle /\ tx # NoTx
    /\ ~Signed(tx, u)
    /\ tx.status = "pending"
    /\ calls' = [calls EXCEPT ![r] = [op |-> "approve", by |-> u, read |-> tx]]
    /\ UNCHANGED <<tx, txExpired, acknowledged>>

ApproveSaves(r) ==
    /\ calls[r].op = "approve"
    /\ LET u == calls[r].by IN
         /\ tx' = [tx EXCEPT !.signatures = Pushed(calls[r].read, u),
                             !.status = StatusAfter(calls[r].read, u)]
         /\ acknowledged' = acknowledged \cup {u}
    /\ calls' = [calls EXCEPT ![r] = Idle]
    /\ UNCHANGED txExpired

ExecuteReads(r, u) ==
    /\ calls[r] = Idle /\ tx # NoTx
    /\ CanExecute(tx)
    /\ calls' = [calls EXCEPT ![r] = [op |-> "execute", by |-> u, read |-> tx]]
    /\ UNCHANGED <<tx, txExpired, acknowledged>>

ExecuteSaves(r) ==
    /\ calls[r].op = "execute"
    /\ tx' = [tx EXCEPT !.status = "executed"]
    /\ calls' = [calls EXCEPT ![r] = Idle]
    /\ UNCHANGED <<txExpired, acknowledged>>

\* The simulation or the save throws.
Fails(r) ==
    /\ calls[r] # Idle
    /\ calls' = [calls EXCEPT ![r] = Idle]
    /\ UNCHANGED <<tx, txExpired, acknowledged>>

Expires ==
    /\ tx # NoTx /\ ~txExpired
    /\ txExpired' = TRUE
    /\ UNCHANGED <<tx, calls, acknowledged>>

SigningNext ==
    \/ \E u \in Cosigners, p \in Proposals : ProposeRoute(u, p)
    \/ \E r \in Requests, u \in Cosigners : ApproveReads(r, u) \/ ExecuteReads(r, u)
    \/ \E r \in Requests : ApproveSaves(r) \/ ExecuteSaves(r) \/ Fails(r)
    \/ Expires

SigningSpec == SigningInit /\ [][SigningNext]_signingVars

-----------------------------------------------------------------------------
(* Properties. *)

SigningTypeOK ==
    /\ tx # NoTx => tx \in TxDocument
    /\ txExpired \in BOOLEAN /\ acknowledged \subseteq Cosigners
    /\ \A r \in Requests : calls[r].op \in {"idle", "approve", "execute"}

\* An approval that was answered with success is on record for good, even when
\* several approvals and an execution read the document before any of them
\* saved (multisig-service.js:71-120).
NoSignatureLost == tx # NoTx => acknowledged \subseteq ToSet(tx.signatures)

\* Concurrent approvals cannot talk a transaction over the threshold: an
\* approved transaction carries signatures of as many different accounts as
\* required, though the same account may be recorded twice
\* (multisig-service.js:78-108): true up to a threshold of three, and the code
\* decodes every threshold as 2 (214-216); with four, two approvals of one
\* account that overlap count twice.
ApprovedByQuorum ==
    tx # NoTx /\ tx.status = "approved" => Cardinality(ToSet(tx.signatures)) >= tx.required

\* What the concurrent requests leave of the signatures (both of the above).
SignaturesStand == NoSignatureLost /\ ApprovedByQuorum

\* docs/multisig-integration.md:143 says "Once threshold is met, any signer can
\* execute".  Reaching the threshold sets the status to approved
\* (multisig-service.js:106-108), canExecute wants pending
\* (MultiSigTransaction.js:75-81).
ApprovedCanBeExecuted ==
    tx # NoTx /\ ~txExpired /\ tx.status # "executed" /\ Len(tx.signatures) >= tx.required
        => CanExecute(tx)
=============================================================================
