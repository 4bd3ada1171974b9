------------------------------ MODULE MultiSig ------------------------------
(***************************************************************************)
(* The multi-signature administrator (contracts/multisig): signers propose *)
(* and approve generic transactions and proxy upgrades, and act on them    *)
(* once the threshold of signatures is reached.  Executing a generic       *)
(* transaction only marks it executed, the contract makes no call; acting  *)
(* on an upgrade calls the timelock, which module Governance adds.         *)
(* The contract is deployed and initialised: initialize accepts any list   *)
(* of signers and any threshold from 1 to the length of the list.          *)
(***************************************************************************)
EXTENDS Integers, Sequences, FiniteSets, SequencesExt

CONSTANTS
    Signers,        \* accounts that may be listed as signers
    SignerLists,    \* the lists initialize may be called with
    Upgrades,       \* <<proxy, hash>> pairs an upgrade may be proposed for
    NoItem,         \* an unset storage key
    MaxItems        \* bound on the ids next_id hands out

VARIABLES
    signers,        \* ConfigKey::Signers
    threshold,      \* ConfigKey::Threshold
    txCounter,      \* ConfigKey::TxCounter
    pendingTx,      \* DataKey::PendingTx(id)
    upgrades        \* DataKey::UpgradeProposal(id)

msVars == <<signers, threshold, txCounter, pendingTx, upgrades>>

ItemIds == 1 .. MaxItems

TxRecord == [signatures : Seq(Signers), executed : BOOLEAN]
UpgradeRecord == [target : Upgrades, signatures : Seq(Signers), queued : BOOLEAN]

ASSUME MultiSigAssumption ==
    /\ SignerLists \subseteq Seq(Signers) /\ MaxItems \in Nat
    /\ NoItem \notin TxRecord \cup UpgradeRecord

-----------------------------------------------------------------------------
(* Faulty variants of the definitions below, each caught by a property. *)

OneShort(signatures) == Len(signatures) + 1 >= threshold
SignsAgain(signatures, u) == FALSE

-----------------------------------------------------------------------------
IsSigner(u) == u \in ToSet(signers)

NextItem(n) == n + 1

\* The thresholds initialize accepts for a list of signers.
Thresholds(list) == 1 .. Len(list)

EnoughSignatures(signatures) == Len(signatures) >= threshold

HasSigned(signatures, u) == Contains(signatures, u)

NotExecuted(id) == ~pendingTx[id].executed

MultiSigInit ==
    /\ signers \in SignerLists
    /\ threshold \in Thresholds(signers)
    /\ txCounter = 0
    /\ pendingTx = [id \in ItemIds |-> NoItem]
    /\ upgrades = [id \in ItemIds |-> NoItem]

-----------------------------------------------------------------------------
\* propose_tx and propose_upgrade draw ids from one counter; the proposer's
\* signature is the first.
ProposeTx(u) ==
    /\ IsSigner(u)
    /\ txCounter < MaxItems
    /\ txCounter' = NextItem(txCounter)
    /\ pendingTx' = [pendingTx EXCEPT ![NextItem(txCounter)] =
                       [signatures |-> <<u>>, executed |-> FALSE]]
    /\ UNCHANGED <<signers, threshold, upgrades>>

ApproveTx(u, id) ==
    /\ IsSigner(u)
    /\ pendingTx[id] # NoItem
    /\ NotExecuted(id)
    /\ ~HasSigned(pendingTx[id].signatures, u)
    /\ pendingTx' = [pendingTx EXCEPT ![id].signatures = Append(@, u)]
    /\ UNCHANGED <<signers, threshold, txCounter, upgrades>>

ExecuteTx(u, id) ==
    /\ IsSigner(u)
    /\ pendingTx[id] # NoItem
    /\ NotExecuted(id)
    /\ EnoughSignatures(pendingTx[id].signatures)
    /\ pendingTx' = [pendingTx EXCEPT ![id].executed = TRUE]
    /\ UNCHANGED <<signers, threshold, txCounter, upgrades>>

ProposeUpgrade(u, target) ==
    /\ IsSigner(u)
    /\ txCounter < MaxItems
    /\ txCounter' = NextItem(txCounter)
    /\ upgrades' = [upgrades EXCEPT ![NextItem(txCounter)] =
                      [target |-> target, signatures |-> <<u>>, queued |-> FALSE]]
    /\ UNCHANGED <<signers, threshold, pendingTx>>

ApproveUpgrade(u, id) ==
    /\ IsSigner(u)
    /\ upgrades[id] # NoItem
    /\ ~upgrades[id].queued
    /\ ~HasSigned(upgrades[id].signatures, u)
    /\ upgrades' = [upgrades EXCEPT ![id].signatures = Append(@, u)]
    /\ UNCHANGED <<signers, threshold, txCounter, pendingTx>>

\* execute_upgrade without its call to the timelock.
MarkUpgradeQueued(u, id) ==
    /\ IsSigner(u)
    /\ upgrades[id] # NoItem
    /\ ~upgrades[id].queued
    /\ EnoughSignatures(upgrades[id].signatures)
    /\ upgrades' = [upgrades EXCEPT ![id].queued = TRUE]
    /\ UNCHANGED <<signers, threshold, txCounter, pendingTx>>

\* The entry points that stay inside the contract.
MultiSigStep ==
    \E u \in Signers :
        \/ ProposeTx(u)
        \/ \E target \in Upgrades : ProposeUpgrade(u, target)
        \/ \E id \in ItemIds : ApproveTx(u, id) \/ ExecuteTx(u, id) \/ ApproveUpgrade(u, id)

-----------------------------------------------------------------------------
MultiSigTypeOK ==
    /\ signers \in SignerLists /\ threshold \in 1 .. Len(signers)
    /\ txCounter \in 0 .. MaxItems
    /\ \A id \in ItemIds : pendingTx[id] \in TxRecord \cup {NoItem}
    /\ \A id \in ItemIds : upgrades[id] \in UpgradeRecord \cup {NoItem}

\* A list of signatures that stands for a real quorum: as many different
\* listed signers as the threshold asks for.
Quorate(signatures) ==
    Cardinality(ToSet(signatures) \cap ToSet(signers)) >= threshold

\* Nothing is executed on fewer different signers than the threshold, however
\* proposals, approvals and executions of several items interleave
\* (multisig/src/lib.rs:140-200).
ExecutedWithQuorum ==
    \A id \in ItemIds :
        pendingTx[id] # NoItem /\ pendingTx[id].executed => Quorate(pendingTx[id].signatures)
=============================================================================
