----------------------------- MODULE Governance -----------------------------
(***************************************************************************)
(* The upgrade pipeline: a MultiSig contract is the timelock's only admin  *)
(* and the timelock is the only account that may upgrade the proxies       *)
(* (contracts/upgradeable/src/lib.rs:1-24, test_governance.rs:32-63).  The *)
(* only administrative call the MultiSig makes is queue_operation with an  *)
(* UpgradeProxy, in the transaction that marks the proposal queued.        *)
(***************************************************************************)
EXTENDS MultiSig, Timelock

ASSUME GovernanceAssumption == Upgrades = Proxies \X Hashes

vars == <<msVars, tlVars>>

Init == MultiSigInit /\ TimelockInit

\* execute_upgrade: if the timelock refuses, the whole call is reverted.
ExecuteUpgrade(u, id) ==
    /\ MarkUpgradeQueued(u, id)
    /\ QueueOperation(UpgradeProxy(upgrades[id].target[1], upgrades[id].target[2]))

Next ==
    \/ MultiSigStep /\ UNCHANGED tlVars
    \/ OpenStep /\ UNCHANGED msVars
    \/ \E u \in Signers, id \in ItemIds : ExecuteUpgrade(u, id)

Spec == Init /\ [][Next]_vars

-----------------------------------------------------------------------------
TypeOK == MultiSigTypeOK /\ TimelockTypeOK

\* Every proxy upgrade that took effect stands on a proposal for exactly that
\* proxy and hash, signed by a quorum, and waited out the delay: no path
\* around either gate (upgradeable/src/lib.rs:6-16).
UpgradeNeedsQuorumAndDelay ==
    \A i \in DOMAIN execLog :
        \E id \in ItemIds :
            /\ upgrades[id] # NoItem /\ upgrades[id].queued
            /\ execLog[i].op = UpgradeProxy(upgrades[id].target[1], upgrades[id].target[2])
            /\ Quorate(upgrades[id].signatures)
            /\ execLog[i].at >= Delay

\* One approval, one upgrade: for every proxy and hash, the proposals that were
\* queued are exactly those still waiting in the timelock plus those executed.
\* A queued proposal is never lost, merged with another or executed twice.
OneProposalOneUpgrade ==
    \A target \in Upgrades :
        LET op == UpgradeProxy(target[1], target[2]) IN
        Cardinality({id \in ItemIds : /\ upgrades[id] # NoItem
                                      /\ upgrades[id].queued /\ upgrades[id].target = target})
          = Cardinality({e \in pending : e[1] = op})
              + Cardinality({i \in DOMAIN execLog : execLog[i].op = op})
=============================================================================
