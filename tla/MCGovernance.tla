---------------------------- MODULE MCGovernance ----------------------------
(* The pipeline of a multisig of three or fewer signers over one proxy; and    *)
(* a timelock whose admin is a single account, with two factories besides.     *)
EXTENDS Governance, TLC

CONSTANTS s1, s2, s3, p1, f1, f2, h0, h1

VARIABLE scenario

MCSigners == {s1, s2, s3}
\* The second list names one signer twice, which initialize accepts.
MCSignerLists == {<<s1, s2, s3>>, <<s1, s1, s2>>}
MCProxies == {p1}
MCFactories == {f1, f2}
MCHashes == {h0, h1}
\* The new code brings a schema the old one does not know.
MCSchema == [h \in MCHashes |-> IF h = h0 THEN 1 ELSE 2]
MCUpgrades == MCProxies \X MCHashes
Symmetry == Permutations(MCFactories)

Scenarios == {"pipeline", "admin"}

\* One multisig will do where it has no part.
MCInit ==
    /\ scenario \in Scenarios
    /\ Init
    /\ scenario = "admin" => signers = <<s1, s2, s3>> /\ threshold = 2

\* No token is created in the pipeline: the multisig governs proxies.
PipelineStep == scenario = "pipeline" /\ Next /\ UNCHANGED tokens
AdminScenarioStep == scenario = "admin" /\ TimelockNext /\ UNCHANGED msVars

MCNext ==
    /\ UNCHANGED scenario
    /\ PipelineStep \/ AdminScenarioStep

MCSpec == MCInit /\ [][MCNext]_<<vars, scenario>>

\* Nothing passes the multisig without a quorum of different signers, no
\* upgrade passes the timelock without a quorum and the delay, and every
\* approved proposal is exactly one operation (multisig/src/lib.rs:140-300,
\* upgradeable/src/lib.rs:6-16).
PipelineHolds ==
    scenario = "pipeline" =>
        ExecutedWithQuorum /\ UpgradeNeedsQuorumAndDelay /\ OneProposalOneUpgrade
=============================================================================
