------------------------------- MODULE MCServer -------------------------------
(* The documents the server keeps: each scenario runs the requests about one   *)
(* kind of document against each other, and leaves the others alone.           *)
EXTENDS Sessions, ApiKeys, Billing, TokenRegistry, Scanner, Backups,
        MultiSigService, Nfts, Dao, TLC

\* a's and b's are interchangeable, and so are the x's: every scenario uses all
\* of a kind or none.
CONSTANTS a1, a2, b1, b2, x1, x2, x3, c1, c2, c3, c4

VARIABLE scenario

MCEmailOf == [p \in {b1, b2} |-> "m1"]
MCOwnerOf == [k \in {b1, b2} |-> c1]
Symmetry ==
    Permutations({a1, a2}) \cup Permutations({b1, b2}) \cup Permutations({x1, x2, x3})

Scenarios ==
    {"sessions", "keys", "billing", "registry", "scans", "backups", "signatures",
     "nfts", "dao"}

\* One settings of the backups and one limit of the key for the others.
MCInit ==
    /\ scenario \in Scenarios
    /\ SessionsInit /\ ApiKeysInit /\ BillingInit /\ RegistryInit /\ ScannerInit
    /\ BackupsInit /\ SigningInit /\ NftsInit /\ DaoInit
    /\ scenario # "backups" => configured = {}
    /\ scenario # "keys" => \A m \in Limits : keyDoc.max <= m

MCNext ==
    /\ UNCHANGED scenario
    /\ IF scenario = "sessions" THEN SessionsNext ELSE UNCHANGED sessionsVars
    /\ IF scenario = "keys" THEN ApiKeysNext ELSE UNCHANGED apiKeysVars
    /\ IF scenario = "billing" THEN BillingNext ELSE UNCHANGED billingVars
    /\ IF scenario = "registry" THEN RegistryNext ELSE UNCHANGED registryVars
    /\ IF scenario = "scans" THEN ScannerNext ELSE UNCHANGED scannerVars
    /\ IF scenario = "backups" THEN BackupsNext ELSE UNCHANGED backupsVars
    /\ IF scenario = "signatures" THEN SigningNext ELSE UNCHANGED signingVars
    /\ IF scenario = "nfts" THEN NftsNext ELSE UNCHANGED nftVars
    /\ IF scenario = "dao" THEN DaoNext ELSE UNCHANGED daoVars

MCVars ==
    <<scenario, sessionsVars, apiKeysVars, billingVars, registryVars, scannerVars,
      backupsVars, signingVars, nftVars, daoVars>>

MCSpec == MCInit /\ [][MCNext]_MCVars
=============================================================================
