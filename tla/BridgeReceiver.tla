--------------------------- MODULE BridgeReceiver ---------------------------
(***************************************************************************)
(* The cross-chain mint receiver                                           *)
(* (contracts/bridge_receiver/src/bridge_receiver.rs): authorised relayers *)
(* file mint signals for transactions seen on another chain and execute    *)
(* them.  One action per entry point; a call that panics changes nothing.  *)
(*                                                                         *)
(* Executing a signal marks it and its source transaction; the token       *)
(* contract is not called (the call is commented out in the code), so an   *)
(* execution is only recorded in the history variable executions.          *)
(***************************************************************************)
EXTENDS Integers, Sequences, FiniteSets

CONSTANTS
    Accounts,       \* accounts that may call the contract
    Txs,            \* hashes of source transactions
    Payloads,       \* what a signal asks for: chain, recipient, amount, nonce
    NoSignal,       \* an unset storage key
    NoAdmin,        \* no administrator yet
    MaxSignals,     \* bound on the receive_mint_signal calls
    MaxInits        \* bound on the initialize calls

VARIABLES
    admin,          \* DataKey::Admin
    paused,         \* DataKey::Paused
    relayers,       \* the addresses with DataKey::Relayer set
    nextSignalId,   \* DataKey::NextSignalId
    signals,        \* DataKey::Signal(id)
    processed,      \* the hashes with DataKey::ProcessedTx set
    received,       \* history: how many signals were ever filed
    inits,          \* history: how many times initialize ran
    executions      \* history: the signals executed, in order

access == <<admin, paused, relayers>>
vars == <<access, nextSignalId, signals, processed, received, inits, executions>>

Ids == 0 .. MaxSignals - 1

\* filedAfter counts the executions that preceded the filing; it is history.
SignalRecord ==
    [tx : Txs, payload : Payloads, proof : BOOLEAN, relayer : Accounts,
     status : {"Pending", "Executed", "Failed"}, filedAfter : Nat]

ASSUME BridgeAssumption ==
    /\ MaxSignals \in Nat \ {0} /\ MaxInits \in Nat
    /\ NoAdmin \notin Accounts
    /\ NoSignal \notin SignalRecord

Filed == {id \in Ids : signals[id] # NoSignal}

\* require_not_paused and require_relayer.
MayRelay(u) == ~paused /\ u \in relayers

-----------------------------------------------------------------------------
(* Faulty variants of the definitions below, each caught by a property. *)

ForgetsProcessed(tx) == FALSE
ExecutesAnything(id) == id \in Filed

-----------------------------------------------------------------------------
\* The id after this one.
NextId(id) == id + 1

IsTxProcessed(tx) == tx \in processed

\* execute_mint_signal only acts on a pending signal.
MayExecute(id) == id \in Filed /\ signals[id].status = "Pending"

\* mark_tx_processed is only reached by a signal that verified.
ProcessedAfter(id, verdict) ==
    IF verdict = "Executed" THEN processed \cup {signals[id].tx} ELSE processed

-----------------------------------------------------------------------------
Init ==
    /\ admin = NoAdmin /\ paused = FALSE /\ relayers = {}
    /\ nextSignalId = 0
    /\ signals = [id \in Ids |-> NoSignal]
    /\ processed = {}
    /\ received = 0 /\ inits = 0
    /\ executions = <<>>

\* initialize may run again at any time, by anyone: it names a new admin,
\* unpauses and starts the signal ids over.
Initialize(u) ==
    /\ inits < MaxInits
    /\ inits' = inits + 1
    /\ admin' = u
    /\ paused' = FALSE
    /\ relayers' = relayers \cup {u}
    /\ nextSignalId' = 0
    /\ UNCHANGED <<signals, processed, received, executions>>

Pause(u) ==
    /\ u = admin
    /\ paused' = TRUE
    /\ UNCHANGED <<admin, relayers, nextSignalId, signals, processed, received, inits, executions>>

Unpause(u) ==
    /\ u = admin
    /\ paused' = FALSE
    /\ UNCHANGED <<admin, relayers, nextSignalId, signals, processed, received, inits, executions>>

AddRelayer(u, r) ==
    /\ u = admin
    /\ relayers' = relayers \cup {r}
    /\ UNCHANGED <<admin, paused, nextSignalId, signals, processed, received, inits, executions>>

RemoveRelayer(u, r) ==
    /\ u = admin
    /\ relayers' = relayers \ {r}
    /\ UNCHANGED <<admin, paused, nextSignalId, signals, processed, received, inits, executions>>

\* receive_mint_signal; payloads stand for positive amounts, which is all the
\* contract asks of them.
ReceiveMintSignal(u, tx, payload, proof) ==
    /\ received < MaxSignals
    /\ MayRelay(u)
    /\ ~IsTxProcessed(tx)
    /\ signals' = [signals EXCEPT ![nextSignalId] =
                     [tx |-> tx, payload |-> payload, proof |-> proof, relayer |-> u,
                      status |-> "Pending", filedAfter |-> Len(executions)]]
    /\ nextSignalId' = NextId(nextSignalId)
    /\ received' = received + 1
    /\ UNCHANGED <<access, processed, inits, executions>>

\* execute_mint_signal: a proof that verifies (one that is not empty) takes the
\* signal from Pending over Verified to Executed, any other to Failed.
ExecuteMintSignal(u, id) ==
    LET verdict == IF signals[id].proof THEN "Executed" ELSE "Failed" IN
    /\ MayRelay(u)
    /\ MayExecute(id)
    /\ signals' = [signals EXCEPT ![id].status = verdict]
    /\ processed' = ProcessedAfter(id, verdict)
    /\ executions' = IF verdict = "Executed" THEN Append(executions, signals[id]) ELSE executions
    /\ UNCHANGED <<access, nextSignalId, received, inits>>

Next ==
    \E u \in Accounts :
        \/ Initialize(u)
        \/ Pause(u) \/ Unpause(u)
        \/ \E r \in Accounts : AddRelayer(u, r) \/ RemoveRelayer(u, r)
        \/ \E tx \in Txs, payload \in Payloads, proof \in BOOLEAN :
              ReceiveMintSignal(u, tx, payload, proof)
        \/ \E id \in Ids : ExecuteMintSignal(u, id)

Spec == Init /\ [][Next]_vars

-----------------------------------------------------------------------------
(* Properties. *)

TypeOK ==
    /\ admin \in Accounts \cup {NoAdmin} /\ paused \in BOOLEAN
    /\ relayers \subseteq Accounts
    /\ received \in 0 .. MaxSignals /\ nextSignalId \in 0 .. received
    /\ signals \in [Ids -> SignalRecord \cup {NoSignal}]
    /\ processed \subseteq Txs
    /\ inits \in Nat
    /\ executions \in Seq(SignalRecord)

\* A source transaction is marked processed exactly when a signal for it was
\* executed, whatever was filed, failed, overwritten or re-initialised
\* meanwhile: the mark and the mint never come apart (bridge_receiver.rs:304-363).
ProcessedMeansExecuted ==
    processed = {executions[i].tx : i \in DOMAIN executions}

\* How far replay protection reaches: a transaction can be executed again only
\* through a signal that had been filed before its first execution.  Nothing
\* filed afterwards gets through, not even after initialize (bridge_receiver.rs:236-238).
ReplaysAreOlderFilings ==
    \A i, j \in DOMAIN executions :
        i < j /\ executions[i].tx = executions[j].tx => executions[j].filedAfter < i

\* Every filing mints at most once: executions and signals still pending never
\* outnumber what was filed, even when initialize starts the ids over and new
\* signals replace old ones under the same id (bridge_receiver.rs:317-319).
OneExecutionPerFiling ==
    Len(executions) + Cardinality({id \in Filed : signals[id].status = "Pending"}) <= received

\* contracts/bridge_receiver/README.md:11 says "Replay Protection: Prevents
\* duplicate processing of source transactions": no transaction is executed
\* twice.  The mark is set when a signal is executed (line 346) but only read
\* when one is received (line 236).
NoDuplicateProcessing ==
    \A i, j \in DOMAIN executions : executions[i].tx = executions[j].tx => i = j
=============================================================================
