----------------------------- MODULE VaultMirror -----------------------------
(***************************************************************************)
(* The server's mirror of the vault contract:                              *)
(* server/services/vault-service.js behind server/routes/vault-routes.js.  *)
(* Every operation simulates the contract call, submits nothing, and then  *)
(* reads the vault's document, changes it and saves it, with awaits        *)
(* between.  The service takes every vault for the one with id 1, which is *)
(* the only one that is ever stored.                                       *)
(*                                                                         *)
(* External: the simulation answers or fails; saving a document with       *)
(* mongoose sends the fields that were changed, and refuses to set an      *)
(* element of an array that was pushed to since the document was read.     *)
(***************************************************************************)
EXTENDS Integers, Sequences, FiniteSetsExt, Functions

CONSTANTS
    VaultRequests,  \* POST requests
    Collaterals,    \* collateral tokens
    MaxAmount       \* bound on the amounts of a request

ASSUME VaultMirrorAssumption == MaxAmount \in Nat \ {0}

VARIABLES
    mirror,         \* the vaults collection: at most one document
    request,        \* what each request asks for, where it is, what it read
    owed,           \* history: debt made by the requests that succeeded
    deposited,      \* history: the collateral of each token they left
    overlapped      \* history: a save came between another's read and save

mirrorVars == <<mirror, request, owed, deposited, overlapped>>

Ops == {"create", "add", "mint", "repay", "liquidate"}

\* What a request brings: up to two amounts of a token, zero where the route
\* allows a missing one.
Asks == {a \in [op : Ops, debt : 0 .. MaxAmount, amount : 0 .. MaxAmount, token : Collaterals] :
            /\ a.op \in {"create", "mint", "liquidate"} => a.debt > 0
            /\ a.op \in {"create", "add"} => a.amount > 0
            /\ a.op = "add" => a.debt = 0
            /\ a.op \in {"mint", "liquidate"} => a.amount = 0}

At(r) == request[r].pc
Goes(r, pc) == request' = [request EXCEPT ![r].pc = pc]

-----------------------------------------------------------------------------
(* Faulty variants: what the checks must notice. *)

AddsToDebt(ask, d) == IF ask.op = "add" THEN d.debt ELSE d.debt + ask.debt

-----------------------------------------------------------------------------
(* What the operations make of the document they read. *)

NewDebt(ask, d) ==
    CASE ask.op = "mint" -> d.debt + ask.debt
      [] ask.op \in {"repay", "liquidate"} -> d.debt - ask.debt
      [] OTHER -> d.debt

\* Debt that is paid closes a vault, and ends one that is liquidated; nothing
\* opens it again when more is minted.
NewStatus(ask, d) ==
    CASE ask.op = "repay" /\ NewDebt(ask, d) = 0 -> "closed"
      [] ask.op = "liquidate" /\ NewDebt(ask, d) = 0 -> "liquidated"
      [] OTHER -> d.status

\* The first entry of the token in the collaterals, 0 when there is none.
Entry(ask, d) ==
    LET found == {i \in DOMAIN d.collaterals : d.collaterals[i].token = ask.token}
    IN  IF found = {} THEN 0 ELSE Min(found)

Moved(ask) == IF ask.op = "add" THEN ask.amount ELSE -ask.amount

\* The collaterals of the document stored now, after the request that read d.
NewCollaterals(ask, d, now) ==
    CASE Moved(ask) = 0 -> now.collaterals
      [] Moved(ask) # 0 /\ Entry(ask, d) > 0 ->
            [now.collaterals EXCEPT ![Entry(ask, d)].amount =
                d.collaterals[Entry(ask, d)].amount + Moved(ask)]
      [] ask.op = "add" /\ Entry(ask, d) = 0 ->
            Append(now.collaterals, [token |-> ask.token, amount |-> ask.amount])
      [] OTHER -> now.collaterals

Pushes(ask, d) == ask.op = "liquidate" \/ (ask.op = "add" /\ Entry(ask, d) = 0)
Positional(ask, d) == Moved(ask) # 0 /\ Entry(ask, d) > 0

\* A field that was not changed is not sent.
Sent(now, read, new) == IF new = read THEN now ELSE new

-----------------------------------------------------------------------------
(* The requests. *)

\* Simulated, or not: then the request fails.
Simulate(r, ask) ==
    /\ At(r) = "idle"
    /\ \/ request' = [request EXCEPT ![r].ask = {ask}, ![r].pc = "simulated"]
       \/ Goes(r, "done")
    /\ UNCHANGED <<mirror, owed, deposited, overlapped>>

Reading == {r \in VaultRequests : At(r) = "read"}

\* createVault: a second document with the one id is refused by its index.
SaveNew(r, ask) ==
    /\ At(r) = "simulated" /\ request[r].ask = {ask} /\ ask.op = "create"
    /\ Goes(r, "done")
    /\ \/ /\ mirror = {}
          /\ mirror' = {[debt |-> ask.debt, status |-> "active", version |-> 0,
                         collaterals |-> <<[token |-> ask.token, amount |-> ask.amount]>>]}
          /\ owed' = ask.debt
          /\ deposited' = [deposited EXCEPT ![ask.token] = ask.amount]
       \/ UNCHANGED <<mirror, owed, deposited>>
    /\ UNCHANGED overlapped

\* findOne: without a document the answer is empty and nothing is saved.
FindVault(r) ==
    /\ At(r) = "simulated" /\ \A ask \in request[r].ask : ask.op # "create"
    /\ IF mirror = {} THEN Goes(r, "done")
       ELSE request' = [request EXCEPT ![r].pc = "read", ![r].doc = mirror]
    /\ UNCHANGED <<mirror, owed, deposited, overlapped>>

SaveVault(r, ask, d, now) ==
    /\ At(r) = "read" /\ request[r].ask = {ask}
    /\ request[r].doc = {d} /\ mirror = {now}
    /\ Positional(ask, d) => now.version = d.version
    /\ request' = [request EXCEPT ![r].pc = "done", ![r].doc = {}]
    /\ mirror' = {[debt |-> Sent(now.debt, d.debt, NewDebt(ask, d)),
                   status |-> Sent(now.status, d.status, NewStatus(ask, d)),
                   collaterals |-> NewCollaterals(ask, d, now),
                   version |-> IF Pushes(ask, d) THEN now.version + 1 ELSE now.version]}
    /\ owed' = owed + (IF ask.op = "mint" THEN ask.debt ELSE -ask.debt)
    /\ deposited' = IF ask.op = "add" \/ Entry(ask, d) > 0
                    THEN [deposited EXCEPT ![ask.token] = @ + Moved(ask)] ELSE deposited
    /\ overlapped' = (overlapped \/ Reading # {r})

\* MongoDB fails, or the element set may not be the one that was read.
SaveFails(r) ==
    /\ At(r) = "read"
    /\ request' = [request EXCEPT ![r].pc = "done", ![r].doc = {}]
    /\ UNCHANGED <<mirror, owed, deposited, overlapped>>

MirrorInit ==
    /\ mirror = {} /\ owed = 0 /\ overlapped = FALSE
    /\ deposited = [t \in Collaterals |-> 0]
    /\ request = [r \in VaultRequests |-> [pc |-> "idle", ask |-> {}, doc |-> {}]]

MirrorNext ==
    \E r \in VaultRequests :
        \/ \E ask \in Asks : Simulate(r, ask)
        \/ \E ask \in request[r].ask : SaveNew(r, ask)
        \/ FindVault(r) \/ SaveFails(r)
        \/ \E ask \in request[r].ask, d \in request[r].doc, now \in mirror :
               SaveVault(r, ask, d, now)

-----------------------------------------------------------------------------
(* Properties. *)

MirrorTypeOK ==
    /\ \A d \in mirror :
        /\ d.debt \in Int /\ d.version \in Nat
        /\ d.status \in {"active", "closed", "liquidated"}
        /\ d.collaterals \in Seq([token : Collaterals, amount : Int])
    /\ \A r \in VaultRequests :
        /\ At(r) \in {"idle", "simulated", "read", "done"}
        /\ request[r].ask \subseteq Asks
    /\ owed \in Int /\ deposited \in [Collaterals -> Int] /\ overlapped \in BOOLEAN

InMirror(d, t) ==
    SumFunction([i \in DOMAIN d.collaterals |->
                    IF d.collaterals[i].token = t THEN d.collaterals[i].amount ELSE 0])

\* The mirrored debt and collateral are those of the requests that succeeded,
\* in whatever order these came, except where one of them saved between
\* another's read and its save: then the update that was read over is lost, or
\* a token is entered twice (vault-service.js:71-244).
MirrorOffOnlyByOverlap ==
    \A d \in mirror :
        ~overlapped => d.debt = owed /\ \A t \in Collaterals : InMirror(d, t) = deposited[t]
=============================================================================
