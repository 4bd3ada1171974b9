------------------------------ MODULE Streaming ------------------------------
(***************************************************************************)
(* The streaming-payments contract (contracts/streaming/src/lib.rs): a     *)
(* sender deposits tokens that are released to a recipient ledger by       *)
(* ledger.  One action per contract entry point; a call that panics is     *)
(* reverted by the host, so an action is enabled exactly when the call     *)
(* succeeds.  The token is an external contract that refuses to move more  *)
(* than the payer holds.                                                   *)
(*                                                                         *)
(* Every stream follows the linear schedule: no entry point of the         *)
(* contract writes DataKey::Schedule or DataKey::MaxAmount, so the         *)
(* milestone branches and the global limit are unreachable and are left    *)
(* out.  Likewise create_stream_with_permit always panics.                 *)
(***************************************************************************)
EXTENDS Integers, FiniteSetsExt, Functions

CONSTANTS
    Users,          \* accounts that send, receive and operate streams
    Tokens,         \* token contracts streams may be denominated in
    Escrow,         \* the contract's own address
    None,           \* the absent Option<Address>, and an unset storage key
    Amounts,        \* deposits that callers choose from
    Ranges,         \* <<start_ledger, stop_ledger>> pairs callers choose from
    FeeChoices,     \* fee_bp arguments of set_fee_basis_points
    MaxLedger,      \* bound on the ledger sequence number
    MaxStreams,     \* bound on the number of create_stream calls
    Endowment       \* tokens every user starts with

ASSUME StreamingAssumption ==
    /\ Escrow \notin Users /\ None \notin Users \cup {Escrow}
    /\ Amounts \subseteq Nat /\ Ranges \subseteq Nat \X Nat
    /\ FeeChoices \subseteq Nat
    /\ MaxLedger \in Nat /\ MaxStreams \in Nat \ {0} /\ Endowment \in Nat

VARIABLES
    ledger,         \* e.ledger().sequence()
    admin,          \* DataKey::Admin
    nextStreamId,   \* DataKey::NextStreamId
    treasury,       \* DataKey::Treasury
    feeBp,          \* DataKey::FeeBasisPoints
    streams,        \* DataKey::Stream(Record(id)), None where there is no record
    bal,            \* balances held in each token contract
    created,        \* history: how many streams were ever created
    deposited,      \* history: tokens ever deposited under an id
    received,       \* history: tokens ever paid to the recipient under an id
    refunded        \* history: tokens ever returned to the sender under an id

config == <<admin, treasury, feeBp>>
history == <<created, deposited, received, refunded>>
vars == <<ledger, config, nextStreamId, streams, bal, history>>

Ids == 0 .. MaxStreams - 1
Accounts == Users \cup {Escrow}

StreamRecord ==
    [sender : Users, recipient : Users, token : Tokens, rate : Nat \ {0},
     start : Nat, stop : Nat, withdrawn : Nat, operator : Users \cup {None}]

\* No record is mistaken for the absent one.
ASSUME NoneIsNoStream == None \notin StreamRecord

Live == {id \in Ids : streams[id] # None}

-----------------------------------------------------------------------------
(* The token contract, as this contract uses it. *)

\* A transfer of a non-negative amount goes through when the payer holds it.
CanPay(b, t, payer, amount) == amount \in Nat /\ b[t][payer] >= amount

Pay(b, t, payer, payee, amount) ==
    [[b EXCEPT ![t][payer] = @ - amount] EXCEPT ![t][payee] = @ + amount]

-----------------------------------------------------------------------------
(* Read-only helpers of the contract. *)

Duration(s) == s.stop - s.start

LegacyTotalAmount(s) == s.rate * Duration(s)

\* Ledgers of the stream's range that have passed at ledger l.
Elapsed(s, l) ==
    IF l <= s.start THEN 0
    ELSE IF l >= s.stop THEN Duration(s) ELSE l - s.start

LinearStreamed(s, l) == s.rate * Elapsed(s, l)

\* Faulty variants of the definitions below, each caught by a property.
ForgetsWithdrawn(s, l) == LinearStreamed(s, l)
RefundsWithdrawn(s, l) == LegacyTotalAmount(s) - (LinearStreamed(s, l) - s.withdrawn)
PaysUnrecorded(s, amount) == s
RecordsTwice(s, amount) == [s EXCEPT !.withdrawn = @ + 2 * amount]

BalanceOf(s, l) == LinearStreamed(s, l) - s.withdrawn

\* What the sender gets back when the stream is cancelled at ledger l.
Refund(s, l) == LegacyTotalAmount(s) - BalanceOf(s, l) - s.withdrawn

\* The record after amount was paid to its recipient.
Paid(s, amount) == [s EXCEPT !.withdrawn = @ + amount]

FeeAllowed(fee) == fee <= 10000

MayWithdraw(u, s) == u = s.recipient \/ (s.operator # None /\ u = s.operator)
MayCancel(u, s)   == u = s.sender \/ (s.operator # None /\ u = s.operator)

-----------------------------------------------------------------------------
Init ==
    /\ ledger = 0
    /\ admin = None /\ treasury = None /\ feeBp = 0
    /\ nextStreamId = 0
    /\ streams = [id \in Ids |-> None]
    /\ bal = [t \in Tokens |-> [a \in Accounts |-> IF a = Escrow THEN 0 ELSE Endowment]]
    /\ created = 0
    /\ deposited = [id \in Ids |-> 0]
    /\ received = [id \in Ids |-> 0]
    /\ refunded = [id \in Ids |-> 0]

\* The network closes a ledger.
CloseLedger ==
    /\ ledger < MaxLedger
    /\ ledger' = ledger + 1
    /\ UNCHANGED <<config, nextStreamId, streams, bal, history>>

\* initialize: nothing but an earlier initialize stops it, and it resets the
\* stream counter even when streams were created before it.
Initialize(a) ==
    /\ admin = None
    /\ admin' = a
    /\ nextStreamId' = 0
    /\ UNCHANGED <<ledger, treasury, feeBp, streams, bal, history>>

SetTreasury(a) ==
    /\ admin # None
    /\ treasury' = a
    /\ UNCHANGED <<ledger, admin, feeBp, nextStreamId, streams, bal, history>>

SetFeeBasisPoints(fee) ==
    /\ admin # None
    /\ FeeAllowed(fee)
    /\ feeBp' = fee
    /\ UNCHANGED <<ledger, admin, treasury, nextStreamId, streams, bal, history>>

\* create_stream with finalize_create_stream.
CreateStream(u, r, t, amount, range, op) ==
    LET start == range[1]
        stop  == range[2]
        rate  == amount \div (stop - start)
    IN
    /\ created < MaxStreams
    /\ amount > 0
    /\ stop > start
    /\ CanPay(bal, t, u, amount)
    /\ rate # 0
    /\ streams' = [streams EXCEPT ![nextStreamId] =
                     [sender |-> u, recipient |-> r, token |-> t, rate |-> rate,
                      start |-> start, stop |-> stop, withdrawn |-> 0, operator |-> op]]
    /\ bal' = Pay(bal, t, u, Escrow, amount)
    /\ nextStreamId' = nextStreamId + 1
    /\ created' = created + 1
    /\ deposited' = [deposited EXCEPT ![nextStreamId] = @ + amount]
    /\ UNCHANGED <<ledger, config, received, refunded>>

SetOperator(id, op) ==
    /\ id \in Live
    /\ streams' = [streams EXCEPT ![id] = [@ EXCEPT !.operator = op]]
    /\ UNCHANGED <<ledger, config, nextStreamId, bal, history>>

\* withdraw: the recipient or the operator calls, the recipient is paid.
Withdraw(u, id, amount) ==
    /\ id \in Live
    /\ LET s == streams[id] IN
         /\ MayWithdraw(u, s)
         /\ amount <= BalanceOf(s, ledger)
         /\ CanPay(bal, s.token, Escrow, amount)
         /\ streams' = [streams EXCEPT ![id] = Paid(s, amount)]
         /\ bal' = Pay(bal, s.token, Escrow, s.recipient, amount)
         /\ received' = [received EXCEPT ![id] = @ + amount]
    /\ UNCHANGED <<ledger, config, nextStreamId, created, deposited, refunded>>

\* withdraw_from_multiple: the loop succeeds exactly when what it takes from
\* each stream is available there, and all streams share recipient and token.
\* batch maps each stream named in stream_ids to the sum of its amounts.
WithdrawFromMultiple(ids, batch) ==
    LET total == SumFunction(batch)
        first == streams[CHOOSE id \in ids : TRUE]
    IN
    /\ ids # {} /\ ids \subseteq Live
    /\ \A id \in ids :
         /\ streams[id].recipient = first.recipient
         /\ streams[id].token = first.token
         /\ batch[id] <= BalanceOf(streams[id], ledger)
    /\ CanPay(bal, first.token, Escrow, total)
    /\ streams' = [id \in Ids |->
                     IF id \in ids
                     THEN Paid(streams[id], batch[id])
                     ELSE streams[id]]
    /\ bal' = Pay(bal, first.token, Escrow, first.recipient, total)
    /\ received' = [id \in Ids |-> received[id] + (IF id \in ids THEN batch[id] ELSE 0)]
    /\ UNCHANGED <<ledger, config, nextStreamId, created, deposited, refunded>>

\* cancel_stream: pay the recipient what has streamed, the sender the rest of
\* the stream's total, and drop the record.
CancelStream(u, id) ==
    /\ id \in Live
    /\ LET s      == streams[id]
           due    == BalanceOf(s, ledger)
           refund == Refund(s, ledger)
           paid   == Pay(bal, s.token, Escrow, s.recipient, due)
       IN
         /\ MayCancel(u, s)
         /\ CanPay(bal, s.token, Escrow, due)
         /\ CanPay(paid, s.token, Escrow, refund)
         /\ bal' = Pay(paid, s.token, Escrow, s.sender, refund)
         /\ streams' = [streams EXCEPT ![id] = None]
         /\ received' = [received EXCEPT ![id] = @ + due]
         /\ refunded' = [refunded EXCEPT ![id] = @ + refund]
    /\ UNCHANGED <<ledger, config, nextStreamId, created, deposited>>

\* What one stream can pay out at most; bounds the amounts withdrawals try.
Withdrawable == 1 .. Max(Amounts)

Next ==
    \/ CloseLedger
    \/ \E a \in Users : Initialize(a) \/ SetTreasury(a)
    \/ \E fee \in FeeChoices : SetFeeBasisPoints(fee)
    \/ \E u, r \in Users, t \in Tokens, amount \in Amounts, range \in Ranges,
          op \in Users \cup {None} : CreateStream(u, r, t, amount, range, op)
    \/ \E id \in Ids, op \in Users \cup {None} : SetOperator(id, op)
    \/ \E u \in Users, id \in Ids, amount \in Withdrawable : Withdraw(u, id, amount)
    \/ \E ids \in SUBSET Ids : \E batch \in [ids -> Withdrawable] :
          WithdrawFromMultiple(ids, batch)
    \/ \E u \in Users, id \in Ids : CancelStream(u, id)

Spec == Init /\ [][Next]_vars

-----------------------------------------------------------------------------
(* Properties. *)

TypeOK ==
    /\ ledger \in Nat
    /\ admin \in Users \cup {None} /\ treasury \in Users \cup {None}
    /\ feeBp \in 0 .. 10000
    /\ nextStreamId \in 0 .. MaxStreams /\ created \in 0 .. MaxStreams
    /\ nextStreamId <= created
    /\ streams \in [Ids -> StreamRecord \cup {None}]
    /\ bal \in [Tokens -> [Accounts -> Int]]
    /\ deposited \in [Ids -> Nat] /\ received \in [Ids -> Nat] /\ refunded \in [Ids -> Nat]

\* What the contract still owes on its live streams of a token.
Owed(t) ==
    SumFunction([id \in {i \in Live : streams[i].token = t} |->
                   LegacyTotalAmount(streams[id]) - streams[id].withdrawn])

\* The contract always holds enough of each token to honour every live stream
\* in full, whatever mix of withdrawals, batches and cancellations ran before:
\* no stream is ever paid out of another's deposit (lib.rs:160-340).
Solvent == \A t \in Tokens : bal[t][Escrow] >= Owed(t)

\* A recipient never holds more of a stream than the ledgers that have passed
\* released, so balance_of is never negative however late a withdrawal runs
\* (lib.rs:226-229, 391-405).
NeverAheadOfSchedule ==
    \A id \in Live :
        /\ streams[id].withdrawn <= LinearStreamed(streams[id], ledger)
        /\ LinearStreamed(streams[id], ledger) <= LegacyTotalAmount(streams[id])

\* What has left the contract under an id plus what it still owes there never
\* exceeds what was deposited under that id: withdrawing and then cancelling
\* cannot pay the same tokens twice (lib.rs:213-340).
PaidOutOfOwnDeposit ==
    \A id \in Ids :
        received[id] + refunded[id]
          + (IF id \in Live THEN LegacyTotalAmount(streams[id]) - streams[id].withdrawn ELSE 0)
        <= deposited[id]

\* What the recipient has been paid under an id and can still ask for there.
Entitled(id) ==
    received[id] + (IF id \in Live THEN BalanceOf(streams[id], ledger) ELSE 0)

\* Nothing takes back what had accrued: not a later ledger, a withdrawal of
\* another amount or by the operator, a batch that names a stream several
\* times, a change of operator, nor the sender's cancellation.  The creation
\* of a stream under an id that is in use, after a late initialize, does
\* (lib.rs:61-340).
AccrualIsKept ==
    [][\A id \in Ids : created' = created \/ id # nextStreamId
          => Entitled(id)' >= Entitled(id)]_vars
=============================================================================
