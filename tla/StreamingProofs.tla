--------------------------- MODULE StreamingProofs ---------------------------
(***************************************************************************)
(* Theorems about Streaming, for every set of users and tokens, every      *)
(* choice of amounts and ledger ranges, and every bound.  The inductive    *)
(* invariant adds to the three checked ones that a live stream's range is  *)
(* not empty, without which the rate says nothing about the total.         *)
(***************************************************************************)
EXTENDS Streaming, SumTheorems, TLAPS

RangesNonEmpty == \A id \in Live : streams[id].start < streams[id].stop

IInv ==
    /\ TypeOK
    /\ RangesNonEmpty
    /\ NeverAheadOfSchedule
    /\ PaidOutOfOwnDeposit

-----------------------------------------------------------------------------
(* Arithmetic of the release schedule. *)

\* Rounding the rate down never promises more than was deposited.
LEMMA RateTimesDuration ==
    ASSUME NEW a \in Nat, NEW d \in Nat \ {0}
    PROVE  /\ a \div d \in Nat
           /\ (a \div d) * d <= a
  OBVIOUS

\* Multiplying by a non-negative rate preserves the order.
LEMMA ScaleMonotone ==
    ASSUME NEW r \in Nat, NEW x \in Nat, NEW y \in Nat, x <= y
    PROVE  r * x \in Nat /\ r * y \in Nat /\ r * x <= r * y
  <1> DEFINE d == y - x
  <1>1. d \in Nat /\ y = x + d
    OBVIOUS
  <1>2. r * y = r * x + r * d
    BY <1>1
  <1>3. r * d \in Nat /\ r * x \in Nat
    BY <1>1
  <1> QED
    BY <1>2, <1>3

\* What has streamed is a natural number, grows with the ledger and never
\* exceeds the stream's total.
LEMMA StreamedBounds ==
    ASSUME NEW s \in StreamRecord, s.start < s.stop, NEW l \in Nat
    PROVE  /\ LinearStreamed(s, l) \in Nat
           /\ LegacyTotalAmount(s) \in Nat
           /\ LinearStreamed(s, l) <= LegacyTotalAmount(s)
           /\ LinearStreamed(s, l) <= LinearStreamed(s, l + 1)
  <1>1. /\ s.rate \in Nat /\ s.start \in Nat /\ s.stop \in Nat
    BY DEF StreamRecord
  <1>2. /\ Elapsed(s, l) \in Nat /\ Elapsed(s, l + 1) \in Nat
        /\ Duration(s) \in Nat
        /\ Elapsed(s, l) <= Duration(s) /\ Elapsed(s, l) <= Elapsed(s, l + 1)
    BY <1>1 DEF Elapsed, Duration
  <1>3. /\ s.rate * Elapsed(s, l) \in Nat /\ s.rate * Duration(s) \in Nat
        /\ s.rate * Elapsed(s, l) <= s.rate * Duration(s)
    BY <1>1, <1>2, ScaleMonotone
  <1>4. s.rate * Elapsed(s, l) <= s.rate * Elapsed(s, l + 1)
    BY <1>1, <1>2, ScaleMonotone
  <1> QED
    BY <1>3, <1>4 DEF LinearStreamed, LegacyTotalAmount

\* A transfer keeps balances integers.
LEMMA PayType ==
    ASSUME NEW b \in [Tokens -> [Accounts -> Int]], NEW t \in Tokens,
           NEW p \in Accounts, NEW q \in Accounts, NEW n \in Int
    PROVE  Pay(b, t, p, q, n) \in [Tokens -> [Accounts -> Int]]
  BY DEF Pay

-----------------------------------------------------------------------------
(* The inductive invariant. *)

\* The type invariant by the parts of the state a step may touch.
StreamsTyped == streams \in [Ids -> StreamRecord \cup {None}]
BalancesTyped == bal \in [Tokens -> [Accounts -> Int]]
HistoryTyped ==
    deposited \in [Ids -> Nat] /\ received \in [Ids -> Nat] /\ refunded \in [Ids -> Nat]
CountersTyped ==
    /\ ledger \in Nat
    /\ admin \in Users \cup {None} /\ treasury \in Users \cup {None}
    /\ feeBp \in 0 .. 10000
    /\ nextStreamId \in 0 .. MaxStreams /\ created \in 0 .. MaxStreams
    /\ nextStreamId <= created

LEMMA TypeParts ==
    TypeOK <=> StreamsTyped /\ BalancesTyped /\ HistoryTyped /\ CountersTyped
  BY DEF TypeOK, StreamsTyped, BalancesTyped, HistoryTyped, CountersTyped

LEMMA TypePartsNext ==
    TypeOK' <=> StreamsTyped' /\ BalancesTyped' /\ HistoryTyped' /\ CountersTyped'
  BY TypeParts, PTL

\* A part whose variables keep their values keeps its type.
LEMMA SameCounters ==
    ASSUME CountersTyped, UNCHANGED <<ledger, admin, treasury, feeBp, nextStreamId, created>>
    PROVE  CountersTyped'
  BY DEF CountersTyped

LEMMA SameHistory ==
    ASSUME HistoryTyped, UNCHANGED <<deposited, received, refunded>>
    PROVE  HistoryTyped'
  BY DEF HistoryTyped

\* What a live identifier stands for.
LEMMA LiveRecord ==
    ASSUME TypeOK, NEW k \in Live
    PROVE  /\ streams \in [Ids -> StreamRecord \cup {None}]
           /\ k \in Ids /\ streams[k] \in StreamRecord /\ streams[k] # None
  <1>1. streams \in [Ids -> StreamRecord \cup {None}]
    BY DEF TypeOK
  <1>2. k \in Ids /\ streams[k] # None
    BY DEF Live
  <1> QED
    BY <1>1, <1>2

\* Writing one record leaves the others.
LEMMA OneWritten ==
    ASSUME streams \in [Ids -> StreamRecord \cup {None}], NEW k \in Ids, NEW y,
           streams' = [streams EXCEPT ![k] = y]
    PROVE  streams'[k] = y /\ \A id \in Ids : id # k => streams'[id] = streams[id]
  OBVIOUS

\* There is no stream at first.
LEMMA InitIInv == Init => IInv
  <1> SUFFICES ASSUME Init PROVE IInv
    OBVIOUS
  <1>1. \A id \in Ids : streams[id] = None
    BY DEF Init
  <1>2. Live = {}
    BY <1>1 DEF Live
  <1>3. TypeOK
    BY StreamingAssumption DEF Init, TypeOK, Ids, Accounts
  <1> QED
    BY <1>2, <1>3 DEF Init, IInv, RangesNonEmpty, NeverAheadOfSchedule, PaidOutOfOwnDeposit

\* A stream whose record and history do not change keeps its part of the
\* invariant in the same or the next ledger.
Kept(id) ==
    /\ streams'[id] = streams[id] /\ deposited'[id] = deposited[id]
    /\ received'[id] = received[id] /\ refunded'[id] = refunded[id]

\* What the invariant says about one stream identifier.
Part(id) ==
    /\ streams[id] # None =>
          /\ streams[id].start < streams[id].stop
          /\ streams[id].withdrawn <= LinearStreamed(streams[id], ledger)
          /\ LinearStreamed(streams[id], ledger) <= LegacyTotalAmount(streams[id])
    /\ received[id] + refunded[id]
          + (IF streams[id] # None
             THEN LegacyTotalAmount(streams[id]) - streams[id].withdrawn ELSE 0)
       <= deposited[id]

\* The invariant is type correctness and one part for every id.
LEMMA IInvByParts == IInv <=> TypeOK /\ \A id \in Ids : Part(id)
  BY DEF IInv, RangesNonEmpty, NeverAheadOfSchedule, PaidOutOfOwnDeposit, Part, Live

\* An id whose record and history stay keeps its part while the ledger moves on.
LEMMA KeptPart ==
    ASSUME TypeOK, NEW id \in Ids, Part(id), Kept(id),
           ledger' = ledger \/ ledger' = ledger + 1
    PROVE  Part(id)'
  <1>1. CASE streams[id] = None
    BY <1>1 DEF Kept, Part
  <1>2. CASE streams[id] # None
    <2>1. streams[id] \in StreamRecord /\ ledger \in Nat
      BY <1>2 DEF TypeOK
    <2>2. /\ LinearStreamed(streams[id], ledger) \in Nat
          /\ LegacyTotalAmount(streams[id]) \in Nat
          /\ LinearStreamed(streams[id], ledger) <= LinearStreamed(streams[id], ledger + 1)
          /\ LinearStreamed(streams[id], ledger + 1) \in Nat
          /\ LinearStreamed(streams[id], ledger + 1) <= LegacyTotalAmount(streams[id])
      BY <1>2, <2>1, StreamedBounds, ledger + 1 \in Nat DEF Part
    <2>3. streams[id].withdrawn \in Nat
      BY <2>1 DEF StreamRecord
    <2> DEFINE s == streams[id]
    <2>4. LinearStreamed(streams'[id], ledger') \in {LinearStreamed(s, ledger), LinearStreamed(s, ledger + 1)}
      BY DEF Kept
    <2>5. LegacyTotalAmount(streams'[id]) = LegacyTotalAmount(s)
      BY DEF Kept
    <2>6. streams'[id] = s
      BY DEF Kept
    <2>7. /\ s.start < s.stop
          /\ s.withdrawn <= LinearStreamed(streams'[id], ledger')
          /\ LinearStreamed(streams'[id], ledger') <= LegacyTotalAmount(s)
      BY <1>2, <2>2, <2>3, <2>4 DEF Part
    <2> QED
      BY <1>2, <2>5, <2>6, <2>7 DEF Part, Kept
  <1> QED
    BY <1>1, <1>2

\* Elapsed and the totals depend on the range and the rate only.
LEMMA WithdrawnAside ==
    ASSUME NEW s \in StreamRecord, NEW w \in Nat, NEW l \in Nat
    PROVE  LET z == [s EXCEPT !.withdrawn = w]
           IN  /\ z \in StreamRecord
               /\ z.withdrawn = w /\ z.start = s.start /\ z.stop = s.stop
               /\ LinearStreamed(z, l) = LinearStreamed(s, l)
               /\ LegacyTotalAmount(z) = LegacyTotalAmount(s)
  BY DEF StreamRecord, LinearStreamed, LegacyTotalAmount, Elapsed, Duration

\* Taking a natural amount within the balance keeps a stream's part.
LEMMA TakePart ==
    ASSUME TypeOK, NEW id \in Ids, Part(id), streams[id] # None,
           NEW n \in Nat, n <= BalanceOf(streams[id], ledger),
           streams'[id] = [streams[id] EXCEPT !.withdrawn = @ + n],
           received'[id] = received[id] + n,
           deposited'[id] = deposited[id], refunded'[id] = refunded[id],
           ledger' = ledger
    PROVE  Part(id)' /\ streams'[id] \in StreamRecord /\ received'[id] \in Nat
  <1> DEFINE s == streams[id]
             z == [s EXCEPT !.withdrawn = s.withdrawn + n]
  <1>1. s \in StreamRecord /\ ledger \in Nat /\ s.withdrawn \in Nat
    BY DEF TypeOK, StreamRecord
  <1>2. s.withdrawn + n \in Nat
    BY <1>1
  <1>3. /\ z \in StreamRecord
        /\ z.withdrawn = s.withdrawn + n /\ z.start = s.start /\ z.stop = s.stop
        /\ LinearStreamed(z, ledger) = LinearStreamed(s, ledger)
        /\ LegacyTotalAmount(z) = LegacyTotalAmount(s)
    BY <1>1, <1>2, WithdrawnAside
  <1>4. /\ LinearStreamed(s, ledger) \in Nat /\ LegacyTotalAmount(s) \in Nat
    BY <1>1, StreamedBounds DEF Part
  <1>5. s.withdrawn + n <= LinearStreamed(s, ledger)
    BY <1>1, <1>4 DEF BalanceOf
  <1>6. streams'[id] = z /\ z # None
    BY <1>3, NoneIsNoStream
  <1>7. /\ received[id] \in Nat /\ refunded[id] \in Nat /\ deposited[id] \in Nat
    BY DEF TypeOK
  <1>8. received'[id] + refunded'[id] + (LegacyTotalAmount(z) - z.withdrawn) <= deposited'[id]
    BY <1>1, <1>3, <1>4, <1>7 DEF Part
  <1>9. received'[id] + refunded'[id] + (IF streams'[id] # None
             THEN LegacyTotalAmount(streams'[id]) - streams'[id].withdrawn ELSE 0) <= deposited'[id]
    BY <1>6, <1>8
  <1>10. /\ streams'[id].start < streams'[id].stop
         /\ streams'[id].withdrawn <= LinearStreamed(streams'[id], ledger')
         /\ LinearStreamed(streams'[id], ledger') <= LegacyTotalAmount(streams'[id])
    BY <1>3, <1>5, <1>6 DEF Part
  <1> QED
    BY <1>3, <1>6, <1>7, <1>9, <1>10 DEF Part

-----------------------------------------------------------------------------
(* One lemma per action that touches streams. *)

\* A created stream starts with its part: its deposit is recorded and nothing is paid.
LEMMA CreateStep ==
    ASSUME TypeOK, \A id \in Ids : Part(id),
           NEW u \in Users, NEW r \in Users, NEW t \in Tokens, NEW amount \in Amounts,
           NEW range \in Ranges, NEW op \in Users \cup {None},
           CreateStream(u, r, t, amount, range, op)
    PROVE  TypeOK' /\ \A id \in Ids : Part(id)'
  <1>t. StreamsTyped /\ BalancesTyped /\ HistoryTyped /\ CountersTyped
    BY TypeParts
  <1>0. PICK k \in Ids : k = nextStreamId
    <2>1. created < MaxStreams
      BY DEF CreateStream
    <2> QED
      BY <1>t, <2>1, StreamingAssumption DEF CountersTyped, Ids
  <1> DEFINE start == range[1]
             stop == range[2]
             rate == amount \div (stop - start)
             s == [sender |-> u, recipient |-> r, token |-> t, rate |-> rate,
                   start |-> start, stop |-> stop, withdrawn |-> 0, operator |-> op]
  <1>1. /\ start \in Nat /\ stop \in Nat /\ amount \in Nat /\ start < stop
        /\ rate # 0 /\ created < MaxStreams
        /\ streams' = [streams EXCEPT ![k] = s]
        /\ deposited' = [deposited EXCEPT ![k] = @ + amount]
        /\ bal' = Pay(bal, t, u, Escrow, amount)
        /\ nextStreamId' = k + 1 /\ created' = created + 1
        /\ UNCHANGED <<ledger, config, received, refunded>>
    BY <1>0, StreamingAssumption DEF CreateStream
  <1>2. k + 1 \in 0 .. MaxStreams
    BY <1>t, <1>0, <1>1, StreamingAssumption DEF CountersTyped, Ids
  <1>3. stop - start \in Nat \ {0}
    BY <1>1
  <1>4. rate \in Nat \ {0} /\ rate * (stop - start) <= amount
    BY <1>1, <1>3, RateTimesDuration
  <1>5. s \in StreamRecord
    BY <1>1, <1>4 DEF StreamRecord
  <1>6. TypeOK'
    <2>1. BalancesTyped'
      <3>1. u \in Accounts /\ Escrow \in Accounts /\ amount \in Int
        BY <1>1 DEF Accounts
      <3>2. bal \in [Tokens -> [Accounts -> Int]]
        BY <1>t DEF BalancesTyped
      <3>3. bal' \in [Tokens -> [Accounts -> Int]]
        BY <1>1, <3>1, <3>2, PayType
      <3> QED
        BY <3>3 DEF BalancesTyped
    <2>2. CountersTyped'
      <3>1. created + 1 \in 0 .. MaxStreams /\ k + 1 <= created + 1
        BY <1>t, <1>0, <1>1, StreamingAssumption DEF CountersTyped
      <3> QED
        <4>1. UNCHANGED <<ledger, admin, treasury, feeBp>>
          BY <1>1 DEF config
        <4>2. nextStreamId' = k + 1 /\ created' = created + 1
          BY <1>1
        <4> QED
          BY ONLY <1>t, <1>2, <3>1, <4>1, <4>2 DEF CountersTyped
    <2>3. HistoryTyped'
      BY <1>t, <1>1 DEF HistoryTyped
    <2>4. StreamsTyped'
      <3> HIDE DEF s
      <3> QED
        BY <1>t, <1>1, <1>5 DEF StreamsTyped
    <2> QED
      BY <2>1, <2>2, <2>3, <2>4, TypePartsNext
  <1>7. Part(k)'
    <2>1. streams'[k] = s /\ s # None /\ s.withdrawn = 0
      <3>1. s # None /\ s.withdrawn = 0
        BY <1>5, NoneIsNoStream
      <3>2. streams'[k] = s
        <4> HIDE DEF s
        <4> QED
          BY <1>t, <1>1, OneWritten DEF StreamsTyped
      <3> QED
        BY <3>1, <3>2
    <2>2. LegacyTotalAmount(s) \in Nat /\ LegacyTotalAmount(s) <= amount
      BY <1>1, <1>3, <1>4 DEF LegacyTotalAmount, Duration
    <2>3. /\ LinearStreamed(s, ledger) \in Nat
          /\ LinearStreamed(s, ledger) <= LegacyTotalAmount(s)
      <3>1. s.start < s.stop /\ ledger \in Nat
        BY <1>t, <1>1 DEF CountersTyped
      <3> HIDE DEF s
      <3> QED
        BY <1>5, <3>1, StreamedBounds
    <2>4. received[k] + refunded[k] <= deposited[k]
      <3>0. received[k] \in Nat /\ refunded[k] \in Nat /\ deposited[k] \in Nat
        BY <1>t DEF HistoryTyped
      <3>1. CASE streams[k] = None
        BY <3>0, <3>1 DEF Part
      <3>2. CASE streams[k] # None
        <4>1. streams[k] \in StreamRecord /\ ledger \in Nat
          BY <1>t, <3>2 DEF StreamsTyped, CountersTyped
        <4>2. streams[k].withdrawn \in Nat
          BY <4>1 DEF StreamRecord
        <4>3. streams[k].start < streams[k].stop
          BY <3>2 DEF Part
        <4>4. /\ LinearStreamed(streams[k], ledger) \in Nat
              /\ LegacyTotalAmount(streams[k]) \in Nat
          BY <4>1, <4>3, StreamedBounds
        <4>5. /\ streams[k].withdrawn <= LinearStreamed(streams[k], ledger)
              /\ LinearStreamed(streams[k], ledger) <= LegacyTotalAmount(streams[k])
              /\ received[k] + refunded[k]
                   + (LegacyTotalAmount(streams[k]) - streams[k].withdrawn) <= deposited[k]
          BY <3>2 DEF Part
        <4> QED
          BY ONLY <3>0, <4>2, <4>4, <4>5
      <3> QED
        BY <3>1, <3>2
    <2>5. /\ deposited'[k] = deposited[k] + amount
          /\ received'[k] = received[k] /\ refunded'[k] = refunded[k]
          /\ deposited[k] \in Nat /\ received[k] \in Nat /\ refunded[k] \in Nat
      BY <1>t, <1>1 DEF HistoryTyped
    <2>6. received'[k] + refunded'[k] + (LegacyTotalAmount(s) - s.withdrawn) <= deposited'[k]
      BY <1>1, <2>1, <2>2, <2>4, <2>5
    <2> QED
      BY <1>1, <2>1, <2>3, <2>6 DEF Part
  <1>8. ASSUME NEW id \in Ids, id # k PROVE Part(id)'
    <2>1. Kept(id)
      BY <1>t, <1>1, <1>8 DEF Kept, StreamsTyped, HistoryTyped
    <2> QED
      BY <1>1, <1>8, <2>1, KeptPart
  <1> QED
    BY <1>6, <1>7, <1>8

\* Naming an operator moves no amount.
LEMMA SetOperatorStep ==
    ASSUME TypeOK, \A id \in Ids : Part(id),
           NEW k \in Ids, NEW op \in Users \cup {None}, SetOperator(k, op)
    PROVE  TypeOK' /\ \A id \in Ids : Part(id)'
  <1> DEFINE s == streams[k]
             z == [s EXCEPT !.operator = op]
  <1>t. StreamsTyped /\ BalancesTyped /\ HistoryTyped /\ CountersTyped
    BY TypeParts
  <1>1. /\ s # None /\ streams' = [streams EXCEPT ![k] = z]
        /\ UNCHANGED <<ledger, config, nextStreamId, bal, history>>
    BY DEF SetOperator, Live
  <1>2. s \in StreamRecord /\ ledger \in Nat
    BY <1>t, <1>1 DEF StreamsTyped, CountersTyped
  <1>3. z \in StreamRecord
    BY <1>2 DEF StreamRecord
  <1>4. /\ z.withdrawn = s.withdrawn /\ z.start = s.start /\ z.stop = s.stop
        /\ z.rate = s.rate
    BY <1>2 DEF StreamRecord
  <1>5. /\ LinearStreamed(z, ledger) = LinearStreamed(s, ledger)
        /\ LegacyTotalAmount(z) = LegacyTotalAmount(s)
    BY <1>4 DEF LinearStreamed, LegacyTotalAmount, Elapsed, Duration
  <1>6. TypeOK'
    <2> HIDE DEF z
    <2>1. StreamsTyped'
      BY <1>t, <1>1, <1>3 DEF StreamsTyped
    <2>2. /\ UNCHANGED <<ledger, admin, treasury, feeBp, nextStreamId, created>>
          /\ UNCHANGED <<deposited, received, refunded>> /\ UNCHANGED bal
      BY <1>1 DEF config, history
    <2>3. HistoryTyped' /\ CountersTyped'
      BY ONLY <1>t, <2>2, SameCounters, SameHistory
    <2>4. BalancesTyped'
      BY ONLY <1>t, <2>2 DEF BalancesTyped
    <2> QED
      BY <2>1, <2>3, <2>4, TypePartsNext
  <1>7. Part(k)'
    <2>1. streams'[k] = z /\ z # None
      <3> HIDE DEF z
      <3> QED
        BY <1>t, <1>1, <1>3, NoneIsNoStream, OneWritten DEF StreamsTyped
    <2> QED
      BY <1>1, <1>4, <1>5, <2>1 DEF Part, history
  <1>8. ASSUME NEW id \in Ids, id # k PROVE Part(id)'
    <2>1. Kept(id)
      <3> HIDE DEF z
      <3> QED
        BY <1>t, <1>1, <1>8, OneWritten DEF Kept, StreamsTyped, history
    <2> QED
      BY <1>1, <1>8, <2>1, KeptPart
  <1> QED
    BY <1>6, <1>7, <1>8

\* A withdrawal pays at most what has accrued.
LEMMA WithdrawStep ==
    ASSUME TypeOK, \A id \in Ids : Part(id),
           NEW u \in Users, NEW k \in Ids, NEW amount \in Int, Withdraw(u, k, amount)
    PROVE  TypeOK' /\ \A id \in Ids : Part(id)'
  <1> DEFINE s == streams[k]
             z == [s EXCEPT !.withdrawn = @ + amount]
  <1>t. StreamsTyped /\ BalancesTyped /\ HistoryTyped /\ CountersTyped
    BY TypeParts
  <1>1. /\ s # None /\ amount \in Nat /\ amount <= BalanceOf(s, ledger)
        /\ streams' = [streams EXCEPT ![k] = z]
        /\ bal' = Pay(bal, s.token, Escrow, s.recipient, amount)
        /\ received' = [received EXCEPT ![k] = @ + amount]
        /\ UNCHANGED <<ledger, config, nextStreamId, created, deposited, refunded>>
    BY DEF Withdraw, Live, CanPay, Paid
  <1>2. s \in StreamRecord
    BY <1>t, <1>1 DEF StreamsTyped
  <1>3. /\ streams'[k] = z /\ received'[k] = received[k] + amount
        /\ deposited'[k] = deposited[k] /\ refunded'[k] = refunded[k]
    <2> HIDE DEF z
    <2> QED
      BY <1>t, <1>1, OneWritten DEF StreamsTyped, HistoryTyped
  <1>4. Part(k)' /\ streams'[k] \in StreamRecord /\ received'[k] \in Nat
    BY <1>1, <1>3, TakePart
  <1>5. TypeOK'
    <2>1. BalancesTyped'
      <3>1. s.token \in Tokens /\ s.recipient \in Accounts /\ Escrow \in Accounts
        BY <1>2 DEF StreamRecord, Accounts
      <3>2. bal \in [Tokens -> [Accounts -> Int]] /\ amount \in Int
        BY <1>t, <1>1 DEF BalancesTyped
      <3>3. bal' \in [Tokens -> [Accounts -> Int]]
        BY <1>1, <3>1, <3>2, PayType
      <3> QED
        BY <3>3 DEF BalancesTyped
    <2>2. StreamsTyped'
      BY <1>t, <1>1, <1>3, <1>4 DEF StreamsTyped
    <2>3. HistoryTyped'
      BY <1>t, <1>1 DEF HistoryTyped
    <2>4. CountersTyped'
      <3>1. UNCHANGED <<ledger, admin, treasury, feeBp, nextStreamId, created>>
        BY <1>1 DEF config
      <3> QED
        BY ONLY <1>t, <3>1, SameCounters
    <2> QED
      BY <2>1, <2>2, <2>3, <2>4, TypePartsNext
  <1>6. ASSUME NEW id \in Ids, id # k PROVE Part(id)'
    <2>1. Kept(id)
      <3> HIDE DEF z
      <3> QED
        BY <1>t, <1>1, <1>6, OneWritten DEF Kept, StreamsTyped, HistoryTyped
    <2> QED
      BY <1>1, <1>6, <2>1, KeptPart
  <1> QED
    BY <1>4, <1>5, <1>6

\* A batch is a withdrawal for each of its ids.
LEMMA WithdrawFromMultipleStep ==
    ASSUME TypeOK, \A id \in Ids : Part(id),
           NEW ids \in SUBSET Ids, NEW batch \in [ids -> Withdrawable],
           WithdrawFromMultiple(ids, batch)
    PROVE  TypeOK' /\ \A id \in Ids : Part(id)'
  <1> DEFINE total == SumFunction(batch)
             first == streams[CHOOSE id \in ids : TRUE]
  <1>t. StreamsTyped /\ BalancesTyped /\ HistoryTyped /\ CountersTyped
    BY TypeParts
  <1>1. /\ ids # {} /\ ids \subseteq Live
        /\ \A id \in ids : batch[id] <= BalanceOf(streams[id], ledger)
        /\ total \in Nat
        /\ streams' = [id \in Ids |-> IF id \in ids
                         THEN [streams[id] EXCEPT !.withdrawn = @ + batch[id]]
                         ELSE streams[id]]
        /\ bal' = Pay(bal, first.token, Escrow, first.recipient, total)
        /\ received' = [id \in Ids |-> received[id] + (IF id \in ids THEN batch[id] ELSE 0)]
        /\ UNCHANGED <<ledger, config, nextStreamId, created, deposited, refunded>>
    BY DEF WithdrawFromMultiple, CanPay, Paid
  <1>2. ASSUME NEW id \in ids
        PROVE  Part(id)' /\ streams'[id] \in StreamRecord /\ received'[id] \in Nat
    <2>1. /\ id \in Ids /\ streams[id] # None
          /\ batch[id] \in Nat /\ batch[id] <= BalanceOf(streams[id], ledger)
      BY <1>1 DEF Live, Withdrawable
    <2>2. /\ streams'[id] = [streams[id] EXCEPT !.withdrawn = @ + batch[id]]
          /\ received'[id] = received[id] + batch[id]
          /\ deposited'[id] = deposited[id] /\ refunded'[id] = refunded[id]
          /\ ledger' = ledger
      BY <1>1, <2>1
    <2> QED
      BY <2>1, <2>2, TakePart
  <1>3. ASSUME NEW id \in Ids, id \notin ids
        PROVE  Kept(id) /\ Part(id)'
    <2>1. Kept(id)
      BY <1>t, <1>1, <1>3 DEF Kept, StreamsTyped, HistoryTyped
    <2> QED
      BY <1>1, <1>3, <2>1, KeptPart
  <1>4. TypeOK'
    <2>1. first \in StreamRecord
      BY <1>t, <1>1 DEF StreamsTyped, Live
    <2>2. /\ first.token \in Tokens /\ first.recipient \in Accounts
          /\ Escrow \in Accounts /\ total \in Int
      BY <1>1, <2>1 DEF StreamRecord, Accounts
    <2>3. bal \in [Tokens -> [Accounts -> Int]]
      BY <1>t DEF BalancesTyped
    <2>4. bal' \in [Tokens -> [Accounts -> Int]]
      BY <1>1, <2>2, <2>3, PayType
    <2>5. \A id \in Ids : streams'[id] \in StreamRecord \cup {None} /\ received'[id] \in Nat
      BY <1>t, <1>2, <1>3 DEF Kept, StreamsTyped, HistoryTyped
    <2>6. streams' \in [Ids -> StreamRecord \cup {None}] /\ received' \in [Ids -> Nat]
      BY <1>1, <2>5
    <2>7. UNCHANGED <<ledger, admin, treasury, feeBp, nextStreamId, created, deposited, refunded>>
      BY <1>1 DEF config
    <2>8. StreamsTyped' /\ BalancesTyped'
      BY <2>4, <2>6 DEF StreamsTyped, BalancesTyped
    <2>9. HistoryTyped' /\ CountersTyped'
      <3>1. CountersTyped'
        BY ONLY <1>t, <2>7, SameCounters
      <3>2. HistoryTyped'
        BY ONLY <1>t, <2>6, <2>7 DEF HistoryTyped
      <3> QED
        BY <3>1, <3>2
    <2> QED
      BY <2>8, <2>9, TypePartsNext
  <1> QED
    BY <1>2, <1>3, <1>4

\* A cancellation pays what has accrued and refunds at most the rest.
LEMMA CancelStep ==
    ASSUME TypeOK, \A id \in Ids : Part(id),
           NEW u \in Users, NEW k \in Ids, CancelStream(u, k)
    PROVE  TypeOK' /\ \A id \in Ids : Part(id)'
  <1> DEFINE s == streams[k]
             due == BalanceOf(s, ledger)
             refund == LegacyTotalAmount(s) - due - s.withdrawn
             paid == Pay(bal, s.token, Escrow, s.recipient, due)
  <1>t. StreamsTyped /\ BalancesTyped /\ HistoryTyped /\ CountersTyped
    BY TypeParts
  <1>1. /\ s # None /\ due \in Nat /\ refund \in Nat
        /\ bal' = Pay(paid, s.token, Escrow, s.sender, refund)
        /\ streams' = [streams EXCEPT ![k] = None]
        /\ received' = [received EXCEPT ![k] = @ + due]
        /\ refunded' = [refunded EXCEPT ![k] = @ + refund]
        /\ UNCHANGED <<ledger, config, nextStreamId, created, deposited>>
    BY DEF CancelStream, Live, CanPay, Refund
  <1>2. s \in StreamRecord /\ s.withdrawn \in Nat
    <2>1. s \in StreamRecord
      BY <1>t, <1>1 DEF StreamsTyped
    <2> QED
      BY <2>1 DEF StreamRecord
  <1>3. TypeOK'
    <2>1. /\ s.token \in Tokens /\ s.recipient \in Accounts /\ s.sender \in Accounts
          /\ Escrow \in Accounts /\ due \in Int /\ refund \in Int
      BY <1>1, <1>2 DEF StreamRecord, Accounts
    <2>2. bal \in [Tokens -> [Accounts -> Int]]
      BY <1>t DEF BalancesTyped
    <2>3. paid \in [Tokens -> [Accounts -> Int]]
      BY <2>1, <2>2, PayType
    <2>4. bal' \in [Tokens -> [Accounts -> Int]]
      <3> HIDE DEF s, due, refund, paid
      <3> QED
        BY <1>1, <2>1, <2>3, PayType
    <2>5. StreamsTyped'
      BY <1>t, <1>1 DEF StreamsTyped
    <2>6. HistoryTyped'
      <3> HIDE DEF due, refund
      <3> QED
        BY <1>t, <1>1 DEF HistoryTyped
    <2>7. CountersTyped'
      <3>1. UNCHANGED <<ledger, admin, treasury, feeBp, nextStreamId, created>>
        BY <1>1 DEF config
      <3> QED
        BY ONLY <1>t, <3>1, SameCounters
    <2>8. BalancesTyped'
      BY <2>4 DEF BalancesTyped
    <2> QED
      BY <2>5, <2>6, <2>7, <2>8, TypePartsNext
  <1>4. Part(k)'
    <2>1. LegacyTotalAmount(s) \in Nat
      <3>1. s.start < s.stop /\ ledger \in Nat
        <4>1. Part(k) /\ streams[k] # None
          BY <1>1
        <4>2. ledger \in Nat
          BY <1>t DEF CountersTyped
        <4> QED
          BY <4>1, <4>2 DEF Part
      <3> HIDE DEF s
      <3> QED
        BY <1>2, <3>1, StreamedBounds
    <2>2. /\ streams'[k] = None /\ deposited'[k] = deposited[k]
          /\ received'[k] = received[k] + due /\ refunded'[k] = refunded[k] + refund
          /\ received[k] \in Nat /\ refunded[k] \in Nat /\ deposited[k] \in Nat
      <3> HIDE DEF due, refund
      <3> QED
        BY <1>t, <1>1 DEF StreamsTyped, HistoryTyped
    <2>3. received[k] + refunded[k] + (LegacyTotalAmount(s) - s.withdrawn) <= deposited[k]
      BY <1>1 DEF Part
    <2>4. due + refund = LegacyTotalAmount(s) - s.withdrawn
      BY <1>1, <1>2, <2>1
    <2>5. received'[k] + refunded'[k] + 0 <= deposited'[k]
      BY <1>1, <1>2, <2>1, <2>2, <2>3, <2>4
    <2> QED
      BY <2>2, <2>5 DEF Part
  <1>5. ASSUME NEW id \in Ids, id # k PROVE Part(id)'
    <2>1. Kept(id)
      BY <1>t, <1>1, <1>5 DEF Kept, StreamsTyped, HistoryTyped
    <2> QED
      BY <1>1, <1>5, <2>1, KeptPart
  <1> QED
    BY <1>3, <1>4, <1>5

\* Steps that leave the streams and their history alone.
LEMMA OtherStep ==
    ASSUME TypeOK, \A id \in Ids : Part(id), UNCHANGED <<streams, history>>,
           ledger' = ledger \/ ledger' = ledger + 1
    PROVE  \A id \in Ids : Part(id)'
  <1> TAKE id \in Ids
  <1>1. Kept(id)
    BY DEF Kept, history
  <1> QED
    BY <1>1, KeptPart

\* Every entry point keeps the invariant.
LEMMA NextIInv == IInv /\ [Next]_vars => IInv'
  <1> SUFFICES ASSUME TypeOK, \A id \in Ids : Part(id), [Next]_vars
               PROVE  TypeOK' /\ \A id \in Ids : Part(id)'
    <2>1. (TypeOK /\ \A id \in Ids : Part(id)) <=> IInv
      BY IInvByParts
    <2>2. (TypeOK /\ \A id \in Ids : Part(id))' <=> IInv'
      BY IInvByParts, PTL
    <2> QED
      BY <2>1, <2>2
  <1>t. StreamsTyped /\ BalancesTyped /\ HistoryTyped /\ CountersTyped
    BY TypeParts
  <1>h. ASSUME UNCHANGED <<streams, bal, history>>, CountersTyped'
        PROVE  TypeOK'
    <2>1. StreamsTyped' /\ BalancesTyped' /\ HistoryTyped'
      BY <1>t, <1>h DEF StreamsTyped, BalancesTyped, HistoryTyped, history
    <2> QED
      BY <1>h, <2>1, TypePartsNext
  <1>1. CASE CloseLedger
    <2>1. CountersTyped'
      BY <1>t, <1>1 DEF CloseLedger, CountersTyped, config, history
    <2>2. TypeOK'
      BY <1>1, <1>h, <2>1 DEF CloseLedger
    <2> QED
      BY <1>1, <2>2, OtherStep DEF CloseLedger
  <1>2. ASSUME NEW a \in Users, Initialize(a) \/ SetTreasury(a)
        PROVE  TypeOK' /\ \A id \in Ids : Part(id)'
    <2>1. CASE Initialize(a)
      <3>1. CountersTyped'
        BY <1>t, <2>1, StreamingAssumption DEF Initialize, CountersTyped, history
      <3>2. TypeOK'
        BY <1>h, <2>1, <3>1 DEF Initialize
      <3> QED
        BY <2>1, <3>2, OtherStep DEF Initialize
    <2>2. CASE SetTreasury(a)
      <3>1. CountersTyped'
        BY <1>t, <2>2 DEF SetTreasury, CountersTyped, history
      <3>2. TypeOK'
        BY <1>h, <2>2, <3>1 DEF SetTreasury
      <3> QED
        BY <2>2, <3>2, OtherStep DEF SetTreasury
    <2> QED
      BY <1>2, <2>1, <2>2
  <1>3. ASSUME NEW fee \in FeeChoices, SetFeeBasisPoints(fee)
        PROVE  TypeOK' /\ \A id \in Ids : Part(id)'
    <2>1. CountersTyped'
      BY <1>t, <1>3, StreamingAssumption
         DEF SetFeeBasisPoints, FeeAllowed, CountersTyped, history
    <2>2. TypeOK'
      BY <1>3, <1>h, <2>1 DEF SetFeeBasisPoints
    <2> QED
      BY <1>3, <2>2, OtherStep DEF SetFeeBasisPoints, FeeAllowed
  <1>4. CASE UNCHANGED vars
    <2>1. CountersTyped'
      BY <1>t, <1>4 DEF CountersTyped, vars, config, history
    <2>2. TypeOK'
      BY <1>4, <1>h, <2>1 DEF vars
    <2> QED
      BY <1>4, <2>2, OtherStep DEF vars
  <1>5. ASSUME NEW u \in Users, NEW id \in Ids, NEW amount \in Withdrawable,
               Withdraw(u, id, amount)
        PROVE  TypeOK' /\ \A i \in Ids : Part(i)'
    BY <1>5, WithdrawStep, amount \in Int DEF Withdrawable
  <1> QED
    BY <1>1, <1>2, <1>3, <1>4, <1>5, CreateStep, SetOperatorStep,
       WithdrawFromMultipleStep, CancelStep DEF Next

\* For every set of users, tokens, amounts and ranges: every variable keeps its
\* type, in particular stream identifiers stay in range (lib.rs:61-340).
THEOREM TypeCorrect == Spec => []TypeOK
  <1>1. IInv => TypeOK
    BY DEF IInv
  <1> QED
    BY <1>1, InitIInv, NextIInv, PTL DEF Spec

\* For every instance: no recipient is ever paid ahead of the release schedule
\* and no schedule promises more than the stream's total (lib.rs:342-411).
THEOREM ScheduleRespected == Spec => []NeverAheadOfSchedule
  <1>1. IInv => NeverAheadOfSchedule
    BY DEF IInv
  <1> QED
    BY <1>1, InitIInv, NextIInv, PTL DEF Spec

\* For every instance: what leaves the contract under a stream and what is
\* still owed on it fit in that stream's own deposit (lib.rs:160-340).
THEOREM OwnDepositSuffices == Spec => []PaidOutOfOwnDeposit
  <1>1. IInv => PaidOutOfOwnDeposit
    BY DEF IInv
  <1> QED
    BY <1>1, InitIInv, NextIInv, PTL DEF Spec

-----------------------------------------------------------------------------
(* Solvency.  What the contract owes in a token is a sum over all stream      *)
(* identifiers; a step changes what it owes on the identifiers it names, and  *)
(* pays or takes in exactly the difference.                                   *)

Due(t, id) ==
    IF streams[id] # None /\ streams[id].token = t
    THEN LegacyTotalAmount(streams[id]) - streams[id].withdrawn ELSE 0

Dues(t) == [id \in Ids |-> Due(t, id)]

\* The ids are an interval.
LEMMA IdsFinite == IsFiniteSet(Ids)
  BY StreamingAssumption, FS_Interval DEF Ids

\* What is owed on a stream is never negative.
LEMMA DueTyped ==
    ASSUME IInv, NEW t, NEW id \in Ids
    PROVE  Due(t, id) \in Nat
  <1>1. CASE streams[id] = None
    BY <1>1 DEF Due
  <1>2. CASE streams[id] # None
    <2>1. streams[id] \in StreamRecord /\ ledger \in Nat /\ streams[id].withdrawn \in Nat
      BY <1>2 DEF IInv, TypeOK, StreamRecord
    <2>2. /\ streams[id].start < streams[id].stop
          /\ streams[id].withdrawn <= LinearStreamed(streams[id], ledger)
      BY <1>2 DEF IInv, RangesNonEmpty, NeverAheadOfSchedule, Live
    <2>3. /\ LinearStreamed(streams[id], ledger) \in Nat
          /\ LegacyTotalAmount(streams[id]) \in Nat
          /\ LinearStreamed(streams[id], ledger) <= LegacyTotalAmount(streams[id])
      BY <2>1, <2>2, StreamedBounds
    <2> DEFINE left == LegacyTotalAmount(streams[id]) - streams[id].withdrawn
    <2>4. left \in Nat
      BY <2>1, <2>2, <2>3
    <2> QED
      BY <2>4 DEF Due
  <1> QED
    BY <1>1, <1>2

\* Owed sums over the live streams of the token, and so over all identifiers.
LEMMA OwedIsDues ==
    ASSUME IInv, NEW t
    PROVE  Owed(t) = SumFunctionOnSet(Dues(t), Ids) /\ Owed(t) \in Nat
  <1> DEFINE R == {i \in Live : streams[i].token = t}
             f == [id \in R |-> LegacyTotalAmount(streams[id]) - streams[id].withdrawn]
             g == Dues(t)
  <1>1. R \subseteq Ids
    BY DEF Live
  <1>2. \A id \in Ids : g[id] \in Nat
    BY DueTyped DEF Dues
  <1>3. \A id \in R : g[id] = f[id]
    BY DEF Dues, Due, Live
  <1>4. \A id \in R : f[id] \in Int
    BY <1>1, <1>2, <1>3
  <1>5. \A id \in Ids \ R : g[id] = 0
    BY DEF Dues, Due, Live
  <1>6. Owed(t) = SumFunctionOnSet(f, R)
    <2>1. DOMAIN f = R
      OBVIOUS
    <2>2. Owed(t) = SumFunction(f)
      BY DEF Owed
    <2> HIDE DEF f, R
    <2> QED
      BY <2>1, <2>2, SumOfFunction
  <1> HIDE DEF f, g, R
  <1>7. SumFunctionOnSet(g, Ids) = SumFunctionOnSet(f, R)
    BY <1>1, <1>3, <1>4, <1>5, IdsFinite, SumPadded
  <1>8. SumFunctionOnSet(g, Ids) \in Nat
    BY <1>2, IdsFinite, SumIsNat
  <1> QED
    BY <1>6, <1>7, <1>8 DEF g

\* The same, to be read of the next state too.
OwedFacts ==
    \A t \in Tokens :
        /\ Owed(t) = SumFunctionOnSet(Dues(t), Ids) /\ Owed(t) \in Nat
        /\ \A id \in Ids : Due(t, id) \in Nat

\* What is owed under an id is a natural number.
LEMMA OwedFactsHold == IInv => OwedFacts
  BY OwedIsDues, DueTyped DEF OwedFacts

\* The same of the next state.
LEMMA OwedFactsNext == IInv' => OwedFacts'
  BY OwedFactsHold, PTL

\* A step that touches one stream changes what is owed by what it changes there.
LEMMA OwedAfterOne ==
    ASSUME IInv, IInv', NEW k \in Ids, NEW t \in Tokens,
           \A id \in Ids : id # k => streams'[id] = streams[id]
    PROVE  Owed(t)' = Owed(t) - Due(t, k) + Due(t, k)'
  <1> DEFINE f == Dues(t)
             g == Dues(t)'
  <1>1. \A id \in Ids : id # k => g[id] = f[id]
    BY DEF Dues, Due
  <1>2. \A id \in Ids : f[id] \in Int
    BY DueTyped DEF Dues
  <1>3. \A id \in Ids : Due(t, id)' \in Nat
    BY OwedFactsNext DEF OwedFacts
  <1>4. \A id \in Ids : g[id] \in Int
    BY <1>3 DEF Dues
  <1>5. f[k] = Due(t, k) /\ g[k] = Due(t, k)'
    BY DEF Dues
  <1>6. Owed(t) = SumFunctionOnSet(f, Ids) /\ Owed(t)' = SumFunctionOnSet(g, Ids)
    BY OwedIsDues, OwedFactsNext DEF OwedFacts
  <1> HIDE DEF f, g
  <1>7. SumFunctionOnSet(g, Ids) = SumFunctionOnSet(f, Ids) - f[k] + g[k]
    BY <1>1, <1>2, <1>4, IdsFinite, SumChanged
  <1> QED
    BY <1>5, <1>6, <1>7

\* What a payment does to the contract's balances.
LEMMA PayFromEscrow ==
    ASSUME NEW b \in [Tokens -> [Accounts -> Int]], NEW t \in Tokens,
           NEW q \in Users, NEW n \in Int, NEW z \in Tokens
    PROVE  Pay(b, t, Escrow, q, n)[z][Escrow]
               = IF z = t THEN b[z][Escrow] - n ELSE b[z][Escrow]
  <1>1. Escrow \in Accounts /\ q \in Accounts /\ q # Escrow
    BY StreamingAssumption DEF Accounts
  <1> QED
    BY <1>1 DEF Pay

\* Paying into the escrow adds to the escrow's balance of that token and to no other.
LEMMA PayToEscrow ==
    ASSUME NEW b \in [Tokens -> [Accounts -> Int]], NEW t \in Tokens,
           NEW q \in Users, NEW n \in Int, NEW z \in Tokens
    PROVE  Pay(b, t, q, Escrow, n)[z][Escrow]
               = IF z = t THEN b[z][Escrow] + n ELSE b[z][Escrow]
  <1>1. Escrow \in Accounts /\ q \in Accounts /\ q # Escrow
    BY StreamingAssumption DEF Accounts
  <1> QED
    BY <1>1 DEF Pay

\* The types the balance of the escrow is computed with.
LEMMA EscrowBalance ==
    ASSUME TypeOK, NEW t \in Tokens
    PROVE  /\ bal \in [Tokens -> [Accounts -> Int]] /\ bal[t][Escrow] \in Int
           /\ streams \in [Ids -> StreamRecord \cup {None}]
           /\ Escrow \in Accounts /\ Users \subseteq Accounts
  <1>1. /\ bal \in [Tokens -> [Accounts -> Int]]
        /\ streams \in [Ids -> StreamRecord \cup {None}]
    BY DEF TypeOK
  <1>2. Escrow \in Accounts /\ Users \subseteq Accounts
    BY DEF Accounts
  <1> QED
    BY <1>1, <1>2

\* No stream and no balance changes.
LEMMA SameStreamsSolvent ==
    ASSUME IInv, Solvent, UNCHANGED <<streams, bal>>
    PROVE  Solvent'
  BY DEF Solvent, Owed, Live, Ids, LegacyTotalAmount, Duration

\* A deposit covers what the new stream owes, also when it replaces a live one.
LEMMA CreateSolvent ==
    ASSUME IInv, IInv', Solvent,
           NEW u \in Users, NEW r \in Users, NEW t \in Tokens, NEW amount \in Amounts,
           NEW range \in Ranges, NEW op \in Users \cup {None},
           CreateStream(u, r, t, amount, range, op)
    PROVE  Solvent'
  <1> SUFFICES ASSUME NEW z \in Tokens PROVE bal'[z][Escrow] >= Owed(z)'
    BY DEF Solvent
  <1>1. PICK k \in Ids : k = nextStreamId
    <2>1. created < MaxStreams /\ TypeOK
      BY DEF CreateStream, IInv
    <2>2. CountersTyped
      BY <2>1, TypeParts
    <2> QED
      BY <2>1, <2>2, StreamingAssumption DEF CountersTyped, Ids
  <1> DEFINE start == range[1]
             stop == range[2]
             rate == amount \div (stop - start)
             s == [sender |-> u, recipient |-> r, token |-> t, rate |-> rate,
                   start |-> start, stop |-> stop, withdrawn |-> 0, operator |-> op]
  <1>2. /\ start \in Nat /\ stop \in Nat /\ amount \in Nat /\ start < stop
        /\ streams' = [streams EXCEPT ![k] = s]
        /\ bal' = Pay(bal, t, u, Escrow, amount)
    BY <1>1, StreamingAssumption DEF CreateStream
  <1>3. stop - start \in Nat \ {0}
    BY <1>2
  <1>4. rate \in Nat /\ rate * (stop - start) <= amount
    BY <1>2, <1>3, RateTimesDuration
  <1>a. TypeOK
    BY DEF IInv
  <1>5. /\ bal \in [Tokens -> [Accounts -> Int]]
        /\ streams \in [Ids -> StreamRecord \cup {None}]
        /\ bal[z][Escrow] \in Int
    BY <1>a, EscrowBalance
  <1>6. streams'[k] = s /\ \A id \in Ids : id # k => streams'[id] = streams[id]
    BY <1>2, <1>5
  <1>7. s.token = t /\ LegacyTotalAmount(s) - s.withdrawn = rate * (stop - start) - 0
    BY DEF LegacyTotalAmount, Duration
  <1>8. Due(z, k)' <= IF z = t THEN amount ELSE 0
    <2>1. Due(z, k)' \in {0, rate * (stop - start) - 0} /\ (z # t => Due(z, k)' = 0)
      BY <1>6, <1>7 DEF Due, LegacyTotalAmount, Duration
    <2> QED
      BY <1>2, <1>3, <1>4, <2>1
  <1>9. Owed(z)' = Owed(z) - Due(z, k) + Due(z, k)'
    BY <1>6, OwedAfterOne
  <1>10. /\ Owed(z) \in Nat /\ Due(z, k) \in Nat /\ Due(z, k)' \in Nat
    BY OwedFactsHold, OwedFactsNext DEF OwedFacts
  <1>11. bal'[z][Escrow] = IF z = t THEN bal[z][Escrow] + amount ELSE bal[z][Escrow]
    BY <1>2, <1>5, PayToEscrow
  <1>12. bal[z][Escrow] >= Owed(z)
    BY DEF Solvent
  <1> HIDE DEF s, rate, start, stop
  <1> QED
    BY <1>2, <1>5, <1>8, <1>9, <1>10, <1>11, <1>12

\* Naming an operator changes nothing owed.
LEMMA SetOperatorSolvent ==
    ASSUME IInv, IInv', Solvent,
           NEW k \in Ids, NEW op \in Users \cup {None}, SetOperator(k, op)
    PROVE  Solvent'
  <1> SUFFICES ASSUME NEW z \in Tokens PROVE bal'[z][Escrow] >= Owed(z)'
    BY DEF Solvent
  <1> DEFINE s == streams[k]
             y == [s EXCEPT !.operator = op]
  <1>a. TypeOK
    BY DEF IInv
  <1>b. k \in Live /\ streams' = [streams EXCEPT ![k] = y]
    BY DEF SetOperator
  <1>1. /\ s \in StreamRecord /\ s # None
        /\ streams \in [Ids -> StreamRecord \cup {None}]
    BY <1>a, <1>b, LiveRecord
  <1>2. streams'[k] = y /\ \A id \in Ids : id # k => streams'[id] = streams[id]
    <2> HIDE DEF y
    <2> QED
      BY <1>1, <1>b, OneWritten
  <1>3. /\ y.token = s.token /\ y.withdrawn = s.withdrawn /\ y.rate = s.rate
        /\ y.start = s.start /\ y.stop = s.stop
    BY <1>1 DEF StreamRecord
  <1>4. y # None
    <2>1. y \in StreamRecord
      BY <1>1 DEF StreamRecord
    <2> QED
      BY <2>1, NoneIsNoStream
  <1>5. Due(z, k)' = Due(z, k)
    BY <1>1, <1>2, <1>3, <1>4 DEF Due, LegacyTotalAmount, Duration
  <1>6. Owed(z)' = Owed(z) - Due(z, k) + Due(z, k)'
    BY <1>2, OwedAfterOne
  <1>7. Owed(z) \in Nat /\ Due(z, k) \in Nat
    BY OwedFactsHold DEF OwedFacts
  <1>8. bal' = bal /\ bal[z][Escrow] >= Owed(z)
    BY DEF SetOperator, Solvent
  <1> QED
    BY <1>5, <1>6, <1>7, <1>8

\* What a withdrawal takes out of the escrow is owed no more.
LEMMA WithdrawSolvent ==
    ASSUME IInv, IInv', Solvent,
           NEW u \in Users, NEW k \in Ids, NEW amount \in Int, Withdraw(u, k, amount)
    PROVE  Solvent'
  <1> SUFFICES ASSUME NEW z \in Tokens PROVE bal'[z][Escrow] >= Owed(z)'
    BY DEF Solvent
  <1> DEFINE s == streams[k]
             y == [s EXCEPT !.withdrawn = @ + amount]
  <1>a. TypeOK
    BY DEF IInv
  <1>b. /\ k \in Live /\ streams' = [streams EXCEPT ![k] = y]
        /\ bal' = Pay(bal, s.token, Escrow, s.recipient, amount) /\ amount \in Nat
    BY DEF Withdraw, Paid, CanPay
  <1>c. /\ s \in StreamRecord /\ s # None /\ k \in Ids
        /\ streams \in [Ids -> StreamRecord \cup {None}]
    BY <1>a, <1>b, LiveRecord
  <1>1. /\ s \in StreamRecord /\ s # None /\ streams' = [streams EXCEPT ![k] = y]
        /\ bal' = Pay(bal, s.token, Escrow, s.recipient, amount) /\ amount \in Nat
    BY <1>b, <1>c
  <1>2. streams'[k] = y /\ \A id \in Ids : id # k => streams'[id] = streams[id]
    <2> HIDE DEF y
    <2> QED
      BY <1>1, <1>c, OneWritten
  <1>3. /\ y.token = s.token /\ y.withdrawn = s.withdrawn + amount /\ y.rate = s.rate
        /\ y.start = s.start /\ y.stop = s.stop
    BY <1>1 DEF StreamRecord
  <1>4. y # None /\ s.withdrawn \in Nat
    <2>1. y \in StreamRecord /\ s.withdrawn \in Nat
      BY <1>1 DEF StreamRecord
    <2> QED
      BY <2>1, NoneIsNoStream
  <1>5. /\ bal \in [Tokens -> [Accounts -> Int]] /\ bal[z][Escrow] \in Int
        /\ s.token \in Tokens /\ s.recipient \in Users
    BY <1>1, <1>a, EscrowBalance DEF StreamRecord
  <1>6. Due(z, k)' = IF z = s.token THEN Due(z, k) - amount ELSE Due(z, k)
    <2>1. LegacyTotalAmount(y) = LegacyTotalAmount(s) /\ LegacyTotalAmount(s) \in Int
      BY <1>1, <1>3 DEF LegacyTotalAmount, Duration, StreamRecord
    <2> DEFINE all == LegacyTotalAmount(s)
    <2>2. Due(z, k) = IF s.token = z THEN all - s.withdrawn ELSE 0
      BY <1>1 DEF Due
    <2>3. Due(z, k)' = IF s.token = z THEN all - (s.withdrawn + amount) ELSE 0
      <3>1. Due(z, k)' = IF streams'[k] # None /\ streams'[k].token = z
                         THEN LegacyTotalAmount(streams'[k]) - streams'[k].withdrawn
                         ELSE 0
        BY DEF Due, LegacyTotalAmount, Duration
      <3> QED
        BY <1>2, <1>3, <1>4, <2>1, <3>1
    <2> HIDE DEF all, s, y
    <2> QED
      BY <1>1, <1>4, <2>1, <2>2, <2>3 DEF all
  <1>7. Owed(z)' = Owed(z) - Due(z, k) + Due(z, k)'
    BY <1>2, OwedAfterOne
  <1>8. Owed(z) \in Nat /\ Due(z, k) \in Nat /\ Due(z, k)' \in Nat
    BY OwedFactsHold, OwedFactsNext DEF OwedFacts
  <1>9. bal'[z][Escrow]
          = IF z = s.token THEN bal[z][Escrow] - amount ELSE bal[z][Escrow]
    BY <1>1, <1>5, PayFromEscrow
  <1>10. bal[z][Escrow] >= Owed(z)
    BY DEF Solvent
  <1> HIDE DEF s, y
  <1> QED
    BY <1>1, <1>5, <1>6, <1>7, <1>8, <1>9, <1>10

\* What a cancellation takes out of the escrow is at most what the stream was owed.
LEMMA CancelSolvent ==
    ASSUME IInv, IInv', Solvent,
           NEW u \in Users, NEW k \in Ids, CancelStream(u, k)
    PROVE  Solvent'
  <1> SUFFICES ASSUME NEW z \in Tokens PROVE bal'[z][Escrow] >= Owed(z)'
    BY DEF Solvent
  <1> DEFINE s == streams[k]
             due == BalanceOf(s, ledger)
             refund == Refund(s, ledger)
             paid == Pay(bal, s.token, Escrow, s.recipient, due)
  <1>a. TypeOK
    BY DEF IInv
  <1>c. /\ k \in Live /\ streams' = [streams EXCEPT ![k] = None]
        /\ due \in Nat /\ refund \in Nat
        /\ bal' = Pay(paid, s.token, Escrow, s.sender, refund)
    BY DEF CancelStream, CanPay
  <1>d. /\ s \in StreamRecord /\ s # None
        /\ streams \in [Ids -> StreamRecord \cup {None}]
    BY <1>a, <1>c, LiveRecord
  <1>1. /\ s \in StreamRecord /\ s # None /\ streams' = [streams EXCEPT ![k] = None]
        /\ due \in Nat /\ refund \in Nat
        /\ bal' = Pay(paid, s.token, Escrow, s.sender, refund)
    BY <1>c, <1>d
  <1>2. streams'[k] = None /\ \A id \in Ids : id # k => streams'[id] = streams[id]
    BY <1>1, <1>d, OneWritten
  <1>3. /\ bal \in [Tokens -> [Accounts -> Int]] /\ bal[z][Escrow] \in Int
        /\ s.token \in Tokens /\ s.recipient \in Users /\ s.sender \in Users
        /\ Escrow \in Accounts /\ s.withdrawn \in Nat
        /\ LegacyTotalAmount(s) \in Int
    <2>1. s.rate \in Int /\ s.start \in Int /\ s.stop \in Int
      BY <1>1 DEF StreamRecord
    <2>2. LegacyTotalAmount(s) \in Int
      BY <2>1 DEF LegacyTotalAmount, Duration
    <2> QED
      BY <1>1, <1>a, <2>2, EscrowBalance DEF StreamRecord
  <1>4. due + refund = LegacyTotalAmount(s) - s.withdrawn
    BY <1>1, <1>3 DEF Refund
  <1>5. Due(z, k)' = 0
    BY <1>2 DEF Due
  <1>6. Due(z, k) = IF z = s.token THEN due + refund ELSE 0
    BY <1>1, <1>4 DEF Due
  <1>7. Owed(z)' = Owed(z) - Due(z, k) + Due(z, k)'
    BY <1>2, OwedAfterOne
  <1>8. Owed(z) \in Nat /\ Due(z, k) \in Nat
    BY OwedFactsHold DEF OwedFacts
  <1>b. due \in Int /\ refund \in Int
    BY <1>1
  <1>9. paid \in [Tokens -> [Accounts -> Int]]
    <2>1. s.recipient \in Accounts
      BY <1>3 DEF Accounts
    <2> HIDE DEF s, due
    <2> QED
      BY <1>b, <1>3, <2>1, PayType
  <1>10. paid[z][Escrow] = IF z = s.token THEN bal[z][Escrow] - due ELSE bal[z][Escrow]
    BY <1>1, <1>3, PayFromEscrow
  <1> HIDE DEF s, due, refund, paid
  <1>11. bal'[z][Escrow]
           = IF z = s.token THEN paid[z][Escrow] - refund ELSE paid[z][Escrow]
    BY <1>1, <1>3, <1>9, <1>b, PayFromEscrow
  <1>12. bal[z][Escrow] >= Owed(z)
    BY DEF Solvent
  <1> QED
    BY <1>1, <1>3, <1>5, <1>6, <1>7, <1>8, <1>10, <1>11, <1>12

\* A batch takes out of each token what its withdrawals take out of the streams.
LEMMA BatchSolvent ==
    ASSUME IInv, IInv', Solvent,
           NEW ids \in SUBSET Ids, NEW batch \in [ids -> Withdrawable],
           WithdrawFromMultiple(ids, batch)
    PROVE  Solvent'
  <1> SUFFICES ASSUME NEW z \in Tokens PROVE bal'[z][Escrow] >= Owed(z)'
    BY DEF Solvent
  <1> DEFINE total == SumFunction(batch)
             first == streams[CHOOSE id \in ids : TRUE]
             take == [id \in Ids |-> IF z = first.token /\ id \in ids THEN batch[id] ELSE 0]
             y(id) == [streams[id] EXCEPT !.withdrawn = @ + batch[id]]
  <1>1. /\ ids # {} /\ ids \subseteq Live
        /\ \A id \in ids : streams[id].token = first.token
        /\ total \in Nat
        /\ streams' = [id \in Ids |-> IF id \in ids THEN y(id) ELSE streams[id]]
        /\ bal' = Pay(bal, first.token, Escrow, first.recipient, total)
    BY DEF WithdrawFromMultiple, CanPay, Paid
  <1>a. TypeOK
    BY DEF IInv
  <1>2. first \in StreamRecord
    <2>1. (CHOOSE id \in ids : TRUE) \in Live
      BY <1>1
    <2> QED
      BY <1>a, <2>1, LiveRecord
  <1>3. /\ bal \in [Tokens -> [Accounts -> Int]] /\ bal[z][Escrow] \in Int
        /\ first.token \in Tokens /\ first.recipient \in Users
        /\ streams \in [Ids -> StreamRecord \cup {None}]
    BY <1>2, <1>a, EscrowBalance DEF StreamRecord
  <1>4. \A id \in ids : batch[id] \in Nat
    BY DEF Withdrawable
  <1>5. ASSUME NEW id \in Ids
        PROVE  Due(z, id)' = Due(z, id) - take[id] /\ take[id] \in Int
    <2>1. CASE id \in ids
      <3> DEFINE s == streams[id]
                 all == LegacyTotalAmount(s)
      <3>1. s \in StreamRecord /\ s # None /\ streams'[id] = y(id) /\ batch[id] \in Nat
        BY <1>1, <1>3, <1>4, <2>1 DEF Live
      <3>2. /\ y(id).token = s.token /\ y(id).withdrawn = s.withdrawn + batch[id]
            /\ y(id).rate = s.rate /\ y(id).start = s.start /\ y(id).stop = s.stop
            /\ y(id) \in StreamRecord
        BY <3>1 DEF StreamRecord
      <3>3. all \in Int /\ s.withdrawn \in Int /\ s.token = first.token
        BY <1>1, <2>1, <3>1 DEF StreamRecord, LegacyTotalAmount, Duration
      <3>4. /\ Due(z, id) = IF s.token = z THEN all - s.withdrawn ELSE 0
            /\ Due(z, id)' = IF s.token = z THEN all - (s.withdrawn + batch[id]) ELSE 0
        BY <3>1, <3>2, NoneIsNoStream DEF Due, LegacyTotalAmount, Duration
      <3>5. take[id] = IF z = s.token THEN batch[id] ELSE 0
        BY <2>1, <3>3
      <3> HIDE DEF s, all, take, first
      <3> QED
        BY <3>1, <3>3, <3>4, <3>5
    <2>2. CASE id \notin ids
      <3>1. streams'[id] = streams[id] /\ take[id] = 0 /\ Due(z, id) \in Nat
        BY <1>1, <2>2, DueTyped
      <3>2. Due(z, id)' = Due(z, id)
        BY <3>1 DEF Due
      <3> HIDE DEF take
      <3> QED
        BY <3>1, <3>2
    <2> QED
      BY <2>1, <2>2
  <1>6. SumFunctionOnSet(take, Ids) = IF z = first.token THEN total ELSE 0
    <2>1. CASE z = first.token
      <3>1. (\A id \in ids : batch[id] \in Int /\ take[id] = batch[id])
            /\ (\A id \in Ids \ ids : take[id] = 0)
        BY <1>4, <2>1
      <3>2. total = SumFunctionOnSet(batch, ids)
        BY SumOfFunction
      <3> HIDE DEF take, total
      <3>3. SumFunctionOnSet(take, Ids) = SumFunctionOnSet(batch, ids)
        BY <3>1, IdsFinite, SumPadded
      <3> QED
        BY <2>1, <3>2, <3>3
    <2>2. CASE z # first.token
      <3>1. \A id \in Ids : take[id] = 0
        BY <2>2
      <3> HIDE DEF take
      <3> QED
        BY <2>2, <3>1, IdsFinite, SumOfZeros
    <2> QED
      BY <2>1, <2>2
  <1>7. Owed(z)' = Owed(z) - SumFunctionOnSet(take, Ids)
    <2> DEFINE f == Dues(z)
               h == Dues(z)'
    <2>1. \A id \in Ids : f[id] \in Int /\ take[id] \in Int /\ h[id] = f[id] - take[id]
      BY <1>5, DueTyped DEF Dues
    <2>2. Owed(z) = SumFunctionOnSet(f, Ids) /\ Owed(z)' = SumFunctionOnSet(h, Ids)
      BY OwedIsDues, OwedFactsNext DEF OwedFacts
    <2> HIDE DEF f, h, take
    <2> QED
      BY <2>1, <2>2, IdsFinite, SumOfDifferences
  <1>8. bal'[z][Escrow]
          = IF z = first.token THEN bal[z][Escrow] - total ELSE bal[z][Escrow]
    BY <1>1, <1>3, PayFromEscrow
  <1>9. bal[z][Escrow] >= Owed(z) /\ Owed(z) \in Nat
    BY OwedFactsHold DEF OwedFacts, Solvent
  <1> HIDE DEF total, first, take
  <1> QED
    BY <1>1, <1>3, <1>6, <1>7, <1>8, <1>9

\* At first nothing is owed.
LEMMA InitSolvent == Init => Solvent
  <1> SUFFICES ASSUME Init, NEW t \in Tokens PROVE bal[t][Escrow] >= Owed(t)
    BY DEF Solvent
  <1>1. IInv
    BY InitIInv
  <1>2. \A id \in Ids : Dues(t)[id] = 0
    BY DEF Init, Dues, Due
  <1>3. Owed(t) = 0
    BY <1>1, <1>2, IdsFinite, OwedIsDues, SumOfZeros
  <1>4. bal[t][Escrow] = 0
    BY DEF Init, Accounts
  <1> QED
    BY <1>3, <1>4

\* Every entry point keeps the escrow solvent.
LEMMA NextSolvent == IInv /\ IInv' /\ Solvent /\ [Next]_vars => Solvent'
  <1> SUFFICES ASSUME IInv, IInv', Solvent, [Next]_vars PROVE Solvent'
    OBVIOUS
  <1>1. ASSUME \/ CloseLedger
               \/ \E a \in Users : Initialize(a) \/ SetTreasury(a)
               \/ \E fee \in FeeChoices : SetFeeBasisPoints(fee)
               \/ UNCHANGED vars
        PROVE  Solvent'
    <2>1. UNCHANGED <<streams, bal>>
      BY <1>1 DEF CloseLedger, Initialize, SetTreasury, SetFeeBasisPoints, vars
    <2> QED
      BY <2>1, SameStreamsSolvent
  <1>2. ASSUME NEW u \in Users, NEW id \in Ids, NEW amount \in Withdrawable,
               Withdraw(u, id, amount)
        PROVE  Solvent'
    BY <1>2, WithdrawSolvent, amount \in Int DEF Withdrawable
  <1> QED
    BY <1>1, <1>2, CreateSolvent, SetOperatorSolvent, BatchSolvent, CancelSolvent
       DEF Next

\* For every instance: the contract always holds what all its live streams of a
\* token may still be owed, through overwritten identifiers, batches and
\* cancellations (lib.rs:61-340).
THEOREM EscrowSolvent == Spec => []Solvent
  <1> QED
    BY InitIInv, NextIInv, InitSolvent, NextSolvent, PTL DEF Spec

-----------------------------------------------------------------------------
(* What accrued is kept. *)

\* What a recipient is entitled to is a number.
LEMMA EntitledTyped ==
    ASSUME IInv, NEW k \in Ids
    PROVE  Entitled(k) \in Int
  <1>1. received[k] \in Nat /\ ledger \in Nat
    BY TypeParts DEF IInv, HistoryTyped, CountersTyped
  <1>2. CASE k \in Live
    <2>1. streams[k] \in StreamRecord /\ streams[k].withdrawn \in Nat
      BY <1>2, LiveRecord DEF IInv, StreamRecord
    <2>2. LinearStreamed(streams[k], ledger) \in Nat
      BY <1>1, <1>2, <2>1, StreamedBounds DEF IInv, RangesNonEmpty
    <2> QED
      BY <1>1, <1>2, <2>1, <2>2 DEF Entitled, BalanceOf
  <1>3. CASE k \notin Live
    BY <1>1, <1>3 DEF Entitled
  <1> QED
    BY <1>2, <1>3

\* An id whose record and payments stay, in the same ledger, stays entitled.
LEMMA SameEntitled ==
    ASSUME IInv, NEW k \in Ids, streams'[k] = streams[k], received'[k] = received[k],
           ledger' = ledger
    PROVE  Entitled(k)' >= Entitled(k)
  <1>1. Entitled(k)' = Entitled(k)
    BY DEF Entitled, Live
  <1>2. Entitled(k) \in Int
    BY EntitledTyped
  <1> QED
    BY <1>1, <1>2

\* A record that differs in what was withdrawn, by what was paid, entitles to
\* the same.
LEMMA PaidEntitled ==
    ASSUME IInv, NEW k \in Live, NEW n \in Nat,
           streams'[k] = Paid(streams[k], n), received'[k] = received[k] + n,
           ledger' = ledger
    PROVE  Entitled(k)' >= Entitled(k)
  <1> DEFINE s == streams[k]
             z == [s EXCEPT !.withdrawn = s.withdrawn + n]
  <1>1. k \in Ids /\ s \in StreamRecord /\ s # None /\ s.withdrawn \in Nat
    BY LiveRecord DEF IInv, StreamRecord
  <1>2. ledger \in Nat /\ received[k] \in Nat /\ LinearStreamed(s, ledger) \in Nat
    <2>1. HistoryTyped /\ CountersTyped
      BY TypeParts DEF IInv
    <2>2. ledger \in Nat /\ received[k] \in Nat
      BY <1>1, <2>1 DEF HistoryTyped, CountersTyped
    <2> QED
      BY <1>1, <2>2, StreamedBounds DEF IInv, RangesNonEmpty
  <1>3. s.withdrawn + n \in Nat
    BY <1>1
  <1>4. /\ z \in StreamRecord /\ z.withdrawn = s.withdrawn + n
        /\ LinearStreamed(z, ledger) = LinearStreamed(s, ledger)
    BY <1>1, <1>2, <1>3, WithdrawnAside
  <1>5. streams'[k] = z /\ z # None
    BY <1>4, NoneIsNoStream DEF Paid
  <1> HIDE DEF z
  <1>6. Entitled(k)' = received[k] + n + (LinearStreamed(z, ledger) - z.withdrawn)
    BY <1>1, <1>5 DEF Entitled, Live, BalanceOf
  <1>7. Entitled(k) = received[k] + (LinearStreamed(s, ledger) - s.withdrawn)
    BY <1>1 DEF Entitled, Live, BalanceOf
  <1> HIDE DEF s
  <1> QED
    BY <1>1, <1>2, <1>4, <1>6, <1>7

\* The next ledger releases no less.
LEMMA LaterEntitled ==
    ASSUME IInv, NEW k \in Ids, streams'[k] = streams[k], received'[k] = received[k],
           ledger' = ledger + 1
    PROVE  Entitled(k)' >= Entitled(k)
  <1>1. received[k] \in Nat /\ ledger \in Nat
    BY TypeParts DEF IInv, HistoryTyped, CountersTyped
  <1>2. CASE streams[k] = None
    BY <1>1, <1>2 DEF Entitled, Live
  <1>3. CASE streams[k] # None
    <2>1. k \in Live /\ streams[k] \in StreamRecord /\ streams[k].withdrawn \in Nat
      BY <1>3, LiveRecord DEF IInv, Live, StreamRecord
    <2>2. /\ LinearStreamed(streams[k], ledger) \in Nat
          /\ LinearStreamed(streams[k], ledger + 1) \in Nat
          /\ LinearStreamed(streams[k], ledger) <= LinearStreamed(streams[k], ledger + 1)
      BY <1>1, <2>1, StreamedBounds, ledger + 1 \in Nat DEF IInv, RangesNonEmpty
    <2>3. Entitled(k)' = received[k] + (LinearStreamed(streams[k], ledger + 1) - streams[k].withdrawn)
      BY <1>3 DEF Entitled, Live, BalanceOf
    <2>4. Entitled(k) = received[k] + (LinearStreamed(streams[k], ledger) - streams[k].withdrawn)
      BY <1>3 DEF Entitled, Live, BalanceOf
    <2> QED
      BY <1>1, <2>1, <2>2, <2>3, <2>4
  <1> QED
    BY <1>2, <1>3

\* A change of operator releases as much.
LEMMA OperatorEntitled ==
    ASSUME IInv, NEW k \in Live, NEW op \in Users \cup {None},
           streams'[k] = [streams[k] EXCEPT !.operator = op], received'[k] = received[k],
           ledger' = ledger
    PROVE  Entitled(k)' >= Entitled(k)
  <1>1. k \in Ids /\ streams[k] \in StreamRecord /\ streams[k] # None
    BY LiveRecord DEF IInv
  <1>2. streams'[k] \in StreamRecord
    BY <1>1 DEF StreamRecord
  <1>3. streams'[k] # None
    BY <1>2, NoneIsNoStream
  <1>4. BalanceOf(streams'[k], ledger) = BalanceOf(streams[k], ledger)
    BY <1>1 DEF StreamRecord, BalanceOf, LinearStreamed, Elapsed, Duration
  <1>5. Entitled(k)' = Entitled(k)
    BY <1>1, <1>3, <1>4 DEF Entitled, Live, BalanceOf, LinearStreamed, Elapsed, Duration
  <1>6. Entitled(k) \in Int
    BY <1>1, EntitledTyped
  <1> QED
    BY <1>5, <1>6

\* A cancellation pays what could have been withdrawn.
LEMMA CancelEntitled ==
    ASSUME IInv, NEW k \in Live, streams'[k] = None,
           received'[k] = received[k] + BalanceOf(streams[k], ledger)
    PROVE  Entitled(k)' >= Entitled(k)
  <1>1. Entitled(k)' = received[k] + BalanceOf(streams[k], ledger) + 0
    BY DEF Entitled, Live
  <1>2. Entitled(k) = received[k] + BalanceOf(streams[k], ledger)
    BY DEF Entitled
  <1>3. Entitled(k) \in Int
    BY EntitledTyped DEF Live
  <1> QED
    BY <1>1, <1>2, <1>3

\* For every instance: no step takes back what had accrued to a recipient,
\* but the creation of a stream under an id in use (lib.rs:61-340).
THEOREM AccrualNeverLost == Spec => AccrualIsKept
  <1>1. ASSUME IInv, Next, NEW k \in Ids, created' = created \/ k # nextStreamId
        PROVE  Entitled(k)' >= Entitled(k)
    <2>1. StreamsTyped /\ HistoryTyped
      BY <1>1, TypeParts DEF IInv
    <2>2. CASE CloseLedger
      BY <1>1, <2>2, LaterEntitled DEF CloseLedger, history
    <2>3. CASE \/ \E a \in Users : Initialize(a) \/ SetTreasury(a)
               \/ \E fee \in FeeChoices : SetFeeBasisPoints(fee)
      <3>1. UNCHANGED <<streams, received, ledger>>
        BY <2>3 DEF Initialize, SetTreasury, SetFeeBasisPoints, history
      <3> QED
        BY <1>1, <3>1, SameEntitled
    <2>4. ASSUME NEW u \in Users, NEW r \in Users, NEW t \in Tokens,
                 NEW amount \in Amounts, NEW range \in Ranges,
                 NEW op \in Users \cup {None}, CreateStream(u, r, t, amount, range, op)
          PROVE  Entitled(k)' >= Entitled(k)
      <3>1. /\ UNCHANGED <<received, ledger>> /\ created' = created + 1
            /\ \E y : streams' = [streams EXCEPT ![nextStreamId] = y]
        BY <2>4 DEF CreateStream
      <3>2. created \in Nat
        BY <1>1, TypeParts DEF IInv, CountersTyped
      <3>3. k # nextStreamId
        BY <1>1, <3>1, <3>2
      <3>4. streams'[k] = streams[k]
        BY <2>1, <3>1, <3>3 DEF StreamsTyped
      <3> QED
        BY <1>1, <3>1, <3>4, SameEntitled
    <2>5. ASSUME NEW id \in Ids, NEW op \in Users \cup {None}, SetOperator(id, op)
          PROVE  Entitled(k)' >= Entitled(k)
      <3>1. /\ UNCHANGED <<received, ledger>> /\ id \in Live
            /\ streams' = [streams EXCEPT ![id] = [streams[id] EXCEPT !.operator = op]]
        BY <2>5 DEF SetOperator, history
      <3>2. CASE k = id
        <4>1. streams'[k] = [streams[k] EXCEPT !.operator = op]
          BY <2>1, <3>1, <3>2 DEF StreamsTyped
        <4> QED
          BY <1>1, <3>1, <3>2, <4>1, OperatorEntitled
      <3>3. CASE k # id
        <4>1. streams'[k] = streams[k]
          BY <2>1, <3>1, <3>3 DEF StreamsTyped
        <4> QED
          BY <1>1, <3>1, <4>1, SameEntitled
      <3> QED
        BY <3>2, <3>3
    <2>6. ASSUME NEW u \in Users, NEW id \in Ids, NEW amount \in Withdrawable,
                 Withdraw(u, id, amount)
          PROVE  Entitled(k)' >= Entitled(k)
      <3>1. /\ ledger' = ledger /\ id \in Live /\ amount \in Nat
            /\ streams' = [streams EXCEPT ![id] = Paid(streams[id], amount)]
            /\ received' = [received EXCEPT ![id] = received[id] + amount]
        BY <2>6 DEF Withdraw, CanPay
      <3>2. CASE k = id
        <4>1. streams'[k] = Paid(streams[k], amount) /\ received'[k] = received[k] + amount
          BY <2>1, <3>1, <3>2 DEF StreamsTyped, HistoryTyped
        <4> QED
          BY <1>1, <3>1, <3>2, <4>1, PaidEntitled
      <3>3. CASE k # id
        <4>1. streams'[k] = streams[k] /\ received'[k] = received[k]
          BY <2>1, <3>1, <3>3 DEF StreamsTyped, HistoryTyped
        <4> QED
          BY <1>1, <3>1, <4>1, SameEntitled
      <3> QED
        BY <3>2, <3>3
    <2>7. ASSUME NEW ids \in SUBSET Ids, NEW batch \in [ids -> Withdrawable],
                 WithdrawFromMultiple(ids, batch)
          PROVE  Entitled(k)' >= Entitled(k)
      <3>1. /\ ledger' = ledger /\ ids \subseteq Live
            /\ streams'[k] = IF k \in ids THEN Paid(streams[k], batch[k]) ELSE streams[k]
            /\ received'[k] = received[k] + (IF k \in ids THEN batch[k] ELSE 0)
        BY <2>7 DEF WithdrawFromMultiple
      <3>2. CASE k \in ids
        <4>1. batch[k] \in Nat
          BY <3>2 DEF Withdrawable
        <4> QED
          BY <1>1, <3>1, <3>2, <4>1, PaidEntitled
      <3>3. CASE k \notin ids
        <4>1. received[k] \in Nat
          BY <2>1 DEF HistoryTyped
        <4>2. received'[k] = received[k]
          BY <3>1, <3>3, <4>1
        <4> QED
          BY <1>1, <3>1, <3>3, <4>2, SameEntitled
      <3> QED
        BY <3>2, <3>3
    <2>8. ASSUME NEW u \in Users, NEW id \in Ids, CancelStream(u, id)
          PROVE  Entitled(k)' >= Entitled(k)
      <3>1. /\ ledger' = ledger /\ id \in Live
            /\ streams' = [streams EXCEPT ![id] = None]
            /\ received' = [received EXCEPT ![id] = received[id] + BalanceOf(streams[id], ledger)]
        BY <2>8 DEF CancelStream
      <3>2. CASE k = id
        <4>1. /\ streams'[k] = None
              /\ received'[k] = received[k] + BalanceOf(streams[k], ledger)
          BY <2>1, <3>1, <3>2 DEF StreamsTyped, HistoryTyped
        <4> QED
          BY <1>1, <3>1, <3>2, <4>1, CancelEntitled
      <3>3. CASE k # id
        <4>1. streams'[k] = streams[k] /\ received'[k] = received[k]
          BY <2>1, <3>1, <3>3 DEF StreamsTyped, HistoryTyped
        <4> QED
          BY <1>1, <3>1, <4>1, SameEntitled
      <3> QED
        BY <3>2, <3>3
    <2> QED
      BY <1>1, <2>2, <2>3, <2>4, <2>5, <2>6, <2>7, <2>8 DEF Next
  <1>2. IInv /\ [Next]_vars
          => [\A id \in Ids : created' = created \/ id # nextStreamId
                => Entitled(id)' >= Entitled(id)]_vars
    BY <1>1
  <1> QED
    BY <1>2, InitIInv, NextIInv, PTL DEF Spec, AccrualIsKept
=============================================================================
