---------------------------- MODULE CreditsProofs ----------------------------
(***************************************************************************)
(* What the statistics of DEIChain owe to the ledger, for any number of    *)
(* generators, miners and validators: the credits of a miner, with those   *)
(* still in the queue, are the rewards of some of its blocks in the        *)
(* ledger, each block once, and of none that a validator has not reported; *)
(* and a block that is started is never counted twice.                     *)
(***************************************************************************)
EXTENDS PoolProofs

-----------------------------------------------------------------------------
(* The credits in a queue and the worth of a ledger, as sums.              *)

CreditOf(msg, m) ==
  IF msg.miner_id = m /\ msg.block_index # -1 THEN msg.earned_amount ELSE 0

CreditsIn(q, m) == SumTo([k \in 1..Len(q) |-> CreditOf(q[k], m)], Len(q))

WorthOf(b, m) == IF b.txb_id[1] = m THEN BlockRewards(b) ELSE 0

Worth(bs, m, P) ==
  [i \in 1..(BLOCKCHAIN_BLOCKS - 1) |-> IF i \in P THEN WorthOf(bs[i], m) ELSE 0]

WorthIn(bs, m, P) == SumTo(Worth(bs, m, P), BLOCKCHAIN_BLOCKS - 1)

LEMMA CreditsSentIn ==
  ASSUME NEW m \in Miners
  PROVE  /\ CreditsSent(m) = CreditsIn(mq, m)
         /\ CreditsSent(m)' = CreditsIn(mq', m)
BY DEF CreditsSent, CreditsIn, CreditOf, SumTo

LEMMA RewardsOfIn ==
  ASSUME NEW m \in Miners, NEW P
  PROVE  /\ RewardsOf(m, P) = WorthIn(blocks, m, P)
         /\ RewardsOf(m, P)' = WorthIn(blocks', m, P)
<1>1. \A bs : Worth(bs, m, P)
                = [i \in 1..(BLOCKCHAIN_BLOCKS - 1) |->
                     IF i \in P /\ bs[i].txb_id[1] = m THEN BlockRewards(bs[i]) ELSE 0]
  BY DEF Worth, WorthOf
<1>2. RewardsOf(m, P) = WorthIn(blocks, m, P)
  BY <1>1 DEF RewardsOf, WorthIn
<1>3. RewardsOf(m, P)' = WorthIn(blocks', m, P)
  <2>1. RewardsOf(m, P)'
          = SumTo([i \in 1..(BLOCKCHAIN_BLOCKS - 1) |->
                     IF i \in P /\ blocks'[i].txb_id[1] = m
                       THEN BlockRewards(blocks'[i]) ELSE 0], BLOCKCHAIN_BLOCKS - 1)
    BY DEF RewardsOf, SumTo, BlockRewards
  <2>2. QED
    BY <1>1, <2>1 DEF WorthIn
<1>4. QED
  BY <1>2, <1>3

(* A message adds its credit to the queue that it enters.                  *)
LEMMA CreditsAppend ==
  ASSUME NEW q \in Seq(StatisticsMessage), NEW msg \in StatisticsMessage,
         NEW m \in Miners
  PROVE  /\ CreditsIn(q, m) \in Int /\ CreditOf(msg, m) \in Int
         /\ CreditsIn(Append(q, msg), m) = CreditsIn(q, m) + CreditOf(msg, m)
<1> DEFINE n == Len(q)
           r == Append(q, msg)
           h == [k \in 1..n |-> CreditOf(q[k], m)]
           g == [k \in 1..(n + 1) |-> CreditOf(r[k], m)]
<1>1. n \in Nat /\ Len(r) = n + 1 /\ r[n + 1] = msg
      /\ \A k \in 1..n : r[k] = q[k] /\ q[k] \in StatisticsMessage
  OBVIOUS
<1>2. CreditOf(msg, m) \in Int /\ \A k \in 1..n : CreditOf(q[k], m) \in Int
  BY <1>1 DEF StatisticsMessage, CreditOf
<1>3. CreditsIn(q, m) = SumTo(h, n)
  BY DEF CreditsIn
<1>4. CreditsIn(r, m) = SumTo(g, n + 1)
  BY <1>1 DEF CreditsIn
<1> HIDE DEF n, r
<1>5. \A k \in 1..n : h[k] \in Int /\ g[k] = h[k] /\ k \in 1..(n + 1)
  BY <1>1, <1>2
<1>6. g[n + 1] = CreditOf(msg, m)
  BY <1>1
<1> HIDE DEF g, h
<1>7. \A k \in 1..(n + 1) : g[k] \in Int
  BY <1>1, <1>2, <1>5, <1>6
<1>8. SumTo(g, n + 1) = SumTo(g, n) + g[n + 1]
  BY <1>1, <1>7, SumNext
<1>9. SumTo(h, n) = SumTo(g, n) /\ SumTo(h, n) \in Int
  BY <1>1, <1>5, SumSame, SumType
<1>10. QED
  BY <1>2, <1>3, <1>4, <1>6, <1>8, <1>9 DEF r

(* ... and takes it from the queue that it leaves.                         *)
LEMMA CreditsTail ==
  ASSUME NEW q \in Seq(StatisticsMessage), q # <<>>, NEW m \in Miners
  PROVE  /\ Head(q) \in StatisticsMessage
         /\ CreditOf(Head(q), m) \in Int /\ CreditsIn(Tail(q), m) \in Int
         /\ CreditsIn(q, m) = CreditOf(Head(q), m) + CreditsIn(Tail(q), m)
<1> DEFINE n == Len(q) - 1
           r == Tail(q)
           h == [k \in 1..(n + 1) |-> CreditOf(q[k], m)]
           g == [k \in 1..n |-> CreditOf(r[k], m)]
<1>1. /\ n \in Nat /\ Len(q) = n + 1 /\ Len(r) = n /\ Head(q) = q[1]
      /\ \A k \in 1..n : r[k] = q[k + 1]
      /\ \A k \in 1..(n + 1) : q[k] \in StatisticsMessage
  OBVIOUS
<1>2. CreditsIn(q, m) = SumTo(h, n + 1)
  BY <1>1 DEF CreditsIn
<1>3. CreditsIn(r, m) = SumTo(g, n)
  BY <1>1 DEF CreditsIn
<1> HIDE DEF n, r
<1>4. ASSUME NEW k \in 1..(n + 1) PROVE CreditOf(q[k], m) \in Int
  <2>1. q[k] \in StatisticsMessage
    BY <1>1
  <2>2. QED
    BY <2>1 DEF StatisticsMessage, CreditOf
<1>5. h[1] = CreditOf(q[1], m) /\ 1 \in 1..(n + 1)
  BY <1>1
<1>6. \A k \in 1..n : g[k] = h[k + 1] /\ k + 1 \in 1..(n + 1)
  BY <1>1
<1>7. \A k \in 1..(n + 1) : h[k] \in Int
  BY <1>4
<1> HIDE DEF g, h
<1>8. SumTo(h, n + 1) = h[1] + SumTo(g, n)
  BY <1>1, <1>6, <1>7, SumShift
<1>9. SumTo(g, n) \in Int
  BY <1>1, <1>6, <1>7, SumType
<1>10. QED
  BY <1>1, <1>2, <1>3, <1>4, <1>5, <1>8, <1>9 DEF r

(* The worth of a part of the ledger depends on its blocks alone.          *)
LEMMA WorthSame ==
  ASSUME NEW bs, NEW cs, NEW m, NEW P, \A i \in P : bs[i] = cs[i]
  PROVE  WorthIn(bs, m, P) = WorthIn(cs, m, P)
<1>1. Worth(bs, m, P) = Worth(cs, m, P)
  BY DEF Worth
<1>2. QED
  BY <1>1 DEF WorthIn

LEMMA WorthEmpty ==
  ASSUME NEW bs, NEW m
  PROVE  WorthIn(bs, m, {}) = 0
<1> DEFINE n == BLOCKCHAIN_BLOCKS - 1
           f == [i \in 0..n |-> 0]
<1>1. n \in Nat
  BY ConfigAssumption
<1>2. Worth(bs, m, {}) = [i \in 1..n |-> 0]
  BY DEF Worth
<1>3. IsSum([i \in 1..n |-> 0], n, f)
  <2>1. \A i \in 0..n : f[i] = IF i = 0 THEN 0 ELSE f[i - 1] + [k \in 1..n |-> 0][i]
    BY <1>1
  <2>2. QED
    BY <2>1 DEF IsSum
<1> DEFINE h == [i \in 1..n |-> 0]
<1>4. SumTo(h, n) = f[n]
  <2> HIDE DEF n, f, h
  <2>1. QED
    BY <1>1, <1>3, SumValue DEF h
<1>5. QED
  BY <1>1, <1>2, <1>4 DEF WorthIn

LEMMA WorthMore ==
  ASSUME NEW bs, NEW m, NEW P, NEW j \in 1..(BLOCKCHAIN_BLOCKS - 1), j \notin P,
         \A i \in P \cup {j} : WorthOf(bs[i], m) \in Int
  PROVE  WorthIn(bs, m, P \cup {j}) = WorthIn(bs, m, P) + WorthOf(bs[j], m)
<1> DEFINE n == BLOCKCHAIN_BLOCKS - 1
           h == Worth(bs, m, P)
           g == Worth(bs, m, P \cup {j})
           d == WorthOf(bs[j], m)
<1>1. n \in Nat /\ j \in 1..n /\ d \in Int
  BY ConfigAssumption
<1>2. \A i \in 1..n : h[i] \in Int
  BY DEF Worth
<1>3. h[j] = 0 /\ g[j] = d
  BY DEF Worth
<1>4. \A i \in 1..n : i # j => g[i] = h[i]
  BY DEF Worth
<1> HIDE DEF n, h, g, d
<1>5. g[j] = h[j] + d
  BY <1>1, <1>3
<1>6. SumTo(g, n) = SumTo(h, n) + d
  BY <1>1, <1>2, <1>4, <1>5, SumPlus
<1>7. QED
  BY <1>6 DEF n, h, g, d, WorthIn

LEMMA WorthLess ==
  ASSUME NEW bs, NEW m, NEW P, NEW Q, P \subseteq Q,
         \A i \in Q : WorthOf(bs[i], m) \in Nat
  PROVE  WorthIn(bs, m, P) <= WorthIn(bs, m, Q)
<1> DEFINE n == BLOCKCHAIN_BLOCKS - 1
           h == Worth(bs, m, P)
           g == Worth(bs, m, Q)
<1>1. n \in Nat
  BY ConfigAssumption
<1>2. \A i \in 1..n : h[i] \in Int /\ g[i] \in Int /\ h[i] <= g[i]
  <2> SUFFICES ASSUME NEW i \in 1..n PROVE h[i] \in Int /\ g[i] \in Int /\ h[i] <= g[i]
    OBVIOUS
  <2>1. CASE i \in Q
    <3>1. g[i] \in Nat /\ h[i] \in {0, g[i]}
      BY <2>1 DEF Worth
    <3>2. QED
      BY <3>1
  <2>2. CASE i \notin Q
    BY <2>2 DEF Worth
  <2>3. QED
    BY <2>1, <2>2
<1> HIDE DEF n, h, g
<1>3. SumTo(h, n) <= SumTo(g, n)
  BY <1>1, <1>2, SumMonotone
<1>4. QED
  BY <1>3 DEF n, h, g, WorthIn

(* Blocks of the ledger lie within it and are worth something.             *)
LEMMA MinedWorth ==
  ASSUME LedgerInv, NEW m \in Miners, NEW i \in Mined
  PROVE  /\ i \in 1..(BLOCKCHAIN_BLOCKS - 1) /\ i \in Nat
         /\ blocks[i] \in TransactionBlock
         /\ EarnedAmount(blocks[i]) = BlockRewards(blocks[i])
         /\ WorthOf(blocks[i], m) \in Nat
<1>1. ledger_count \in Nat /\ ledger_count <= BLOCKCHAIN_BLOCKS
  BY DEF LedgerInv, TypeOK, LedgerTypeOK, LedgerShape, LedgerWithinCapacity
<1>2. i \in 1..(BLOCKCHAIN_BLOCKS - 1)
  BY <1>1, ConfigAssumption DEF Mined, Height
<1>3. blocks[i] \in TransactionBlock
  BY DEF LedgerInv, LedgerShape
<1>4. BlockRewards(blocks[i]) = EarnedAmount(blocks[i]) /\ EarnedAmount(blocks[i]) \in Nat
  BY <1>3, EarnedAmountSum
<1>5. QED
  BY <1>2, <1>3, <1>4 DEF WorthOf

-----------------------------------------------------------------------------
(* The invariant: some blocks of the ledger have been paid, each once, and *)
(* none whose report is still in a validator.                              *)

Reporting == {v \in Validators : vpc[v] = "report"}

(* What a validator is to report is its block, where it was appended.      *)
ReportsKnown ==
  /\ \A v \in Reporting : /\ next_index[v] \in Mined
                          /\ streamed_block[v] = blocks[next_index[v]]
  /\ \A v, w \in Reporting : v # w => next_index[v] # next_index[w]

PaidFor(P) ==
  /\ P \subseteq Mined \ Unreported
  /\ \A m \in Miners : miner_credits[m] + CreditsSent(m) = RewardsOf(m, P)

CreditsInv == LedgerInv /\ ReportsKnown /\ \E P : PaidFor(P)

(* In a step that loses no block a validator lets go of one only with a    *)
(* message about it in the queue: SIGTERM does not find it with a block,   *)
(* no other validator has extended the ledger before it appends, and the   *)
(* queue has room.                                                         *)
BlocksAnswered ==
  \A v \in Validators :
     streamed_block[v] # NoBlock /\ streamed_block'[v] = NoBlock
       => Len(mq') = Len(mq) + 1

LEMMA ReportingIs == Unreported = {next_index[v] : v \in Reporting}
BY DEF Unreported, Reporting

LEMMA IntervalGrows ==
  ASSUME NEW x \in Nat, NEW y \in Nat, y >= x
  PROVE  0..(x - 1) \subseteq 0..(y - 1)
OBVIOUS

LEMMA MinedGrows ==
  ASSUME LedgerInv, [Next]_vars
  PROVE  Mined \subseteq Mined' /\ \A i \in Mined : blocks'[i] = blocks[i]
<1>1. ledger_count' >= ledger_count /\ \A i \in Height : blocks'[i] = blocks[i]
  BY LedgerStep
<1>2. ledger_count \in Nat /\ ledger_count' \in Nat
  BY TypeNext DEF LedgerInv, TypeOK, LedgerTypeOK
<1>3. 0..(ledger_count - 1) \subseteq 0..(ledger_count' - 1)
  <2>1. ledger_count' >= ledger_count
    BY <1>1
  <2>2. QED
    BY ONLY <1>2, <2>1, IntervalGrows
<1>4. QED
  BY <1>1, <1>3 DEF Mined, Height

LEMMA ReportsNext ==
  ASSUME LedgerInv, ReportsKnown, [Next]_vars
  PROVE  ReportsKnown'
<1>0. Mined \subseteq Mined' /\ \A i \in Mined : blocks'[i] = blocks[i]
  BY MinedGrows
<1>1. /\ vpc = [w \in Validators |-> vpc[w]]
      /\ streamed_block = [w \in Validators |-> streamed_block[w]]
      /\ next_index = [w \in Validators |-> next_index[w]]
  BY DEF LedgerInv, TypeOK, ValidatorTypeOK
<1>2. ASSUME \A w \in Reporting' : /\ w \in Reporting
                                   /\ next_index'[w] = next_index[w]
                                   /\ streamed_block'[w] = streamed_block[w]
      PROVE  ReportsKnown'
  BY <1>0, <1>2 DEF ReportsKnown
<1>3. CASE UNCHANGED validatorVars
  BY <1>2, <1>3 DEF validatorVars, Reporting
<1>4. CASE TxGenStep \/ MinerStep \/ StatisticsStep
  BY <1>3, <1>4 DEF TxGenStep, MinerStep, StatisticsStep
<1>5. CASE LauncherStep
  BY <1>1, <1>2, <1>5 DEF LauncherStep, LauncherNext, LauncherFork, LauncherTerminate,
     LauncherReap, LauncherEnd, validatorVars, Reporting
<1>6. CASE ValidatorStep
  <2>1. PICK v \in Validators : ValidatorNext(v)
    BY <1>6 DEF ValidatorStep
  <2>2. CASE ValidatorCommit(v)
    <3>1. CASE ~StillExtendsLedger(streamed_block[v])
      BY <1>1, <1>2, <2>2, <3>1 DEF ValidatorCommit, Reporting
    <3>2. CASE StillExtendsLedger(streamed_block[v])
      <4>1. /\ vpc[v] = "commit" /\ vpc' = [vpc EXCEPT ![v] = "report"]
            /\ next_index' = [next_index EXCEPT ![v] = NextIndex]
            /\ streamed_block' = streamed_block
            /\ blocks' = [blocks EXCEPT ![NextIndex] = streamed_block[v]]
            /\ ledger_count' = ledger_count + 1
        BY <2>2, <3>2 DEF ValidatorCommit
      <4>2. NextIndex = ledger_count /\ NextIndex \in 1..(BLOCKCHAIN_BLOCKS - 1)
        <5>1. v \in Held
          BY <2>2 DEF ValidatorCommit, Held
        <5>2. /\ ledger_count \in Nat \ {0} /\ ledger_count < BLOCKCHAIN_BLOCKS
              /\ last_block_index = ledger_count - 1
          BY <3>2, <5>1, AppendFits
        <5>3. QED
          BY <5>2, ConfigAssumption DEF NextIndex
      <4>3. Reporting' = Reporting \cup {v} /\ v \notin Reporting
        BY <1>1, <4>1 DEF Reporting
      <4>4. \A w \in Reporting : /\ next_index'[w] = next_index[w]
                                 /\ streamed_block'[w] = streamed_block[w]
        BY <1>1, <4>1, <4>3 DEF Reporting
      <4>5. next_index'[v] = ledger_count /\ streamed_block'[v] = streamed_block[v]
        BY <1>1, <4>1, <4>2
      <4>6. ledger_count \in Mined' /\ ledger_count \notin Mined
        BY <4>1, <4>2, ConfigAssumption DEF Mined, Height
      <4>7. blocks'[ledger_count] = streamed_block[v]
        BY <4>1, <4>2, ConfigAssumption DEF LedgerInv, TypeOK, LedgerTypeOK
      <4>8. QED
        BY <1>0, <4>3, <4>4, <4>5, <4>6, <4>7 DEF ReportsKnown
    <3>3. QED
      BY <3>1, <3>2
  <2>3. CASE ValidatorStart(v) \/ ValidatorNemesis(v) \/ ValidatorRead(v)
    BY <1>1, <1>2, <2>3 DEF ValidatorStart, ValidatorNemesis, ValidatorRead, Reporting
  <2>4. CASE ValidatorCheckHash(v)
    <3>1. \/ vpc' = [vpc EXCEPT ![v] = "check_pool"]
          \/ vpc' = [vpc EXCEPT ![v] = "reject"]
      BY <2>4, Zenon DEF ValidatorCheckHash
    <3>2. UNCHANGED <<streamed_block, next_index>>
      BY <2>4 DEF ValidatorCheckHash
    <3>3. QED
      BY <1>1, <1>2, <3>1, <3>2 DEF Reporting
  <2>5. CASE ValidatorCheckPool(v)
    <3>1. \/ vpc' = [vpc EXCEPT ![v] = "commit"]
          \/ vpc' = [vpc EXCEPT ![v] = "reject"]
      BY <2>5, Zenon DEF ValidatorCheckPool
    <3>2. UNCHANGED <<streamed_block, next_index>>
      BY <2>5 DEF ValidatorCheckPool
    <3>3. QED
      BY <1>1, <1>2, <3>1, <3>2 DEF Reporting
  <2>6. CASE ValidatorReport(v)
    BY <1>1, <1>2, <2>6 DEF ValidatorReport, Reporting
  <2>7. CASE ValidatorReject(v)
    BY <1>1, <1>2, <2>7 DEF ValidatorReject, Reporting
  <2>8. CASE ValidatorSigterm(v)
    BY <1>1, <1>2, <2>8 DEF ValidatorSigterm, Reporting
  <2>9. QED
    BY <2>1, <2>2, <2>3, <2>4, <2>5, <2>6, <2>7, <2>8 DEF ValidatorNext
<1>7. CASE UNCHANGED vars
  BY <1>3, <1>7 DEF vars
<1>8. QED
  BY <1>4, <1>5, <1>6, <1>7 DEF Next

-----------------------------------------------------------------------------
(* What has been paid, step by step.  When every block is answered, all of *)
(* the ledger that is not waiting for its report stays paid.               *)

Follows(P, Q) ==
  P = Mined \ Unreported /\ BlocksAnswered => Q = Mined' \ Unreported'

LEMMA PaidSame ==
  ASSUME NEW P, PaidFor(P), mq' = mq, miner_credits' = miner_credits,
         \A i \in P : blocks'[i] = blocks[i], P \subseteq Mined' \ Unreported'
  PROVE  PaidFor(P)'
<1>1. ASSUME NEW m \in Miners
      PROVE  miner_credits'[m] + CreditsSent(m)' = RewardsOf(m, P)'
  <2>1. miner_credits[m] + CreditsSent(m) = RewardsOf(m, P)
    BY DEF PaidFor
  <2>2. CreditsSent(m)' = CreditsSent(m)
    BY CreditsSentIn
  <2>3. WorthIn(blocks', m, P) = WorthIn(blocks, m, P)
    BY WorthSame
  <2>4. RewardsOf(m, P)' = RewardsOf(m, P)
    BY <2>3, RewardsOfIn
  <2>5. QED
    BY <2>1, <2>2, <2>4
<1>2. QED
  BY <1>1 DEF PaidFor

LEMMA PaidReport ==
  ASSUME LedgerInv, ReportsKnown, NEW P, PaidFor(P),
         NEW v \in Validators, ValidatorReport(v), UNCHANGED statisticsVars
  PROVE  \E Q : PaidFor(Q)' /\ Follows(P, Q)
<1>0. PICK j : j = next_index[v]
  OBVIOUS
<1> DEFINE b == streamed_block[v]
           msg == Message(b, j, EarnedAmount(b))
<1>1. /\ vpc = [w \in Validators |-> vpc[w]]
      /\ streamed_block = [w \in Validators |-> streamed_block[w]]
      /\ mq \in Seq(StatisticsMessage)
      /\ \A m \in Miners : miner_credits[m] \in Int
  BY DEF LedgerInv, TypeOK, ValidatorTypeOK, ChannelsTypeOK, StatisticsTypeOK
<1>2. /\ vpc[v] = "report" /\ vpc' = [vpc EXCEPT ![v] = "read"]
      /\ streamed_block' = [streamed_block EXCEPT ![v] = NoBlock]
      /\ mq' = mq_send(msg)
      /\ UNCHANGED <<blocks, ledger_count, next_index, miner_credits>>
  BY <1>0 DEF ValidatorReport, ledgerVars, statisticsVars
<1>3. v \in Reporting /\ j \in Mined /\ b = blocks[j] /\ j \in Unreported
  BY <1>0, <1>2 DEF Reporting, ReportsKnown, Unreported
<1>4. /\ j \in 1..(BLOCKCHAIN_BLOCKS - 1) /\ j \in Nat
      /\ b \in TransactionBlock /\ EarnedAmount(b) = BlockRewards(b)
  BY <1>3, MinedWorth, ConfigAssumption
<1>5. EarnedAmount(b) \in Nat
  BY <1>4, EarnedAmountSum
<1>6. msg \in StatisticsMessage
  BY <1>4, <1>5 DEF Message, StatisticsMessage, TransactionBlock, BlockIds
<1>7. \A m \in Miners : CreditOf(msg, m) = WorthOf(blocks[j], m)
  BY <1>3, <1>4 DEF Message, CreditOf, WorthOf
<1> HIDE DEF msg
<1>8. Mined' = Mined /\ blocks' = blocks
  BY <1>2 DEF Mined, Height
<1>9. Unreported' = Unreported \ {j}
  <2>1. Reporting' = Reporting \ {v}
    BY <1>1, <1>2 DEF Reporting
  <2>2. \A w \in Reporting : w # v => next_index[w] # j
    BY <1>0, <1>3 DEF ReportsKnown
  <2>3. Unreported' = {next_index[w] : w \in Reporting \ {v}}
    BY <1>2, <2>1 DEF Unreported, Reporting
  <2>4. QED
    BY <1>0, <1>3, <2>2, <2>3, ReportingIs
<1>10. P \subseteq Mined \ Unreported
  BY DEF PaidFor
<1> HIDE DEF b
<1>11. CASE Len(mq) < STATISTICS_MQ_SIZE
  <2>1. mq' = Append(mq, msg)
    BY <1>2, <1>11 DEF mq_send
  <2>2. ASSUME NEW m \in Miners
        PROVE  miner_credits'[m] + CreditsSent(m)' = RewardsOf(m, P \cup {j})'
    <3>1. /\ CreditsIn(mq, m) \in Int /\ CreditOf(msg, m) \in Int
          /\ CreditsIn(mq', m) = CreditsIn(mq, m) + CreditOf(msg, m)
      BY <1>1, <1>6, <2>1, CreditsAppend
    <3>2. \A i \in P \cup {j} : WorthOf(blocks[i], m) \in Int
      <4>1. \A i \in Mined : WorthOf(blocks[i], m) \in Nat
        BY MinedWorth
      <4>2. QED
        BY <1>3, <1>10, <4>1
    <3>3. WorthIn(blocks, m, P \cup {j}) = WorthIn(blocks, m, P) + WorthOf(blocks[j], m)
      BY <1>3, <1>4, <1>10, <3>2, WorthMore
    <3>4. miner_credits[m] + CreditsIn(mq, m) = WorthIn(blocks, m, P)
      BY CreditsSentIn, RewardsOfIn DEF PaidFor
    <3>5. CreditOf(msg, m) = WorthOf(blocks[j], m)
      BY <1>7
    <3>6. miner_credits'[m] = miner_credits[m] /\ miner_credits[m] \in Int
      BY <1>1, <1>2
    <3>7. miner_credits'[m] + CreditsIn(mq', m) = WorthIn(blocks, m, P \cup {j})
      BY ONLY <3>1, <3>3, <3>4, <3>5, <3>6
    <3>8. RewardsOf(m, P \cup {j})' = WorthIn(blocks', m, P \cup {j})
      BY RewardsOfIn
    <3>9. QED
      BY <1>2, <1>8, <3>7, <3>8, CreditsSentIn
  <2>3. P \cup {j} \subseteq Mined' \ Unreported'
    BY <1>3, <1>8, <1>9, <1>10
  <2>4. PaidFor(P \cup {j})'
    BY <2>2, <2>3 DEF PaidFor
  <2>5. Follows(P, P \cup {j})
    BY <1>3, <1>8, <1>9 DEF Follows
  <2>6. QED
    BY <2>4, <2>5
<1>12. CASE ~(Len(mq) < STATISTICS_MQ_SIZE)
  <2>1. mq' = mq
    BY <1>2, <1>12 DEF mq_send
  <2>2. PaidFor(P)'
    BY <1>2, <1>8, <1>9, <1>10, <2>1, PaidSame
  <2>3. ~BlocksAnswered
    <3>1. streamed_block[v] # NoBlock /\ streamed_block'[v] = NoBlock
      BY <1>1, <1>2, <1>4, NullAssumption DEF b
    <3>2. Len(mq') # Len(mq) + 1
      BY <1>1, <2>1
    <3>3. QED
      BY <3>1, <3>2 DEF BlocksAnswered
  <2>4. QED
    BY <2>2, <2>3 DEF Follows
<1>13. QED
  BY <1>11, <1>12

LEMMA PaidReject ==
  ASSUME LedgerInv, NEW P, PaidFor(P),
         NEW v \in Validators, ValidatorReject(v), UNCHANGED statisticsVars
  PROVE  PaidFor(P)' /\ Follows(P, P)
<1> DEFINE b == streamed_block[v]
           msg == Message(b, -1, -1)
<1>1. /\ vpc = [w \in Validators |-> vpc[w]]
      /\ streamed_block \in [Validators -> TransactionBlock \cup {NoBlock}]
      /\ mq \in Seq(StatisticsMessage)
      /\ \A m \in Miners : miner_credits[m] \in Int
  BY DEF LedgerInv, TypeOK, ValidatorTypeOK, ChannelsTypeOK, StatisticsTypeOK
<1>2. /\ vpc[v] = "reject" /\ vpc' = [vpc EXCEPT ![v] = "read"]
      /\ mq' = mq_send(msg)
      /\ UNCHANGED <<blocks, ledger_count, next_index, miner_credits>>
  BY DEF ValidatorReject, ledgerVars, statisticsVars
<1>3. b \in TransactionBlock
  BY <1>1, <1>2 DEF LedgerInv, TypeOK, ValidatorTypeOK
<1>4. msg \in StatisticsMessage
  BY <1>3 DEF Message, StatisticsMessage, TransactionBlock, BlockIds
<1>5. \A m \in Miners : CreditOf(msg, m) = 0
  BY DEF Message, CreditOf
<1> HIDE DEF msg, b
<1>6. Mined' = Mined /\ blocks' = blocks
  BY <1>2 DEF Mined, Height
<1>7. Unreported' = Unreported
  <2>1. Reporting' = Reporting
    BY <1>1, <1>2 DEF Reporting
  <2>2. QED
    BY <1>2, <2>1 DEF Unreported, Reporting
<1>8. P \subseteq Mined \ Unreported
  BY DEF PaidFor
<1>9. PaidFor(P)'
  <2>1. CASE Len(mq) < STATISTICS_MQ_SIZE
    <3>1. mq' = Append(mq, msg)
      BY <1>2, <2>1 DEF mq_send
    <3>2. ASSUME NEW m \in Miners
          PROVE  miner_credits'[m] + CreditsSent(m)' = RewardsOf(m, P)'
      <4>1. /\ CreditsIn(mq, m) \in Int
            /\ CreditsIn(mq', m) = CreditsIn(mq, m) + CreditOf(msg, m)
        BY <1>1, <1>4, <3>1, CreditsAppend
      <4>2. CreditsIn(mq', m) = CreditsIn(mq, m)
        BY <1>5, <4>1
      <4>3. miner_credits[m] + CreditsSent(m) = RewardsOf(m, P)
        BY DEF PaidFor
      <4>4. QED
        BY <1>2, <4>2, <4>3, CreditsSentIn, RewardsOfIn
    <3>3. QED
      BY <1>6, <1>7, <1>8, <3>2 DEF PaidFor
  <2>2. CASE ~(Len(mq) < STATISTICS_MQ_SIZE)
    <3>1. mq' = mq
      BY <1>2, <2>2 DEF mq_send
    <3>2. QED
      BY <1>2, <1>6, <1>7, <1>8, <3>1, PaidSame
  <2>3. QED
    BY <2>1, <2>2
<1>10. QED
  BY <1>6, <1>7, <1>9 DEF Follows

LEMMA PaidReceive ==
  ASSUME LedgerInv, NEW P, PaidFor(P), StatisticsStep
  PROVE  PaidFor(P)' /\ Follows(P, P)
<1>1. /\ mq \in Seq(StatisticsMessage)
      /\ miner_credits \in [Miners -> Int]
  BY DEF LedgerInv, TypeOK, ChannelsTypeOK, StatisticsTypeOK
<1>2. /\ mq # <<>> /\ mq' = Tail(mq)
      /\ \/ /\ IsValidBlock(Head(mq))
            /\ miner_credits' = [miner_credits EXCEPT ![Head(mq).miner_id] =
                                   @ + Head(mq).earned_amount]
         \/ ~IsValidBlock(Head(mq)) /\ miner_credits' = miner_credits
      /\ UNCHANGED <<blocks, ledger_count, vpc, next_index>>
  BY DEF StatisticsStep, StatisticsReceive, ledgerVars, validatorVars
<1>3. Mined' = Mined /\ Unreported' = Unreported
  BY <1>2 DEF Mined, Height, Unreported
<1>4. ASSUME NEW m \in Miners
      PROVE  miner_credits'[m] + CreditsSent(m)' = RewardsOf(m, P)'
  <2> DEFINE msg == Head(mq)
  <2>1. /\ msg \in StatisticsMessage
        /\ CreditOf(msg, m) \in Int /\ CreditsIn(mq', m) \in Int
        /\ CreditsIn(mq, m) = CreditOf(msg, m) + CreditsIn(mq', m)
    BY <1>1, <1>2, CreditsTail
  <2>2. miner_credits'[m] = miner_credits[m] + CreditOf(msg, m)
    <3>1. CASE IsValidBlock(msg)
      BY <1>1, <1>2, <2>1, <3>1 DEF IsValidBlock, CreditOf, StatisticsMessage
    <3>2. CASE ~IsValidBlock(msg)
      BY <1>1, <1>2, <3>2 DEF IsValidBlock, CreditOf
    <3>3. QED
      BY <3>1, <3>2
  <2>3. miner_credits[m] + CreditsIn(mq, m) = WorthIn(blocks, m, P)
    BY CreditsSentIn, RewardsOfIn DEF PaidFor
  <2>4. miner_credits[m] \in Int
    BY <1>1
  <2> HIDE DEF msg
  <2>5. miner_credits'[m] + CreditsIn(mq', m) = WorthIn(blocks, m, P)
    BY ONLY <2>1, <2>2, <2>3, <2>4
  <2>6. QED
    BY <1>2, <2>5, CreditsSentIn, RewardsOfIn
<1>5. PaidFor(P)'
  BY <1>3, <1>4 DEF PaidFor
<1>6. QED
  BY <1>3, <1>5 DEF Follows

LEMMA PaidCommit ==
  ASSUME LedgerInv, TypeOK', NEW P, PaidFor(P),
         NEW v \in Validators, ValidatorCommit(v), UNCHANGED statisticsVars
  PROVE  PaidFor(P)' /\ Follows(P, P)
<1>1. /\ vpc = [w \in Validators |-> vpc[w]]
      /\ next_index = [w \in Validators |-> next_index[w]]
      /\ ledger_count \in Nat
  BY DEF LedgerInv, TypeOK, ValidatorTypeOK, LedgerTypeOK
<1>2. vpc[v] = "commit" /\ mq' = mq /\ miner_credits' = miner_credits
  BY DEF ValidatorCommit, statisticsVars
<1>3. P \subseteq Mined \ Unreported
  BY DEF PaidFor
<1>4. CASE ~StillExtendsLedger(streamed_block[v])
  <2>1. /\ UNCHANGED <<blocks, ledger_count, next_index>>
        /\ vpc' = [vpc EXCEPT ![v] = "read"]
    BY <1>4 DEF ValidatorCommit, ledgerVars
  <2>2. Reporting' = Reporting
    BY <1>1, <1>2, <2>1 DEF Reporting
  <2>3. Mined' = Mined /\ Unreported' = Unreported
    BY <2>1, <2>2 DEF Mined, Height, Unreported, Reporting
  <2>4. PaidFor(P)'
    BY <1>2, <1>3, <2>1, <2>3, PaidSame
  <2>5. QED
    BY <2>3, <2>4 DEF Follows
<1>5. CASE StillExtendsLedger(streamed_block[v])
  <2>1. /\ blocks' = [blocks EXCEPT ![NextIndex] = streamed_block[v]]
        /\ ledger_count' = ledger_count + 1
        /\ next_index' = [next_index EXCEPT ![v] = NextIndex]
        /\ vpc' = [vpc EXCEPT ![v] = "report"]
    BY <1>5 DEF ValidatorCommit
  <2>2. v \in Held
    BY <1>2 DEF Held
  <2>3. NextIndex = ledger_count /\ ledger_count # 0
    <3>1. /\ ledger_count \in Nat \ {0}
          /\ last_block_index = ledger_count - 1
      BY <1>5, <2>2, AppendFits
    <3>2. QED
      BY <3>1 DEF NextIndex
  <2>4. ledger_count \notin Mined /\ Mined' = Mined \cup {ledger_count}
    BY <1>1, <2>1, <2>3 DEF Mined, Height
  <2>5. Unreported' = Unreported \cup {ledger_count}
    <3>1. Reporting' = Reporting \cup {v} /\ v \notin Reporting
      BY <1>1, <1>2, <2>1 DEF Reporting
    <3>2. /\ next_index'[v] = ledger_count
          /\ \A w \in Reporting : next_index'[w] = next_index[w]
      BY <1>1, <2>1, <2>3, <3>1 DEF Reporting
    <3>3. Unreported' = {next_index'[w] : w \in Reporting'}
      BY DEF Unreported, Reporting
    <3>4. QED
      BY <3>1, <3>2, <3>3, ReportingIs
  <2>6. \A i \in P : blocks'[i] = blocks[i]
    BY <1>3, <2>1, <2>3, <2>4
  <2>7. Mined' \ Unreported' = Mined \ Unreported
    BY <2>4, <2>5
  <2>8. PaidFor(P)'
    BY <1>2, <1>3, <2>6, <2>7, PaidSame
  <2>9. QED
    BY <2>7, <2>8 DEF Follows
<1>6. QED
  BY <1>4, <1>5

LEMMA PaidNext ==
  ASSUME LedgerInv, ReportsKnown, [Next]_vars, NEW P, PaidFor(P)
  PROVE  \E Q : PaidFor(Q)' /\ Follows(P, Q)
<1>0. TypeOK'
  BY TypeNext DEF LedgerInv
<1>1. /\ vpc = [w \in Validators |-> vpc[w]]
      /\ streamed_block = [w \in Validators |-> streamed_block[w]]
      /\ next_index = [w \in Validators |-> next_index[w]]
  BY DEF LedgerInv, TypeOK, ValidatorTypeOK
<1>queue. Len(mq) \in Nat
  BY DEF LedgerInv, TypeOK, StatisticsTypeOK
<1>reporting. \A w \in Reporting : streamed_block[w] # NoBlock
  BY DEF LedgerInv, TypeOK, ValidatorTypeOK, Reporting
<1>2. P \subseteq Mined \ Unreported
  BY DEF PaidFor
<1>3. ASSUME UNCHANGED <<mq, miner_credits, blocks, ledger_count>>,
             Reporting' = Reporting,
             \A w \in Reporting : next_index'[w] = next_index[w]
      PROVE  \E Q : PaidFor(Q)' /\ Follows(P, Q)
  <2>1. Mined' = Mined
    BY <1>3 DEF Mined, Height
  <2>2. Unreported' = Unreported
    <3>1. Unreported' = {next_index'[w] : w \in Reporting'}
      BY DEF Unreported, Reporting
    <3>2. QED
      BY <1>3, <3>1, ReportingIs
  <2>3. PaidFor(P)'
    BY <1>2, <1>3, <2>1, <2>2, PaidSame
  <2>4. QED
    BY <2>1, <2>2, <2>3 DEF Follows
<1>4. CASE UNCHANGED <<mq, miner_credits, ledgerVars, vpc, next_index>>
  BY <1>3, <1>4 DEF Reporting, ledgerVars
<1>5. CASE TxGenStep
  BY <1>4, <1>5 DEF TxGenStep, TxGenNext, TxGenAdd, TxGenPoolFull, TxGenGetValue,
     TxGenPost, validatorVars, statisticsVars
<1>6. CASE MinerStep
  BY <1>4, <1>6 DEF MinerStep, MinerNext, MinerWake, MinerCheck, MinerSelect,
     MinerReadPrevious, MinerSubmit, validatorVars, statisticsVars
<1>7. CASE ValidatorStep
  <2>1. PICK v \in Validators : ValidatorNext(v)
    BY <1>7 DEF ValidatorStep
  <2>2. UNCHANGED statisticsVars
    BY <1>7 DEF ValidatorStep
  <2>3. CASE ValidatorStart(v) \/ ValidatorRead(v)
    BY <1>1, <1>3, <2>2, <2>3 DEF ValidatorStart, ValidatorRead, Reporting, ledgerVars,
       statisticsVars
  <2>4. CASE ValidatorNemesis(v)
    <3>1. UNCHANGED <<mq, miner_credits, next_index>> /\ Reporting' = Reporting
      BY <1>1, <2>2, <2>4 DEF ValidatorNemesis, statisticsVars, Reporting
    <3>2. CASE LedgerEmpty
      <4>1. ledger_count = 0 /\ ledger_count' = 1
        BY <2>4, <3>2 DEF ValidatorNemesis, LedgerEmpty
      <4>2. Mined = {} /\ Mined' = {}
        BY <4>1 DEF Mined, Height
      <4>3. PaidFor(P)'
        BY <1>2, <3>1, <4>2, PaidSame
      <4>4. P = {}
        BY <1>2, <4>2
      <4>5. QED
        BY <4>2, <4>3, <4>4 DEF Follows
    <3>3. CASE ~LedgerEmpty
      BY <1>3, <2>4, <3>1, <3>3 DEF ValidatorNemesis, ledgerVars
    <3>4. QED
      BY <3>2, <3>3
  <2>5. CASE ValidatorCheckHash(v)
    <3>1. \/ vpc' = [vpc EXCEPT ![v] = "check_pool"]
          \/ vpc' = [vpc EXCEPT ![v] = "reject"]
      BY <2>5, Zenon DEF ValidatorCheckHash
    <3>2. vpc[v] = "check_hash" /\ UNCHANGED <<mq, ledgerVars, next_index>>
      BY <2>5 DEF ValidatorCheckHash
    <3>3. QED
      BY <1>1, <1>3, <2>2, <3>1, <3>2 DEF Reporting, ledgerVars, statisticsVars
  <2>6. CASE ValidatorCheckPool(v)
    <3>1. \/ vpc' = [vpc EXCEPT ![v] = "commit"]
          \/ vpc' = [vpc EXCEPT ![v] = "reject"]
      BY <2>6, Zenon DEF ValidatorCheckPool
    <3>2. vpc[v] = "check_pool" /\ UNCHANGED <<mq, ledgerVars, next_index>>
      BY <2>6 DEF ValidatorCheckPool
    <3>3. QED
      BY <1>1, <1>3, <2>2, <3>1, <3>2 DEF Reporting, ledgerVars, statisticsVars
  <2>7. CASE ValidatorCommit(v)
    BY <1>0, <2>2, <2>7, PaidCommit
  <2>8. CASE ValidatorReport(v)
    BY <2>2, <2>8, PaidReport
  <2>9. CASE ValidatorReject(v)
    BY <2>2, <2>9, PaidReject
  <2>10. CASE ValidatorSigterm(v)
    <3>1. /\ UNCHANGED <<mq, miner_credits, blocks, ledger_count>>
          /\ vpc' = [vpc EXCEPT ![v] = "zombie"]
          /\ streamed_block' = [streamed_block EXCEPT ![v] = NoBlock]
          /\ next_index' = [next_index EXCEPT ![v] = 0]
      BY <2>2, <2>10 DEF ValidatorSigterm, statisticsVars, ledgerVars
    <3>2. Reporting' = Reporting \ {v}
      BY <1>1, <3>1 DEF Reporting
    <3>3. \A w \in Reporting \ {v} : next_index'[w] = next_index[w]
      BY <1>1, <3>1 DEF Reporting
    <3>4. CASE v \notin Reporting
      BY <1>3, <3>1, <3>2, <3>3, <3>4
    <3>5. CASE v \in Reporting
      <4>1. Mined' = Mined
        BY <3>1 DEF Mined, Height
      <4>2. Unreported' \subseteq Unreported
        <5>1. Unreported' = {next_index'[w] : w \in Reporting'}
          BY DEF Unreported, Reporting
        <5>2. QED
          BY <3>2, <3>3, <5>1, ReportingIs
      <4>3. PaidFor(P)'
        BY <1>2, <3>1, <4>1, <4>2, PaidSame
      <4>4. ~BlocksAnswered
        <5>1. streamed_block[v] # NoBlock /\ streamed_block'[v] = NoBlock
          BY <1>1, <1>reporting, <3>1, <3>5
        <5>2. Len(mq') # Len(mq) + 1
          BY <1>queue, <3>1
        <5>3. QED
          BY <5>1, <5>2 DEF BlocksAnswered
      <4>5. QED
        BY <4>3, <4>4 DEF Follows
    <3>6. QED
      BY <3>4, <3>5
  <2>11. QED
    BY <2>1, <2>3, <2>4, <2>5, <2>6, <2>7, <2>8, <2>9, <2>10 DEF ValidatorNext
<1>8. CASE LauncherStep
  <2>1. UNCHANGED <<mq, miner_credits, ledgerVars, next_index>>
    BY <1>8 DEF LauncherStep, LauncherNext, LauncherFork, LauncherTerminate,
       LauncherReap, LauncherEnd, validatorVars, statisticsVars
  <2>2. Reporting' = Reporting
    BY <1>1, <1>8 DEF LauncherStep, LauncherNext, LauncherFork, LauncherTerminate,
       LauncherReap, LauncherEnd, validatorVars, ToLaunch, Reporting
  <2>3. QED
    BY <1>3, <2>1, <2>2 DEF ledgerVars
<1>9. CASE StatisticsStep
  BY <1>9, PaidReceive
<1>10. CASE UNCHANGED vars
  BY <1>4, <1>10 DEF vars, validatorVars, statisticsVars
<1>11. QED
  BY <1>5, <1>6, <1>7, <1>8, <1>9, <1>10 DEF Next

(* At the start nothing is paid and nothing is owed.                       *)
LEMMA PaidInit == Init => ReportsKnown /\ PaidFor({}) /\ Mined = {}
<1> SUFFICES ASSUME Init PROVE ReportsKnown /\ PaidFor({}) /\ Mined = {}
  OBVIOUS
<1>1. Reporting = {}
  BY DEF Init, ValidatorInit, Reporting
<1>2. Mined = {}
  BY DEF Init, SharedInit, Mined, Height
<1>3. ASSUME NEW m \in Miners PROVE miner_credits[m] + CreditsSent(m) = RewardsOf(m, {})
  <2>1. miner_credits[m] = 0 /\ Len(mq) = 0
    BY DEF Init, SharedInit, StatisticsInit
  <2>2. CreditsIn(mq, m) = 0
    BY <2>1, SumZero DEF CreditsIn
  <2>3. QED
    BY <2>1, <2>2, CreditsSentIn, RewardsOfIn, WorthEmpty
<1>4. QED
  BY <1>1, <1>2, <1>3 DEF ReportsKnown, PaidFor

LEMMA CreditsInit == Init => CreditsInv
BY PaidInit, LedgerInvInit DEF CreditsInv

LEMMA CreditsNext == CreditsInv /\ [Next]_vars => CreditsInv'
<1> SUFFICES ASSUME CreditsInv, [Next]_vars PROVE CreditsInv'
  OBVIOUS
<1>1. LedgerInv /\ ReportsKnown
  BY DEF CreditsInv
<1>2. PICK P : PaidFor(P)
  BY DEF CreditsInv
<1>3. \E Q : PaidFor(Q)'
  BY <1>1, <1>2, PaidNext
<1>4. QED
  BY <1>1, <1>3, LedgerInvNext, ReportsNext DEF CreditsInv

(* Paid credits are never more than the ledger is worth: a block is paid   *)
(* once, to its miner, and only when it is in the ledger, whatever is lost *)
(* and whoever is ended.                                                   *)
THEOREM CreditsBacked == Spec => []CreditsBackedByLedger
<1>1. CreditsInv => CreditsBackedByLedger
  <2> SUFFICES ASSUME CreditsInv, NEW m \in Miners
               PROVE  miner_credits[m] + CreditsSent(m) <= RewardsOf(m, Mined)
    BY DEF CreditsBackedByLedger, Mined
  <2>1. PICK P : PaidFor(P)
    BY DEF CreditsInv
  <2>2. P \subseteq Mined /\ miner_credits[m] + CreditsSent(m) = RewardsOf(m, P)
    BY <2>1 DEF PaidFor
  <2>3. \A i \in Mined : WorthOf(blocks[i], m) \in Nat
    BY MinedWorth DEF CreditsInv
  <2>4. WorthIn(blocks, m, P) <= WorthIn(blocks, m, Mined)
    BY <2>2, <2>3, WorthLess
  <2>5. PICK M : M = Mined
    OBVIOUS
  <2>6. RewardsOf(m, P) <= RewardsOf(m, M)
    BY <2>4, <2>5, RewardsOfIn
  <2>7. QED
    BY <2>2, <2>5, <2>6
<1>2. QED
  BY <1>1, CreditsInit, CreditsNext, PTL DEF Spec

(* Every block of the ledger is paid or waits for its report.              *)
AllPaid == \E P : P = Mined \ Unreported /\ PaidFor(P)

LEMMA AllPaidNext ==
  CreditsInv /\ AllPaid /\ [Next]_vars /\ [BlocksAnswered]_vars => AllPaid'
<1> SUFFICES ASSUME CreditsInv, AllPaid, [Next]_vars, [BlocksAnswered]_vars
             PROVE  AllPaid'
  OBVIOUS
<1>1. BlocksAnswered
  BY DEF BlocksAnswered, vars, validatorVars
<1>2. PICK P : P = Mined \ Unreported /\ PaidFor(P)
  BY DEF AllPaid
<1>3. PICK Q : PaidFor(Q)' /\ Follows(P, Q)
  BY <1>2, PaidNext DEF CreditsInv
<1>4. Q = Mined' \ Unreported'
  BY <1>1, <1>2, <1>3 DEF Follows
<1>5. QED
  BY <1>3, <1>4 DEF AllPaid

(* As long as every block is answered, the credits are exactly the rewards *)
(* of the blocks of the ledger that are not waiting for their report.      *)
THEOREM CreditsExact == Spec /\ [][BlocksAnswered]_vars => []CreditsMatchLedger
<1>1. Init => AllPaid
  <2> SUFFICES ASSUME Init PROVE AllPaid
    OBVIOUS
  <2>1. {} = Mined \ Unreported /\ PaidFor({})
    BY PaidInit
  <2>2. QED
    BY <2>1 DEF AllPaid
<1>2. AllPaid => CreditsMatchLedger
  <2> SUFFICES ASSUME AllPaid, NEW m \in Miners
               PROVE  miner_credits[m] + CreditsSent(m)
                        = RewardsOf(m, Height \ ({0} \cup Unreported))
    BY DEF CreditsMatchLedger
  <2>1. PICK P : P = Mined \ Unreported /\ PaidFor(P)
    BY DEF AllPaid
  <2>2. P = Height \ ({0} \cup Unreported)
    BY <2>1 DEF Mined
  <2>3. QED
    BY <2>1, <2>2 DEF PaidFor
<1>3. QED
  BY <1>1, <1>2, CreditsInit, CreditsNext, AllPaidNext, PTL DEF Spec

-----------------------------------------------------------------------------
(* Blocks on their way, by miner.  Counts of places: in a set that gains   *)
(* or loses one, and in a sequence that loses its head.                    *)

Indicator(c) == IF c THEN 1 ELSE 0

LEMMA CountAdd ==
  ASSUME NEW S, IsFiniteSet(S), NEW x, x \notin S, NEW T, NEW c \in BOOLEAN,
         T = IF c THEN S \cup {x} ELSE S
  PROVE  /\ Cardinality(S) \in Nat /\ Cardinality(T) \in Nat
         /\ Cardinality(T) = Cardinality(S) + Indicator(c)
<1>1. Cardinality(S) \in Nat
  BY FS_CardinalityType
<1>2. CASE c
  <2>1. Cardinality(T) = Cardinality(S) + 1
    BY <1>2, FS_AddElement
  <2>2. QED
    BY <1>1, <1>2, <2>1 DEF Indicator
<1>3. CASE ~c
  BY <1>1, <1>3 DEF Indicator
<1>4. QED
  BY <1>2, <1>3

LEMMA CountShift ==
  ASSUME NEW n \in Nat, NEW A, A \subseteq 1..(n + 1), NEW B, B \subseteq 1..n,
         \A k \in 1..n : k \in B <=> k + 1 \in A
  PROVE  /\ Cardinality(A) \in Nat /\ Cardinality(B) \in Nat
         /\ Cardinality(A) = Cardinality(B) + Indicator(1 \in A)
<1> DEFINE f == [k \in B |-> k + 1]
           C == A \ {1}
<1>1. IsFiniteSet(A) /\ IsFiniteSet(B)
  <2>1. IsFiniteSet(1..(n + 1)) /\ IsFiniteSet(1..n)
    BY FS_Interval
  <2>2. QED
    BY <2>1, FS_Subset
<1>2. ExistsBijection(B, C)
  <2>1. f \in [B -> C]
    OBVIOUS
  <2>2. \A k, l \in B : f[k] = f[l] => k = l
    OBVIOUS
  <2>3. ASSUME NEW c \in C PROVE \E k \in B : f[k] = c
    <3>1. c - 1 \in 1..n /\ (c - 1) + 1 = c
      OBVIOUS
    <3>2. c - 1 \in B
      BY <3>1
    <3>3. QED
      BY <3>1, <3>2
  <2>4. f \in Bijection(B, C)
    BY <2>1, <2>2, <2>3 DEF Bijection, Injection, Surjection, IsInjective
  <2>5. QED
    BY <2>4 DEF ExistsBijection
<1>3. Cardinality(C) = Cardinality(B) /\ IsFiniteSet(C)
  BY <1>1, <1>2, FS_Bijection
<1>4. A = IF 1 \in A THEN C \cup {1} ELSE C
  OBVIOUS
<1>5. Cardinality(A) \in Nat /\ Cardinality(B) \in Nat
  BY <1>1, FS_CardinalityType
<1>6. CASE 1 \in A
  <2>1. A = IF TRUE THEN C \cup {1} ELSE C
    BY <1>6
  <2>2. Cardinality(A) = Cardinality(C) + Indicator(TRUE)
    BY <1>3, <2>1, CountAdd
  <2>3. QED
    BY <1>3, <1>5, <1>6, <2>2 DEF Indicator
<1>7. CASE 1 \notin A
  <2>1. C = A
    BY <1>7
  <2>2. Indicator(1 \in A) = 0
    BY <1>7 DEF Indicator
  <2>3. Cardinality(A) = Cardinality(B)
    BY <1>3, <2>1
  <2>4. QED
    BY <1>5, <2>2, <2>3
<1>8. QED
  BY <1>5, <1>6, <1>7

LEMMA CountAppend ==
  ASSUME NEW n \in Nat, NEW A, A \subseteq 1..n, NEW B, B \subseteq 1..(n + 1),
         \A k \in 1..n : k \in B <=> k \in A
  PROVE  /\ Cardinality(A) \in Nat /\ Cardinality(B) \in Nat
         /\ Cardinality(B) = Cardinality(A) + Indicator(n + 1 \in B)
<1>1. IsFiniteSet(A) /\ n + 1 \notin A
  <2>1. IsFiniteSet(1..n)
    BY FS_Interval
  <2>2. IsFiniteSet(A)
    BY <2>1, FS_Subset
  <2>3. n + 1 \notin A
    OBVIOUS
  <2>4. QED
    BY <2>2, <2>3
<1>2. CASE n + 1 \in B
  <2>1. B = IF TRUE THEN A \cup {n + 1} ELSE A
    <3>1. \A k \in 1..(n + 1) : k \in 1..n \/ k = n + 1
      OBVIOUS
    <3>2. QED
      BY <1>2, <3>1
  <2>2. /\ Cardinality(A) \in Nat /\ Cardinality(B) \in Nat
        /\ Cardinality(B) = Cardinality(A) + Indicator(TRUE)
    BY <1>1, <2>1, CountAdd
  <2>3. QED
    BY <1>2, <2>2 DEF Indicator
<1>3. CASE n + 1 \notin B
  <2>1. B = A
    <3>1. \A k \in 1..(n + 1) : k \in 1..n \/ k = n + 1
      OBVIOUS
    <3>2. QED
      BY <1>3, <3>1
  <2>2. Cardinality(A) \in Nat
    BY <1>1, FS_CardinalityType
  <2>3. QED
    BY <1>3, <2>1, <2>2 DEF Indicator
<1>4. QED
  BY <1>2, <1>3

(* The four summands of InTransit.                                         *)
PowOf(m)   == {n \in {m} : block[n] # NoBlock}
PipeOf(m)  == {k \in DOMAIN pipe : pipe[k].txb_id[1] = m}
HandsOf(m) == {v \in Validators : /\ streamed_block[v] # NoBlock
                                  /\ streamed_block[v].txb_id[1] = m}
QueueOf(m) == {k \in DOMAIN mq : mq[k].miner_id = m}

LEMMA PowCount ==
  ASSUME NEW m
  PROVE  /\ Cardinality(PowOf(m)) = Indicator(block[m] # NoBlock)
         /\ Cardinality(PowOf(m)') = Indicator(block'[m] # NoBlock)
<1>1. \A S : S = {m} => Cardinality(S) = 1
  BY FS_Singleton
<1>2. \A S : S = {} => Cardinality(S) = 0
  BY FS_EmptySet
<1>3. Cardinality(PowOf(m)) = Indicator(block[m] # NoBlock)
  <2>1. CASE block[m] # NoBlock
    <3>1. PowOf(m) = {m}
      BY <2>1 DEF PowOf
    <3>2. QED
      BY <1>1, <2>1, <3>1 DEF Indicator
  <2>2. CASE block[m] = NoBlock
    <3>1. PowOf(m) = {}
      BY <2>2 DEF PowOf
    <3>2. QED
      BY <1>2, <2>2, <3>1 DEF Indicator
  <2>3. QED
    BY <2>1, <2>2
<1>4. Cardinality(PowOf(m)') = Indicator(block'[m] # NoBlock)
  <2>1. CASE block'[m] # NoBlock
    <3>1. PowOf(m)' = {m}
      BY <2>1 DEF PowOf
    <3>2. QED
      BY <1>1, <2>1, <3>1 DEF Indicator
  <2>2. CASE block'[m] = NoBlock
    <3>1. PowOf(m)' = {}
      BY <2>2 DEF PowOf
    <3>2. QED
      BY <1>2, <2>2, <3>1 DEF Indicator
  <2>3. QED
    BY <2>1, <2>2
<1>5. QED
  BY <1>3, <1>4

LEMMA TransitTypes ==
  ASSUME LedgerInv, NEW m
  PROVE  /\ Cardinality(PowOf(m)) \in Nat /\ Cardinality(PipeOf(m)) \in Nat
         /\ Cardinality(HandsOf(m)) \in Nat /\ Cardinality(QueueOf(m)) \in Nat
         /\ IsFiniteSet(HandsOf(m))
<1>1. Cardinality(PowOf(m)) \in Nat
  BY PowCount DEF Indicator
<1>2. Len(pipe) \in Nat /\ DOMAIN pipe = 1..Len(pipe)
      /\ Len(mq) \in Nat /\ DOMAIN mq = 1..Len(mq)
  BY DEF LedgerInv, TypeOK, ChannelsTypeOK, StatisticsTypeOK
<1>3. IsFiniteSet(DOMAIN pipe) /\ IsFiniteSet(DOMAIN mq) /\ IsFiniteSet(Validators)
  <2>1. IsFiniteSet(1..Len(pipe)) /\ IsFiniteSet(1..Len(mq))
    BY <1>2, FS_Interval
  <2>2. IsFiniteSet(Validators)
    BY FS_Interval, SystemAssumption DEF Validators
  <2>3. QED
    BY <1>2, <2>1, <2>2
<1>4. /\ PipeOf(m) \in SUBSET DOMAIN pipe /\ QueueOf(m) \in SUBSET DOMAIN mq
      /\ HandsOf(m) \in SUBSET Validators
  BY DEF PipeOf, QueueOf, HandsOf
<1>5. IsFiniteSet(PipeOf(m)) /\ IsFiniteSet(QueueOf(m)) /\ IsFiniteSet(HandsOf(m))
  BY <1>3, <1>4, FS_Subset
<1>6. QED
  BY <1>1, <1>5, FS_CardinalityType

LEMMA PipeAppended ==
  ASSUME LedgerInv, NEW m \in Miners, NEW b, pipe' = Append(pipe, b)
  PROVE  /\ Cardinality(PipeOf(m)') \in Nat
         /\ Cardinality(PipeOf(m)')
              = Cardinality(PipeOf(m)) + Indicator(b.txb_id[1] = m)
<1> DEFINE n == Len(pipe)
<1>1. n \in Nat /\ DOMAIN pipe = 1..n /\ DOMAIN pipe' = 1..(n + 1)
      /\ pipe'[n + 1] = b /\ \A k \in 1..n : pipe'[k] = pipe[k]
  BY DEF LedgerInv, TypeOK, ChannelsTypeOK
<1> HIDE DEF n
<1>2. PipeOf(m) = {k \in 1..n : pipe[k].txb_id[1] = m}
      /\ PipeOf(m)' = {k \in 1..(n + 1) : pipe'[k].txb_id[1] = m}
  BY <1>1 DEF PipeOf
<1>3. /\ PipeOf(m) \subseteq 1..n /\ PipeOf(m)' \subseteq 1..(n + 1)
      /\ \A k \in 1..n : k \in PipeOf(m)' <=> k \in PipeOf(m)
      /\ n + 1 \in PipeOf(m)' <=> b.txb_id[1] = m
  BY <1>1, <1>2
<1>4. /\ Cardinality(PipeOf(m)') \in Nat
      /\ Cardinality(PipeOf(m)')
           = Cardinality(PipeOf(m)) + Indicator(n + 1 \in PipeOf(m)')
  BY <1>1, <1>3, CountAppend
<1>5. QED
  BY <1>3, <1>4 DEF Indicator

LEMMA PipeShortened ==
  ASSUME LedgerInv, NEW m \in Miners, pipe # <<>>, pipe' = Tail(pipe)
  PROVE  /\ Cardinality(PipeOf(m)') \in Nat
         /\ Cardinality(PipeOf(m))
              = Cardinality(PipeOf(m)') + Indicator(Head(pipe).txb_id[1] = m)
<1> DEFINE n == Len(pipe) - 1
<1>1. n \in Nat /\ DOMAIN pipe = 1..(n + 1) /\ DOMAIN pipe' = 1..n
      /\ Head(pipe) = pipe[1] /\ \A k \in 1..n : pipe'[k] = pipe[k + 1]
  BY DEF LedgerInv, TypeOK, ChannelsTypeOK
<1> HIDE DEF n
<1>2. PipeOf(m) = {k \in 1..(n + 1) : pipe[k].txb_id[1] = m}
      /\ PipeOf(m)' = {k \in 1..n : pipe'[k].txb_id[1] = m}
  BY <1>1 DEF PipeOf
<1>3. /\ PipeOf(m) \subseteq 1..(n + 1) /\ PipeOf(m)' \subseteq 1..n
      /\ \A k \in 1..n : k \in PipeOf(m)' <=> k + 1 \in PipeOf(m)
      /\ 1 \in PipeOf(m) <=> Head(pipe).txb_id[1] = m
  BY <1>1, <1>2
<1>4. /\ Cardinality(PipeOf(m)') \in Nat
      /\ Cardinality(PipeOf(m))
           = Cardinality(PipeOf(m)') + Indicator(1 \in PipeOf(m))
  BY <1>1, <1>3, CountShift
<1>5. QED
  BY <1>3, <1>4 DEF Indicator

LEMMA QueueAppended ==
  ASSUME LedgerInv, NEW m \in Miners, NEW msg, mq' = Append(mq, msg)
  PROVE  /\ Cardinality(QueueOf(m)') \in Nat
         /\ Cardinality(QueueOf(m)')
              = Cardinality(QueueOf(m)) + Indicator(msg.miner_id = m)
<1> DEFINE n == Len(mq)
<1>1. n \in Nat /\ DOMAIN mq = 1..n /\ DOMAIN mq' = 1..(n + 1)
      /\ mq'[n + 1] = msg /\ \A k \in 1..n : mq'[k] = mq[k]
  BY DEF LedgerInv, TypeOK, StatisticsTypeOK
<1> HIDE DEF n
<1>2. QueueOf(m) = {k \in 1..n : mq[k].miner_id = m}
      /\ QueueOf(m)' = {k \in 1..(n + 1) : mq'[k].miner_id = m}
  BY <1>1 DEF QueueOf
<1>3. /\ QueueOf(m) \subseteq 1..n /\ QueueOf(m)' \subseteq 1..(n + 1)
      /\ \A k \in 1..n : k \in QueueOf(m)' <=> k \in QueueOf(m)
      /\ n + 1 \in QueueOf(m)' <=> msg.miner_id = m
  BY <1>1, <1>2
<1>4. /\ Cardinality(QueueOf(m)') \in Nat
      /\ Cardinality(QueueOf(m)')
           = Cardinality(QueueOf(m)) + Indicator(n + 1 \in QueueOf(m)')
  BY <1>1, <1>3, CountAppend
<1>5. QED
  BY <1>3, <1>4 DEF Indicator

LEMMA QueueShortened ==
  ASSUME LedgerInv, NEW m \in Miners, mq # <<>>, mq' = Tail(mq)
  PROVE  /\ Cardinality(QueueOf(m)') \in Nat
         /\ Cardinality(QueueOf(m))
              = Cardinality(QueueOf(m)') + Indicator(Head(mq).miner_id = m)
<1> DEFINE n == Len(mq) - 1
<1>1. n \in Nat /\ DOMAIN mq = 1..(n + 1) /\ DOMAIN mq' = 1..n
      /\ Head(mq) = mq[1] /\ \A k \in 1..n : mq'[k] = mq[k + 1]
  BY DEF LedgerInv, TypeOK, StatisticsTypeOK
<1> HIDE DEF n
<1>2. QueueOf(m) = {k \in 1..(n + 1) : mq[k].miner_id = m}
      /\ QueueOf(m)' = {k \in 1..n : mq'[k].miner_id = m}
  BY <1>1 DEF QueueOf
<1>3. /\ QueueOf(m) \subseteq 1..(n + 1) /\ QueueOf(m)' \subseteq 1..n
      /\ \A k \in 1..n : k \in QueueOf(m)' <=> k + 1 \in QueueOf(m)
      /\ 1 \in QueueOf(m) <=> Head(mq).miner_id = m
  BY <1>1, <1>2
<1>4. /\ Cardinality(QueueOf(m)') \in Nat
      /\ Cardinality(QueueOf(m))
           = Cardinality(QueueOf(m)') + Indicator(1 \in QueueOf(m))
  BY <1>1, <1>3, CountShift
<1>5. QED
  BY <1>3, <1>4 DEF Indicator

LEMMA HandsTake ==
  ASSUME LedgerInv, NEW m \in Miners, NEW v \in Validators, NEW b, b # NoBlock,
         streamed_block[v] = NoBlock,
         streamed_block' = [streamed_block EXCEPT ![v] = b]
  PROVE  /\ Cardinality(HandsOf(m)') \in Nat
         /\ Cardinality(HandsOf(m)')
              = Cardinality(HandsOf(m)) + Indicator(b.txb_id[1] = m)
<1>1. streamed_block = [w \in Validators |-> streamed_block[w]]
  BY DEF LedgerInv, TypeOK, ValidatorTypeOK
<1>2. v \notin HandsOf(m) /\ IsFiniteSet(HandsOf(m))
  BY TransitTypes DEF HandsOf
<1>3. HandsOf(m)' = IF b.txb_id[1] = m THEN HandsOf(m) \cup {v} ELSE HandsOf(m)
  BY <1>1 DEF HandsOf
<1>4. PICK c \in BOOLEAN : c = (b.txb_id[1] = m)
  OBVIOUS
<1>5. PICK T : T = HandsOf(m)'
  OBVIOUS
<1>6. T = IF c THEN HandsOf(m) \cup {v} ELSE HandsOf(m)
  BY <1>3, <1>4, <1>5
<1>7. /\ Cardinality(T) \in Nat
      /\ Cardinality(T) = Cardinality(HandsOf(m)) + Indicator(c)
  BY <1>2, <1>6, CountAdd
<1>8. Indicator(c) = Indicator(b.txb_id[1] = m)
  BY <1>4
<1>9. QED
  BY <1>5, <1>7, <1>8

LEMMA HandsLetGo ==
  ASSUME LedgerInv, NEW m \in Miners, NEW v \in Validators,
         streamed_block[v] # NoBlock,
         streamed_block' = [streamed_block EXCEPT ![v] = NoBlock]
  PROVE  /\ Cardinality(HandsOf(m)') \in Nat
         /\ Cardinality(HandsOf(m))
              = Cardinality(HandsOf(m)') + Indicator(streamed_block[v].txb_id[1] = m)
<1>1. streamed_block = [w \in Validators |-> streamed_block[w]]
  BY DEF LedgerInv, TypeOK, ValidatorTypeOK
<1>2. HandsOf(m)' = HandsOf(m) \ {v}
  BY <1>1 DEF HandsOf
<1>3. v \notin HandsOf(m)' /\ IsFiniteSet(HandsOf(m)')
  BY <1>2, TransitTypes, FS_RemoveElement
<1>4. HandsOf(m) = IF streamed_block[v].txb_id[1] = m
                     THEN HandsOf(m)' \cup {v} ELSE HandsOf(m)'
  BY <1>2 DEF HandsOf
<1>5. PICK S : S = HandsOf(m)'
  OBVIOUS
<1>6. PICK c \in BOOLEAN : c = (streamed_block[v].txb_id[1] = m)
  OBVIOUS
<1>7. HandsOf(m) = IF c THEN S \cup {v} ELSE S
  BY <1>4, <1>5, <1>6
<1>8. /\ Cardinality(S) \in Nat
      /\ Cardinality(HandsOf(m)) = Cardinality(S) + Indicator(c)
  BY <1>3, <1>5, <1>7, CountAdd
<1>9. Indicator(c) = Indicator(streamed_block[v].txb_id[1] = m)
  BY <1>6
<1>10. QED
  BY <1>5, <1>8, <1>9

-----------------------------------------------------------------------------
(* A block that leaves one place is in the next, unless it is lost.        *)
Total(m) == InTransit(m) + miner_valid_blocks[m] + miner_invalid_blocks[m]

Moved(m) ==
  /\ Total(m) \in Nat /\ Total(m)' \in Nat
  /\ Total(m)' + block_number[m] <= Total(m) + block_number'[m]
  /\ BlocksAnswered => Total(m)' + block_number[m] = Total(m) + block_number'[m]

LEMMA CountsTypes ==
  ASSUME LedgerInv, NEW m \in Miners
  PROVE  /\ miner_valid_blocks[m] \in Nat /\ miner_invalid_blocks[m] \in Nat
         /\ block_number[m] \in Nat /\ InTransit(m) \in Nat /\ Total(m) \in Nat
         /\ InTransit(m) = Cardinality(PowOf(m)) + Cardinality(PipeOf(m))
                             + Cardinality(HandsOf(m)) + Cardinality(QueueOf(m))
<1>1. /\ miner_valid_blocks[m] \in Nat /\ miner_invalid_blocks[m] \in Nat
      /\ block_number[m] \in Nat
  BY DEF LedgerInv, TypeOK, StatisticsTypeOK, MinerTypeOK
<1>2. InTransit(m) = Cardinality(PowOf(m)) + Cardinality(PipeOf(m))
                       + Cardinality(HandsOf(m)) + Cardinality(QueueOf(m))
  BY DEF InTransit, PowOf, PipeOf, HandsOf, QueueOf
<1>3. InTransit(m) \in Nat
  BY <1>2, TransitTypes
<1>4. QED
  BY <1>1, <1>2, <1>3 DEF Total

LEMMA TransitFrame ==
  ASSUME NEW m
  PROVE  /\ pipe' = pipe => Cardinality(PipeOf(m)') = Cardinality(PipeOf(m))
         /\ streamed_block' = streamed_block
              => Cardinality(HandsOf(m)') = Cardinality(HandsOf(m))
         /\ mq' = mq => Cardinality(QueueOf(m)') = Cardinality(QueueOf(m))
         /\ block'[m] = block[m] => Cardinality(PowOf(m)') = Cardinality(PowOf(m))
         /\ InTransit(m)' = Cardinality(PowOf(m)') + Cardinality(PipeOf(m)')
                              + Cardinality(HandsOf(m)') + Cardinality(QueueOf(m)')
<1>1. pipe' = pipe => PipeOf(m)' = PipeOf(m)
  BY DEF PipeOf
<1>2. streamed_block' = streamed_block => HandsOf(m)' = HandsOf(m)
  BY DEF HandsOf
<1>3. mq' = mq => QueueOf(m)' = QueueOf(m)
  BY DEF QueueOf
<1>4. block'[m] = block[m] => PowOf(m)' = PowOf(m)
  BY DEF PowOf
<1>5. InTransit(m)' = Cardinality(PowOf(m)') + Cardinality(PipeOf(m)')
                       + Cardinality(HandsOf(m)') + Cardinality(QueueOf(m)')
  BY DEF InTransit, PowOf, PipeOf, HandsOf, QueueOf
<1>6. QED
  BY <1>1, <1>2, <1>3, <1>4, <1>5

LEMMA MovedFrame ==
  ASSUME LedgerInv, NEW m \in Miners, block'[m] = block[m],
         block_number'[m] = block_number[m],
         UNCHANGED <<pipe, mq, streamed_block, miner_valid_blocks,
                     miner_invalid_blocks>>
  PROVE  Moved(m)
<1>1. InTransit(m)' = InTransit(m)
  BY CountsTypes, TransitFrame
<1>2. Total(m)' = InTransit(m)' + miner_valid_blocks'[m] + miner_invalid_blocks'[m]
  BY DEF Total
<1>3. Total(m)' = Total(m)
  BY <1>1, <1>2 DEF Total
<1>4. QED
  BY <1>3, CountsTypes DEF Moved

(* The counters do not change: the summands decide.                        *)
LEMMA MovedOnWay ==
  ASSUME LedgerInv, NEW m \in Miners,
         UNCHANGED <<miner_valid_blocks, miner_invalid_blocks>>,
         InTransit(m)' \in Nat, block_number'[m] \in Nat,
         InTransit(m)' + block_number[m] <= InTransit(m) + block_number'[m],
         BlocksAnswered =>
            InTransit(m)' + block_number[m] = InTransit(m) + block_number'[m]
  PROVE  Moved(m)
<1>1. /\ Total(m)' = InTransit(m)' + miner_valid_blocks[m] + miner_invalid_blocks[m]
      /\ Total(m) = InTransit(m) + miner_valid_blocks[m] + miner_invalid_blocks[m]
  BY DEF Total
<1>2. /\ miner_valid_blocks[m] \in Nat /\ miner_invalid_blocks[m] \in Nat
      /\ block_number[m] \in Nat /\ InTransit(m) \in Nat
  BY CountsTypes
<1>3. Total(m) \in Nat /\ Total(m)' \in Nat
  BY <1>1, <1>2
<1>4. /\ Total(m)' + block_number[m] <= Total(m) + block_number'[m]
      /\ BlocksAnswered => Total(m)' + block_number[m] = Total(m) + block_number'[m]
  BY <1>1, <1>2
<1>5. QED
  BY <1>3, <1>4 DEF Moved

LEMMA MovedReadPrevious ==
  ASSUME LedgerInv, TypeOK', NEW m \in Miners, NEW n \in Miners,
         MinerReadPrevious(n), UNCHANGED <<validatorVars, statisticsVars>>
  PROVE  Moved(m)
<1>1. UNCHANGED <<pipe, mq, streamed_block, miner_valid_blocks, miner_invalid_blocks>>
  BY DEF MinerReadPrevious, validatorVars, statisticsVars
<1>2. /\ block \in [Miners -> TransactionBlock \cup {NoBlock}]
      /\ block_number \in [Miners -> Nat]
  BY DEF LedgerInv, TypeOK, MinerTypeOK
<1>3. \/ UNCHANGED <<block, block_number>>
      \/ /\ \A k \in Miners \ {n} :
                 block'[k] = block[k] /\ block_number'[k] = block_number[k]
         /\ block_number'[n] = block_number[n] + 1
         /\ mpc'[n] = "pow" /\ mpc[n] = "previous"
  BY <1>2 DEF MinerReadPrevious, NextBlockNumber, LedgerInv, TypeOK, MinerTypeOK
<1>4. CASE block'[m] = block[m] /\ block_number'[m] = block_number[m]
  BY <1>1, <1>4, MovedFrame
<1>5. CASE /\ n = m /\ block_number'[m] = block_number[m] + 1
           /\ mpc'[m] = "pow" /\ mpc[m] = "previous"
  <2>1. block[m] = NoBlock
    BY <1>5 DEF LedgerInv, TypeOK, MinerTypeOK
  <2>2. block'[m] # NoBlock
    BY <1>5 DEF TypeOK, MinerTypeOK
  <2>3. /\ Cardinality(PowOf(m)) = 0
        /\ Cardinality(PowOf(m)') = 1
    BY <2>1, <2>2, PowCount DEF Indicator
  <2>4. InTransit(m)' = InTransit(m) + 1
    BY <1>1, <2>3, CountsTypes, TransitTypes, TransitFrame
  <2>5. InTransit(m) \in Nat /\ block_number[m] \in Nat
    BY CountsTypes
  <2>6. /\ InTransit(m)' \in Nat /\ block_number'[m] \in Nat
        /\ InTransit(m)' + block_number[m] = InTransit(m) + block_number'[m]
        /\ InTransit(m)' + block_number[m] <= InTransit(m) + block_number'[m]
    BY <1>5, <2>4, <2>5
  <2>7. QED
    BY <1>1, <2>6, MovedOnWay
<1>6. QED
  BY <1>3, <1>4, <1>5

LEMMA MovedSubmit ==
  ASSUME LedgerInv, TypeOK', NEW m \in Miners, NEW n \in Miners,
         MinerSubmit(n), UNCHANGED <<validatorVars, statisticsVars>>
  PROVE  Moved(m)
<1>1. /\ UNCHANGED <<mq, streamed_block, miner_valid_blocks, miner_invalid_blocks,
                     block_number>>
      /\ pipe' = Append(pipe, block[n])
      /\ block' = [block EXCEPT ![n] = NoBlock]
      /\ mpc[n] = "pow"
  BY DEF MinerSubmit, validatorVars, statisticsVars
<1>2. block = [k \in Miners |-> block[k]]
  BY DEF LedgerInv, TypeOK, MinerTypeOK
<1>3. block[n] # NoBlock
  BY <1>1 DEF LedgerInv, TypeOK, MinerTypeOK
<1>4. block[n].txb_id[1] = n
  BY <1>3 DEF LedgerInv, IdsKnown
<1>5. /\ Cardinality(PipeOf(m)') \in Nat
      /\ Cardinality(PipeOf(m)') = Cardinality(PipeOf(m)) + Indicator(n = m)
  <2>1. PICK b : b = block[n]
    OBVIOUS
  <2>2. pipe' = Append(pipe, b)
    BY <1>1, <2>1
  <2>3. /\ Cardinality(PipeOf(m)') \in Nat
        /\ Cardinality(PipeOf(m)') = Cardinality(PipeOf(m)) + Indicator(b.txb_id[1] = m)
    BY <2>2, PipeAppended
  <2>4. QED
    BY <1>4, <2>1, <2>3
<1>6. /\ Cardinality(PowOf(m)') \in Nat
      /\ Cardinality(PowOf(m)) = Cardinality(PowOf(m)') + Indicator(n = m)
  <2>1. CASE n = m
    <3>1. block'[m] = NoBlock
      BY <1>1, <1>2, <2>1
    <3>2. Cardinality(PowOf(m)) = 1 /\ Cardinality(PowOf(m)') = 0
      BY <1>3, <2>1, <3>1, PowCount DEF Indicator
    <3>3. QED
      BY <2>1, <3>2 DEF Indicator
  <2>2. CASE n # m
    <3>1. block'[m] = block[m]
      BY <1>1, <1>2, <2>2
    <3>2. Cardinality(PowOf(m)') = Cardinality(PowOf(m))
      BY <3>1, TransitFrame
    <3>3. QED
      BY <2>2, <3>2, TransitTypes DEF Indicator
  <2>3. QED
    BY <2>1, <2>2
<1>7. /\ InTransit(m)' = InTransit(m)
      /\ InTransit(m) \in Nat /\ block_number[m] \in Nat
  <2>1. Indicator(n = m) \in Nat
    BY DEF Indicator
  <2>2. QED
    BY <1>1, <1>5, <1>6, <2>1, CountsTypes, TransitTypes, TransitFrame
<1>8. /\ InTransit(m)' \in Nat /\ block_number'[m] \in Nat
      /\ InTransit(m)' + block_number[m] = InTransit(m) + block_number'[m]
      /\ InTransit(m)' + block_number[m] <= InTransit(m) + block_number'[m]
  BY <1>1, <1>7
<1>9. QED
  BY <1>1, <1>8, MovedOnWay

(* A read moves the block that is first in the pipe to the hands of the    *)
(* validator.                                                              *)
LEMMA MovedRead ==
  ASSUME LedgerInv, TypeOK', NEW m \in Miners, NEW v \in Validators,
         ValidatorRead(v), UNCHANGED <<minerVars, statisticsVars>>
  PROVE  Moved(m)
<1>1. /\ UNCHANGED <<mq, block, block_number, miner_valid_blocks, miner_invalid_blocks>>
      /\ pipe # <<>> /\ pipe' = Tail(pipe)
      /\ streamed_block' = [streamed_block EXCEPT ![v] = Head(pipe)]
      /\ vpc[v] = "read" /\ vpc' = [vpc EXCEPT ![v] = "check_hash"]
  BY DEF ValidatorRead, minerVars, statisticsVars
<1>2. /\ streamed_block = [w \in Validators |-> streamed_block[w]]
      /\ vpc = [w \in Validators |-> vpc[w]]
  BY DEF LedgerInv, TypeOK, ValidatorTypeOK
<1>3. streamed_block[v] = NoBlock
  BY <1>1 DEF LedgerInv, TypeOK, ValidatorTypeOK
<1>4. Head(pipe) # NoBlock
  <2>1. vpc'[v] = "check_hash" /\ streamed_block'[v] = Head(pipe)
    BY <1>1, <1>2
  <2>2. QED
    BY <2>1 DEF TypeOK, ValidatorTypeOK
<1>5. PICK b : b = Head(pipe)
  OBVIOUS
<1>6. /\ Cardinality(HandsOf(m)') \in Nat
      /\ Cardinality(HandsOf(m)')
           = Cardinality(HandsOf(m)) + Indicator(b.txb_id[1] = m)
  <2>1. b # NoBlock /\ streamed_block' = [streamed_block EXCEPT ![v] = b]
    BY <1>1, <1>4, <1>5
  <2>2. QED
    BY <1>3, <2>1, HandsTake
<1>7. /\ Cardinality(PipeOf(m)') \in Nat
      /\ Cardinality(PipeOf(m))
           = Cardinality(PipeOf(m)') + Indicator(b.txb_id[1] = m)
  BY <1>1, <1>5, PipeShortened
<1>8. Indicator(b.txb_id[1] = m) \in Nat
  BY DEF Indicator
<1>9. /\ InTransit(m)' = InTransit(m)
      /\ InTransit(m) \in Nat /\ block_number[m] \in Nat
  BY <1>1, <1>6, <1>7, <1>8, CountsTypes, TransitTypes, TransitFrame
<1>10. /\ InTransit(m)' \in Nat /\ block_number'[m] \in Nat
       /\ InTransit(m)' + block_number[m] = InTransit(m) + block_number'[m]
       /\ InTransit(m)' + block_number[m] <= InTransit(m) + block_number'[m]
  BY <1>1, <1>9
<1>11. QED
  BY <1>1, <1>10, MovedOnWay

(* A validator lets go of its block: the queue has a message about it, or  *)
(* the block is lost.                                                      *)
LEMMA MovedLetGo ==
  ASSUME LedgerInv, NEW m \in Miners, NEW v \in Validators,
         streamed_block[v] # NoBlock,
         streamed_block' = [streamed_block EXCEPT ![v] = NoBlock],
         UNCHANGED <<pipe, block, block_number, miner_valid_blocks,
                     miner_invalid_blocks>>,
         NEW msg, msg.miner_id = streamed_block[v].txb_id[1],
         mq' = mq \/ mq' = Append(mq, msg)
  PROVE  Moved(m)
<1> DEFINE one == Indicator(streamed_block[v].txb_id[1] = m)
<1>1. one \in Nat
  BY DEF Indicator
<1>2. /\ Cardinality(HandsOf(m)') \in Nat
      /\ Cardinality(HandsOf(m)) = Cardinality(HandsOf(m)') + one
  BY HandsLetGo
<1>3. /\ InTransit(m)' = Cardinality(PowOf(m)) + Cardinality(PipeOf(m))
                           + Cardinality(HandsOf(m)') + Cardinality(QueueOf(m)')
      /\ InTransit(m) = Cardinality(PowOf(m)) + Cardinality(PipeOf(m))
                           + Cardinality(HandsOf(m)) + Cardinality(QueueOf(m))
      /\ Cardinality(PowOf(m)) \in Nat /\ Cardinality(PipeOf(m)) \in Nat
      /\ Cardinality(QueueOf(m)) \in Nat
      /\ block_number[m] \in Nat /\ block_number'[m] = block_number[m]
  BY CountsTypes, TransitTypes, TransitFrame
<1>4. CASE mq' = Append(mq, msg)
  <2>1. /\ Cardinality(QueueOf(m)') \in Nat
        /\ Cardinality(QueueOf(m)') = Cardinality(QueueOf(m)) + one
    BY <1>4, QueueAppended
  <2> HIDE DEF one
  <2>2. /\ InTransit(m)' = InTransit(m) /\ InTransit(m) \in Nat
    BY <1>1, <1>2, <1>3, <2>1
  <2>3. /\ InTransit(m)' \in Nat /\ block_number'[m] \in Nat
        /\ InTransit(m)' + block_number[m] = InTransit(m) + block_number'[m]
        /\ InTransit(m)' + block_number[m] <= InTransit(m) + block_number'[m]
    BY <1>3, <2>2
  <2>4. QED
    BY <2>3, MovedOnWay
<1>5. CASE mq' = mq
  <2>1. Cardinality(QueueOf(m)') = Cardinality(QueueOf(m))
    BY <1>5, TransitFrame
  <2> HIDE DEF one
  <2>2. InTransit(m)' \in Nat /\ InTransit(m) \in Nat /\ InTransit(m)' <= InTransit(m)
    BY <1>1, <1>2, <1>3, <2>1
  <2>3. /\ InTransit(m)' \in Nat /\ block_number'[m] \in Nat
        /\ InTransit(m)' + block_number[m] <= InTransit(m) + block_number'[m]
    BY <1>3, <2>2
  <2>4. ~BlocksAnswered
    <3>1. Len(mq) \in Nat /\ Len(mq') # Len(mq) + 1
      BY <1>5 DEF LedgerInv, TypeOK, StatisticsTypeOK
    <3>2. streamed_block'[v] = NoBlock
      BY DEF LedgerInv, TypeOK, ValidatorTypeOK
    <3>3. QED
      BY <3>1, <3>2 DEF BlocksAnswered
  <2>5. QED
    BY <2>3, <2>4, MovedOnWay
<1>6. QED
  BY <1>4, <1>5

LEMMA MovedValidator ==
  ASSUME LedgerInv, TypeOK', NEW m \in Miners, NEW v \in Validators,
         ValidatorNext(v), UNCHANGED <<minerVars, statisticsVars>>
  PROVE  Moved(m)
<1>1. UNCHANGED <<block, block_number, miner_valid_blocks, miner_invalid_blocks>>
  BY DEF minerVars, statisticsVars
<1>2. CASE UNCHANGED <<pipe, mq, streamed_block>>
  BY <1>1, <1>2, MovedFrame
<1>3. CASE ValidatorStart(v) \/ ValidatorNemesis(v) \/ ValidatorCheckHash(v)
             \/ ValidatorCheckPool(v)
  BY <1>2, <1>3 DEF ValidatorStart, ValidatorNemesis, ValidatorCheckHash,
     ValidatorCheckPool
<1>4. CASE ValidatorRead(v)
  BY <1>4, MovedRead
<1>5. ASSUME streamed_block[v] # NoBlock, UNCHANGED pipe,
             streamed_block' = [streamed_block EXCEPT ![v] = NoBlock],
             NEW index, NEW amount,
             \/ mq' = mq
             \/ mq' = mq_send(Message(streamed_block[v], index, amount))
      PROVE  Moved(m)
  <2>1. PICK msg : msg = Message(streamed_block[v], index, amount)
    OBVIOUS
  <2>2. msg.miner_id = streamed_block[v].txb_id[1]
    BY <2>1 DEF Message
  <2>3. mq' = mq \/ mq' = Append(mq, msg)
    BY <1>5, <2>1 DEF mq_send
  <2>4. QED
    BY <1>1, <1>5, <2>2, <2>3, MovedLetGo
<1>6. CASE ValidatorCommit(v)
  <2>1. vpc[v] = "commit" /\ UNCHANGED <<pipe, mq>>
        /\ \/ streamed_block' = streamed_block
           \/ streamed_block' = [streamed_block EXCEPT ![v] = NoBlock]
    BY <1>6 DEF ValidatorCommit
  <2>2. streamed_block[v] # NoBlock
    BY <2>1 DEF LedgerInv, TypeOK, ValidatorTypeOK
  <2>3. QED
    BY <1>2, <1>5, <2>1, <2>2
<1>7. CASE ValidatorReport(v)
  <2>1. /\ vpc[v] = "report" /\ UNCHANGED pipe
        /\ streamed_block' = [streamed_block EXCEPT ![v] = NoBlock]
        /\ mq' = mq_send(Message(streamed_block[v], next_index[v],
                                 EarnedAmount(streamed_block[v])))
    BY <1>7 DEF ValidatorReport
  <2>2. streamed_block[v] # NoBlock
    BY <2>1 DEF LedgerInv, TypeOK, ValidatorTypeOK
  <2>3. QED
    BY <1>5, <2>1, <2>2
<1>8. CASE ValidatorReject(v)
  <2>1. /\ vpc[v] = "reject" /\ UNCHANGED pipe
        /\ streamed_block' = [streamed_block EXCEPT ![v] = NoBlock]
        /\ mq' = mq_send(Message(streamed_block[v], -1, -1))
    BY <1>8 DEF ValidatorReject
  <2>2. streamed_block[v] # NoBlock
    BY <2>1 DEF LedgerInv, TypeOK, ValidatorTypeOK
  <2>3. QED
    BY <1>5, <2>1, <2>2
<1>9. CASE ValidatorSigterm(v)
  <2>1. UNCHANGED <<pipe, mq>>
        /\ streamed_block' = [streamed_block EXCEPT ![v] = NoBlock]
    BY <1>9 DEF ValidatorSigterm
  <2>2. CASE streamed_block[v] # NoBlock
    BY <1>5, <2>1, <2>2
  <2>3. CASE streamed_block[v] = NoBlock
    <3>1. streamed_block' = streamed_block
      <4>1. streamed_block = [w \in Validators |-> streamed_block[w]]
        BY DEF LedgerInv, TypeOK, ValidatorTypeOK
      <4>2. QED
        BY <2>1, <2>3, <4>1
    <3>2. QED
      BY <1>2, <2>1, <3>1
  <2>4. QED
    BY <2>2, <2>3
<1>10. QED
  BY <1>3, <1>4, <1>6, <1>7, <1>8, <1>9 DEF ValidatorNext

(* The statistics count every message once, under the miner it names.      *)
LEMMA MovedReceive ==
  ASSUME LedgerInv, NEW m \in Miners, StatisticsReceive,
         UNCHANGED <<minerVars, validatorVars>>
  PROVE  Moved(m)
<1>1. /\ UNCHANGED <<pipe, block, block_number, streamed_block>>
      /\ mq # <<>> /\ mq' = Tail(mq)
  BY DEF StatisticsReceive, minerVars, validatorVars
<1>2. PICK n : n = Head(mq).miner_id
  OBVIOUS
<1>3. n \in Miners
  <2>1. Head(mq) \in StatisticsMessage
    BY <1>1 DEF LedgerInv, TypeOK, StatisticsTypeOK
  <2>2. QED
    BY <1>2, <2>1 DEF StatisticsMessage
<1>4. /\ miner_valid_blocks \in [Miners -> Nat]
      /\ miner_invalid_blocks \in [Miners -> Nat]
  BY DEF LedgerInv, TypeOK, StatisticsTypeOK
<1>5. \/ /\ miner_valid_blocks' =
               [miner_valid_blocks EXCEPT ![n] = miner_valid_blocks[n] + 1]
         /\ miner_invalid_blocks' = miner_invalid_blocks
      \/ /\ miner_invalid_blocks' =
               [miner_invalid_blocks EXCEPT ![n] = miner_invalid_blocks[n] + 1]
         /\ miner_valid_blocks' = miner_valid_blocks
  BY <1>2 DEF StatisticsReceive
<1>6. /\ miner_valid_blocks'[m] \in Nat /\ miner_invalid_blocks'[m] \in Nat
      /\ miner_valid_blocks'[m] + miner_invalid_blocks'[m]
           = miner_valid_blocks[m] + miner_invalid_blocks[m] + Indicator(n = m)
  <2>1. CASE n = m
    <3>1. Indicator(n = m) = 1
      BY <2>1 DEF Indicator
    <3>2. QED
      BY <1>3, <1>4, <1>5, <2>1, <3>1
  <2>2. CASE n # m
    <3>1. Indicator(n = m) = 0
      BY <2>2 DEF Indicator
    <3>2. QED
      BY <1>3, <1>4, <1>5, <2>2, <3>1
  <2>3. QED
    BY <2>1, <2>2
<1>7. /\ Cardinality(QueueOf(m)') \in Nat
      /\ Cardinality(QueueOf(m)) = Cardinality(QueueOf(m)') + Indicator(n = m)
  BY <1>1, <1>2, QueueShortened
<1>8. /\ InTransit(m)' \in Nat
      /\ InTransit(m) = InTransit(m)' + Indicator(n = m)
  <2>1. Indicator(n = m) \in Nat
    BY DEF Indicator
  <2>2. QED
    BY <1>1, <1>7, <2>1, CountsTypes, TransitTypes, TransitFrame
<1>9. Total(m)' = Total(m) /\ Total(m) \in Nat
  <2>1. Total(m)' = InTransit(m)' + miner_valid_blocks'[m] + miner_invalid_blocks'[m]
    BY DEF Total
  <2>2. Total(m) = InTransit(m) + miner_valid_blocks[m] + miner_invalid_blocks[m]
    BY DEF Total
  <2>3. Indicator(n = m) \in Nat
    BY DEF Indicator
  <2>4. QED
    BY <1>6, <1>8, <2>1, <2>2, <2>3, CountsTypes
<1>10. block_number[m] \in Nat /\ block_number'[m] = block_number[m]
  BY <1>1, CountsTypes
<1>11. QED
  BY <1>9, <1>10 DEF Moved

LEMMA MovedNext ==
  ASSUME LedgerInv, [Next]_vars, NEW m \in Miners
  PROVE  Moved(m)
<1>0. TypeOK'
  BY TypeNext DEF LedgerInv
<1>1. ASSUME UNCHANGED <<pipe, mq, streamed_block, block, block_number,
                         miner_valid_blocks, miner_invalid_blocks>>
      PROVE  Moved(m)
  BY <1>1, MovedFrame
<1>2. CASE TxGenStep
  BY <1>1, <1>2 DEF TxGenStep, TxGenNext, TxGenAdd, TxGenPoolFull, TxGenGetValue,
     TxGenPost, minerVars, validatorVars, statisticsVars
<1>3. CASE MinerStep
  <2>1. PICK n \in Miners : MinerNext(n)
    BY <1>3 DEF MinerStep
  <2>2. UNCHANGED <<validatorVars, statisticsVars>>
    BY <1>3 DEF MinerStep
  <2>3. CASE MinerWake(n) \/ MinerCheck(n) \/ MinerSelect(n)
    BY <1>1, <2>2, <2>3 DEF MinerWake, MinerCheck, MinerSelect, validatorVars,
       statisticsVars
  <2>4. CASE MinerReadPrevious(n)
    BY <1>0, <2>2, <2>4, MovedReadPrevious
  <2>5. CASE MinerSubmit(n)
    BY <1>0, <2>2, <2>5, MovedSubmit
  <2>6. QED
    BY <2>1, <2>3, <2>4, <2>5 DEF MinerNext
<1>4. CASE ValidatorStep
  <2>1. PICK v \in Validators : ValidatorNext(v)
    BY <1>4 DEF ValidatorStep
  <2>2. UNCHANGED <<minerVars, statisticsVars>>
    BY <1>4 DEF ValidatorStep
  <2>3. QED
    BY <1>0, <2>1, <2>2, MovedValidator
<1>5. CASE LauncherStep
  BY <1>1, <1>5 DEF LauncherStep, LauncherNext, LauncherFork, LauncherTerminate,
     LauncherReap, LauncherEnd, minerVars, validatorVars,
     statisticsVars
<1>6. CASE StatisticsStep
  BY <1>6, MovedReceive DEF StatisticsStep
<1>7. CASE UNCHANGED vars
  BY <1>1, <1>7 DEF vars, minerVars, validatorVars, statisticsVars
<1>8. QED
  BY <1>2, <1>3, <1>4, <1>5, <1>6, <1>7 DEF Next

LEMMA NothingMoved ==
  ASSUME Init, NEW m \in Miners
  PROVE  Total(m) = 0 /\ block_number[m] = 0
<1>1. /\ block = [n \in Miners |-> NoBlock]
      /\ pipe = <<>> /\ mq = <<>>
      /\ streamed_block = [v \in Validators |-> NoBlock]
      /\ block_number[m] = 0
      /\ miner_valid_blocks[m] = 0 /\ miner_invalid_blocks[m] = 0
  BY DEF Init, SharedInit, MinerInit, ValidatorInit, StatisticsInit
<1>2. PowOf(m) = {} /\ PipeOf(m) = {} /\ HandsOf(m) = {} /\ QueueOf(m) = {}
  BY <1>1 DEF PowOf, PipeOf, HandsOf, QueueOf
<1>3. Cardinality({}) = 0
  BY FS_EmptySet
<1>4. InTransit(m) = 0
  <2>1. InTransit(m) = Cardinality({}) + Cardinality({}) + Cardinality({})
                         + Cardinality({})
    BY <1>2, LedgerInvInit, CountsTypes
  <2>2. QED
    BY ONLY <1>3, <2>1
<1>5. QED
  BY <1>1, <1>4 DEF Total

(* A block is counted at most once, whatever is lost and whoever is ended: *)
(* what a miner has on the way and in the statistics is never more than    *)
(* what it has started.                                                    *)
CountedOnce == \A m \in Miners : Total(m) <= block_number[m]

THEOREM CountedAtMostOnce == Spec => []CountedOnce
<1>1. Init => CountedOnce
  BY NothingMoved DEF CountedOnce
<1>2. LedgerInv /\ CountedOnce /\ [Next]_vars => CountedOnce'
  <2> SUFFICES ASSUME LedgerInv, CountedOnce, [Next]_vars, NEW m \in Miners
               PROVE  Total(m)' <= block_number'[m]
    BY DEF CountedOnce
  <2>1. /\ Total(m) \in Nat /\ Total(m)' \in Nat
        /\ Total(m)' + block_number[m] <= Total(m) + block_number'[m]
    BY MovedNext DEF Moved
  <2>2. Total(m) <= block_number[m] /\ block_number[m] \in Nat
    BY CountsTypes DEF CountedOnce
  <2>3. block_number'[m] \in Nat
    BY TypeNext DEF LedgerInv, TypeOK, MinerTypeOK
  <2>4. QED
    BY <2>1, <2>2, <2>3
<1>3. QED
  BY <1>1, <1>2, LedgerInvInit, LedgerInvNext, PTL DEF Spec

(* As long as every block is answered, every block that a miner starts is  *)
(* in exactly one place: on its way or counted by the statistics.          *)
THEOREM BlocksAllAccounted == Spec /\ [][BlocksAnswered]_vars => []BlocksAccounted
<1>1. Init => BlocksAccounted
  BY NothingMoved DEF BlocksAccounted, Total
<1>2. LedgerInv /\ BlocksAccounted /\ [Next]_vars /\ [BlocksAnswered]_vars
        => BlocksAccounted'
  <2> SUFFICES ASSUME LedgerInv, BlocksAccounted, [Next]_vars, [BlocksAnswered]_vars,
                      NEW m \in Miners
               PROVE  block_number'[m] = Total(m)'
    BY DEF BlocksAccounted, Total
  <2>1. BlocksAnswered
    BY DEF BlocksAnswered, vars, validatorVars
  <2>2. /\ Total(m) \in Nat /\ Total(m)' \in Nat
        /\ Total(m)' + block_number[m] = Total(m) + block_number'[m]
    BY <2>1, MovedNext DEF Moved
  <2>3. Total(m) = block_number[m] /\ block_number[m] \in Nat
    BY CountsTypes DEF BlocksAccounted, Total
  <2>4. block_number'[m] \in Nat
    BY TypeNext DEF LedgerInv, TypeOK, MinerTypeOK
  <2>5. QED
    BY <2>2, <2>3, <2>4
<1>3. QED
  BY <1>1, <1>2, LedgerInvInit, LedgerInvNext, PTL DEF Spec

-----------------------------------------------------------------------------
(* One validator: only a full queue loses a block.                         *)
QueueHasRoom == Len(mq) < STATISTICS_MQ_SIZE

LEMMA AnsweredAlone ==
  ASSUME MAX_VALIDATORS = 1, LedgerInv, SingleInv, QueueHasRoom, [Next]_vars
  PROVE  BlocksAnswered
<1>1. Validators = {1}
  BY DEF Validators
<1>2. streamed_block = [w \in Validators |-> streamed_block[w]]
  BY DEF LedgerInv, TypeOK, ValidatorTypeOK
<1>3. CASE UNCHANGED streamed_block
  BY <1>3 DEF BlocksAnswered
<1>4. ASSUME NEW msg, mq' = mq_send(msg) PROVE BlocksAnswered
  <2>1. mq' = Append(mq, msg)
    BY <1>4 DEF mq_send, QueueHasRoom
  <2>2. Len(mq') = Len(mq) + 1
    BY <2>1 DEF LedgerInv, TypeOK, StatisticsTypeOK
  <2>3. QED
    BY <2>2 DEF BlocksAnswered
<1>5. CASE ValidatorStep
  <2>1. ValidatorNext(1)
    BY <1>1, <1>5 DEF ValidatorStep
  <2>2. CASE ValidatorStart(1) \/ ValidatorNemesis(1) \/ ValidatorCheckHash(1)
               \/ ValidatorCheckPool(1)
    BY <1>3, <2>2 DEF ValidatorStart, ValidatorNemesis, ValidatorCheckHash,
       ValidatorCheckPool
  <2>3. CASE ValidatorRead(1)
    <3>1. streamed_block[1] = NoBlock
      BY <1>1, <2>3 DEF ValidatorRead, LedgerInv, TypeOK, ValidatorTypeOK
    <3>2. QED
      BY <1>1, <3>1 DEF BlocksAnswered
  <2>4. CASE ValidatorCommit(1)
    <3>1. StillExtendsLedger(streamed_block[1])
      BY <1>1, <2>4 DEF ValidatorCommit, SingleInv, ExtendsLedger, StillExtendsLedger
    <3>2. QED
      BY <1>3, <2>4, <3>1 DEF ValidatorCommit
  <2>5. CASE ValidatorReport(1)
    BY <1>4, <2>5 DEF ValidatorReport
  <2>6. CASE ValidatorReject(1)
    BY <1>4, <2>6 DEF ValidatorReject
  <2>7. CASE ValidatorSigterm(1)
    BY <2>7 DEF ValidatorSigterm, SingleInv
  <2>8. QED
    BY <2>1, <2>2, <2>3, <2>4, <2>5, <2>6, <2>7 DEF ValidatorNext
<1>6. CASE TxGenStep \/ MinerStep \/ StatisticsStep
  BY <1>3, <1>6 DEF TxGenStep, MinerStep, StatisticsStep, validatorVars
<1>7. CASE LauncherStep
  BY <1>3, <1>7 DEF LauncherStep, LauncherNext, LauncherFork, LauncherTerminate,
     LauncherReap, LauncherEnd, validatorVars
<1>8. CASE UNCHANGED vars
  BY <1>3, <1>8 DEF vars, validatorVars
<1>9. QED
  BY <1>5, <1>6, <1>7, <1>8 DEF Next

(* With validator 1 alone, and a statistics process that keeps up with its *)
(* queue, credits and blocks are exact.                                    *)
THEOREM ExactAlone ==
  ASSUME MAX_VALIDATORS = 1
  PROVE  Spec /\ []QueueHasRoom => [](CreditsMatchLedger /\ BlocksAccounted)
<1>1. Init => SingleInv
  BY DEF Init, SharedInit, ValidatorInit, SingleInv
<1>2. LedgerInv /\ SingleInv /\ [Next]_vars => SingleInv'
  BY SingleInvNext DEF LedgerInv
<1>3. LedgerInv /\ SingleInv /\ QueueHasRoom /\ [Next]_vars => [BlocksAnswered]_vars
  BY AnsweredAlone
<1>4. Spec /\ []QueueHasRoom => [][BlocksAnswered]_vars
  BY <1>1, <1>2, <1>3, LedgerInvInit, LedgerInvNext, PTL DEF Spec
<1>5. QED
  BY <1>4, CreditsExact, BlocksAllAccounted, PTL
=============================================================================
