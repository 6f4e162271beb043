------------------------------ MODULE DEIChain ------------------------------
(***************************************************************************)
(* The system in operation: generators, miner threads, validators, the     *)
(* launcher of the controller and the statistics process, over the shared  *)
(* memory, the pipe, the queue and the signals.  Each step is a step of    *)
(* one of them; the processes meet only in the variables of SharedMemory   *)
(* and, for the life of a validator, in vpc.                               *)
(***************************************************************************)
EXTENDS TxGen, Miner, Launcher, Statistics

FSE == INSTANCE FiniteSetsExt

vars == <<poolVars, ledgerVars, minerwork, pipe, mq, sigterm, txGenVars,
          minerVars, validatorVars, launcherVars, statisticsVars>>

Init ==
  /\ SharedInit
  /\ TxGenInit
  /\ MinerInit
  /\ ValidatorInit
  /\ LauncherInit
  /\ StatisticsInit

TxGenStep ==
  /\ \E g \in TxGens : TxGenNext(g)
  /\ UNCHANGED <<minerVars, validatorVars, launcherVars, statisticsVars>>

MinerStep ==
  /\ \E m \in Miners : MinerNext(m)
  /\ UNCHANGED <<txGenVars, validatorVars, launcherVars, statisticsVars>>

ValidatorStep ==
  /\ \E v \in Validators : ValidatorNext(v)
  /\ UNCHANGED <<txGenVars, minerVars, launcherVars, statisticsVars>>

LauncherStep ==
  /\ LauncherNext
  /\ UNCHANGED <<txGenVars, minerVars, statisticsVars>>

StatisticsStep ==
  /\ StatisticsReceive
  /\ UNCHANGED <<txGenVars, minerVars, validatorVars, launcherVars>>

Next == TxGenStep \/ MinerStep \/ ValidatorStep \/ LauncherStep \/ StatisticsStep

Spec == Init /\ [][Next]_vars

-----------------------------------------------------------------------------
PoolTypeOK ==
  /\ pool \in [Slots -> PendingTransaction \cup {Free}]
  /\ pool_count \in Int

LedgerTypeOK ==
  /\ blocks \in [0..(BLOCKCHAIN_BLOCKS - 1) ->
                   TransactionBlock \cup {nemesis_block, NoBlock}]
  /\ ledger_count \in Nat
  /\ last_block_index \in Nat
  /\ last_block_hash \in Hashes

ChannelsTypeOK ==
  /\ minerwork \in Nat
  /\ pipe \in Seq(TransactionBlock)
  /\ sigterm \in SUBSET Validators

TxGenTypeOK ==
  /\ gpc \in [TxGens -> {"loop", "getvalue", "post"}]
  /\ tx_number \in [TxGens -> Nat]
  /\ last_signal_count \in [TxGens -> Int]
  /\ to_post \in [TxGens -> 0..Cardinality(Miners)]
  /\ \A g \in TxGens : gpc[g] = "post" <=> to_post[g] # 0

MinerTypeOK ==
  /\ mpc \in [Miners -> {"wait", "check", "select", "previous", "pow", "done"}]
  /\ selected_transactions \in
       [Miners -> [1..TRANSACTIONS_PER_BLOCK -> Transaction] \cup {<<>>}]
  /\ block \in [Miners -> TransactionBlock \cup {NoBlock}]
  /\ block_number \in [Miners -> Nat]
  /\ \A m \in Miners : /\ mpc[m] = "previous" <=> selected_transactions[m] # <<>>
                       /\ mpc[m] = "pow" <=> block[m] # NoBlock

ValidatorTypeOK ==
  /\ vpc \in [Validators -> {"off", "boot", "nemesis", "read", "check_hash",
                "check_pool", "commit", "report", "reject", "zombie"}]
  /\ streamed_block \in [Validators -> TransactionBlock \cup {NoBlock}]
  /\ next_index \in [Validators -> Nat]
  /\ \A v \in Validators :
        streamed_block[v] # NoBlock <=>
          vpc[v] \in {"check_hash", "check_pool", "commit", "report", "reject"}
  /\ lpc \in {"poll", "reap", "ended"}

StatisticsTypeOK ==
  /\ mq \in Seq(StatisticsMessage)
  /\ miner_valid_blocks \in [Miners -> Nat]
  /\ miner_invalid_blocks \in [Miners -> Nat]
  /\ miner_credits \in [Miners -> Int]
  /\ total_blocks_processed \in Nat
  /\ blocks_in_chain \in Nat

(* Types of the variables, and where a process holds a block.              *)
TypeOK ==
  /\ PoolTypeOK
  /\ LedgerTypeOK
  /\ ChannelsTypeOK
  /\ TxGenTypeOK
  /\ MinerTypeOK
  /\ ValidatorTypeOK
  /\ StatisticsTypeOK
-----------------------------------------------------------------------------
(* tx_pool.count, which every process tests and adjusts on its own, is the *)
(* number of filled slots, also when a block repeats a transaction.        *)
PoolCountExact == pool_count = Cardinality(FilledSlots)

Height == 0..(ledger_count - 1)

(* No transaction is spent twice: once it is in a block of the ledger it   *)
(* is in no other block and it is not pending.  Two miners select freely   *)
(* from the same pool, and validators check and append in two separate     *)
(* critical sections.                                                      *)
TransactionsCommittedOnce ==
  /\ \A i, j \in Height :
        i # j => TxIdsOf(blocks[i]) \cap TxIdsOf(blocks[j]) = {}
  /\ \A i \in Height, s \in FilledSlots :
        pool[s].tx.tx_id \notin TxIdsOf(blocks[i])

(* The ledger is a chain that starts at the nemesis block and ends at      *)
(* last_block_hash, however the validators interleave.                     *)
ChainLinked ==
  ledger_count > 0 =>
    /\ last_block_index = ledger_count - 1
    /\ blocks[0] = nemesis_block
    /\ \A i \in Height \ {0} :
          blocks[i].previous_block_hash = compute_sha256(blocks[i - 1])
    /\ last_block_hash = compute_sha256(blocks[last_block_index])

(* The validator appends without a test of the capacity.  It is safe all   *)
(* the same: a block that extends a full ledger would have to be mined on  *)
(* the hash of its last block, and no miner reads that hash.               *)
LedgerWithinCapacity == ledger_count <= BLOCKCHAIN_BLOCKS

(* Blocks that are on their way to the ledger.                             *)
BlocksInFlight ==
  ({block[m] : m \in Miners} \cup {pipe[k] : k \in DOMAIN pipe}
     \cup {streamed_block[v] : v \in {w \in Validators : vpc[w] # "report"}})
  \ {NoBlock}

(* Two blocks with the same id, which the counters of the miner threads    *)
(* must prevent, are the same block; and none comes back once committed.   *)
(* The model takes the id of a block for its hash because of this.         *)
BlocksUnique ==
  /\ \A b, c \in BlocksInFlight : b.txb_id = c.txb_id => b = c
  /\ \A i \in Height, b \in BlocksInFlight : b.txb_id # blocks[i].txb_id
  /\ \A i, j \in Height : i # j => blocks[i].txb_id # blocks[j].txb_id

(* A block of the ledger is never changed: not by a second validator that  *)
(* finds the ledger in use, nor by a late append.                          *)
LedgerAppendOnly ==
  [][ /\ ledger_count' >= ledger_count
      /\ \A i \in Height : blocks'[i] = blocks[i] ]_vars

(* Aging, which stops at every accepted block, pays a transaction one unit *)
(* per started period, and among the transactions of a generator never     *)
(* puts a newer one before an older one.                                   *)
AgingFair ==
  /\ \A s \in FilledSlots :
        pool[s].tx.reward = Reward[pool[s].tx.tx_id[1]]
                              + (pool[s].age + AGING_PERIOD - 1) \div AGING_PERIOD
  /\ \A s, t \in FilledSlots :
        /\ pool[s].tx.tx_id[1] = pool[t].tx.tx_id[1]
        /\ pool[s].tx.tx_id[2] < pool[t].tx.tx_id[2]
        => pool[s].age >= pool[t].age

(* Each generator reads sem_minerwork and then posts what it found         *)
(* missing, so that generators overshoot together: yet never past one      *)
(* round of the miners each.                                               *)
MinerworkBounded == minerwork <= Cardinality(Miners) * Cardinality(TxGens)

-----------------------------------------------------------------------------
(* Sum of the first n values of f.                                         *)
SumTo(f, n) ==
  LET sum[i \in 0..n] == IF i = 0 THEN 0 ELSE sum[i - 1] + f[i]
  IN  sum[n]

BlockRewards(b) ==
  SumTo([i \in 1..TRANSACTIONS_PER_BLOCK |-> b.transactions[i].reward],
        TRANSACTIONS_PER_BLOCK)

(* What the blocks of a miner at these positions of the ledger are worth.  *)
RewardsOf(m, heights) ==
  LET worth == [i \in 1..(BLOCKCHAIN_BLOCKS - 1) |->
                  IF i \in heights /\ blocks[i].txb_id[1] = m
                    THEN BlockRewards(blocks[i]) ELSE 0]
  IN  SumTo(worth, BLOCKCHAIN_BLOCKS - 1)

(* The credits of a miner that are still in the queue.                     *)
CreditsSent(m) ==
  LET credit == [k \in 1..Len(mq) |->
                   IF mq[k].miner_id = m /\ mq[k].block_index # -1
                     THEN mq[k].earned_amount ELSE 0]
  IN  SumTo(credit, Len(mq))

(* A committed block is paid to its miner at most once, and only a         *)
(* committed block is paid.                                                *)
CreditsBackedByLedger ==
  \A m \in Miners :
     miner_credits[m] + CreditsSent(m) <= RewardsOf(m, Height \ {0})

(* The ledger positions whose report is still in a validator.              *)
Unreported == {next_index[v] : v \in {w \in Validators : vpc[w] = "report"}}

(* While no message is lost and no validator is stopped, the credits of a  *)
(* miner are the rewards of its blocks in the ledger, less those whose     *)
(* report is on the way.                                                   *)
CreditsMatchLedger ==
  \A m \in Miners :
     miner_credits[m] + CreditsSent(m) = RewardsOf(m, Height \ ({0} \cup Unreported))

(* Blocks of a miner between the start of the proof of work and the        *)
(* statistics.                                                             *)
InTransit(m) ==
  Cardinality({n \in {m} : block[n] # NoBlock})
    + Cardinality({k \in DOMAIN pipe : pipe[k].txb_id[1] = m})
    + Cardinality({v \in Validators : /\ streamed_block[v] # NoBlock
                                      /\ streamed_block[v].txb_id[1] = m})
    + Cardinality({k \in DOMAIN mq : mq[k].miner_id = m})

(* Every block a miner starts is eventually counted once, valid or not: at *)
(* any time it is in transit or in the statistics.                         *)
BlocksAccounted ==
  \A m \in Miners :
     block_number[m] = InTransit(m) + miner_valid_blocks[m] + miner_invalid_blocks[m]

Generated   == UNION {{<<g, n>> : n \in 0..(tx_number[g] - 1)} : g \in TxGens}
Pending     == {pool[s].tx.tx_id : s \in FilledSlots}
Validating  == UNION {TxIdsOf(streamed_block[v]) :
                        v \in {w \in Validators : vpc[w] = "commit"}}
Integrated  == UNION {TxIdsOf(blocks[i]) : i \in Height}

(* A transaction leaves the pool only into the ledger: generated ones are  *)
(* pending, in the hands of a validator that has accepted them, or         *)
(* committed.                                                              *)
NoTransactionLost == Generated = Pending \cup Validating \cup Integrated

(* The transactions of a block of the ledger are distinct.                 *)
DistinctTransactionsInBlock ==
  \A i \in Height : \A j, k \in DOMAIN blocks[i].transactions :
     j # k => blocks[i].transactions[j].tx_id # blocks[i].transactions[k].tx_id

NothingInTransit ==
  /\ pipe = <<>> /\ mq = <<>>
  /\ \A m \in Miners : block[m] = NoBlock
  /\ \A v \in Validators : Handling(v) /\ streamed_block[v] = NoBlock

(* With nothing on the way and every validator running, the statistics     *)
(* have counted the blocks of the ledger.                                  *)
BlocksInChainCounted ==
  NothingInTransit /\ ledger_count > 0 => blocks_in_chain = ledger_count - 1

(* ... and, valid or not, every block that the validators processed.       *)
BlocksProcessedCounted ==
  NothingInTransit =>
    total_blocks_processed = FSE!MapThenSumSet(LAMBDA m : block_number[m], Miners)
=============================================================================
