---------------------------- MODULE SharedMemory ----------------------------
(***************************************************************************)
(* The state that the processes of DEIChain share: the transactions pool   *)
(* and the ledger (shared memory), the validation pipe, the statistics     *)
(* message queue, the semaphore that wakes the miners and the SIGTERMs     *)
(* that the kernel holds for a validator.                                  *)
(*                                                                         *)
(* The pool is accessed under sem_transactions_pool and the ledger under   *)
(* sem_ledger.  No process holds both at once, so that what a process does *)
(* between a sem_wait and its sem_post is one action of its module.        *)
(***************************************************************************)
EXTENDS Integers, Sequences, FiniteSets

CONSTANTS
  TxGens,                  \* the transaction generator processes (their PIDs)
  Miners,                  \* the miner threads
  MAX_VALIDATORS,          \* validator 1, and the 2 the controller may add
  TRANSACTION_POOL_SIZE,   \* config.cfg
  TRANSACTIONS_PER_BLOCK,  \* config.cfg
  BLOCKCHAIN_BLOCKS,       \* config.cfg: capacity of the ledger
  AGING_PERIOD,            \* 50 in the code
  PIPE_CAPACITY,           \* blocks that fit in the validation pipe
  STATISTICS_MQ_SIZE,      \* messages that fit in the queue, 10 in the code
  Free,                    \* a slot of the pool that is not filled
  NoBlock,                 \* a zeroed block of the ledger
  NoHash,                  \* the empty string where a hash is expected
  Genesis                  \* block id, and hash, of the nemesis block

ASSUME ConfigAssumption ==   \* the checks main() makes on config.cfg
  /\ TRANSACTION_POOL_SIZE \in Nat \ {0}
  /\ TRANSACTIONS_PER_BLOCK \in Nat \ {0}
  /\ BLOCKCHAIN_BLOCKS \in Nat \ {0, 1}
  /\ Miners # {} /\ IsFiniteSet(Miners)

ASSUME SystemAssumption ==   \* the constants of the code and of the kernel
  /\ TxGens # {} /\ IsFiniteSet(TxGens)
  /\ MAX_VALIDATORS \in 1..3
  /\ AGING_PERIOD \in Nat \ {0}
  /\ PIPE_CAPACITY \in Nat \ {0}
  /\ STATISTICS_MQ_SIZE \in Nat \ {0}

VARIABLES
  pool,              \* slots of the transactions pool
  pool_count,        \* tx_pool.count
  blocks,            \* slots of the ledger
  ledger_count,      \* ledger.count
  last_block_index,
  last_block_hash,
  minerwork,         \* value of sem_minerwork
  pipe,              \* blocks written to the validation pipe, not yet read
  mq,                \* statistics messages sent, not yet received
  sigterm            \* validators for which a SIGTERM is pending

poolVars   == <<pool, pool_count>>
ledgerVars == <<blocks, ledger_count, last_block_index, last_block_hash>>

-----------------------------------------------------------------------------
Validators == 1..MAX_VALIDATORS
Slots      == 0..(TRANSACTION_POOL_SIZE - 1)

(* A transaction is told apart by its id, "TX-<pid>-<number>", and by its  *)
(* reward, the one field that changes while it is pending.                 *)
TxIds              == TxGens \X Nat
Transaction        == [tx_id : TxIds, reward : Nat]
PendingTransaction == [tx : Transaction, age : Nat]

(* The id of a block is "BLOCK-<thread>-<number>".                         *)
BlockIds         == Miners \X Nat
Hashes           == BlockIds \cup {Genesis, NoHash}
TransactionBlock == [txb_id : BlockIds,
                     previous_block_hash : Hashes,
                     transactions : [1..TRANSACTIONS_PER_BLOCK -> Transaction]]

(* Statistics of a block: its miner, its index in the ledger and the sum   *)
(* of its rewards, both -1 when it is rejected.                            *)
StatisticsMessage == [miner_id : Miners, block_index : Int, earned_amount : Int]

ASSUME NullAssumption ==
  /\ Free \notin PendingTransaction
  /\ NoBlock \notin TransactionBlock
  /\ Genesis \notin BlockIds
  /\ NoHash \notin BlockIds \cup {Genesis}

(* SHA-256 has no collisions that matter here and no two blocks have the   *)
(* same id (invariant BlocksUnique of DEIChain): the id stands for it.     *)
compute_sha256(b) == b.txb_id

nemesis_block == [txb_id |-> Genesis,
                  previous_block_hash |-> NoHash,
                  transactions |-> <<>>]

-----------------------------------------------------------------------------
FilledSlots == {s \in Slots : pool[s] # Free}
FreeSlots   == Slots \ FilledSlots

(* Ids of the transactions of a block.                                     *)
TxIdsOf(b) == {b.transactions[i].tx_id : i \in DOMAIN b.transactions}

(* main() of the controller clears both segments and creates the pipe, the *)
(* queue and sem_minerwork before it forks.                                *)
SharedInit ==
  /\ pool = [s \in Slots |-> Free]
  /\ pool_count = 0
  /\ blocks = [i \in 0..(BLOCKCHAIN_BLOCKS - 1) |-> NoBlock]
  /\ ledger_count = 0
  /\ last_block_index = 0
  /\ last_block_hash = NoHash
  /\ minerwork = 0
  /\ pipe = <<>>
  /\ mq = <<>>
  /\ sigterm = {}
=============================================================================
