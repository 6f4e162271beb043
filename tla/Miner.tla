-------------------------------- MODULE Miner --------------------------------
(***************************************************************************)
(* The miner threads (Miner.c).  A thread waits on sem_minerwork for at    *)
(* most five seconds and then, signalled or not, looks for enough          *)
(* transactions and a ledger that is not full.  It copies transactions out *)
(* of the pool under the lock of the pool (they stay in the pool), reads   *)
(* the hash of the last block under the lock of the ledger, does the proof *)
(* of work outside any lock and writes the block to the pipe.              *)
(***************************************************************************)
EXTENDS SharedMemory

CONSTANT MaxBlockNumber   \* bound: blocks that a thread starts to mine

ASSUME MinerAssumption == MaxBlockNumber \in Nat

VARIABLES
  mpc,                    \* where a thread is in miner_thread()
  selected_transactions,  \* the transactions it copied, <<>> when none
  block,                  \* the block it mines, NoBlock when none
  block_number            \* number of its next block

minerVars == <<mpc, selected_transactions, block, block_number>>

MinerInit ==
  /\ mpc = [m \in Miners |-> "wait"]
  /\ selected_transactions = [m \in Miners |-> <<>>]
  /\ block = [m \in Miners |-> NoBlock]
  /\ block_number = [m \in Miners |-> 0]

-----------------------------------------------------------------------------
(* A slip of the wait: sem_wait for sem_timedwait.                         *)
NoTimeout == FALSE

Timeout == minerwork = 0

(* sem_timedwait returns because it was posted or because five seconds     *)
(* went by; the thread does not look at which.                             *)
MinerWake(m) ==
  /\ mpc[m] = "wait"
  /\ \/ minerwork > 0 /\ minerwork' = minerwork - 1
     \/ Timeout /\ UNCHANGED minerwork
  /\ mpc' = [mpc EXCEPT ![m] = "check"]
  /\ UNCHANGED <<poolVars, ledgerVars, pipe, mq, sigterm,
                 selected_transactions, block, block_number>>

EnoughTransactions == pool_count >= TRANSACTIONS_PER_BLOCK

(* A slip of the test of the ledger: off by one.                           *)
LedgerNotOverfull == ledger_count <= BLOCKCHAIN_BLOCKS

LedgerNotFull == ledger_count < BLOCKCHAIN_BLOCKS

(* The reads that precede the critical section, the pool and then the      *)
(* ledger.  A ledger that is not full at the second read was not full at   *)
(* the first, so that the two amount to one test; a thread that fails it   *)
(* waits again.                                                            *)
MinerCheck(m) ==
  /\ mpc[m] = "check"
  /\ mpc' = [mpc EXCEPT ![m] =
               IF EnoughTransactions /\ LedgerNotFull THEN "select" ELSE "wait"]
  /\ UNCHANGED <<poolVars, ledgerVars, minerwork, pipe, mq, sigterm,
                 selected_transactions, block, block_number>>

(* Random filled slots, one per place of the block.  selected_bitmap is    *)
(* tested and never set: a slot may be picked more than once.              *)
Selections ==
  {[i \in 1..TRANSACTIONS_PER_BLOCK |-> pool[pick[i]].tx] :
     pick \in [1..TRANSACTIONS_PER_BLOCK -> FilledSlots]}

MinerSelect(m) ==
  /\ mpc[m] = "select"
  /\ \/ /\ EnoughTransactions
        /\ \E txs \in Selections :
              selected_transactions' = [selected_transactions EXCEPT ![m] = txs]
        /\ mpc' = [mpc EXCEPT ![m] = "previous"]
     \/ /\ ~EnoughTransactions
        /\ mpc' = [mpc EXCEPT ![m] = "wait"]
        /\ UNCHANGED selected_transactions
  /\ UNCHANGED <<poolVars, ledgerVars, minerwork, pipe, mq, sigterm,
                 block, block_number>>

(* A slip of the numbering: the number is used and not incremented.        *)
SameBlockNumber(m) == block_number[m]

NextBlockNumber(m) == block_number[m] + 1

(* The ledger is tested again under its lock; a thread that finds it full  *)
(* ends.                                                                   *)
MinerReadPrevious(m) ==
  /\ mpc[m] = "previous"
  /\ \/ /\ LedgerNotFull
        /\ block_number[m] < MaxBlockNumber
        /\ block' = [block EXCEPT ![m] =
                       [txb_id |-> <<m, block_number[m]>>,
                        previous_block_hash |-> last_block_hash,
                        transactions |-> selected_transactions[m]]]
        /\ block_number' = [block_number EXCEPT ![m] = NextBlockNumber(m)]
        /\ mpc' = [mpc EXCEPT ![m] = "pow"]
     \/ /\ ~LedgerNotFull
        /\ mpc' = [mpc EXCEPT ![m] = "done"]
        /\ UNCHANGED <<block, block_number>>
  /\ selected_transactions' = [selected_transactions EXCEPT ![m] = <<>>]
  /\ UNCHANGED <<poolVars, ledgerVars, minerwork, pipe, mq, sigterm>>

(* The proof of work, retried until it succeeds, and the write, which      *)
(* waits for room in the pipe.                                             *)
MinerSubmit(m) ==
  /\ mpc[m] = "pow"
  /\ Len(pipe) < PIPE_CAPACITY
  /\ pipe' = Append(pipe, block[m])
  /\ block' = [block EXCEPT ![m] = NoBlock]
  /\ mpc' = [mpc EXCEPT ![m] = "wait"]
  /\ UNCHANGED <<poolVars, ledgerVars, minerwork, mq, sigterm,
                 selected_transactions, block_number>>

MinerNext(m) ==
  \/ MinerWake(m)
  \/ MinerCheck(m)
  \/ MinerSelect(m)
  \/ MinerReadPrevious(m)
  \/ MinerSubmit(m)
=============================================================================
