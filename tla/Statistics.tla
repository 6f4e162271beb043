----------------------------- MODULE Statistics -----------------------------
(***************************************************************************)
(* The statistics process (Statistics.c): it receives the messages of the  *)
(* validators and keeps the counters that it prints on SIGUSR1 and at the  *)
(* end.  The mean time of a transaction, the one use it makes of the       *)
(* ledger, is left out.                                                    *)
(***************************************************************************)
EXTENDS SharedMemory

VARIABLES
  miner_valid_blocks,
  miner_invalid_blocks,
  miner_credits,
  total_blocks_processed,
  blocks_in_chain

statisticsVars == <<miner_valid_blocks, miner_invalid_blocks, miner_credits,
                    total_blocks_processed, blocks_in_chain>>

StatisticsInit ==
  /\ miner_valid_blocks = [m \in Miners |-> 0]
  /\ miner_invalid_blocks = [m \in Miners |-> 0]
  /\ miner_credits = [m \in Miners |-> 0]
  /\ total_blocks_processed = 0
  /\ blocks_in_chain = 0

(* A slip of the counters: every message counts as a block of the chain.   *)
AlwaysValid(msg) == TRUE

IsValidBlock(msg) == msg.block_index # -1

StatisticsReceive ==
  /\ mq # <<>>
  /\ mq' = Tail(mq)
  /\ total_blocks_processed' = total_blocks_processed + 1
  /\ LET msg == Head(mq)
     IN  \/ /\ IsValidBlock(msg)
            /\ miner_valid_blocks' =
                 [miner_valid_blocks EXCEPT ![msg.miner_id] = @ + 1]
            /\ miner_credits' =
                 [miner_credits EXCEPT ![msg.miner_id] = @ + msg.earned_amount]
            /\ blocks_in_chain' = blocks_in_chain + 1
            /\ UNCHANGED miner_invalid_blocks
         \/ /\ ~IsValidBlock(msg)
            /\ miner_invalid_blocks' =
                 [miner_invalid_blocks EXCEPT ![msg.miner_id] = @ + 1]
            /\ UNCHANGED <<miner_valid_blocks, miner_credits, blocks_in_chain>>
  /\ UNCHANGED <<poolVars, ledgerVars, minerwork, pipe, sigterm>>
=============================================================================
