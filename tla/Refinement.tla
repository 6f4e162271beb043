----------------------------- MODULE Refinement -----------------------------
(***************************************************************************)
(* DEIChain implements Chain.  What Chain calls taken is the block in the  *)
(* hands of a validator between its two critical sections: after the pool  *)
(* check has removed the transactions, before the append.  In between the  *)
(* transactions are in no shared structure at all.                         *)
(***************************************************************************)
EXTENDS DEIChain

TxsInHand == [v \in Validators |->
                IF vpc[v] = "commit" THEN TxIdsOf(streamed_block[v]) ELSE {}]

LedgerAsChain == [i \in 1..ledger_count |-> TxIdsOf(blocks[i - 1])]

TheChain == INSTANCE Chain WITH
  Transactions <- TxGens \X (0..(MaxTx - 1)),
  Holders      <- Validators,
  Capacity     <- BLOCKCHAIN_BLOCKS,
  issued       <- Generated,
  pending      <- Pending,
  taken        <- TxsInHand,
  chain        <- LedgerAsChain

(* Every step of every process is a step of Chain or none: validators      *)
(* commit blocks of the same pool concurrently, each in two critical       *)
(* sections, and miners give them blocks whose transactions others have    *)
(* taken in the meantime.                                                  *)
ImplementsChain == TheChain!Spec
=============================================================================
