-------------------------------- MODULE TxGen --------------------------------
(***************************************************************************)
(* A transaction generator (txGen.c): each iteration of its loop puts a    *)
(* transaction in the first free slot of the pool, or finds the pool full, *)
(* and decides under the lock of the pool whether to wake the miners.  The *)
(* decision is carried out after the lock is released: the generator reads *)
(* the value of sem_minerwork and posts it, one sem_post at a time, up to  *)
(* the number of miners.  A generator that the user stops, between         *)
(* critical sections, is one that takes no more steps.                     *)
(***************************************************************************)
EXTENDS SharedMemory

CONSTANTS
  Reward,   \* first argument of each generator, 1 to 3
  MaxTx     \* bound: transactions that a generator produces

ASSUME TxGenAssumption ==
  /\ Reward \in [TxGens -> 1..3]
  /\ MaxTx \in Nat

VARIABLES
  gpc,                \* "loop", "getvalue" or "post"
  tx_number,          \* number of the next transaction
  last_signal_count,  \* size of the pool when the miners were last signalled
  to_post             \* posts of sem_minerwork that are left to do

txGenVars == <<gpc, tx_number, last_signal_count, to_post>>

TxGenInit ==
  /\ gpc = [g \in TxGens |-> "loop"]
  /\ tx_number = [g \in TxGens |-> 0]
  /\ last_signal_count = [g \in TxGens |-> 0]
  /\ to_post = [g \in TxGens |-> 0]

-----------------------------------------------------------------------------
generate_transaction(g) ==
  [tx  |-> [tx_id |-> <<g, tx_number[g]>>, reward |-> Reward[g]],
   age |-> 0]

FirstFreeSlot(s) == s \in FreeSlots /\ \A t \in FreeSlots : s <= t

ShouldSignal(g, transaction_added, current_count) ==
  /\ current_count >= TRANSACTIONS_PER_BLOCK
  /\ \/ transaction_added
     \/ current_count # last_signal_count[g]
     \/ current_count = TRANSACTION_POOL_SIZE

(* The decision at the end of the critical section.                        *)
DecideSignal(g, transaction_added) ==
  LET should_signal == ShouldSignal(g, transaction_added, pool_count')
  IN  /\ last_signal_count' = IF should_signal
                              THEN [last_signal_count EXCEPT ![g] = pool_count']
                              ELSE last_signal_count
      /\ gpc' = IF should_signal THEN [gpc EXCEPT ![g] = "getvalue"] ELSE gpc

TxGenAdd(g) ==
  /\ gpc[g] = "loop"
  /\ tx_number[g] < MaxTx
  /\ pool_count < TRANSACTION_POOL_SIZE
  /\ \E s \in Slots :
        /\ FirstFreeSlot(s)
        /\ pool' = [pool EXCEPT ![s] = generate_transaction(g)]
  /\ pool_count' = pool_count + 1
  /\ tx_number' = [tx_number EXCEPT ![g] = @ + 1]
  /\ DecideSignal(g, TRUE)
  /\ UNCHANGED <<ledgerVars, minerwork, pipe, mq, sigterm, to_post>>

TxGenPoolFull(g) ==
  /\ gpc[g] = "loop"
  /\ ~(pool_count < TRANSACTION_POOL_SIZE /\ FreeSlots # {})
  /\ UNCHANGED poolVars
  /\ DecideSignal(g, FALSE)
  /\ UNCHANGED <<ledgerVars, minerwork, pipe, mq, sigterm, tx_number, to_post>>

(* A slip of the number of posts: the posts already pending are forgotten. *)
PostsForAllMiners == Cardinality(Miners)

PostsNeeded == Cardinality(Miners) - minerwork

TxGenGetValue(g) ==
  /\ gpc[g] = "getvalue"
  /\ IF PostsNeeded > 0
     THEN /\ to_post' = [to_post EXCEPT ![g] = PostsNeeded]
          /\ gpc' = [gpc EXCEPT ![g] = "post"]
     ELSE /\ gpc' = [gpc EXCEPT ![g] = "loop"]
          /\ UNCHANGED to_post
  /\ UNCHANGED <<poolVars, ledgerVars, minerwork, pipe, mq, sigterm,
                 tx_number, last_signal_count>>

TxGenPost(g) ==
  /\ gpc[g] = "post"
  /\ minerwork' = minerwork + 1
  /\ to_post' = [to_post EXCEPT ![g] = @ - 1]
  /\ gpc' = [gpc EXCEPT ![g] = IF to_post[g] = 1 THEN "loop" ELSE "post"]
  /\ UNCHANGED <<poolVars, ledgerVars, pipe, mq, sigterm,
                 tx_number, last_signal_count>>

TxGenNext(g) ==
  \/ TxGenAdd(g)
  \/ TxGenPoolFull(g)
  \/ TxGenGetValue(g)
  \/ TxGenPost(g)
=============================================================================
