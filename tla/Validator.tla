------------------------------ MODULE Validator ------------------------------
(***************************************************************************)
(* The validators (Validator.c): validator 1 runs from the start, 2 and 3  *)
(* are added and removed by the controller.  A validator puts the nemesis  *)
(* block in an empty ledger, then takes blocks from the pipe.  A block is  *)
(* accepted when its previous hash is the hash of the last block and its   *)
(* transactions are in the pool; they leave the pool, the others age, and  *)
(* the block is appended to the ledger if its previous hash is still the   *)
(* hash of the last block.                                                 *)
(*                                                                         *)
(* SIGTERM is ignored until the validator installs its handler; from then  *)
(* on the handler may run between any two steps, and it exits.             *)
(***************************************************************************)
EXTENDS SharedMemory

VARIABLES
  vpc,             \* where a validator is in validator()
  streamed_block,  \* the block in hand, NoBlock when none
  next_index       \* where its last block went in the ledger

validatorVars == <<vpc, streamed_block, next_index>>

ValidatorInit ==
  /\ vpc = [v \in Validators |-> IF v = 1 THEN "boot" ELSE "off"]
  /\ streamed_block = [v \in Validators |-> NoBlock]
  /\ next_index = [v \in Validators |-> 0]

(* A slip of the start: the handler is not installed.                      *)
NeverHandles(v) == FALSE

(* A validator that handles SIGTERM and has not exited.                    *)
Handling(v) == vpc[v] \notin {"off", "boot", "zombie"}

-----------------------------------------------------------------------------
ValidatorStart(v) ==
  /\ vpc[v] = "boot"
  /\ vpc' = [vpc EXCEPT ![v] = "nemesis"]
  /\ UNCHANGED <<poolVars, ledgerVars, minerwork, pipe, mq, sigterm,
                 streamed_block, next_index>>

(* A slip of the initialisation: every validator does it.                  *)
AlwaysNemesis == TRUE

LedgerEmpty == ledger_count = 0

ValidatorNemesis(v) ==
  /\ vpc[v] = "nemesis"
  /\ \/ /\ LedgerEmpty
        /\ blocks' = [blocks EXCEPT ![0] = nemesis_block]
        /\ ledger_count' = 1
        /\ last_block_hash' = compute_sha256(nemesis_block)
        /\ UNCHANGED last_block_index
     \/ ~LedgerEmpty /\ UNCHANGED ledgerVars
  /\ vpc' = [vpc EXCEPT ![v] = "read"]
  /\ UNCHANGED <<poolVars, minerwork, pipe, mq, sigterm,
                 streamed_block, next_index>>

ValidatorRead(v) ==
  /\ vpc[v] = "read"
  /\ pipe # <<>>
  /\ streamed_block' = [streamed_block EXCEPT ![v] = Head(pipe)]
  /\ pipe' = Tail(pipe)
  /\ vpc' = [vpc EXCEPT ![v] = "check_hash"]
  /\ UNCHANGED <<poolVars, ledgerVars, minerwork, mq, sigterm, next_index>>

(* A slip of either comparison: it is left out.                            *)
AnyPrevious(b) == TRUE

ExtendsLedger(b) == b.previous_block_hash = last_block_hash

(* verify_nonce accepts every block that a miner sends: the miner stops    *)
(* only at a nonce that check_difficulty accepts.                          *)
ValidatorCheckHash(v) ==
  /\ vpc[v] = "check_hash"
  /\ vpc' = [vpc EXCEPT ![v] =
               IF ExtendsLedger(streamed_block[v]) THEN "check_pool" ELSE "reject"]
  /\ UNCHANGED <<poolVars, ledgerVars, minerwork, pipe, mq, sigterm,
                 streamed_block, next_index>>

-----------------------------------------------------------------------------
(* A slip of the check of the pool: it is left out.                        *)
AnyTransactions(b) == TRUE

(* Transactions match on every field, the reward included: aging makes a   *)
(* block stale.  (A duplicate is found twice, as nothing is removed yet.)  *)
TransactionsInPool(b) ==
  \A i \in DOMAIN b.transactions :
     \E s \in FilledSlots : pool[s].tx = b.transactions[i]

(* A slip of the removal: it stops at the first transaction of the block.  *)
SlotToRemove(b) == {s \in FilledSlots : pool[s].tx.tx_id = b.transactions[1].tx_id}

SlotsToRemove(b) == {s \in FilledSlots : pool[s].tx.tx_id \in TxIdsOf(b)}

(* A slip of the aging: the reward grows once a period has gone by.        *)
RaisedLate(p) ==
  IF (p.age + 1) % AGING_PERIOD = 0 THEN p.tx.reward + 1 ELSE p.tx.reward

RaisedReward(p) ==
  IF p.age % AGING_PERIOD = 0 THEN p.tx.reward + 1 ELSE p.tx.reward

Aged(p) == [tx  |-> [tx_id |-> p.tx.tx_id, reward |-> RaisedReward(p)],
            age |-> p.age + 1]

(* A slip of the count: one per transaction of the block.                  *)
CountLessBlock(removed) == pool_count - TRANSACTIONS_PER_BLOCK

CountLessRemoved(removed) == pool_count - Cardinality(removed)

(* Check, removal and aging, in one critical section.                      *)
ValidatorCheckPool(v) ==
  /\ vpc[v] = "check_pool"
  /\ \/ /\ TransactionsInPool(streamed_block[v])
        /\ LET removed == SlotsToRemove(streamed_block[v])
           IN  /\ pool' = [s \in Slots |->
                             IF s \in FilledSlots \ removed
                             THEN Aged(pool[s]) ELSE Free]
               /\ pool_count' = CountLessRemoved(removed)
        /\ vpc' = [vpc EXCEPT ![v] = "commit"]
     \/ /\ ~TransactionsInPool(streamed_block[v])
        /\ vpc' = [vpc EXCEPT ![v] = "reject"]
        /\ UNCHANGED poolVars
  /\ UNCHANGED <<ledgerVars, minerwork, pipe, mq, sigterm,
                 streamed_block, next_index>>

NextIndex == last_block_index + 1

StillExtendsLedger(b) == b.previous_block_hash = last_block_hash

(* The second comparison and the append, under the lock of the ledger.  A  *)
(* block that fails it is dropped: no statistics, and its transactions     *)
(* have left the pool.                                                     *)
ValidatorCommit(v) ==
  /\ vpc[v] = "commit"
  /\ \/ /\ StillExtendsLedger(streamed_block[v])
        /\ blocks' = [blocks EXCEPT ![NextIndex] = streamed_block[v]]
        /\ last_block_hash' = compute_sha256(streamed_block[v])
        /\ ledger_count' = ledger_count + 1
        /\ last_block_index' = last_block_index + 1
        /\ next_index' = [next_index EXCEPT ![v] = NextIndex]
        /\ vpc' = [vpc EXCEPT ![v] = "report"]
        /\ UNCHANGED streamed_block
     \/ /\ ~StillExtendsLedger(streamed_block[v])
        /\ vpc' = [vpc EXCEPT ![v] = "read"]
        /\ streamed_block' = [streamed_block EXCEPT ![v] = NoBlock]
        /\ UNCHANGED <<ledgerVars, next_index>>
  /\ UNCHANGED <<poolVars, minerwork, pipe, mq, sigterm>>

-----------------------------------------------------------------------------
(* Sum of the rewards of a block.                                          *)
EarnedAmount(b) ==
  LET sum[i \in 0..TRANSACTIONS_PER_BLOCK] ==
        IF i = 0 THEN 0 ELSE sum[i - 1] + b.transactions[i].reward
  IN  sum[TRANSACTIONS_PER_BLOCK]

(* Slips of the sender: the message is not sent, or is sent twice.         *)
not_sent(msg) == mq
sent_twice(msg) == mq \o <<msg, msg>>

(* The queue is opened O_NONBLOCK: a message that finds it full is lost.   *)
mq_send(msg) == IF Len(mq) < STATISTICS_MQ_SIZE THEN Append(mq, msg) ELSE mq

(* A slip of the parsing: the number of the block is taken for the miner.  *)
MessageByNumber(b, index, amount) ==
  [miner_id |-> b.txb_id[2], block_index |-> index, earned_amount |-> amount]

(* The miner is read back from the id of the block.                        *)
Message(b, index, amount) ==
  [miner_id |-> b.txb_id[1], block_index |-> index, earned_amount |-> amount]

ValidatorReport(v) ==
  /\ vpc[v] = "report"
  /\ mq' = mq_send(Message(streamed_block[v], next_index[v],
                           EarnedAmount(streamed_block[v])))
  /\ vpc' = [vpc EXCEPT ![v] = "read"]
  /\ streamed_block' = [streamed_block EXCEPT ![v] = NoBlock]
  /\ UNCHANGED <<poolVars, ledgerVars, minerwork, pipe, sigterm, next_index>>

ValidatorReject(v) ==
  /\ vpc[v] = "reject"
  /\ mq' = mq_send(Message(streamed_block[v], -1, -1))
  /\ vpc' = [vpc EXCEPT ![v] = "read"]
  /\ streamed_block' = [streamed_block EXCEPT ![v] = NoBlock]
  /\ UNCHANGED <<poolVars, ledgerVars, minerwork, pipe, sigterm, next_index>>

(* The handler logs, closes and exits: what was in hand is lost.           *)
ValidatorSigterm(v) ==
  /\ v \in sigterm
  /\ Handling(v)
  /\ sigterm' = sigterm \ {v}
  /\ vpc' = [vpc EXCEPT ![v] = "zombie"]
  /\ streamed_block' = [streamed_block EXCEPT ![v] = NoBlock]
  /\ next_index' = [next_index EXCEPT ![v] = 0]
  /\ UNCHANGED <<poolVars, ledgerVars, minerwork, pipe, mq>>

ValidatorNext(v) ==
  \/ ValidatorStart(v)
  \/ ValidatorNemesis(v)
  \/ ValidatorRead(v)
  \/ ValidatorCheckHash(v)
  \/ ValidatorCheckPool(v)
  \/ ValidatorCommit(v)
  \/ ValidatorReport(v)
  \/ ValidatorReject(v)
  \/ ValidatorSigterm(v)
=============================================================================
