----------------------------- MODULE PoolProofs -----------------------------
(***************************************************************************)
(* No transaction of DEIChain is committed twice and the count of the pool *)
(* is exact, for any number of generators, miners and validators.  A       *)
(* transaction is in one place at a time: a slot of the pool, a validator  *)
(* that has taken it out and has not appended its block, or the ledger.    *)
(* Under that invariant DEIChain implements Chain: each step is a step of  *)
(* Chain or leaves what Chain sees unchanged.                              *)
(***************************************************************************)
EXTENDS DEIChainProofs, Refinement

IdOf(s) == pool[s].tx.tx_id

(* Validators between the removal from the pool and the append, and the    *)
(* transactions that each of them has taken.                               *)
Taking   == {v \in Validators : vpc[v] = "commit"}
Taken(v) == TxIdsOf(streamed_block[v])

(* The id has been generated.                                              *)
Issued(id) == id \in TxIds /\ id[2] < tx_number[id[1]]

TransactionsIssued ==
  /\ \A s \in FilledSlots : Issued(IdOf(s))
  /\ \A v \in Taking : \A id \in Taken(v) : Issued(id)
  /\ \A i \in Height : \A id \in TxIdsOf(blocks[i]) : Issued(id)

TransactionsDistinct ==
  /\ \A s, t \in FilledSlots : s # t => IdOf(s) # IdOf(t)
  /\ \A s \in FilledSlots, v \in Taking : IdOf(s) \notin Taken(v)
  /\ \A s \in FilledSlots, i \in Height : IdOf(s) \notin TxIdsOf(blocks[i])
  /\ \A v, w \in Taking : v # w => Taken(v) \cap Taken(w) = {}
  /\ \A v \in Taking, i \in Height : Taken(v) \cap TxIdsOf(blocks[i]) = {}
  /\ \A i, j \in Height : i # j => TxIdsOf(blocks[i]) \cap TxIdsOf(blocks[j]) = {}

PoolInv ==
  /\ LedgerInv
  /\ PoolCountExact
  /\ TransactionsIssued
  /\ TransactionsDistinct

-----------------------------------------------------------------------------
(* The pool and the ledger start empty.                                    *)
LEMMA PoolInvInit == Init => PoolInv
<1> SUFFICES ASSUME Init PROVE PoolInv
  OBVIOUS
<1>1. FilledSlots = {} /\ Height = {} /\ pool_count = 0
  BY DEF Init, SharedInit, FilledSlots, Height
<1>2. Taking = {}
  BY DEF Init, ValidatorInit, Taking
<1>3. PoolCountExact
  BY <1>1, FS_EmptySet DEF PoolCountExact
<1>4. QED
  BY <1>1, <1>2, <1>3, LedgerInvInit DEF PoolInv, TransactionsIssued,
     TransactionsDistinct

(* Nothing that the invariant speaks of changes, except that validators    *)
(* may drop the transactions that they have taken.                         *)
LEMMA PoolFrame ==
  ASSUME PoolInv, LedgerInv',
         UNCHANGED <<poolVars, tx_number, blocks, ledger_count>>,
         \A v \in Taking' : v \in Taking /\ streamed_block'[v] = streamed_block[v]
  PROVE  PoolInv'
<1>1. FilledSlots' = FilledSlots /\ Height' = Height /\ PoolCountExact'
  BY DEF FilledSlots, Height, PoolInv, PoolCountExact, poolVars
<1>2. \A v \in Taking' : v \in Taking /\ Taken(v)' = Taken(v)
  BY DEF Taken
<1>3. \A id : Issued(id)' <=> Issued(id)
  BY DEF Issued
<1>4. /\ \A s : IdOf(s)' = IdOf(s)
      /\ blocks' = blocks
  BY DEF IdOf, poolVars
<1>5. TransactionsIssued'
  BY <1>1, <1>2, <1>3, <1>4 DEF PoolInv, TransactionsIssued
<1>6. TransactionsDistinct'
  BY <1>1, <1>2, <1>4 DEF PoolInv, TransactionsDistinct
<1>7. QED
  BY <1>1, <1>5, <1>6 DEF PoolInv

(* A new transaction has a new id.                                         *)
LEMMA PoolAdd ==
  ASSUME PoolInv, LedgerInv', NEW g \in TxGens, TxGenAdd(g),
         UNCHANGED <<vpc, streamed_block>>
  PROVE  PoolInv'
<1> USE DEF PoolInv
<1>0. PICK new : new = <<g, tx_number[g]>>
  OBVIOUS
<1>1. /\ pool \in [Slots -> PendingTransaction \cup {Free}]
      /\ tx_number \in [TxGens -> Nat]
  BY DEF LedgerInv, TypeOK, PoolTypeOK, TxGenTypeOK
<1>2. PICK s \in FreeSlots : pool' = [pool EXCEPT ![s] = generate_transaction(g)]
  BY DEF TxGenAdd, FirstFreeSlot
<1>3. /\ pool_count' = pool_count + 1
      /\ tx_number' = [tx_number EXCEPT ![g] = tx_number[g] + 1]
      /\ UNCHANGED <<blocks, ledger_count>>
  BY DEF TxGenAdd, ledgerVars
<1>4. generate_transaction(g) \in PendingTransaction
  BY <1>1, TxGenAssumption DEF generate_transaction, PendingTransaction,
     Transaction, TxIds
<1>5. generate_transaction(g) # Free /\ generate_transaction(g).tx.tx_id = new
  BY <1>0, <1>4, NullAssumption DEF generate_transaction
<1>6. /\ FilledSlots' = FilledSlots \cup {s}
      /\ s \in Slots /\ s \notin FilledSlots /\ FilledSlots \subseteq Slots
  BY <1>1, <1>2, <1>5 DEF FilledSlots, FreeSlots
<1>7. /\ pool'[s].tx.tx_id = new
      /\ \A t \in FilledSlots : pool'[t].tx.tx_id = pool[t].tx.tx_id
  BY <1>1, <1>2, <1>5, <1>6
<1>8. /\ Height' = Height /\ Taking' = Taking /\ blocks' = blocks
      /\ streamed_block' = streamed_block
  BY <1>3 DEF Height, Taking
<1>9. /\ ~Issued(new)
      /\ Issued(new)'
      /\ \A id : Issued(id) => Issued(id)'
  <2>1. new \in TxIds /\ new[1] = g /\ new[2] = tx_number[g]
    BY <1>0, <1>1 DEF TxIds
  <2>2. ASSUME NEW id, Issued(id) PROVE Issued(id)'
    <3>1. id[1] \in TxGens /\ id[2] \in Nat
      BY <2>2 DEF Issued, TxIds
    <3>2. QED
      BY <1>1, <1>3, <2>2, <3>1 DEF Issued
  <2>3. ~Issued(new)
    BY <1>1, <2>1 DEF Issued
  <2>4. QED
    BY <1>1, <1>3, <2>1, <2>2, <2>3 DEF Issued
<1>10. PoolCountExact'
  BY <1>3, <1>6, FilledSlotsFinite, FS_AddElement DEF PoolCountExact
<1>11. TransactionsIssued'
  BY <1>6, <1>7, <1>8, <1>9 DEF TransactionsIssued, IdOf, Taken
<1>12. TransactionsDistinct'
  <2>1. \A id : Issued(id) => id # new
    BY <1>9
  <2>2. \A t, u \in FilledSlots' : t # u => pool'[t].tx.tx_id # pool'[u].tx.tx_id
    BY <1>6, <1>7, <2>1 DEF TransactionsIssued, TransactionsDistinct, IdOf
  <2>3. \A t \in FilledSlots', v \in Taking : pool'[t].tx.tx_id \notin Taken(v)
    BY <1>6, <1>7, <2>1 DEF TransactionsIssued, TransactionsDistinct, IdOf
  <2>4. \A t \in FilledSlots', i \in Height : pool'[t].tx.tx_id \notin TxIdsOf(blocks[i])
    BY <1>6, <1>7, <2>1 DEF TransactionsIssued, TransactionsDistinct, IdOf
  <2>5. \A v : Taken(v)' = Taken(v)
    BY <1>8 DEF Taken
  <2>6. QED
    BY <1>8, <2>2, <2>3, <2>4, <2>5 DEF TransactionsDistinct, IdOf
<1>13. QED
  BY <1>10, <1>11, <1>12

(* A validator that accepts a block moves its transactions from the pool   *)
(* to its hands; the transactions that age keep their ids.                 *)
LEMMA PoolAccept ==
  ASSUME PoolInv, LedgerInv', NEW v \in Validators, ValidatorCheckPool(v),
         TransactionsInPool(streamed_block[v]), UNCHANGED tx_number
  PROVE  PoolInv'
<1> USE DEF PoolInv
<1>0. PICK removed : removed = SlotsToRemove(streamed_block[v])
  OBVIOUS
<1>1. /\ pool \in [Slots -> PendingTransaction \cup {Free}]
      /\ FilledSlots \subseteq Slots /\ removed \subseteq FilledSlots
      /\ vpc = [w \in Validators |-> vpc[w]]
  BY <1>0 DEF LedgerInv, TypeOK, PoolTypeOK, FilledSlots, SlotsToRemove,
     ValidatorTypeOK
<1>2. /\ pool' = [s \in Slots |-> IF s \in FilledSlots \ removed
                                  THEN Aged(pool[s]) ELSE Free]
      /\ pool_count' = pool_count - Cardinality(removed)
      /\ vpc' = [vpc EXCEPT ![v] = "commit"]
      /\ UNCHANGED <<ledgerVars, streamed_block>>
  <2>1. ~(vpc' = [vpc EXCEPT ![v] = "reject"] /\ ~TransactionsInPool(streamed_block[v]))
    OBVIOUS
  <2>2. QED
    BY <1>0, <2>1, Zenon DEF ValidatorCheckPool, CountLessRemoved
<1>3. \A s \in FilledSlots : Aged(pool[s]) # Free /\ Aged(pool[s]).tx.tx_id = IdOf(s)
  <2>1. \A s \in FilledSlots : Aged(pool[s]) \in PendingTransaction
    BY <1>1, AgedType DEF FilledSlots
  <2>2. QED
    BY <2>1, NullAssumption DEF Aged, IdOf
<1>4. FilledSlots' = FilledSlots \ removed
  BY <1>1, <1>2, <1>3 DEF FilledSlots
<1>5. \A s \in FilledSlots' : IdOf(s)' = IdOf(s)
  BY <1>1, <1>2, <1>3, <1>4 DEF IdOf
<1>6. \A s \in FilledSlots' : IdOf(s) \notin Taken(v)
  BY <1>0, <1>4 DEF SlotsToRemove, IdOf, Taken
<1>7. \A id \in Taken(v) : \E s \in FilledSlots : IdOf(s) = id
  BY DEF Taken, TxIdsOf, TransactionsInPool, IdOf
<1>8. Taking' = Taking \cup {v} /\ v \notin Taking
  BY <1>1, <1>2 DEF Taking, ValidatorCheckPool
<1>9. /\ Height' = Height /\ blocks' = blocks
      /\ \A w : Taken(w)' = Taken(w)
      /\ \A id : Issued(id)' <=> Issued(id)
  BY <1>2 DEF Height, ledgerVars, Taken, Issued
<1>10. PoolCountExact'
  <2>1. FilledSlots \cap removed = removed
    BY <1>1
  <2>2. Cardinality(FilledSlots \ removed) = Cardinality(FilledSlots) - Cardinality(removed)
    BY <1>1, <2>1, FilledSlotsFinite, FS_Difference
  <2>3. QED
    BY <1>2, <1>4, <2>2 DEF PoolCountExact
<1>11. TransactionsIssued'
  BY <1>4, <1>5, <1>7, <1>8, <1>9 DEF TransactionsIssued
<1>12. TransactionsDistinct'
  <2>1. /\ \A s, t \in FilledSlots' : s # t => IdOf(s) # IdOf(t)
        /\ \A s \in FilledSlots', i \in Height : IdOf(s) \notin TxIdsOf(blocks[i])
    BY <1>4 DEF TransactionsDistinct
  <2>2. \A s \in FilledSlots', w \in Taking' : IdOf(s) \notin Taken(w)
    BY <1>4, <1>6, <1>8 DEF TransactionsDistinct
  <2>3. \A w, x \in Taking' : w # x => Taken(w) \cap Taken(x) = {}
    BY <1>7, <1>8 DEF TransactionsDistinct
  <2>4. \A w \in Taking', i \in Height : Taken(w) \cap TxIdsOf(blocks[i]) = {}
    BY <1>7, <1>8 DEF TransactionsDistinct
  <2>5. QED
    BY <1>5, <1>9, <2>1, <2>2, <2>3, <2>4 DEF TransactionsDistinct
<1>13. QED
  BY <1>10, <1>11, <1>12

(* The append moves the transactions of the block to the ledger.           *)
LEMMA PoolCommit ==
  ASSUME PoolInv, LedgerInv', NEW v \in Validators, ValidatorCommit(v),
         UNCHANGED tx_number
  PROVE  PoolInv'
<1> USE DEF PoolInv
<1>1. /\ v \in Taking /\ v \in Held /\ UNCHANGED poolVars
      /\ vpc = [w \in Validators |-> vpc[w]]
      /\ streamed_block = [w \in Validators |-> streamed_block[w]]
  BY DEF ValidatorCommit, Taking, Held, LedgerInv, TypeOK, ValidatorTypeOK
<1>2. CASE ~StillExtendsLedger(streamed_block[v])
  <2>1. /\ vpc' = [vpc EXCEPT ![v] = "read"]
        /\ streamed_block' = [streamed_block EXCEPT ![v] = NoBlock]
        /\ UNCHANGED ledgerVars
    BY <1>2 DEF ValidatorCommit
  <2>2. \A w \in Taking' : w \in Taking /\ streamed_block'[w] = streamed_block[w]
    BY <1>1, <2>1 DEF Taking
  <2>3. QED
    BY <1>1, <2>1, <2>2, PoolFrame DEF ledgerVars
<1>3. CASE StillExtendsLedger(streamed_block[v])
  <2>1. /\ ledger_count \in Nat \ {0} /\ ledger_count < BLOCKCHAIN_BLOCKS
        /\ NextIndex = ledger_count
    BY <1>1, <1>3, AppendFits DEF NextIndex
  <2>2. /\ vpc' = [vpc EXCEPT ![v] = "report"]
        /\ blocks' = [blocks EXCEPT ![ledger_count] = streamed_block[v]]
        /\ ledger_count' = ledger_count + 1
        /\ UNCHANGED streamed_block
    BY <1>3, <2>1 DEF ValidatorCommit
  <2>3. /\ blocks'[ledger_count] = streamed_block[v]
        /\ \A i \in Height : blocks'[i] = blocks[i]
    BY <2>1, <2>2, ConfigAssumption DEF Height, LedgerInv, TypeOK, LedgerTypeOK
  <2>4. Height' = Height \cup {ledger_count} /\ ledger_count \notin Height
    BY <2>1, <2>2 DEF Height
  <2>5. TxIdsOf(blocks'[ledger_count]) = Taken(v)
    BY <2>3 DEF Taken
  <2>6. \A i \in Height : TxIdsOf(blocks'[i]) = TxIdsOf(blocks[i])
    BY <2>3
  <2>7. Taking' = Taking \ {v}
    BY <1>1, <2>2 DEF Taking
  <2>8. /\ FilledSlots' = FilledSlots /\ PoolCountExact'
        /\ \A s : IdOf(s)' = IdOf(s)
        /\ \A w : Taken(w)' = Taken(w)
        /\ \A id : Issued(id)' <=> Issued(id)
    BY <1>1, <2>2 DEF FilledSlots, PoolCountExact, poolVars, IdOf, Taken, Issued
  <2>9. TransactionsIssued'
    BY <1>1, <2>4, <2>5, <2>6, <2>7, <2>8 DEF TransactionsIssued
  <2>10. TransactionsDistinct'
    <3>1. /\ \A s, t \in FilledSlots : s # t => IdOf(s) # IdOf(t)
          /\ \A s \in FilledSlots, w \in Taking' : IdOf(s) \notin Taken(w)
          /\ \A w, x \in Taking' : w # x => Taken(w) \cap Taken(x) = {}
      BY <2>7 DEF TransactionsDistinct
    <3>2. \A s \in FilledSlots, i \in Height' : IdOf(s) \notin TxIdsOf(blocks'[i])
      BY <1>1, <2>4, <2>5, <2>6 DEF TransactionsDistinct
    <3>3. \A w \in Taking', i \in Height' : Taken(w) \cap TxIdsOf(blocks'[i]) = {}
      BY <1>1, <2>4, <2>5, <2>6, <2>7 DEF TransactionsDistinct
    <3>4. \A i, j \in Height' : i # j => TxIdsOf(blocks'[i]) \cap TxIdsOf(blocks'[j]) = {}
      BY <1>1, <2>4, <2>5, <2>6 DEF TransactionsDistinct
    <3>5. QED
      BY <2>8, <3>1, <3>2, <3>3, <3>4 DEF TransactionsDistinct
  <2>11. QED
    BY <2>8, <2>9, <2>10
<1>4. QED
  BY <1>2, <1>3

(* The nemesis block has no transactions.                                  *)
LEMMA PoolNemesis ==
  ASSUME PoolInv, LedgerInv', NEW v \in Validators, ValidatorNemesis(v),
         UNCHANGED tx_number
  PROVE  PoolInv'
<1> USE DEF PoolInv
<1>1. /\ vpc' = [vpc EXCEPT ![v] = "read"] /\ UNCHANGED <<poolVars, streamed_block>>
      /\ vpc = [w \in Validators |-> vpc[w]]
  BY DEF ValidatorNemesis, LedgerInv, TypeOK, ValidatorTypeOK
<1>2. \A w \in Taking' : w \in Taking /\ streamed_block'[w] = streamed_block[w]
  BY <1>1 DEF Taking
<1>3. CASE ~LedgerEmpty
  BY <1>1, <1>2, <1>3, PoolFrame DEF ValidatorNemesis, LedgerEmpty, ledgerVars
<1>4. CASE LedgerEmpty
  <2>1. /\ ledger_count = 0 /\ ledger_count' = 1
        /\ blocks'[0] = nemesis_block
    BY <1>4, ConfigAssumption DEF ValidatorNemesis, LedgerEmpty, LedgerInv, TypeOK,
       LedgerTypeOK
  <2>2. Taking = {}
    BY <2>1 DEF Taking, LedgerInv, LedgerShape
  <2>3. Height' = {0} /\ Taking' = {}
    BY <1>2, <2>1, <2>2 DEF Height
  <2>4. TxIdsOf(nemesis_block) = {}
    BY DEF TxIdsOf, nemesis_block
  <2>5. /\ FilledSlots' = FilledSlots /\ PoolCountExact'
        /\ \A s : IdOf(s)' = IdOf(s)
        /\ \A id : Issued(id)' <=> Issued(id)
    BY <1>1 DEF FilledSlots, PoolCountExact, poolVars, IdOf, Issued
  <2>6. \A i \in Height' : TxIdsOf(blocks'[i]) = {}
    BY <2>1, <2>3, <2>4
  <2>7. TransactionsIssued'
    BY <2>3, <2>5, <2>6 DEF TransactionsIssued
  <2>8. TransactionsDistinct'
    BY <2>3, <2>5, <2>6 DEF TransactionsDistinct
  <2>9. QED
    BY <2>5, <2>7, <2>8
<1>5. QED
  BY <1>3, <1>4

-----------------------------------------------------------------------------
(* PoolInv is inductive: four actions move a transaction, the others are   *)
(* frames.                                                                 *)
LEMMA PoolInvNext == PoolInv /\ [Next]_vars => PoolInv'
<1> SUFFICES ASSUME PoolInv, [Next]_vars PROVE PoolInv'
  OBVIOUS
<1>0. LedgerInv'
  BY LedgerInvNext DEF PoolInv
<1>1. CASE UNCHANGED <<poolVars, tx_number, blocks, ledger_count, vpc, streamed_block>>
  BY <1>0, <1>1, PoolFrame DEF Taking
<1>2. CASE TxGenStep
  <2>1. PICK g \in TxGens : TxGenNext(g)
    BY <1>2 DEF TxGenStep
  <2>2. UNCHANGED <<vpc, streamed_block>>
    BY <1>2 DEF TxGenStep, validatorVars
  <2>3. CASE TxGenAdd(g)
    BY <1>0, <2>2, <2>3, PoolAdd
  <2>4. CASE TxGenPoolFull(g) \/ TxGenGetValue(g) \/ TxGenPost(g)
    BY <1>1, <2>2, <2>4 DEF TxGenPoolFull, TxGenGetValue, TxGenPost, ledgerVars
  <2>5. QED
    BY <2>1, <2>3, <2>4 DEF TxGenNext
<1>3. CASE MinerStep
  BY <1>1, <1>3 DEF MinerStep, MinerNext, MinerWake, MinerCheck, MinerSelect,
     MinerReadPrevious, MinerSubmit, ledgerVars, txGenVars, validatorVars
<1>4. CASE ValidatorStep
  <2>1. PICK v \in Validators : ValidatorNext(v)
    BY <1>4 DEF ValidatorStep
  <2>2. UNCHANGED tx_number
    BY <1>4 DEF ValidatorStep, txGenVars
  <2>3. /\ vpc = [w \in Validators |-> vpc[w]]
        /\ streamed_block = [w \in Validators |-> streamed_block[w]]
    BY DEF PoolInv, LedgerInv, TypeOK, ValidatorTypeOK
  <2>4. ASSUME UNCHANGED <<poolVars, blocks, ledger_count>>,
               NEW pc, vpc' = [vpc EXCEPT ![v] = pc], pc # "commit",
               \A w \in Validators \ {v} : streamed_block'[w] = streamed_block[w]
        PROVE  PoolInv'
    <3>1. \A w \in Taking' : w \in Taking /\ streamed_block'[w] = streamed_block[w]
      BY <2>3, <2>4 DEF Taking
    <3>2. QED
      BY <1>0, <2>2, <2>4, <3>1, PoolFrame
  <2>5. CASE ValidatorStart(v)
    BY <2>4, <2>5 DEF ValidatorStart, ledgerVars
  <2>6. CASE ValidatorNemesis(v)
    BY <1>0, <2>2, <2>6, PoolNemesis
  <2>7. CASE ValidatorRead(v)
    BY <2>3, <2>4, <2>7 DEF ValidatorRead, ledgerVars
  <2>8. CASE ValidatorCheckHash(v)
    <3>1. \/ vpc' = [vpc EXCEPT ![v] = "check_pool"]
          \/ vpc' = [vpc EXCEPT ![v] = "reject"]
      BY <2>8, Zenon DEF ValidatorCheckHash
    <3>2. UNCHANGED <<poolVars, blocks, ledger_count, streamed_block>>
      BY <2>8 DEF ValidatorCheckHash, ledgerVars
    <3>3. QED
      BY <2>4, <3>1, <3>2
  <2>9. CASE ValidatorCheckPool(v)
    <3>1. CASE TransactionsInPool(streamed_block[v])
      BY <1>0, <2>2, <2>9, <3>1, PoolAccept
    <3>2. CASE ~TransactionsInPool(streamed_block[v])
      <4>1. /\ vpc' = [vpc EXCEPT ![v] = "reject"]
            /\ UNCHANGED <<poolVars, ledgerVars, streamed_block>>
        BY <2>9, <3>2, Zenon DEF ValidatorCheckPool
      <4>2. QED
        BY <2>4, <4>1 DEF ledgerVars
    <3>3. QED
      BY <3>1, <3>2
  <2>10. CASE ValidatorCommit(v)
    BY <1>0, <2>2, <2>10, PoolCommit
  <2>11. CASE ValidatorReport(v)
    BY <2>3, <2>4, <2>11 DEF ValidatorReport, ledgerVars
  <2>12. CASE ValidatorReject(v)
    BY <2>3, <2>4, <2>12 DEF ValidatorReject, ledgerVars
  <2>13. CASE ValidatorSigterm(v)
    BY <2>3, <2>4, <2>13 DEF ValidatorSigterm, ledgerVars
  <2>14. QED
    BY <2>1, <2>5, <2>6, <2>7, <2>8, <2>9, <2>10, <2>11, <2>12, <2>13 DEF ValidatorNext
<1>5. CASE LauncherStep
  <2>1. UNCHANGED <<poolVars, tx_number, blocks, ledger_count, streamed_block>>
    BY <1>5 DEF LauncherStep, LauncherNext, LauncherFork, LauncherTerminate,
       LauncherReap, LauncherEnd, ledgerVars, txGenVars, validatorVars
  <2>2. \A v \in Validators : vpc'[v] = vpc[v] \/ vpc'[v] \in {"boot", "off"}
    BY <1>5 DEF LauncherStep, LauncherNext, LauncherFork, LauncherTerminate,
       LauncherReap, LauncherEnd, validatorVars
  <2>3. QED
    BY <1>0, <2>1, <2>2, PoolFrame DEF Taking
<1>6. CASE StatisticsStep
  BY <1>1, <1>6 DEF StatisticsStep, StatisticsReceive, ledgerVars, txGenVars,
     validatorVars
<1>7. CASE UNCHANGED vars
  BY <1>1, <1>7 DEF vars, ledgerVars, txGenVars, validatorVars
<1>8. QED
  BY <1>2, <1>3, <1>4, <1>5, <1>6, <1>7 DEF Next

(* The inductive invariant of the transactions: each id that the           *)
(* generators have produced is in at most one slot of the pool, one        *)
(* accepting validator or one block of the ledger.                         *)
THEOREM PoolSafe == Spec => []PoolInv
BY PoolInvInit, PoolInvNext, PTL DEF Spec

(* tx_pool.count, which generators and validators adjust on their own, is  *)
(* the number of filled slots.                                             *)
THEOREM CountIsExact == Spec => []PoolCountExact
<1>1. PoolInv => PoolCountExact
  BY DEF PoolInv
<1>2. QED
  BY <1>1, PoolSafe, PTL

(* No transaction is in two blocks of the ledger, or in one and still      *)
(* pending, although a validator checks and appends a block in two         *)
(* critical sections.                                                      *)
THEOREM CommittedOnce == Spec => []TransactionsCommittedOnce
<1>1. PoolInv => TransactionsCommittedOnce
  BY DEF PoolInv, TransactionsDistinct, TransactionsCommittedOnce, IdOf
<1>2. QED
  BY <1>1, PoolSafe, PTL
-----------------------------------------------------------------------------
(* Aging.                                                                  *)

(* Each unit of age adds to the reward at the start of a period only: what *)
(* RaisedReward decides by the remainder is the quotient rounded up.       *)
LEMMA StartedPeriods ==
  ASSUME NEW p \in Nat \ {0}, NEW n \in Nat
  PROVE  /\ (0 + p - 1) \div p = 0
         /\ (n + 1 + p - 1) \div p =
              (n + p - 1) \div p + (IF n % p = 0 THEN 1 ELSE 0)
<1> DEFINE q == n \div p
           r == n % p
<1>1. q \in Nat /\ r \in 0..(p - 1) /\ n = p * q + r
  OBVIOUS
<1> HIDE DEF q, r
<1>2. ASSUME NEW a \in Int, NEW c \in Int, NEW d \in 0..(p - 1), a = p * c + d
      PROVE  a \div p = c
  BY <1>2
<1>3. (0 + p - 1) \div p = 0
  BY <1>2
<1>4. (n + 1 + p - 1) \div p = q + 1
  BY <1>1, <1>2
<1>5. CASE r = 0
  BY <1>1, <1>2, <1>4, <1>3, <1>5
<1>6. CASE r # 0
  BY <1>1, <1>2, <1>4, <1>6
<1>7. QED
  BY <1>3, <1>5, <1>6 DEF r

(* A new transaction has the reward of its generator and no age, and every *)
(* pending one of the same generator has a smaller number.                 *)
LEMMA AgingAdd ==
  ASSUME PoolInv, AgingFair, NEW g \in TxGens, TxGenAdd(g)
  PROVE  AgingFair'
<1> DEFINE new == generate_transaction(g)
<1>1. pool \in [Slots -> PendingTransaction \cup {Free}]
  BY DEF PoolInv, LedgerInv, TypeOK, PoolTypeOK
<1>2. PICK s \in FreeSlots : pool' = [pool EXCEPT ![s] = new]
  BY DEF TxGenAdd, FirstFreeSlot
<1>3. tx_number[g] \in Nat /\ Reward[g] \in Nat
  BY TxGenAssumption DEF PoolInv, LedgerInv, TypeOK, TxGenTypeOK
<1>4. /\ new.age = 0 /\ new.tx.reward = Reward[g]
      /\ new.tx.tx_id[1] = g /\ new.tx.tx_id[2] = tx_number[g]
  BY DEF generate_transaction
<1>5. /\ s \in Slots /\ pool'[s] = new
      /\ \A t \in Slots \ {s} : pool'[t] = pool[t]
  BY <1>1, <1>2 DEF FreeSlots
<1>6. FilledSlots' \subseteq FilledSlots \cup {s}
  BY <1>5 DEF FilledSlots
<1>7. \A t \in FilledSlots :
        /\ pool[t].age \in Nat
        /\ pool[t].tx.tx_id[1] = g => pool[t].tx.tx_id[2] < tx_number[g]
  <2>1. \A t \in FilledSlots : pool[t] \in PendingTransaction
    BY <1>1 DEF FilledSlots
  <2>2. \A t \in FilledSlots : Issued(IdOf(t))
    BY DEF PoolInv, TransactionsIssued
  <2>3. QED
    BY <2>1, <2>2 DEF PendingTransaction, Issued, IdOf
<1>8. FilledSlots \subseteq Slots /\ s \notin FilledSlots
  BY <1>2 DEF FilledSlots, FreeSlots
<1> HIDE DEF new
<1>9. ASSUME NEW t \in FilledSlots'
      PROVE  pool'[t].tx.reward = Reward[pool'[t].tx.tx_id[1]]
               + (pool'[t].age + AGING_PERIOD - 1) \div AGING_PERIOD
  <2>1. CASE t = s
    <3>1. (0 + AGING_PERIOD - 1) \div AGING_PERIOD = 0
      BY StartedPeriods, SystemAssumption
    <3>2. QED
      BY <1>3, <1>4, <1>5, <2>1, <3>1
  <2>2. CASE t # s
    BY <1>5, <1>6, <1>8, <1>9, <2>2 DEF AgingFair
  <2>3. QED
    BY <2>1, <2>2
<1>10. ASSUME NEW t \in FilledSlots', NEW u \in FilledSlots',
              pool'[t].tx.tx_id[1] = pool'[u].tx.tx_id[1],
              pool'[t].tx.tx_id[2] < pool'[u].tx.tx_id[2]
       PROVE  pool'[t].age >= pool'[u].age
  <2>1. CASE t = s /\ u = s
    BY <1>3, <1>4, <1>5, <1>10, <2>1
  <2>2. CASE t = s /\ u # s
    <3>1. u \in FilledSlots /\ pool'[u] = pool[u]
      BY <1>5, <1>6, <1>8, <2>2
    <3>2. pool[u].tx.tx_id[2] < tx_number[g] /\ pool[u].tx.tx_id[2] \in Nat
      <4>1. pool[u] \in PendingTransaction
        BY <1>1, <3>1 DEF FilledSlots
      <4>2. QED
        BY <1>4, <1>5, <1>7, <1>10, <2>2, <3>1, <4>1 DEF PendingTransaction,
           Transaction, TxIds
    <3>3. QED
      BY <1>3, <1>4, <1>5, <1>10, <2>2, <3>1, <3>2
  <2>3. CASE t # s /\ u = s
    BY <1>4, <1>5, <1>6, <1>7, <1>8, <2>3
  <2>4. CASE t # s /\ u # s
    BY <1>5, <1>6, <1>8, <1>10, <2>4 DEF AgingFair
  <2>5. QED
    BY <2>1, <2>2, <2>3, <2>4
<1>11. QED
  BY <1>9, <1>10 DEF AgingFair

(* An accepted block ages every transaction that stays by one.             *)
LEMMA AgingAccept ==
  ASSUME PoolInv, AgingFair, NEW v \in Validators, ValidatorCheckPool(v)
  PROVE  AgingFair'
<1>1. pool \in [Slots -> PendingTransaction \cup {Free}]
  BY DEF PoolInv, LedgerInv, TypeOK, PoolTypeOK
<1>2. CASE UNCHANGED pool
  BY <1>2 DEF AgingFair, FilledSlots
<1>3. CASE \E removed : pool' = [s \in Slots |-> IF s \in FilledSlots \ removed
                                                 THEN Aged(pool[s]) ELSE Free]
  <2>1. PICK removed : pool' = [s \in Slots |-> IF s \in FilledSlots \ removed
                                                THEN Aged(pool[s]) ELSE Free]
    BY <1>3
  <2>2. \A s \in FilledSlots' : s \in FilledSlots /\ pool'[s] = Aged(pool[s])
    BY <2>1 DEF FilledSlots
  <2>3. ASSUME NEW s \in FilledSlots'
        PROVE  /\ pool[s].age \in Nat
               /\ pool'[s].age = pool[s].age + 1
               /\ pool'[s].tx.tx_id = pool[s].tx.tx_id
               /\ pool'[s].tx.reward = pool[s].tx.reward
                    + (IF pool[s].age % AGING_PERIOD = 0 THEN 1 ELSE 0)
    <3>1. pool[s] \in PendingTransaction /\ pool'[s] = Aged(pool[s])
      BY <1>1, <2>2, <2>3 DEF FilledSlots
    <3>2. pool[s].tx.reward \in Nat /\ pool[s].age \in Nat
      BY <3>1 DEF PendingTransaction, Transaction
    <3>3. QED
      BY <3>1, <3>2 DEF Aged, RaisedReward
  <2>4. ASSUME NEW s \in FilledSlots'
        PROVE  pool'[s].tx.reward = Reward[pool'[s].tx.tx_id[1]]
                 + (pool'[s].age + AGING_PERIOD - 1) \div AGING_PERIOD
    <3> DEFINE age == pool[s].age
               r == Reward[pool[s].tx.tx_id[1]]
               more == IF age % AGING_PERIOD = 0 THEN 1 ELSE 0
    <3>1. /\ age \in Nat /\ pool'[s].age = age + 1
          /\ pool'[s].tx.tx_id = pool[s].tx.tx_id
          /\ pool'[s].tx.reward = pool[s].tx.reward + more
      BY <2>3
    <3>2. pool[s].tx.reward = r + (age + AGING_PERIOD - 1) \div AGING_PERIOD
      BY <2>2 DEF AgingFair
    <3>3. (age + 1 + AGING_PERIOD - 1) \div AGING_PERIOD =
            (age + AGING_PERIOD - 1) \div AGING_PERIOD + more
      BY <3>1, StartedPeriods, SystemAssumption
    <3>4. r \in Nat
      <4>1. s \in FilledSlots /\ pool[s] \in PendingTransaction
        BY <1>1, <2>2 DEF FilledSlots
      <4>2. pool[s].tx.tx_id[1] \in TxGens
        BY <4>1 DEF PendingTransaction, Transaction, TxIds
      <4>3. QED
        BY <4>2, TxGenAssumption
    <3>5. (age + AGING_PERIOD - 1) \div AGING_PERIOD \in Int /\ more \in Int
      BY <3>1, SystemAssumption
    <3> HIDE DEF age, r, more
    <3>6. QED
      BY <3>1, <3>2, <3>3, <3>4, <3>5 DEF r
  <2>5. ASSUME NEW s \in FilledSlots', NEW t \in FilledSlots',
               pool'[s].tx.tx_id[1] = pool'[t].tx.tx_id[1],
               pool'[s].tx.tx_id[2] < pool'[t].tx.tx_id[2]
        PROVE  pool'[s].age >= pool'[t].age
    <3>1. pool[s].age >= pool[t].age
      BY <2>2, <2>3, <2>5 DEF AgingFair
    <3>2. QED
      BY <2>3, <3>1
  <2>6. QED
    BY <2>4, <2>5 DEF AgingFair
<1>4. QED
  <2>1. (\E removed : pool' = [s \in Slots |-> IF s \in FilledSlots \ removed
                                               THEN Aged(pool[s]) ELSE Free])
        \/ UNCHANGED poolVars
    BY Zenon DEF ValidatorCheckPool
  <2>2. QED
    BY <1>2, <1>3, <2>1 DEF poolVars

(* Nobody else writes in the pool.                                         *)
LEMMA AgingNext == PoolInv /\ AgingFair /\ [Next]_vars => AgingFair'
<1> SUFFICES ASSUME PoolInv, AgingFair, [Next]_vars PROVE AgingFair'
  OBVIOUS
<1>1. CASE UNCHANGED pool
  BY <1>1 DEF AgingFair, FilledSlots
<1>2. CASE \E g \in TxGens : TxGenAdd(g)
  BY <1>2, AgingAdd
<1>3. CASE \E v \in Validators : ValidatorCheckPool(v)
  BY <1>3, AgingAccept
<1>4. UNCHANGED pool \/ (\E g \in TxGens : TxGenAdd(g))
                     \/ (\E v \in Validators : ValidatorCheckPool(v))
  <2>1. CASE TxGenStep
    BY <2>1 DEF TxGenStep, TxGenNext, TxGenPoolFull, TxGenGetValue, TxGenPost, poolVars
  <2>2. CASE MinerStep
    BY <2>2 DEF MinerStep, MinerNext, MinerWake, MinerCheck, MinerSelect,
       MinerReadPrevious, MinerSubmit, poolVars
  <2>3. CASE ValidatorStep
    BY <2>3 DEF ValidatorStep, ValidatorNext, ValidatorStart, ValidatorNemesis,
       ValidatorRead, ValidatorCheckHash, ValidatorCommit, ValidatorReport,
       ValidatorReject, ValidatorSigterm, poolVars
  <2>4. CASE LauncherStep
    BY <2>4 DEF LauncherStep, LauncherNext, LauncherFork, LauncherTerminate,
       LauncherReap, LauncherEnd, poolVars
  <2>5. CASE StatisticsStep
    BY <2>5 DEF StatisticsStep, StatisticsReceive, poolVars
  <2>6. CASE UNCHANGED vars
    BY <2>6 DEF vars, poolVars
  <2>7. QED
    BY <2>1, <2>2, <2>3, <2>4, <2>5, <2>6 DEF Next
<1>5. QED
  BY <1>1, <1>2, <1>3, <1>4

(* The reward of a pending transaction is what its generator pays and one  *)
(* unit per started period of its age, and no transaction is older than    *)
(* one that its generator made before it, however blocks are accepted.     *)
THEOREM AgingIsFair == Spec => []AgingFair
<1>1. Init => AgingFair
  BY DEF Init, SharedInit, AgingFair, FilledSlots
<1>2. QED
  BY <1>1, PoolInvInit, PoolInvNext, AgingNext, PTL DEF Spec
-----------------------------------------------------------------------------
(* Transactions that are lost.                                             *)

(* No validator drops a block whose transactions it has taken: it is not   *)
(* ended between its two critical sections, and the second comparison of   *)
(* the hash succeeds.                                                      *)
KeepsTaken == \A v \in Taking : vpc'[v] \in {"commit", "report"}

(* Every id that was generated is somewhere.                               *)
AllKept == \A id : Issued(id) => id \in Pending \cup Validating \cup Integrated

(* Where ids are, in terms of the places of PoolInv.                       *)
LEMMA PlacesOfIds ==
  ASSUME NEW id
  PROVE  /\ id \in Pending <=> \E s \in FilledSlots : IdOf(s) = id
         /\ id \in Validating <=> \E v \in Taking : id \in Taken(v)
         /\ id \in Integrated <=> \E i \in Height : id \in TxIdsOf(blocks[i])
BY DEF Pending, IdOf, Validating, Taking, Taken, Integrated

(* What is somewhere was generated: it remains to show that nothing that   *)
(* was generated is missing.                                               *)
LEMMA LostMeansMissing ==
  ASSUME PoolInv
  PROVE  NoTransactionLost <=> AllKept
<1>1. tx_number \in [TxGens -> Nat]
  BY DEF PoolInv, LedgerInv, TypeOK, TxGenTypeOK
<1>2. \A id : id \in Generated <=> Issued(id)
  <2>1. ASSUME NEW id, id \in Generated PROVE Issued(id)
    <3>1. PICK g \in TxGens : id \in {<<g, n>> : n \in 0..(tx_number[g] - 1)}
      BY <2>1 DEF Generated
    <3>2. PICK n \in 0..(tx_number[g] - 1) : id = <<g, n>>
      BY <3>1
    <3>3. QED
      BY <1>1, <3>2 DEF Issued, TxIds
  <2>2. ASSUME NEW id, Issued(id) PROVE id \in Generated
    <3>1. /\ id \in TxIds /\ id = <<id[1], id[2]>> /\ id[1] \in TxGens
          /\ id[2] \in 0..(tx_number[id[1]] - 1)
      BY <1>1, <2>2 DEF Issued, TxIds
    <3>2. id \in {<<id[1], n>> : n \in 0..(tx_number[id[1]] - 1)}
      BY <3>1
    <3>3. QED
      BY <3>1, <3>2, Zenon DEF Generated
  <2>3. QED
    BY <2>1, <2>2
<1>3. \A id : id \in Pending \cup Validating \cup Integrated => Issued(id)
  BY PlacesOfIds DEF PoolInv, TransactionsIssued
<1>4. QED
  BY <1>2, <1>3 DEF NoTransactionLost, AllKept

(* Steps that leave pool, generators and ledger alone lose nothing as long *)
(* as validators keep what they have taken.                                *)
LEMMA KeptFrame ==
  ASSUME AllKept, UNCHANGED <<poolVars, tx_number, blocks, ledger_count>>,
         \A v \in Taking : v \in Taking' /\ streamed_block'[v] = streamed_block[v]
  PROVE  AllKept'
<1>1. /\ FilledSlots' = FilledSlots /\ Height' = Height /\ blocks' = blocks
      /\ \A s : IdOf(s)' = IdOf(s)
      /\ \A id : Issued(id)' <=> Issued(id)
  BY DEF FilledSlots, Height, IdOf, Issued, poolVars
<1>2. \A v \in Taking : v \in Taking' /\ Taken(v)' = Taken(v)
  BY DEF Taken
<1>3. ASSUME NEW id, Issued(id)' PROVE (id \in Pending \cup Validating \cup Integrated)'
  <2>1. id \in Pending \cup Validating \cup Integrated
    BY <1>1, <1>3 DEF AllKept
  <2>2. /\ id \in Pending => id \in Pending'
        /\ id \in Integrated => id \in Integrated'
    BY <1>1 DEF Pending, IdOf, Integrated
  <2>3. id \in Validating => id \in Validating'
    <3>1. SUFFICES ASSUME id \in Validating PROVE id \in Validating'
      OBVIOUS
    <3>2. PICK v \in Taking : id \in Taken(v)
      BY <3>1 DEF Validating, Taking, Taken
    <3>3. QED
      BY <1>2, <3>2 DEF Validating, Taking, Taken
  <2>4. QED
    BY <2>1, <2>2, <2>3
<1>4. QED
  BY <1>3 DEF AllKept

(* A generator puts the id that it generates in the pool.                  *)
LEMMA KeptAdd ==
  ASSUME PoolInv, AllKept, NEW g \in TxGens, TxGenAdd(g),
         UNCHANGED <<vpc, streamed_block>>
  PROVE  AllKept'
<1>1. /\ pool \in [Slots -> PendingTransaction \cup {Free}]
      /\ tx_number \in [TxGens -> Nat]
  BY DEF PoolInv, LedgerInv, TypeOK, PoolTypeOK, TxGenTypeOK
<1>2. PICK s \in FreeSlots : pool' = [pool EXCEPT ![s] = generate_transaction(g)]
  BY DEF TxGenAdd, FirstFreeSlot
<1>3. /\ tx_number' = [tx_number EXCEPT ![g] = tx_number[g] + 1]
      /\ UNCHANGED <<blocks, ledger_count>>
  BY DEF TxGenAdd, ledgerVars
<1>4. generate_transaction(g) \in PendingTransaction
  BY <1>1, TxGenAssumption DEF generate_transaction, PendingTransaction,
     Transaction, TxIds
<1>5. /\ FilledSlots' = FilledSlots \cup {s}
      /\ s \in Slots /\ s \notin FilledSlots /\ FilledSlots \subseteq Slots
  <2>1. generate_transaction(g) # Free
    BY <1>4, NullAssumption
  <2>2. QED
    BY <1>1, <1>2, <2>1 DEF FilledSlots, FreeSlots
<1>6. /\ pool'[s].tx.tx_id = <<g, tx_number[g]>>
      /\ \A t \in FilledSlots : pool'[t].tx.tx_id = pool[t].tx.tx_id
  BY <1>1, <1>2, <1>5 DEF generate_transaction
<1>7. Validating' = Validating /\ Integrated' = Integrated
  BY <1>3 DEF Validating, Integrated, Height
<1>8. \A id \in Pending : id \in Pending'
  BY <1>5, <1>6 DEF Pending
<1>9. ASSUME NEW id, Issued(id)' PROVE (id \in Pending \cup Validating \cup Integrated)'
  <2>1. id \in TxIds /\ id[1] \in TxGens /\ id[2] \in Nat /\ id[2] < tx_number'[id[1]]
    BY <1>9 DEF Issued, TxIds
  <2>2. CASE id = <<g, tx_number[g]>>
    BY <1>5, <1>6, <2>2 DEF Pending
  <2>3. CASE id # <<g, tx_number[g]>>
    <3>1. Issued(id)
      BY <1>1, <1>3, <2>1, <2>3 DEF Issued, TxIds
    <3>2. QED
      BY <1>7, <1>8, <3>1 DEF AllKept
  <2>4. QED
    BY <2>2, <2>3
<1>10. QED
  BY <1>9 DEF AllKept

(* What leaves the pool is in the hands of the validator.                  *)
LEMMA KeptAccept ==
  ASSUME PoolInv, AllKept, NEW v \in Validators, ValidatorCheckPool(v),
         TransactionsInPool(streamed_block[v]), UNCHANGED tx_number
  PROVE  AllKept'
<1>0. PICK removed : removed = SlotsToRemove(streamed_block[v])
  OBVIOUS
<1>1. /\ pool \in [Slots -> PendingTransaction \cup {Free}]
      /\ FilledSlots \subseteq Slots
      /\ vpc = [w \in Validators |-> vpc[w]]
  BY DEF PoolInv, LedgerInv, TypeOK, PoolTypeOK, FilledSlots, ValidatorTypeOK
<1>2. /\ pool' = [s \in Slots |-> IF s \in FilledSlots \ removed
                                  THEN Aged(pool[s]) ELSE Free]
      /\ vpc' = [vpc EXCEPT ![v] = "commit"]
      /\ UNCHANGED <<ledgerVars, streamed_block>>
  <2>1. ~(vpc' = [vpc EXCEPT ![v] = "reject"] /\ ~TransactionsInPool(streamed_block[v]))
    OBVIOUS
  <2>2. QED
    BY <1>0, <2>1, Zenon DEF ValidatorCheckPool
<1>3. /\ \A w \in Taking : w \in Taking' /\ Taken(w)' = Taken(w)
      /\ v \in Taking' /\ Taken(v)' = Taken(v)
  BY <1>1, <1>2 DEF Taking, Taken
<1>4. ASSUME NEW s \in FilledSlots
      PROVE  IdOf(s) \in Pending' \cup Validating'
  <2>1. CASE s \in removed
    <3>1. IdOf(s) \in Taken(v)
      BY <1>0, <2>1 DEF SlotsToRemove, IdOf, Taken
    <3>2. QED
      BY <1>3, <3>1 DEF Validating, Taking, Taken
  <2>2. CASE s \notin removed
    <3>1. Aged(pool[s]) \in PendingTransaction
      BY <1>1, AgedType DEF FilledSlots
    <3>2. pool'[s] # Free /\ pool'[s].tx.tx_id = IdOf(s)
      BY <1>1, <1>2, <2>2, <3>1, NullAssumption DEF Aged, IdOf
    <3>3. s \in FilledSlots'
      BY <1>1, <3>2 DEF FilledSlots
    <3>4. QED
      BY <3>2, <3>3 DEF Pending
  <2>3. QED
    BY <2>1, <2>2
<1>5. Integrated' = Integrated
  BY <1>2 DEF Integrated, Height, ledgerVars
<1>6. ASSUME NEW id, Issued(id)' PROVE (id \in Pending \cup Validating \cup Integrated)'
  <2>1. Issued(id)
    BY <1>6 DEF Issued
  <2>2. CASE id \in Pending
    BY <1>4, <2>2 DEF Pending, IdOf
  <2>3. CASE id \in Validating
    BY <1>3, <2>3 DEF Validating, Taking, Taken
  <2>4. QED
    BY <1>5, <2>1, <2>2, <2>3 DEF AllKept
<1>7. QED
  BY <1>6 DEF AllKept

(* What the validator had in its hands goes to the ledger.                 *)
LEMMA KeptCommit ==
  ASSUME PoolInv, AllKept, KeepsTaken, NEW v \in Validators, ValidatorCommit(v),
         UNCHANGED tx_number
  PROVE  AllKept'
<1> USE DEF PoolInv
<1>1. /\ v \in Taking /\ v \in Held /\ UNCHANGED poolVars
      /\ vpc = [w \in Validators |-> vpc[w]]
  BY DEF ValidatorCommit, Taking, Held, LedgerInv, TypeOK, ValidatorTypeOK
<1>2. StillExtendsLedger(streamed_block[v])
  <2>1. vpc'[v] \in {"commit", "report"}
    BY <1>1 DEF KeepsTaken
  <2>2. QED
    BY <1>1, <2>1 DEF ValidatorCommit
<1>3. /\ ledger_count \in Nat \ {0} /\ ledger_count < BLOCKCHAIN_BLOCKS
      /\ NextIndex = ledger_count
  BY <1>1, <1>2, AppendFits DEF NextIndex
<1>4. /\ vpc' = [vpc EXCEPT ![v] = "report"]
      /\ blocks' = [blocks EXCEPT ![ledger_count] = streamed_block[v]]
      /\ ledger_count' = ledger_count + 1
      /\ UNCHANGED streamed_block
  BY <1>2, <1>3 DEF ValidatorCommit
<1>5. /\ blocks'[ledger_count] = streamed_block[v]
      /\ \A i \in Height : blocks'[i] = blocks[i]
  BY <1>3, <1>4, ConfigAssumption DEF Height, LedgerInv, TypeOK, LedgerTypeOK
<1>6. Height' = Height \cup {ledger_count}
  BY <1>3, <1>4 DEF Height
<1>7. \A id \in Pending : id \in Pending'
  BY <1>1 DEF Pending, FilledSlots, poolVars
<1>8. \A id \in Integrated : id \in Integrated'
  BY <1>5, <1>6 DEF Integrated
<1>9. ASSUME NEW id \in Validating PROVE id \in Validating' \cup Integrated'
  <2>1. PICK w \in Taking : id \in Taken(w)
    BY <1>9 DEF Validating, Taking, Taken
  <2>2. CASE w = v
    <3>1. id \in TxIdsOf(blocks'[ledger_count])
      BY <1>5, <2>1, <2>2 DEF Taken
    <3>2. QED
      BY <1>6, <3>1 DEF Integrated
  <2>3. CASE w # v
    <3>1. vpc'[w] = "commit" /\ w \in Validators /\ streamed_block'[w] = streamed_block[w]
      BY <1>1, <1>4, <2>1, <2>3 DEF Taking
    <3>2. QED
      BY <2>1, <3>1 DEF Validating, Taken
  <2>4. QED
    BY <2>2, <2>3
<1>10. \A id : Issued(id)' <=> Issued(id)
  BY DEF Issued
<1>11. QED
  BY <1>7, <1>8, <1>9, <1>10 DEF AllKept

(* The nemesis block replaces an empty ledger.                             *)
LEMMA KeptNemesis ==
  ASSUME PoolInv, AllKept, NEW v \in Validators, ValidatorNemesis(v),
         UNCHANGED tx_number
  PROVE  AllKept'
<1>1. /\ vpc' = [vpc EXCEPT ![v] = "read"] /\ UNCHANGED <<poolVars, streamed_block>>
      /\ vpc = [w \in Validators |-> vpc[w]] /\ vpc[v] = "nemesis"
  BY DEF ValidatorNemesis, PoolInv, LedgerInv, TypeOK, ValidatorTypeOK
<1>2. \A w \in Taking : w \in Taking' /\ streamed_block'[w] = streamed_block[w]
  BY <1>1 DEF Taking
<1>3. CASE ~LedgerEmpty
  BY <1>1, <1>2, <1>3, KeptFrame DEF ValidatorNemesis, LedgerEmpty, ledgerVars
<1>4. CASE LedgerEmpty
  <2>1. Integrated = {}
    BY <1>4 DEF Integrated, Height, LedgerEmpty
  <2>2. Pending' = Pending
    BY <1>1 DEF Pending, FilledSlots, poolVars
  <2>3. \A id \in Validating : id \in Validating'
    <3>1. SUFFICES ASSUME NEW w \in Taking, NEW id \in Taken(w) PROVE id \in Validating'
      BY DEF Validating, Taking, Taken
    <3>2. QED
      BY <1>2, <3>1 DEF Validating, Taking, Taken
  <2>4. \A id : Issued(id)' <=> Issued(id)
    BY DEF Issued
  <2>5. QED
    BY <2>1, <2>2, <2>3, <2>4 DEF AllKept
<1>5. QED
  BY <1>3, <1>4

(* Every other step is a frame.                                            *)
LEMMA KeptNext == PoolInv /\ AllKept /\ [Next]_vars /\ [KeepsTaken]_vars => AllKept'
<1> SUFFICES ASSUME PoolInv, AllKept, [Next]_vars, [KeepsTaken]_vars PROVE AllKept'
  OBVIOUS
<1>1. CASE UNCHANGED <<poolVars, tx_number, blocks, ledger_count, vpc, streamed_block>>
  BY <1>1, KeptFrame DEF Taking
<1>2. CASE TxGenStep
  <2>1. PICK g \in TxGens : TxGenNext(g)
    BY <1>2 DEF TxGenStep
  <2>2. UNCHANGED <<vpc, streamed_block>>
    BY <1>2 DEF TxGenStep, validatorVars
  <2>3. CASE TxGenAdd(g)
    BY <2>2, <2>3, KeptAdd
  <2>4. CASE TxGenPoolFull(g) \/ TxGenGetValue(g) \/ TxGenPost(g)
    BY <1>1, <2>2, <2>4 DEF TxGenPoolFull, TxGenGetValue, TxGenPost, ledgerVars
  <2>5. QED
    BY <2>1, <2>3, <2>4 DEF TxGenNext
<1>3. CASE MinerStep
  BY <1>1, <1>3 DEF MinerStep, MinerNext, MinerWake, MinerCheck, MinerSelect,
     MinerReadPrevious, MinerSubmit, ledgerVars, txGenVars, validatorVars
<1>4. CASE ValidatorStep
  <2>1. PICK v \in Validators : ValidatorNext(v)
    BY <1>4 DEF ValidatorStep
  <2>2. UNCHANGED tx_number
    BY <1>4 DEF ValidatorStep, txGenVars
  <2>3. /\ vpc = [w \in Validators |-> vpc[w]]
        /\ streamed_block = [w \in Validators |-> streamed_block[w]]
    BY DEF PoolInv, LedgerInv, TypeOK, ValidatorTypeOK
  <2>4. CASE vpc' = vpc
    BY <2>1, <2>3, <2>4 DEF ValidatorNext, ValidatorStart, ValidatorNemesis,
       ValidatorRead, ValidatorCheckHash, ValidatorCheckPool, ValidatorCommit,
       ValidatorReport, ValidatorReject, ValidatorSigterm, Handling
  <2>5. CASE KeepsTaken
    <3>1. ASSUME UNCHANGED <<poolVars, blocks, ledger_count>>,
                 NEW pc, vpc' = [vpc EXCEPT ![v] = pc], v \notin Taking,
                 \A w \in Validators \ {v} : streamed_block'[w] = streamed_block[w]
          PROVE  AllKept'
      <4>1. \A w \in Taking : w \in Taking' /\ streamed_block'[w] = streamed_block[w]
        BY <2>3, <3>1 DEF Taking
      <4>2. QED
        BY <2>2, <3>1, <4>1, KeptFrame
    <3>2. CASE ValidatorStart(v)
      BY <3>1, <3>2 DEF ValidatorStart, ledgerVars, Taking
    <3>3. CASE ValidatorNemesis(v)
      BY <2>2, <3>3, KeptNemesis
    <3>4. CASE ValidatorRead(v)
      BY <2>3, <3>1, <3>4 DEF ValidatorRead, ledgerVars, Taking
    <3>5. CASE ValidatorCheckHash(v)
      <4>1. \/ vpc' = [vpc EXCEPT ![v] = "check_pool"]
            \/ vpc' = [vpc EXCEPT ![v] = "reject"]
        BY <3>5, Zenon DEF ValidatorCheckHash
      <4>2. UNCHANGED <<poolVars, blocks, ledger_count, streamed_block>> /\ v \notin Taking
        BY <3>5 DEF ValidatorCheckHash, ledgerVars, Taking
      <4>3. QED
        BY <3>1, <4>1, <4>2
    <3>6. CASE ValidatorCheckPool(v)
      <4>1. CASE TransactionsInPool(streamed_block[v])
        BY <2>2, <3>6, <4>1, KeptAccept
      <4>2. CASE ~TransactionsInPool(streamed_block[v])
        <5>1. /\ vpc' = [vpc EXCEPT ![v] = "reject"]
              /\ UNCHANGED <<poolVars, ledgerVars, streamed_block>>
          BY <3>6, <4>2, Zenon DEF ValidatorCheckPool
        <5>2. v \notin Taking
          BY <3>6 DEF ValidatorCheckPool, Taking
        <5>3. QED
          BY <3>1, <5>1, <5>2 DEF ledgerVars
      <4>3. QED
        BY <4>1, <4>2
    <3>7. CASE ValidatorCommit(v)
      BY <2>2, <2>5, <3>7, KeptCommit
    <3>8. CASE ValidatorReport(v)
      BY <2>3, <3>1, <3>8 DEF ValidatorReport, ledgerVars, Taking
    <3>9. CASE ValidatorReject(v)
      BY <2>3, <3>1, <3>9 DEF ValidatorReject, ledgerVars, Taking
    <3>10. CASE ValidatorSigterm(v)
      <4>1. vpc'[v] = "zombie"
        BY <2>3, <3>10 DEF ValidatorSigterm
      <4>2. v \notin Taking
        BY <2>5, <4>1 DEF KeepsTaken
      <4>3. QED
        BY <2>3, <3>1, <3>10, <4>2 DEF ValidatorSigterm, ledgerVars
    <3>11. QED
      BY <2>1, <3>2, <3>3, <3>4, <3>5, <3>6, <3>7, <3>8, <3>9, <3>10 DEF ValidatorNext
  <2>6. QED
    BY <2>4, <2>5 DEF vars, validatorVars
<1>5. CASE LauncherStep
  <2>1. UNCHANGED <<poolVars, tx_number, blocks, ledger_count, streamed_block>>
    BY <1>5 DEF LauncherStep, LauncherNext, LauncherFork, LauncherTerminate,
       LauncherReap, LauncherEnd, ledgerVars, txGenVars, validatorVars
  <2>2. \A v \in Taking : vpc'[v] = "commit"
    BY <1>5 DEF LauncherStep, LauncherNext, LauncherFork, LauncherTerminate,
       LauncherReap, LauncherEnd, validatorVars, ToLaunch, Taking
  <2>3. QED
    BY <2>1, <2>2, KeptFrame DEF Taking
<1>6. CASE StatisticsStep
  BY <1>1, <1>6 DEF StatisticsStep, StatisticsReceive, ledgerVars, txGenVars,
     validatorVars
<1>7. CASE UNCHANGED vars
  BY <1>1, <1>7 DEF vars, ledgerVars, txGenVars, validatorVars
<1>8. QED
  BY <1>2, <1>3, <1>4, <1>5, <1>6, <1>7 DEF Next

(* Nothing has been generated.                                             *)
LEMMA KeptInit == Init => AllKept
BY DEF Init, TxGenInit, AllKept, Issued, TxIds

(* Transactions are lost only with a block that a validator accepts and    *)
(* does not append: as long as none does, every transaction is pending, in *)
(* the hands of a validator or in the ledger.                              *)
THEOREM LostOnlyWithBlock == Spec /\ [][KeepsTaken]_vars => []NoTransactionLost
<1>1. PoolInv /\ AllKept => NoTransactionLost
  BY LostMeansMissing
<1>2. QED
  BY <1>1, KeptInit, KeptNext, PoolInvInit, PoolInvNext, PTL DEF Spec

-----------------------------------------------------------------------------
(* One validator.                                                          *)

(* Nobody is told to end, and between the two comparisons of the hash      *)
(* nobody else appends a block.                                            *)
SingleInv ==
  /\ sigterm = {}
  /\ \A v \in Validators :
        vpc[v] \in {"check_pool", "commit"} => ExtendsLedger(streamed_block[v])

LEMMA SingleInvNext ==
  ASSUME MAX_VALIDATORS = 1, TypeOK, SingleInv, [Next]_vars
  PROVE  SingleInv' /\ [KeepsTaken]_vars
<1>1. Validators = {1} /\ Auxiliary = {}
  BY DEF Validators, Auxiliary
<1>2. /\ vpc = [w \in Validators |-> vpc[w]]
      /\ streamed_block = [w \in Validators |-> streamed_block[w]]
  BY DEF TypeOK, ValidatorTypeOK
<1>3. CASE UNCHANGED <<sigterm, last_block_hash, vpc, streamed_block>>
  BY <1>3 DEF SingleInv, ExtendsLedger, KeepsTaken, Taking
<1>4. CASE ValidatorStep
  <2>1. ValidatorNext(1)
    BY <1>1, <1>4 DEF ValidatorStep
  <2>2. CASE ValidatorStart(1)
    BY <1>1, <1>2, <2>2 DEF ValidatorStart, SingleInv, KeepsTaken, Taking
  <2>3. CASE ValidatorNemesis(1)
    BY <1>1, <1>2, <2>3 DEF ValidatorNemesis, SingleInv, KeepsTaken, Taking
  <2>4. CASE ValidatorRead(1)
    BY <1>1, <1>2, <2>4 DEF ValidatorRead, SingleInv, KeepsTaken, Taking
  <2>5. CASE ValidatorCheckHash(1)
    <3>1. /\ vpc[1] = "check_hash"
          /\ UNCHANGED <<sigterm, last_block_hash, streamed_block>>
          /\ \/ vpc' = [vpc EXCEPT ![1] = "check_pool"] /\ ExtendsLedger(streamed_block[1])
             \/ vpc' = [vpc EXCEPT ![1] = "reject"]
      BY <2>5, Zenon DEF ValidatorCheckHash, ledgerVars
    <3>2. QED
      BY <1>1, <1>2, <3>1 DEF SingleInv, ExtendsLedger, KeepsTaken, Taking
  <2>6. CASE ValidatorCheckPool(1)
    <3>1. /\ vpc[1] = "check_pool"
          /\ UNCHANGED <<sigterm, last_block_hash, streamed_block>>
          /\ \/ vpc' = [vpc EXCEPT ![1] = "commit"]
             \/ vpc' = [vpc EXCEPT ![1] = "reject"]
      BY <2>6, Zenon DEF ValidatorCheckPool, ledgerVars
    <3>2. QED
      BY <1>1, <1>2, <3>1 DEF SingleInv, ExtendsLedger, KeepsTaken, Taking
  <2>7. CASE ValidatorCommit(1)
    <3>1. StillExtendsLedger(streamed_block[1])
      BY <1>1, <2>7 DEF ValidatorCommit, SingleInv, ExtendsLedger, StillExtendsLedger
    <3>2. vpc' = [vpc EXCEPT ![1] = "report"] /\ UNCHANGED sigterm
      BY <2>7, <3>1 DEF ValidatorCommit
    <3>3. QED
      BY <1>1, <1>2, <3>2 DEF SingleInv, KeepsTaken, Taking
  <2>8. CASE ValidatorReport(1)
    BY <1>1, <1>2, <2>8 DEF ValidatorReport, SingleInv, KeepsTaken, Taking
  <2>9. CASE ValidatorReject(1)
    BY <1>1, <1>2, <2>9 DEF ValidatorReject, SingleInv, KeepsTaken, Taking
  <2>10. CASE ValidatorSigterm(1)
    BY <2>10 DEF ValidatorSigterm, SingleInv
  <2>11. QED
    BY <2>1, <2>2, <2>3, <2>4, <2>5, <2>6, <2>7, <2>8, <2>9, <2>10 DEF ValidatorNext
<1>5. CASE LauncherStep
  <2>1. sigterm' = {} /\ UNCHANGED <<last_block_hash, streamed_block>>
    BY <1>1, <1>5 DEF LauncherStep, LauncherNext, LauncherFork, LauncherTerminate,
       LauncherReap, LauncherEnd, ledgerVars, validatorVars, SingleInv
  <2>2. vpc'[1] = vpc[1]
    BY <1>1, <1>5 DEF LauncherStep, LauncherNext, LauncherFork, LauncherTerminate,
       LauncherReap, LauncherEnd, validatorVars, ToLaunch
  <2>3. QED
    BY <1>1, <2>1, <2>2 DEF SingleInv, ExtendsLedger, KeepsTaken, Taking
<1>6. CASE TxGenStep
  BY <1>3, <1>6 DEF TxGenStep, TxGenNext, TxGenAdd, TxGenPoolFull, TxGenGetValue,
     TxGenPost, ledgerVars, validatorVars
<1>7. CASE MinerStep
  BY <1>3, <1>7 DEF MinerStep, MinerNext, MinerWake, MinerCheck, MinerSelect,
     MinerReadPrevious, MinerSubmit, ledgerVars, validatorVars
<1>8. CASE StatisticsStep
  BY <1>3, <1>8 DEF StatisticsStep, StatisticsReceive, ledgerVars, validatorVars
<1>9. CASE UNCHANGED vars
  BY <1>3, <1>9 DEF vars, ledgerVars, validatorVars
<1>10. QED
  BY <1>4, <1>5, <1>6, <1>7, <1>8, <1>9 DEF Next

(* With validator 1 alone no transaction is ever lost: it is pending, in   *)
(* the hands of the validator between its two critical sections, or in the *)
(* ledger.                                                                 *)
THEOREM NothingLostAlone ==
  ASSUME MAX_VALIDATORS = 1
  PROVE  Spec => []NoTransactionLost
<1>1. Init => SingleInv
  BY DEF Init, SharedInit, ValidatorInit, SingleInv
<1>2. PoolInv /\ SingleInv /\ AllKept /\ [Next]_vars => SingleInv' /\ AllKept'
  BY SingleInvNext, KeptNext DEF PoolInv, LedgerInv
<1>3. PoolInv /\ AllKept => NoTransactionLost
  BY LostMeansMissing
<1>4. QED
  BY <1>1, <1>2, <1>3, KeptInit, PoolInvInit, PoolInvNext, PTL DEF Spec

-----------------------------------------------------------------------------
(* DEIChain implements Chain.                                              *)

(* The ids below the numbers that the generators have reached.             *)
LEMMA IdsBelow ==
  ASSUME NEW f \in [TxGens -> Nat]
  PROVE  \A id : id \in UNION {{<<g, n>> : n \in 0..(f[g] - 1)} : g \in TxGens}
                  <=> id \in TxIds /\ id[2] < f[id[1]]
<1>1. ASSUME NEW id, id \in TxIds, id[2] < f[id[1]]
      PROVE  id \in UNION {{<<g, n>> : n \in 0..(f[g] - 1)} : g \in TxGens}
  <2>1. PICK g \in TxGens, n \in Nat : id = <<g, n>>
    BY <1>1 DEF TxIds
  <2>2. n \in 0..(f[g] - 1)
    BY <1>1, <2>1
  <2>3. QED
    BY <2>1, <2>2
<1>2. ASSUME NEW id, id \in UNION {{<<g, n>> : n \in 0..(f[g] - 1)} : g \in TxGens}
      PROVE  id \in TxIds /\ id[2] < f[id[1]]
  <2>1. PICK g \in TxGens : \E n \in 0..(f[g] - 1) : id = <<g, n>>
    BY <1>2
  <2>2. PICK n \in 0..(f[g] - 1) : id = <<g, n>>
    BY <2>1
  <2>3. QED
    BY <2>2 DEF TxIds
<1>3. QED
  BY <1>1, <1>2

(* Every block has a transaction.                                          *)
LEMMA BlockHasTxs ==
  ASSUME NEW b \in TransactionBlock
  PROVE  TxIdsOf(b) # {}
<1>1. 1 \in DOMAIN b.transactions
  BY ConfigAssumption DEF TransactionBlock
<1>2. QED
  BY <1>1 DEF TxIdsOf

-----------------------------------------------------------------------------
(* The pool, the ledger and the hands of the validators start empty.       *)
LEMMA RefinesInit == Init => TheChain!Init
<1> SUFFICES ASSUME Init PROVE TheChain!Init
  OBVIOUS
<1>1. /\ tx_number = [g \in TxGens |-> 0] /\ ledger_count = 0
      /\ FilledSlots = {}
      /\ \A v \in Validators : vpc[v] # "commit"
  BY DEF Init, SharedInit, TxGenInit, ValidatorInit, FilledSlots
<1>2. Generated = {}
  <2>1. tx_number \in [TxGens -> Nat] /\ \A g \in TxGens : tx_number[g] = 0
    BY <1>1
  <2>2. \A id : id \in Generated => FALSE
    BY <2>1, IdsBelow DEF Generated, TxIds
  <2>3. QED
    BY <2>2
<1>3. Pending = {}
  BY <1>1 DEF Pending
<1>4. TxsInHand = [v \in Validators |-> {}]
  BY <1>1 DEF TxsInHand
<1>5. LedgerAsChain = <<>>
  BY <1>1 DEF LedgerAsChain
<1>6. QED
  BY <1>2, <1>3, <1>4, <1>5 DEF TheChain!Init

(* Nothing moves but, at a SIGTERM or a failed second comparison, what a   *)
(* validator had taken.                                                    *)
LEMMA RefinesFrame ==
  ASSUME PoolInv, UNCHANGED <<pool, tx_number, blocks, ledger_count>>
  PROVE  UNCHANGED <<Generated, Pending, LedgerAsChain>>
BY DEF Generated, Pending, FilledSlots, LedgerAsChain

LEMMA RefinesLose ==
  ASSUME PoolInv, UNCHANGED <<pool, tx_number, blocks, ledger_count>>,
         NEW v \in Validators,
         \A w \in Validators \ {v} :
            (vpc'[w] = "commit" <=> vpc[w] = "commit")
              /\ streamed_block'[w] = streamed_block[w],
         vpc'[v] # "commit"
  PROVE  [TheChain!Next]_(TheChain!vars)
<1>1. UNCHANGED <<Generated, Pending, LedgerAsChain>>
  BY RefinesFrame
<1>2. TxsInHand' = [TxsInHand EXCEPT ![v] = {}]
  BY DEF TxsInHand
<1>3. CASE TxsInHand[v] = {}
  <2>1. TxsInHand' = TxsInHand
    BY <1>2, <1>3 DEF TxsInHand
  <2>2. QED
    BY <1>1, <2>1 DEF TheChain!vars
<1>4. CASE TxsInHand[v] # {}
  BY <1>1, <1>2, <1>4 DEF TheChain!Next, TheChain!Lose
<1>5. QED
  BY <1>3, <1>4

LEMMA RefinesStutter ==
  ASSUME PoolInv, UNCHANGED <<pool, tx_number, blocks, ledger_count>>,
         \A w \in Validators :
            /\ vpc'[w] = "commit" <=> vpc[w] = "commit"
            /\ vpc[w] = "commit" => streamed_block'[w] = streamed_block[w]
  PROVE  UNCHANGED TheChain!vars
<1>1. TxsInHand' = TxsInHand
  BY DEF TxsInHand
<1>2. QED
  BY <1>1, RefinesFrame DEF TheChain!vars

(* A generator issues a transaction.                                       *)
LEMMA RefinesAdd ==
  ASSUME PoolInv, NEW g \in TxGens, TxGenAdd(g),
         UNCHANGED <<vpc, streamed_block>>
  PROVE  TheChain!Next
<1>0. PICK new : new = <<g, tx_number[g]>>
  OBVIOUS
<1>1. /\ pool \in [Slots -> PendingTransaction \cup {Free}]
      /\ tx_number \in [TxGens -> Nat]
  BY DEF PoolInv, LedgerInv, TypeOK, PoolTypeOK, TxGenTypeOK
<1>2. PICK s \in FreeSlots : pool' = [pool EXCEPT ![s] = generate_transaction(g)]
  BY DEF TxGenAdd, FirstFreeSlot
<1>3. /\ tx_number' = [tx_number EXCEPT ![g] = tx_number[g] + 1]
      /\ tx_number[g] < MaxTx
      /\ UNCHANGED <<blocks, ledger_count>>
  BY DEF TxGenAdd, ledgerVars
<1>4. new \in TxGens \X (0..(MaxTx - 1)) /\ new \in TxIds
  BY <1>0, <1>1, <1>3, TxGenAssumption DEF TxIds
<1>5. generate_transaction(g) \in PendingTransaction
  BY <1>1, TxGenAssumption DEF generate_transaction, PendingTransaction,
     Transaction, TxIds
<1>6. generate_transaction(g) # Free /\ generate_transaction(g).tx.tx_id = new
  BY <1>0, <1>5, NullAssumption DEF generate_transaction
<1>7. /\ FilledSlots' = FilledSlots \cup {s}
      /\ s \in Slots /\ s \notin FilledSlots /\ FilledSlots \subseteq Slots
  BY <1>1, <1>2, <1>6 DEF FilledSlots, FreeSlots
<1>8. /\ pool'[s].tx.tx_id = new
      /\ \A t \in FilledSlots : pool'[t].tx.tx_id = pool[t].tx.tx_id
  BY <1>1, <1>2, <1>6, <1>7
<1>9. Pending' = Pending \cup {new}
  BY <1>7, <1>8 DEF Pending
<1>10. new \notin Generated /\ Generated' = Generated \cup {new}
  <2>1. tx_number' \in [TxGens -> Nat]
    BY <1>1, <1>3
  <2>2. /\ \A id : id \in Generated <=> id \in TxIds /\ id[2] < tx_number[id[1]]
        /\ \A id : id \in Generated' <=> id \in TxIds /\ id[2] < tx_number'[id[1]]
    BY <1>1, <2>1, IdsBelow DEF Generated
  <2>3. ASSUME NEW id, id \in TxIds
        PROVE  id[2] < tx_number'[id[1]] <=> id[2] < tx_number[id[1]] \/ id = new
    BY <1>0, <1>1, <1>3, <2>3 DEF TxIds
  <2>4. new[1] = g /\ new[2] = tx_number[g] /\ tx_number[g] \in Nat
    BY <1>0, <1>1
  <2>5. QED
    BY <1>4, <2>2, <2>3, <2>4
<1>11. TxsInHand' = TxsInHand /\ LedgerAsChain' = LedgerAsChain
  BY <1>3 DEF TxsInHand, LedgerAsChain
<1>12. QED
  BY <1>4, <1>9, <1>10, <1>11 DEF TheChain!Next, TheChain!Issue

(* A validator that accepts a block takes its transactions, all of which   *)
(* are pending.                                                            *)
LEMMA RefinesTake ==
  ASSUME PoolInv, NEW v \in Validators, ValidatorCheckPool(v),
         TransactionsInPool(streamed_block[v]), UNCHANGED tx_number
  PROVE  TheChain!Next
<1> USE DEF PoolInv
<1>0. PICK removed : removed = SlotsToRemove(streamed_block[v])
  OBVIOUS
<1>1. /\ pool \in [Slots -> PendingTransaction \cup {Free}]
      /\ FilledSlots \subseteq Slots /\ removed \subseteq FilledSlots
      /\ vpc = [w \in Validators |-> vpc[w]]
  BY <1>0 DEF LedgerInv, TypeOK, PoolTypeOK, FilledSlots, SlotsToRemove,
     ValidatorTypeOK
<1>2. /\ pool' = [s \in Slots |-> IF s \in FilledSlots \ removed
                                  THEN Aged(pool[s]) ELSE Free]
      /\ vpc' = [vpc EXCEPT ![v] = "commit"]
      /\ UNCHANGED <<ledgerVars, streamed_block>>
      /\ vpc[v] = "check_pool"
  <2>1. ~(vpc' = [vpc EXCEPT ![v] = "reject"] /\ ~TransactionsInPool(streamed_block[v]))
    OBVIOUS
  <2>2. QED
    BY <1>0, <2>1, Zenon DEF ValidatorCheckPool
<1>3. \A s \in FilledSlots : Aged(pool[s]) # Free /\ Aged(pool[s]).tx.tx_id = IdOf(s)
  <2>1. \A s \in FilledSlots : Aged(pool[s]) \in PendingTransaction
    BY <1>1, AgedType DEF FilledSlots
  <2>2. QED
    BY <2>1, NullAssumption DEF Aged, IdOf
<1>4. FilledSlots' = FilledSlots \ removed
  BY <1>1, <1>2, <1>3 DEF FilledSlots
<1>5. \A s \in FilledSlots' : IdOf(s)' = IdOf(s)
  BY <1>1, <1>2, <1>3, <1>4 DEF IdOf
<1>6. \A s \in FilledSlots : s \in removed <=> IdOf(s) \in Taken(v)
  BY <1>0 DEF SlotsToRemove, IdOf, Taken
<1>7. Pending = {IdOf(s) : s \in FilledSlots}
  BY DEF Pending, IdOf
<1>8. Pending' = {IdOf(s) : s \in FilledSlots'}
  BY <1>5 DEF Pending, IdOf
<1>9. Pending' = Pending \ Taken(v)
  BY <1>4, <1>6, <1>7, <1>8
<1>10. Taken(v) \subseteq Pending
  <2>1. \A id \in Taken(v) : \E s \in FilledSlots : IdOf(s) = id
    BY DEF Taken, TxIdsOf, TransactionsInPool, IdOf
  <2>2. QED
    BY <1>7, <2>1
<1>11. Taken(v) # {}
  <2>1. streamed_block[v] \in TransactionBlock
    BY <1>2 DEF LedgerInv, TypeOK, ValidatorTypeOK
  <2>2. QED
    BY <2>1, BlockHasTxs DEF Taken
<1>12. TxsInHand[v] = {} /\ TxsInHand' = [TxsInHand EXCEPT ![v] = Taken(v)]
  BY <1>1, <1>2 DEF TxsInHand, Taken
<1>13. Generated' = Generated /\ LedgerAsChain' = LedgerAsChain
  BY <1>2 DEF Generated, LedgerAsChain, ledgerVars
<1>14. TheChain!Take(v, Taken(v))
  BY <1>9, <1>10, <1>11, <1>12, <1>13 DEF TheChain!Take
<1>15. Taken(v) \in SUBSET Pending
  BY <1>10
<1>16. QED
  BY <1>14, <1>15 DEF TheChain!Next

(* The second comparison: the block is appended, or what was taken is lost.*)
LEMMA RefinesCommit ==
  ASSUME PoolInv, NEW v \in Validators, ValidatorCommit(v), UNCHANGED tx_number
  PROVE  [TheChain!Next]_(TheChain!vars)
<1> USE DEF PoolInv
<1>1. /\ vpc[v] = "commit" /\ v \in Held /\ UNCHANGED poolVars
      /\ vpc = [w \in Validators |-> vpc[w]]
      /\ streamed_block = [w \in Validators |-> streamed_block[w]]
      /\ streamed_block[v] \in TransactionBlock
  BY DEF ValidatorCommit, Held, LedgerInv, TypeOK, ValidatorTypeOK
<1>2. CASE ~StillExtendsLedger(streamed_block[v])
  <2>1. /\ vpc' = [vpc EXCEPT ![v] = "read"]
        /\ streamed_block' = [streamed_block EXCEPT ![v] = NoBlock]
        /\ UNCHANGED ledgerVars
    BY <1>2 DEF ValidatorCommit
  <2>2. QED
    BY <1>1, <2>1, RefinesLose DEF ledgerVars, poolVars
<1>3. CASE StillExtendsLedger(streamed_block[v])
  <2>1. /\ ledger_count \in Nat \ {0} /\ ledger_count < BLOCKCHAIN_BLOCKS
        /\ NextIndex = ledger_count
    BY <1>1, <1>3, AppendFits DEF NextIndex
  <2>2. /\ vpc' = [vpc EXCEPT ![v] = "report"]
        /\ blocks' = [blocks EXCEPT ![ledger_count] = streamed_block[v]]
        /\ ledger_count' = ledger_count + 1
        /\ UNCHANGED streamed_block
    BY <1>3, <2>1 DEF ValidatorCommit
  <2>3. /\ blocks'[ledger_count] = streamed_block[v]
        /\ \A i \in Height : blocks'[i] = blocks[i]
    BY <2>1, <2>2, ConfigAssumption DEF Height, LedgerInv, TypeOK, LedgerTypeOK
  <2>4. Generated' = Generated /\ Pending' = Pending
    BY <1>1 DEF Generated, Pending, FilledSlots, poolVars
  <2>5. TxsInHand[v] = TxIdsOf(streamed_block[v]) /\ TxsInHand[v] # {}
    BY <1>1, BlockHasTxs DEF TxsInHand
  <2>6. TxsInHand' = [TxsInHand EXCEPT ![v] = {}]
    BY <1>1, <2>2 DEF TxsInHand
  <2>7. LedgerAsChain # <<>> /\ Len(LedgerAsChain) = ledger_count
    BY <2>1 DEF LedgerAsChain
  <2>8. LedgerAsChain' = Append(LedgerAsChain, TxIdsOf(streamed_block[v]))
    <3>1. LedgerAsChain' = [i \in 1..(ledger_count + 1) |-> TxIdsOf(blocks'[i - 1])]
      BY <2>2 DEF LedgerAsChain
    <3>2. \A i \in 1..ledger_count : TxIdsOf(blocks'[i - 1]) = TxIdsOf(blocks[i - 1])
      BY <2>1, <2>3 DEF Height
    <3>3. TxIdsOf(blocks'[(ledger_count + 1) - 1]) = TxIdsOf(streamed_block[v])
      BY <2>1, <2>3
    <3>4. LedgerAsChain \in Seq({TxIdsOf(blocks[i]) : i \in Height})
      BY <2>1 DEF LedgerAsChain, Height
    <3>5. \A i \in 1..(ledger_count + 1) :
             TxIdsOf(blocks'[i - 1])
               = IF i <= ledger_count THEN LedgerAsChain[i]
                                      ELSE TxIdsOf(streamed_block[v])
      BY <2>1, <3>2, <3>3 DEF LedgerAsChain
    <3>6. QED
      BY <2>1, <2>7, <3>1, <3>4, <3>5
  <2>9. TheChain!Commit(v)
    BY <2>1, <2>4, <2>5, <2>6, <2>7, <2>8 DEF TheChain!Commit
  <2>10. QED
    BY <2>9 DEF TheChain!Next
<1>4. QED
  BY <1>2, <1>3

(* The nemesis block is the first of the chain.                            *)
LEMMA RefinesFound ==
  ASSUME PoolInv, NEW v \in Validators, ValidatorNemesis(v), LedgerEmpty,
         UNCHANGED tx_number
  PROVE  TheChain!Next
<1> USE DEF PoolInv
<1>1. /\ vpc[v] = "nemesis" /\ vpc' = [vpc EXCEPT ![v] = "read"]
      /\ UNCHANGED <<poolVars, streamed_block>>
      /\ vpc = [w \in Validators |-> vpc[w]]
  BY DEF ValidatorNemesis, LedgerInv, TypeOK, ValidatorTypeOK
<1>2. /\ ledger_count = 0 /\ ledger_count' = 1
      /\ blocks'[0] = nemesis_block
  BY ConfigAssumption DEF ValidatorNemesis, LedgerEmpty, LedgerInv, TypeOK,
     LedgerTypeOK
<1>3. TxIdsOf(nemesis_block) = {}
  BY DEF TxIdsOf, nemesis_block
<1>4. LedgerAsChain = <<>>
  BY <1>2 DEF LedgerAsChain
<1>5. LedgerAsChain' = <<{}>>
  <2>1. LedgerAsChain' = [i \in 1..1 |-> TxIdsOf(blocks'[i - 1])]
    BY <1>2 DEF LedgerAsChain
  <2>2. \A i \in 1..1 : TxIdsOf(blocks'[i - 1]) = {}
    BY <1>2, <1>3
  <2>3. QED
    BY <2>1, <2>2
<1>6. TxsInHand' = TxsInHand
  BY <1>1 DEF TxsInHand
<1>7. Generated' = Generated /\ Pending' = Pending
  BY <1>1 DEF Generated, Pending, FilledSlots, poolVars
<1>8. QED
  BY <1>4, <1>5, <1>6, <1>7 DEF TheChain!Next, TheChain!Found

-----------------------------------------------------------------------------
(* Each step of DEIChain is a step of Chain or a stutter.                  *)
LEMMA RefinesNext ==
  PoolInv /\ [Next]_vars => [TheChain!Next]_(TheChain!vars)
<1> SUFFICES ASSUME PoolInv, [Next]_vars
             PROVE  [TheChain!Next]_(TheChain!vars)
  OBVIOUS
<1>1. CASE UNCHANGED <<pool, tx_number, blocks, ledger_count, vpc, streamed_block>>
  BY <1>1, RefinesStutter
<1>2. CASE TxGenStep
  <2>1. PICK g \in TxGens : TxGenNext(g)
    BY <1>2 DEF TxGenStep
  <2>2. UNCHANGED <<vpc, streamed_block>>
    BY <1>2 DEF TxGenStep, validatorVars
  <2>3. CASE TxGenAdd(g)
    BY <2>2, <2>3, RefinesAdd
  <2>4. CASE TxGenPoolFull(g) \/ TxGenGetValue(g) \/ TxGenPost(g)
    BY <1>1, <2>2, <2>4 DEF TxGenPoolFull, TxGenGetValue, TxGenPost, ledgerVars,
       poolVars
  <2>5. QED
    BY <2>1, <2>3, <2>4 DEF TxGenNext
<1>3. CASE MinerStep
  BY <1>1, <1>3 DEF MinerStep, MinerNext, MinerWake, MinerCheck, MinerSelect,
     MinerReadPrevious, MinerSubmit, poolVars, ledgerVars, txGenVars,
     validatorVars
<1>4. CASE ValidatorStep
  <2>1. PICK v \in Validators : ValidatorNext(v)
    BY <1>4 DEF ValidatorStep
  <2>2. UNCHANGED tx_number
    BY <1>4 DEF ValidatorStep, txGenVars
  <2>3. /\ vpc = [w \in Validators |-> vpc[w]]
        /\ streamed_block = [w \in Validators |-> streamed_block[w]]
    BY DEF PoolInv, LedgerInv, TypeOK, ValidatorTypeOK
  <2>4. ASSUME UNCHANGED <<pool, blocks, ledger_count>>,
               NEW pc, vpc' = [vpc EXCEPT ![v] = pc], pc # "commit",
               \A w \in Validators \ {v} : streamed_block'[w] = streamed_block[w]
        PROVE  [TheChain!Next]_(TheChain!vars)
    BY <2>2, <2>3, <2>4, RefinesLose
  <2>5. CASE ValidatorStart(v)
    BY <2>4, <2>5 DEF ValidatorStart, ledgerVars, poolVars
  <2>6. CASE ValidatorNemesis(v)
    <3>1. CASE LedgerEmpty
      BY <2>2, <2>6, <3>1, RefinesFound
    <3>2. CASE ~LedgerEmpty
      BY <2>4, <2>6, <3>2 DEF ValidatorNemesis, ledgerVars, poolVars
    <3>3. QED
      BY <3>1, <3>2
  <2>7. CASE ValidatorRead(v)
    BY <2>3, <2>4, <2>7 DEF ValidatorRead, ledgerVars, poolVars
  <2>8. CASE ValidatorCheckHash(v)
    <3>1. \/ vpc' = [vpc EXCEPT ![v] = "check_pool"]
          \/ vpc' = [vpc EXCEPT ![v] = "reject"]
      BY <2>8, Zenon DEF ValidatorCheckHash
    <3>2. UNCHANGED <<pool, blocks, ledger_count, streamed_block>>
      BY <2>8 DEF ValidatorCheckHash, ledgerVars, poolVars
    <3>3. QED
      BY <2>4, <3>1, <3>2
  <2>9. CASE ValidatorCheckPool(v)
    <3>1. CASE TransactionsInPool(streamed_block[v])
      BY <2>2, <2>9, <3>1, RefinesTake
    <3>2. CASE ~TransactionsInPool(streamed_block[v])
      <4>1. /\ vpc' = [vpc EXCEPT ![v] = "reject"]
            /\ UNCHANGED <<poolVars, ledgerVars, streamed_block>>
        BY <2>9, <3>2, Zenon DEF ValidatorCheckPool
      <4>2. QED
        BY <2>4, <4>1 DEF ledgerVars, poolVars
    <3>3. QED
      BY <3>1, <3>2
  <2>10. CASE ValidatorCommit(v)
    BY <2>2, <2>10, RefinesCommit
  <2>11. CASE ValidatorReport(v)
    BY <2>3, <2>4, <2>11 DEF ValidatorReport, ledgerVars, poolVars
  <2>12. CASE ValidatorReject(v)
    BY <2>3, <2>4, <2>12 DEF ValidatorReject, ledgerVars, poolVars
  <2>13. CASE ValidatorSigterm(v)
    BY <2>3, <2>4, <2>13 DEF ValidatorSigterm, ledgerVars, poolVars
  <2>14. QED
    BY <2>1, <2>5, <2>6, <2>7, <2>8, <2>9, <2>10, <2>11, <2>12, <2>13 DEF ValidatorNext
<1>5. CASE LauncherStep
  <2>1. UNCHANGED <<pool, tx_number, blocks, ledger_count, streamed_block>>
    BY <1>5 DEF LauncherStep, LauncherNext, LauncherFork, LauncherTerminate,
       LauncherReap, LauncherEnd, poolVars, ledgerVars, txGenVars, validatorVars
  <2>2. \A v \in Validators : vpc'[v] = "commit" <=> vpc[v] = "commit"
    <3>1. CASE LauncherFork
      BY <3>1 DEF LauncherFork, ToLaunch
    <3>2. CASE LauncherReap
      BY <3>2 DEF LauncherReap
    <3>3. CASE LauncherTerminate \/ LauncherEnd
      BY <3>3 DEF LauncherTerminate, LauncherEnd, validatorVars
    <3>4. QED
      BY <1>5, <3>1, <3>2, <3>3 DEF LauncherStep, LauncherNext
  <2>3. QED
    BY <2>1, <2>2, RefinesStutter
<1>6. CASE StatisticsStep
  BY <1>1, <1>6 DEF StatisticsStep, StatisticsReceive, poolVars, ledgerVars,
     txGenVars, validatorVars
<1>7. CASE UNCHANGED vars
  BY <1>1, <1>7 DEF vars, poolVars, ledgerVars, txGenVars, validatorVars
<1>8. QED
  BY <1>2, <1>3, <1>4, <1>5, <1>6, <1>7 DEF Next

(* The pool, the miners, the pipe and the two critical sections of every   *)
(* validator implement Chain: a transaction is issued, pending, taken and  *)
(* then committed with all of its block or lost with all of it, and never  *)
(* goes back.                                                              *)
THEOREM ChainImplemented == Spec => ImplementsChain
<1>1. Spec => []PoolInv
  BY PoolSafe
<1>2. Init => TheChain!Init
  BY RefinesInit
<1>3. PoolInv /\ [Next]_vars => [TheChain!Next]_(TheChain!vars)
  BY RefinesNext
<1>4. QED
  BY <1>1, <1>2, <1>3, PTL DEF Spec, ImplementsChain, TheChain!Spec
=============================================================================
