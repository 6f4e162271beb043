--------------------------- MODULE DEIChainProofs ---------------------------
(***************************************************************************)
(* Proofs about DEIChain, for any number of generators, miners and         *)
(* validators and any sizes of the pool, the blocks, the ledger, the pipe  *)
(* and the queue.                                                          *)
(***************************************************************************)
EXTENDS DEIChain, NaturalLemmas, FiniteSetTheorems

-----------------------------------------------------------------------------
(* Facts about finite sets.                                                *)

(* The pool has finitely many slots.                                       *)
LEMMA SlotsFinite == IsFiniteSet(Slots)
BY FS_Interval, ConfigAssumption DEF Slots

(* Any set of slots, those that are filled or removed among them, is       *)
(* finite.                                                                 *)
LEMMA FilledSlotsFinite ==
  ASSUME NEW S, S \subseteq Slots
  PROVE  IsFiniteSet(S) /\ Cardinality(S) \in Nat
BY SlotsFinite, FS_Subset, FS_CardinalityType

(* The number of miner threads is a natural number.                        *)
LEMMA MinersCardinality == Cardinality(Miners) \in Nat
BY ConfigAssumption, FS_CardinalityType

-----------------------------------------------------------------------------
(* Sums.  The recursion of SumTo is defined when the values are integers,  *)
(* and goes one value at a time.                                           *)

IsSum(h, n, f) == f = [i \in 0..n |-> IF i = 0 THEN 0 ELSE f[i - 1] + h[i]]

(* Partial sums extend to the next value.                                  *)
LEMMA SumExtends ==
  ASSUME NEW n \in Nat, NEW h, h[n + 1] \in Int,
         NEW f, f \in [0..n -> Int], IsSum(h, n, f)
  PROVE  \E g \in [0..(n + 1) -> Int] : IsSum(h, n + 1, g)
<1> DEFINE g == [i \in 0..(n + 1) |-> IF i = n + 1 THEN f[n] + h[n + 1] ELSE f[i]]
<1>1. g \in [0..(n + 1) -> Int]
  OBVIOUS
<1>2. ASSUME NEW i \in 0..(n + 1)
      PROVE  g[i] = IF i = 0 THEN 0 ELSE g[i - 1] + h[i]
  <2>1. CASE i = n + 1
    BY <2>1
  <2>2. CASE i # n + 1
    <3>1. f[i] = IF i = 0 THEN 0 ELSE f[i - 1] + h[i]
      BY <2>2 DEF IsSum
    <3>2. QED
      BY <2>2, <3>1
  <2>3. QED
    BY <2>1, <2>2
<1>3. IsSum(h, n + 1, g)
  BY <1>2 DEF IsSum
<1>4. QED
  BY <1>1, <1>3

(* So they exist up to any number of values.                               *)
LEMMA SumExists ==
  ASSUME NEW n \in Nat, NEW h, \A i \in 1..n : h[i] \in Int
  PROVE  \E f \in [0..n -> Int] : IsSum(h, n, f)
<1> DEFINE Summed(k) == \E f \in [0..k -> Int] : IsSum(h, k, f)
           Bad == {k \in Nat : k <= n /\ ~Summed(k)}
<1> SUFFICES ASSUME Bad # {} PROVE FALSE
  OBVIOUS
<1>1. PICK z \in Bad : \A k \in Bad : z <= k
  BY LeastNatural
<1>2. Summed(0)
  <2> DEFINE f == [i \in 0..0 |-> 0]
  <2>1. f \in [0..0 -> Int] /\ IsSum(h, 0, f)
    BY DEF IsSum
  <2>2. QED
    BY <2>1
<1>3. z # 0
  BY <1>2
<1>4. Summed(z - 1) /\ z - 1 \in Nat /\ z \in 1..n /\ (z - 1) + 1 = z
  BY <1>1, <1>3
<1>5. Summed(z)
  <2> HIDE DEF Bad
  <2>1. PICK f \in [0..(z - 1) -> Int] : IsSum(h, z - 1, f)
    BY <1>4
  <2>2. h[(z - 1) + 1] \in Int
    BY <1>4
  <2>3. \E g \in [0..((z - 1) + 1) -> Int] : IsSum(h, (z - 1) + 1, g)
    BY <1>4, <2>1, <2>2, SumExtends
  <2>4. QED
    BY <1>4, <2>3
<1>6. QED
  BY <1>1, <1>5

(* The recursion determines its sums.                                      *)
LEMMA SumUnique ==
  ASSUME NEW h, NEW n \in Nat, NEW f, NEW g, IsSum(h, n, f), IsSum(h, n, g)
  PROVE  f = g
<1> DEFINE Bad == {k \in Nat : k <= n /\ f[k] # g[k]}
<1>1. ASSUME Bad # {} PROVE FALSE
  <2>1. PICK z \in Bad : \A k \in Bad : z <= k
    BY <1>1, LeastNatural
  <2>2. /\ f[z] = IF z = 0 THEN 0 ELSE f[z - 1] + h[z]
        /\ g[z] = IF z = 0 THEN 0 ELSE g[z - 1] + h[z]
    BY <2>1 DEF IsSum
  <2>3. z # 0 => f[z - 1] = g[z - 1]
    BY <2>1
  <2>4. QED
    BY <2>1, <2>2, <2>3
<1>2. \A k \in 0..n : f[k] = g[k]
  BY <1>1
<1>3. QED
  BY <1>2 DEF IsSum

(* They are what SumTo returns.                                            *)
LEMMA SumValue ==
  ASSUME NEW n \in Nat, NEW h, NEW f, IsSum(h, n, f)
  PROVE  SumTo(h, n) = f[n]
<1> DEFINE sum == CHOOSE g : IsSum(h, n, g)
<1>1. SumTo(h, n) = sum[n]
  BY DEF SumTo, IsSum
<1>2. IsSum(h, n, sum)
  OBVIOUS
<1>3. sum = f
  <2> HIDE DEF sum
  <2>1. QED
    BY <1>2, SumUnique
<1>4. QED
  BY <1>1, <1>3

(* The recursion of SumTo, forward and backward.                           *)
LEMMA SumZero == ASSUME NEW h PROVE SumTo(h, 0) = 0
<1> DEFINE f == [i \in 0..0 |-> 0]
<1>1. IsSum(h, 0, f)
  BY DEF IsSum
<1>2. QED
  BY <1>1, SumValue

LEMMA SumNext ==
  ASSUME NEW n \in Nat, NEW h, \A i \in 1..(n + 1) : h[i] \in Int
  PROVE  /\ SumTo(h, n) \in Int
         /\ SumTo(h, n + 1) = SumTo(h, n) + h[n + 1]
<1>1. PICK f \in [0..(n + 1) -> Int] : IsSum(h, n + 1, f)
  <2>1. n + 1 \in Nat
    OBVIOUS
  <2>2. QED
    BY <2>1, SumExists
<1> DEFINE g == [i \in 0..n |-> f[i]]
<1>2. IsSum(h, n, g)
  <2>1. ASSUME NEW i \in 0..n PROVE g[i] = IF i = 0 THEN 0 ELSE g[i - 1] + h[i]
    <3>1. f[i] = IF i = 0 THEN 0 ELSE f[i - 1] + h[i]
      BY <1>1 DEF IsSum
    <3>2. QED
      BY <3>1
  <2>2. QED
    BY <2>1 DEF IsSum
<1>3. SumTo(h, n) = f[n] /\ SumTo(h, n + 1) = f[n + 1]
  <2>1. SumTo(h, n) = g[n]
    <3> HIDE DEF g
    <3>1. QED
      BY <1>2, SumValue
  <2>2. n + 1 \in Nat /\ g[n] = f[n]
    OBVIOUS
  <2>3. SumTo(h, n + 1) = f[n + 1]
    BY <1>1, <2>2, SumValue
  <2>4. QED
    BY <2>1, <2>2, <2>3
<1>4. f[n + 1] = f[n] + h[n + 1]
  BY <1>1 DEF IsSum
<1>5. QED
  BY <1>1, <1>3, <1>4

LEMMA SumBefore ==
  ASSUME NEW n \in Nat, n # 0, NEW h, \A i \in 1..n : h[i] \in Int
  PROVE  /\ n - 1 \in Nat /\ n \in 1..n
         /\ SumTo(h, n - 1) \in Int
         /\ SumTo(h, n) = SumTo(h, n - 1) + h[n]
<1>1. n - 1 \in Nat /\ (n - 1) + 1 = n /\ n \in 1..n
  OBVIOUS
<1>2. SumTo(h, (n - 1) + 1) = SumTo(h, n - 1) + h[(n - 1) + 1] /\ SumTo(h, n - 1) \in Int
  BY <1>1, SumNext
<1>3. QED
  BY <1>1, <1>2

LEMMA SumType ==
  ASSUME NEW n \in Nat, NEW h, \A i \in 1..n : h[i] \in Int
  PROVE  SumTo(h, n) \in Int
<1>1. CASE n = 0
  BY <1>1, SumZero
<1>2. CASE n # 0
  BY <1>2, SumBefore
<1>3. QED
  BY <1>1, <1>2

(* Sums are monotone in their values.                                      *)
LEMMA SumMonotone ==
  ASSUME NEW n \in Nat, NEW h, NEW g,
         \A i \in 1..n : h[i] \in Int /\ g[i] \in Int /\ h[i] <= g[i]
  PROVE  SumTo(h, n) <= SumTo(g, n)
<1> DEFINE Bad == {k \in Nat : k <= n /\ ~(SumTo(h, k) <= SumTo(g, k))}
<1>1. Bad = {}
  <2>1. SUFFICES ASSUME Bad # {} PROVE FALSE
    OBVIOUS
  <2>2. PICK z \in Bad : \A k \in Bad : z <= k
    BY <2>1, LeastNatural
  <2>3. z \in Nat /\ z <= n /\ ~(SumTo(h, z) <= SumTo(g, z))
    BY <2>2
  <2>4. z # 0
    BY <2>3, SumZero
  <2>5. \A i \in 1..z : h[i] \in Int /\ g[i] \in Int /\ h[i] <= g[i]
    BY <2>3
  <2>6. /\ z - 1 \in Nat /\ z \in 1..z
        /\ SumTo(h, z - 1) \in Int /\ SumTo(h, z) = SumTo(h, z - 1) + h[z]
        /\ SumTo(g, z - 1) \in Int /\ SumTo(g, z) = SumTo(g, z - 1) + g[z]
    BY <2>3, <2>4, <2>5, SumBefore
  <2>7. SumTo(h, z - 1) <= SumTo(g, z - 1)
    <3>1. z - 1 <= n /\ z - 1 \notin Bad
      BY <2>2, <2>3, <2>6
    <3>2. QED
      BY <2>6, <3>1
  <2>8. h[z] \in Int /\ g[z] \in Int /\ h[z] <= g[z]
    BY <2>5, <2>6
  <2>9. QED
    BY ONLY <2>3, <2>6, <2>7, <2>8
<1>2. QED
  BY <1>1

LEMMA SumSame ==
  ASSUME NEW n \in Nat, NEW h, NEW g,
         \A i \in 1..n : h[i] \in Int /\ g[i] = h[i]
  PROVE  SumTo(h, n) = SumTo(g, n)
<1>1. SumTo(h, n) <= SumTo(g, n) /\ SumTo(g, n) <= SumTo(h, n)
  BY SumMonotone
<1>2. SumTo(h, n) \in Int /\ SumTo(g, n) \in Int
  BY SumType
<1>3. QED
  BY <1>1, <1>2

LEMMA SumNat ==
  ASSUME NEW n \in Nat, NEW h, \A i \in 1..n : h[i] \in Nat
  PROVE  SumTo(h, n) \in Nat
<1> DEFINE Bad == {k \in Nat : k <= n /\ SumTo(h, k) \notin Nat}
<1>1. Bad = {}
  <2>1. SUFFICES ASSUME Bad # {} PROVE FALSE
    OBVIOUS
  <2>2. PICK z \in Bad : \A k \in Bad : z <= k
    BY <2>1, LeastNatural
  <2>3. z \in Nat /\ z <= n /\ SumTo(h, z) \notin Nat
    BY <2>2
  <2>4. z # 0
    BY <2>3, SumZero
  <2>5. \A i \in 1..z : h[i] \in Nat
    BY <2>3
  <2>6. z - 1 \in Nat /\ z \in 1..z /\ SumTo(h, z) = SumTo(h, z - 1) + h[z]
    BY <2>3, <2>4, <2>5, SumBefore
  <2>7. z - 1 <= n /\ z - 1 \notin Bad
    BY <2>2, <2>3, <2>6
  <2>8. SumTo(h, z - 1) \in Nat
    BY <2>6, <2>7
  <2>9. QED
    BY <2>3, <2>5, <2>6, <2>8
<1>2. QED
  BY <1>1

(* One value that is d more makes a sum that is d more.                    *)
LEMMA SumPlus ==
  ASSUME NEW n \in Nat, NEW h, NEW g, NEW j \in 1..n, NEW d \in Int,
         \A i \in 1..n : h[i] \in Int, g[j] = h[j] + d,
         \A i \in 1..n : i # j => g[i] = h[i]
  PROVE  SumTo(g, n) = SumTo(h, n) + d
<1> DEFINE More(k) == SumTo(g, k) = SumTo(h, k) + d
           Bad == {k \in Nat : j <= k /\ k <= n /\ ~More(k)}
<1>0. j \in Nat /\ j # 0 /\ \A i \in 1..n : g[i] \in Int
  OBVIOUS
<1>1. Bad = {}
  <2>1. SUFFICES ASSUME Bad # {} PROVE FALSE
    OBVIOUS
  <2>2. PICK z \in Bad : \A k \in Bad : z <= k
    BY <2>1, LeastNatural
  <2>3. z \in Nat /\ j <= z /\ z <= n /\ z # 0 /\ ~More(z)
    BY <1>0, <2>2
  <2>4. \A i \in 1..z : i \in 1..n /\ h[i] \in Int /\ g[i] \in Int
    BY <1>0, <2>3
  <2>5. /\ z - 1 \in Nat /\ z \in 1..z
        /\ SumTo(h, z - 1) \in Int /\ SumTo(h, z) = SumTo(h, z - 1) + h[z]
        /\ SumTo(g, z - 1) \in Int /\ SumTo(g, z) = SumTo(g, z - 1) + g[z]
    BY <2>3, <2>4, SumBefore
  <2>6. CASE z = j
    <3>1. \A i \in 1..(z - 1) : h[i] \in Int /\ g[i] = h[i]
      BY <2>3, <2>4, <2>6
    <3>2. SumTo(h, z - 1) = SumTo(g, z - 1)
      BY <2>5, <3>1, SumSame
    <3>3. g[z] = h[z] + d /\ h[z] \in Int
      BY <2>6
    <3>4. More(z)
      BY ONLY <2>5, <3>2, <3>3, d \in Int
    <3>5. QED
      BY <2>3, <3>4
  <2>7. CASE z # j
    <3>1. z - 1 \notin Bad /\ j <= z - 1 /\ z - 1 <= n
      BY <1>0, <2>2, <2>3, <2>5, <2>7
    <3>2. More(z - 1)
      BY <2>5, <3>1
    <3>3. g[z] = h[z] /\ h[z] \in Int
      BY <2>4, <2>5, <2>7
    <3>4. More(z)
      BY ONLY <2>5, <3>2, <3>3, d \in Int
    <3>5. QED
      BY <2>3, <3>4
  <2>8. QED
    BY <2>6, <2>7
<1>2. n \notin Bad /\ j <= n
  BY <1>1
<1>3. QED
  BY <1>2

(* The first value can be taken first.                                     *)
LEMMA SumShift ==
  ASSUME NEW n \in Nat, NEW h, NEW t,
         \A i \in 1..(n + 1) : h[i] \in Int, \A i \in 1..n : t[i] = h[i + 1]
  PROVE  SumTo(h, n + 1) = h[1] + SumTo(t, n)
<1> DEFINE Shifted(k) == SumTo(h, k + 1) = h[1] + SumTo(t, k)
           Bad == {k \in Nat : k <= n /\ ~Shifted(k)}
<1>0. h[1] \in Int /\ \A i \in 1..n : t[i] \in Int
  OBVIOUS
<1>1. Bad = {}
  <2>1. SUFFICES ASSUME Bad # {} PROVE FALSE
    OBVIOUS
  <2>2. PICK z \in Bad : \A k \in Bad : z <= k
    BY <2>1, LeastNatural
  <2>3. z \in Nat /\ z <= n /\ ~Shifted(z)
    BY <2>2
  <2>4. SumTo(h, z) \in Int /\ SumTo(h, z + 1) = SumTo(h, z) + h[z + 1]
    <3>1. \A i \in 1..(z + 1) : h[i] \in Int
      BY <2>3
    <3>2. QED
      BY <2>3, <3>1, SumNext
  <2>5. CASE z = 0
    <3>1. SumTo(h, z) = 0 /\ SumTo(t, z) = 0
      BY <2>5, SumZero
    <3>2. h[z + 1] = h[1]
      BY <2>5
    <3>3. Shifted(z)
      BY ONLY <1>0, <2>4, <3>1, <3>2
    <3>4. QED
      BY <2>3, <3>3
  <2>6. CASE z # 0
    <3>1. \A i \in 1..z : t[i] \in Int
      BY <1>0, <2>3
    <3>2. /\ z - 1 \in Nat /\ z \in 1..z
          /\ SumTo(t, z - 1) \in Int /\ SumTo(t, z) = SumTo(t, z - 1) + t[z]
      BY <2>3, <2>6, <3>1, SumBefore
    <3>3. z - 1 \notin Bad /\ z - 1 <= n /\ (z - 1) + 1 = z
      BY <2>2, <2>3, <3>2
    <3>4. SumTo(h, z) = h[1] + SumTo(t, z - 1)
      BY <3>2, <3>3
    <3>5. t[z] = h[z + 1] /\ t[z] \in Int
      BY <2>3, <3>1, <3>2
    <3>6. Shifted(z)
      BY ONLY <1>0, <2>4, <3>2, <3>4, <3>5
    <3>7. QED
      BY <2>3, <3>6
  <2>7. QED
    BY <2>5, <2>6
<1>2. n \notin Bad
  BY <1>1
<1>3. QED
  BY <1>2
(* What a validator reports as earned for a block is the sum of its        *)
(* rewards, a natural number.                                              *)
LEMMA EarnedAmountSum ==
  ASSUME NEW b \in TransactionBlock
  PROVE  EarnedAmount(b) = BlockRewards(b) /\ EarnedAmount(b) \in Nat
<1> DEFINE n == TRANSACTIONS_PER_BLOCK
           h == [j \in 1..n |-> b.transactions[j].reward]
           Earned(f) == f = [i \in 0..n |-> IF i = 0 THEN 0
                                            ELSE f[i - 1] + b.transactions[i].reward]
           sum == CHOOSE f : Earned(f)
<1>1. n \in Nat /\ n \in 0..n /\ \A i \in 1..n : h[i] \in Nat
  BY ConfigAssumption DEF TransactionBlock, Transaction
<1>2. PICK f \in [0..n -> Int] : IsSum(h, n, f)
  <2> HIDE DEF n, h
  <2>1. \A i \in 1..n : h[i] \in Int
    BY <1>1
  <2>2. QED
    BY <1>1, <2>1, SumExists
<1>3. \A g : Earned(g) <=> IsSum(h, n, g)
  <2> TAKE g
  <2> DEFINE L == [i \in 0..n |-> IF i = 0 THEN 0 ELSE g[i - 1] + b.transactions[i].reward]
             R == [i \in 0..n |-> IF i = 0 THEN 0 ELSE g[i - 1] + h[i]]
  <2>1. ASSUME NEW i \in 0..n PROVE L[i] = R[i]
    BY <1>1
  <2>2. L = R
    BY <2>1
  <2> HIDE DEF L, R
  <2>3. (g = L) <=> (g = R)
    BY <2>2
  <2>4. QED
    BY <2>3 DEF L, R, IsSum
<1>4. Earned(sum)
  <2> HIDE DEF Earned
  <2>1. QED
    BY <1>2, <1>3
<1>5. EarnedAmount(b) = sum[n]
  BY DEF EarnedAmount
<1> HIDE DEF sum, Earned
<1>6. IsSum(h, n, sum)
  BY <1>3, <1>4
<1>7. SumTo(h, n) = sum[n]
  <2> HIDE DEF h, n
  <2>1. QED
    BY <1>1, <1>6, SumValue
<1>8. BlockRewards(b) = SumTo(h, n)
  BY DEF BlockRewards
<1>9. SumTo(h, n) \in Nat
  <2> HIDE DEF h, n
  <2>1. QED
    BY <1>1, SumNat
<1>10. QED
  BY <1>5, <1>7, <1>8, <1>9

-----------------------------------------------------------------------------
(* Type correctness.                                                       *)

(* The segments are cleared, the queues empty and the processes at their   *)
(* start.                                                                  *)
LEMMA TypeInit == Init => TypeOK
<1> SUFFICES ASSUME Init PROVE TypeOK
  OBVIOUS
<1> USE ConfigAssumption, SystemAssumption DEF Init
<1>1. PoolTypeOK /\ LedgerTypeOK /\ ChannelsTypeOK
  BY DEF SharedInit, PoolTypeOK, LedgerTypeOK, ChannelsTypeOK, Hashes
<1>2. TxGenTypeOK
  BY MinersCardinality DEF TxGenInit, TxGenTypeOK
<1>3. MinerTypeOK
  BY DEF MinerInit, MinerTypeOK
<1>4. ValidatorTypeOK
  BY DEF ValidatorInit, LauncherInit, ValidatorTypeOK, Validators
<1>5. StatisticsTypeOK
  BY DEF SharedInit, StatisticsInit, StatisticsTypeOK
<1>6. QED
  BY <1>1, <1>2, <1>3, <1>4, <1>5 DEF TypeOK

(* A step of a generator keeps the types.                                  *)
LEMMA TypeTxGen ==
  ASSUME TypeOK, NEW g \in TxGens, TxGenNext(g),
         UNCHANGED <<minerVars, validatorVars, launcherVars, statisticsVars>>
  PROVE  TypeOK'
<1> USE DEF TypeOK
<1>1. CASE TxGenAdd(g)
  <2>1. generate_transaction(g) \in PendingTransaction
    BY TxGenAssumption DEF generate_transaction, PendingTransaction, Transaction,
                           TxIds, TxGenTypeOK
  <2>2. PoolTypeOK'
    BY <1>1, <2>1 DEF TxGenAdd, PoolTypeOK
  <2>3. TxGenTypeOK'
    <3>1. /\ gpc' = [gpc EXCEPT ![g] = "getvalue"] \/ gpc' = gpc
          /\ \/ last_signal_count' = [last_signal_count EXCEPT ![g] = pool_count']
             \/ last_signal_count' = last_signal_count
      BY <1>1, Zenon DEF TxGenAdd, DecideSignal
    <3>2. QED
      BY <1>1, <2>2, <3>1 DEF TxGenAdd, TxGenTypeOK, PoolTypeOK
  <2>4. QED
    BY <1>1, <2>2, <2>3 DEF TxGenAdd, ledgerVars, minerVars, validatorVars,
       launcherVars, statisticsVars, LedgerTypeOK, ChannelsTypeOK, MinerTypeOK,
       ValidatorTypeOK, StatisticsTypeOK
<1>2. CASE TxGenPoolFull(g)
  <2>1. PoolTypeOK'
    BY <1>2 DEF TxGenPoolFull, poolVars, PoolTypeOK
  <2>2. TxGenTypeOK'
    <3>1. /\ gpc' = [gpc EXCEPT ![g] = "getvalue"] \/ gpc' = gpc
          /\ \/ last_signal_count' = [last_signal_count EXCEPT ![g] = pool_count']
             \/ last_signal_count' = last_signal_count
      BY <1>2, Zenon DEF TxGenPoolFull, DecideSignal
    <3>2. QED
      BY <1>2, <2>1, <3>1 DEF TxGenPoolFull, TxGenTypeOK, PoolTypeOK
  <2>3. QED
    BY <1>2, <2>1, <2>2 DEF TxGenPoolFull, ledgerVars, minerVars, validatorVars,
       launcherVars, statisticsVars, LedgerTypeOK, ChannelsTypeOK, MinerTypeOK,
       ValidatorTypeOK, StatisticsTypeOK
<1>3. CASE TxGenGetValue(g)
  <2>1. TxGenTypeOK'
    <3>1. PostsNeeded > 0 => PostsNeeded \in 0..Cardinality(Miners)
      BY MinersCardinality DEF PostsNeeded, ChannelsTypeOK
    <3>2. CASE PostsNeeded > 0
      <4>1. PostsNeeded # 0
        BY <3>2, MinersCardinality DEF PostsNeeded, ChannelsTypeOK
      <4>2. QED
        BY <1>3, <3>1, <3>2, <4>1 DEF TxGenGetValue, TxGenTypeOK
    <3>3. CASE ~(PostsNeeded > 0)
      BY <1>3, <3>3 DEF TxGenGetValue, TxGenTypeOK
    <3>4. QED
      BY <3>2, <3>3
  <2>2. QED
    BY <1>3, <2>1 DEF TxGenGetValue, poolVars, ledgerVars, minerVars,
       validatorVars, launcherVars, statisticsVars, PoolTypeOK, LedgerTypeOK,
       ChannelsTypeOK, MinerTypeOK, ValidatorTypeOK, StatisticsTypeOK
<1>4. CASE TxGenPost(g)
  <2>1. TxGenTypeOK'
    BY <1>4, MinersCardinality DEF TxGenPost, TxGenTypeOK
  <2>2. QED
    BY <1>4, <2>1 DEF TxGenPost, poolVars, ledgerVars, minerVars,
       validatorVars, launcherVars, statisticsVars, PoolTypeOK, LedgerTypeOK,
       ChannelsTypeOK, MinerTypeOK, ValidatorTypeOK, StatisticsTypeOK
<1>5. QED
  BY <1>1, <1>2, <1>3, <1>4 DEF TxGenNext

(* A step of a miner thread keeps the types.                               *)
LEMMA TypeMiner ==
  ASSUME TypeOK, NEW m \in Miners, MinerNext(m),
         UNCHANGED <<txGenVars, validatorVars, launcherVars, statisticsVars>>
  PROVE  TypeOK'
<1> USE DEF TypeOK
<1>1. PoolTypeOK' /\ LedgerTypeOK' /\ TxGenTypeOK' /\ ValidatorTypeOK' /\ StatisticsTypeOK'
  <2>1. UNCHANGED <<poolVars, ledgerVars, mq>>
    BY DEF MinerNext, MinerWake, MinerCheck, MinerSelect, MinerReadPrevious,
           MinerSubmit
  <2>2. QED
    BY <2>1 DEF poolVars, ledgerVars, txGenVars, validatorVars, launcherVars,
       statisticsVars, PoolTypeOK, LedgerTypeOK, TxGenTypeOK, ValidatorTypeOK,
       StatisticsTypeOK
<1>2. ChannelsTypeOK'
  <2>1. CASE MinerSubmit(m)
    <3>1. block[m] \in TransactionBlock
      BY <2>1 DEF MinerSubmit, MinerTypeOK
    <3>2. QED
      BY <2>1, <3>1 DEF MinerSubmit, ChannelsTypeOK
  <2>2. CASE MinerWake(m)
    BY <2>2 DEF MinerWake, ChannelsTypeOK
  <2>3. QED
    BY <2>1, <2>2 DEF MinerNext, MinerCheck, MinerSelect, MinerReadPrevious,
                      ChannelsTypeOK
<1>3. MinerTypeOK'
  <2>1. CASE MinerWake(m)
    BY <2>1 DEF MinerWake, MinerTypeOK
  <2>2. CASE MinerCheck(m)
    <3>1. mpc' = [mpc EXCEPT ![m] = "select"] \/ mpc' = [mpc EXCEPT ![m] = "wait"]
      BY <2>2, Zenon DEF MinerCheck
    <3>2. QED
      BY <2>2, <3>1 DEF MinerCheck, MinerTypeOK
  <2>3. CASE MinerSelect(m)
    <3>1. Selections \subseteq [1..TRANSACTIONS_PER_BLOCK -> Transaction]
      BY NullAssumption DEF Selections, FilledSlots, PoolTypeOK, PendingTransaction
    <3>2. <<>> \notin [1..TRANSACTIONS_PER_BLOCK -> Transaction]
      BY ConfigAssumption
    <3>3. QED
      BY <2>3, <3>1, <3>2 DEF MinerSelect, MinerTypeOK
  <2>4. CASE MinerReadPrevious(m)
    <3>1. selected_transactions[m] \in [1..TRANSACTIONS_PER_BLOCK -> Transaction]
      BY <2>4 DEF MinerReadPrevious, MinerTypeOK
    <3>2. [txb_id |-> <<m, block_number[m]>>,
           previous_block_hash |-> last_block_hash,
           transactions |-> selected_transactions[m]] \in TransactionBlock
      BY <3>1 DEF TransactionBlock, BlockIds, LedgerTypeOK, MinerTypeOK
    <3>3. CASE mpc' = [mpc EXCEPT ![m] = "pow"]
      <4>1. mpc[m] = "previous" /\ block[m] = NoBlock
        BY <2>4 DEF MinerReadPrevious, MinerTypeOK
      <4>2. block'[m] \in TransactionBlock /\ block'[m] # NoBlock
        BY <2>4, <3>2, <3>3, <4>1, NullAssumption DEF MinerReadPrevious, MinerTypeOK
      <4>3. /\ block' = [block EXCEPT ![m] = block'[m]]
            /\ block_number' = [block_number EXCEPT ![m] = @ + 1]
            /\ selected_transactions' = [selected_transactions EXCEPT ![m] = <<>>]
        BY <2>4, <3>3, <4>1 DEF MinerReadPrevious, NextBlockNumber, MinerTypeOK
      <4>4. QED
        BY <3>3, <4>1, <4>2, <4>3 DEF MinerTypeOK
    <3>4. CASE mpc' = [mpc EXCEPT ![m] = "done"]
      BY <2>4, <3>4 DEF MinerReadPrevious, MinerTypeOK
    <3>5. QED
      BY <2>4, <3>3, <3>4 DEF MinerReadPrevious
  <2>5. CASE MinerSubmit(m)
    BY <2>5 DEF MinerSubmit, MinerTypeOK
  <2>6. QED
    BY <2>1, <2>2, <2>3, <2>4, <2>5 DEF MinerNext
<1>4. QED
  BY <1>1, <1>2, <1>3

(* The reception of a message keeps the types.                             *)
LEMMA TypeStatistics ==
  ASSUME TypeOK, StatisticsReceive,
         UNCHANGED <<txGenVars, minerVars, validatorVars, launcherVars>>
  PROVE  TypeOK'
<1> USE DEF TypeOK
<1>1. Head(mq) \in StatisticsMessage /\ mq' \in Seq(StatisticsMessage)
  BY DEF StatisticsReceive, StatisticsTypeOK
<1>2. Head(mq).miner_id \in Miners /\ Head(mq).earned_amount \in Int
  BY <1>1 DEF StatisticsMessage
<1>3. StatisticsTypeOK'
  <2> DEFINE msg == Head(mq)
  <2>1. CASE IsValidBlock(msg)
    <3>1. /\ miner_valid_blocks' = [miner_valid_blocks EXCEPT ![msg.miner_id] = @ + 1]
          /\ miner_credits' =
               [miner_credits EXCEPT ![msg.miner_id] = @ + msg.earned_amount]
          /\ blocks_in_chain' = blocks_in_chain + 1
          /\ UNCHANGED miner_invalid_blocks
      BY <2>1 DEF StatisticsReceive
    <3>2. QED
      BY <1>1, <1>2, <3>1 DEF StatisticsReceive, StatisticsTypeOK
  <2>2. CASE ~IsValidBlock(msg)
    <3>1. /\ miner_invalid_blocks' =
               [miner_invalid_blocks EXCEPT ![msg.miner_id] = @ + 1]
          /\ UNCHANGED <<miner_valid_blocks, miner_credits, blocks_in_chain>>
      BY <2>2 DEF StatisticsReceive
    <3>2. QED
      BY <1>1, <1>2, <3>1 DEF StatisticsReceive, StatisticsTypeOK
  <2>3. QED
    BY <2>1, <2>2
<1>4. QED
  BY <1>3 DEF StatisticsReceive, poolVars, ledgerVars, txGenVars, minerVars,
     validatorVars, launcherVars, PoolTypeOK, LedgerTypeOK, ChannelsTypeOK,
     TxGenTypeOK, MinerTypeOK, ValidatorTypeOK

(* Aging turns a pending transaction into a pending transaction.           *)
LEMMA AgedType ==
  ASSUME NEW p \in PendingTransaction
  PROVE  Aged(p) \in PendingTransaction
<1>1. p.tx.reward \in Nat /\ p.age \in Nat /\ p.tx.tx_id \in TxIds
  BY DEF PendingTransaction, Transaction
<1>2. RaisedReward(p) \in Nat
  <2>1. RaisedReward(p) = p.tx.reward + 1 \/ RaisedReward(p) = p.tx.reward
    BY Zenon DEF RaisedReward
  <2>2. QED
    BY <1>1, <2>1
<1>3. QED
  BY <1>1, <1>2 DEF Aged, PendingTransaction, Transaction

(* A send keeps the type of the queue, whether it is full or not.          *)
LEMMA mq_sendType ==
  ASSUME NEW msg \in StatisticsMessage, mq \in Seq(StatisticsMessage)
  PROVE  mq_send(msg) \in Seq(StatisticsMessage)
BY DEF mq_send

(* The variables of the other components keep their types in a step of a   *)
(* validator or of the launcher.                                           *)
LEMMA TypeOthers ==
  ASSUME TypeOK, UNCHANGED <<minerwork, txGenVars, minerVars, statisticsVars>>,
         mq' \in Seq(StatisticsMessage), PoolTypeOK', LedgerTypeOK',
         pipe' \in Seq(TransactionBlock), sigterm' \in SUBSET Validators,
         ValidatorTypeOK'
  PROVE  TypeOK'
BY DEF TypeOK, ChannelsTypeOK, txGenVars, minerVars, statisticsVars,
       TxGenTypeOK, MinerTypeOK, StatisticsTypeOK

(* A step of a validator keeps the types.                                  *)
LEMMA TypeValidator ==
  ASSUME TypeOK, NEW v \in Validators, ValidatorNext(v),
         UNCHANGED <<txGenVars, minerVars, launcherVars, statisticsVars>>
  PROVE  TypeOK'
<1> USE DEF TypeOK, launcherVars
<1> DEFINE b == streamed_block[v]
<1>1. CASE ValidatorStart(v)
  BY <1>1, TypeOthers DEF ValidatorStart, poolVars, ledgerVars, PoolTypeOK,
     LedgerTypeOK, ChannelsTypeOK, ValidatorTypeOK, StatisticsTypeOK
<1>2. CASE ValidatorNemesis(v)
  <2>1. LedgerTypeOK'
    BY <1>2, ConfigAssumption DEF ValidatorNemesis, ledgerVars, LedgerTypeOK,
       compute_sha256, nemesis_block, Hashes
  <2>2. ValidatorTypeOK'
    BY <1>2 DEF ValidatorNemesis, ValidatorTypeOK
  <2>3. QED
    BY <1>2, <2>1, <2>2, TypeOthers DEF ValidatorNemesis, poolVars, PoolTypeOK,
       ChannelsTypeOK, StatisticsTypeOK
<1>3. CASE ValidatorRead(v)
  <2>1. Head(pipe) \in TransactionBlock /\ pipe' \in Seq(TransactionBlock)
    BY <1>3 DEF ValidatorRead, ChannelsTypeOK
  <2>2. ValidatorTypeOK'
    BY <1>3, <2>1, NullAssumption DEF ValidatorRead, ValidatorTypeOK
  <2>3. QED
    BY <1>3, <2>1, <2>2, TypeOthers DEF ValidatorRead, poolVars, ledgerVars,
       PoolTypeOK, LedgerTypeOK, ChannelsTypeOK, StatisticsTypeOK
<1>4. CASE ValidatorCheckHash(v)
  <2>1. \/ vpc' = [vpc EXCEPT ![v] = "check_pool"]
        \/ vpc' = [vpc EXCEPT ![v] = "reject"]
    BY <1>4, Zenon DEF ValidatorCheckHash
  <2>2. ValidatorTypeOK'
    BY <1>4, <2>1 DEF ValidatorCheckHash, ValidatorTypeOK
  <2>3. QED
    BY <1>4, <2>2, TypeOthers DEF ValidatorCheckHash, poolVars, ledgerVars,
       PoolTypeOK, LedgerTypeOK, ChannelsTypeOK, StatisticsTypeOK
<1>5. CASE ValidatorCheckPool(v)
  <2>1. PoolTypeOK'
    <3>1. CASE TransactionsInPool(b)
      <4> DEFINE removed == SlotsToRemove(b)
      <4>1. \A s \in FilledSlots : Aged(pool[s]) \in PendingTransaction
        BY AgedType DEF FilledSlots, PoolTypeOK
      <4>2. Cardinality(removed) \in Nat
        BY FilledSlotsFinite DEF SlotsToRemove, FilledSlots
      <4>3. /\ pool' = [s \in Slots |-> IF s \in FilledSlots \ removed
                                        THEN Aged(pool[s]) ELSE Free]
            /\ pool_count' = pool_count - Cardinality(removed)
        BY <1>5, <3>1 DEF ValidatorCheckPool, CountLessRemoved
      <4> HIDE DEF removed
      <4>4. QED
        BY <4>1, <4>2, <4>3 DEF PoolTypeOK
    <3>2. CASE ~TransactionsInPool(b)
      BY <1>5, <3>2 DEF ValidatorCheckPool, poolVars, PoolTypeOK
    <3>3. QED
      BY <3>1, <3>2
  <2>2. ValidatorTypeOK'
    <3>1. \/ vpc' = [vpc EXCEPT ![v] = "commit"]
          \/ vpc' = [vpc EXCEPT ![v] = "reject"]
      BY <1>5, Zenon DEF ValidatorCheckPool
    <3>2. QED
      BY <1>5, <3>1 DEF ValidatorCheckPool, ValidatorTypeOK
  <2>3. QED
    BY <1>5, <2>1, <2>2, TypeOthers DEF ValidatorCheckPool, ledgerVars,
       LedgerTypeOK, ChannelsTypeOK, StatisticsTypeOK
<1>6. CASE ValidatorCommit(v)
  <2>1. b \in TransactionBlock
    BY <1>6 DEF ValidatorCommit, ValidatorTypeOK
  <2>2. LedgerTypeOK'
    BY <1>6, <2>1 DEF ValidatorCommit, ledgerVars, LedgerTypeOK, NextIndex,
       compute_sha256, TransactionBlock, Hashes
  <2>3. ValidatorTypeOK'
    BY <1>6 DEF ValidatorCommit, ValidatorTypeOK, NextIndex, LedgerTypeOK
  <2>4. QED
    BY <1>6, <2>2, <2>3, TypeOthers DEF ValidatorCommit, poolVars, PoolTypeOK,
       ChannelsTypeOK, StatisticsTypeOK
<1>7. CASE ValidatorReport(v)
  <2>1. b \in TransactionBlock /\ b.txb_id[1] \in Miners
    BY <1>7 DEF ValidatorReport, ValidatorTypeOK, TransactionBlock, BlockIds
  <2>2. Message(b, next_index[v], EarnedAmount(b)) \in StatisticsMessage
    BY <2>1, EarnedAmountSum DEF Message, StatisticsMessage, ValidatorTypeOK
  <2>3. mq' \in Seq(StatisticsMessage)
    BY <1>7, <2>2, mq_sendType DEF ValidatorReport, StatisticsTypeOK
  <2>4. ValidatorTypeOK'
    BY <1>7 DEF ValidatorReport, ValidatorTypeOK
  <2>5. QED
    BY <1>7, <2>3, <2>4, TypeOthers DEF ValidatorReport, poolVars, ledgerVars,
       PoolTypeOK, LedgerTypeOK, ChannelsTypeOK
<1>8. CASE ValidatorReject(v)
  <2>1. b \in TransactionBlock /\ b.txb_id[1] \in Miners
    BY <1>8 DEF ValidatorReject, ValidatorTypeOK, TransactionBlock, BlockIds
  <2>2. Message(b, -1, -1) \in StatisticsMessage
    BY <2>1 DEF Message, StatisticsMessage
  <2>3. mq' \in Seq(StatisticsMessage)
    BY <1>8, <2>2, mq_sendType DEF ValidatorReject, StatisticsTypeOK
  <2>4. ValidatorTypeOK'
    BY <1>8 DEF ValidatorReject, ValidatorTypeOK
  <2>5. QED
    BY <1>8, <2>3, <2>4, TypeOthers DEF ValidatorReject, poolVars, ledgerVars,
       PoolTypeOK, LedgerTypeOK, ChannelsTypeOK
<1>9. CASE ValidatorSigterm(v)
  <2>1. ValidatorTypeOK'
    BY <1>9 DEF ValidatorSigterm, ValidatorTypeOK
  <2>2. QED
    BY <1>9, <2>1, TypeOthers DEF ValidatorSigterm, poolVars, ledgerVars,
       PoolTypeOK, LedgerTypeOK, ChannelsTypeOK, StatisticsTypeOK
<1>10. QED
  BY <1>1, <1>2, <1>3, <1>4, <1>5, <1>6, <1>7, <1>8, <1>9 DEF ValidatorNext

(* A step of the launcher keeps the types.                                 *)
LEMMA TypeLauncher ==
  ASSUME TypeOK, LauncherNext, UNCHANGED <<txGenVars, minerVars, statisticsVars>>
  PROVE  TypeOK'
<1> USE DEF TypeOK
<1>1. UNCHANGED <<poolVars, ledgerVars, minerwork, pipe, mq>>
  BY DEF LauncherNext, LauncherFork, LauncherTerminate, LauncherReap, LauncherEnd
<1>2. sigterm' \in SUBSET Validators
  BY DEF LauncherNext, LauncherFork, LauncherTerminate, LauncherReap, LauncherEnd,
     ChannelsTypeOK, Auxiliary
<1>3. ValidatorTypeOK'
  <2>1. CASE LauncherFork
    BY <2>1 DEF LauncherFork, ToLaunch, ValidatorTypeOK
  <2>2. CASE LauncherReap
    BY <2>2 DEF LauncherReap, ValidatorTypeOK
  <2>3. CASE LauncherTerminate \/ LauncherEnd
    BY <2>3 DEF LauncherTerminate, LauncherEnd, validatorVars, ValidatorTypeOK
  <2>4. QED
    BY <2>1, <2>2, <2>3 DEF LauncherNext
<1>4. QED
  BY <1>1, <1>2, <1>3, TypeOthers DEF poolVars, ledgerVars, PoolTypeOK,
     LedgerTypeOK, ChannelsTypeOK, StatisticsTypeOK

(* TypeOK is inductive.                                                    *)
LEMMA TypeNext == TypeOK /\ [Next]_vars => TypeOK'
<1> SUFFICES ASSUME TypeOK, [Next]_vars PROVE TypeOK'
  OBVIOUS
<1>1. CASE TxGenStep
  BY <1>1, TypeTxGen DEF TxGenStep
<1>2. CASE MinerStep
  BY <1>2, TypeMiner DEF MinerStep
<1>3. CASE ValidatorStep
  BY <1>3, TypeValidator DEF ValidatorStep
<1>4. CASE LauncherStep
  BY <1>4, TypeLauncher DEF LauncherStep
<1>5. CASE StatisticsStep
  BY <1>5, TypeStatistics DEF StatisticsStep
<1>6. CASE UNCHANGED vars
  BY <1>6 DEF vars, poolVars, ledgerVars, txGenVars, minerVars, validatorVars,
     launcherVars, statisticsVars, TypeOK, PoolTypeOK, LedgerTypeOK,
     ChannelsTypeOK, TxGenTypeOK, MinerTypeOK, ValidatorTypeOK, StatisticsTypeOK
<1>7. QED
  BY <1>1, <1>2, <1>3, <1>4, <1>5, <1>6 DEF Next

(* The types hold in every reachable state; in particular a process holds  *)
(* a block, or a selection, exactly where the code uses it.                *)
THEOREM TypeCorrect == Spec => []TypeOK
BY TypeInit, TypeNext, PTL DEF Spec

-----------------------------------------------------------------------------
(* The posts of sem_minerwork.  A generator posts what it found missing    *)
(* when it read the value, whatever was posted since; the bound holds      *)
(* because what all of them still owe counts as posted.                    *)

(* The posts that the generators have decided on and not done.             *)
Owed == {p \in TxGens \X (1..Cardinality(Miners)) : p[2] <= to_post[p[1]]}

PostsInv ==
  minerwork + Cardinality(Owed) <= Cardinality(Miners) * Cardinality(TxGens)

(* What is owed is finite, and no generator owes more than a round.        *)
LEMMA OwedFinite ==
  /\ IsFiniteSet(TxGens \X (1..Cardinality(Miners)))
  /\ IsFiniteSet(Owed) /\ Cardinality(Owed) \in Nat
<1>1. IsFiniteSet(1..Cardinality(Miners))
  BY MinersCardinality, FS_Interval
<1>2. IsFiniteSet(TxGens \X (1..Cardinality(Miners)))
  BY <1>1, SystemAssumption, FS_Product
<1>3. Owed \subseteq TxGens \X (1..Cardinality(Miners))
  BY DEF Owed
<1>4. IsFiniteSet(Owed)
  BY <1>2, <1>3, FS_Subset
<1>5. QED
  BY <1>2, <1>4, FS_CardinalityType

(* A generator that finds miners without a post owes as many posts, and    *)
(* the other generators owe at most a round each.                          *)
LEMMA PostsGetValue ==
  ASSUME TypeOK, PostsInv, NEW g \in TxGens, TxGenGetValue(g)
  PROVE  PostsInv'
<1> DEFINE n == Cardinality(Miners)
           others == (TxGens \ {g}) \X (1..n)
           mine == {g} \X (1..PostsNeeded)
<1>1. CASE PostsNeeded > 0
  <2>1. n \in Nat /\ minerwork \in Nat /\ PostsNeeded \in 1..n
    BY <1>1, MinersCardinality DEF PostsNeeded, TypeOK, ChannelsTypeOK
  <2>2. to_post' = [to_post EXCEPT ![g] = PostsNeeded] /\ minerwork' = minerwork
    BY <1>1 DEF TxGenGetValue
  <2>3. Owed' \subseteq others \cup mine
    <3>1. SUFFICES ASSUME NEW p \in TxGens \X (1..n), p[2] <= to_post'[p[1]]
                   PROVE  p \in others \cup mine
      BY DEF Owed
    <3>2. CASE p[1] = g
      <4>1. to_post'[g] = PostsNeeded
        BY <2>2 DEF TypeOK, TxGenTypeOK
      <4>2. p[2] \in 1..PostsNeeded
        BY <2>1, <3>1, <3>2, <4>1
      <4>3. QED
        BY <3>2, <4>2
    <3>3. CASE p[1] # g
      BY <3>3
    <3>4. QED
      BY <3>2, <3>3
  <2>4. /\ IsFiniteSet(others)
        /\ Cardinality(others) = (Cardinality(TxGens) - 1) * n
    <3>1. /\ IsFiniteSet(TxGens \ {g})
          /\ Cardinality(TxGens \ {g}) = Cardinality(TxGens) - 1
      BY SystemAssumption, FS_RemoveElement
    <3>2. IsFiniteSet(1..n) /\ Cardinality(1..n) = n
      BY <2>1, FS_Interval
    <3>3. /\ IsFiniteSet((TxGens \ {g}) \X (1..n))
          /\ Cardinality((TxGens \ {g}) \X (1..n)) =
               Cardinality(TxGens \ {g}) * Cardinality(1..n)
      BY <3>1, <3>2, FS_Product, Zenon
    <3>4. QED
      BY <3>1, <3>2, <3>3
  <2>5. IsFiniteSet(mine) /\ Cardinality(mine) = PostsNeeded
    <3>1. IsFiniteSet({g}) /\ Cardinality({g}) = 1
      BY FS_Singleton
    <3>2. /\ IsFiniteSet(1..PostsNeeded)
          /\ Cardinality(1..PostsNeeded) = PostsNeeded
      BY <2>1, FS_Interval
    <3>3. /\ IsFiniteSet({g} \X (1..PostsNeeded))
          /\ Cardinality({g} \X (1..PostsNeeded)) =
               Cardinality({g}) * Cardinality(1..PostsNeeded)
      BY <3>1, <3>2, FS_Product, Zenon
    <3>4. 1 * PostsNeeded = PostsNeeded
      BY <2>1
    <3>5. QED
      BY <3>1, <3>2, <3>3, <3>4
  <2> HIDE DEF others, mine
  <2>6. /\ Cardinality(others \cup mine) <= Cardinality(others) + Cardinality(mine)
        /\ IsFiniteSet(others \cup mine)
    <3>1. IsFiniteSet(others \cap mine)
      BY <2>4, FS_Intersection
    <3>2. Cardinality(others \cap mine) \in Nat /\ Cardinality(others) \in Nat
          /\ Cardinality(mine) \in Nat
      BY <2>4, <2>5, <3>1, FS_CardinalityType
    <3>3. /\ IsFiniteSet(others \cup mine)
          /\ Cardinality(others \cup mine) =
               Cardinality(others) + Cardinality(mine) - Cardinality(others \cap mine)
      BY <2>4, <2>5, FS_Union, Zenon
    <3>4. QED
      BY <3>2, <3>3
  <2>7. /\ Cardinality(Owed') <= Cardinality(others \cup mine)
        /\ Cardinality(Owed') \in Nat
        /\ Cardinality(others \cup mine) \in Nat
    BY <2>3, <2>6, FS_Subset, FS_CardinalityType
  <2>8. Cardinality(TxGens) \in Nat
    BY SystemAssumption, FS_CardinalityType
  <2>9. (Cardinality(TxGens) - 1) * n + n = n * Cardinality(TxGens)
    BY <2>1, <2>8
  <2>10. minerwork + PostsNeeded = n
    BY <2>1 DEF PostsNeeded
  <2>11. (Cardinality(TxGens) - 1) * n \in Int /\ n * Cardinality(TxGens) \in Int
    BY <2>1, <2>8
  <2>12. Cardinality(Owed') <= (Cardinality(TxGens) - 1) * n + PostsNeeded
    BY <2>1, <2>4, <2>5, <2>6, <2>7, <2>11
  <2>13. minerwork' + Cardinality(Owed') <= n * Cardinality(TxGens)
    BY <2>1, <2>2, <2>7, <2>9, <2>10, <2>11, <2>12
  <2>14. QED
    BY <2>13 DEF PostsInv
<1>2. CASE ~(PostsNeeded > 0)
  BY <1>2 DEF TxGenGetValue, PostsInv, Owed
<1>3. QED
  BY <1>1, <1>2

(* A post turns one owed post into one done.                               *)
LEMMA PostsPost ==
  ASSUME TypeOK, PostsInv, NEW g \in TxGens, TxGenPost(g)
  PROVE  PostsInv'
<1> DEFINE last == <<g, to_post[g]>>
<1>1. /\ to_post \in [TxGens -> 0..Cardinality(Miners)]
      /\ to_post[g] \in 1..Cardinality(Miners)
    BY MinersCardinality DEF TypeOK, TxGenTypeOK, TxGenPost
<1>2. /\ to_post' = [to_post EXCEPT ![g] = @ - 1]
      /\ minerwork' = minerwork + 1
  BY DEF TxGenPost
<1>3. last \in Owed
  BY <1>1 DEF Owed
<1>4. Owed' = Owed \ {last}
  <2>1. ASSUME NEW p \in TxGens \X (1..Cardinality(Miners))
        PROVE  p[2] <= to_post'[p[1]] <=> p[2] <= to_post[p[1]] /\ p # last
    <3>1. p = <<p[1], p[2]>> /\ p[1] \in TxGens /\ p[2] \in 1..Cardinality(Miners)
      OBVIOUS
    <3>2. CASE p[1] = g
      <4>1. to_post'[p[1]] = to_post[g] - 1
        BY <1>1, <1>2, <3>2
      <4>2. p # last <=> p[2] # to_post[g]
        BY <3>1, <3>2
      <4>3. QED
        BY <1>1, <3>1, <3>2, <4>1, <4>2, MinersCardinality
    <3>3. CASE p[1] # g
      BY <1>1, <1>2, <3>1, <3>3
    <3>4. QED
      BY <3>2, <3>3
  <2>2. QED
    BY <2>1 DEF Owed
<1>5. Cardinality(Owed') = Cardinality(Owed) - 1
  BY <1>3, <1>4, OwedFinite, FS_RemoveElement
<1>6. minerwork \in Nat /\ Cardinality(Owed) \in Nat
  BY OwedFinite DEF TypeOK, ChannelsTypeOK
<1>7. QED
  BY <1>2, <1>5, <1>6 DEF PostsInv

(* Generators add to what is owed, miners take what was posted, and nobody *)
(* else uses sem_minerwork.                                                *)
LEMMA PostsNext == TypeOK /\ PostsInv /\ [Next]_vars => PostsInv'
<1> SUFFICES ASSUME TypeOK, PostsInv, [Next]_vars PROVE PostsInv'
  OBVIOUS
<1> DEFINE bound == Cardinality(Miners) * Cardinality(TxGens)
<1>1. minerwork \in Nat /\ Cardinality(Owed) \in Nat /\ bound \in Int
  <2>1. Cardinality(TxGens) \in Nat
    BY SystemAssumption, FS_CardinalityType
  <2>2. QED
    BY <2>1, MinersCardinality, OwedFinite DEF TypeOK, ChannelsTypeOK
<1>2. ASSUME to_post' = to_post, minerwork' \in Nat, minerwork' <= minerwork
      PROVE  PostsInv'
  <2>1. Owed' = Owed
    BY <1>2 DEF Owed
  <2>2. minerwork + Cardinality(Owed) <= bound
    BY DEF PostsInv
  <2> HIDE DEF bound
  <2>3. minerwork' + Cardinality(Owed') <= bound
    BY <1>1, <1>2, <2>1, <2>2
  <2>4. QED
    BY <2>3 DEF PostsInv, bound
<1>3. CASE TxGenStep
  <2>1. PICK g \in TxGens : TxGenNext(g)
    BY <1>3 DEF TxGenStep
  <2>2. CASE TxGenAdd(g) \/ TxGenPoolFull(g)
    <3>1. to_post' = to_post /\ minerwork' = minerwork
      BY <2>2 DEF TxGenAdd, TxGenPoolFull
    <3>2. QED
      BY <1>1, <1>2, <3>1
  <2>3. QED
    BY <2>1, <2>2, PostsGetValue, PostsPost DEF TxGenNext
<1>4. CASE MinerStep
  <2>1. to_post' = to_post
    BY <1>4 DEF MinerStep, txGenVars
  <2>2. minerwork' \in Nat /\ minerwork' <= minerwork
    BY <1>1, <1>4 DEF MinerStep, MinerNext, MinerWake, MinerCheck, MinerSelect,
                      MinerReadPrevious, MinerSubmit
  <2>3. QED
    BY <1>2, <2>1, <2>2
<1>5. CASE ValidatorStep
  <2>1. UNCHANGED <<to_post, minerwork>>
    BY <1>5 DEF ValidatorStep, txGenVars, ValidatorNext, ValidatorStart,
       ValidatorNemesis, ValidatorRead, ValidatorCheckHash, ValidatorCheckPool,
       ValidatorCommit, ValidatorReport, ValidatorReject, ValidatorSigterm
  <2>2. QED
    BY <1>1, <1>2, <2>1
<1>6. CASE LauncherStep
  <2>1. UNCHANGED <<to_post, minerwork>>
    BY <1>6 DEF LauncherStep, txGenVars, LauncherNext, LauncherFork,
       LauncherTerminate, LauncherReap, LauncherEnd
  <2>2. QED
    BY <1>1, <1>2, <2>1
<1>7. CASE StatisticsStep
  <2>1. UNCHANGED <<to_post, minerwork>>
    BY <1>7 DEF StatisticsStep, txGenVars, StatisticsReceive
  <2>2. QED
    BY <1>1, <1>2, <2>1
<1>8. CASE UNCHANGED vars
  BY <1>1, <1>2, <1>8 DEF vars, txGenVars
<1>9. QED
  BY <1>3, <1>4, <1>5, <1>6, <1>7, <1>8 DEF Next

(* At the start nothing is posted and nothing is owed.                     *)
LEMMA PostsInit == Init => PostsInv
<1> SUFFICES ASSUME Init PROVE PostsInv
  OBVIOUS
<1>1. minerwork = 0 /\ \A g \in TxGens : to_post[g] = 0
  BY DEF Init, SharedInit, TxGenInit
<1>2. Owed = {}
  BY <1>1 DEF Owed
<1>3. Cardinality(Owed) = 0
  BY <1>2, FS_EmptySet
<1>4. Cardinality(Miners) * Cardinality(TxGens) \in Nat
  BY MinersCardinality, SystemAssumption, FS_CardinalityType
<1>5. QED
  BY <1>1, <1>3, <1>4 DEF PostsInv

(* Generators that read the semaphore and post it without a lock overshoot *)
(* together, but never past one round of the miners for each of them.      *)
THEOREM PostsBounded == Spec => []MinerworkBounded
<1>1. PostsInv /\ TypeOK => MinerworkBounded
  <2> SUFFICES ASSUME PostsInv, TypeOK PROVE MinerworkBounded
    OBVIOUS
  <2>1. /\ minerwork \in Nat /\ Cardinality(Owed) \in Nat
        /\ Cardinality(Miners) * Cardinality(TxGens) \in Nat
    BY OwedFinite, MinersCardinality, SystemAssumption, FS_CardinalityType
       DEF TypeOK, ChannelsTypeOK
  <2>2. QED
    BY <2>1 DEF PostsInv, MinerworkBounded
<1>2. QED
  BY <1>1, TypeInit, TypeNext, PostsInit, PostsNext, PTL DEF Spec
-----------------------------------------------------------------------------
(***************************************************************************)
(* The ledger is a chain that only grows and stays within its capacity,    *)
(* for any number of validators.  The invariant that carries the proof has *)
(* two parts.  Ids: a block is in one place at a time, so that an id       *)
(* enters the ledger once.  Hashes: the previous hash of a block on its    *)
(* way is that of a block of the ledger which, when the block was started, *)
(* was not the last of a full one.                                         *)
(***************************************************************************)
InPipe == 1..Len(pipe)
Held   == {v \in Validators :
             vpc[v] \in {"check_hash", "check_pool", "commit", "reject"}}
Mined  == Height \ {0}

(* The id belongs to a block that its miner has written to the pipe.       *)
Submitted(id) ==
  /\ id \in BlockIds
  /\ id[2] < block_number[id[1]]
  /\ block[id[1]] # NoBlock => id[2] < block_number[id[1]] - 1

IdsKnown ==
  /\ \A m \in Miners :
        block[m] # NoBlock => block[m].txb_id = <<m, block_number[m] - 1>>
  /\ \A k \in InPipe : Submitted(pipe[k].txb_id)
  /\ \A v \in Held : Submitted(streamed_block[v].txb_id)
  /\ \A i \in Mined : Submitted(blocks[i].txb_id)

IdsDistinct ==
  /\ \A k, l \in InPipe : k # l => pipe[k].txb_id # pipe[l].txb_id
  /\ \A v, w \in Held : v # w => streamed_block[v].txb_id # streamed_block[w].txb_id
  /\ \A i, j \in Mined : i # j => blocks[i].txb_id # blocks[j].txb_id
  /\ \A k \in InPipe, v \in Held : pipe[k].txb_id # streamed_block[v].txb_id
  /\ \A k \in InPipe, i \in Mined : pipe[k].txb_id # blocks[i].txb_id
  /\ \A v \in Held, i \in Mined : streamed_block[v].txb_id # blocks[i].txb_id

(* The hash that a miner may have read: of a block of the ledger that was  *)
(* not the last of a full one, or none before the nemesis block.           *)
MinedOn(hash) ==
  \/ hash = NoHash
  \/ \E i \in Height : i < BLOCKCHAIN_BLOCKS - 1 /\ hash = blocks[i].txb_id

HashesKnown ==
  /\ \A m \in Miners : block[m] # NoBlock => MinedOn(block[m].previous_block_hash)
  /\ \A k \in InPipe : MinedOn(pipe[k].previous_block_hash)
  /\ \A v \in Held : MinedOn(streamed_block[v].previous_block_hash)

LedgerShape ==
  /\ LedgerWithinCapacity
  /\ ChainLinked
  /\ ledger_count = 0 => last_block_index = 0 /\ last_block_hash = NoHash
  /\ ledger_count = 0 => \A v \in Validators :
                            vpc[v] \in {"off", "boot", "nemesis", "zombie"}
  /\ \A i \in Mined : blocks[i] \in TransactionBlock

LedgerInv ==
  /\ TypeOK
  /\ IdsKnown
  /\ IdsDistinct
  /\ HashesKnown
  /\ LedgerShape

-----------------------------------------------------------------------------
(* The segments are cleared before the first fork: the ledger is empty and *)
(* no block is on its way.                                                 *)
LEMMA LedgerInvInit == Init => LedgerInv
<1> SUFFICES ASSUME Init PROVE LedgerInv
  OBVIOUS
<1>1. /\ pipe = <<>> /\ ledger_count = 0 /\ last_block_index = 0
      /\ last_block_hash = NoHash
      /\ \A m \in Miners : block[m] = NoBlock
      /\ \A v \in Validators : vpc[v] \in {"boot", "off"}
  BY DEF Init, SharedInit, MinerInit, ValidatorInit
<1>2. InPipe = {} /\ Held = {} /\ Mined = {} /\ Height = {}
  BY <1>1 DEF InPipe, Held, Mined, Height
<1>3. LedgerShape
  BY <1>1, <1>2, ConfigAssumption DEF LedgerShape, LedgerWithinCapacity, ChainLinked
<1>4. QED
  BY <1>1, <1>2, <1>3, TypeInit DEF LedgerInv, IdsKnown, IdsDistinct, HashesKnown

(* Nothing that the invariant speaks of changes, except that validators    *)
(* may let go of their blocks.                                             *)
LEMMA LedgerFrame ==
  ASSUME LedgerInv, TypeOK', UNCHANGED <<ledgerVars, pipe, block, block_number>>,
         \A v \in Held' : v \in Held /\ streamed_block'[v] = streamed_block[v],
         ledger_count = 0 => \A v \in Validators :
                                vpc'[v] \in {"off", "boot", "nemesis", "zombie"}
  PROVE  LedgerInv'
<1>1. \A h : Submitted(h) => Submitted(h)'
  BY DEF Submitted
<1>2. \A h : MinedOn(h) => MinedOn(h)'
  BY DEF MinedOn, Height, ledgerVars
<1>3. InPipe' = InPipe /\ Mined' = Mined /\ blocks' = blocks
  BY DEF InPipe, Mined, Height, ledgerVars
<1>4. IdsKnown'
  BY <1>1, <1>3 DEF LedgerInv, IdsKnown
<1>5. IdsDistinct'
  BY <1>3 DEF LedgerInv, IdsDistinct
<1>6. HashesKnown'
  BY <1>2, <1>3 DEF LedgerInv, HashesKnown
<1>7. LedgerShape'
  BY <1>3 DEF LedgerInv, LedgerShape, LedgerWithinCapacity, ChainLinked, Height,
              ledgerVars, compute_sha256
<1>8. QED
  BY <1>4, <1>5, <1>6, <1>7 DEF LedgerInv

(* A block that a miner starts has a new id and the hash it has just read. *)
LEMMA LedgerReadPrevious ==
  ASSUME LedgerInv, TypeOK', NEW m \in Miners, MinerReadPrevious(m),
         UNCHANGED <<vpc, streamed_block>>
  PROVE  LedgerInv'
<1> USE DEF LedgerInv
<1>1. CASE block' = block
  <2>1. UNCHANGED <<ledgerVars, pipe, block_number>>
    <3>1. CASE ~LedgerNotFull
      BY <3>1 DEF MinerReadPrevious
    <3>2. CASE LedgerNotFull
      <4>1. block'[m] # NoBlock /\ block[m] = NoBlock
        BY <3>2, NullAssumption DEF MinerReadPrevious, TypeOK, MinerTypeOK
      <4>2. QED
        BY <4>1, <1>1
    <3>3. QED
      BY <3>1, <3>2
  <2>2. QED
    BY <1>1, <2>1, LedgerFrame DEF Held, LedgerShape
<1>2. CASE block' # block
  <2>1. /\ LedgerNotFull
        /\ mpc[m] = "previous"
        /\ block' = [block EXCEPT ![m] = [txb_id |-> <<m, block_number[m]>>,
                                         previous_block_hash |-> last_block_hash,
                                         transactions |-> selected_transactions[m]]]
        /\ block_number' = [block_number EXCEPT ![m] = block_number[m] + 1]
        /\ UNCHANGED <<ledgerVars, pipe>>
    BY <1>2 DEF MinerReadPrevious, NextBlockNumber
  <2>2. block[m] = NoBlock
    BY <2>1 DEF TypeOK, MinerTypeOK
  <2>3. /\ block_number \in [Miners -> Nat]
        /\ block \in [Miners -> TransactionBlock \cup {NoBlock}]
    BY DEF TypeOK, MinerTypeOK
  <2>4. /\ block'[m].txb_id = <<m, block_number'[m] - 1>>
        /\ block'[m].previous_block_hash = last_block_hash
        /\ \A n \in Miners : n # m => /\ block'[n] = block[n]
                                      /\ block_number'[n] = block_number[n]
    BY <2>1, <2>3
  <2>5. \A h : Submitted(h) => Submitted(h)'
    <3> SUFFICES ASSUME NEW h, Submitted(h) PROVE Submitted(h)'
      OBVIOUS
    <3>1. h \in BlockIds /\ h[1] \in Miners /\ h[2] \in Nat
      BY DEF Submitted, BlockIds
    <3>2. CASE h[1] = m
      BY <2>1, <2>3, <3>1, <3>2 DEF Submitted
    <3>3. CASE h[1] # m
      BY <2>4, <3>1, <3>3 DEF Submitted
    <3>4. QED
      BY <3>2, <3>3
  <2>6. \A h : MinedOn(h)' <=> MinedOn(h)
    BY <2>1 DEF MinedOn, Height, ledgerVars
  <2>7. MinedOn(last_block_hash)
    <3>1. CASE ledger_count = 0
      BY <3>1 DEF LedgerShape, MinedOn
    <3>2. CASE ledger_count # 0
      <4>1. ledger_count \in Nat /\ ledger_count - 1 \in Height
        BY <3>2 DEF Height, TypeOK, LedgerTypeOK
      <4>2. last_block_hash = blocks[ledger_count - 1].txb_id
        BY <3>2, <4>1 DEF LedgerShape, ChainLinked, compute_sha256
      <4>3. ledger_count - 1 < BLOCKCHAIN_BLOCKS - 1
        BY <2>1, <4>1, ConfigAssumption DEF LedgerNotFull
      <4>4. QED
        BY <4>1, <4>2, <4>3 DEF MinedOn
    <3>3. QED
      BY <3>1, <3>2
  <2>8. InPipe' = InPipe /\ Held' = Held /\ Mined' = Mined /\ blocks' = blocks
    BY <2>1 DEF InPipe, Held, Mined, Height, ledgerVars
  <2>9. IdsKnown'
    BY <2>1, <2>4, <2>5, <2>8 DEF IdsKnown
  <2>10. IdsDistinct'
    BY <2>1, <2>8 DEF IdsDistinct
  <2>11. HashesKnown'
    BY <2>1, <2>4, <2>6, <2>7, <2>8 DEF HashesKnown
  <2>12. LedgerShape'
    BY <2>1, <2>8 DEF LedgerShape, LedgerWithinCapacity, ChainLinked, Height,
       ledgerVars, compute_sha256
  <2>13. QED
    BY <2>9, <2>10, <2>11, <2>12
<1>3. QED
  BY <1>1, <1>2

(* A block that is written to the pipe leaves its miner.                   *)
LEMMA LedgerSubmit ==
  ASSUME LedgerInv, TypeOK', NEW m \in Miners, MinerSubmit(m),
         UNCHANGED <<vpc, streamed_block>>
  PROVE  LedgerInv'
<1> USE DEF LedgerInv
<1> DEFINE n == Len(pipe)
<1>0. PICK b : b = block[m]
  OBVIOUS
<1>1. /\ b \in TransactionBlock /\ b # NoBlock
      /\ pipe \in Seq(TransactionBlock) /\ n \in Nat
      /\ block_number \in [Miners -> Nat]
      /\ block \in [Miners -> TransactionBlock \cup {NoBlock}]
  BY <1>0 DEF MinerSubmit, TypeOK, MinerTypeOK, ChannelsTypeOK
<1>2. /\ block' = [block EXCEPT ![m] = NoBlock]
      /\ pipe' = Append(pipe, b)
      /\ UNCHANGED <<ledgerVars, block_number>>
  BY <1>0 DEF MinerSubmit
<1>3. /\ Len(pipe') = n + 1
      /\ \A k \in 1..(n + 1) : pipe'[k] = IF k = n + 1 THEN b ELSE pipe[k]
  BY <1>1, <1>2
<1>4. InPipe' = InPipe \cup {n + 1} /\ n + 1 \notin InPipe
  BY <1>1, <1>3 DEF InPipe
<1>5. \A k \in InPipe : pipe'[k] = pipe[k]
  BY <1>1, <1>3 DEF InPipe
<1>6. pipe'[n + 1] = b
  BY <1>1, <1>3
<1>7. b.txb_id = <<m, block_number[m] - 1>> /\ b.txb_id \in BlockIds
  BY <1>0, <1>1 DEF IdsKnown, TransactionBlock
<1>8. \A h : Submitted(h) => Submitted(h)'
  <2> SUFFICES ASSUME NEW h, Submitted(h) PROVE Submitted(h)'
    OBVIOUS
  <2>1. h \in BlockIds /\ h[1] \in Miners /\ h[2] \in Nat
    BY DEF Submitted, BlockIds
  <2>2. QED
    BY <1>1, <1>2, <2>1 DEF Submitted
<1>9. Submitted(b.txb_id)'
  <2>1. b.txb_id[1] = m /\ b.txb_id[2] = block_number[m] - 1
    BY <1>7
  <2>2. b.txb_id[2] < block_number[m]
    BY <1>1, <2>1
  <2>3. QED
    BY <1>1, <1>2, <1>7, <2>1, <2>2 DEF Submitted
<1>10. \A h : Submitted(h) => h # b.txb_id
  <2> SUFFICES ASSUME NEW h, Submitted(h), h = b.txb_id PROVE FALSE
    OBVIOUS
  <2>1. h[1] = m /\ h[2] = block_number[m] - 1
    BY <1>7
  <2>2. ~(h[2] < block_number[m] - 1)
    BY <1>1, <2>1
  <2>3. QED
    BY <1>0, <1>1, <2>1, <2>2 DEF Submitted
<1>11. \A h : MinedOn(h)' <=> MinedOn(h)
  BY <1>2 DEF MinedOn, Height, ledgerVars
<1>12. Held' = Held /\ Mined' = Mined /\ blocks' = blocks
  BY <1>2 DEF Held, Mined, Height, ledgerVars
<1> HIDE DEF n
<1>13. IdsKnown'
  <2>1. \A i \in Miners : block'[i] # NoBlock =>
           block'[i].txb_id = <<i, block_number'[i] - 1>>
    BY <1>1, <1>2 DEF IdsKnown
  <2>2. (\A k \in InPipe : Submitted(pipe[k].txb_id))'
    BY <1>4, <1>5, <1>6, <1>8, <1>9 DEF IdsKnown
  <2>3. QED
    BY <1>8, <1>12, <2>1, <2>2 DEF IdsKnown
<1>14. IdsDistinct'
  BY <1>4, <1>5, <1>6, <1>10, <1>12 DEF IdsDistinct, IdsKnown
<1>15. HashesKnown'
  <2>1. MinedOn(b.previous_block_hash)
    BY <1>0, <1>1 DEF HashesKnown
  <2>2. \A i \in Miners : block'[i] # NoBlock => block'[i] = block[i]
    BY <1>1, <1>2
  <2>3. QED
    BY <1>4, <1>5, <1>6, <1>11, <1>12, <2>1, <2>2 DEF HashesKnown
<1>16. LedgerShape'
  BY <1>2, <1>12 DEF LedgerShape, LedgerWithinCapacity, ChainLinked, Height,
     ledgerVars, compute_sha256
<1>17. QED
  BY <1>13, <1>14, <1>15, <1>16

(* A block that a validator reads leaves the pipe.                         *)
LEMMA LedgerRead ==
  ASSUME LedgerInv, TypeOK', NEW v \in Validators, ValidatorRead(v),
         UNCHANGED <<block, block_number>>
  PROVE  LedgerInv'
<1> USE DEF LedgerInv
<1> DEFINE b == Head(pipe)
           n == Len(pipe)
<1>1. /\ pipe \in Seq(TransactionBlock) /\ n \in Nat /\ n >= 1
      /\ vpc = [w \in Validators |-> vpc[w]]
      /\ streamed_block \in [Validators -> TransactionBlock \cup {NoBlock}]
  BY DEF ValidatorRead, TypeOK, ChannelsTypeOK, ValidatorTypeOK
<1>2. /\ streamed_block' = [streamed_block EXCEPT ![v] = b]
      /\ pipe' = Tail(pipe)
      /\ vpc' = [vpc EXCEPT ![v] = "check_hash"]
      /\ vpc[v] = "read"
      /\ UNCHANGED ledgerVars
  BY DEF ValidatorRead
<1>3. b = pipe[1] /\ 1 \in InPipe
  BY <1>1 DEF InPipe
<1>4. /\ Len(pipe') = n - 1
      /\ \A k \in 1..(n - 1) : pipe'[k] = pipe[k + 1]
  BY <1>1, <1>2
<1>5. \A k \in InPipe' : pipe'[k] = pipe[k + 1] /\ k + 1 \in InPipe \ {1}
  BY <1>1, <1>4 DEF InPipe
<1>6. InPipe' \subseteq Nat
  BY <1>1, <1>4 DEF InPipe
<1>7. Held' = Held \cup {v} /\ v \notin Held
  BY <1>1, <1>2 DEF Held
<1>8. \A w \in Held : streamed_block'[w] = streamed_block[w]
  BY <1>1, <1>2, <1>7 DEF Held
<1>9. streamed_block'[v] = b
  BY <1>1, <1>2
<1>10. \A h : Submitted(h)' <=> Submitted(h)
  BY DEF Submitted
<1>11. \A h : MinedOn(h)' <=> MinedOn(h)
  BY <1>2 DEF MinedOn, Height, ledgerVars
<1>12. Mined' = Mined /\ blocks' = blocks
  BY <1>2 DEF Mined, Height, ledgerVars
<1> HIDE DEF b, n
<1>13. IdsKnown'
  BY <1>3, <1>5, <1>7, <1>8, <1>9, <1>10, <1>12 DEF IdsKnown
<1>14. IdsDistinct'
  <2>1. \A k, l \in InPipe' : k # l => pipe'[k].txb_id # pipe'[l].txb_id
    <3> SUFFICES ASSUME NEW k \in InPipe', NEW l \in InPipe', k # l
                 PROVE  pipe'[k].txb_id # pipe'[l].txb_id
      OBVIOUS
    <3>1. k + 1 # l + 1
      BY <1>6
    <3>2. QED
      BY <1>5, <3>1 DEF IdsDistinct
  <2>2. \A w, x \in Held' :
           w # x => streamed_block'[w].txb_id # streamed_block'[x].txb_id
    BY <1>3, <1>7, <1>8, <1>9 DEF IdsDistinct
  <2>3. \A k \in InPipe', w \in Held' :
           pipe'[k].txb_id # streamed_block'[w].txb_id
    BY <1>3, <1>5, <1>7, <1>8, <1>9 DEF IdsDistinct
  <2>4. \A k \in InPipe', i \in Mined : pipe'[k].txb_id # blocks[i].txb_id
    BY <1>5 DEF IdsDistinct
  <2>5. \A w \in Held', i \in Mined : streamed_block'[w].txb_id # blocks[i].txb_id
    BY <1>3, <1>7, <1>8, <1>9 DEF IdsDistinct
  <2>6. QED
    BY <1>12, <2>1, <2>2, <2>3, <2>4, <2>5 DEF IdsDistinct
<1>15. HashesKnown'
  BY <1>3, <1>5, <1>7, <1>8, <1>9, <1>11 DEF HashesKnown
<1>16. LedgerShape'
  <2>1. ledger_count # 0
    BY <1>2 DEF LedgerShape
  <2>2. QED
    BY <1>2, <1>12, <2>1 DEF LedgerShape, LedgerWithinCapacity, ChainLinked,
       Height, ledgerVars, compute_sha256
<1>17. QED
  BY <1>13, <1>14, <1>15, <1>16

(* The nemesis block starts the ledger while nothing has left the pipe.    *)
LEMMA LedgerNemesis ==
  ASSUME LedgerInv, TypeOK', NEW v \in Validators, ValidatorNemesis(v),
         UNCHANGED <<block, block_number>>
  PROVE  LedgerInv'
<1> USE DEF LedgerInv
<1>1. /\ vpc' = [vpc EXCEPT ![v] = "read"] /\ vpc[v] = "nemesis"
      /\ UNCHANGED <<pipe, streamed_block>>
      /\ vpc = [w \in Validators |-> vpc[w]]
  BY DEF ValidatorNemesis, TypeOK, ValidatorTypeOK
<1>2. Held' = Held
  BY <1>1 DEF Held
<1>3. CASE ~LedgerEmpty
  BY <1>1, <1>2, <1>3, LedgerFrame DEF ValidatorNemesis, LedgerEmpty
<1>4. CASE LedgerEmpty
  <2>1. /\ ledger_count = 0
        /\ blocks' = [blocks EXCEPT ![0] = nemesis_block]
        /\ ledger_count' = 1
        /\ last_block_hash' = Genesis
        /\ last_block_index' = 0
    BY <1>4 DEF ValidatorNemesis, LedgerEmpty, compute_sha256, nemesis_block, LedgerShape
  <2>2. Held = {}
    BY <2>1 DEF LedgerShape, Held
  <2>3. Height = {} /\ Mined = {} /\ Height' = {0} /\ Mined' = {}
    BY <2>1 DEF Height, Mined
  <2>4. InPipe' = InPipe
    BY <1>1 DEF InPipe
  <2>5. \A h : Submitted(h)' <=> Submitted(h)
    BY DEF Submitted
  <2>6. \A h : MinedOn(h) => MinedOn(h)'
    BY <2>3 DEF MinedOn
  <2>7. blocks'[0] = nemesis_block
    BY <2>1, ConfigAssumption DEF TypeOK, LedgerTypeOK
  <2>8. LedgerShape'
    BY <2>1, <2>3, <2>7, ConfigAssumption DEF LedgerShape, LedgerWithinCapacity,
       ChainLinked, compute_sha256, nemesis_block
  <2>9. IdsKnown' /\ IdsDistinct' /\ HashesKnown'
    BY <1>1, <1>2, <2>2, <2>3, <2>4, <2>5, <2>6 DEF IdsKnown, IdsDistinct, HashesKnown
  <2>10. QED
    BY <2>8, <2>9
<1>5. QED
  BY <1>3, <1>4

(* A block that extends the ledger is appended inside its capacity: its    *)
(* previous hash is that of the last block and, ids being distinct, of no  *)
(* other, so that the ledger was not full.                                 *)
LEMMA AppendFits ==
  ASSUME LedgerInv, NEW v \in Held, StillExtendsLedger(streamed_block[v])
  PROVE  /\ ledger_count \in Nat \ {0} /\ ledger_count < BLOCKCHAIN_BLOCKS
         /\ last_block_index = ledger_count - 1
<1> USE DEF LedgerInv
<1>1. ledger_count \in Nat \ {0}
  BY DEF LedgerShape, Held, TypeOK, LedgerTypeOK
<1>2. /\ last_block_index = ledger_count - 1
      /\ last_block_hash = blocks[ledger_count - 1].txb_id
  BY <1>1 DEF LedgerShape, ChainLinked, compute_sha256
<1>3. \A i \in Mined : blocks[i].txb_id \in BlockIds
  BY DEF LedgerShape, TransactionBlock
<1>4. blocks[0].txb_id = Genesis
  BY <1>1 DEF LedgerShape, ChainLinked, nemesis_block
<1>5. ledger_count - 1 \in Height
  BY <1>1 DEF Height
<1>6. last_block_hash # NoHash
  BY <1>2, <1>3, <1>4, <1>5, NullAssumption DEF Mined
<1>7. PICK i \in Height : /\ i < BLOCKCHAIN_BLOCKS - 1
                          /\ blocks[i].txb_id = blocks[ledger_count - 1].txb_id
  BY <1>2, <1>6 DEF HashesKnown, StillExtendsLedger, MinedOn
<1>8. i = ledger_count - 1
  <2>1. CASE i = 0 \/ ledger_count - 1 = 0
    BY <1>3, <1>4, <1>5, <1>7, <2>1, NullAssumption DEF Mined
  <2>2. CASE i # 0 /\ ledger_count - 1 # 0
    BY <1>5, <1>7, <2>2 DEF IdsDistinct, Mined
  <2>3. QED
    BY <2>1, <2>2
<1>9. QED
  BY <1>1, <1>2, <1>7, <1>8, ConfigAssumption

(* The append: the block leaves its validator and becomes the last of the  *)
(* chain; if the ledger has moved on it is dropped.                        *)
LEMMA LedgerCommit ==
  ASSUME LedgerInv, TypeOK', NEW v \in Validators, ValidatorCommit(v),
         UNCHANGED <<block, block_number>>
  PROVE  LedgerInv'
<1> USE DEF LedgerInv
<1>0. PICK b : b = streamed_block[v]
  OBVIOUS
<1>1. /\ vpc[v] = "commit" /\ v \in Held /\ UNCHANGED pipe
      /\ vpc = [w \in Validators |-> vpc[w]]
      /\ streamed_block = [w \in Validators |-> streamed_block[w]]
      /\ ledger_count # 0
  BY DEF ValidatorCommit, TypeOK, ValidatorTypeOK, Held, LedgerShape
<1>2. CASE ~StillExtendsLedger(b)
  <2>1. /\ vpc' = [vpc EXCEPT ![v] = "read"]
        /\ streamed_block' = [streamed_block EXCEPT ![v] = NoBlock]
        /\ UNCHANGED ledgerVars
    BY <1>0, <1>2 DEF ValidatorCommit
  <2>2. \A w \in Held' : w \in Held /\ streamed_block'[w] = streamed_block[w]
    BY <1>1, <2>1 DEF Held
  <2>3. QED
    BY <1>1, <2>1, <2>2, LedgerFrame
<1>3. CASE StillExtendsLedger(b)
  <2>1. /\ vpc' = [vpc EXCEPT ![v] = "report"]
        /\ blocks' = [blocks EXCEPT ![last_block_index + 1] = b]
        /\ last_block_hash' = b.txb_id
        /\ ledger_count' = ledger_count + 1
        /\ last_block_index' = last_block_index + 1
        /\ UNCHANGED streamed_block
    BY <1>0, <1>3 DEF ValidatorCommit, NextIndex, compute_sha256
  <2>2. /\ ledger_count \in Nat \ {0} /\ ledger_count < BLOCKCHAIN_BLOCKS
        /\ last_block_index = ledger_count - 1
    BY <1>0, <1>1, <1>3, AppendFits
  <2>3. b \in TransactionBlock
    BY <1>0, <1>1 DEF Held, TypeOK, ValidatorTypeOK
  <2>4. /\ blocks'[ledger_count] = b
        /\ \A i \in Height : blocks'[i] = blocks[i]
    BY <2>1, <2>2, ConfigAssumption DEF Height, TypeOK, LedgerTypeOK
  <2>5. /\ Height' = Height \cup {ledger_count} /\ ledger_count \notin Height
        /\ Mined' = Mined \cup {ledger_count} /\ ledger_count \notin Mined
        /\ Mined \subseteq Height
    BY <2>1, <2>2 DEF Height, Mined
  <2>6. Held' = Held \ {v}
    BY <1>1, <2>1 DEF Held
  <2>7. InPipe' = InPipe
    BY <1>1 DEF InPipe
  <2>8. \A h : Submitted(h)' <=> Submitted(h)
    BY DEF Submitted
  <2>9. \A h : MinedOn(h) => MinedOn(h)'
    BY <2>4, <2>5 DEF MinedOn
  <2>10. IdsKnown'
    BY <1>0, <1>1, <2>1, <2>4, <2>5, <2>6, <2>7, <2>8 DEF IdsKnown
  <2>11. IdsDistinct'
    <3>1. \A i \in Mined : b.txb_id # blocks[i].txb_id
      BY <1>0, <1>1 DEF IdsDistinct
    <3>2. \A k \in InPipe : pipe[k].txb_id # b.txb_id
      BY <1>0, <1>1 DEF IdsDistinct
    <3>3. \A w \in Held' : streamed_block[w].txb_id # b.txb_id
      BY <1>0, <1>1, <2>6 DEF IdsDistinct
    <3>4. \A i, j \in Mined' : i # j => blocks'[i].txb_id # blocks'[j].txb_id
      BY <2>4, <2>5, <3>1 DEF IdsDistinct
    <3>5. \A k \in InPipe, i \in Mined' : pipe[k].txb_id # blocks'[i].txb_id
      BY <2>4, <2>5, <3>2 DEF IdsDistinct
    <3>6. \A w \in Held', i \in Mined' : streamed_block[w].txb_id # blocks'[i].txb_id
      BY <2>4, <2>5, <2>6, <3>3 DEF IdsDistinct
    <3>7. /\ \A k, l \in InPipe : k # l => pipe[k].txb_id # pipe[l].txb_id
          /\ \A w, x \in Held' :
                w # x => streamed_block[w].txb_id # streamed_block[x].txb_id
          /\ \A k \in InPipe, w \in Held' : pipe[k].txb_id # streamed_block[w].txb_id
      BY <2>6 DEF IdsDistinct
    <3>8. pipe' = pipe /\ streamed_block' = streamed_block
      BY <1>1, <2>1
    <3> HIDE DEF LedgerInv
    <3>9. QED
      BY <2>7, <3>4, <3>5, <3>6, <3>7, <3>8 DEF IdsDistinct
  <2>12. HashesKnown'
    BY <1>1, <2>1, <2>6, <2>7, <2>9 DEF HashesKnown
  <2>13. LedgerShape'
    <3>1. b.previous_block_hash = blocks[ledger_count - 1].txb_id
      BY <1>3, <2>2 DEF StillExtendsLedger, LedgerShape, ChainLinked, compute_sha256
    <3>2. ChainLinked'
      <4>1. last_block_index' = ledger_count' - 1 /\ last_block_index' = ledger_count
        BY <2>1, <2>2
      <4>2. blocks'[0] = nemesis_block
        BY <2>2, <2>4 DEF LedgerShape, ChainLinked, Height
      <4>3. last_block_hash' = blocks'[ledger_count].txb_id
        BY <2>1, <2>4
      <4>4. ASSUME NEW i \in Mined'
            PROVE  blocks'[i].previous_block_hash = blocks'[i - 1].txb_id
        <5>1. CASE i = ledger_count
          <6>1. ledger_count - 1 \in Height
            BY <2>2 DEF Height
          <6>2. QED
            BY <2>4, <3>1, <5>1, <6>1
        <5>2. CASE i # ledger_count
          <6>1. i \in Mined /\ i \in Height /\ i - 1 \in Height
            BY <2>2, <2>5, <5>2 DEF Mined, Height
          <6>2. blocks[i].previous_block_hash = blocks[i - 1].txb_id
            BY <2>2, <6>1 DEF LedgerShape, ChainLinked, Mined, compute_sha256
          <6>3. QED
            BY <2>4, <6>1, <6>2
        <5>3. QED
          BY <5>1, <5>2
      <4>5. QED
        BY <4>1, <4>2, <4>3, <4>4 DEF ChainLinked, Mined, compute_sha256
    <3>3. \A i \in Mined' : blocks'[i] \in TransactionBlock
      BY <2>3, <2>4, <2>5 DEF LedgerShape
    <3>4. ledger_count' # 0 /\ LedgerWithinCapacity'
      BY <2>1, <2>2, ConfigAssumption DEF LedgerWithinCapacity
    <3>5. QED
      BY <3>2, <3>3, <3>4 DEF LedgerShape
  <2>14. QED
    BY <2>10, <2>11, <2>12, <2>13
<1>4. QED
  BY <1>2, <1>3

-----------------------------------------------------------------------------
(* LedgerInv is inductive: five actions move a block, the others are       *)
(* frames.                                                                 *)
LEMMA LedgerInvNext == LedgerInv /\ [Next]_vars => LedgerInv'
<1> SUFFICES ASSUME LedgerInv, [Next]_vars PROVE LedgerInv'
  OBVIOUS
<1>0. TypeOK'
  BY TypeNext DEF LedgerInv
<1>1. CASE UNCHANGED <<ledgerVars, pipe, block, block_number, vpc, streamed_block>>
  BY <1>0, <1>1, LedgerFrame DEF Held, LedgerInv, LedgerShape
<1>2. CASE TxGenStep
  BY <1>1, <1>2 DEF TxGenStep, TxGenNext, TxGenAdd, TxGenPoolFull, TxGenGetValue,
     TxGenPost, minerVars, validatorVars
<1>3. CASE MinerStep
  <2>1. PICK m \in Miners : MinerNext(m)
    BY <1>3 DEF MinerStep
  <2>2. UNCHANGED <<vpc, streamed_block>>
    BY <1>3 DEF MinerStep, validatorVars
  <2>3. CASE MinerWake(m) \/ MinerCheck(m) \/ MinerSelect(m)
    BY <1>1, <2>2, <2>3 DEF MinerWake, MinerCheck, MinerSelect
  <2>4. CASE MinerReadPrevious(m)
    BY <1>0, <2>2, <2>4, LedgerReadPrevious
  <2>5. CASE MinerSubmit(m)
    BY <1>0, <2>2, <2>5, LedgerSubmit
  <2>6. QED
    BY <2>1, <2>3, <2>4, <2>5 DEF MinerNext
<1>4. CASE ValidatorStep
  <2>1. PICK v \in Validators : ValidatorNext(v)
    BY <1>4 DEF ValidatorStep
  <2>2. UNCHANGED <<block, block_number>>
    BY <1>4 DEF ValidatorStep, minerVars
  <2>3. /\ vpc = [w \in Validators |-> vpc[w]]
        /\ streamed_block = [w \in Validators |-> streamed_block[w]]
        /\ ledger_count = 0 => \A w \in Validators :
                                  vpc[w] \in {"off", "boot", "nemesis", "zombie"}
    BY DEF LedgerInv, LedgerShape, TypeOK, ValidatorTypeOK
  <2>4. ASSUME UNCHANGED <<ledgerVars, pipe>>,
               NEW pc, vpc' = [vpc EXCEPT ![v] = pc],
               ledger_count = 0 => pc \in {"nemesis", "zombie"},
               \A w \in Validators \ {v} : streamed_block'[w] = streamed_block[w],
               v \in Held' => v \in Held /\ streamed_block'[v] = streamed_block[v]
        PROVE  LedgerInv'
    <3>1. \A w \in Held' : w \in Held /\ streamed_block'[w] = streamed_block[w]
      BY <2>3, <2>4 DEF Held
    <3>2. ledger_count = 0 => \A w \in Validators :
                                 vpc'[w] \in {"off", "boot", "nemesis", "zombie"}
      BY <2>3, <2>4
    <3>3. QED
      BY <1>0, <2>2, <2>4, <3>1, <3>2, LedgerFrame
  <2>5. CASE ValidatorStart(v)
    BY <2>3, <2>4, <2>5 DEF ValidatorStart, Held
  <2>6. CASE ValidatorNemesis(v)
    BY <1>0, <2>2, <2>6, LedgerNemesis
  <2>7. CASE ValidatorRead(v)
    BY <1>0, <2>2, <2>7, LedgerRead
  <2>8. CASE ValidatorCheckHash(v)
    <3>1. \/ vpc' = [vpc EXCEPT ![v] = "check_pool"]
          \/ vpc' = [vpc EXCEPT ![v] = "reject"]
      BY <2>8, Zenon DEF ValidatorCheckHash
    <3>2. vpc[v] = "check_hash" /\ UNCHANGED <<ledgerVars, pipe, streamed_block>>
      BY <2>8 DEF ValidatorCheckHash
    <3>3. QED
      BY <2>3, <2>4, <3>1, <3>2 DEF Held
  <2>9. CASE ValidatorCheckPool(v)
    <3>1. \/ vpc' = [vpc EXCEPT ![v] = "commit"]
          \/ vpc' = [vpc EXCEPT ![v] = "reject"]
      BY <2>9, Zenon DEF ValidatorCheckPool
    <3>2. vpc[v] = "check_pool" /\ UNCHANGED <<ledgerVars, pipe, streamed_block>>
      BY <2>9 DEF ValidatorCheckPool
    <3>3. QED
      BY <2>3, <2>4, <3>1, <3>2 DEF Held
  <2>10. CASE ValidatorCommit(v)
    BY <1>0, <2>2, <2>10, LedgerCommit
  <2>11. CASE ValidatorReport(v)
    BY <2>3, <2>4, <2>11 DEF ValidatorReport, Held
  <2>12. CASE ValidatorReject(v)
    BY <2>3, <2>4, <2>12 DEF ValidatorReject, Held
  <2>13. CASE ValidatorSigterm(v)
    BY <2>3, <2>4, <2>13 DEF ValidatorSigterm, Held
  <2>14. QED
    BY <2>1, <2>5, <2>6, <2>7, <2>8, <2>9, <2>10, <2>11, <2>12, <2>13 DEF ValidatorNext
<1>5. CASE LauncherStep
  <2>1. UNCHANGED <<ledgerVars, pipe, block, block_number, streamed_block>>
    BY <1>5 DEF LauncherStep, LauncherNext, LauncherFork, LauncherTerminate,
       LauncherReap, LauncherEnd, minerVars, validatorVars
  <2>2. \A v \in Validators : vpc'[v] = vpc[v] \/ vpc'[v] \in {"boot", "off"}
    BY <1>5 DEF LauncherStep, LauncherNext, LauncherFork, LauncherTerminate,
       LauncherReap, LauncherEnd, validatorVars
  <2>3. QED
    BY <1>0, <2>1, <2>2, LedgerFrame DEF Held, LedgerInv, LedgerShape
<1>6. CASE StatisticsStep
  BY <1>1, <1>6 DEF StatisticsStep, StatisticsReceive, minerVars, validatorVars
<1>7. CASE UNCHANGED vars
  BY <1>1, <1>7 DEF vars, minerVars, validatorVars
<1>8. QED
  BY <1>2, <1>3, <1>4, <1>5, <1>6, <1>7 DEF Next

(* The inductive invariant of the ledger.                                  *)
THEOREM LedgerSafe == Spec => []LedgerInv
BY LedgerInvInit, LedgerInvNext, PTL DEF Spec

(* The ledger is a hash chain from the nemesis block to last_block_hash,   *)
(* for any number of validators and however they interleave.               *)
THEOREM ChainIsLinked == Spec => []ChainLinked
<1>1. LedgerInv => ChainLinked
  BY DEF LedgerInv, LedgerShape
<1>2. QED
  BY <1>1, LedgerSafe, PTL

(* The append of the validator, which has no test of its own, stays inside *)
(* the ledger.                                                             *)
THEOREM CapacityRespected == Spec => []LedgerWithinCapacity
<1>1. LedgerInv => LedgerWithinCapacity
  BY DEF LedgerInv, LedgerShape
<1>2. QED
  BY <1>1, LedgerSafe, PTL

(* Block ids identify blocks.                                              *)
THEOREM IdsAreUnique == Spec => []BlocksUnique
<1>1. LedgerInv => BlocksUnique
  <2> SUFFICES ASSUME LedgerInv PROVE BlocksUnique
    OBVIOUS
  <2> USE DEF LedgerInv
  <2>1. \A b \in BlocksInFlight :
           \/ \E m \in Miners : block[m] = b /\ b # NoBlock
           \/ \E k \in InPipe : pipe[k] = b
           \/ \E v \in Held : streamed_block[v] = b
    BY DEF BlocksInFlight, InPipe, Held, TypeOK, ChannelsTypeOK, ValidatorTypeOK
  <2>2. \A m \in Miners : block[m] # NoBlock =>
           block[m].txb_id = <<m, block_number[m] - 1>> /\ ~Submitted(block[m].txb_id)
    <3> SUFFICES ASSUME NEW m \in Miners, block[m] # NoBlock
                 PROVE  /\ block[m].txb_id = <<m, block_number[m] - 1>>
                        /\ ~Submitted(block[m].txb_id)
      OBVIOUS
    <3>1. block[m].txb_id = <<m, block_number[m] - 1>>
      BY DEF IdsKnown
    <3>2. block[m].txb_id[1] = m /\ block[m].txb_id[2] = block_number[m] - 1
      BY <3>1
    <3>3. block_number[m] \in Nat
      BY DEF TypeOK, MinerTypeOK
    <3>4. QED
      BY <3>1, <3>2, <3>3 DEF Submitted
  <2>3. \A m, n \in Miners : block[m] # NoBlock /\ block[n] # NoBlock /\ m # n
                               => block[m].txb_id # block[n].txb_id
    BY <2>2
  <2>4. ASSUME NEW b \in BlocksInFlight, NEW c \in BlocksInFlight,
               b.txb_id = c.txb_id
        PROVE  b = c
    BY <2>1, <2>2, <2>3, <2>4 DEF IdsKnown, IdsDistinct
  <2>5. \A i \in Mined, b \in BlocksInFlight : b.txb_id # blocks[i].txb_id
    BY <2>1, <2>2 DEF IdsKnown, IdsDistinct
  <2>6. \A b \in BlocksInFlight : b.txb_id \in BlockIds
    <3>1. \A m \in Miners : block[m] # NoBlock => block[m].txb_id \in BlockIds
      BY DEF TypeOK, MinerTypeOK, TransactionBlock
    <3>2. QED
      BY <2>1, <3>1 DEF IdsKnown, Submitted
  <2>7. Height # {} => blocks[0].txb_id = Genesis
    BY DEF Height, LedgerShape, ChainLinked, nemesis_block, TypeOK, LedgerTypeOK
  <2>8. \A i \in Mined : blocks[i].txb_id \in BlockIds
    BY DEF IdsKnown, Submitted
  <2>9. Mined = Height \ {0}
    BY DEF Mined
  <2> HIDE DEF LedgerInv
  <2>10. QED
    <3>1. \A i \in Height, b \in BlocksInFlight : b.txb_id # blocks[i].txb_id
      BY <2>5, <2>6, <2>7, <2>9, NullAssumption
    <3>2. \A i, j \in Height : i # j => blocks[i].txb_id # blocks[j].txb_id
      BY <2>7, <2>8, <2>9, NullAssumption DEF LedgerInv, IdsDistinct
    <3>3. QED
      BY <2>4, <3>1, <3>2 DEF BlocksUnique
<1>2. QED
  BY <1>1, LedgerSafe, PTL

(* Whatever step is made, the blocks of the ledger stay.                   *)
LEMMA LedgerStep ==
  ASSUME LedgerInv, [Next]_vars
  PROVE  /\ ledger_count' >= ledger_count
         /\ \A i \in Height : blocks'[i] = blocks[i]
<1> USE DEF LedgerInv
<1>1. ledger_count \in Nat
  BY DEF TypeOK, LedgerTypeOK
<1>2. CASE UNCHANGED ledgerVars
  BY <1>1, <1>2 DEF ledgerVars
<1>3. CASE \E v \in Validators : ValidatorNemesis(v)
  BY <1>1, <1>2, <1>3 DEF ValidatorNemesis, LedgerEmpty, Height
<1>4. CASE \E v \in Validators : ValidatorCommit(v)
  <2>1. PICK v \in Validators : ValidatorCommit(v)
    BY <1>4
  <2>2. CASE ~StillExtendsLedger(streamed_block[v])
    BY <1>2, <2>1, <2>2 DEF ValidatorCommit
  <2>3. CASE StillExtendsLedger(streamed_block[v])
    <3>1. NextIndex = ledger_count
      BY <1>1, <2>1, <2>3, AppendFits DEF NextIndex, ValidatorCommit, Held
    <3>2. /\ blocks' = [blocks EXCEPT ![NextIndex] = streamed_block[v]]
          /\ ledger_count' = ledger_count + 1
      BY <2>1, <2>3 DEF ValidatorCommit
    <3>3. QED
      BY <1>1, <3>1, <3>2 DEF Height
  <2>4. QED
    BY <2>2, <2>3
<1>5. CASE UNCHANGED vars
  BY <1>2, <1>5 DEF vars
<1>6. QED
  <2>1. CASE TxGenStep
    BY <1>2, <2>1 DEF TxGenStep, TxGenNext, TxGenAdd, TxGenPoolFull,
       TxGenGetValue, TxGenPost
  <2>2. CASE MinerStep
    BY <1>2, <2>2 DEF MinerStep, MinerNext, MinerWake, MinerCheck, MinerSelect,
       MinerReadPrevious, MinerSubmit
  <2>3. CASE ValidatorStep
    BY <1>2, <1>3, <1>4, <2>3 DEF ValidatorStep, ValidatorNext, ValidatorStart,
       ValidatorRead, ValidatorCheckHash, ValidatorCheckPool, ValidatorReport,
       ValidatorReject, ValidatorSigterm
  <2>4. CASE LauncherStep \/ StatisticsStep
    BY <1>2, <2>4 DEF LauncherStep, LauncherNext, LauncherFork, LauncherTerminate,
       LauncherReap, LauncherEnd, StatisticsStep, StatisticsReceive
  <2>5. QED
    BY <1>5, <2>1, <2>2, <2>3, <2>4 DEF Next

(* No step changes a block of the ledger.                                  *)
THEOREM LedgerGrows == Spec => LedgerAppendOnly
<1> DEFINE Grows == /\ ledger_count' >= ledger_count
                    /\ \A i \in Height : blocks'[i] = blocks[i]
<1>1. LedgerInv /\ [Next]_vars => [Grows]_vars
  BY LedgerStep
<1>2. QED
  BY <1>1, LedgerSafe, PTL DEF Spec, LedgerAppendOnly
=============================================================================
