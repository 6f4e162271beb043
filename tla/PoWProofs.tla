------------------------------ MODULE PoWProofs ------------------------------
(***************************************************************************)
(* Proofs about PoW, for every POW_MAX_OPS, every set of hashes and every  *)
(* number of transactions in a block.                                      *)
(***************************************************************************)
EXTENDS PoW, NaturalLemmas

(* What a search knows at each stage: the nonces that it has left behind   *)
(* were refused.                                                           *)
SearchInv ==
  /\ PoWTypeOK
  /\ result # "error" => /\ operations = nonce
                         /\ nonce \in 0..POW_MAX_OPS
                         /\ \A n \in 0..(nonce - 1) : ~Accepted(n)
  /\ result = "found" => Accepted(nonce)
  /\ result = "error" => \A n \in 0..POW_MAX_OPS : ~Accepted(n)

(* The test of a nonce depends on the block alone: a step that keeps the   *)
(* transactions and the timestamp keeps its outcome.                       *)
LEMMA AcceptedStable ==
  ASSUME UNCHANGED <<rewards, hashes>>, NEW n
  PROVE  Accepted(n)' <=> Accepted(n)
<1>1. get_max_transaction_reward' = get_max_transaction_reward
  BY DEF get_max_transaction_reward, IsMaxReward
<1>2. QED
  BY <1>1 DEF Accepted

(* No search has begun.                                                    *)
LEMMA SearchInvInit == PoWInit => SearchInv
BY PoWAssumption DEF PoWInit, SearchInv, PoWTypeOK, FirstNonce

(* Each step of the search keeps what it knows.                            *)
LEMMA SearchInvNext == SearchInv /\ [PoWNext]_powVars => SearchInv'
<1> SUFFICES ASSUME SearchInv, [PoWNext]_powVars PROVE SearchInv'
  OBVIOUS
<1> USE PoWAssumption
<1>1. CASE PoWFound
  <2>1. UNCHANGED <<rewards, hashes, nonce, operations>> /\ result' = "found"
    BY <1>1 DEF PoWFound
  <2>2. result = "none" /\ Accepted(nonce)
    BY <1>1 DEF PoWFound, verify_nonce, Accepted
  <2>3. \A n : Accepted(n)' <=> Accepted(n)
    BY <2>1, AcceptedStable
  <2>4. PoWTypeOK'
    BY <2>1 DEF SearchInv, PoWTypeOK, NonceHashes
  <2>5. Accepted(nonce)'
    BY <2>1, <2>2, <1>1 DEF Accepted, PoWFound, get_max_transaction_reward, IsMaxReward
  <2>6. \A n \in 0..(nonce' - 1) : ~Accepted(n)'
    BY <2>1, <2>2, <2>3 DEF SearchInv
  <2>7. QED
    BY <2>1, <2>2, <2>4, <2>5, <2>6 DEF SearchInv
<1>2. CASE PoWTry
  <2>1. UNCHANGED <<rewards, hashes>> /\ nonce' = nonce + 1
    BY <1>2 DEF PoWTry, NextNonce
  <2>2. result = "none" /\ ~Accepted(nonce)
    BY <1>2 DEF PoWTry, verify_nonce, Accepted
  <2>3. \A n : Accepted(n)' <=> Accepted(n)
    BY <2>1, AcceptedStable
  <2>4. \A n \in 0..nonce : ~Accepted(n)'
    BY <2>2, <2>3 DEF SearchInv, PoWTypeOK
  <2>5. CASE GivesUp /\ result' = "error" /\ UNCHANGED operations
    <3>1. nonce = POW_MAX_OPS
      BY <2>2, <2>5 DEF SearchInv, PoWTypeOK, GivesUp
    <3>2. PoWTypeOK'
      BY <2>1, <2>2, <2>5, <3>1 DEF SearchInv, PoWTypeOK, NonceHashes
    <3>3. QED
      BY <2>4, <2>5, <3>1, <3>2 DEF SearchInv
  <2>6. CASE ~GivesUp /\ operations' = operations + 1 /\ UNCHANGED result
    <3>1. nonce < POW_MAX_OPS
      BY <2>2, <2>6 DEF SearchInv, PoWTypeOK, GivesUp
    <3>2. PoWTypeOK'
      BY <2>1, <2>2, <2>6, <3>1 DEF SearchInv, PoWTypeOK, NonceHashes
    <3>3. QED
      BY <2>1, <2>2, <2>4, <2>6, <3>1, <3>2 DEF SearchInv, PoWTypeOK
  <2>7. QED
    BY <1>2, <2>5, <2>6 DEF PoWTry
<1>3. CASE PoWRetry
  BY <1>3 DEF PoWRetry, SearchInv, PoWTypeOK, FirstNonce
<1>4. CASE UNCHANGED powVars
  <2>1. \A n : Accepted(n)' <=> Accepted(n)
    BY <1>4, AcceptedStable DEF powVars
  <2>2. Accepted(nonce)' <=> Accepted(nonce)
    BY <1>4 DEF powVars, Accepted, get_max_transaction_reward, IsMaxReward
  <2>3. QED
    BY <1>4, <2>1, <2>2 DEF powVars, SearchInv, PoWTypeOK, NonceHashes
<1>5. QED
  BY <1>1, <1>2, <1>3, <1>4 DEF PoWNext

(* The invariant of the search.                                            *)
THEOREM SearchCorrect == PoWSpec => []SearchInv
BY SearchInvInit, SearchInvNext, PTL DEF PoWSpec

(* The search keeps to the nonces that it may try, and to the hashes and   *)
(* rewards of the block.                                                   *)
THEOREM SearchTypes == PoWSpec => []PoWTypeOK
<1>1. SearchInv => PoWTypeOK
  BY DEF SearchInv
<1>2. QED
  BY <1>1, SearchCorrect, PTL

(* A block leaves proof_of_work with the smallest nonce that verify_nonce  *)
(* accepts, and with the count of those that it refused.                   *)
THEOREM FoundIsSmallest == PoWSpec => []SmallestNonce
<1>1. SearchInv => SmallestNonce
  BY DEF SearchInv, SmallestNonce
<1>2. QED
  BY <1>1, SearchCorrect, PTL

(* proof_of_work reports an error only for a block that no nonce solves.   *)
THEOREM ErrorMeansNone == PoWSpec => []GivesUpOnlyWhenNone
<1>1. SearchInv => GivesUpOnlyWhenNone
  BY DEF SearchInv, GivesUpOnlyWhenNone
<1>2. QED
  BY <1>1, SearchCorrect, PTL

(* The count of leading zeros is well defined: the end of the hash stops   *)
(* the loop of check_difficulty at the latest.                             *)
LEMMA LeadingZerosExists ==
  ASSUME NEW hash \in Seq(Digits)
  PROVE  /\ LeadingZeros(hash) \in 0..Len(hash)
         /\ IsLeadingZeros(hash, LeadingZeros(hash))
<1> DEFINE Stops == {i \in Nat : DigitAt(hash, i) # 0}
<1>1. Len(hash) \in Stops
  BY DEF DigitAt, NUL
<1>2. PICK z \in Stops : \A i \in Stops : z <= i
  BY <1>1, LeastNatural
<1>3. z \in 0..Len(hash) /\ IsLeadingZeros(hash, z)
  BY <1>1, <1>2 DEF IsLeadingZeros
<1>4. QED
  BY <1>3 DEF LeadingZeros

(* A hash that is accepted for a reward is accepted for every smaller one: *)
(* to raise a reward, as aging does, never makes a block easier.           *)
THEOREM DifficultyMonotonic ==
  ASSUME NEW hash \in Hashes, NEW low \in Nat, NEW high \in Nat, low <= high,
         check_difficulty(hash, high)
  PROVE  check_difficulty(hash, low)
<1> DEFINE zeros == LeadingZeros(hash)
           next_char == DigitAt(hash, zeros)
<1>1. zeros >= 4 /\ MeetsLevel(zeros, next_char, getDifficultFromReward(high))
  BY DEF check_difficulty
<1>2. zeros \in Nat
  BY LeadingZerosExists, PoWAssumption
<1>3. MeetsLevel(zeros, next_char, getDifficultFromReward(low))
  <2> HIDE DEF zeros, next_char
  <2>1. QED
    BY <1>1, <1>2 DEF MeetsLevel, getDifficultFromReward, EASY, NORMAL, HARD
<1>4. QED
  BY <1>1, <1>3 DEF check_difficulty

-----------------------------------------------------------------------------
(* Digits and numbers.                                                     *)

IsValue(hash, n, f) ==
  f = [i \in 0..n |-> IF i = 0 THEN 0 ELSE 16 * f[i - 1] + hash[i]]

(* One digit more.                                                         *)
LEMMA ValueStep ==
  ASSUME NEW h, NEW n \in Nat, NEW f, IsValue(h, n, f),
         NEW i \in 1..n, NEW j, j = i - 1
  PROVE  f[i] = 16 * f[j] + h[i]
BY DEF IsValue

LEMMA FirstValues ==
  ASSUME NEW h, NEW n \in Nat, n >= 6, NEW f, IsValue(h, n, f)
  PROVE  /\ f[0] = 0
         /\ f[1] = 16 * f[0] + h[1]
         /\ f[2] = 16 * f[1] + h[2]
         /\ f[3] = 16 * f[2] + h[3]
         /\ f[4] = 16 * f[3] + h[4]
         /\ f[5] = 16 * f[4] + h[5]
         /\ f[6] = 16 * f[5] + h[6]
<1>0. f[0] = 0
  BY DEF IsValue
<1>1. 1 \in 1..n /\ 2 \in 1..n /\ 3 \in 1..n /\ 4 \in 1..n /\ 5 \in 1..n /\ 6 \in 1..n
  OBVIOUS
<1>2. 0 = 1 - 1 /\ 1 = 2 - 1 /\ 2 = 3 - 1 /\ 3 = 4 - 1 /\ 4 = 5 - 1 /\ 5 = 6 - 1
  OBVIOUS
<1>3. f[1] = 16 * f[0] + h[1] /\ f[2] = 16 * f[1] + h[2]
  BY <1>1, <1>2, ValueStep
<1>4. f[3] = 16 * f[2] + h[3] /\ f[4] = 16 * f[3] + h[4]
  BY <1>1, <1>2, ValueStep
<1>5. f[5] = 16 * f[4] + h[5] /\ f[6] = 16 * f[5] + h[6]
  BY <1>1, <1>2, ValueStep
<1>6. QED
  BY <1>0, <1>3, <1>4, <1>5

(* The values of the first digits, compared with the bounds.               *)
LEMMA LowDigits ==
  ASSUME NEW h, NEW f,
         f[0] = 0, f[1] = 16 * f[0] + h[1], f[2] = 16 * f[1] + h[2],
         f[3] = 16 * f[2] + h[3], f[4] = 16 * f[3] + h[4],
         f[5] = 16 * f[4] + h[5], f[6] = 16 * f[5] + h[6],
         h[1] \in 0..15, h[2] \in 0..15, h[3] \in 0..15,
         h[4] \in 0..15, h[5] \in 0..15, h[6] \in 0..15
  PROVE  /\ f[4] = 0 <=> h[1] = 0 /\ h[2] = 0 /\ h[3] = 0 /\ h[4] = 0
         /\ f[5] = 0 <=> f[4] = 0 /\ h[5] = 0
         /\ f[5] < 1 <=> f[4] = 0 /\ h[5] = 0
         /\ f[5] < 12 <=> f[4] = 0 /\ h[5] < 12
         /\ f[6] < 12 <=> f[5] = 0 /\ h[6] < 12
<1>1. /\ f[4] \in Nat
      /\ f[4] = 0 <=> h[1] = 0 /\ h[2] = 0 /\ h[3] = 0 /\ h[4] = 0
  <2>0. f[0] \in Nat
    OBVIOUS
  <2>1. f[1] \in Nat /\ (f[1] = 0 <=> f[0] = 0 /\ h[1] = 0)
    <3>1. f[0] \in Nat /\ h[1] \in 0..15 /\ f[1] = 16 * f[0] + h[1]
      BY <2>0
    <3>2. QED
      BY ONLY <3>1
  <2>2. f[2] \in Nat /\ (f[2] = 0 <=> f[1] = 0 /\ h[2] = 0)
    <3>1. f[1] \in Nat /\ h[2] \in 0..15 /\ f[2] = 16 * f[1] + h[2]
      BY <2>1
    <3>2. QED
      BY ONLY <3>1
  <2>3. f[3] \in Nat /\ (f[3] = 0 <=> f[2] = 0 /\ h[3] = 0)
    <3>1. f[2] \in Nat /\ h[3] \in 0..15 /\ f[3] = 16 * f[2] + h[3]
      BY <2>2
    <3>2. QED
      BY ONLY <3>1
  <2>4. f[4] \in Nat /\ (f[4] = 0 <=> f[3] = 0 /\ h[4] = 0)
    <3>1. f[3] \in Nat /\ h[4] \in 0..15 /\ f[4] = 16 * f[3] + h[4]
      BY <2>3
    <3>2. QED
      BY ONLY <3>1
  <2>5. QED
    BY <2>1, <2>2, <2>3, <2>4
<1>2. /\ f[5] \in Nat
      /\ f[5] = 0 <=> f[4] = 0 /\ h[5] = 0
      /\ f[5] < 1 <=> f[4] = 0 /\ h[5] = 0
      /\ f[5] < 12 <=> f[4] = 0 /\ h[5] < 12
      /\ f[6] < 12 <=> f[5] = 0 /\ h[6] < 12
  <2>1. f[4] \in Nat /\ h[5] \in 0..15 /\ f[5] = 16 * f[4] + h[5]
    BY <1>1
  <2>2. f[5] \in Nat
    BY ONLY <2>1
  <2>3. h[6] \in 0..15 /\ f[6] = 16 * f[5] + h[6]
    OBVIOUS
  <2>4. f[5] = 0 <=> f[4] = 0 /\ h[5] = 0
    BY ONLY <2>1
  <2>5. f[5] < 1 <=> f[5] = 0
    BY ONLY <2>2
  <2>6. f[5] < 12 <=> f[4] = 0 /\ h[5] < 12
    BY ONLY <2>1
  <2>7. f[6] < 12 <=> f[5] = 0 /\ h[6] < 12
    BY ONLY <2>2, <2>3
  <2>8. QED
    BY <2>2, <2>4, <2>5, <2>6, <2>7
<1>3. QED
  BY <1>1, <1>2

(* A hash is a function from places to digits.                             *)
LEMMA DigitsOf ==
  ASSUME NEW hash \in Seq(Digits)
  PROVE  /\ Len(hash) \in Nat
         /\ hash \in [1..Len(hash) -> Digits]
         /\ \A i \in 1..Len(hash) : hash[i] \in 0..15
<1>1. Len(hash) \in Nat /\ hash \in [1..Len(hash) -> Digits]
  OBVIOUS
<1>2. Digits = 0..15
  BY DEF Digits
<1>3. QED
  BY <1>1, <1>2

(* The value of the first digits extends to one digit more.                *)
LEMMA ValueExtends ==
  ASSUME NEW hash \in Seq(Digits), NEW n \in 0..(Len(hash) - 1),
         NEW f, f \in [0..n -> Nat], IsValue(hash, n, f)
  PROVE  \E g \in [0..(n + 1) -> Nat] : IsValue(hash, n + 1, g)
<1> DEFINE d == hash[n + 1]
           g == [i \in 0..(n + 1) |-> IF i = n + 1 THEN 16 * f[n] + d ELSE f[i]]
<1>1. d \in Nat
  <2>1. Len(hash) \in Nat /\ n + 1 \in 1..Len(hash)
    BY DigitsOf
  <2>2. QED
    BY <2>1, DigitsOf
<1>2. g \in [0..(n + 1) -> Nat]
  BY <1>1
<1>3. ASSUME NEW i \in 0..(n + 1)
      PROVE  g[i] = IF i = 0 THEN 0 ELSE 16 * g[i - 1] + hash[i]
  <2>1. CASE i = n + 1
    BY <2>1
  <2>2. CASE i # n + 1
    <3>1. f[i] = IF i = 0 THEN 0 ELSE 16 * f[i - 1] + hash[i]
      BY <2>2 DEF IsValue
    <3>2. QED
      BY <2>2, <3>1
  <2>3. QED
    BY <2>1, <2>2
<1>4. IsValue(hash, n + 1, g)
  BY <1>3 DEF IsValue
<1>5. QED
  BY <1>2, <1>4

(* The recursion of Value is defined for any number of digits.             *)
LEMMA ValueExists ==
  ASSUME NEW hash \in Seq(Digits), NEW n \in 0..Len(hash)
  PROVE  \E f \in [0..n -> Nat] : IsValue(hash, n, f)
<1> DEFINE Valued(k) == \E f \in [0..k -> Nat] : IsValue(hash, k, f)
           Bad == {k \in Nat : k <= Len(hash) /\ ~Valued(k)}
<1>0. Len(hash) \in Nat
  BY DigitsOf
<1>1. Valued(0)
  <2> DEFINE f == [i \in 0..0 |-> 0]
  <2>1. f \in [0..0 -> Nat] /\ IsValue(hash, 0, f)
    BY DEF IsValue
  <2>2. QED
    BY <2>1
<1>2. SUFFICES ASSUME Bad # {} PROVE FALSE
  <2>1. Valued(n) => \E f \in [0..n -> Nat] : IsValue(hash, n, f)
    OBVIOUS
  <2> HIDE DEF Valued
  <2>2. Bad = {} => Valued(n)
    BY <1>0
  <2>3. QED
    BY <2>1, <2>2
<1>3. PICK z \in Bad : \A k \in Bad : z <= k
  <2> HIDE DEF Valued
  <2>1. QED
    BY <1>2, LeastNatural
<1>4. Valued(z - 1) /\ z - 1 \in 0..(Len(hash) - 1) /\ z \in Nat
  <2> HIDE DEF Valued
  <2>1. QED
    BY <1>0, <1>1, <1>3
<1>5. Valued(z)
  <2> HIDE DEF Bad
  <2>1. PICK f \in [0..(z - 1) -> Nat] : IsValue(hash, z - 1, f)
    BY <1>4
  <2>2. \E g \in [0..((z - 1) + 1) -> Nat] : IsValue(hash, (z - 1) + 1, g)
    BY <1>4, <2>1, ValueExtends
  <2>3. (z - 1) + 1 = z
    BY <1>4
  <2>4. QED
    BY <2>2, <2>3
<1>6. QED
  <2> HIDE DEF Valued
  <2>1. QED
    BY <1>3, <1>5

(* Value is the last of partial values that follow the recursion.          *)
LEMMA ValueIsValue ==
  ASSUME NEW hash \in Seq(Digits)
  PROVE  \E f \in [0..Len(hash) -> Nat] : /\ IsValue(hash, Len(hash), f)
                                          /\ Value(hash) = f[Len(hash)]
<1> DEFINE n == Len(hash)
           value == CHOOSE f : IsValue(hash, n, f)
<1>1. n \in Nat /\ n \in 0..n
  BY DigitsOf
<1>2. PICK f \in [0..n -> Nat] : IsValue(hash, n, f)
  BY <1>1, ValueExists
<1>3. IsValue(hash, n, value)
  BY <1>2
<1>4. Value(hash) = value[n]
  BY DEF Value, IsValue
<1>5. value \in [0..n -> Nat]
  <2> HIDE DEF n, value
  <2>1. DEFINE Bad == {k \in Nat : k <= n /\ value[k] \notin Nat}
  <2>2. Bad = {}
    <3>1. SUFFICES ASSUME Bad # {} PROVE FALSE
      OBVIOUS
    <3>2. PICK z \in Bad : \A k \in Bad : z <= k
      BY <3>1, LeastNatural
    <3>3. value[z] = IF z = 0 THEN 0 ELSE 16 * value[z - 1] + hash[z]
      BY <1>1, <1>3, <3>2 DEF IsValue
    <3>4. z # 0 => value[z - 1] \in Nat /\ hash[z] \in Nat
      BY <1>1, <3>2, DigitsOf DEF n
    <3>5. QED
      BY <3>2, <3>3, <3>4
  <2>3. QED
    <3>1. \A k \in 0..n : value[k] \in Nat
      BY <1>1, <2>2
    <3>2. value = [i \in 0..n |-> IF i = 0 THEN 0 ELSE 16 * value[i - 1] + hash[i]]
      BY <1>3 DEF IsValue
    <3>3. DOMAIN value = 0..n /\ value = [i \in 0..n |-> value[i]]
      BY <3>2
    <3>4. QED
      BY <3>1, <3>3
<1>6. QED
  BY <1>3, <1>4, <1>5

(* Of two hashes, the order of the values after k digits is that of the    *)
(* whole when the second has only zeros behind them.                       *)
LEMMA OrderOfPrefixes ==
  ASSUME NEW n \in Nat, NEW k \in 0..n,
         NEW a, a \in [1..n -> Digits], NEW b, b \in [1..n -> Digits],
         \A i \in (k + 1)..n : b[i] = 0,
         NEW f, f \in [0..n -> Nat], NEW g, g \in [0..n -> Nat],
         IsValue(a, n, f), IsValue(b, n, g)
  PROVE  f[n] < g[n] <=> f[k] < g[k]
<1> DEFINE Bad == {j \in Nat : j \in k..n /\ ~(f[j] < g[j] <=> f[k] < g[k])}
<1>1. Bad = {}
  <2>1. SUFFICES ASSUME Bad # {} PROVE FALSE
    OBVIOUS
  <2>2. PICK z \in Bad : \A j \in Bad : z <= j
    BY <2>1, LeastNatural
  <2>3. z # k /\ z \in (k + 1)..n /\ z - 1 \in k..n
    BY <2>2
  <2>4. /\ f[z] = 16 * f[z - 1] + a[z]
        /\ g[z] = 16 * g[z - 1] + b[z]
    BY <2>3 DEF IsValue
  <2>5. a[z] \in 0..15 /\ b[z] = 0
    BY <2>3 DEF Digits
  <2>6. f[z - 1] < g[z - 1] <=> f[k] < g[k]
    BY <2>2, <2>3
  <2>7. f[z - 1] \in Nat /\ g[z - 1] \in Nat
    BY <2>3
  <2>8. f[z] < g[z] <=> f[z - 1] < g[z - 1]
    <3>1. f[z] = 16 * f[z - 1] + a[z] /\ g[z] = 16 * g[z - 1]
      BY ONLY <2>4, <2>5, <2>7
    <3> DEFINE x == f[z - 1]
               y == g[z - 1]
               d == a[z]
    <3>2. x \in Nat /\ y \in Nat /\ d \in 0..15 /\ f[z] = 16 * x + d /\ g[z] = 16 * y
      BY <2>5, <2>7, <3>1
    <3> HIDE DEF x, y, d
    <3>3. f[z] < g[z] <=> x < y
      BY ONLY <3>2
    <3>4. QED
      BY <3>3 DEF x, y
  <2>9. QED
    BY <2>2, <2>6, <2>8
<1>2. n \in k..n
  OBVIOUS
<1>3. QED
  BY <1>1, <1>2

(* The test of check_difficulty on the digits is a comparison of the whole *)
(* hash, of any length that leaves room for the test, with a number.       *)
LEMMA DifficultyIsComparison ==
  ASSUME NEW hash \in Seq(Digits), Len(hash) >= 6, NEW reward \in Nat
  PROVE  check_difficulty(hash, reward)
           <=> Value(hash) < Value(Threshold(Len(hash), getDifficultFromReward(reward)))
<1> DEFINE n == Len(hash)
           zeros == LeadingZeros(hash)
           level == getDifficultFromReward(reward)
           place == IF level = HARD THEN 6 ELSE 5
           digit == IF level = NORMAL THEN 1 ELSE 12
           bound == [i \in 1..n |-> IF i = place THEN digit ELSE 0]
<1>1. n \in Nat /\ n >= 6 /\ hash \in [1..n -> Digits]
  BY DigitsOf
<1>2. level \in {EASY, NORMAL, HARD}
  BY DEF getDifficultFromReward
<1>3. Threshold(n, level) = bound
  <2>1. Threshold(n, level) = Bound(n, place, digit)
    <3> HIDE DEF n, level
    <3>1. QED
      BY <1>2 DEF Threshold, EASY, NORMAL, HARD
  <2>2. QED
    BY <2>1 DEF Bound
<1>4. bound \in [1..n -> Digits] /\ bound \in Seq(Digits) /\ Len(bound) = n
  BY <1>1 DEF Digits
<1>5. PICK f \in [0..n -> Nat] : IsValue(hash, n, f) /\ Value(hash) = f[n]
  BY ValueIsValue
<1>6. PICK g \in [0..n -> Nat] : IsValue(bound, n, g) /\ Value(bound) = g[n]
  BY <1>4, ValueIsValue
<1>7. place \in {5, 6} /\ place \in 0..n
  BY <1>1
<1>8. f[n] < g[n] <=> f[place] < g[place]
  <2>1. \A i \in (place + 1)..n : bound[i] = 0
    BY <1>7
  <2> HIDE DEF bound, place, n
  <2>2. QED
    BY <1>1, <1>4, <1>5, <1>6, <1>7, <2>1, OrderOfPrefixes
<1>9. /\ f[0] = 0 /\ f[1] = 16 * f[0] + hash[1] /\ f[2] = 16 * f[1] + hash[2]
      /\ f[3] = 16 * f[2] + hash[3] /\ f[4] = 16 * f[3] + hash[4]
      /\ f[5] = 16 * f[4] + hash[5] /\ f[6] = 16 * f[5] + hash[6]
  <2>1. n \in Nat /\ n >= 6 /\ IsValue(hash, n, f)
    BY <1>1, <1>5
  <2>2. QED
    BY ONLY <2>1, FirstValues
<1>10. /\ g[0] = 0 /\ g[1] = 16 * g[0] + bound[1] /\ g[2] = 16 * g[1] + bound[2]
       /\ g[3] = 16 * g[2] + bound[3] /\ g[4] = 16 * g[3] + bound[4]
       /\ g[5] = 16 * g[4] + bound[5] /\ g[6] = 16 * g[5] + bound[6]
  <2> HIDE DEF bound
  <2>1. QED
    <3>1. n \in Nat /\ n >= 6 /\ IsValue(bound, n, g)
      BY <1>1, <1>6
    <3>2. QED
      BY ONLY <3>1, FirstValues
<1>11. g[place] = digit
  <2>1. /\ bound[1] = 0 /\ bound[2] = 0 /\ bound[3] = 0 /\ bound[4] = 0
        /\ bound[5] = IF place = 5 THEN digit ELSE 0
        /\ bound[6] = IF place = 6 THEN digit ELSE 0
    BY <1>1, <1>7
  <2>2. digit \in Nat
    OBVIOUS
  <2> HIDE DEF bound, place, digit
  <2>3. g[1] = 0 /\ g[2] = 0 /\ g[3] = 0 /\ g[4] = 0
    BY <1>10, <2>1
  <2>4. bound[5] \in Nat /\ bound[6] \in Nat
    BY <2>1, <2>2
  <2>5. g[5] = bound[5]
    BY <1>10, <2>3, <2>4
  <2>6. CASE place = 5
    BY <2>1, <2>5, <2>6
  <2>7. CASE place = 6
    <3>1. g[6] = 16 * g[5] + digit /\ g[5] = 0
      BY <1>10, <2>1, <2>5, <2>7
    <3>2. QED
      BY <2>2, <2>7, <3>1
  <2>8. QED
    BY <1>7, <2>6, <2>7
<1>12. /\ hash[1] \in 0..15 /\ hash[2] \in 0..15 /\ hash[3] \in 0..15
       /\ hash[4] \in 0..15 /\ hash[5] \in 0..15 /\ hash[6] \in 0..15
  BY <1>1, DigitsOf
<1>13. /\ zeros \in 0..n
       /\ \A i \in 1..n : i <= zeros => hash[i] = 0
       /\ zeros < n => hash[zeros + 1] # 0 /\ DigitAt(hash, zeros) = hash[zeros + 1]
  <2>1. zeros \in 0..n /\ IsLeadingZeros(hash, zeros)
    BY LeadingZerosExists
  <2>2. ASSUME NEW i \in 1..n, i <= zeros PROVE hash[i] = 0
    <3>1. i - 1 \in 0..(zeros - 1) /\ i - 1 < Len(hash) /\ (i - 1) + 1 = i
      BY <2>1, <2>2
    <3>2. DigitAt(hash, i - 1) = hash[i]
      BY <3>1 DEF DigitAt
    <3>3. QED
      BY <2>1, <3>1, <3>2 DEF IsLeadingZeros
  <2>3. zeros < n => DigitAt(hash, zeros) = hash[zeros + 1]
    BY <1>1, <2>1 DEF DigitAt
  <2>4. QED
    BY <2>1, <2>2, <2>3 DEF IsLeadingZeros
<1> DEFINE next_char == DigitAt(hash, zeros)
<1>14. check_difficulty(hash, reward) <=> zeros >= 4 /\ MeetsLevel(zeros, next_char, level)
  BY DEF check_difficulty
<1> HIDE DEF n, zeros, level, bound, next_char
<1>15. f[4] = 0 <=> hash[1] = 0 /\ hash[2] = 0 /\ hash[3] = 0 /\ hash[4] = 0
  BY <1>9, <1>12, LowDigits
<1>16. /\ f[5] = 0 <=> f[4] = 0 /\ hash[5] = 0
       /\ f[5] < 1 <=> f[4] = 0 /\ hash[5] = 0
       /\ f[5] < 12 <=> f[4] = 0 /\ hash[5] < 12
       /\ f[6] < 12 <=> f[5] = 0 /\ hash[6] < 12
  BY <1>9, <1>12, LowDigits
<1>17. /\ zeros \in Nat
       /\ zeros >= 4 <=> hash[1] = 0 /\ hash[2] = 0 /\ hash[3] = 0 /\ hash[4] = 0
       /\ zeros >= 5 <=> zeros >= 4 /\ hash[5] = 0
       /\ zeros = 4 => next_char = hash[5]
       /\ zeros >= 6 <=> zeros >= 5 /\ hash[6] = 0
       /\ zeros = 5 => next_char = hash[6]
  <2>0. /\ zeros \in Nat /\ zeros <= n
        /\ zeros < n => hash[zeros + 1] # 0 /\ next_char = hash[zeros + 1]
    BY <1>1, <1>13 DEF next_char
  <2>1. ASSUME zeros >= 4 PROVE hash[1] = 0 /\ hash[2] = 0 /\ hash[3] = 0 /\ hash[4] = 0
    BY <1>1, <1>13, <2>0, <2>1
  <2>2. ASSUME ~(zeros >= 4)
        PROVE ~(hash[1] = 0 /\ hash[2] = 0 /\ hash[3] = 0 /\ hash[4] = 0)
    <3>1. zeros < n /\ zeros \in {0, 1, 2, 3}
      BY <1>1, <2>0, <2>2
    <3>2. zeros + 1 \in {1, 2, 3, 4} /\ hash[zeros + 1] # 0
      BY <2>0, <3>1
    <3>3. QED
      BY <3>2
  <2>3. zeros = 4 => next_char = hash[5] /\ hash[5] # 0
    BY <1>1, <2>0
  <2>4. zeros = 5 => next_char = hash[6] /\ hash[6] # 0
    BY <1>1, <2>0
  <2>5. zeros >= 5 => hash[5] = 0
    BY <1>1, <1>13, <2>0
  <2>6. zeros >= 6 => hash[6] = 0
    BY <1>1, <1>13, <2>0
  <2>7. QED
    BY <2>0, <2>1, <2>2, <2>3, <2>4, <2>5, <2>6
<1>18. /\ level = EASY
         => (MeetsLevel(zeros, next_char, level) <=> (zeros = 4 /\ next_char <= 11) \/ zeros > 4)
       /\ level = NORMAL => (MeetsLevel(zeros, next_char, level) <=> zeros >= 5)
       /\ level = HARD
         => (MeetsLevel(zeros, next_char, level) <=> (zeros = 5 /\ next_char <= 11) \/ zeros > 5)
  BY DEF MeetsLevel, EASY, NORMAL, HARD
<1>19. /\ level = EASY => place = 5 /\ digit = 12
       /\ level = NORMAL => place = 5 /\ digit = 1
       /\ level = HARD => place = 6 /\ digit = 12
  BY DEF EASY, NORMAL, HARD
<1>20. Value(hash) < Value(Threshold(n, level)) <=> f[place] < digit
  BY <1>3, <1>5, <1>6, <1>8, <1>11
<1>21. check_difficulty(hash, reward) <=> f[place] < digit
  <2> HIDE DEF place, digit
  <2>0. hash[5] \in Nat /\ hash[6] \in Nat
    BY <1>12
  <2>1. CASE level = EASY
    <3>1. f[5] < 12 <=> zeros >= 4 /\ hash[5] < 12
      BY <1>15, <1>16, <1>17, <2>0
    <3>2. (zeros >= 4 /\ MeetsLevel(zeros, next_char, level)) <=> zeros >= 4 /\ hash[5] < 12
      BY <1>17, <1>18, <2>0, <2>1
    <3>3. QED
      BY <1>14, <1>19, <2>1, <3>1, <3>2
  <2>2. CASE level = NORMAL
    <3>1. f[5] < 1 <=> zeros >= 5
      BY <1>15, <1>16, <1>17, <2>0
    <3>2. (zeros >= 4 /\ MeetsLevel(zeros, next_char, level)) <=> zeros >= 5
      BY <1>17, <1>18, <2>2
    <3>3. QED
      BY <1>14, <1>19, <2>2, <3>1, <3>2
  <2>3. CASE level = HARD
    <3>1. f[6] < 12 <=> zeros >= 5 /\ hash[6] < 12
      BY <1>15, <1>16, <1>17, <2>0
    <3>2. (zeros >= 4 /\ MeetsLevel(zeros, next_char, level)) <=> zeros >= 5 /\ hash[6] < 12
      BY <1>17, <1>18, <2>0, <2>3
    <3>3. QED
      BY <1>14, <1>19, <2>3, <3>1, <3>2
  <2>4. QED
    BY <1>2, <2>1, <2>2, <2>3
<1>22. QED
  BY <1>20, <1>21 DEF n, level

(* What check_difficulty tests digit by digit is what its comments say:    *)
(* the hash, as a number, is under a threshold.  A SHA-256 hash has 64     *)
(* digits.                                                                 *)
THEOREM DifficultyMeansThreshold ==
  ASSUME \A h \in Hashes : Len(h) >= 6
  PROVE  PoWSpec => []DifficultyIsThreshold
<1>1. PoWTypeOK => DifficultyIsThreshold
  <2>1. SUFFICES ASSUME PoWTypeOK, NEW n \in DOMAIN hashes, NEW r \in Rewards
                 PROVE  check_difficulty(hashes[n], r)
                          <=> Value(hashes[n])
                                < Value(Threshold(Len(hashes[n]),
                                                  getDifficultFromReward(r)))
    BY DEF DifficultyIsThreshold
  <2>2. hashes[n] \in Hashes /\ r \in Nat
    BY <2>1, PoWAssumption DEF PoWTypeOK, NonceHashes
  <2>3. hashes[n] \in Seq(Digits) /\ Len(hashes[n]) >= 6
    BY <2>2, PoWAssumption
  <2>4. QED
    BY <2>2, <2>3, DifficultyIsComparison
<1>2. QED
  BY <1>1, SearchTypes, PTL
=============================================================================
