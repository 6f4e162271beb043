--------------------------------- MODULE PoW ---------------------------------
(***************************************************************************)
(* The proof of work (PoW/pow.c) as a miner thread runs it: the nonces     *)
(* from 0 to POW_MAX_OPS in order, until the hash of the block meets the   *)
(* difficulty of its best reward, and all over again with a new timestamp  *)
(* when none does.  A hash is the sequence of its hexadecimal digits; the  *)
(* hashes of the block under each nonce, which its timestamp changes, are  *)
(* any hashes.                                                             *)
(***************************************************************************)
EXTENDS Integers, Sequences

CONSTANTS
  POW_MAX_OPS,   \* last nonce that is tried, 10000000 in the code
  TRANSACTIONS_PER_BLOCK,
  Hashes,        \* the hashes that blocks may have
  Rewards        \* the rewards that transactions may have

EASY   == 1
NORMAL == 2
HARD   == 3

Digits == 0..15
NUL    == -1   \* what follows the last digit

ASSUME PoWAssumption ==
  /\ POW_MAX_OPS \in Nat
  /\ TRANSACTIONS_PER_BLOCK \in Nat \ {0}
  /\ Hashes # {} /\ \A h \in Hashes : h \in Seq(Digits)
  /\ Rewards # {} /\ Rewards \subseteq Nat

-----------------------------------------------------------------------------
DigitAt(hash, i) == IF i < Len(hash) THEN hash[i + 1] ELSE NUL

(* The digits are counted up to the first that is not '0'.                 *)
IsLeadingZeros(hash, zeros) ==
  /\ \A i \in 0..(zeros - 1) : DigitAt(hash, i) = 0
  /\ DigitAt(hash, zeros) # 0

LeadingZeros(hash) == CHOOSE zeros \in 0..Len(hash) : IsLeadingZeros(hash, zeros)

getDifficultFromReward(reward) ==
  IF reward <= 1 THEN EASY ELSE IF reward = 2 THEN NORMAL ELSE HARD

(* A slip of the test: a digit too many.                                   *)
MeetsWideLevel(zeros, next_char, difficulty) ==
  \/ difficulty = EASY   /\ ((zeros = 4 /\ next_char <= 12) \/ zeros > 4)
  \/ difficulty = NORMAL /\ zeros >= 5
  \/ difficulty = HARD   /\ ((zeros = 5 /\ next_char <= 12) \/ zeros > 5)

MeetsLevel(zeros, next_char, difficulty) ==
  \/ difficulty = EASY   /\ ((zeros = 4 /\ next_char <= 11) \/ zeros > 4)
  \/ difficulty = NORMAL /\ zeros >= 5
  \/ difficulty = HARD   /\ ((zeros = 5 /\ next_char <= 11) \/ zeros > 5)

check_difficulty(hash, reward) ==
  LET zeros == LeadingZeros(hash)
  IN  /\ zeros >= 4
      /\ MeetsLevel(zeros, DigitAt(hash, zeros), getDifficultFromReward(reward))

-----------------------------------------------------------------------------
VARIABLES
  rewards,      \* of the transactions of the block
  hashes,       \* hash of the block under each nonce, for this timestamp
  nonce,
  operations,
  result        \* "none" while searching, then "found" or "error"

powVars == <<rewards, hashes, nonce, operations, result>>

IsMaxReward(r) ==
  /\ \A i \in DOMAIN rewards : rewards[i] <= r
  /\ r = 0 \/ \E i \in DOMAIN rewards : rewards[i] = r

get_max_transaction_reward == CHOOSE r \in Rewards \cup {0} : IsMaxReward(r)

verify_nonce == check_difficulty(hashes[nonce], get_max_transaction_reward)
-----------------------------------------------------------------------------
NonceHashes == [0..POW_MAX_OPS -> Hashes]

(* A slip of the start: nonce 0 is left out.                               *)
NonceOne == 1

FirstNonce == 0

PoWInit ==
  /\ rewards \in [1..TRANSACTIONS_PER_BLOCK -> Rewards]
  /\ hashes \in NonceHashes
  /\ nonce = FirstNonce
  /\ operations = 0
  /\ result = "none"

PoWFound ==
  /\ result = "none"
  /\ verify_nonce
  /\ result' = "found"
  /\ UNCHANGED <<rewards, hashes, nonce, operations>>

(* Slips of the loop: the last nonce is not tried, or one too many is.     *)
GivesUpEarly == nonce + 1 >= POW_MAX_OPS
GivesUpLate  == nonce > POW_MAX_OPS

NextNonce == nonce + 1
GivesUp   == nonce + 1 > POW_MAX_OPS

(* A slip of the end of the loop: it starts over instead of giving up.     *)
PoWTryForever ==
  /\ result = "none"
  /\ ~verify_nonce
  /\ \/ GivesUp /\ nonce' = FirstNonce /\ operations' = 0
     \/ ~GivesUp /\ nonce' = NextNonce /\ operations' = operations + 1
  /\ UNCHANGED <<rewards, hashes, result>>

PoWTry ==
  /\ result = "none"
  /\ ~verify_nonce
  /\ nonce' = NextNonce
  /\ \/ GivesUp /\ result' = "error" /\ UNCHANGED operations
     \/ ~GivesUp /\ operations' = operations + 1 /\ UNCHANGED result
  /\ UNCHANGED <<rewards, hashes>>

(* miner_thread() takes a new timestamp and calls proof_of_work again.     *)
PoWRetry ==
  /\ result = "error"
  /\ hashes' \in NonceHashes
  /\ nonce' = FirstNonce
  /\ operations' = 0
  /\ result' = "none"
  /\ UNCHANGED rewards

PoWNext == PoWFound \/ PoWTry \/ PoWRetry

PoWSpec == PoWInit /\ [][PoWNext]_powVars

(* A thread that mines is scheduled again and again.                       *)
FairPoWSpec == PoWSpec /\ WF_powVars(PoWFound \/ PoWTry)

-----------------------------------------------------------------------------
PoWTypeOK ==
  /\ rewards \in [1..TRANSACTIONS_PER_BLOCK -> Rewards]
  /\ hashes \in NonceHashes
  /\ nonce \in 0..(POW_MAX_OPS + 1)
  /\ operations \in 0..POW_MAX_OPS
  /\ result \in {"none", "found", "error"}

Accepted(n) == check_difficulty(hashes[n], get_max_transaction_reward)

(* The block that leaves the search passes verify_nonce in the validator,  *)
(* which computes the reward and the hash anew, and no smaller nonce does; *)
(* operations counts the nonces that failed.                               *)
SmallestNonce ==
  result = "found" => /\ Accepted(nonce)
                      /\ \A n \in 0..(nonce - 1) : ~Accepted(n)
                      /\ operations = nonce

(* The search gives up only when every nonce has been tried.               *)
GivesUpOnlyWhenNone ==
  result = "error" => \A n \in 0..POW_MAX_OPS : ~Accepted(n)

(* The comments of check_difficulty, read as numbers: 0000[0-b], 00000 and *)
(* 00000[0-b] are the hashes under 0000c, 00001 and 00000c, whatever       *)
(* follows.                                                                *)
Value(hash) ==
  LET value[i \in 0..Len(hash)] ==
        IF i = 0 THEN 0 ELSE 16 * value[i - 1] + hash[i]
  IN  value[Len(hash)]

Bound(length, place, digit) ==
  [i \in 1..length |-> IF i = place THEN digit ELSE 0]

Threshold(length, difficulty) ==
  CASE difficulty = EASY   -> Bound(length, 5, 12)
    [] difficulty = NORMAL -> Bound(length, 5, 1)
    [] difficulty = HARD   -> Bound(length, 6, 12)

DifficultyIsThreshold ==
  \A n \in DOMAIN hashes, r \in Rewards :
     check_difficulty(hashes[n], r)
       <=> Value(hashes[n])
             < Value(Threshold(Len(hashes[n]), getDifficultFromReward(r)))

(* Every search ends, found or given up.                                   *)
SearchEnds == result = "none" ~> result # "none"
=============================================================================
