------------------------------- MODULE Chain -------------------------------
(***************************************************************************)
(* What DEIChain promises of a transaction, without pool, miners, pipe,    *)
(* hashes or locks.  A transaction is issued once; it is pending until a   *)
(* validator takes it together with the others of a block; the validator   *)
(* then commits all it has taken as the next block of the chain, or loses  *)
(* all of it.  Nothing that was taken is pending again, and the chain only *)
(* grows, up to its capacity.                                              *)
(***************************************************************************)
EXTENDS Integers, Sequences

CONSTANTS
  Transactions,   \* ids of transactions
  Holders,        \* who may take transactions
  Capacity        \* length that the chain may reach

VARIABLES
  issued,    \* transactions that were ever produced
  pending,   \* those that wait for a block
  taken,     \* those that each holder has taken
  chain      \* the transactions of each block

vars == <<issued, pending, taken, chain>>

Init ==
  /\ issued = {}
  /\ pending = {}
  /\ taken = [h \in Holders |-> {}]
  /\ chain = <<>>

Issue(tx) ==
  /\ tx \notin issued
  /\ issued' = issued \cup {tx}
  /\ pending' = pending \cup {tx}
  /\ UNCHANGED <<taken, chain>>

(* The first block has no transactions.                                   *)
Found ==
  /\ chain = <<>>
  /\ chain' = <<{}>>
  /\ UNCHANGED <<issued, pending, taken>>

Take(h, txs) ==
  /\ taken[h] = {}
  /\ txs # {} /\ txs \subseteq pending
  /\ pending' = pending \ txs
  /\ taken' = [taken EXCEPT ![h] = txs]
  /\ UNCHANGED <<issued, chain>>

Commit(h) ==
  /\ taken[h] # {}
  /\ chain # <<>> /\ Len(chain) < Capacity
  /\ chain' = Append(chain, taken[h])
  /\ taken' = [taken EXCEPT ![h] = {}]
  /\ UNCHANGED <<issued, pending>>

Lose(h) ==
  /\ taken[h] # {}
  /\ taken' = [taken EXCEPT ![h] = {}]
  /\ UNCHANGED <<issued, pending, chain>>

Next ==
  \/ \E tx \in Transactions : Issue(tx)
  \/ Found
  \/ \E h \in Holders :
        \/ \E txs \in SUBSET pending : Take(h, txs)
        \/ Commit(h)
        \/ Lose(h)

Spec == Init /\ [][Next]_vars
=============================================================================
