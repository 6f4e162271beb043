----------------------------- MODULE MCDEIChain -----------------------------
(***************************************************************************)
(* Constants and symmetries of the model-checking runs of DEIChain.        *)
(***************************************************************************)
EXTENDS DEIChain, TLC

CONSTANTS g1, g2, m1, m2

OneGen  == {g1}
TwoGens == {g1, g2}

OneMiner  == {m1}
TwoMiners == {m1, m2}

(* Every generator pays 1.                                                 *)
RewardOne == [g \in TxGens |-> 1]

MinerSymmetry == Permutations(Miners)
(* What the rest of the system cannot see is left out of the view: the     *)
(* queue, which only the statistics process reads, its counters, which     *)
(* nobody reads, and last_signal_count, whose test is always settled by    *)
(* the other two of ShouldSignal while PoolCountExact holds.               *)
CoreView == <<poolVars, ledgerVars, minerwork, pipe, sigterm,
              gpc, tx_number, to_post, minerVars, validatorVars, launcherVars>>

(* The same, for the runs about the statistics.                            *)
StatisticsView == <<CoreView, mq, statisticsVars>>

SystemSymmetry == Permutations(Miners) \cup Permutations(TxGens)
=============================================================================
