----------------------------- MODULE MCShutdown -----------------------------
(***************************************************************************)
(* Constants of the model-checking runs of Shutdown.                       *)
(***************************************************************************)
EXTENDS Shutdown, TLC

CONSTANTS m1, m2

OneMiner  == {m1}
TwoMiners == {m1, m2}

NoneAdded == {}
OneAdded  == {"validator2"}
BothAdded == {"validator2", "validator3"}

MinerSymmetry == Permutations(Miners)
=============================================================================
