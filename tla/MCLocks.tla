------------------------------- MODULE MCLocks -------------------------------
(***************************************************************************)
(* Threads and signals of the model-checking runs of Locks.                *)
(***************************************************************************)
EXTENDS Locks, TLC

CONSTANTS miner1, validator1, statistics1, main1

FourThreads == {miner1, validator1, statistics1, main1}

RolesOfFour == [t \in FourThreads |->
                  CASE t = miner1      -> "miner"
                    [] t = validator1  -> "validator"
                    [] t = statistics1 -> "statistics"
                    [] t = main1       -> "controller"]

AllSignals == [t \in FourThreads |-> SignalsOf[RolesOfFour[t]]]

(* The SIGTERM of a validator alone, and the signals of the controller.    *)
OnlyValidator  == [t \in FourThreads |->
                     IF t = validator1 THEN {"SIGTERM"} ELSE {}]
OnlyController == [t \in FourThreads |->
                     IF t = main1 THEN SignalsOf.controller ELSE {}]
=============================================================================
