------------------------------ MODULE Launcher ------------------------------
(***************************************************************************)
(* validator_launcher(), the thread of the controller that once a second   *)
(* looks at the occupancy of the pool, without its lock, and adds or       *)
(* removes validators 2 and 3.  validators[i] of the code is a PID exactly *)
(* from the fork to the waitpid that reaps the process: when vpc is not    *)
(* "off".                                                                  *)
(***************************************************************************)
EXTENDS Validator

VARIABLE lpc   \* "poll", "reap" or "ended"

launcherVars == <<lpc>>

LauncherInit == lpc = "poll"

-----------------------------------------------------------------------------
Auxiliary == Validators \ {1}

LedgerFull == ledger_count >= BLOCKCHAIN_BLOCKS

(* Occupancies of 60%, of 80% (the float 0.8f is over the double 0.8) and  *)
(* under 40%.                                                              *)
HighOccupancy == 10 * pool_count >= 6 * TRANSACTION_POOL_SIZE
FullOccupancy == 10 * pool_count >= 8 * TRANSACTION_POOL_SIZE
LowOccupancy  == 10 * pool_count < 4 * TRANSACTION_POOL_SIZE

ToLaunch == {v \in Auxiliary : vpc[v] = "off" /\ (v = 3 => FullOccupancy)}

LauncherFork ==
  /\ lpc = "poll"
  /\ ~LedgerFull
  /\ HighOccupancy
  /\ ToLaunch # {}
  /\ vpc' = [v \in Validators |-> IF v \in ToLaunch THEN "boot" ELSE vpc[v]]
  /\ UNCHANGED <<poolVars, ledgerVars, minerwork, pipe, mq, sigterm,
                 streamed_block, next_index, lpc>>

(* kill(pid, SIGTERM) of each additional validator: it is lost on one that *)
(* still ignores the signal, and on one that has exited.                   *)
LauncherTerminate ==
  /\ lpc = "poll"
  /\ ~LedgerFull
  /\ LowOccupancy
  /\ sigterm' = sigterm \cup {v \in Auxiliary : Handling(v)}
  /\ lpc' = "reap"
  /\ UNCHANGED <<poolVars, ledgerVars, minerwork, pipe, mq, validatorVars>>

(* waitpid(pid, WNOHANG) of each: those that have exited are reaped.       *)
LauncherReap ==
  /\ lpc = "reap"
  /\ vpc' = [v \in Validators |->
               IF v \in Auxiliary /\ vpc[v] = "zombie" THEN "off" ELSE vpc[v]]
  /\ lpc' = "poll"
  /\ UNCHANGED <<poolVars, ledgerVars, minerwork, pipe, mq, sigterm,
                 streamed_block, next_index>>

(* The ledger is full: SIGINT to the controller, and the thread ends.      *)
LauncherEnd ==
  /\ lpc = "poll"
  /\ LedgerFull
  /\ lpc' = "ended"
  /\ UNCHANGED <<poolVars, ledgerVars, minerwork, pipe, mq, sigterm,
                 validatorVars>>

LauncherNext ==
  \/ LauncherFork
  \/ LauncherTerminate
  \/ LauncherReap
  \/ LauncherEnd
=============================================================================
