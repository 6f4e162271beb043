------------------------------ MODULE Progress ------------------------------
(***************************************************************************)
(* DEIChain under fairness: what eventually happens.  Every thread that    *)
(* can go on is scheduled at last, and the kernel delivers the signals;    *)
(* nothing is assumed of the generators, which users start and stop.       *)
(*                                                                         *)
(* What a thread may wait for without end is a semaphore that is used as a *)
(* lock: a process that a signal ends may leave one taken, and a handler   *)
(* may wait for the one that its own thread holds.  The steps are those of *)
(* DEIChain, taken while the semaphores that they need can be had.  Locks  *)
(* has the paths on which they are taken.                                  *)
(***************************************************************************)
EXTENDS DEIChain

VARIABLES
  stuck,   \* semaphores that are taken and that nobody will post
  hung     \* validators whose handler waits for what their thread holds

lockVars == <<stuck, hung>>
progressVars == <<vars, lockVars>>

ProgressInit == Init /\ stuck = {} /\ hung = {}

(* sem_wait returns, now or later, for each of these.                      *)
Obtains(locks) == locks \cap stuck = {}

LogIf(condition) == IF condition THEN {"log"} ELSE {}

-----------------------------------------------------------------------------
(* The semaphores that the next step of each thread takes.                 *)
TxGenNeeds(g) == IF gpc[g] = "loop" THEN {"pool"} ELSE {}

MinerNeeds(m) ==
  CASE mpc[m] = "check"    -> {"pool", "ledger"}
    [] mpc[m] = "select"   -> {"pool"}
    [] mpc[m] = "previous" -> {"ledger"} \cup LogIf(LedgerFull)
    [] mpc[m] = "pow"      -> {"log"}
    [] OTHER               -> {}

ValidatorNeeds(v) ==
  CASE vpc[v] = "boot"       -> {"log"}
    [] vpc[v] = "nemesis"    -> {"ledger"} \cup LogIf(LedgerEmpty)
    [] vpc[v] = "check_hash" -> {"ledger", "log"}
    [] vpc[v] = "check_pool" -> {"pool", "log"}
    [] vpc[v] = "commit"     -> {"ledger", "log"}
    [] vpc[v] = "report"     -> {"log"}
    [] vpc[v] = "reject"     -> LogIf(Len(mq) = STATISTICS_MQ_SIZE)
    [] OTHER                 -> {}

StatisticsNeeds ==
  IF mq # <<>> /\ IsValidBlock(Head(mq)) THEN {"ledger"} ELSE {}

-----------------------------------------------------------------------------
TxGenGoesOn ==
  /\ \E g \in TxGens : Obtains(TxGenNeeds(g)) /\ TxGenNext(g)
  /\ UNCHANGED <<minerVars, validatorVars, launcherVars, statisticsVars,
                 lockVars>>

(* A user ends a generator inside its critical section; what it had begun  *)
(* to write there is left out.                                             *)
TxGenSigint ==
  /\ \E g \in TxGens : gpc[g] = "loop"
  /\ Obtains({"pool"})
  /\ stuck' = stuck \cup {"pool"}
  /\ UNCHANGED <<vars, hung>>

MinerGoesOn(m) ==
  /\ Obtains(MinerNeeds(m))
  /\ MinerNext(m)
  /\ UNCHANGED <<txGenVars, validatorVars, launcherVars, statisticsVars,
                 lockVars>>

ValidatorGoesOn(v) ==
  /\ v \notin hung
  /\ Obtains(ValidatorNeeds(v))
  /\ ValidatorNext(v) /\ ~ValidatorSigterm(v)
  /\ UNCHANGED <<txGenVars, minerVars, launcherVars, statisticsVars,
                 lockVars>>

LauncherGoesOn ==
  /\ Obtains({"log"})
  /\ LauncherStep
  /\ UNCHANGED lockVars

StatisticsGoesOn ==
  /\ Obtains(StatisticsNeeds)
  /\ StatisticsStep
  /\ UNCHANGED lockVars

-----------------------------------------------------------------------------
(* What a validator may be inside of, before or after the effect of the    *)
(* critical section, when SIGTERM comes.                                   *)
MayHold(v) ==
  CASE vpc[v] \in {"nemesis", "read", "check_hash", "report"} -> {"ledger"}
    [] vpc[v] \in {"check_pool", "commit"} -> {"pool", "ledger"}
    [] OTHER -> {}

Sections(v) == {{}} \cup {{l} : l \in MayHold(v)}

(* The handler logs and exits, and what the validator was inside of stays  *)
(* taken.                                                                  *)
ValidatorStopped(v) ==
  /\ v \notin hung
  /\ Obtains({"log"})
  /\ ValidatorSigterm(v)
  /\ \E section \in Sections(v) : stuck' = stuck \cup section
  /\ UNCHANGED <<txGenVars, minerVars, launcherVars, statisticsVars, hung>>

MayBeLogging(v) ==
  \/ vpc[v] = "nemesis" /\ LedgerEmpty
  \/ vpc[v] \in {"check_hash", "check_pool", "commit", "report", "reject"}

(* A handler that interrupts log_info waits for its own thread.            *)
ValidatorHangs(v) ==
  /\ v \in sigterm \ hung
  /\ MayBeLogging(v)
  /\ Obtains({"log"})
  /\ hung' = hung \cup {v}
  /\ \E section \in Sections(v) : stuck' = stuck \cup section \cup {"log"}
  /\ UNCHANGED vars

ValidatorSignal(v) == ValidatorStopped(v) \/ ValidatorHangs(v)

ProgressNext ==
  \/ TxGenGoesOn
  \/ TxGenSigint
  \/ \E m \in Miners : MinerGoesOn(m)
  \/ \E v \in Validators : ValidatorGoesOn(v) \/ ValidatorSignal(v)
  \/ LauncherGoesOn
  \/ StatisticsGoesOn

Fairness ==
  /\ \A m \in Miners : WF_progressVars(MinerGoesOn(m))
  /\ \A v \in Validators : /\ WF_progressVars(ValidatorGoesOn(v))
                           /\ WF_progressVars(ValidatorSignal(v))
  /\ WF_progressVars(LauncherGoesOn)
  /\ WF_progressVars(StatisticsGoesOn)

FairSpec == ProgressInit /\ [][ProgressNext]_progressVars /\ Fairness

-----------------------------------------------------------------------------
(* The bounds of the model on the miners are reached.                      *)
NoMoreBlocks == \A m \in Miners : block_number[m] = MaxBlockNumber

Mining == \E m \in Miners : mpc[m] = "pow"

(* No wake-up is missed: while there are transactions for a block and room *)
(* in the ledger, miners go on mining, also after the generators have      *)
(* stopped and their posts are used up by blocks that were rejected,       *)
(* unless a signal has left a semaphore taken.                             *)
MiningGoesOn ==
  EnoughTransactions ~>
    ~EnoughTransactions \/ Mining \/ LedgerFull \/ NoMoreBlocks \/ stuck # {}

(* The configuration is checked so that the system works: miners take      *)
(* blocks from a pool that is full.                                        *)
FullPoolMined ==
  pool_count = TRANSACTION_POOL_SIZE
    ~> Mining \/ LedgerFull \/ NoMoreBlocks \/ stuck # {}

(* Counts of the pool that are an occupancy under 40%, and of 60% or more. *)
Counts     == 0..TRANSACTION_POOL_SIZE
LowCounts  == {n \in Counts : 10 * n < 4 * TRANSACTION_POOL_SIZE}
HighCounts == {n \in Counts : 10 * n >= 6 * TRANSACTION_POOL_SIZE}

(* When the occupancy stays low the additional validators end and are      *)
(* reaped, although a SIGTERM that comes before the handler is in place is *)
(* lost: it is sent again.  A validator that waits for a pool or a ledger  *)
(* that was left taken ends too; but where a handler waits for the log     *)
(* that its own thread holds, the launcher waits with it.                  *)
LowLoadReleases ==
  <>[](pool_count \in LowCounts /\ ~LedgerFull)
    => <>[](hung # {} \/ \A v \in Auxiliary : vpc[v] = "off")

(* Validators are added as the occupancy grows: when it stays high,        *)
(* validator 2 runs.                                                       *)
HighLoadServed ==
  <>[](pool_count \in HighCounts /\ ~LedgerFull)
    => <>[](hung # {} \/ vpc[2] \notin {"off", "zombie"})
=============================================================================
