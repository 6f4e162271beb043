------------------------------ MODULE Shutdown ------------------------------
(***************************************************************************)
(* The life of the processes: how the controller starts the miner process, *)
(* validator 1 and the statistics, how its launcher thread adds and ends   *)
(* validators 2 and 3, and how a SIGINT ends them all.  What they compute  *)
(* is left to DEIChain: a block is counted here by where it is.            *)
(*                                                                         *)
(* Every signal is ignored before the forks, so that a SIGTERM is lost on  *)
(* a child that has not installed its handler; the miner process blocks it *)
(* instead and takes it in a thread of its own, that cancels and joins the *)
(* miner threads and then posts sem_pipeclosed.                            *)
(*                                                                         *)
(* The semaphores that are used as locks appear only where they can end    *)
(* badly: a critical section is part of a step, but a process that a       *)
(* signal ends, and a thread that is cancelled, may leave one taken, and a *)
(* handler may wait for the one that its own thread holds.  Locks has the  *)
(* paths on which this happens.                                            *)
(***************************************************************************)
EXTENDS Integers, FiniteSets

CONSTANTS
  Miners,            \* the miner threads
  Auxiliary,         \* the validators the launcher may add
  PIPE_CAPACITY,     \* blocks that fit in the validation pipe
  BLOCKCHAIN_BLOCKS, \* capacity of the ledger
  MaxBlocks          \* bound: blocks that the threads start

ASSUME ShutdownAssumption ==
  /\ Miners # {} /\ IsFiniteSet(Miners)
  /\ Auxiliary \subseteq {"validator2", "validator3"}
  /\ PIPE_CAPACITY \in Nat \ {0}
  /\ BLOCKCHAIN_BLOCKS \in Nat
  /\ MaxBlocks \in Nat

VARIABLES
  cpc,          \* where the main thread of the controller is
  in_join,      \* the SIGINT handler interrupted pthread_join(launcher)
  child,        \* state of each child process
  signalled,    \* children with a signal pending that will end them
  lpc,          \* where the launcher thread is
  lcancelled,   \* the launcher thread was cancelled
  cancelled,    \* miner threads that were cancelled
  mt,           \* state of each miner thread
  spc,          \* where the signal handling thread of the miner is
  pipeclosed,   \* value of sem_pipeclosed
  pipe,         \* number of blocks in the validation pipe
  in_hand,      \* validators that hold a block
  ledger_count,
  started,      \* number of blocks the threads have started
  stuck         \* semaphores that are taken and that nobody will post

controllerVars == <<cpc, in_join>>
launcherVars   == <<lpc, lcancelled>>
minerVars      == <<mt, spc, cancelled, started>>
blockVars      == <<pipe, in_hand, ledger_count>>
vars == <<controllerVars, launcherVars, child, signalled,
          minerVars, pipeclosed, blockVars, stuck>>

MainChildren == {"miner", "validator1", "statistics"}
Validators   == {"validator1"} \cup Auxiliary
Children     == MainChildren \cup Auxiliary

-----------------------------------------------------------------------------
(* "none" is a PID of 0 and "failed" the -1 of a fork that failed.  A      *)
(* child boots; the miner and the validators then open the two ends of the *)
(* pipe, each waiting for the other ("open"); "run" is after the handler   *)
(* of SIGTERM is in place, for a validator after the nemesis block too.  A *)
(* child is "hung" when its handler waits for what its own thread holds.   *)
Alive(c)  == child[c] \in {"boot", "open", "opened", "masked", "nemesis",
                           "run", "hung"}
HasPid(c) == child[c] \notin {"none", "failed"}
Ended(c)  == child[c] \in {"exited", "crashed"}

(* A SIGTERM stays pending for a child that handles it, or blocks it.      *)
Keeps(c) == \/ child[c] \in {"nemesis", "run", "hung"}
            \/ c = "miner" /\ child[c] = "masked"

Kill(targets) == signalled' = signalled \cup {c \in targets : Keeps(c)}

Exit(c, how) ==
  /\ child' = [child EXCEPT ![c] = how]
  /\ signalled' = signalled \ {c}

(* sem_wait of a lock returns, now or later.                               *)
Takes(l)  == l \notin stuck
Logs      == Takes("log")
LogsOf(c) == HasPid(c) => Logs

(* A step that may leave some of these semaphores taken.                   *)
MayLeave(locks) == \E left \in SUBSET locks : stuck' = stuck \cup left

Init ==
  /\ cpc = "fork_miner"
  /\ in_join = FALSE
  /\ child = [c \in Children |-> "none"]
  /\ signalled = {}
  /\ lpc = "off"
  /\ lcancelled = FALSE
  /\ cancelled = {}
  /\ mt = [m \in Miners |-> "none"]
  /\ spc = "off"
  /\ pipeclosed = 0
  /\ pipe = 0
  /\ in_hand = {}
  /\ ledger_count = 0
  /\ started = 0
  /\ stuck = {}

-----------------------------------------------------------------------------
(* main(): three forks and the launcher thread.  Each may fail, and then   *)
(* main() calls cleanup() with the PIDs it has.                            *)
Fork(c, from, next) ==
  /\ cpc = from
  /\ \/ child' = [child EXCEPT ![c] = "boot"] /\ cpc' = next
     \/ child' = [child EXCEPT ![c] = "failed"] /\ cpc' = "kill_aux"
  /\ UNCHANGED <<in_join, signalled, launcherVars, pipeclosed, stuck>>

ForkMiner      == Fork("miner", "fork_miner", "fork_validator")
ForkValidator  == Fork("validator1", "fork_validator", "fork_statistics")
ForkStatistics == Fork("statistics", "fork_statistics", "create_launcher")

CreateLauncher ==
  /\ cpc = "create_launcher"
  /\ \/ lpc' = "poll" /\ cpc' = "install"
     \/ UNCHANGED lpc /\ cpc' = "kill_aux"
  /\ UNCHANGED <<in_join, child, signalled, pipeclosed, lcancelled, stuck>>

InstallHandlers ==
  /\ cpc = "install"
  /\ Logs
  /\ cpc' = "installed"
  /\ UNCHANGED <<in_join, child, signalled, launcherVars, pipeclosed, stuck>>

JoinLauncher ==
  /\ cpc = "installed"
  /\ cpc' = "join"
  /\ UNCHANGED <<in_join, child, signalled, launcherVars, pipeclosed, stuck>>

(* The launcher ended by itself, and its SIGINT came before the handler.   *)
JoinReturns ==
  /\ cpc = "join"
  /\ lpc = "ended"
  /\ cpc' = "wait_children"
  /\ UNCHANGED <<in_join, child, signalled, launcherVars, pipeclosed, stuck>>

(* The handler runs in the main thread, out of whatever it is doing: out   *)
(* of log_info, or of the handler of SIGUSR1, which holds the ledger and   *)
(* logs it, what the main thread held stays taken.                         *)
TakeSigint ==
  /\ cpc' = "kill_aux"
  /\ in_join' = (cpc = "join")
  /\ MayLeave({"ledger", "log"})

SigintHandled == cpc \in {"installed", "join", "wait_children"}

(* The user's SIGINT.  The one of a terminal reaches the additional        *)
(* validators that were forked with the handler of the controller in       *)
(* place; the other children were forked with SIGINT ignored.              *)
Sigint ==
  /\ SigintHandled
  /\ TakeSigint
  /\ \E reached \in SUBSET {v \in Auxiliary : Alive(v)} :
        signalled' = signalled \cup reached
  /\ UNCHANGED <<child, launcherVars, pipeclosed>>

-----------------------------------------------------------------------------
(* cleanup(): the additional validators are told to end and awaited, the   *)
(* launcher is cancelled, the miner is told to end, then, once the miner   *)
(* has posted sem_pipeclosed, validator 1, then the statistics; all three  *)
(* are awaited and the shared objects removed.                             *)
KillAuxiliary ==
  /\ cpc = "kill_aux"
  /\ Logs
  /\ Kill({v \in Auxiliary : HasPid(v)})
  /\ cpc' = "wait_validator2"
  /\ UNCHANGED <<in_join, child, launcherVars, pipeclosed, stuck>>

(* A slip of the wait: waitpid() with WNOHANG.                             *)
MayGoOn(c) == TRUE

(* waitpid() returns when there is no such child, or when it has ended.    *)
WaitReturns(c) == c \in Children /\ HasPid(c) => ~Alive(c)

WaitChild(c, from, next) ==
  /\ cpc = from
  /\ WaitReturns(c)
  /\ c \in Children => LogsOf(c)
  /\ child' = [x \in Children |->
                 IF x = c /\ Ended(c) THEN "reaped" ELSE child[x]]
  /\ cpc' = next
  /\ UNCHANGED <<in_join, signalled, launcherVars, pipeclosed, stuck>>

WaitAuxiliary ==
  \/ WaitChild("validator2", "wait_validator2", "wait_validator3")
  \/ WaitChild("validator3", "wait_validator3", "cancel")

CancelLauncher ==
  /\ cpc = "cancel"
  /\ lcancelled' = (lpc # "off")
  /\ cpc' = "join_launcher"
  /\ UNCHANGED <<in_join, child, signalled, lpc, pipeclosed, stuck>>

(* pthread_join() fails at once on a thread that the interrupted main()    *)
(* is already joining.                                                     *)
JoinCancelled ==
  /\ cpc = "join_launcher"
  /\ in_join \/ lpc \in {"off", "ended"}
  /\ Logs
  /\ cpc' = "kill_miner"
  /\ UNCHANGED <<in_join, child, signalled, launcherVars, pipeclosed, stuck>>

KillMiner ==
  /\ cpc = "kill_miner"
  /\ Logs
  /\ Kill({c \in {"miner"} : HasPid(c)})
  /\ cpc' = "kill_validator1"
  /\ UNCHANGED <<in_join, child, launcherVars, pipeclosed, stuck>>

(* A slip of the order: validator 1 is told to end without the wait.       *)
NoWaitForMiner ==
  /\ HasPid("validator1")
  /\ pipeclosed' = pipeclosed - 1

WaitForMiner ==
  /\ HasPid("validator1")
  /\ pipeclosed > 0
  /\ pipeclosed' = pipeclosed - 1

KillValidator ==
  /\ cpc = "kill_validator1"
  /\ WaitForMiner \/ (~HasPid("validator1") /\ UNCHANGED pipeclosed)
  /\ LogsOf("validator1")
  /\ Kill({c \in {"validator1"} : HasPid(c)})
  /\ cpc' = "kill_statistics"
  /\ UNCHANGED <<in_join, child, launcherVars, stuck>>

KillStatistics ==
  /\ cpc = "kill_statistics"
  /\ Logs
  /\ Kill({c \in {"statistics"} : HasPid(c)})
  /\ cpc' = "wait_miner"
  /\ UNCHANGED <<in_join, child, launcherVars, pipeclosed, stuck>>

WaitMainChildren ==
  \/ WaitChild("miner", "wait_miner", "wait_validator1")
  \/ WaitChild("validator1", "wait_validator1", "wait_statistics")
  \/ WaitChild("statistics", "wait_statistics", "release")

Released == cpc \in {"exit", "ended"}

(* The ledger is logged, under its lock, before the objects are removed.   *)
Release ==
  /\ cpc = "release"
  /\ Logs
  /\ Takes("ledger")
  /\ cpc' = "exit"
  /\ UNCHANGED <<in_join, child, signalled, launcherVars, pipeclosed, stuck>>

(* exit() ends the launcher, if it still runs, with the process.           *)
ControllerExit ==
  /\ cpc = "exit"
  /\ cpc' = "ended"
  /\ lpc' = "ended"
  /\ UNCHANGED <<in_join, child, signalled, pipeclosed, lcancelled, stuck>>

ControllerStep ==
  \/ ForkMiner \/ ForkValidator \/ ForkStatistics
  \/ CreateLauncher \/ InstallHandlers \/ JoinLauncher \/ JoinReturns
  \/ KillAuxiliary \/ WaitAuxiliary \/ CancelLauncher \/ JoinCancelled
  \/ KillMiner \/ KillValidator \/ KillStatistics \/ WaitMainChildren
  \/ Release \/ ControllerExit

-----------------------------------------------------------------------------
(* The launcher: at any occupancy of the pool.  It can be cancelled where  *)
(* it sleeps, logs or waits, and no more once it has logged that it will   *)
(* fork (lpc is then the validator).                                       *)
LauncherRuns == lpc = "poll" /\ ~lcancelled

LauncherDecides ==
  /\ LauncherRuns
  /\ ledger_count < BLOCKCHAIN_BLOCKS
  /\ Logs
  /\ \E v \in Auxiliary : child[v] = "none" /\ lpc' = v
  /\ UNCHANGED <<controllerVars, child, signalled, lcancelled, stuck>>

(* A slot whose fork failed holds -1 and is never tried again.             *)
LauncherForks ==
  /\ lpc \in Auxiliary
  /\ \E outcome \in {"boot", "failed"} :
        child' = [child EXCEPT ![lpc] = outcome]
  /\ lpc' = "poll"
  /\ UNCHANGED <<controllerVars, signalled, lcancelled, stuck>>

(* At a low occupancy it tells the validators to end and reaps those that  *)
(* have.                                                                   *)
LauncherShrinks ==
  /\ LauncherRuns
  /\ ledger_count < BLOCKCHAIN_BLOCKS
  /\ \A v \in Auxiliary : LogsOf(v)
  /\ Kill({v \in Auxiliary : HasPid(v)})
  /\ child' = [c \in Children |->
                 IF c \in Auxiliary /\ Ended(c) THEN "none" ELSE child[c]]
  /\ UNCHANGED <<controllerVars, launcherVars, stuck>>

(* At a full ledger it sends SIGINT to its own process, and ends.          *)
LauncherEnds ==
  /\ LauncherRuns
  /\ ledger_count >= BLOCKCHAIN_BLOCKS
  /\ Logs
  /\ IF SigintHandled THEN TakeSigint ELSE UNCHANGED <<controllerVars, stuck>>
  /\ lpc' = "ended"
  /\ UNCHANGED <<child, signalled, lcancelled>>

(* ... also in the writes of log_info, with the lock of the log taken.     *)
LauncherCancelled ==
  /\ lpc = "poll"
  /\ lcancelled
  /\ lpc' = "ended"
  /\ MayLeave({"log"})
  /\ UNCHANGED <<controllerVars, child, signalled, lcancelled>>

LauncherStep ==
  \/ LauncherDecides \/ LauncherForks \/ LauncherShrinks
  \/ LauncherEnds \/ LauncherCancelled

-----------------------------------------------------------------------------
(* The ends of the pipe.  open() of either waits for the other.            *)
PipeWriter == child["miner"] \in {"open", "opened", "masked", "run"}
PipeReader ==
  \E v \in Validators :
     child[v] \in {"open", "opened", "nemesis", "run", "hung"}

(* A child that finds the shared objects removed exits.                    *)
BootFails(c) ==
  /\ child[c] = "boot"
  /\ Released
  /\ Exit(c, "exited")
  /\ UNCHANGED <<minerVars, pipeclosed, blockVars, stuck>>

(* main() logs that the child runs, in the child.                          *)
MinerOpens ==
  /\ child["miner"] = "boot"
  /\ ~Released
  /\ Logs
  /\ child' = [c \in Children |->
                 IF c = "miner" THEN (IF PipeReader THEN "opened" ELSE "open")
                 ELSE IF child[c] = "open" THEN "opened" ELSE child[c]]
  /\ UNCHANGED <<signalled, minerVars, pipeclosed, blockVars, stuck>>

ValidatorOpens(v) ==
  /\ child[v] = "boot"
  /\ ~Released
  /\ v = "validator1" => Logs
  /\ child' = [c \in Children |->
                 IF c = v THEN (IF PipeWriter THEN "opened" ELSE "open")
                 ELSE IF c = "miner" /\ child[c] = "open" THEN "opened"
                 ELSE child[c]]
  /\ UNCHANGED <<signalled, minerVars, pipeclosed, blockVars, stuck>>

(* The miner process blocks SIGTERM, creates the thread that waits for it  *)
(* and then the miner threads.                                             *)
MinerMasks ==
  /\ child["miner"] = "opened"
  /\ Logs
  /\ child' = [child EXCEPT !["miner"] = "masked"]
  /\ UNCHANGED <<signalled, minerVars, pipeclosed, blockVars, stuck>>

MinerCreatesSignalThread ==
  /\ child["miner"] = "masked"
  /\ child' = [child EXCEPT !["miner"] = "run"]
  /\ spc' = "sigwait"
  /\ UNCHANGED <<signalled, mt, cancelled, started, pipeclosed, blockVars,
                 stuck>>

(* The first miner thread is created after a log of the signal thread.     *)
MinerCreatesThread(m) ==
  /\ child["miner"] = "run"
  /\ mt[m] = "none"
  /\ (\A n \in Miners : mt[n] = "none") => Logs
  /\ mt' = [mt EXCEPT ![m] = "idle"]
  /\ UNCHANGED <<child, signalled, spc, cancelled, started, pipeclosed,
                 blockVars, stuck>>

-----------------------------------------------------------------------------
(* The signal handling thread.  It may take SIGTERM before all the threads *)
(* exist: pthread_cancel() of an identifier that was never set fails, or   *)
(* ends the process with a segmentation fault.                             *)
SignalTaken ==
  /\ spc = "sigwait"
  /\ "miner" \in signalled
  /\ Logs
  /\ signalled' = signalled \ {"miner"}
  /\ cancelled' = {m \in Miners : mt[m] # "none"}
  /\ spc' = "joining"
  /\ UNCHANGED <<child, mt, started, pipeclosed, blockVars, stuck>>

(* What the miner threads may hold.                                        *)
HeldByThreads ==
  IF \E m \in Miners : mt[m] \in {"idle", "mining"}
  THEN {"pool", "ledger", "log"} ELSE {}

(* The threads that there are end with it, whatever they hold.             *)
SignalCrash ==
  /\ spc = "sigwait"
  /\ "miner" \in signalled
  /\ Logs
  /\ \E m \in Miners : mt[m] = "none"
  /\ Exit("miner", "crashed")
  /\ mt' = [m \in Miners |-> "ended"]
  /\ spc' = "ended"
  /\ MayLeave(HeldByThreads)
  /\ UNCHANGED <<cancelled, started, pipeclosed, blockVars>>

(* A slip of the order: the post before the joins.                         *)
ThreadsAsked == cancelled # {}

(* pthread_join() fails at once on a thread that does not exist.           *)
ThreadsJoined == \A m \in Miners : mt[m] \in {"none", "ended"}

(* A slip of the thread: it ends without the post.                         *)
NotPosted == pipeclosed

Posted == pipeclosed + 1

(* It logs before the joins, and after each.                               *)
SignalPost ==
  /\ spc = "joining"
  /\ Logs
  /\ ThreadsJoined
  /\ pipeclosed' = Posted
  /\ spc' = "ended"
  /\ UNCHANGED <<child, signalled, mt, cancelled, started, blockVars, stuck>>

(* The main thread of the miner has created the threads and joins the      *)
(* signal thread; its exit closes the pipe and ends any thread.            *)
MinerExits ==
  /\ child["miner"] = "run"
  /\ spc = "ended"
  /\ \A m \in Miners : mt[m] # "none"
  /\ Logs
  /\ Exit("miner", "exited")
  /\ mt' = [m \in Miners |-> "ended"]
  /\ MayLeave(HeldByThreads)
  /\ UNCHANGED <<spc, cancelled, started, pipeclosed, blockVars>>

-----------------------------------------------------------------------------
(* A miner thread: it takes transactions and the hash of the last block,   *)
(* starts a block, logs it, and writes it or waits for room.  A cancelled  *)
(* one ends at its next cancellation point, and write() is one.            *)
ThreadStarts(m) ==
  /\ mt[m] = "idle"
  /\ Takes("pool") /\ Takes("ledger")
  /\ started < MaxBlocks
  /\ ledger_count < BLOCKCHAIN_BLOCKS
  /\ mt' = [mt EXCEPT ![m] = "mining"]
  /\ started' = started + 1
  /\ UNCHANGED <<child, signalled, spc, cancelled, pipeclosed, blockVars,
                 stuck>>

NotCancelled(m) == m \notin cancelled

ThreadWrites(m) ==
  /\ mt[m] = "mining"
  /\ NotCancelled(m)
  /\ Logs
  /\ pipe < PIPE_CAPACITY
  /\ pipe' = pipe + 1
  /\ mt' = [mt EXCEPT ![m] = "idle"]
  /\ UNCHANGED <<child, signalled, spc, cancelled, started, pipeclosed,
                 in_hand, ledger_count, stuck>>

(* Cancelled, maybe in the writes of log_info with the lock of the log     *)
(* taken, or finding the ledger full.                                      *)
ThreadEnds(m) ==
  /\ \/ /\ mt[m] \in {"idle", "mining"}
        /\ ~NotCancelled(m)
        /\ MayLeave({"log"})
     \/ /\ mt[m] = "idle"
        /\ ledger_count >= BLOCKCHAIN_BLOCKS
        /\ stuck = {}
        /\ UNCHANGED stuck
  /\ mt' = [mt EXCEPT ![m] = "ended"]
  /\ UNCHANGED <<child, signalled, spc, cancelled, started, pipeclosed,
                 blockVars>>

-----------------------------------------------------------------------------
(* A validator, once it handles SIGTERM, creates the nemesis block if the  *)
(* ledger is empty.                                                        *)
ValidatorHandles(v) ==
  /\ child[v] = "opened"
  /\ Logs
  /\ child' = [child EXCEPT ![v] = "nemesis"]
  /\ UNCHANGED <<signalled, minerVars, pipeclosed, blockVars, stuck>>

ValidatorReady(v) ==
  /\ child[v] = "nemesis"
  /\ Takes("ledger")
  /\ ledger_count = 0 => Logs
  /\ child' = [child EXCEPT ![v] = "run"]
  /\ ledger_count' = IF ledger_count = 0 THEN 1 ELSE ledger_count
  /\ UNCHANGED <<signalled, minerVars, pipeclosed, pipe, in_hand, stuck>>

ValidatorReads(v) ==
  /\ child[v] = "run"
  /\ v \notin in_hand
  /\ pipe > 0
  /\ pipe' = pipe - 1
  /\ in_hand' = in_hand \cup {v}
  /\ UNCHANGED <<child, signalled, minerVars, pipeclosed, ledger_count, stuck>>

(* The block is appended to the ledger or rejected.                        *)
ValidatorDecides(v) ==
  /\ child[v] = "run"
  /\ v \in in_hand
  /\ stuck = {}
  /\ in_hand' = in_hand \ {v}
  /\ \/ ledger_count < BLOCKCHAIN_BLOCKS /\ ledger_count' = ledger_count + 1
     \/ UNCHANGED ledger_count
  /\ UNCHANGED <<child, signalled, minerVars, pipeclosed, pipe, stuck>>

(* It is empty and no writer has it open.                                  *)
EndOfPipe == pipe = 0 /\ ~PipeWriter

ValidatorReadsEnd(v) ==
  /\ child[v] = "run"
  /\ v \notin in_hand
  /\ EndOfPipe
  /\ Logs
  /\ Exit(v, "exited")
  /\ UNCHANGED <<minerVars, pipeclosed, blockVars, stuck>>

(* What a validator may be inside of, one at a time, when a signal comes.  *)
Sections(v) ==
  CASE child[v] = "nemesis" -> {{}, {"ledger"}}
    [] v \in in_hand        -> {{}, {"pool"}, {"ledger"}}
    [] OTHER                -> {{}}

(* Where it logs.                                                          *)
MayBeLogging(v) ==
  \/ child[v] = "opened"
  \/ child[v] = "nemesis" /\ ledger_count = 0
  \/ child[v] = "run" /\ (v \in in_hand \/ EndOfPipe)

(* SIGTERM, or the SIGINT handler of the controller: either logs and ends  *)
(* it, and what it was inside of stays taken.                              *)
ValidatorStopped(v) ==
  /\ v \in signalled
  /\ Alive(v) /\ child[v] # "hung"
  /\ Logs
  /\ \E section \in Sections(v) : stuck' = stuck \cup section
  /\ Exit(v, "exited")
  /\ in_hand' = in_hand \ {v}
  /\ UNCHANGED <<minerVars, pipeclosed, pipe, ledger_count>>

(* ... but a handler that interrupts log_info waits for its own thread.    *)
ValidatorHangs(v) ==
  /\ v \in signalled
  /\ MayBeLogging(v)
  /\ Logs
  /\ \E section \in Sections(v) : stuck' = stuck \cup section \cup {"log"}
  /\ child' = [child EXCEPT ![v] = "hung"]
  /\ signalled' = signalled \ {v}
  /\ UNCHANGED <<minerVars, pipeclosed, blockVars>>

StatisticsReady ==
  /\ child["statistics"] = "boot"
  /\ ~Released
  /\ Logs
  /\ child' = [child EXCEPT !["statistics"] = "run"]
  /\ UNCHANGED <<signalled, minerVars, pipeclosed, blockVars, stuck>>

(* It logs, from the main loop, which holds the ledger at times.           *)
StatisticsStopped ==
  /\ "statistics" \in signalled
  /\ Alive("statistics") /\ child["statistics"] # "hung"
  /\ Logs
  /\ MayLeave({"ledger"})
  /\ Exit("statistics", "exited")
  /\ UNCHANGED <<minerVars, pipeclosed, blockVars>>

(* ... or from the handler of SIGUSR1, which logs.                         *)
StatisticsHangs ==
  /\ "statistics" \in signalled
  /\ child["statistics"] = "run"
  /\ Logs
  /\ \E section \in {{}, {"ledger"}} :
        stuck' = stuck \cup section \cup {"log"}
  /\ child' = [child EXCEPT !["statistics"] = "hung"]
  /\ signalled' = signalled \ {"statistics"}
  /\ UNCHANGED <<minerVars, pipeclosed, blockVars>>

MinerMainStep ==
  \/ MinerOpens \/ MinerMasks \/ MinerCreatesSignalThread
  \/ \E m \in Miners : MinerCreatesThread(m)
  \/ MinerExits

SignalThreadStep == SignalTaken \/ SignalCrash \/ SignalPost

ThreadStep(m) == ThreadStarts(m) \/ ThreadWrites(m) \/ ThreadEnds(m)

ValidatorStep(v) ==
  \/ ValidatorOpens(v) \/ ValidatorHandles(v) \/ ValidatorReady(v)
  \/ ValidatorReads(v) \/ ValidatorDecides(v) \/ ValidatorReadsEnd(v)

ValidatorSignal(v) == ValidatorStopped(v) \/ ValidatorHangs(v)

StatisticsStep == StatisticsReady \/ StatisticsStopped \/ StatisticsHangs

ParentIdle == UNCHANGED <<controllerVars, launcherVars>>

ChildStep ==
  /\ \/ \E c \in Children : BootFails(c)
     \/ MinerMainStep
     \/ SignalThreadStep
     \/ \E m \in Miners : ThreadStep(m)
     \/ \E v \in Validators : ValidatorStep(v) \/ ValidatorSignal(v)
     \/ StatisticsStep
  /\ ParentIdle

Others == UNCHANGED <<minerVars, blockVars>>

Next ==
  \/ ControllerStep /\ Others
  \/ Sigint /\ Others
  \/ LauncherStep /\ Others /\ UNCHANGED pipeclosed
  \/ ChildStep

Spec == Init /\ [][Next]_vars

(* The scheduler runs every thread that can go on, and the kernel delivers *)
(* the signals; the user need not interrupt the program.  A thread cannot  *)
(* go on while it waits for a child, for the pipe or for a stuck lock.     *)
Fairness ==
  /\ WF_vars(ControllerStep /\ Others)
  /\ WF_vars(LauncherStep /\ Others /\ UNCHANGED pipeclosed)
  /\ \A c \in Children : WF_vars(BootFails(c) /\ ParentIdle)
  /\ WF_vars(MinerMainStep /\ ParentIdle)
  /\ WF_vars(SignalThreadStep /\ ParentIdle)
  /\ \A m \in Miners : WF_vars(ThreadStep(m) /\ ParentIdle)
  /\ \A v \in Validators : /\ WF_vars(ValidatorStep(v) /\ ParentIdle)
                           /\ WF_vars(ValidatorSignal(v) /\ ParentIdle)
  /\ WF_vars(StatisticsStep /\ ParentIdle)

FairSpec == Spec /\ Fairness

-----------------------------------------------------------------------------
ShutdownTypeOK ==
  /\ cpc \in {"fork_miner", "fork_validator", "fork_statistics",
       "create_launcher", "install", "installed", "join", "wait_children",
       "kill_aux", "wait_validator2", "wait_validator3", "cancel",
       "join_launcher", "kill_miner", "kill_validator1", "kill_statistics",
       "wait_miner", "wait_validator1", "wait_statistics", "release",
       "exit", "ended"}
  /\ in_join \in BOOLEAN
  /\ child \in [Children -> {"none", "failed", "boot", "open", "opened",
                             "masked", "nemesis", "run", "hung",
                             "exited", "crashed", "reaped"}]
  /\ signalled \in SUBSET Children
  /\ lpc \in {"off", "poll", "ended"} \cup Auxiliary
  /\ lcancelled \in BOOLEAN
  /\ mt \in [Miners -> {"none", "idle", "mining", "ended"}]
  /\ spc \in {"off", "sigwait", "joining", "ended"}
  /\ cancelled \in SUBSET Miners
  /\ started \in Nat
  /\ pipeclosed \in Nat
  /\ pipe \in Nat
  /\ in_hand \in SUBSET Validators
  /\ ledger_count \in Nat
  /\ stuck \in SUBSET {"pool", "ledger", "log"}

Gone(c) == child[c] \in {"exited", "crashed", "reaped"}

(* SIGTERM reached the miner before all its threads existed.               *)
StartRace == spc \in {"joining", "ended"} /\ cancelled # Miners

(* The reading side of the pipe closes only after the writing side: by the *)
(* time validator 1 is gone every miner thread has ended.  It takes the    *)
(* joins before sem_post(sem_pipeclosed), the cancellation that write()    *)
(* honours, and the wait of the controller.                                *)
ReaderClosesLast == Gone("validator1") => \A m \in Miners : mt[m] = "ended"

ReaderOutlivesWriters == ~StartRace => ReaderClosesLast

(* The shared objects are removed only when the miner, validator 1 and the *)
(* statistics, as far as they were started, have been awaited.  A          *)
(* validator that the launcher added too late may still use them.          *)
ReleasedLast ==
  cpc \in {"release", "exit", "ended"} => \A c \in MainChildren : ~Alive(c)

(* The controller waits for the additional validators, and forces the end  *)
(* of the thread that forks them: none outlives it.                        *)
NoValidatorLeft == cpc = "ended" => \A v \in Auxiliary : ~Alive(v)

(* The validator closes the pipe without loss of data: what the miner      *)
(* threads wrote has been read.                                            *)
PipeDrained == Gone("validator1") => pipe = 0

-----------------------------------------------------------------------------
(* The steps of cleanup() that follow the SIGTERM of each child.           *)
AfterStatistics == {"wait_miner", "wait_validator1", "wait_statistics",
                    "release", "exit", "ended"}
AfterValidator  == {"kill_statistics"} \cup AfterStatistics
AfterMiner      == {"kill_validator1"} \cup AfterValidator
AfterAuxiliary  == {"wait_validator2", "wait_validator3", "cancel",
                    "join_launcher", "kill_miner"} \cup AfterMiner

Told(c) == cpc \in (CASE c = "miner"      -> AfterMiner
                      [] c = "validator1" -> AfterValidator
                      [] c = "statistics" -> AfterStatistics
                      [] OTHER            -> AfterAuxiliary)

(* A child that goes on although cleanup() has told it to end: it took the *)
(* SIGTERM before its handler was in place, or was forked too late.        *)
Missed(c) ==
  /\ Told(c)
  /\ Alive(c)
  /\ c \notin signalled
  /\ c = "miner" => spc \in {"off", "sigwait"}

(* The semaphores that cleanup() and the handlers of its children take.    *)
NeededByCleanup == {"ledger", "log"}

(* Once it has begun, cleanup() comes to its end unless a child missed its *)
(* SIGTERM, or a signal or a cancellation left the ledger or the log       *)
(* taken.  A full pipe, a launcher that forks, a fork that failed or a     *)
(* validator that ended with the pool taken do not keep it from ending:    *)
(* the miner threads and the validators that wait for the pool for ever    *)
(* can still be cancelled, joined, told to end and awaited.                *)
ShutdownCompletes ==
  cpc = "kill_aux" ~> \/ cpc = "ended"
                      \/ StartRace
                      \/ \E c \in Children : Missed(c)
                      \/ stuck \cap NeededByCleanup # {}

(* Handlers are installed when the program is up, so that it always ends.  *)
ShutdownEnds == cpc = "kill_aux" ~> cpc = "ended"
=============================================================================
