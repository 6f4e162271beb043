--------------------------- MODULE ShutdownProofs ---------------------------
(***************************************************************************)
(* The order of the shutdown, for any number of miner threads, any pipe    *)
(* and any ledger: validator 1 outlives the miner threads, and the shared  *)
(* objects are removed after the processes that use them have ended.       *)
(*                                                                         *)
(* The knowledge that the threads have ended travels from the signal       *)
(* thread, by sem_pipeclosed, to the controller and, by SIGTERM, to        *)
(* validator 1; or from the miner process, when it exits, by the end of    *)
(* the pipe.  The invariant says so at each stage of that way.             *)
(***************************************************************************)
EXTENDS Shutdown, TLAPS

ThreadsDone == StartRace \/ \A m \in Miners : mt[m] = "ended"

(* The signal thread takes threads for cancelled that exist.               *)
SignalThreadInv ==
  /\ spc \in {"off", "sigwait"} => cancelled = {}
  /\ \A m \in cancelled : mt[m] # "none"
  /\ child["miner"] \in {"none", "failed", "boot", "open", "opened", "masked"}
       => spc = "off"

(* What tells that the threads have ended.                                 *)
EvidenceInv ==
  /\ pipeclosed > 0 => spc = "ended" /\ ThreadsDone
  /\ "validator1" \in signalled => ThreadsDone
  /\ Gone("miner") => ThreadsDone
  /\ Gone("validator1") => ThreadsDone

(* Validator 1 gets past its open() with the miner.                        *)
OpenInv ==
  /\ child["miner"] \notin {"nemesis", "hung"}
  /\ child["validator1"] \in {"opened", "nemesis", "run"}
       => child["miner"] \notin {"none", "failed", "boot"}

(* The forks, and the waits at the end.                                    *)
ForkInv ==
  /\ cpc = "fork_miner" => \A c \in MainChildren : child[c] = "none"
  /\ cpc = "fork_validator" => child["validator1"] = "none"
  /\ cpc \in {"fork_miner", "fork_validator", "fork_statistics"}
       => child["statistics"] = "none"

WaitInv ==
  /\ cpc \in {"wait_validator1", "wait_statistics", "release", "exit", "ended"}
       => ~Alive("miner")
  /\ cpc \in {"wait_statistics", "release", "exit", "ended"}
       => ~Alive("validator1")
  /\ cpc \in {"release", "exit", "ended"} => ~Alive("statistics")

ShutdownInv ==
  /\ ShutdownTypeOK
  /\ SignalThreadInv
  /\ EvidenceInv
  /\ OpenInv
  /\ ForkInv
  /\ WaitInv

-----------------------------------------------------------------------------
(* No child has been forked.                                               *)
LEMMA ShutdownInvInit == Init => ShutdownInv
<1> SUFFICES ASSUME Init PROVE ShutdownInv
  OBVIOUS
<1>1. ShutdownTypeOK
  BY DEF Init, ShutdownTypeOK
<1>2. \A c \in Children : child[c] = "none"
  BY DEF Init
<1>3. MainChildren \subseteq Children /\ {"miner", "validator1", "statistics"} = MainChildren
  BY DEF Children, MainChildren
<1>4. SignalThreadInv /\ EvidenceInv /\ OpenInv /\ ForkInv /\ WaitInv
  BY <1>2, <1>3 DEF Init, SignalThreadInv, EvidenceInv, OpenInv, ForkInv, WaitInv,
     Gone, MainChildren
<1>5. QED
  BY <1>1, <1>4 DEF ShutdownInv

(* What the type invariant says of the main children.                      *)
LEMMA ChildFacts ==
  /\ MainChildren \subseteq Children
  /\ Auxiliary \cap MainChildren = {}
  /\ "miner" \in Children /\ "validator1" \in Children /\ "statistics" \in Children
  /\ Children = MainChildren \cup Auxiliary
  /\ Validators = {"validator1"} \cup Auxiliary
BY ShutdownAssumption DEF Children, MainChildren, Validators

(* The types of all variables.                                             *)
LEMMA ShutdownTypeNext ==
  ASSUME ShutdownTypeOK, [Next]_vars
  PROVE  ShutdownTypeOK'
<1> USE ChildFacts DEF ShutdownTypeOK, MayLeave
<1>1. CASE ControllerStep /\ Others
  <2> USE DEF Others, minerVars, blockVars
  <2>1. CASE ForkMiner \/ ForkValidator \/ ForkStatistics
    BY <1>1, <2>1 DEF ForkMiner, ForkValidator, ForkStatistics, Fork, launcherVars
  <2>2. CASE CreateLauncher \/ InstallHandlers \/ JoinLauncher \/ JoinReturns
    BY <1>1, <2>2 DEF CreateLauncher, InstallHandlers, JoinLauncher, JoinReturns,
       launcherVars
  <2>3. CASE KillAuxiliary \/ KillMiner \/ KillStatistics
    BY <1>1, <2>3 DEF KillAuxiliary, KillMiner, KillStatistics, Kill, launcherVars
  <2>4. CASE WaitAuxiliary \/ WaitMainChildren
    BY <1>1, <2>4 DEF WaitAuxiliary, WaitMainChildren, WaitChild, launcherVars
  <2>5. CASE CancelLauncher \/ JoinCancelled \/ Release \/ ControllerExit
    BY <1>1, <2>5 DEF CancelLauncher, JoinCancelled, Release, ControllerExit,
       launcherVars
  <2>6. CASE KillValidator
    <3>1. pipeclosed' \in Nat
      BY <2>6 DEF KillValidator, WaitForMiner
    <3>2. QED
      BY <1>1, <2>6, <3>1 DEF KillValidator, Kill, launcherVars
  <2>7. QED
    BY <1>1, <2>1, <2>2, <2>3, <2>4, <2>5, <2>6 DEF ControllerStep
<1>2. CASE Sigint /\ Others
  BY <1>2 DEF Sigint, Others, TakeSigint, minerVars, blockVars, launcherVars
<1>3. CASE LauncherStep /\ Others /\ UNCHANGED pipeclosed
  <2> USE DEF Others, minerVars, blockVars
  <2>1. CASE LauncherDecides \/ LauncherForks \/ LauncherCancelled
    <3>1. stuck' \in SUBSET {"pool", "ledger", "log"}
      BY <2>1 DEF LauncherDecides, LauncherForks, LauncherCancelled
    <3>2. QED
      BY <1>3, <2>1, <3>1 DEF LauncherDecides, LauncherForks, LauncherCancelled,
         controllerVars
  <2>2. CASE LauncherShrinks
    BY <1>3, <2>2 DEF LauncherShrinks, Kill, controllerVars, launcherVars
  <2>3. CASE LauncherEnds
    BY <1>3, <2>3 DEF LauncherEnds, TakeSigint, controllerVars
  <2>4. QED
    BY <1>3, <2>1, <2>2, <2>3 DEF LauncherStep
<1>4. CASE ChildStep
  <2> USE DEF ParentIdle, controllerVars, launcherVars, minerVars, blockVars, Exit
  <2>0. ParentIdle
    BY <1>4 DEF ChildStep
  <2>1. CASE \E c \in Children : BootFails(c)
    BY <2>0, <2>1 DEF BootFails
  <2>2. CASE MinerMainStep
    <3>1. CASE MinerOpens
      BY <2>0, <3>1 DEF MinerOpens
    <3>2. CASE MinerMasks
      BY <2>0, <3>2 DEF MinerMasks
    <3>3. CASE MinerCreatesSignalThread
      BY <2>0, <3>3 DEF MinerCreatesSignalThread
    <3>4. CASE \E m \in Miners : MinerCreatesThread(m)
      BY <2>0, <3>4 DEF MinerCreatesThread
    <3>5. CASE MinerExits
      BY <2>0, <3>5 DEF MinerExits, HeldByThreads
    <3>6. QED
      BY <2>2, <3>1, <3>2, <3>3, <3>4, <3>5 DEF MinerMainStep
  <2>3. CASE SignalThreadStep
    <3>1. CASE SignalTaken
      BY <2>0, <3>1 DEF SignalTaken
    <3>2. CASE SignalCrash
      BY <2>0, <3>2 DEF SignalCrash, HeldByThreads
    <3>3. CASE SignalPost
      BY <2>0, <3>3 DEF SignalPost, Posted
    <3>4. QED
      BY <2>3, <3>1, <3>2, <3>3 DEF SignalThreadStep
  <2>4. CASE \E m \in Miners : ThreadStep(m)
    <3>1. PICK m \in Miners : ThreadStep(m)
      BY <2>4
    <3>2. CASE ThreadStarts(m)
      BY <2>0, <3>2 DEF ThreadStarts
    <3>3. CASE ThreadWrites(m)
      BY <2>0, <3>3 DEF ThreadWrites
    <3>4. CASE ThreadEnds(m)
      <4>1. stuck' \in SUBSET {"pool", "ledger", "log"}
        BY <3>4 DEF ThreadEnds
      <4>2. QED
        BY <2>0, <3>4, <4>1 DEF ThreadEnds
    <3>5. QED
      BY <3>1, <3>2, <3>3, <3>4 DEF ThreadStep
  <2>5. CASE \E v \in Validators : ValidatorStep(v) \/ ValidatorSignal(v)
    <3>1. PICK v \in Validators : ValidatorStep(v) \/ ValidatorSignal(v)
      BY <2>5
    <3>2. v \in Children
      OBVIOUS
    <3>3. CASE ValidatorOpens(v)
      BY <2>0, <3>2, <3>3 DEF ValidatorOpens
    <3>4. CASE ValidatorHandles(v) \/ ValidatorReady(v)
      <4>1. CASE ValidatorHandles(v)
        BY <2>0, <3>2, <4>1 DEF ValidatorHandles
      <4>2. CASE ValidatorReady(v)
        BY <2>0, <3>2, <4>2 DEF ValidatorReady
      <4>3. QED
        BY <3>4, <4>1, <4>2
    <3>5. CASE ValidatorReads(v)
      BY <2>0, <3>5 DEF ValidatorReads
    <3>6. CASE ValidatorDecides(v)
      BY <2>0, <3>6 DEF ValidatorDecides
    <3>7. CASE ValidatorReadsEnd(v)
      BY <2>0, <3>2, <3>7 DEF ValidatorReadsEnd
    <3>8. CASE ValidatorSignal(v)
      <4>1. \A section \in Sections(v) : section \subseteq {"pool", "ledger"}
        BY DEF Sections
      <4>2. CASE ValidatorStopped(v)
        BY <2>0, <3>2, <4>1, <4>2 DEF ValidatorStopped
      <4>3. CASE ValidatorHangs(v)
        BY <2>0, <3>2, <4>1, <4>3 DEF ValidatorHangs
      <4>4. QED
        BY <3>8, <4>2, <4>3 DEF ValidatorSignal
    <3>9. QED
      BY <3>1, <3>3, <3>4, <3>5, <3>6, <3>7, <3>8 DEF ValidatorStep
  <2>6. CASE StatisticsStep
    <3>1. CASE StatisticsReady
      BY <2>0, <3>1 DEF StatisticsReady
    <3>2. CASE StatisticsStopped
      BY <2>0, <3>2 DEF StatisticsStopped
    <3>3. CASE StatisticsHangs
      <4>1. stuck' \in SUBSET {"pool", "ledger", "log"}
        BY <3>3 DEF StatisticsHangs
      <4>2. QED
        BY <2>0, <3>3, <4>1 DEF StatisticsHangs
    <3>4. QED
      BY <2>6, <3>1, <3>2, <3>3 DEF StatisticsStep
  <2>7. QED
    BY <1>4, <2>1, <2>2, <2>3, <2>4, <2>5, <2>6 DEF ChildStep
<1>5. CASE UNCHANGED vars
  BY <1>5 DEF vars, controllerVars, launcherVars, minerVars, blockVars
<1>6. QED
  BY <1>1, <1>2, <1>3, <1>4, <1>5 DEF Next

-----------------------------------------------------------------------------
(* The steps of the controller and its launcher.                           *)
LEMMA ControllerKeeps ==
  ASSUME ShutdownInv, ControllerStep, Others
  PROVE  SignalThreadInv' /\ EvidenceInv' /\ OpenInv' /\ ForkInv' /\ WaitInv'
<1> USE ChildFacts DEF ShutdownInv, ShutdownTypeOK
<1>0. UNCHANGED <<mt, spc, cancelled>> /\ (ThreadsDone' <=> ThreadsDone)
  BY DEF Others, minerVars, ThreadsDone, StartRace
<1> USE DEF launcherVars, Gone, Alive, MainChildren
<1>1. CASE ForkMiner \/ ForkValidator \/ ForkStatistics
  <2>1. PICK c \in MainChildren, from \in {"fork_miner", "fork_validator", "fork_statistics"},
             next \in {"fork_validator", "fork_statistics", "create_launcher"} :
          /\ Fork(c, from, next)
          /\ \/ c = "miner" /\ from = "fork_miner" /\ next = "fork_validator"
             \/ c = "validator1" /\ from = "fork_validator" /\ next = "fork_statistics"
             \/ c = "statistics" /\ from = "fork_statistics" /\ next = "create_launcher"
    BY <1>1 DEF ForkMiner, ForkValidator, ForkStatistics
  <2>2. child[c] = "none"
    BY <2>1 DEF ForkInv, Fork
  <2>3. SignalThreadInv'
    BY <1>0, <2>1, <2>2 DEF SignalThreadInv, Fork
  <2>4. EvidenceInv'
    BY <1>0, <2>1, <2>2 DEF EvidenceInv, Fork
  <2>5. OpenInv'
    BY <2>1, <2>2 DEF OpenInv, ForkInv, Fork
  <2>6. ForkInv' /\ WaitInv'
    BY <2>1, <2>2 DEF ForkInv, WaitInv, Fork
  <2>7. QED
    BY <2>3, <2>4, <2>5, <2>6
<1>2. CASE \/ CreateLauncher \/ InstallHandlers \/ JoinLauncher \/ JoinReturns
           \/ CancelLauncher \/ JoinCancelled \/ Release \/ ControllerExit
  <2>1. UNCHANGED <<child, signalled, pipeclosed>>
    BY <1>2 DEF CreateLauncher, InstallHandlers, JoinLauncher, JoinReturns,
       CancelLauncher, JoinCancelled, Release, ControllerExit
  <2>2. SignalThreadInv' /\ EvidenceInv' /\ OpenInv'
    BY <1>0, <2>1 DEF SignalThreadInv, EvidenceInv, OpenInv
  <2>3. ForkInv' /\ WaitInv'
    BY <1>2, <2>1 DEF ForkInv, WaitInv, CreateLauncher, InstallHandlers, JoinLauncher,
       JoinReturns, CancelLauncher, JoinCancelled, Release, ControllerExit
  <2>4. QED
    BY <2>2, <2>3
<1>3. CASE KillAuxiliary \/ KillMiner \/ KillStatistics
  <2>1. UNCHANGED <<child, pipeclosed>>
    BY <1>3 DEF KillAuxiliary, KillMiner, KillStatistics
  <2>2. "validator1" \in signalled' => "validator1" \in signalled
    BY <1>3 DEF KillAuxiliary, KillMiner, KillStatistics, Kill
  <2>3. SignalThreadInv' /\ EvidenceInv' /\ OpenInv'
    BY <1>0, <2>1, <2>2 DEF SignalThreadInv, EvidenceInv, OpenInv
  <2>4. ForkInv' /\ WaitInv'
    BY <1>3, <2>1 DEF ForkInv, WaitInv, KillAuxiliary, KillMiner, KillStatistics
  <2>5. QED
    BY <2>3, <2>4
<1>4. CASE KillValidator
  <2>1. UNCHANGED child
    BY <1>4 DEF KillValidator
  <2>2. /\ pipeclosed' > 0 => pipeclosed > 0
        /\ HasPid("validator1") => pipeclosed > 0
    BY <1>4 DEF KillValidator, WaitForMiner
  <2>3. "validator1" \in signalled' => "validator1" \in signalled \/ pipeclosed > 0
    BY <1>4, <2>2 DEF KillValidator, Kill
  <2>4. SignalThreadInv' /\ EvidenceInv' /\ OpenInv'
    BY <1>0, <2>1, <2>2, <2>3 DEF SignalThreadInv, EvidenceInv, OpenInv
  <2>5. ForkInv' /\ WaitInv'
    BY <1>4, <2>1 DEF ForkInv, WaitInv, KillValidator
  <2>6. QED
    BY <2>4, <2>5
<1>5. CASE WaitAuxiliary \/ WaitMainChildren
  <2>1. /\ UNCHANGED <<signalled, pipeclosed>>
        /\ \A c \in Children :
             child'[c] = child[c] \/ (Ended(c) /\ child'[c] = "reaped")
    BY <1>5 DEF WaitAuxiliary, WaitMainChildren, WaitChild
  <2>2. SignalThreadInv' /\ EvidenceInv' /\ OpenInv'
    BY <1>0, <2>1 DEF SignalThreadInv, EvidenceInv, OpenInv, Ended
  <2>3. ForkInv'
    BY <1>5 DEF ForkInv, WaitAuxiliary, WaitMainChildren, WaitChild
  <2>4. \A c \in MainChildren : ~Alive(c) => ~Alive(c)'
    BY <2>1 DEF Ended
  <2>5. /\ cpc' \in {"wait_validator3", "cancel"} \/ ~Alive("miner")
        /\ cpc' \in {"wait_validator3", "cancel", "wait_validator1"} \/ ~Alive("validator1")
        /\ cpc' # "release" \/ ~Alive("statistics")
        /\ cpc' \in {"wait_validator3", "cancel", "wait_validator1", "wait_statistics",
                    "release"}
    BY <1>5 DEF WaitAuxiliary, WaitMainChildren, WaitChild, WaitReturns, HasPid, WaitInv
  <2>6. WaitInv'
    BY <2>4, <2>5 DEF WaitInv
  <2>7. QED
    BY <2>2, <2>3, <2>6
<1>6. QED
  BY <1>1, <1>2, <1>3, <1>4, <1>5 DEF ControllerStep

(* The launcher and the user touch only the additional validators.         *)
LEMMA LauncherKeeps ==
  ASSUME ShutdownInv, Others, pipeclosed' = pipeclosed, Sigint \/ LauncherStep
  PROVE  SignalThreadInv' /\ EvidenceInv' /\ OpenInv' /\ ForkInv' /\ WaitInv'
<1> USE ChildFacts DEF ShutdownInv, ShutdownTypeOK
<1>0. UNCHANGED <<mt, spc, cancelled>> /\ (ThreadsDone' <=> ThreadsDone)
  BY DEF Others, minerVars, ThreadsDone, StartRace
<1>1. \A c \in MainChildren : child'[c] = child[c]
  <2>1. CASE Sigint
    BY <2>1 DEF Sigint
  <2>2. CASE LauncherForks
    BY <2>2 DEF LauncherForks
  <2>3. CASE LauncherShrinks
    BY <2>3 DEF LauncherShrinks
  <2>4. CASE LauncherDecides \/ LauncherEnds \/ LauncherCancelled
    BY <2>4 DEF LauncherDecides, LauncherEnds, LauncherCancelled
  <2>5. QED
    BY <2>1, <2>2, <2>3, <2>4 DEF LauncherStep
<1>2. "validator1" \in signalled' => "validator1" \in signalled
  BY DEF Sigint, LauncherStep, LauncherForks, LauncherShrinks, LauncherDecides,
     LauncherEnds, LauncherCancelled, Kill, MainChildren
<1>3. cpc' = cpc \/ cpc' = "kill_aux"
  BY DEF Sigint, LauncherStep, LauncherForks, LauncherShrinks, LauncherDecides,
     LauncherEnds, LauncherCancelled, TakeSigint, controllerVars
<1>4. SignalThreadInv' /\ EvidenceInv' /\ OpenInv'
  BY <1>0, <1>1, <1>2 DEF SignalThreadInv, EvidenceInv, OpenInv, Gone, MainChildren
<1>5. ForkInv' /\ WaitInv'
  BY <1>1, <1>3 DEF ForkInv, WaitInv, Alive, MainChildren
<1>6. QED
  BY <1>4, <1>5

-----------------------------------------------------------------------------
(* A child that is not alive stays so, and the main thread of the miner    *)
(* goes from state to state in order.                                      *)
LEMMA ChildOrder ==
  ASSUME ShutdownTypeOK, ChildStep
  PROVE  /\ \A c \in Children : ~Alive(c) => ~Alive(c)'
         /\ signalled' \subseteq signalled
         /\ UNCHANGED <<cpc, lpc>>
<1> USE ChildFacts DEF ShutdownTypeOK, Alive, Exit
<1>0. UNCHANGED <<cpc, lpc>>
  BY DEF ChildStep, ParentIdle, controllerVars, launcherVars
<1> SUFFICES /\ \A c \in Children : ~Alive(c) => ~Alive(c)'
             /\ signalled' \subseteq signalled
  BY <1>0
<1>1. CASE \E c \in Children : BootFails(c)
  BY <1>1 DEF BootFails
<1>2. CASE MinerMainStep
  BY <1>2 DEF MinerMainStep, MinerOpens, MinerMasks, MinerCreatesSignalThread,
     MinerCreatesThread, MinerExits
<1>3. CASE SignalThreadStep
  BY <1>3 DEF SignalThreadStep, SignalTaken, SignalCrash, SignalPost
<1>4. CASE \E m \in Miners : ThreadStep(m)
  BY <1>4 DEF ThreadStep, ThreadStarts, ThreadWrites, ThreadEnds
<1>5. CASE \E v \in Validators : ValidatorStep(v) \/ ValidatorSignal(v)
  <2>1. PICK v \in Validators : ValidatorStep(v) \/ ValidatorSignal(v)
    BY <1>5
  <2>2. CASE ValidatorOpens(v)
    BY <2>2 DEF ValidatorOpens
  <2>3. CASE ValidatorHandles(v) \/ ValidatorReady(v)
    BY <2>3 DEF ValidatorHandles, ValidatorReady
  <2>4. CASE ValidatorReads(v) \/ ValidatorDecides(v)
    BY <2>4 DEF ValidatorReads, ValidatorDecides
  <2>5. CASE ValidatorReadsEnd(v) \/ ValidatorSignal(v)
    BY <2>5 DEF MayBeLogging, ValidatorReadsEnd, ValidatorSignal,
       ValidatorStopped, ValidatorHangs
  <2>6. QED
    BY <2>1, <2>2, <2>3, <2>4, <2>5 DEF ValidatorStep
<1>6. CASE StatisticsStep
  BY <1>6 DEF StatisticsStep, StatisticsReady, StatisticsStopped, StatisticsHangs
<1>7. QED
  BY <1>1, <1>2, <1>3, <1>4, <1>5, <1>6 DEF ChildStep

(* That the threads have ended stays true: no thread is created twice.     *)
LEMMA ThreadsStayDone ==
  ASSUME ShutdownInv, ChildStep, ThreadsDone
  PROVE  ThreadsDone'
<1> USE ChildFacts DEF ShutdownInv, ShutdownTypeOK, ThreadsDone, StartRace
<1>1. CASE \E c \in Children : BootFails(c)
  BY <1>1 DEF BootFails, minerVars
<1>2. CASE MinerMainStep
  <2>1. CASE MinerOpens \/ MinerMasks
    BY <2>1 DEF MinerOpens, MinerMasks, minerVars
  <2>2. CASE MinerCreatesSignalThread
    BY <2>2 DEF MinerCreatesSignalThread, SignalThreadInv
  <2>3. CASE \E m \in Miners : MinerCreatesThread(m)
    BY <2>3 DEF MinerCreatesThread
  <2>4. CASE MinerExits
    BY <2>4 DEF MinerExits
  <2>5. QED
    BY <1>2, <2>1, <2>2, <2>3, <2>4 DEF MinerMainStep
<1>3. CASE SignalThreadStep
  <2>1. CASE SignalTaken
    BY <2>1 DEF SignalTaken
  <2>2. CASE SignalCrash
    BY <2>2 DEF SignalCrash
  <2>3. CASE SignalPost
    BY <2>3 DEF SignalPost
  <2>4. QED
    BY <1>3, <2>1, <2>2, <2>3 DEF SignalThreadStep
<1>4. CASE \E m \in Miners : ThreadStep(m)
  BY <1>4 DEF ThreadStep, ThreadStarts, ThreadWrites, ThreadEnds
<1>5. CASE \E v \in Validators : ValidatorStep(v) \/ ValidatorSignal(v)
  BY <1>5 DEF ValidatorStep, ValidatorOpens, ValidatorHandles, ValidatorReady,
     ValidatorReads,
     ValidatorDecides, ValidatorReadsEnd, ValidatorSignal,
     ValidatorStopped, ValidatorHangs, minerVars
<1>6. CASE StatisticsStep
  BY <1>6 DEF StatisticsStep, StatisticsReady, StatisticsStopped, StatisticsHangs,
     minerVars
<1>7. QED
  BY <1>1, <1>2, <1>3, <1>4, <1>5, <1>6 DEF ChildStep

(* The signal thread, that exists once the miner process has gone past its *)
(* open().                                                                 *)
LEMMA SignalThreadKept ==
  ASSUME ShutdownInv, ChildStep
  PROVE  SignalThreadInv'
<1> USE ChildFacts DEF ShutdownInv, ShutdownTypeOK, SignalThreadInv, Exit
<1>1. CASE \E c \in Children : BootFails(c)
  BY <1>1 DEF BootFails, minerVars
<1>2. CASE MinerMainStep
  <2>1. CASE MinerOpens
    BY <2>1 DEF MinerOpens, minerVars
  <2>2. CASE MinerMasks
    BY <2>2 DEF MinerMasks, minerVars
  <2>3. CASE MinerCreatesSignalThread
    BY <2>3 DEF MinerCreatesSignalThread
  <2>4. CASE \E m \in Miners : MinerCreatesThread(m)
    BY <2>4 DEF MinerCreatesThread
  <2>5. CASE MinerExits
    BY <2>5 DEF MinerExits
  <2>6. QED
    BY <1>2, <2>1, <2>2, <2>3, <2>4, <2>5 DEF MinerMainStep
<1>3. CASE SignalThreadStep
  <2>1. CASE SignalTaken
    BY <2>1 DEF SignalTaken
  <2>2. CASE SignalCrash
    BY <2>2 DEF SignalCrash
  <2>3. CASE SignalPost
    BY <2>3 DEF SignalPost
  <2>4. QED
    BY <1>3, <2>1, <2>2, <2>3 DEF SignalThreadStep
<1>4. CASE \E m \in Miners : ThreadStep(m)
  BY <1>4 DEF ThreadStep, ThreadStarts, ThreadWrites, ThreadEnds
<1>5. CASE \E v \in Validators : ValidatorStep(v) \/ ValidatorSignal(v)
  <2>1. PICK v \in Validators : ValidatorStep(v) \/ ValidatorSignal(v)
    BY <1>5
  <2>2. v # "miner" /\ UNCHANGED minerVars
    BY <2>1 DEF ValidatorStep, ValidatorOpens, ValidatorHandles, ValidatorReady,
       ValidatorReads,
       ValidatorDecides, ValidatorReadsEnd, ValidatorSignal,
       ValidatorStopped, ValidatorHangs, MainChildren
  <2>3. \/ child'["miner"] = child["miner"]
        \/ child["miner"] = "open" /\ child'["miner"] = "opened"
    BY <2>1, <2>2 DEF ValidatorStep, ValidatorOpens, ValidatorHandles,
       ValidatorReady, ValidatorReads,
       ValidatorDecides, ValidatorReadsEnd, ValidatorSignal,
       ValidatorStopped, ValidatorHangs
  <2>4. QED
    BY <2>2, <2>3 DEF minerVars
<1>6. CASE StatisticsStep
  BY <1>6 DEF StatisticsStep, StatisticsReady, StatisticsStopped, StatisticsHangs,
     minerVars
<1>7. QED
  BY <1>1, <1>2, <1>3, <1>4, <1>5, <1>6 DEF ChildStep

(* Validator 1 is opened by the miner, or finds it open.                   *)
LEMMA OpenKept ==
  ASSUME ShutdownInv, ChildStep
  PROVE  OpenInv'
<1> USE ChildFacts DEF ShutdownInv, ShutdownTypeOK, OpenInv, Exit
<1>1. CASE \E c \in Children : BootFails(c)
  BY <1>1 DEF BootFails
<1>2. CASE MinerMainStep
  BY <1>2 DEF MinerMainStep, MinerOpens, MinerMasks, MinerCreatesSignalThread,
     MinerCreatesThread, MinerExits
<1>3. CASE SignalThreadStep
  BY <1>3 DEF SignalThreadStep, SignalTaken, SignalCrash, SignalPost
<1>4. CASE \E m \in Miners : ThreadStep(m)
  BY <1>4 DEF ThreadStep, ThreadStarts, ThreadWrites, ThreadEnds
<1>5. CASE \E v \in Validators : ValidatorStep(v) \/ ValidatorSignal(v)
  <2>1. PICK v \in Validators : ValidatorStep(v) \/ ValidatorSignal(v)
    BY <1>5
  <2>2. v # "miner" /\ v \in Children
    BY DEF MainChildren
  <2>3. CASE ValidatorOpens(v)
    BY <2>2, <2>3 DEF ValidatorOpens, PipeWriter
  <2>4. CASE ValidatorHandles(v) \/ ValidatorReady(v)
    BY <2>2, <2>4 DEF ValidatorHandles, ValidatorReady
  <2>5. CASE ValidatorReads(v) \/ ValidatorDecides(v)
    BY <2>5 DEF ValidatorReads, ValidatorDecides
  <2>6. CASE ValidatorReadsEnd(v) \/ ValidatorSignal(v)
    BY <2>2, <2>6 DEF ValidatorReadsEnd, ValidatorSignal,
       ValidatorStopped, ValidatorHangs
  <2>7. QED
    BY <2>1, <2>3, <2>4, <2>5, <2>6 DEF ValidatorStep
<1>6. CASE StatisticsStep
  BY <1>6 DEF StatisticsStep, StatisticsReady, StatisticsStopped, StatisticsHangs
<1>7. QED
  BY <1>1, <1>2, <1>3, <1>4, <1>5, <1>6 DEF ChildStep

(* The evidence that the threads have ended is made when they have: by the *)
(* post after the joins, or by the end of the miner process.               *)
LEMMA EvidenceMade ==
  ASSUME ShutdownInv, ChildStep
  PROVE  EvidenceInv'
<1> USE ChildFacts DEF ShutdownInv, ShutdownTypeOK
<1>1. ThreadsDone => ThreadsDone'
  BY ThreadsStayDone
<1>2. pipeclosed' > 0 => spc' = "ended" /\ ThreadsDone'
  <2>1. CASE SignalPost
    BY <2>1 DEF SignalPost, ThreadsJoined, SignalThreadInv, ThreadsDone, StartRace
  <2>2. CASE pipeclosed' = pipeclosed /\ (spc = "ended" => spc' = "ended")
    BY <1>1, <2>2 DEF EvidenceInv
  <2>3. SignalPost \/ (pipeclosed' = pipeclosed /\ (spc = "ended" => spc' = "ended"))
    <3>1. CASE MinerMainStep
      BY <3>1 DEF MinerMainStep, MinerOpens, MinerMasks, MinerCreatesSignalThread,
         MinerCreatesThread, MinerExits, minerVars, SignalThreadInv
    <3>2. CASE SignalThreadStep
      BY <3>2 DEF SignalThreadStep, SignalTaken, SignalCrash
    <3>3. CASE \E m \in Miners : ThreadStep(m)
      BY <3>3 DEF ThreadStep, ThreadStarts, ThreadWrites, ThreadEnds
    <3>4. CASE \E v \in Validators : ValidatorStep(v) \/ ValidatorSignal(v)
      BY <3>4 DEF ValidatorStep, ValidatorOpens, ValidatorHandles, ValidatorReady,
         ValidatorReads,
         ValidatorDecides, ValidatorReadsEnd, ValidatorSignal,
         ValidatorStopped, ValidatorHangs, minerVars
    <3>5. CASE StatisticsStep \/ \E c \in Children : BootFails(c)
      BY <3>5 DEF StatisticsStep, StatisticsReady, StatisticsStopped,
         StatisticsHangs, BootFails, minerVars
    <3>6. QED
      BY <3>1, <3>2, <3>3, <3>4, <3>5 DEF ChildStep
  <2>4. QED
    BY <2>1, <2>2, <2>3
<1>3. "validator1" \in signalled' => ThreadsDone'
  BY <1>1, ChildOrder DEF EvidenceInv
<1>4. Gone("miner")' => ThreadsDone'
  <2>1. CASE MinerExits
    BY <2>1 DEF MinerExits, ThreadsDone
  <2>2. CASE SignalCrash
    BY <2>2 DEF SignalCrash, ThreadsDone
  <2>3. CASE \E c \in Children : BootFails(c)
    BY <1>1, <2>3 DEF BootFails, Exit, Released, WaitInv, Alive, Gone, EvidenceInv
  <2>4. CASE \E v \in Validators : ValidatorStep(v) \/ ValidatorSignal(v)
    <3>1. PICK v \in Validators : ValidatorStep(v) \/ ValidatorSignal(v)
      BY <2>4
    <3>2. v # "miner"
      BY DEF MainChildren
    <3>3. Gone("miner")' => Gone("miner")
      BY <3>1, <3>2 DEF ValidatorStep, ValidatorOpens, ValidatorHandles,
         ValidatorReady, ValidatorReads,
         ValidatorDecides, ValidatorReadsEnd, ValidatorSignal,
         ValidatorStopped, ValidatorHangs, Exit, Gone
    <3>4. QED
      BY <1>1, <3>3 DEF EvidenceInv
  <2>5. CASE \/ MinerOpens \/ MinerMasks \/ MinerCreatesSignalThread
             \/ (\E m \in Miners : MinerCreatesThread(m) \/ ThreadStep(m))
             \/ SignalTaken \/ SignalPost \/ StatisticsStep
    <3>1. Gone("miner")' => Gone("miner")
      BY <2>5 DEF MinerOpens, MinerMasks, MinerCreatesSignalThread, MinerCreatesThread,
         ThreadStep, ThreadStarts, ThreadWrites, ThreadEnds, SignalTaken, SignalPost,
         StatisticsStep, StatisticsReady, StatisticsStopped, StatisticsHangs, Exit, Gone
    <3>2. QED
      BY <1>1, <3>1 DEF EvidenceInv
  <2>6. QED
    BY <2>1, <2>2, <2>3, <2>4, <2>5 DEF ChildStep, MinerMainStep, SignalThreadStep
<1>5. Gone("validator1")' => ThreadsDone'
  <2>1. CASE \E c \in Children : BootFails(c)
    BY <1>1, <2>1 DEF BootFails, Exit, Released, WaitInv, Alive, Gone, EvidenceInv
  <2>2. CASE ValidatorReadsEnd("validator1")
    BY <1>1, <2>2 DEF ValidatorReadsEnd, EndOfPipe, PipeWriter, OpenInv, EvidenceInv,
       Gone
  <2>3. CASE ValidatorStopped("validator1")
    BY <1>1, <2>3 DEF ValidatorStopped, EvidenceInv
  <2>4. CASE \E v \in Validators :
               \/ ValidatorOpens(v) \/ ValidatorHandles(v) \/ ValidatorReady(v)
               \/ ValidatorReads(v) \/ ValidatorDecides(v) \/ ValidatorHangs(v)
               \/ (v # "validator1" /\ (ValidatorReadsEnd(v) \/ ValidatorStopped(v)))
    <3>1. Gone("validator1")' => Gone("validator1")
      BY <2>4 DEF ValidatorOpens, ValidatorHandles, ValidatorReady, ValidatorReads,
         ValidatorDecides,
         ValidatorReadsEnd, ValidatorSignal,
         ValidatorStopped, ValidatorHangs, Exit, Gone
    <3>2. QED
      BY <1>1, <3>1 DEF EvidenceInv
  <2>5. CASE MinerMainStep \/ SignalThreadStep \/ StatisticsStep
             \/ \E m \in Miners : ThreadStep(m)
    <3>1. Gone("validator1")' => Gone("validator1")
      BY <2>5 DEF MinerMainStep, MinerOpens, MinerMasks, MinerCreatesSignalThread,
         MinerCreatesThread, MinerExits, SignalThreadStep, SignalTaken, SignalCrash,
         SignalPost, ThreadStep, ThreadStarts, ThreadWrites, ThreadEnds,
         StatisticsStep, StatisticsReady, StatisticsStopped, StatisticsHangs, Exit, Gone
    <3>2. QED
      BY <1>1, <3>1 DEF EvidenceInv
  <2>6. QED
    BY <2>1, <2>2, <2>3, <2>4, <2>5 DEF ChildStep, ValidatorStep, ValidatorSignal
<1>6. QED
  BY <1>2, <1>3, <1>4, <1>5 DEF EvidenceInv

(* No child is forked by a child, and none that ended runs again.          *)
LEMMA WaitsKept ==
  ASSUME ShutdownInv, ChildStep
  PROVE  ForkInv' /\ WaitInv'
<1> USE ChildFacts DEF ShutdownInv, ShutdownTypeOK
<1>1. cpc' = cpc /\ \A c \in Children : ~Alive(c) => ~Alive(c)'
  BY ChildOrder
<1>2. WaitInv'
  BY <1>1 DEF WaitInv
<1>3. \A c \in MainChildren : child[c] = "none" => child'[c] = "none"
  <2>1. CASE \E c \in Children : BootFails(c)
    BY <2>1 DEF BootFails, Exit
  <2>2. CASE MinerMainStep
    BY <2>2 DEF MinerMainStep, MinerOpens, MinerMasks, MinerCreatesSignalThread,
       MinerCreatesThread, MinerExits, Exit
  <2>3. CASE SignalTaken \/ SignalPost \/ \E m \in Miners : ThreadStep(m)
    BY <2>3 DEF SignalTaken, SignalPost, ThreadStep, ThreadStarts, ThreadWrites,
       ThreadEnds
  <2>4. CASE \E v \in Validators : ValidatorStep(v) \/ ValidatorSignal(v)
    BY <2>4 DEF ValidatorStep, ValidatorOpens, ValidatorHandles, ValidatorReady,
       ValidatorReads,
       ValidatorDecides, ValidatorReadsEnd, ValidatorSignal, ValidatorStopped,
       ValidatorHangs, MayBeLogging, Exit, Alive
  <2>5. CASE SignalCrash
    BY <2>5 DEF SignalCrash, Exit, SignalThreadInv
  <2>6. CASE StatisticsStep
    BY <2>6 DEF StatisticsStep, StatisticsReady, StatisticsStopped, StatisticsHangs,
       Exit, Alive
  <2>7. QED
    BY <2>1, <2>2, <2>3, <2>4, <2>5, <2>6 DEF ChildStep, SignalThreadStep
<1>4. ForkInv'
  BY <1>1, <1>3 DEF ForkInv, MainChildren
<1>5. QED
  BY <1>2, <1>4

-----------------------------------------------------------------------------
(* Every step keeps the invariant.                                         *)
LEMMA ShutdownInvNext ==
  ASSUME ShutdownInv, [Next]_vars
  PROVE  ShutdownInv'
<1>1. ShutdownTypeOK'
  BY ShutdownTypeNext DEF ShutdownInv
<1>2. CASE ControllerStep /\ Others
  BY <1>1, <1>2, ControllerKeeps DEF ShutdownInv
<1>3. CASE Sigint /\ Others
  BY <1>1, <1>3, LauncherKeeps DEF ShutdownInv, Sigint
<1>4. CASE LauncherStep /\ Others /\ UNCHANGED pipeclosed
  BY <1>1, <1>4, LauncherKeeps DEF ShutdownInv
<1>5. CASE ChildStep
  BY <1>1, <1>5, SignalThreadKept, EvidenceMade, OpenKept, WaitsKept DEF ShutdownInv
<1>6. CASE UNCHANGED vars
  BY <1>1, <1>6 DEF vars, controllerVars, launcherVars, minerVars, blockVars,
     ShutdownInv, SignalThreadInv, EvidenceInv, OpenInv, ForkInv, WaitInv,
     ThreadsDone, StartRace, Gone, Alive
<1>7. QED
  BY <1>2, <1>3, <1>4, <1>5, <1>6 DEF Next

(* The invariant holds in every reachable state.                           *)
LEMMA ShutdownInvHolds == Spec => []ShutdownInv
BY ShutdownInvInit, ShutdownInvNext, PTL DEF Spec

(* Every variable of the shutdown has its type.                            *)
THEOREM ShutdownTypes == Spec => []ShutdownTypeOK
<1>1. ShutdownInv => ShutdownTypeOK
  BY DEF ShutdownInv
<1>2. QED
  BY <1>1, ShutdownInvHolds, PTL

(* By the time validator 1 is gone and the reading side of the pipe with   *)
(* it, every miner thread has ended, whatever ended the validator (SIGTERM *)
(* or the end of the pipe), unless the miner process was told to end       *)
(* before its threads existed.                                             *)
THEOREM ReaderOutlives == Spec => []ReaderOutlivesWriters
<1>1. ShutdownInv => ReaderOutlivesWriters
  BY DEF ShutdownInv, EvidenceInv, ThreadsDone, ReaderOutlivesWriters,
     ReaderClosesLast
<1>2. QED
  BY <1>1, ShutdownInvHolds, PTL

(* cleanup() removes the shared objects when the miner process, validator  *)
(* 1 and the statistics, as far as they were started, have ended.          *)
THEOREM RemovedLast == Spec => []ReleasedLast
<1>1. ShutdownInv => ReleasedLast
  BY DEF ShutdownInv, WaitInv, ReleasedLast, MainChildren
<1>2. QED
  BY <1>1, ShutdownInvHolds, PTL
=============================================================================
