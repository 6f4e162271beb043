-------------------------------- MODULE Locks --------------------------------
(***************************************************************************)
(* The three semaphores used as locks (pool, ledger, log) and the paths on *)
(* which the threads of DEIChain take them, one sem_wait or sem_post per   *)
(* step; what is done in between is left to DEIChain.  log_info takes the  *)
(* lock of the log, also inside the sections of the pool and the ledger.   *)
(*                                                                         *)
(* A signal handler runs on top of what its thread was doing and takes     *)
(* locks of its own; some handlers exit, as pthread_cancel makes a thread  *)
(* do, and nobody posts what the thread holds then.                        *)
(***************************************************************************)
EXTENDS Integers, Sequences

CONSTANTS
  Threads,
  Role,      \* what each thread is
  SentTo     \* the signals that each thread may be sent, once each

Semaphores == {"pool", "ledger", "log"}

(* Roles, and the signals (or pthread_cancel) that act on them.            *)
SignalsOf == [txgen      |-> {"SIGINT"},
              miner      |-> {"cancel"},
              validator  |-> {"SIGTERM"},
              statistics |-> {"SIGTERM", "SIGUSR1"},
              controller |-> {"SIGINT", "SIGUSR1"},
              launcher   |-> {"cancel"}]

ASSUME LocksAssumption ==
  /\ Role \in [Threads -> DOMAIN SignalsOf]
  /\ DOMAIN SentTo = Threads
  /\ \A t \in Threads : SentTo[t] \subseteq SignalsOf[Role[t]]

VARIABLES
  sem,      \* value of each semaphore
  todo,     \* the operations that each thread has before it, handlers first
  held,     \* what each thread has taken and not posted
  signals,  \* signals that may still come
  exited    \* threads that have ended

vars == <<sem, todo, held, signals, exited>>

-----------------------------------------------------------------------------
(* Operations, and the paths through the code.                             *)
Wait(l) == [op |-> "wait", on |-> l]
Post(l) == [op |-> "post", on |-> l]
Exit    == [op |-> "exit", on |-> "nothing"]

Inside(l, path) == <<Wait(l)>> \o path \o <<Post(l)>>
Section(l)      == Inside(l, <<>>)

log_info == Section("log")

TxGenPaths == {Section("pool")}

MinerPaths == {Section("pool"), Section("ledger"), log_info}

(* A slip of the start: with the sem_post that is commented out in it.     *)
NemesisPostedTwice ==
  {Section("ledger"),
   <<Wait("ledger"), Post("ledger")>> \o log_info \o <<Post("ledger")>>}

(* The nemesis block, with its log when this validator creates it.         *)
NemesisPaths == {Section("ledger"), Inside("ledger", log_info)}

(* A slip of the check: a missing transaction leaves it without sem_post.  *)
CheckPoolUnposted == {Section("pool"), <<Wait("pool")>> \o log_info}

(* The pool is searched under its lock; a transaction that differs is      *)
(* logged twice, one that is missing once.                                 *)
CheckPoolPaths == {Section("pool"),
                   Inside("pool", log_info),
                   Inside("pool", log_info \o log_info)}

(* A slip of the append: the pool is locked again before the ledger is     *)
(* released, as if to put the transactions back.                           *)
CommitWithRestore ==
  {Section("ledger"), Inside("ledger", Inside("log", Section("pool")))}

CommitPaths == {Section("ledger"), Inside("ledger", log_info)}

ValidatorPaths == NemesisPaths \cup {Section("ledger"), log_info}
                    \cup CheckPoolPaths \cup CommitPaths

StatisticsPaths == {Section("ledger")}

LauncherPaths == {log_info}

(* The main thread of the controller only waits, once the system is up.    *)
PathsOf == [txgen      |-> TxGenPaths,
            miner      |-> MinerPaths,
            validator  |-> ValidatorPaths,
            statistics |-> StatisticsPaths,
            controller |-> {},
            launcher   |-> LauncherPaths]

(* dump_ledger logs the ledger under its lock.                             *)
dump_ledger == Inside("ledger", log_info)

Handlers == [txgen      |-> [SIGINT  |-> <<Exit>>],
             validator  |-> [SIGTERM |-> log_info \o <<Exit>>],
             statistics |-> [SIGTERM |-> log_info \o log_info \o <<Exit>>,
                             SIGUSR1 |-> log_info \o log_info],
             controller |-> [SIGINT  |-> log_info \o dump_ledger \o <<Exit>>,
                             SIGUSR1 |-> log_info \o dump_ledger]]

-----------------------------------------------------------------------------
Init ==
  /\ sem = [l \in Semaphores |-> 1]
  /\ todo = [t \in Threads |-> <<>>]
  /\ held = [t \in Threads |-> {}]
  /\ signals = SentTo
  /\ exited = {}

Running(t) == t \notin exited

(* The next operation of a thread that is inside a path.                   *)
At(t, op) == Running(t) /\ todo[t] # <<>> /\ Head(todo[t]).op = op

Begin(t) ==
  /\ Running(t)
  /\ todo[t] = <<>>
  /\ \E path \in PathsOf[Role[t]] : todo' = [todo EXCEPT ![t] = path]
  /\ UNCHANGED <<sem, held, signals, exited>>

(* A slip of the initial value, 2 for 1: one more may pass.                *)
OneMore(l) == sem[l] >= 0

Available(l) == sem[l] > 0

SemWait(t) ==
  /\ At(t, "wait")
  /\ LET l == Head(todo[t]).on
     IN  /\ Available(l)
         /\ sem' = [sem EXCEPT ![l] = @ - 1]
         /\ held' = [held EXCEPT ![t] = @ \cup {l}]
  /\ todo' = [todo EXCEPT ![t] = Tail(@)]
  /\ UNCHANGED <<signals, exited>>

SemPost(t) ==
  /\ At(t, "post")
  /\ LET l == Head(todo[t]).on
     IN  /\ sem' = [sem EXCEPT ![l] = @ + 1]
         /\ held' = [held EXCEPT ![t] = @ \ {l}]
  /\ todo' = [todo EXCEPT ![t] = Tail(@)]
  /\ UNCHANGED <<signals, exited>>

Ends(t) ==
  /\ exited' = exited \cup {t}
  /\ todo' = [todo EXCEPT ![t] = <<>>]
  /\ UNCHANGED <<sem, held>>

ThreadExits(t) ==
  /\ At(t, "exit")
  /\ Ends(t)
  /\ UNCHANGED signals

(* A handler interrupts its thread wherever it is, a sem_wait included,    *)
(* which goes on when the handler returns.                                 *)
Deliver(t, s) ==
  /\ Running(t)
  /\ s \in signals[t] \ {"cancel"}
  /\ signals' = [signals EXCEPT ![t] = @ \ {s}]
  /\ todo' = [todo EXCEPT ![t] = Handlers[Role[t]][s] \o @]
  /\ UNCHANGED <<sem, held, exited>>

(* Deferred cancellation: at a sem_wait, where a thread waits for work, or *)
(* in the writes of log_info, with the lock of the log taken.              *)
CancellationPoint(t) ==
  \/ todo[t] = <<>>
  \/ At(t, "wait")
  \/ At(t, "post") /\ Head(todo[t]).on = "log"

Cancel(t) ==
  /\ Running(t)
  /\ "cancel" \in signals[t]
  /\ CancellationPoint(t)
  /\ Ends(t)
  /\ signals' = [signals EXCEPT ![t] = {}]

ThreadNext(t) ==
  \/ Begin(t) \/ SemWait(t) \/ SemPost(t) \/ ThreadExits(t)
  \/ \E s \in signals[t] : Deliver(t, s)
  \/ Cancel(t)

Next == \E t \in Threads : ThreadNext(t)

Spec == Init /\ [][Next]_vars

-----------------------------------------------------------------------------
Op == [op : {"wait", "post"}, on : Semaphores] \cup {Exit}

LocksTypeOK ==
  /\ sem \in [Semaphores -> Nat]
  /\ todo \in [Threads -> Seq(Op)]
  /\ held \in [Threads -> SUBSET Semaphores]
  /\ DOMAIN signals = Threads
  /\ exited \in SUBSET Threads

(* sem_transactions_pool, sem_ledger and sem_log_file guarantee mutual     *)
(* exclusion: on no path, interrupted by handlers or not, does a thread    *)
(* post what it does not hold, so that two are never inside.               *)
MutualExclusion ==
  \A l \in Semaphores :
     /\ \A t, u \in Threads : l \in held[t] /\ l \in held[u] => t = u
     /\ sem[l] = IF \E t \in Threads : l \in held[t] THEN 0 ELSE 1

Waiting(t, l) == At(t, "wait") /\ Head(todo[t]).on = l

(* The pool and the ledger come before the log, and a thread takes at most *)
(* one of them.                                                            *)
Before(k, l) == k # "log" /\ l = "log"

Interrupted(t) == signals[t] # SentTo[t]

(* Locks are taken in an order, so that threads never wait for each other  *)
(* in a circle; only a handler can wait for what its own thread holds.     *)
LockOrder ==
  \A t \in Threads, k, l \in Semaphores :
     Waiting(t, l) /\ k \in held[t] =>
       Before(k, l) \/ (k = l /\ Interrupted(t))

SelfWait(t) == \E l \in held[t] : Waiting(t, l)

Abandoned == UNION {held[t] : t \in exited}

Blocked(t) == \E l \in Semaphores : Waiting(t, l) /\ sem[l] = 0

(* A circle of waits, or a lost post, would block threads for ever.  Only  *)
(* a signal does: when every thread inside a path is blocked, a thread     *)
(* that ended holds a lock, or one waits for itself in a handler.          *)
BlockedOnlyBySignal ==
  (\E t \in Threads : Blocked(t)) =>
     \/ Abandoned # {}
     \/ \E t \in Threads : SelfWait(t) /\ Interrupted(t)
     \/ \E t \in Threads : Running(t) /\ todo[t] # <<>> /\ ~Blocked(t)

(* SIGTERM is handled so that the process ends correctly: it leaves no     *)
(* lock taken.                                                             *)
NothingAbandoned == Abandoned = {}

(* Signals are blocked in a signal handler: it does not run on top of      *)
(* another one that holds what it waits for.                               *)
NoSelfWait == \A t \in Threads : ~SelfWait(t)
=============================================================================
