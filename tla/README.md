# DEIChain: TLA+ specifications, model checking and proofs

DEIChain (`src/README.md`) is a simulation of a blockchain with processes and
threads that share memory, semaphores, a named pipe and a message queue. These
modules model its concurrent core and its proof of work, check them with TLC on
small instances, and prove with TLAPS what should hold at any size.

Paths below are relative to the repository: `src/` holds the C files, and
`include/` the headers.

## 1. The system

| Component | State | Operations | Meets the others through |
| --- | --- | --- | --- |
| Controller (`src/Controller.c`) | configuration, PIDs of the children | reads `config.cfg`, creates the IPC objects, forks, handles SIGINT and SIGUSR1, waits, removes everything | signals, IPC objects |
| Launcher thread (`validator_launcher`) | `validators[2]` | once a second: adds validators at 60% and 80% of the pool, ends them under 40%, ends the simulation at a full ledger | unlocked reads of pool and ledger, `fork`, SIGTERM, `waitpid` |
| Transaction generators (`src/txGen.c`) | `tx_number`, `last_signal_count` | put transactions in the pool, wake the miners | pool, `sem_minerwork` |
| Miner threads (`src/Miner.c`) | selected transactions, block, `block_number` | select transactions, read the last hash, do the proof of work, write the block | pool, ledger, `sem_minerwork`, pipe |
| Validators (`src/Validator.c`), 1 to 3 | block in hand | nemesis block, checks, removal from the pool with aging, append, report | pipe, pool, ledger, queue, SIGTERM |
| Statistics (`src/Statistics.c`) | counters per miner and totals | receives messages, prints | queue, ledger (for the mean time) |
| Proof of work (`src/PoW/pow.c`) | nonce, operations | `proof_of_work`, `verify_nonce`, `check_difficulty` | called by miners and validators |
| Event log (`log_info` in each process) | `DEIChain_log.txt` | writes a line under `sem_log_file` | `sem_log_file` |
| Interfaces (`src/SHMManagement.c`) | none | map the fields of a segment to pointers | - |

What makes each component correct:

- **Pool**: `count` is the number of filled slots whoever changes them; a
  transaction is in one slot at most; aging pays and orders fairly; a
  transaction leaves only into the ledger.
- **Miners**: block ids are unique; the transactions of a block are distinct;
  a full ledger stops mining; a signal or the timeout wakes a thread.
- **Validators and ledger**: the ledger is a chain that only grows and stays
  within its capacity however many validators run; no transaction is
  committed twice; a block is refused when the ledger has moved on.
- **Statistics**: a block is counted once, and credits are what the ledger
  holds.
- **Launcher and signals**: a validator can be added or ended at any time
  without harm to the ledger.
- **Proof of work**: the nonce found is accepted by `verify_nonce`, and the
  search gives up only when there is none.
- **Pipe**: a block that is written is read once, whole and in order.
- **Locks**: the semaphores exclude, are taken in one order, and are posted by
  whoever took them.
- **Shutdown**: every process ends, the pipe is closed by the writers first,
  the shared objects are removed last.

What is hard to test: the gap between the two critical sections of a validator
(pool, then ledger) when other validators run in it; the hash that a miner or
a validator read and that has been replaced since; the queue that is full; the
SIGTERM between any two steps, or inside a critical section; the semaphore that
several generators read and post, and its posts that run out; the capacity of
the ledger, which the append does not test; the signals sent to children that
do not handle them yet; the order in which seven kinds of threads end; a write
that the kernel may cut. Each is a hazard of `PROJECT.json`, with the properties
that cover it.

## 2. The modules

```
SharedMemory ----+-- TxGen ------+
                 +-- Miner ------+
                 +-- Validator --+-- Launcher --+-- DEIChain --+-- MCDEIChain
                 +-- Statistics -+                             +-- Progress ---- MCProgress
                                                               +-- Refinement -- MCRefinement
                                       Chain (INSTANCE) -------'

Shutdown -------- MCShutdown           ValidationPipe -- MCValidationPipe
Locks ----------- MCLocks              PoW ------------- MCPoW

NaturalLemmas -- DEIChainProofs -- PoolProofs -- CreditsProofs
NaturalLemmas -- PoWProofs       LocksProofs     ShutdownProofs     PipeProofs
```

Four views of one program: **DEIChain** says what the processes compute, with
each critical section and each block in the pipe as one step; **Locks** and
**ValidationPipe** open these steps and say when it is right to take them as
one; **Shutdown** has the life of the processes, with blocks only counted. A
semaphore that a signal or a cancellation leaves taken, as Locks shows, makes
other threads wait for ever: **Progress** and **Shutdown** have that too, since
what they say is that something ends.

**SharedMemory** declares the constants, the shared variables and the
initial state (`main` of the controller up to the first `fork`). A slot of the
pool is `Free` or a pending transaction: the `filled` flag of the code. A
transaction keeps its id, a pair of its generator and its number as in
`TX-<pid>-<number>`, and its reward; value and timestamp never change once it
is in the pool and are left out. A block keeps its id (`BLOCK-<thread>-<number>`),
the hash it extends and its transactions. `compute_sha256` is taken to be
injective on the blocks that exist; since ids of blocks are unique, which
`BlocksUnique` checks, the id stands for the hash.

**TxGen, Miner, Validator, Statistics** have one action for each critical
section or other step that the rest of the system can tell from its neighbours:

| Action | Code |
| --- | --- |
| `TxGenAdd`, `TxGenPoolFull` | the critical section of the loop, `txGen.c:235-298`, with the decision to signal |
| `TxGenGetValue`, `TxGenPost` | `sem_getvalue` and each `sem_post`, `txGen.c:300-320` |
| `MinerWake` | `sem_timedwait`, posted or timed out, `Miner.c:333-337` |
| `MinerCheck` | the two reads before the work, `Miner.c:361-372` |
| `MinerSelect` | the selection under the lock of the pool, `Miner.c:382-426` |
| `MinerReadPrevious` | the last hash under the lock of the ledger, `Miner.c:428-455` |
| `MinerSubmit` | proof of work and write, `Miner.c:457-509` |
| `ValidatorStart`, `ValidatorNemesis` | `Validator.c:260-393`; the first ends where SIGTERM is handled |
| `ValidatorRead`, `ValidatorCheckHash` | `Validator.c:397-475` |
| `ValidatorCheckPool` | check, removal and aging in one critical section, `Validator.c:493-571` |
| `ValidatorCommit` | double check and append, `Validator.c:618-653` |
| `ValidatorReport`, `ValidatorReject` | the messages, `Validator.c:575-609` and `655-697` |
| `ValidatorSigterm` | the handler, `Validator.c:229-238` |
| `StatisticsReceive` | `Statistics.c:301-350` |

`sem_transactions_pool` and `sem_ledger` do not appear: no process holds both,
so that what one does between `sem_wait` and `sem_post` is one step. **Locks**
shows that the semaphores exclude, and what happens to a process that is ended
while it holds one.

**Launcher** adds `validator_launcher`. `validators[i]` of the code is the
state of the child in the eyes of the controller: `"off"` until it is forked,
`"zombie"` from its exit to the `waitpid` that reaps it. The occupancies are
compared as the code's floats compare: `0.8f > 0.8` holds, so that validator 3
starts at 80% and not above it.

**DEIChain** composes them: a step of the system is a step of one process. It
holds the properties; `SumTo` is the sum of a sequence in them, as a recursive
function that proofs can unfold. **MCDEIChain** gives the constants values for TLC, and
symmetries and views.

**PoW** models `proof_of_work` as a miner thread runs it, with the retry of
`Miner.c:459-464`. A hash is a sequence of hexadecimal digits, and the hashes of a
block under each nonce are arbitrary: every search is explored. `MCPoW` gives
seven-digit hashes on both sides of each threshold.

**Progress** is DEIChain with fairness and the properties of section 3 about
what happens at last. `stuck` is the set of semaphores that are taken and that
nobody will post, `hung` that of the validators whose handler waits for the log
that their own thread holds. A thread takes its step of DEIChain when none of the
semaphores that the step needs (`TxGenNeeds`, `MinerNeeds`, `ValidatorNeeds`,
`StatisticsNeeds`, the log for the launcher) is stuck. Every step of Progress is
one of DEIChain or leaves its variables as they are.

| Action of Progress | Code |
| --- | --- |
| `TxGenSigint` | a user ends a generator inside its critical section (`txGen.c:76-84`) |
| `ValidatorStopped` | the handler logs and exits; the pool or the ledger may stay taken (`Validator.c:229-238`) |
| `ValidatorHangs` | the handler interrupts `log_info` of its own thread: it waits at `Validator.c:233`, with the log taken |
| `TxGenGoesOn` ... `StatisticsGoesOn` | the steps of DEIChain, SIGTERM left to the two above |

**Chain** is what DEIChain promises of a transaction: issued once, pending, taken
by a validator together with the others of a block, then committed as the next
block or lost with them. **Refinement** gives the mapping: `pending` are the ids
in the pool, `taken[v]` those of the block in the hands of a validator between
its two critical sections, `chain` the ids of each block of the ledger. Chain has
the loss, because the code has it (section 5).

**Shutdown** has the forks of `main` and their failures, the start of each child
up to its handler of SIGTERM, the opening of the two ends of the pipe, the
launcher with its forks, `cleanup()` statement by statement where it signals or
waits, the signal handling thread of the miner process, cancellation and joins,
`sem_pipeclosed`, and the exits. A child that has not installed its handler
ignores SIGTERM, as it was forked; the miner process blocks it instead. `stuck`
is as in Progress: a step that takes a semaphore or logs waits while it is
stuck (`Takes`, `Logs`), and what ends or interrupts a thread may leave stuck what
the thread holds there (`MayLeave`, `Sections`). A child is `"hung"` when its
handler waits for what its own thread holds. `Sigint` may also reach additional validators, since they are forked after the controller
has installed its handlers; their copy of `cleanup()` signals the other
additional validator, cancels their own thread and ends them, which is modelled
by their end.

| Action of Shutdown | Code |
| --- | --- |
| `ForkMiner` ... `InstallHandlers`, `JoinLauncher` | `Controller.c:946-1012` |
| `Sigint`, `TakeSigint` | `sigint`, `Controller.c:579-592`, in the main thread |
| `KillAuxiliary` ... `Release` | `cleanup`, `Controller.c:252-578`; each logs, `Release` takes the ledger (387) |
| `LauncherDecides` ... `LauncherCancelled` | `Controller.c:603-737`, at any occupancy |
| `MinerMasks` ... `MinerExits`, `SignalTaken`, `SignalPost` | `Miner.c:529-681`, `253-298`; the post comes after logs |
| `ThreadStarts`, `ThreadWrites`, `ThreadEnds` | `Miner.c:300-521`; cancelled in `log_info` a thread leaves the log taken |
| `ValidatorOpens` ... `ValidatorReadsEnd` | `Validator.c:263-653` |
| `ValidatorStopped`, `ValidatorHangs` | `Validator.c:229-238`, which exits or waits for its own thread |
| `StatisticsStopped`, `StatisticsHangs` | `Statistics.c:193-213`, the second out of the handler of SIGUSR1 |

**Locks** has the three semaphores used as locks and one `sem_wait` or `sem_post`
per step. A path of the code (`PathsOf`) is the sequence of its operations on
them; a signal handler is put on top of what its thread had before it, wherever
that is; `Exit` and cancellation drop the rest, and what was held stays held.

**ValidationPipe** has the pipe in bytes: the frame that a miner writes, with the
sizes of the packed structures of `Controller.h`, `write()` in one piece up to
`PIPE_BUF` and in as many as it takes above it, `read()` of what there is, and
the checks of the validator on the size. `PIPE_SIZE` is what the kernel gives:
65536 bytes by default, 8192 under memory pressure (two pages).

Operators such as `AnyPrevious` or `NoTimeout`, each under a comment that calls
it a slip, are not part of the model: they are the plausible mistakes that the
properties are tried against (`PROJECT.json`, "mutants").

## 3. Properties

In **DEIChain**:

- `TypeOK`: types, and where a process holds a block or a selection.
- `PoolCountExact`: `count` against the filled slots, also when a block names
  a transaction twice.
- `TransactionsCommittedOnce`, `ChainLinked`, `LedgerAppendOnly`,
  `LedgerWithinCapacity`: the ledger, for any interleaving of validators.
- `BlocksUnique`: an id is never used for two blocks, nor comes back.
- `AgingFair`: reward as a function of age, and age as a function of order.
- `NoTransactionLost`: pending, being committed, or committed. It holds with
  one validator that is not stopped, and fails with two.
- `MinerworkBounded`: overshoot of the wake-up semaphore, which several
  generators read and post.
- `CreditsMatchLedger`, `BlocksAccounted`: exact accounting while no message
  is lost and no validator is stopped; `CreditsBackedByLedger`: what remains
  of it when both happen.
- `DistinctTransactionsInBlock`, `BlocksInChainCounted`,
  `BlocksProcessedCounted`: what comments and documentation say and the code
  does not do (section 5).

In **Progress**:

- `MiningGoesOn`: while the pool has enough transactions and the ledger room,
  some thread mines again, also when the posts of `sem_minerwork` were used up by
  blocks that were rejected. It is the timeout of `sem_timedwait` that does it.
  It is not claimed once a signal has left a semaphore taken (`stuck`): then
  miners may wait for it for ever.
- `LowLoadReleases`: when the occupancy stays low the additional validators end
  and are reaped. A SIGTERM that comes too early is lost, and sent again; a
  validator that ended too late for one phase of low occupancy is reaped in the
  next; one that waits for a pool or a ledger left taken is ended too. The
  exception is a handler that waits for its own thread (`hung`): the log is then
  taken, and the launcher waits for it.
- `FullPoolMined`, `HighLoadServed`: what the code does not do (section 5).

In **Refinement**, `ImplementsChain`: every step of DEIChain is a step of Chain
or none.

In **Shutdown**:

- `ReaderOutlivesWriters`: validator 1 is gone only when the miner threads are,
  which takes the joins before the post, the wait of the controller and the
  cancellation that a blocked `write()` honours.
- `ReleasedLast`: the shared objects are removed after the miner process,
  validator 1 and the statistics have been awaited, also when a fork failed and
  `cleanup()` runs early. It says nothing of the additional validators: one that
  the launcher forks too late still runs, and uses them, after the removal
  (`orphan` in section 5).
- `ShutdownCompletes`: `cleanup()` comes to its end. Its exceptions are what the
  code does not provide for: a SIGTERM that was taken before the handler was in
  place or a validator that was forked too late (`Missed`), a miner process that
  took it before its threads existed (`StartRace`), and a ledger or a log that a
  signal or a cancellation left taken (`NeededByCleanup`): the handlers of the
  children (`Validator.c:233`, `Statistics.c:197`), the thread that posts
  `sem_pipeclosed` (`Miner.c:276-287`) and `cleanup()` itself (`Controller.c:387`)
  wait for these. Each exception is needed: without it TLC finds the shutdown
  that hangs. A pool that was left taken is no exception: threads that wait
  for it are cancelled or ended all the same.
- `ReaderClosesLast`, `PipeDrained`, `NoValidatorLeft`, `ShutdownEnds`: the same
  without the exceptions; the code does not do it (section 5).

In **Locks**: `MutualExclusion`; `LockOrder`, the log after the pool or the
ledger, never these two together, and only an interrupted thread waits for what
it holds itself; `BlockedOnlyBySignal`, threads that wait can go on unless a
thread that a signal ended, or one interrupted in its own critical section, has
what they wait for. `NothingAbandoned` and `NoSelfWait` are not true of the code.

In **ValidationPipe**: `ReadWhole`, the validators receive between them the
frames that were written, once, whole and in order; `NoReaderBreaks`, no
validator takes a good frame for an error and leaves its loop; `EventuallyRead`.

In **PoW**: `SmallestNonce`, `GivesUpOnlyWhenNone`, `DifficultyIsThreshold`
(the comments `0000[0-b]`, `00000`, `00000[0-b]` read as numeric thresholds) and
`SearchEnds`.

## 4. The runs

| Run | Instance | Shows |
| --- | --- | --- |
| `single_validator` | 2 generators of 2 transactions, 1 miner of 2 blocks of 2 transactions, 1 validator, pool of 2, queue of 2 | pool, count, aging and ids are consistent, no transaction is lost, the statistics agree with the ledger, the posts of two generators are bounded |
| `ledger_race` | 1 generator, 2 miners, 2 validators, ledger of 2 blocks, queue of 1, SIGTERM | the capacity holds without a test in the append, credits never exceed the ledger |
| `scaling` | 1 miner of 2 blocks, validators 1 to 3, launcher, pool of 2, ledger of 3 | the chain under every interleaving of three validators and SIGTERM, and the refinement of Chain |
| `progress` | 1 generator of 2 transactions, 1 miner of 2 blocks, 2 validators, pool of 1, ledger of 4, semaphores left taken, fairness | mining goes on, additional validators are released |
| `shutdown` | 1 miner thread, 1 additional validator, pipe of 1, 2 blocks, semaphores left taken, fairness | order of the end, and that it comes |
| `locks` | a miner, a validator, the statistics, the controller; every signal | exclusion, order, who can block |
| `pipe_frames` | 49 transactions per block (4069 bytes), 2 miners of 2 blocks, 2 validators, pipe of 8192 bytes, fairness | framing up to `PIPE_BUF` |
| `pow` | 3 nonces, 7 sample hashes, 2 transactions, rewards 1 to 3 | the search |
| `duplicates`, `lost_transactions`, `pipe_lost`, `pipe_long_block` | as needed | the findings of section 5 |

Bounds. `MaxTx` and `MaxBlockNumber` bound what a generator produces and what a
miner starts; they stop the threads, and so does a full ledger, which is why
`CHECK_DEADLOCK FALSE` is in every configuration of DEIChain (in the program it
is the shutdown that ends the waiting). Two blocks
from one miner in a pipe are enough for a stale block, since the second may be
mined before the first is validated; two validators are enough for a race
between the two comparisons and three are what the code allows; a pool of two
or three slots passes all three thresholds of the launcher; a ledger of two or
three blocks is filled. `AGING_PERIOD` is 2 instead of 50, so that a period ends
within a run.

In `single_validator` two generators read `sem_minerwork` at 0 and both post for
the one miner, so that it reaches 2: the bound is met, and the overshoot is real.
That it is no worse with several miners, when rounds of several posts mix, is the
theorem `PostsBounded`. The pool has two slots: a block that repeats a transaction
leaves the other one to age.

In `progress` a pool of one is full with one transaction and empty without, so
that the occupancy goes from high to low and back: two transactions give two
phases of each, and a ledger of four, with the nemesis block and two others, is
not full after them. So validator 2 can be sent SIGTERM while it boots and again later,
and can end after the last poll of the first low phase, to be reaped in the
second; both were seen to happen, by their negations as invariants, in states
from which the pool stays empty.

In Shutdown two blocks over a pipe of one give a thread that waits in `write()`,
or for a semaphore, when it is cancelled. `shutdown_threads.cfg`, which is not
among the runs, has two threads: TLC checks its three invariants in half a minute
over 1.6 million states up to symmetry, too many for the liveness property. For
any number of threads they are theorems. One additional validator shows
everything that the launcher and `cleanup()` can do to each other, and the second
has the same code. The system stops when it is shut down, so deadlock is not
checked; that it does not stop before is `ShutdownCompletes`. In Locks the four
threads have, between them, every lock and every pair of locks that is nested,
a handler that exits, one that returns, one of each on the same thread, and a
cancellation; a generator and the launcher only add paths that a validator and
a miner have as well. Blocked threads are what signals lead to, so deadlock is the
property `BlockedOnlyBySignal` instead. In ValidationPipe two frames of 4069
bytes fill the smallest pipe.

Views. `CoreView` leaves out the queue, the counters of the statistics and
`last_signal_count`: no step of another process depends on the first two, and
`ShouldSignal` never depends on the third, because a pool that is not full is
one that the generator adds to, and `current_count = size` otherwise. `scaling`
uses it; `single_validator` and `ledger_race`, which look at the statistics,
use `StatisticsView`, which keeps queue and counters. Symmetry is over miners and
generators, which no definition tells apart. Runs with liveness use neither.

## 5. Findings

Each is a run that expects a violation.

1. `duplicates`: the miner's `selected_bitmap` is never set
   (`Miner.c:387-416`). A block may repeat a transaction, the validator finds
   each copy in the pool, and the miner is credited for each.
2. `lost_transactions`: a block that fails the double check
   (`Validator.c:621-628`) has already taken its transactions out of the pool.
3. `pipe_lost`: the controller waits for `sem_pipeclosed` "sem perda de dados"
   (`Controller.c:326`), but the post says that the writers have ended, not that
   what they wrote was read; SIGTERM then ends validator 1 with blocks in the pipe.
4. `pipe_long_block`: from 50 transactions per block on a block is longer than
   `PIPE_BUF`, its write is not atomic, and a validator that reads the first
   part leaves its loop (`Validator.c:429-435`). `README.md:41` claims atomic
   reads and writes.

Further counterexamples. These configurations are kept for the reader and are
not among the runs; TLC finds each property violated within seconds
(`tlc -config X.cfg M`).

| Configuration | Module | Property | What happens |
| --- | --- | --- | --- |
| `queue_full` | MCDEIChain | `BlocksInChainCounted` | `blocks_in_chain` misses a message that the non-blocking `mq_send` dropped (`Validator.c:682`) |
| `processed_total` | MCDEIChain | `BlocksProcessedCounted` | the rejection of the double check reports nothing (`Validator.c:628`) |
| `config_stall` | MCProgress | `FullPoolMined` | with `TRANSACTIONS_PER_BLOCK` above the pool size, which `Controller.c:759-780` lets pass, nothing is ever mined |
| `zombie_slot` | MCProgress | `HighLoadServed` | a validator that ended and was not reaped while the occupancy was low keeps its slot as long as it is high (`Controller.c:634-729`) |
| `shutdown_hang` | MCShutdown | `ShutdownEnds` | SIGTERM reaches children that still ignore it; the controller waits for ever |
| `reader_first` | MCShutdown | `ReaderClosesLast` | the signal thread takes SIGTERM before the miner threads exist (`Miner.c:656-674`), joins nothing and posts; the threads created after that write on |
| `orphan` | MCShutdown | `NoValidatorLeft` | the launcher forks after `cleanup()` has waited for the additional validators and before it is cancelled (`Controller.c:284-304`) |
| `lock_abandoned` | MCLocks | `NothingAbandoned` | SIGTERM ends a validator inside a critical section; nobody posts the semaphore |
| `handler_deadlock` | MCLocks | `NoSelfWait` | SIGINT interrupts the handler of SIGUSR1, which holds `sem_ledger` or `sem_log_file`, and waits for it in the same thread |

## 6. Fairness and proofs

Fairness is weak, per thread, and only where the thread does not depend on a user:

- `FairPoWSpec`: a thread inside `proof_of_work` computes the next hash. A new
  round after a failure is not assumed.
- `Progress!FairSpec`: each miner thread, validator, the launcher and the
  statistics take their next step if they can go on taking it, and a pending
  SIGTERM is delivered. `sem_timedwait` and `sleep` return by themselves. A
  `read`, a `write` or a `sem_wait` is a guard: nothing is assumed of a thread
  while the pipe is empty or full or while a semaphore that it needs is stuck,
  the handler of SIGTERM included. A semaphore that is not stuck is posted by
  a thread that is in a critical section, all of which are short, and is
  obtained at last. Nothing is assumed of the generators, which users start and
  end.
- `Shutdown!FairSpec`: the same of the main threads, the launcher, the signal
  thread, the miner threads, validators and statistics. They may wait without
  end for a child, for `sem_pipeclosed`, for the other end of the pipe or for a
  semaphore that is stuck. SIGINT is not assumed, and `ShutdownCompletes` starts
  where `cleanup()` does.
- `ValidationPipe!FairSpec`: writers and readers go on; nobody need be cancelled
  or stopped.

### What is proved

| Theorem | Property | For every |
| --- | --- | --- |
| `DEIChainProofs!TypeCorrect` | `TypeOK` | configuration |
| `DEIChainProofs!PostsBounded` | `MinerworkBounded` | configuration |
| `DEIChainProofs!ChainIsLinked` | `ChainLinked` | configuration |
| `DEIChainProofs!CapacityRespected` | `LedgerWithinCapacity` | configuration |
| `DEIChainProofs!IdsAreUnique` | `BlocksUnique` | configuration |
| `DEIChainProofs!LedgerGrows` | `LedgerAppendOnly` | configuration |
| `PoolProofs!CountIsExact` | `PoolCountExact` | configuration |
| `PoolProofs!CommittedOnce` | `TransactionsCommittedOnce` | configuration |
| `PoolProofs!AgingIsFair` | `AgingFair` | configuration |
| `PoolProofs!LostOnlyWithBlock` | `NoTransactionLost` | configuration, in behaviours that satisfy `[][KeepsTaken]_vars` |
| `PoolProofs!NothingLostAlone` | `NoTransactionLost` | configuration with one validator |
| `PoolProofs!ChainImplemented` | `ImplementsChain` | configuration |
| `CreditsProofs!CreditsBacked` | `CreditsBackedByLedger` | configuration |
| `CreditsProofs!CountedAtMostOnce` | `CountedOnce` (no block is counted twice) | configuration |
| `CreditsProofs!CreditsExact` | `CreditsMatchLedger` | configuration, in behaviours that satisfy `[][BlocksAnswered]_vars` |
| `CreditsProofs!BlocksAllAccounted` | `BlocksAccounted` | the same |
| `CreditsProofs!ExactAlone` | `CreditsMatchLedger`, `BlocksAccounted` | configuration with one validator, while the queue has room |
| `ShutdownProofs!ShutdownTypes` | `ShutdownTypeOK` | set of miner threads and of additional validators, size of pipe and ledger |
| `ShutdownProofs!ReaderOutlives` | `ReaderOutlivesWriters` | the same |
| `ShutdownProofs!RemovedLast` | `ReleasedLast` | the same |
| `LocksProofs!LocksExclude` | `MutualExclusion` | set of threads, roles and signals |
| `LocksProofs!LocksTypes` | `LocksTypeOK` | the same |
| `LocksProofs!LocksInOrder` | `LockOrder` | the same |
| `LocksProofs!OnlySignalsBlock` | `BlockedOnlyBySignal` | the same |
| `PipeProofs!PipeTypes` | `PipeTypeOK` | set of threads and of validators, size of pipe and block, with `FrameFits` |
| `PipeProofs!ReadsAreWhole` | `ReadWhole` | the same |
| `PipeProofs!ReadersStay` | `NoReaderBreaks` | the same |
| `PoWProofs!SearchTypes` | `PoWTypeOK` | limit, set of hashes, size of block |
| `PoWProofs!FoundIsSmallest` | `SmallestNonce` | limit, set of hashes, size of block |
| `PoWProofs!ErrorMeansNone` | `GivesUpOnlyWhenNone` | limit, set of hashes, size of block |
| `PoWProofs!DifficultyMonotonic` | a hash accepted for a reward is accepted for a smaller one | hash and rewards |
| `PoWProofs!DifficultyMeansThreshold` | `DifficultyIsThreshold` | the same as `SearchTypes`, hashes of six digits or more |

A configuration is any number of generators and miners, one to three
validators, and any sizes of pool, block, ledger, pipe and queue. The
assumptions are `ConfigAssumption` (the checks of `main` on `config.cfg`),
`SystemAssumption`, `NullAssumption` (the markers for "none" are no values of
the program), `TxGenAssumption`, `MinerAssumption`, `PoWAssumption`,
`ShutdownAssumption`, `LocksAssumption` and `PipeAssumption`; TLC
evaluates each of them on the instances. Some theorems have a hypothesis of
their own, because the code does not give more:

- `KeepsTaken`: no validator drops a block whose transactions it has taken.
  It is the second finding of section 5 that it may.
- `BlocksAnswered`: a validator lets go of a block only with a message in the
  queue. A SIGTERM with a block in hand, a queue that is full and the second
  comparison of the hash break it. With one validator only the queue can
  (`ExactAlone`), which `QueueHasRoom` excludes.
- `FrameFits`: a block is at most `PIPE_BUF` long, 49 transactions. Above it
  `ReadWhole` is false (`pipe_long_block`).
- Six digits: `check_difficulty` reads six; a SHA-256 hash has 64.

**Types.** `TypeOK` is inductive. The one part with substance is that the
recursive sum in `EarnedAmount` is a number, which follows from the existence
and uniqueness of its partial sums by the least counterexample
(`NaturalLemmas`).

**Posts** (`PostsInv`). A generator posts what it found missing when it read the
value, whatever others have posted since, so `MinerworkBounded` is not inductive.
What is: the value plus all that the generators still owe (`Owed`, a set of
pairs, one for each post to come) is at most a round per generator. A
generator that reads the value owes nothing at that time, so that the value and
its own new debt make one round and the others owe at most one each.

**Ledger** (`LedgerInv`). `ChainLinked` alone is inductive as long as an append
lands at `ledger_count`, inside the array; nothing in `ValidatorCommit` says so,
since it tests only the previous hash. The argument is global. A
block that extends the ledger has the hash of its last block as its previous
hash. `HashesKnown`: the previous hash of every block in a miner, the pipe
or a validator was read from a block that was not the last of a full ledger
(the test of `MinerReadPrevious`, under the same lock), and such a block stays
where it is. `IdsDistinct`: no two blocks of the ledger have the same id, so the
two are the same position, and the ledger is not full (`AppendFits`).
`IdsDistinct` needs in turn that a block is in one place at a time, in its miner,
the pipe, one validator or the ledger, and that the counter of each miner
thread is ahead of every id it has sent (`IdsKnown`, `Submitted`). `LedgerShape`
adds that no validator holds a block before the nemesis block exists, so
that an additional validator cannot put a second one over a chain.

**Pool** (`PoolInv`, over `LedgerInv`). `TransactionsCommittedOnce` says
nothing of a validator between its two critical sections, where the
transactions of a block are in neither the pool nor the ledger. The
invariant names these validators (`Taking`) and says that the ids in the slots,
in the hands of each of them and in each block of the ledger are pairwise
disjoint. `TransactionsInPool` gives that what a validator takes was in the pool,
hence nowhere else; the removal under the same lock, that it is no longer there.
`TransactionsIssued` makes the id of a new transaction new: no place holds a
number that its generator has not reached. `PoolCountExact` is kept because both
writers change the slots and the count in one critical section; it is a
statement about sets, so a block that repeats a transaction removes one
slot and counts one.

**Aging.** `AgingFair` is inductive over `PoolInv`: a new transaction has no age,
and a number above those of all the pending ones of its generator
(`TransactionsIssued`); an accepted block ages all that stay by one. The reward
follows from `StartedPeriods`, which says that the test of the remainder in
`RaisedReward` counts the quotient rounded up.

**Losses** (`AllKept`). Every id below the number of its generator is in the pool,
with a validator between its critical sections or in the ledger. All steps
keep it but those that `KeepsTaken` excludes. With one validator none is excluded
(`SingleInv`): nobody is sent SIGTERM, and the hash that the validator compared
before the removal is still the last one at the append.

**Credits** (`CreditsInv`, over `LedgerInv`). The sum of the credits says
nothing of which block was paid, so the invariant says that there is a set of
blocks of the ledger, none of them waiting for its report, whose rewards are
what the statistics have credited and the queue still holds (`PaidFor`). A
report adds the block that its validator appended, which was not in the set
because each validator reports its own position (`ReportsKnown`); a
block appended is not in the set either; a message that is lost leaves the set
as it is. `CreditsBacked` is that the set is part of the ledger, and
`CreditsExact` that it is all of it but what waits for its report. The lemmas
about sums (`SumNext`, `SumPlus`, `SumShift`, `SumMonotone`) are proved by the
least counterexample.

**Blocks.** `Moved`, for every step: what a miner has on the way and in the
statistics grows by no more than the number of its next block, and by as much if
`BlocksAnswered`. One lemma for each move: thread to pipe, pipe to validator,
validator to queue or nowhere, queue to statistics. `IdsKnown` gives that the
miner that a block or message names is the one that started it.

`LedgerInv`, `PoolInv` and `CreditsInv` were first checked by TLC as invariants
of instances of `scaling`, `ledger_race` and `single_validator`, `PipeInv` of
that of `pipe_frames`.

**Refinement** (over `LedgerInv` and `PoolInv`). One lemma per
action: `TxGenAdd` is `Issue` of an id that `TransactionsIssued` makes new,
`ValidatorCheckPool` is `Take` when it accepts and a stutter when it rejects,
`ValidatorCommit` is `Commit` or `Lose`, SIGTERM is `Lose` when it finds the
validator between its critical sections, the nemesis block is `Found`; aging,
miners, launcher and statistics change nothing that Chain sees.

**Shutdown.** `ReaderOutlives` follows the post from its thread to the SIGTERM
of validator 1: `sem_pipeclosed` is above zero, or the controller is past its
wait, only if the signal thread has ended, which it does after every thread it
cancelled, and outside of `StartRace` it cancelled them all. That validator 1
is not gone before the controller is past that wait needs that nobody else
signals it, and that the end of the pipe comes after the miner process has
closed its side. `RemovedLast` follows the three `waitpid` in turn. Semaphores that are
stuck only take steps away, and `MayLeave` adds none to these arguments: a
validator that hangs, in its handler, has not closed the pipe.

**Locks** (`LocksInv`). What a thread has before it is a path with any number of
handlers on top, cut anywhere. `Good` says, for each semaphore, that every post
in it follows a wait on the same semaphore with nothing on it in between, the
first post excepted when the thread holds it; or that the thread is stuck: it
holds the semaphore and the next operation on it is a wait. A handler that
interrupts the holder makes the second out of the first, and a stuck thread
never reaches a post, because the semaphore it waits for is its own. Hence a post
is always by the holder.

**Order of the locks** (`OrderInv`, over `LocksInv`). What a thread that no
signal has interrupted has before it waits for nothing while it holds the log,
and only for the log while it holds the pool or the ledger (`Ordered`); and its
last operation on what it holds or takes is a post (`Drains`). An interrupted thread may wait
out of order, but only for what it holds itself; that needs to know that the
controller, whose handlers take the ledger, never holds the pool
(`NoPoolInController`). `BlockedOnlyBySignal` follows: whoever holds the
log is not blocked by another thread, so that it goes on, has ended or waits for
itself, and whoever holds another lock waits at most for the log.

**Pipe** (`PipeInv`). What is in the pipe are whole frames of one size, and a
thread in `write()` has written nothing of its own. A frame that fits in
`PIPE_BUF` is appended whole (`PipeWriteStep`). The one read of a validator, of
the size of the largest block, takes the first piece and leaves the others as
they are (`WholeTaken`, `WholeLeft`), and the frames that begin in what is left
are the same without their head (`WholeFrames`, `HeadMoves`).

**Search** (`SearchInv`). All nonces under the current one were refused.
`DifficultyMeansThreshold` compares a hash and a bound on their first digits:
after them the bound has only zeros, so that the order cannot change
(`OrderOfPrefixes`).

### What is only model-checked

Liveness: `SearchEnds`, `MiningGoesOn`, `LowLoadReleases`, `ShutdownCompletes`
and `EventuallyRead`. Their proofs need `ENABLED` and induction along a
behaviour, which the provers do not handle.

## 7. What is not modelled, and the plan

Not modelled: SHA-256 and serialization (abstracted), what is written to the log,
printing, the mean transaction time, the parsing of `config.cfg`, failures of
`malloc`, `pthread_create` and of the opening of IPC objects, the layout of the
shared memory (`SHMManagement.c`: pointers to fields), and
`hash_block_sample.c`, a program of its own. A generator is not a child of the
controller: the user stops it, which is a generator that takes no more steps in
DEIChain; inside its critical section it is `TxGenSigint` of Progress.

Left out within what is modelled:

- The proof of work of the nemesis block that fails (`Validator.c:367-373`), with
  an exit that leaves the ledger taken, in Validator and in the `NemesisPaths` of
  Locks: with a reward of 0 the block has the lowest difficulty, and the search
  starts over the same block each time, so that in one configuration it fails
  always or never.
- A SIGTERM inside a critical section is, in Progress and Shutdown, one before
  or after its effect, with the semaphore left taken: a section cut between two
  assignments, such as a flag of the pool and its count, is not modelled.
  DEIChain has SIGTERM between sections, Locks inside them without the data.
- Loops of calls that only signal are one step: the `kill` of both additional
  validators, and the `pthread_cancel` of all miner threads (`Miner.c:270-274`),
  although the code logs in between. A log that is stuck between two of them is
  an exception of `ShutdownCompletes` in any case.
- SIGUSR1 to the controller is in Locks only. During `cleanup()` it may interrupt
  a log and wait for it in the same thread, which leaves the log taken: the same
  exception.

Ahead:

1. The lock of the pool as steps of DEIChain: that the critical sections of
   Locks, one operation at a time, implement the actions of DEIChain.
2. In Shutdown, that a process which has ended is never waited for again, for
   any number of threads and additional validators.
3. The queue of the statistics in Shutdown, with what is printed at the end.
