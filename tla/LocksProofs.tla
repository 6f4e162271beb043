----------------------------- MODULE LocksProofs -----------------------------
(***************************************************************************)
(* The semaphores exclude, are taken in an order, and block for ever only  *)
(* through a signal, for any threads of any roles, any signals sent to     *)
(* them and any interleaving.  On every path a post follows a wait on the  *)
(* same semaphore with no other operation on it in between; a handler put  *)
(* on top of an interrupted path keeps this, or waits for ever for what    *)
(* its own thread holds and never lets the path go on.                     *)
(***************************************************************************)
EXTENDS Locks, TLAPS

-----------------------------------------------------------------------------
(* Shape of what a thread has before it.                                   *)
IsWait(o, l) == o.op = "wait" /\ o.on = l
IsPost(o, l) == o.op = "post" /\ o.on = l

(* No operation of the path, or none before the i-th, is on l.             *)
Untouched(p, l) == \A k \in 1..Len(p) : p[k].on # l
UntouchedBefore(p, i, l) == \A k \in 1..(i - 1) : p[k].on # l

(* The last operation on l before the i-th is a wait.                      *)
MatchedAt(p, i, l) ==
  \E j \in 1..(i - 1) : /\ IsWait(p[j], l)
                        /\ \A k \in (j + 1)..(i - 1) : p[k].on # l

FirstWaits(p, l) ==
  \E i \in 1..Len(p) : IsWait(p[i], l) /\ UntouchedBefore(p, i, l)

(* A path, or a handler, that takes what it posts.                         *)
Closed(p, l) ==
  /\ \A i \in 1..Len(p) : IsPost(p[i], l) => MatchedAt(p, i, l)
  /\ Untouched(p, l) \/ FirstWaits(p, l)

(* What is left of paths and handlers of a thread that holds l or not: it  *)
(* is stuck at a wait for what it holds, or takes what it posts, the first *)
(* post excepted when it holds l.                                          *)
Good(q, l, holds) ==
  \/ holds /\ FirstWaits(q, l)
  \/ \A i \in 1..Len(q) :
        IsPost(q[i], l) => MatchedAt(q, i, l) \/ (holds /\ UntouchedBefore(q, i, l))

(* Places of the operations of a concatenation.                            *)
LEMMA Concatenation ==
  ASSUME NEW p \in Seq(Op), NEW q \in Seq(Op)
  PROVE  /\ p \o q \in Seq(Op)
         /\ Len(p) \in Nat /\ Len(q) \in Nat /\ Len(p \o q) = Len(p) + Len(q)
         /\ \A i \in 1..Len(p) : (p \o q)[i] = p[i]
         /\ \A i \in (Len(p) + 1)..(Len(p) + Len(q)) : (p \o q)[i] = q[i - Len(p)]
OBVIOUS

(* A place of the second part is matched in the concatenation as it was.   *)
LEMMA MatchedInSecond ==
  ASSUME NEW p \in Seq(Op), NEW q \in Seq(Op), NEW l,
         NEW i \in 1..Len(q), MatchedAt(q, i, l)
  PROVE  MatchedAt(p \o q, i + Len(p), l)
<1> DEFINE r == p \o q
           n == Len(p)
<1>1. /\ n \in Nat /\ Len(q) \in Nat
      /\ \A k \in (n + 1)..(n + Len(q)) : r[k] = q[k - n]
  BY Concatenation
<1>2. PICK j \in 1..(i - 1) : /\ IsWait(q[j], l)
                              /\ \A k \in (j + 1)..(i - 1) : q[k].on # l
  BY DEF MatchedAt
<1> HIDE DEF r, n
<1>3. j + n \in 1..((i + n) - 1) /\ IsWait(r[j + n], l)
  BY <1>1, <1>2 DEF IsWait
<1>4. ASSUME NEW k \in ((j + n) + 1)..((i + n) - 1) PROVE r[k].on # l
  BY <1>1, <1>2
<1>5. MatchedAt(r, i + n, l)
  BY <1>3, <1>4 DEF MatchedAt
<1>6. QED
  BY <1>5 DEF r, n

(* A place of the first part is matched in the concatenation as it was.    *)
LEMMA MatchedInFirst ==
  ASSUME NEW p \in Seq(Op), NEW q \in Seq(Op), NEW l,
         NEW i \in 1..Len(p), MatchedAt(p, i, l)
  PROVE  MatchedAt(p \o q, i, l)
<1>1. /\ Len(p) \in Nat
      /\ \A k \in 1..Len(p) : (p \o q)[k] = p[k]
  BY Concatenation
<1>2. PICK j \in 1..(i - 1) : /\ IsWait(p[j], l)
                              /\ \A k \in (j + 1)..(i - 1) : p[k].on # l
  BY DEF MatchedAt
<1>3. IsWait((p \o q)[j], l)
  BY <1>1, <1>2 DEF IsWait
<1>4. ASSUME NEW k \in (j + 1)..(i - 1) PROVE (p \o q)[k].on # l
  BY <1>1, <1>2
<1>5. QED
  BY <1>2, <1>3, <1>4 DEF MatchedAt

(* The first operation of the first part is the first of both.             *)
LEMMA FirstOfFirst ==
  ASSUME NEW p \in Seq(Op), NEW q \in Seq(Op), NEW l, FirstWaits(p, l)
  PROVE  FirstWaits(p \o q, l)
<1>1. /\ Len(p) \in Nat /\ Len(q) \in Nat /\ Len(p \o q) = Len(p) + Len(q)
      /\ \A k \in 1..Len(p) : (p \o q)[k] = p[k]
  BY Concatenation
<1>2. PICK i \in 1..Len(p) : IsWait(p[i], l) /\ UntouchedBefore(p, i, l)
  BY DEF FirstWaits
<1>3. IsWait((p \o q)[i], l)
  BY <1>1, <1>2 DEF IsWait
<1>4. UntouchedBefore(p \o q, i, l)
  BY <1>1, <1>2 DEF UntouchedBefore
<1>5. QED
  BY <1>1, <1>3, <1>4 DEF FirstWaits

(* Behind a part that does not touch l, what is untouched remains so.      *)
LEMMA UntouchedBehind ==
  ASSUME NEW p \in Seq(Op), NEW q \in Seq(Op), NEW l, Untouched(p, l),
         NEW i \in 1..Len(q), UntouchedBefore(q, i, l)
  PROVE  UntouchedBefore(p \o q, i + Len(p), l)
<1>1. /\ Len(p) \in Nat /\ Len(q) \in Nat
      /\ \A k \in 1..Len(p) : (p \o q)[k] = p[k]
      /\ \A k \in (Len(p) + 1)..(Len(p) + Len(q)) : (p \o q)[k] = q[k - Len(p)]
  BY Concatenation
<1>2. SUFFICES ASSUME NEW k \in 1..((i + Len(p)) - 1) PROVE (p \o q)[k].on # l
  BY DEF UntouchedBefore
<1>3. CASE k <= Len(p)
  BY <1>1, <1>3 DEF Untouched
<1>4. CASE k > Len(p)
  BY <1>1, <1>4 DEF UntouchedBefore
<1>5. QED
  BY <1>1, <1>3, <1>4

(* A first wait stays first behind a part that does not touch l.           *)
LEMMA FirstBehind ==
  ASSUME NEW p \in Seq(Op), NEW q \in Seq(Op), NEW l, Untouched(p, l),
         FirstWaits(q, l)
  PROVE  FirstWaits(p \o q, l)
<1>1. /\ Len(p) \in Nat /\ Len(q) \in Nat /\ Len(p \o q) = Len(p) + Len(q)
      /\ \A k \in (Len(p) + 1)..(Len(p) + Len(q)) : (p \o q)[k] = q[k - Len(p)]
  BY Concatenation
<1>2. PICK i \in 1..Len(q) : IsWait(q[i], l) /\ UntouchedBefore(q, i, l)
  BY DEF FirstWaits
<1>3. IsWait((p \o q)[i + Len(p)], l)
  BY <1>1, <1>2 DEF IsWait
<1>4. UntouchedBefore(p \o q, i + Len(p), l)
  BY <1>2, UntouchedBehind
<1>5. i + Len(p) \in 1..Len(p \o q)
  BY <1>1
<1>6. QED
  BY <1>3, <1>4, <1>5 DEF FirstWaits

(* Two closed paths in a row are a closed path.                            *)
LEMMA ClosedConcatenation ==
  ASSUME NEW p \in Seq(Op), NEW q \in Seq(Op), NEW l, Closed(p, l), Closed(q, l)
  PROVE  Closed(p \o q, l)
<1>1. /\ Len(p) \in Nat /\ Len(q) \in Nat /\ Len(p \o q) = Len(p) + Len(q)
      /\ \A k \in 1..Len(p) : (p \o q)[k] = p[k]
      /\ \A k \in (Len(p) + 1)..(Len(p) + Len(q)) : (p \o q)[k] = q[k - Len(p)]
  BY Concatenation
<1>2. ASSUME NEW i \in 1..Len(p \o q), IsPost((p \o q)[i], l)
      PROVE  MatchedAt(p \o q, i, l)
  <2>1. CASE i <= Len(p)
    BY <1>1, <1>2, <2>1, MatchedInFirst DEF Closed, IsPost
  <2>2. CASE i > Len(p)
    <3>1. i - Len(p) \in 1..Len(q) /\ (i - Len(p)) + Len(p) = i
      BY <1>1, <2>2
    <3>2. MatchedAt(q, i - Len(p), l)
      BY <1>1, <1>2, <2>2, <3>1 DEF Closed, IsPost
    <3>3. MatchedAt(p \o q, (i - Len(p)) + Len(p), l)
      BY <3>1, <3>2, MatchedInSecond
    <3>4. QED
      BY <3>1, <3>3
  <2>3. QED
    BY <1>1, <2>1, <2>2
<1>3. Untouched(p \o q, l) \/ FirstWaits(p \o q, l)
  <2>1. CASE FirstWaits(p, l)
    BY <2>1, FirstOfFirst
  <2>2. CASE Untouched(p, l) /\ FirstWaits(q, l)
    BY <2>2, FirstBehind
  <2>3. CASE Untouched(p, l) /\ Untouched(q, l)
    BY <1>1, <2>3 DEF Untouched
  <2>4. QED
    BY <2>1, <2>2, <2>3 DEF Closed
<1>4. QED
  BY <1>2, <1>3 DEF Closed

(* Operations.                                                             *)
LEMMA Operations ==
  /\ \A l \in Semaphores : /\ Wait(l) \in Op /\ IsWait(Wait(l), l)
                           /\ Post(l) \in Op /\ IsPost(Post(l), l)
  /\ Exit \in Op
  /\ \A l \in Semaphores : Exit.on # l /\ ~IsPost(Exit, l)
  /\ \A o \in Op, l \in Semaphores : IsPost(o, l) => ~IsWait(o, l)
BY DEF Wait, Post, Exit, Op, IsWait, IsPost, Semaphores

(* A path with one operation.                                              *)
LEMMA OneOperation ==
  ASSUME NEW o \in Op
  PROVE  /\ <<o>> \in Seq(Op)
         /\ \A l : o.on # l => Closed(<<o>>, l)
BY DEF Closed, Untouched, IsPost

LEMMA NoOperation == <<>> \in Seq(Op) /\ \A l : Closed(<<>>, l) /\ Untouched(<<>>, l)
BY DEF Closed, Untouched

(* The places of a critical section.                                       *)
LEMMA InsidePlaces ==
  ASSUME NEW p \in Seq(Op), NEW k \in Semaphores
  PROVE  /\ Inside(k, p) \in Seq(Op)
         /\ Len(p) \in Nat /\ Len(Inside(k, p)) = 2 + Len(p)
         /\ Inside(k, p)[1] = Wait(k)
         /\ \A i \in 2..(1 + Len(p)) : Inside(k, p)[i] = p[i - 1]
         /\ Inside(k, p)[2 + Len(p)] = Post(k)
         /\ Inside(k, p) = (<<Wait(k)>> \o p) \o <<Post(k)>>
<1> DEFINE w == <<Wait(k)>>
           z == <<Post(k)>>
           wp == w \o p
<1>1. /\ w \in Seq(Op) /\ Len(w) = 1 /\ w[1] = Wait(k)
      /\ z \in Seq(Op) /\ Len(z) = 1 /\ z[1] = Post(k)
  BY Operations
<1>2. Inside(k, p) = wp \o z
  BY <1>1 DEF Inside
<1> HIDE DEF w, z
<1>3. /\ wp \in Seq(Op) /\ Len(p) \in Nat /\ Len(wp) = 1 + Len(p)
      /\ wp[1] = Wait(k)
      /\ \A i \in 2..(1 + Len(p)) : wp[i] = p[i - 1]
  <2>1. /\ w \o p \in Seq(Op) /\ Len(p) \in Nat /\ Len(w \o p) = Len(w) + Len(p)
        /\ \A i \in 1..Len(w) : (w \o p)[i] = w[i]
        /\ \A i \in (Len(w) + 1)..(Len(w) + Len(p)) : (w \o p)[i] = p[i - Len(w)]
    BY <1>1, Concatenation, Zenon
  <2>2. QED
    BY <1>1, <2>1
<1> HIDE DEF wp
<1>4. /\ wp \o z \in Seq(Op) /\ Len(wp \o z) = 2 + Len(p)
      /\ (wp \o z)[1] = Wait(k)
      /\ \A i \in 2..(1 + Len(p)) : (wp \o z)[i] = p[i - 1]
      /\ (wp \o z)[2 + Len(p)] = Post(k)
  <2>1. /\ wp \o z \in Seq(Op) /\ Len(wp \o z) = Len(wp) + Len(z)
        /\ \A i \in 1..Len(wp) : (wp \o z)[i] = wp[i]
        /\ \A i \in (Len(wp) + 1)..(Len(wp) + Len(z)) : (wp \o z)[i] = z[i - Len(wp)]
    BY <1>1, <1>3, Concatenation, Zenon
  <2>2. QED
    BY <1>1, <1>3, <2>1
<1>5. QED
  BY <1>2, <1>3, <1>4 DEF wp, w, z

(* A critical section around a closed path that does not touch its own     *)
(* semaphore is a closed path.                                             *)
LEMMA ClosedInside ==
  ASSUME NEW p \in Seq(Op), NEW k \in Semaphores, Untouched(p, k),
         \A l \in Semaphores : Closed(p, l)
  PROVE  Inside(k, p) \in Seq(Op) /\ \A l \in Semaphores : Closed(Inside(k, p), l)
<1> DEFINE r == Inside(k, p)
<1>1. /\ r \in Seq(Op) /\ Len(p) \in Nat /\ Len(r) = 2 + Len(p)
      /\ r[1] = Wait(k)
      /\ \A i \in 2..(1 + Len(p)) : r[i] = p[i - 1]
      /\ r[2 + Len(p)] = Post(k)
      /\ r = (<<Wait(k)>> \o p) \o <<Post(k)>>
  BY InsidePlaces
<1> HIDE DEF r
<1>2. ASSUME NEW l \in Semaphores, l # k PROVE Closed(r, l)
  <2>1. Wait(k).on # l /\ Post(k).on # l
    BY <1>2 DEF Wait, Post
  <2>2. /\ <<Wait(k)>> \in Seq(Op) /\ Closed(<<Wait(k)>>, l)
        /\ <<Post(k)>> \in Seq(Op) /\ Closed(<<Post(k)>>, l)
    BY <2>1, Operations, OneOperation
  <2>3. <<Wait(k)>> \o p \in Seq(Op) /\ Closed(<<Wait(k)>> \o p, l)
    BY <2>2, Concatenation, ClosedConcatenation, Zenon
  <2>4. QED
    BY <1>1, <2>2, <2>3, ClosedConcatenation, Zenon
<1>3. Closed(r, k)
  <2>1. FirstWaits(r, k)
    <3>1. IsWait(r[1], k) /\ UntouchedBefore(r, 1, k)
      BY <1>1, Operations DEF UntouchedBefore
    <3>2. QED
      BY <1>1, <3>1 DEF FirstWaits
  <2>2. ASSUME NEW i \in 1..Len(r), IsPost(r[i], k)
        PROVE  MatchedAt(r, i, k)
    <3>1. i # 1
      <4>1. ~IsPost(r[1], k)
        BY <1>1 DEF IsPost, Wait
      <4>2. QED
        BY <2>2, <4>1
    <3>2. i \notin 2..(1 + Len(p))
      BY <1>1, <2>2 DEF Untouched, IsPost
    <3>3. i = 2 + Len(p)
      BY <1>1, <3>1, <3>2
    <3>4. IsWait(r[1], k)
      BY <1>1, Operations
    <3>5. ASSUME NEW n \in (1 + 1)..(i - 1) PROVE r[n].on # k
      <4>1. n \in 2..(1 + Len(p)) /\ n - 1 \in 1..Len(p)
        BY <1>1, <3>3
      <4>2. QED
        BY <1>1, <4>1 DEF Untouched
    <3>6. 1 \in 1..(i - 1)
      BY <1>1, <3>3
    <3>7. QED
      BY <3>4, <3>5, <3>6 DEF MatchedAt
  <2>3. QED
    BY <2>1, <2>2 DEF Closed
<1>4. QED
  BY <1>1, <1>2, <1>3 DEF r

IsClosed(p) == p \in Seq(Op) /\ \A l \in Semaphores : Closed(p, l)

LEMMA SectionClosed ==
  ASSUME NEW k \in Semaphores
  PROVE  IsClosed(Section(k))
BY NoOperation, ClosedInside DEF Section, IsClosed

LEMMA LogClosed ==
  /\ IsClosed(log_info)
  /\ Untouched(log_info, "pool") /\ Untouched(log_info, "ledger")
<1>1. log_info = Section("log")
  BY DEF log_info
<1>2. IsClosed(log_info)
  BY <1>1, SectionClosed DEF Semaphores
<1>3. QED
  <2>1. <<Wait("log")>> \o <<>> = <<Wait("log")>>
    OBVIOUS
  <2>2. log_info = <<Wait("log")>> \o <<Post("log")>>
    BY <2>1, Zenon DEF log_info, Section, Inside
  <2>3. /\ <<Wait("log")>> \in Seq(Op) /\ <<Post("log")>> \in Seq(Op)
        /\ Len(<<Wait("log")>>) = 1 /\ Len(<<Post("log")>>) = 1
        /\ <<Wait("log")>>[1] = Wait("log") /\ <<Post("log")>>[1] = Post("log")
    BY Operations DEF Semaphores
  <2>4. Len(log_info) = 2 /\ log_info[1] = Wait("log") /\ log_info[2] = Post("log")
    BY <2>2, <2>3, Concatenation
  <2>5. Wait("log").on = "log" /\ Post("log").on = "log"
    BY DEF Wait, Post
  <2>6. QED
    BY <1>2, <2>4, <2>5 DEF Untouched

LEMMA LogTwiceClosed ==
  /\ IsClosed(log_info \o log_info)
  /\ Untouched(log_info \o log_info, "pool")
<1>1. IsClosed(log_info \o log_info)
  BY LogClosed, ClosedConcatenation, Concatenation DEF IsClosed
<1>2. log_info \in Seq(Op) /\ Untouched(log_info, "pool")
  BY LogClosed DEF IsClosed
<1>3. Untouched(log_info \o log_info, "pool")
  <2>1. /\ Len(log_info) \in Nat /\ Len(log_info \o log_info) = Len(log_info) + Len(log_info)
        /\ \A i \in 1..Len(log_info) : (log_info \o log_info)[i] = log_info[i]
        /\ \A i \in (Len(log_info) + 1)..(Len(log_info) + Len(log_info)) :
              (log_info \o log_info)[i] = log_info[i - Len(log_info)]
    BY <1>2, Concatenation, Zenon
  <2>2. QED
    BY <1>2, <2>1 DEF Untouched
<1>4. QED
  BY <1>1, <1>3

(* Every path of every role takes what it posts.                           *)
LEMMA PathsClosed ==
  ASSUME NEW role \in DOMAIN SignalsOf, NEW p \in PathsOf[role]
  PROVE  IsClosed(p)
<1>1. IsClosed(Inside("pool", log_info)) /\ IsClosed(Inside("ledger", log_info))
  BY LogClosed, ClosedInside DEF IsClosed, Semaphores
<1>2. IsClosed(Inside("pool", log_info \o log_info))
  BY LogTwiceClosed, ClosedInside DEF IsClosed, Semaphores
<1>3. IsClosed(Section("pool")) /\ IsClosed(Section("ledger"))
  BY SectionClosed DEF Semaphores
<1>4. p \in {Section("pool"), Section("ledger"), log_info,
             Inside("pool", log_info), Inside("ledger", log_info),
             Inside("pool", log_info \o log_info)}
  BY DEF PathsOf, SignalsOf, TxGenPaths, MinerPaths, ValidatorPaths, NemesisPaths,
         CheckPoolPaths, CommitPaths, StatisticsPaths, LauncherPaths
<1>5. QED
  BY <1>1, <1>2, <1>3, <1>4, LogClosed

LEMMA ExitClosed == IsClosed(<<Exit>>)
BY Operations, OneOperation DEF IsClosed

LEMMA ConcatenationClosed ==
  ASSUME NEW p, NEW q, IsClosed(p), IsClosed(q)
  PROVE  IsClosed(p \o q)
BY ClosedConcatenation, Concatenation DEF IsClosed

(* Every handler takes what it posts.                                      *)
LEMMA HandlersClosed ==
  ASSUME NEW t \in Threads, NEW s \in SentTo[t], s # "cancel"
  PROVE  IsClosed(Handlers[Role[t]][s])
<1>1. Role[t] \in DOMAIN SignalsOf /\ s \in SignalsOf[Role[t]]
  BY LocksAssumption
<1>2. IsClosed(log_info \o <<Exit>>)
  BY LogClosed, ExitClosed, ConcatenationClosed
<1>3. IsClosed((log_info \o log_info) \o <<Exit>>)
  BY LogTwiceClosed, ExitClosed, ConcatenationClosed
<1>4. IsClosed(dump_ledger)
  BY LogClosed, ClosedInside DEF dump_ledger, IsClosed, Semaphores
<1>5. IsClosed(log_info \o dump_ledger)
  BY <1>4, LogClosed, ConcatenationClosed
<1>6. IsClosed((log_info \o dump_ledger) \o <<Exit>>)
  BY <1>5, ExitClosed, ConcatenationClosed
<1>7. Handlers[Role[t]][s] \in
        {<<Exit>>, log_info \o <<Exit>>, (log_info \o log_info) \o <<Exit>>,
         log_info \o log_info, (log_info \o dump_ledger) \o <<Exit>>,
         log_info \o dump_ledger}
  <2>1. CASE Role[t] = "txgen"
    BY <1>1, <2>1 DEF Handlers, SignalsOf
  <2>2. CASE Role[t] = "validator"
    BY <1>1, <2>2 DEF Handlers, SignalsOf
  <2>3. CASE Role[t] = "statistics"
    <3>1. s \in {"SIGTERM", "SIGUSR1"}
      BY <1>1, <2>3 DEF SignalsOf
    <3>2. /\ Handlers["statistics"]["SIGTERM"] = (log_info \o log_info) \o <<Exit>>
          /\ Handlers["statistics"]["SIGUSR1"] = log_info \o log_info
      BY DEF Handlers
    <3>3. QED
      BY <2>3, <3>1, <3>2, Zenon
  <2>4. CASE Role[t] = "controller"
    <3>1. s \in {"SIGINT", "SIGUSR1"}
      BY <1>1, <2>4 DEF SignalsOf
    <3>2. /\ Handlers["controller"]["SIGINT"] = (log_info \o dump_ledger) \o <<Exit>>
          /\ Handlers["controller"]["SIGUSR1"] = log_info \o dump_ledger
      BY DEF Handlers
    <3>3. QED
      BY <2>4, <3>1, <3>2, Zenon
  <2>5. Role[t] \notin {"miner", "launcher"}
    BY <1>1 DEF SignalsOf
  <2>6. QED
    BY <1>1, <2>1, <2>2, <2>3, <2>4, <2>5 DEF SignalsOf
<1>8. QED
  BY <1>2, <1>3, <1>5, <1>6, <1>7, ExitClosed, LogTwiceClosed

-----------------------------------------------------------------------------
(* What a step does to the shape of what is left.                          *)

(* Places of the tail.                                                     *)
LEMMA TailPlaces ==
  ASSUME NEW q \in Seq(Op), q # <<>>
  PROVE  /\ Tail(q) \in Seq(Op) /\ Len(q) \in Nat /\ Len(q) >= 1
         /\ Len(Tail(q)) = Len(q) - 1
         /\ \A i \in 1..(Len(q) - 1) : Tail(q)[i] = q[i + 1]
         /\ Head(q) = q[1] /\ q[1] \in Op
OBVIOUS

(* A place that was matched, not by the first operation, still is.         *)
LEMMA MatchedTail ==
  ASSUME NEW q \in Seq(Op), q # <<>>, NEW l, NEW i \in 1..(Len(q) - 1),
         MatchedAt(q, i + 1, l), ~IsWait(q[1], l)
  PROVE  MatchedAt(Tail(q), i, l)
<1>1. PICK j \in 1..((i + 1) - 1) : /\ IsWait(q[j], l)
                                    /\ \A k \in (j + 1)..((i + 1) - 1) : q[k].on # l
  BY DEF MatchedAt
<1>2. j # 1
  BY <1>1
<1>3. j - 1 \in 1..(i - 1) /\ IsWait(Tail(q)[j - 1], l)
  BY <1>1, <1>2, TailPlaces DEF IsWait
<1>4. ASSUME NEW k \in ((j - 1) + 1)..(i - 1) PROVE Tail(q)[k].on # l
  BY <1>1, <1>2, TailPlaces
<1>5. QED
  BY <1>3, <1>4 DEF MatchedAt

(* An operation on another semaphore changes nothing for l.                *)
LEMMA GoodTail ==
  ASSUME NEW q \in Seq(Op), q # <<>>, NEW l, NEW holds \in BOOLEAN,
         Good(q, l, holds), q[1].on # l
  PROVE  Good(Tail(q), l, holds)
<1>1. CASE holds /\ FirstWaits(q, l)
  <2>1. PICK i \in 1..Len(q) : IsWait(q[i], l) /\ UntouchedBefore(q, i, l)
    BY <1>1 DEF FirstWaits
  <2>2. i # 1
    BY <2>1 DEF IsWait
  <2>3. i - 1 \in 1..Len(Tail(q)) /\ IsWait(Tail(q)[i - 1], l)
    BY <2>1, <2>2, TailPlaces DEF IsWait
  <2>4. UntouchedBefore(Tail(q), i - 1, l)
    BY <2>1, <2>2, TailPlaces DEF UntouchedBefore
  <2>5. QED
    BY <1>1, <2>3, <2>4 DEF Good, FirstWaits
<1>2. CASE \A i \in 1..Len(q) : IsPost(q[i], l) =>
             MatchedAt(q, i, l) \/ (holds /\ UntouchedBefore(q, i, l))
  <2>1. ASSUME NEW i \in 1..Len(Tail(q)), IsPost(Tail(q)[i], l)
        PROVE  MatchedAt(Tail(q), i, l) \/ (holds /\ UntouchedBefore(Tail(q), i, l))
    <3>1. i \in 1..(Len(q) - 1) /\ i + 1 \in 1..Len(q) /\ IsPost(q[i + 1], l)
      BY <2>1, TailPlaces DEF IsPost
    <3>2. CASE MatchedAt(q, i + 1, l)
      BY <3>1, <3>2, MatchedTail DEF IsWait
    <3>3. CASE holds /\ UntouchedBefore(q, i + 1, l)
      BY <3>1, <3>3, TailPlaces DEF UntouchedBefore
    <3>4. QED
      BY <1>2, <3>1, <3>2, <3>3
  <2>2. QED
    BY <2>1 DEF Good
<1>3. QED
  BY <1>1, <1>2 DEF Good

(* A thread that takes l holds it for the first post that is left.         *)
LEMMA GoodWait ==
  ASSUME NEW q \in Seq(Op), q # <<>>, NEW l, Good(q, l, FALSE), IsWait(q[1], l)
  PROVE  Good(Tail(q), l, TRUE)
<1>1. ASSUME NEW i \in 1..Len(Tail(q)), IsPost(Tail(q)[i], l)
      PROVE  MatchedAt(Tail(q), i, l) \/ UntouchedBefore(Tail(q), i, l)
  <2>1. i \in 1..(Len(q) - 1) /\ i + 1 \in 1..Len(q) /\ IsPost(q[i + 1], l)
    BY <1>1, TailPlaces DEF IsPost
  <2>2. MatchedAt(q, i + 1, l)
    BY <2>1 DEF Good
  <2>3. PICK j \in 1..((i + 1) - 1) : /\ IsWait(q[j], l)
                                      /\ \A k \in (j + 1)..((i + 1) - 1) : q[k].on # l
    BY <2>2 DEF MatchedAt
  <2>4. CASE j = 1
    BY <2>1, <2>3, <2>4, TailPlaces DEF UntouchedBefore
  <2>5. CASE j # 1
    <3>1. j - 1 \in 1..(i - 1) /\ IsWait(Tail(q)[j - 1], l)
      BY <2>1, <2>3, <2>5, TailPlaces DEF IsWait
    <3>2. ASSUME NEW k \in ((j - 1) + 1)..(i - 1) PROVE Tail(q)[k].on # l
      BY <2>1, <2>3, <2>5, TailPlaces
    <3>3. QED
      BY <3>1, <3>2 DEF MatchedAt
  <2>6. QED
    BY <2>4, <2>5
<1>2. QED
  BY <1>1 DEF Good

(* A thread that posts l holds it, and takes it again before it posts it   *)
(* again.                                                                  *)
LEMMA GoodPost ==
  ASSUME NEW q \in Seq(Op), q # <<>>, NEW l, NEW holds \in BOOLEAN,
         Good(q, l, holds), IsPost(q[1], l)
  PROVE  holds /\ Good(Tail(q), l, FALSE)
<1>1. ~IsWait(q[1], l)
  BY DEF IsWait, IsPost
<1>2. ~FirstWaits(q, l)
  <2>1. SUFFICES ASSUME NEW i \in 1..Len(q), IsWait(q[i], l), UntouchedBefore(q, i, l)
                 PROVE  FALSE
    BY DEF FirstWaits
  <2>2. i # 1
    BY <1>1, <2>1
  <2>3. q[1].on # l
    BY <2>1, <2>2 DEF UntouchedBefore
  <2>4. QED
    BY <2>3 DEF IsPost
<1>3. \A i \in 1..Len(q) : IsPost(q[i], l) =>
        MatchedAt(q, i, l) \/ (holds /\ UntouchedBefore(q, i, l))
  BY <1>2 DEF Good
<1>4. holds
  <2>1. ~MatchedAt(q, 1, l)
    BY DEF MatchedAt
  <2>2. QED
    BY <1>3, <2>1, TailPlaces
<1>5. ASSUME NEW i \in 1..Len(Tail(q)), IsPost(Tail(q)[i], l)
      PROVE  MatchedAt(Tail(q), i, l)
  <2>1. i \in 1..(Len(q) - 1) /\ i + 1 \in 1..Len(q) /\ IsPost(q[i + 1], l)
    BY <1>5, TailPlaces DEF IsPost
  <2>2. ~UntouchedBefore(q, i + 1, l)
    BY <2>1 DEF UntouchedBefore, IsPost
  <2>3. MatchedAt(q, i + 1, l)
    BY <1>3, <2>1, <2>2
  <2>4. QED
    BY <1>1, <2>1, <2>3, MatchedTail
<1>6. QED
  BY <1>4, <1>5 DEF Good

(* A handler runs on top of a path.  When the thread holds l and the       *)
(* handler takes l, it is stuck.                                           *)
LEMMA GoodHandler ==
  ASSUME NEW p \in Seq(Op), NEW q \in Seq(Op), NEW l, NEW holds \in BOOLEAN,
         Closed(p, l), Good(q, l, holds)
  PROVE  Good(p \o q, l, holds)
<1>1. /\ Len(p) \in Nat /\ Len(q) \in Nat /\ Len(p \o q) = Len(p) + Len(q)
      /\ \A k \in 1..Len(p) : (p \o q)[k] = p[k]
      /\ \A k \in (Len(p) + 1)..(Len(p) + Len(q)) : (p \o q)[k] = q[k - Len(p)]
  BY Concatenation
<1>2. CASE holds /\ FirstWaits(p, l)
  BY <1>2, FirstOfFirst DEF Good
<1>3. CASE holds /\ Untouched(p, l) /\ FirstWaits(q, l)
  BY <1>3, FirstBehind DEF Good
<1>4. CASE /\ ~(holds /\ FirstWaits(p, l))
           /\ \A i \in 1..Len(q) : IsPost(q[i], l) =>
                MatchedAt(q, i, l) \/ (holds /\ UntouchedBefore(q, i, l))
  <2>1. ASSUME NEW i \in 1..Len(p \o q), IsPost((p \o q)[i], l)
        PROVE  MatchedAt(p \o q, i, l) \/ (holds /\ UntouchedBefore(p \o q, i, l))
    <3>1. CASE i <= Len(p)
      BY <1>1, <2>1, <3>1, MatchedInFirst DEF Closed, IsPost
    <3>2. CASE i > Len(p)
      <4>1. i - Len(p) \in 1..Len(q) /\ (i - Len(p)) + Len(p) = i
        BY <1>1, <3>2
      <4>2. IsPost(q[i - Len(p)], l)
        BY <1>1, <2>1, <3>2 DEF IsPost
      <4>3. CASE MatchedAt(q, i - Len(p), l)
        <5>1. MatchedAt(p \o q, (i - Len(p)) + Len(p), l)
          BY <4>1, <4>3, MatchedInSecond
        <5>2. QED
          BY <4>1, <5>1
      <4>4. CASE holds /\ UntouchedBefore(q, i - Len(p), l)
        <5>1. Untouched(p, l)
          BY <1>4, <4>4 DEF Closed
        <5>2. UntouchedBefore(p \o q, (i - Len(p)) + Len(p), l)
          BY <4>1, <4>4, <5>1, UntouchedBehind
        <5>3. QED
          BY <4>1, <4>4, <5>2
      <4>5. QED
        BY <1>4, <4>1, <4>2, <4>3, <4>4
    <3>3. QED
      BY <1>1, <3>1, <3>2
  <2>2. QED
    BY <2>1 DEF Good
<1>5. QED
  BY <1>2, <1>3, <1>4 DEF Good, Closed

-----------------------------------------------------------------------------
(* The invariant.                                                          *)
HandlersLeft == \A t \in Threads : signals[t] \subseteq SentTo[t]

PathsGood ==
  \A t \in Threads, l \in Semaphores : Good(todo[t], l, l \in held[t])

LocksInv == LocksTypeOK /\ HandlersLeft /\ PathsGood /\ MutualExclusion

(* At the start nobody holds anything or has anything before it.           *)
LEMMA LocksInit == Init => LocksInv
<1> SUFFICES ASSUME Init PROVE LocksInv
  OBVIOUS
<1> USE DEF Init
<1>1. LocksTypeOK
  BY LocksAssumption DEF LocksTypeOK
<1>2. HandlersLeft
  BY DEF HandlersLeft
<1>3. PathsGood
  BY DEF PathsGood, Good
<1>4. MutualExclusion
  BY DEF MutualExclusion
<1>5. QED
  BY <1>1, <1>2, <1>3, <1>4 DEF LocksInv

(* A path that begins takes what it posts.                                 *)
LEMMA InvBegin ==
  ASSUME LocksInv, NEW t \in Threads, Begin(t)
  PROVE  LocksInv'
<1> USE DEF LocksInv
<1>1. PICK path \in PathsOf[Role[t]] : todo' = [todo EXCEPT ![t] = path]
  BY DEF Begin
<1>2. UNCHANGED <<sem, held, signals, exited>>
  BY DEF Begin
<1>3. IsClosed(path)
  BY LocksAssumption, PathsClosed
<1>4. LocksTypeOK'
  BY <1>1, <1>2, <1>3 DEF LocksTypeOK, IsClosed
<1>5. PathsGood'
  <2>1. SUFFICES ASSUME NEW u \in Threads, NEW l \in Semaphores
                 PROVE  Good(todo'[u], l, l \in held'[u])
    BY DEF PathsGood
  <2>2. CASE u = t
    <3>1. todo'[u] = path
      BY <1>1, <2>2 DEF LocksTypeOK
    <3>2. QED
      BY <1>3, <3>1 DEF IsClosed, Closed, Good
  <2>3. CASE u # t
    BY <1>1, <1>2, <2>3 DEF PathsGood, LocksTypeOK
  <2>4. QED
    BY <2>2, <2>3
<1>6. QED
  BY <1>2, <1>4, <1>5 DEF HandlersLeft, MutualExclusion

(* A semaphore that is taken was held by nobody.                           *)
LEMMA InvWait ==
  ASSUME LocksInv, NEW t \in Threads, SemWait(t)
  PROVE  LocksInv'
<1> USE DEF LocksInv
<1> DEFINE q == todo[t]
           l == q[1].on
<1>1. q \in Seq(Op) /\ q # <<>> /\ Head(q) = q[1] /\ q[1] \in Op /\ q[1].op = "wait"
  <2>1. q \in Seq(Op) /\ q # <<>> /\ Head(q).op = "wait"
    BY DEF SemWait, At, LocksTypeOK
  <2>2. QED
    BY <2>1, TailPlaces
<1>2. l \in Semaphores
  BY <1>1 DEF Op, Exit
<1>3. /\ sem[l] > 0
      /\ sem' = [sem EXCEPT ![l] = @ - 1]
      /\ held' = [held EXCEPT ![t] = @ \cup {l}]
      /\ todo' = [todo EXCEPT ![t] = Tail(q)]
      /\ UNCHANGED <<signals, exited>>
  BY <1>1 DEF SemWait, Available
<1> HIDE DEF q, l
<1>4. \A u \in Threads : l \notin held[u]
  BY <1>2, <1>3 DEF MutualExclusion
<1>5. sem[l] = 1
  BY <1>2, <1>4 DEF MutualExclusion
<1>6. LocksTypeOK'
  <2>1. Tail(q) \in Seq(Op)
    BY <1>1, TailPlaces
  <2>2. QED
    BY <1>2, <1>3, <1>5, <2>1 DEF LocksTypeOK
<1>7. PathsGood'
  <2>1. SUFFICES ASSUME NEW u \in Threads, NEW k \in Semaphores
                 PROVE  Good(todo'[u], k, k \in held'[u])
    BY DEF PathsGood
  <2>2. CASE u = t /\ k = l
    <3>1. todo'[u] = Tail(q) /\ (k \in held'[u]) = TRUE
      BY <1>3, <2>2 DEF LocksTypeOK
    <3>2. Good(q, k, FALSE)
      <4>1. (k \in held[u]) = FALSE
        BY <1>4, <2>2
      <4>2. Good(todo[u], k, k \in held[u])
        BY DEF PathsGood
      <4>3. QED
        BY <2>2, <4>1, <4>2 DEF q
    <3>3. IsWait(q[1], k)
      BY <1>1, <2>2 DEF IsWait, l
    <3>4. Good(Tail(q), k, TRUE)
      BY <1>1, <3>2, <3>3, GoodWait
    <3>5. QED
      BY <3>1, <3>4
  <2>3. CASE u = t /\ k # l
    <3>1. todo'[u] = Tail(q) /\ (k \in held'[u]) = (k \in held[u])
      BY <1>3, <2>3 DEF LocksTypeOK
    <3>2. Good(q, k, k \in held[u])
      BY <2>3 DEF PathsGood, q
    <3>3. q[1].on # k /\ (k \in held[u]) \in BOOLEAN
      BY <2>3 DEF l
    <3>4. Good(Tail(q), k, k \in held[u])
      BY <1>1, <3>2, <3>3, GoodTail, Zenon
    <3>5. QED
      BY <3>1, <3>4
  <2>4. CASE u # t
    <3>1. todo'[u] = todo[u] /\ held'[u] = held[u]
      BY <1>3, <2>4 DEF LocksTypeOK
    <3>2. QED
      BY <3>1 DEF PathsGood
  <2>5. QED
    BY <2>2, <2>3, <2>4
<1>8. MutualExclusion'
  <2>1. SUFFICES ASSUME NEW k \in Semaphores
                 PROVE  /\ \A u, v \in Threads : k \in held'[u] /\ k \in held'[v] => u = v
                        /\ sem'[k] = IF \E u \in Threads : k \in held'[u] THEN 0 ELSE 1
    BY DEF MutualExclusion
  <2>2. CASE k = l
    <3>1. \A u \in Threads : l \in held'[u] <=> u = t
      BY <1>3, <1>4 DEF LocksTypeOK
    <3>2. sem'[l] = 0
      BY <1>2, <1>3, <1>5 DEF LocksTypeOK
    <3>3. QED
      BY <2>2, <3>1, <3>2
  <2>3. CASE k # l
    <3>1. \A u \in Threads : k \in held'[u] <=> k \in held[u]
      BY <1>3, <2>3 DEF LocksTypeOK
    <3>2. sem'[k] = sem[k]
      BY <1>3, <2>3 DEF LocksTypeOK
    <3>3. QED
      BY <3>1, <3>2 DEF MutualExclusion
  <2>4. QED
    BY <2>2, <2>3
<1>9. HandlersLeft'
  BY <1>3 DEF HandlersLeft
<1>10. QED
  BY <1>6, <1>7, <1>8, <1>9

(* A semaphore that is posted was held by the thread, and by no other.     *)
LEMMA InvPost ==
  ASSUME LocksInv, NEW t \in Threads, SemPost(t)
  PROVE  LocksInv'
<1> USE DEF LocksInv
<1> DEFINE q == todo[t]
           l == q[1].on
<1>1. q \in Seq(Op) /\ q # <<>> /\ Head(q) = q[1] /\ q[1] \in Op /\ q[1].op = "post"
  <2>1. q \in Seq(Op) /\ q # <<>> /\ Head(q).op = "post"
    BY DEF SemPost, At, LocksTypeOK
  <2>2. QED
    BY <2>1, TailPlaces
<1>2. l \in Semaphores
  BY <1>1 DEF Op, Exit
<1>3. /\ sem' = [sem EXCEPT ![l] = @ + 1]
      /\ held' = [held EXCEPT ![t] = @ \ {l}]
      /\ todo' = [todo EXCEPT ![t] = Tail(q)]
      /\ UNCHANGED <<signals, exited>>
  BY <1>1 DEF SemPost
<1> HIDE DEF q, l
<1>4. l \in held[t] /\ Good(Tail(q), l, FALSE)
  <2>1. Good(q, l, l \in held[t])
    BY <1>2 DEF PathsGood, q
  <2>2. IsPost(q[1], l)
    BY <1>1 DEF IsPost, l
  <2>3. (l \in held[t]) \in BOOLEAN
    OBVIOUS
  <2>4. QED
    BY <1>1, <2>1, <2>2, <2>3, GoodPost, Zenon
<1>5. sem[l] = 0 /\ \A u \in Threads : l \in held[u] => u = t
  BY <1>2, <1>4 DEF MutualExclusion
<1>6. LocksTypeOK'
  <2>1. Tail(q) \in Seq(Op)
    BY <1>1, TailPlaces
  <2>2. QED
    BY <1>2, <1>3, <1>5, <2>1 DEF LocksTypeOK
<1>7. PathsGood'
  <2>1. SUFFICES ASSUME NEW u \in Threads, NEW k \in Semaphores
                 PROVE  Good(todo'[u], k, k \in held'[u])
    BY DEF PathsGood
  <2>2. CASE u = t /\ k = l
    <3>1. todo'[u] = Tail(q) /\ (k \in held'[u]) = FALSE
      BY <1>3, <2>2 DEF LocksTypeOK
    <3>2. QED
      BY <1>4, <2>2, <3>1
  <2>3. CASE u = t /\ k # l
    <3>1. todo'[u] = Tail(q) /\ (k \in held'[u]) = (k \in held[u])
      BY <1>3, <2>3 DEF LocksTypeOK
    <3>2. Good(q, k, k \in held[u])
      BY <2>3 DEF PathsGood, q
    <3>3. q[1].on # k /\ (k \in held[u]) \in BOOLEAN
      BY <2>3 DEF l
    <3>4. Good(Tail(q), k, k \in held[u])
      BY <1>1, <3>2, <3>3, GoodTail, Zenon
    <3>5. QED
      BY <3>1, <3>4
  <2>4. CASE u # t
    <3>1. todo'[u] = todo[u] /\ held'[u] = held[u]
      BY <1>3, <2>4 DEF LocksTypeOK
    <3>2. QED
      BY <3>1 DEF PathsGood
  <2>5. QED
    BY <2>2, <2>3, <2>4
<1>8. MutualExclusion'
  <2>1. SUFFICES ASSUME NEW k \in Semaphores
                 PROVE  /\ \A u, v \in Threads : k \in held'[u] /\ k \in held'[v] => u = v
                        /\ sem'[k] = IF \E u \in Threads : k \in held'[u] THEN 0 ELSE 1
    BY DEF MutualExclusion
  <2>2. CASE k = l
    <3>1. \A u \in Threads : l \notin held'[u]
      BY <1>3, <1>5 DEF LocksTypeOK
    <3>2. sem'[l] = 1
      BY <1>2, <1>3, <1>5 DEF LocksTypeOK
    <3>3. QED
      BY <2>2, <3>1, <3>2
  <2>3. CASE k # l
    <3>1. \A u \in Threads : k \in held'[u] <=> k \in held[u]
      BY <1>3, <2>3 DEF LocksTypeOK
    <3>2. sem'[k] = sem[k]
      BY <1>3, <2>3 DEF LocksTypeOK
    <3>3. QED
      BY <3>1, <3>2 DEF MutualExclusion
  <2>4. QED
    BY <2>2, <2>3
<1>9. HandlersLeft'
  BY <1>3 DEF HandlersLeft
<1>10. QED
  BY <1>6, <1>7, <1>8, <1>9

(* A handler takes what it posts, and leaves the semaphores alone until it *)
(* runs.                                                                   *)
LEMMA InvDeliver ==
  ASSUME LocksInv, NEW t \in Threads, NEW s \in signals[t], Deliver(t, s)
  PROVE  LocksInv'
<1> USE DEF LocksInv
<1> DEFINE p == Handlers[Role[t]][s]
<1>1. /\ signals' = [signals EXCEPT ![t] = @ \ {s}]
      /\ todo' = [todo EXCEPT ![t] = p \o @]
      /\ UNCHANGED <<sem, held, exited>>
      /\ s # "cancel"
  BY DEF Deliver
<1>2. IsClosed(p)
  BY <1>1, HandlersClosed DEF HandlersLeft
<1> HIDE DEF p
<1>3. todo[t] \in Seq(Op) /\ p \o todo[t] \in Seq(Op)
  BY <1>2, Concatenation DEF IsClosed, LocksTypeOK
<1>4. LocksTypeOK'
  BY <1>1, <1>3 DEF LocksTypeOK
<1>5. PathsGood'
  <2>1. SUFFICES ASSUME NEW u \in Threads, NEW l \in Semaphores
                 PROVE  Good(todo'[u], l, l \in held'[u])
    BY DEF PathsGood
  <2>2. CASE u = t
    <3>1. todo'[u] = p \o todo[t] /\ held'[u] = held[t]
      BY <1>1, <2>2 DEF LocksTypeOK
    <3>2. Good(todo[t], l, l \in held[t])
      BY DEF PathsGood
    <3>3. p \in Seq(Op) /\ Closed(p, l) /\ (l \in held[t]) \in BOOLEAN
      BY <1>2 DEF IsClosed
    <3>4. Good(p \o todo[t], l, l \in held[t])
      BY <1>3, <3>2, <3>3, GoodHandler, Zenon
    <3>5. QED
      BY <3>1, <3>2, <3>4, <2>2
  <2>3. CASE u # t
    <3>1. todo'[u] = todo[u] /\ held'[u] = held[u]
      BY <1>1, <2>3 DEF LocksTypeOK
    <3>2. QED
      BY <3>1 DEF PathsGood
  <2>4. QED
    BY <2>2, <2>3
<1>6. HandlersLeft'
  <2>1. \A u \in Threads : signals'[u] \subseteq signals[u]
    BY <1>1 DEF LocksTypeOK
  <2>2. QED
    BY <2>1 DEF HandlersLeft
<1>7. MutualExclusion'
  BY <1>1 DEF MutualExclusion
<1>8. QED
  BY <1>4, <1>5, <1>6, <1>7

(* A thread that ends keeps what it holds and posts nothing.               *)
LEMMA InvEnds ==
  ASSUME LocksInv, NEW t \in Threads, Ends(t),
         DOMAIN signals' = Threads, \A u \in Threads : signals'[u] \subseteq signals[u]
  PROVE  LocksInv'
<1> USE DEF LocksInv
<1>1. /\ exited' = exited \cup {t}
      /\ todo' = [todo EXCEPT ![t] = <<>>]
      /\ UNCHANGED <<sem, held>>
  BY DEF Ends
<1>2. LocksTypeOK'
  BY <1>1 DEF LocksTypeOK
<1>3. PathsGood'
  <2>1. SUFFICES ASSUME NEW u \in Threads, NEW l \in Semaphores
                 PROVE  Good(todo'[u], l, l \in held'[u])
    BY DEF PathsGood
  <2>2. CASE u = t
    <3>1. todo'[u] = <<>>
      BY <1>1, <2>2 DEF LocksTypeOK
    <3>2. QED
      BY <3>1 DEF Good
  <2>3. CASE u # t
    <3>1. todo'[u] = todo[u] /\ held'[u] = held[u]
      BY <1>1, <2>3 DEF LocksTypeOK
    <3>2. QED
      BY <3>1 DEF PathsGood
  <2>4. QED
    BY <2>2, <2>3
<1>4. HandlersLeft'
  BY DEF HandlersLeft
<1>5. MutualExclusion'
  BY <1>1 DEF MutualExclusion
<1>6. QED
  BY <1>2, <1>3, <1>4, <1>5

(* The invariant is inductive.                                             *)
LEMMA LocksNext == LocksInv /\ [Next]_vars => LocksInv'
<1> SUFFICES ASSUME LocksInv, [Next]_vars PROVE LocksInv'
  OBVIOUS
<1>1. ASSUME NEW t \in Threads, ThreadNext(t) PROVE LocksInv'
  <2>1. CASE Begin(t)
    BY <2>1, InvBegin
  <2>2. CASE SemWait(t)
    BY <2>2, InvWait
  <2>3. CASE SemPost(t)
    BY <2>3, InvPost
  <2>4. CASE ThreadExits(t)
    BY <2>4, InvEnds DEF ThreadExits, LocksInv, LocksTypeOK
  <2>5. CASE \E s \in signals[t] : Deliver(t, s)
    BY <2>5, InvDeliver
  <2>6. CASE Cancel(t)
    <3>1. Ends(t) /\ signals' = [signals EXCEPT ![t] = {}]
      BY <2>6 DEF Cancel
    <3>2. DOMAIN signals' = Threads /\ \A u \in Threads : signals'[u] \subseteq signals[u]
      BY <3>1 DEF LocksInv, LocksTypeOK
    <3>3. QED
      BY <3>1, <3>2, InvEnds
  <2>7. QED
    BY <1>1, <2>1, <2>2, <2>3, <2>4, <2>5, <2>6 DEF ThreadNext
<1>2. CASE UNCHANGED vars
  <2>1. LocksTypeOK' /\ HandlersLeft' /\ MutualExclusion'
    BY <1>2 DEF vars, LocksInv, LocksTypeOK, HandlersLeft, MutualExclusion
  <2>2. todo' = todo /\ held' = held
    BY <1>2 DEF vars
  <2>3. PathsGood'
    BY <2>2 DEF LocksInv, PathsGood
  <2>4. QED
    BY <2>1, <2>3 DEF LocksInv
<1>3. QED
  BY <1>1, <1>2 DEF Next

(* sem_transactions_pool, sem_ledger and sem_log_file exclude, whatever    *)
(* threads there are, and whichever signals interrupt or end them where.   *)
THEOREM LocksExclude == Spec => []MutualExclusion
<1>1. LocksInv => MutualExclusion
  BY DEF LocksInv
<1>2. QED
  BY <1>1, LocksInit, LocksNext, PTL DEF Spec

(* The semaphores never go below zero, and what threads have before them   *)
(* are the operations of the paths and the handlers of the code.           *)
THEOREM LocksTypes == Spec => []LocksTypeOK
<1>1. LocksInv => LocksTypeOK
  BY DEF LocksInv
<1>2. QED
  BY <1>1, LocksInit, LocksNext, PTL DEF Spec

-----------------------------------------------------------------------------
(* The order of the locks.  At a wait of what is left, k is held when the  *)
(* last operation on k before it is a wait, or when there is none and the  *)
(* thread holds k.                                                         *)
HeldAt(q, i, k, holds) ==
  MatchedAt(q, i, k) \/ (holds /\ UntouchedBefore(q, i, k))

(* What may be waited for by who holds k: strictly, in no handler, what k  *)
(* comes before; else also k itself.                                       *)
Allowed(k, l, strict) == Before(k, l) \/ (k = l /\ ~strict)

Ordered(q, k, holds, strict) ==
  \A i \in 1..Len(q) :
     q[i].op = "wait" /\ HeldAt(q, i, k, holds) => Allowed(k, q[i].on, strict)

(* What a thread holds is posted by what is left, and not taken again      *)
(* after that.                                                             *)
LastPosts(q, k) ==
  \E i \in 1..Len(q) : IsPost(q[i], k) /\ \A j \in (i + 1)..Len(q) : q[j].on # k

Drains(q, k, holds) == LastPosts(q, k) \/ (~holds /\ Untouched(q, k))

(* An operation goes: k is held after it when it was taken by it, or was   *)
(* held and is not what it is on.                                          *)
LEMMA OrderedTail ==
  ASSUME NEW q \in Seq(Op), q # <<>>, NEW k, NEW holds \in BOOLEAN,
         NEW next \in BOOLEAN, NEW strict \in BOOLEAN,
         Ordered(q, k, holds, strict),
         next => IsWait(q[1], k) \/ (holds /\ q[1].on # k)
  PROVE  Ordered(Tail(q), k, next, strict)
<1>1. SUFFICES ASSUME NEW i \in 1..Len(Tail(q)), Tail(q)[i].op = "wait",
                      HeldAt(Tail(q), i, k, next)
               PROVE  Allowed(k, Tail(q)[i].on, strict)
  BY DEF Ordered
<1>2. /\ i \in 1..(Len(q) - 1) /\ i + 1 \in 1..Len(q) /\ Tail(q)[i] = q[i + 1]
      /\ \A j \in 1..(Len(q) - 1) : Tail(q)[j] = q[j + 1]
  BY TailPlaces
<1>3. HeldAt(q, i + 1, k, holds)
  <2>1. CASE MatchedAt(Tail(q), i, k)
    <3>1. PICK j \in 1..(i - 1) : /\ IsWait(Tail(q)[j], k)
                                  /\ \A n \in (j + 1)..(i - 1) : Tail(q)[n].on # k
      BY <2>1 DEF MatchedAt
    <3>2. j + 1 \in 1..((i + 1) - 1) /\ IsWait(q[j + 1], k)
      BY <1>2, <3>1 DEF IsWait
    <3>3. ASSUME NEW n \in ((j + 1) + 1)..((i + 1) - 1) PROVE q[n].on # k
      <4>1. n - 1 \in (j + 1)..(i - 1) /\ n - 1 \in 1..(Len(q) - 1) /\ (n - 1) + 1 = n
        BY <1>2
      <4>2. QED
        BY <1>2, <3>1, <4>1
    <3>4. QED
      BY <3>2, <3>3 DEF MatchedAt, HeldAt
  <2>2. CASE next /\ UntouchedBefore(Tail(q), i, k)
    <3>1. ASSUME NEW n \in 2..((i + 1) - 1) PROVE q[n].on # k
      <4>1. n - 1 \in 1..(i - 1) /\ n - 1 \in 1..(Len(q) - 1) /\ (n - 1) + 1 = n
        BY <1>2
      <4>2. QED
        BY <1>2, <2>2, <4>1 DEF UntouchedBefore
    <3>2. CASE IsWait(q[1], k)
      <4>1. 1 \in 1..((i + 1) - 1) /\ \A n \in (1 + 1)..((i + 1) - 1) : q[n].on # k
        BY <1>2, <3>1
      <4>2. QED
        BY <3>2, <4>1 DEF MatchedAt, HeldAt
    <3>3. CASE holds /\ q[1].on # k
      <4>1. UntouchedBefore(q, i + 1, k)
        BY <1>2, <3>1, <3>3 DEF UntouchedBefore
      <4>2. QED
        BY <3>3, <4>1 DEF HeldAt
    <3>4. QED
      BY <2>2, <3>2, <3>3
  <2>3. QED
    BY <1>1, <2>1, <2>2 DEF HeldAt
<1>4. QED
  BY <1>1, <1>2, <1>3 DEF Ordered

LEMMA DrainsTail ==
  ASSUME NEW q \in Seq(Op), q # <<>>, NEW k, NEW holds \in BOOLEAN,
         NEW next \in BOOLEAN, Drains(q, k, holds),
         q[1].on # k => next = holds,
         IsPost(q[1], k) => ~next
  PROVE  Drains(Tail(q), k, next)
<1>1. /\ Len(q) \in Nat /\ Len(q) >= 1 /\ Len(Tail(q)) = Len(q) - 1
      /\ \A j \in 1..(Len(q) - 1) : Tail(q)[j] = q[j + 1]
  BY TailPlaces
<1>2. ASSUME NEW i \in 1..Len(q), IsPost(q[i], k),
             \A j \in (i + 1)..Len(q) : q[j].on # k
      PROVE  Drains(Tail(q), k, next)
  <2>1. CASE i = 1
    <3>1. ~next
      BY <1>2, <2>1
    <3>2. ASSUME NEW j \in 1..Len(Tail(q)) PROVE Tail(q)[j].on # k
      BY <1>1, <1>2, <2>1
    <3>3. QED
      BY <3>1, <3>2 DEF Drains, Untouched
  <2>2. CASE i # 1
    <3>1. i - 1 \in 1..Len(Tail(q)) /\ IsPost(Tail(q)[i - 1], k)
      BY <1>1, <1>2, <2>2 DEF IsPost
    <3>2. ASSUME NEW j \in ((i - 1) + 1)..Len(Tail(q)) PROVE Tail(q)[j].on # k
      BY <1>1, <1>2, <2>2
    <3>3. QED
      BY <3>1, <3>2 DEF Drains, LastPosts
  <2>3. QED
    BY <2>1, <2>2
<1>3. CASE ~holds /\ Untouched(q, k)
  <2>1. q[1].on # k
    BY <1>1, <1>3 DEF Untouched
  <2>2. Untouched(Tail(q), k)
    BY <1>1, <1>3 DEF Untouched
  <2>3. QED
    BY <1>3, <2>1, <2>2 DEF Drains
<1>4. QED
  BY <1>2, <1>3 DEF Drains, LastPosts

(* A place between two others, when what is before them goes.             *)
LEMMA Places ==
  ASSUME NEW n \in Nat, NEW m \in Nat, NEW j \in Nat, NEW i, m + n = i,
         j >= n + 1, j <= i - 1, NEW x \in ((j - n) + 1)..(m - 1)
  PROVE  x + n \in (j + 1)..(i - 1) /\ x \in 1..m
OBVIOUS

(* A path or a handler that leaves nothing taken, before another one.      *)
LEMMA OrderedConcatenation ==
  ASSUME NEW p \in Seq(Op), NEW q \in Seq(Op), NEW k,
         NEW holds \in BOOLEAN, NEW next \in BOOLEAN, NEW strict \in BOOLEAN,
         Drains(p, k, FALSE), Ordered(p, k, holds, strict),
         Ordered(q, k, next, strict),
         holds /\ Untouched(p, k) => next
  PROVE  Ordered(p \o q, k, holds, strict)
<1> DEFINE r == p \o q
           n == Len(p)
<1>1. /\ n \in Nat /\ Len(q) \in Nat /\ Len(r) = n + Len(q)
      /\ \A j \in 1..n : r[j] = p[j]
      /\ \A j \in (n + 1)..(n + Len(q)) : r[j] = q[j - n]
  BY Concatenation
<1> HIDE DEF r
<1>2. SUFFICES ASSUME NEW i \in 1..Len(r), r[i].op = "wait", HeldAt(r, i, k, holds)
               PROVE  Allowed(k, r[i].on, strict)
  BY DEF Ordered, r
<1>3. CASE i <= n
  <2>1. i \in 1..n /\ r[i] = p[i]
    BY <1>1, <1>3
  <2>2. \A j \in 1..(i - 1) : r[j] = p[j]
    BY <1>1, <2>1
  <2>3. HeldAt(p, i, k, holds)
    BY <1>2, <2>1, <2>2 DEF HeldAt, MatchedAt, UntouchedBefore, IsWait
  <2>4. QED
    BY <1>2, <2>1, <2>3 DEF Ordered
<1>4. CASE i > n
  <2> DEFINE m == i - n
  <2>1. /\ m \in 1..Len(q) /\ r[i] = q[m]
        /\ \A j \in 1..Len(q) : r[j + n] = q[j]
    <3>1. m \in 1..Len(q) /\ r[i] = q[m]
      BY <1>1, <1>4
    <3>2. ASSUME NEW j \in 1..Len(q) PROVE r[j + n] = q[j]
      <4>1. j + n \in (n + 1)..(n + Len(q)) /\ (j + n) - n = j
        BY <1>1
      <4>2. QED
        BY <1>1, <4>1
    <3>3. QED
      BY <3>1, <3>2
  <2>0. m + n = i /\ m \in Nat
    BY <1>1, <1>4
  <2> HIDE DEF m
  <2>2. HeldAt(q, m, k, next)
    <3>1. ASSUME NEW j \in 1..(i - 1), IsWait(r[j], k),
                 \A x \in (j + 1)..(i - 1) : r[x].on # k
          PROVE  MatchedAt(q, m, k)
      <4>1. CASE j > n
        <5>1. j - n \in 1..(m - 1) /\ IsWait(q[j - n], k)
          BY <1>1, <2>1, <2>0, <3>1, <4>1 DEF IsWait
        <5>2. ASSUME NEW x \in ((j - n) + 1)..(m - 1) PROVE q[x].on # k
          <6>1. n \in Nat /\ m \in Nat /\ j \in Nat /\ m + n = i /\ j >= n + 1 /\ j <= i - 1
            BY <1>1, <2>0, <4>1
          <6>2. x + n \in (j + 1)..(i - 1) /\ x \in 1..m
            BY <6>1, Places, Zenon
          <6>3. x \in 1..Len(q)
            BY <1>1, <2>0, <2>1, <6>2
          <6>4. QED
            BY <2>1, <3>1, <6>2, <6>3
        <5>3. QED
          BY <5>1, <5>2 DEF MatchedAt
      <4>2. CASE j <= n
        <5>1. j \in 1..n /\ IsWait(p[j], k) /\ \A x \in (j + 1)..n : p[x].on # k
          BY <1>1, <1>4, <3>1, <4>2 DEF IsWait
        <5>2. PICK x \in 1..n : IsPost(p[x], k) /\ \A y \in (x + 1)..n : p[y].on # k
          BY <5>1 DEF Drains, LastPosts, Untouched, IsWait
        <5>3. x = j
          BY <1>1, <5>1, <5>2 DEF IsWait, IsPost
        <5>4. QED
          BY <5>1, <5>2, <5>3 DEF IsWait, IsPost
      <4>3. QED
        BY <1>1, <4>1, <4>2
    <3>2. CASE holds /\ UntouchedBefore(r, i, k)
      <4>1. Untouched(p, k)
        BY <1>1, <1>4, <3>2 DEF Untouched, UntouchedBefore
      <4>2. ASSUME NEW x \in 1..(m - 1) PROVE q[x].on # k
        <5>1. x + n \in 1..(i - 1) /\ x \in 1..Len(q)
          BY <1>1, <2>1, <2>0
        <5>2. QED
          BY <2>1, <3>2, <5>1 DEF UntouchedBefore
      <4>3. QED
        BY <3>2, <4>1, <4>2 DEF HeldAt, UntouchedBefore
    <3>3. QED
      BY <1>2, <3>1, <3>2 DEF HeldAt, MatchedAt
  <2>3. QED
    BY <1>2, <2>1, <2>2 DEF Ordered
<1>5. QED
  BY <1>1, <1>3, <1>4

LEMMA DrainsConcatenation ==
  ASSUME NEW p \in Seq(Op), NEW q \in Seq(Op), NEW k, NEW holds \in BOOLEAN,
         Drains(p, k, FALSE), Drains(q, k, holds)
  PROVE  Drains(p \o q, k, holds)
<1> DEFINE r == p \o q
           n == Len(p)
<1>1. /\ n \in Nat /\ Len(q) \in Nat /\ Len(r) = n + Len(q)
      /\ \A j \in 1..n : r[j] = p[j]
      /\ \A j \in (n + 1)..(n + Len(q)) : r[j] = q[j - n]
  BY Concatenation
<1> HIDE DEF r
<1>2. ASSUME NEW i \in 1..Len(q), IsPost(q[i], k),
             \A j \in (i + 1)..Len(q) : q[j].on # k
      PROVE  Drains(r, k, holds)
  <2>1. i + n \in 1..Len(r) /\ IsPost(r[i + n], k)
    BY <1>1, <1>2 DEF IsPost
  <2>2. ASSUME NEW j \in ((i + n) + 1)..Len(r) PROVE r[j].on # k
    <3>1. j - n \in (i + 1)..Len(q) /\ r[j] = q[j - n]
      BY <1>1
    <3>2. QED
      BY <1>2, <3>1
  <2>3. QED
    BY <2>1, <2>2 DEF Drains, LastPosts
<1>3. ASSUME Untouched(q, k), ~holds, NEW i \in 1..n, IsPost(p[i], k),
             \A j \in (i + 1)..n : p[j].on # k
      PROVE  Drains(r, k, holds)
  <2>1. i \in 1..Len(r) /\ IsPost(r[i], k)
    BY <1>1, <1>3 DEF IsPost
  <2>2. ASSUME NEW j \in (i + 1)..Len(r) PROVE r[j].on # k
    BY <1>1, <1>3 DEF Untouched
  <2>3. QED
    BY <2>1, <2>2 DEF Drains, LastPosts
<1>4. ASSUME Untouched(q, k), ~holds, Untouched(p, k) PROVE Drains(r, k, holds)
  <2>1. ASSUME NEW j \in 1..Len(r) PROVE r[j].on # k
    <3>1. CASE j <= n
      BY <1>1, <1>4, <3>1 DEF Untouched
    <3>2. CASE j > n
      <4>1. j - n \in 1..Len(q) /\ r[j] = q[j - n]
        BY <1>1, <3>2
      <4>2. QED
        BY <1>4, <4>1 DEF Untouched
    <3>3. QED
      BY <1>1, <3>1, <3>2
  <2>2. QED
    BY <1>4, <2>1 DEF Drains, Untouched
<1>5. Drains(r, k, holds)
  BY <1>2, <1>3, <1>4 DEF Drains, LastPosts
<1>6. QED
  BY <1>5 DEF r

(* What is put before what a thread has left: it leaves nothing taken, and *)
(* takes its locks in order although its thread may hold k, or not.        *)
Fits(p, k, holds, strict) ==
  p \in Seq(Op) /\ Drains(p, k, FALSE) /\ Ordered(p, k, holds, strict)

LEMMA FitsWeaker ==
  ASSUME NEW p, NEW k, NEW holds \in BOOLEAN, NEW strict \in BOOLEAN,
         Fits(p, k, holds, TRUE)
  PROVE  Fits(p, k, FALSE, strict)
BY DEF Fits, Ordered, HeldAt, Allowed

LEMMA FitsConcatenation ==
  ASSUME NEW p, NEW q, NEW k, NEW holds \in BOOLEAN, NEW next \in BOOLEAN,
         NEW strict \in BOOLEAN,
         Fits(p, k, holds, strict), Fits(q, k, next, strict),
         holds /\ Untouched(p, k) => next
  PROVE  Fits(p \o q, k, holds, strict)
<1>1. p \in Seq(Op) /\ q \in Seq(Op)
  BY DEF Fits
<1>2. p \o q \in Seq(Op)
  BY <1>1, Concatenation
<1>3. Drains(p \o q, k, FALSE)
  BY <1>1, DrainsConcatenation DEF Fits
<1>4. Ordered(p \o q, k, holds, strict)
  BY <1>1, OrderedConcatenation, Zenon DEF Fits
<1>5. QED
  BY <1>2, <1>3, <1>4 DEF Fits

(* An operation that takes no lock while k is held.                        *)
LEMMA FitsOne ==
  ASSUME NEW o \in Op, NEW k, o.on # k, NEW holds \in BOOLEAN, NEW strict \in BOOLEAN,
         o.op = "wait" /\ holds => Allowed(k, o.on, strict)
  PROVE  Fits(<<o>>, k, holds, strict)
<1>1. <<o>> \in Seq(Op) /\ Len(<<o>>) = 1 /\ <<o>>[1] = o
  OBVIOUS
<1> DEFINE s == <<o>>
<1> HIDE DEF s
<1>2. s \in Seq(Op) /\ Len(s) = 1 /\ s[1] = o
  BY <1>1 DEF s
<1>3. Drains(s, k, FALSE)
  BY <1>2 DEF Drains, Untouched
<1>4. Ordered(s, k, holds, strict)
  <2>1. ~MatchedAt(s, 1, k)
    BY DEF MatchedAt
  <2>2. QED
    BY <1>2, <2>1 DEF Ordered, HeldAt
<1>5. QED
  BY <1>2, <1>3, <1>4 DEF Fits, s

(* A critical section of another semaphore than k.                         *)
LEMMA FitsAround ==
  ASSUME NEW p, NEW l \in Semaphores, NEW k, l # k, NEW holds \in BOOLEAN,
         NEW strict \in BOOLEAN, Fits(p, k, holds, strict),
         holds => Allowed(k, l, strict)
  PROVE  Fits(Inside(l, p), k, holds, strict)
<1>1. /\ Wait(l) \in Op /\ Post(l) \in Op
      /\ Wait(l).on = l /\ Post(l).on = l /\ Post(l).op # "wait"
  BY Operations DEF Wait, Post
<1>2. Fits(<<Wait(l)>>, k, holds, strict) /\ Fits(<<Post(l)>>, k, holds, strict)
  BY <1>1, FitsOne
<1>3. Fits(<<Wait(l)>> \o p, k, holds, strict)
  BY <1>2, FitsConcatenation, Zenon
<1>4. Fits((<<Wait(l)>> \o p) \o <<Post(l)>>, k, holds, strict)
  BY <1>2, <1>3, FitsConcatenation, Zenon
<1>5. Inside(l, p) = (<<Wait(l)>> \o p) \o <<Post(l)>>
  BY InsidePlaces DEF Fits
<1>6. QED
  BY <1>4, <1>5

(* A critical section of k, inside which only what k comes before is taken.*)
LEMMA FitsWithin ==
  ASSUME NEW p \in Seq(Op), NEW k \in Semaphores, Untouched(p, k),
         \A i \in 1..Len(p) : p[i].op = "wait" => Before(k, p[i].on),
         NEW holds \in BOOLEAN, NEW strict \in BOOLEAN, holds => ~strict
  PROVE  Fits(Inside(k, p), k, holds, strict)
<1> DEFINE r == Inside(k, p)
<1>1. /\ r \in Seq(Op) /\ Len(p) \in Nat /\ Len(r) = 2 + Len(p)
      /\ r[1] = Wait(k)
      /\ \A i \in 2..(1 + Len(p)) : r[i] = p[i - 1]
      /\ r[2 + Len(p)] = Post(k)
  BY InsidePlaces
<1>2. IsPost(Post(k), k) /\ Post(k).op # "wait" /\ Wait(k).on = k
  BY DEF IsPost, Post, Wait
<1> HIDE DEF r
<1>3. Drains(r, k, FALSE)
  BY <1>1, <1>2 DEF Drains, LastPosts
<1>4. ASSUME NEW i \in 1..Len(r), r[i].op = "wait", HeldAt(r, i, k, holds)
      PROVE  Allowed(k, r[i].on, strict)
  <2>1. CASE i = 1
    <3>1. ~MatchedAt(r, 1, k)
      BY DEF MatchedAt
    <3>2. holds /\ r[i].on = k
      BY <1>1, <1>2, <1>4, <2>1, <3>1 DEF HeldAt
    <3>3. QED
      BY <3>2 DEF Allowed
  <2>2. CASE i \in 2..(1 + Len(p))
    <3>1. i - 1 \in 1..Len(p) /\ r[i] = p[i - 1]
      BY <1>1, <2>2
    <3>2. QED
      BY <1>4, <3>1 DEF Allowed
  <2>3. i # 2 + Len(p)
    BY <1>1, <1>2, <1>4
  <2>4. QED
    BY <1>1, <2>1, <2>2, <2>3
<1>5. QED
  BY <1>1, <1>3, <1>4 DEF Fits, Ordered, r

(* log_info and its repetitions take no lock but that of the log.          *)
OnlyLog(p) ==
  p \in Seq(Op) /\ \A i \in 1..Len(p) : p[i].op \in {"wait", "post"} /\ p[i].on = "log"

LEMMA OnlyLogConcatenation ==
  ASSUME NEW p, NEW q, OnlyLog(p), OnlyLog(q)
  PROVE  OnlyLog(p \o q)
<1>1. /\ p \o q \in Seq(Op)
      /\ Len(p) \in Nat /\ Len(q) \in Nat /\ Len(p \o q) = Len(p) + Len(q)
      /\ \A i \in 1..Len(p) : (p \o q)[i] = p[i]
      /\ \A i \in (Len(p) + 1)..(Len(p) + Len(q)) : (p \o q)[i] = q[i - Len(p)]
  BY Concatenation, Zenon DEF OnlyLog
<1>2. QED
  BY <1>1 DEF OnlyLog

LEMMA LogFits ==
  /\ OnlyLog(log_info) /\ ~Untouched(log_info, "log")
  /\ \A k \in Semaphores : Fits(log_info, k, TRUE, FALSE) /\ Fits(log_info, k, FALSE, TRUE)
<1>1. log_info = Inside("log", <<>>) /\ "log" \in Semaphores
  BY DEF log_info, Section, Semaphores
<1>2. <<>> \in Seq(Op) /\ Len(<<>>) = 0
  OBVIOUS
<1>3. /\ log_info \in Seq(Op) /\ Len(log_info) = 2
      /\ log_info[1] = Wait("log") /\ log_info[2] = Post("log")
  <2> DEFINE e == <<>>
  <2>1. e \in Seq(Op) /\ Len(e) = 0 /\ log_info = Inside("log", e)
    BY <1>1, <1>2
  <2> HIDE DEF e
  <2>2. /\ Inside("log", e) \in Seq(Op) /\ Len(Inside("log", e)) = 2 + Len(e)
        /\ Inside("log", e)[1] = Wait("log") /\ Inside("log", e)[2 + Len(e)] = Post("log")
    BY <1>1, <2>1, InsidePlaces
  <2>3. 2 + Len(e) = 2
    BY <2>1
  <2>4. QED
    BY <2>1, <2>2, <2>3
<1>4. OnlyLog(log_info) /\ ~Untouched(log_info, "log")
  BY <1>3 DEF OnlyLog, Untouched, Wait, Post
<1>5. Fits(log_info, "log", TRUE, FALSE) /\ Fits(log_info, "log", FALSE, TRUE)
  <2>1. Untouched(<<>>, "log") /\ \A i \in 1..Len(<<>>) : FALSE
    BY DEF Untouched
  <2>2. QED
    BY <1>1, <1>2, <2>1, FitsWithin
<1>6. ASSUME NEW k \in Semaphores, k # "log"
      PROVE  Fits(log_info, k, TRUE, FALSE) /\ Fits(log_info, k, FALSE, TRUE)
  <2>1. \A holds, strict \in BOOLEAN : Fits(<<>>, k, holds, strict)
    BY DEF Fits, Ordered, Drains, Untouched
  <2>2. Allowed(k, "log", FALSE)
    BY <1>6 DEF Allowed, Before
  <2>3. Fits(Inside("log", <<>>), k, TRUE, FALSE)
    BY <1>1, <1>6, <2>1, <2>2, FitsAround
  <2>4. Fits(Inside("log", <<>>), k, FALSE, TRUE)
    BY <1>1, <1>6, <2>1, FitsAround
  <2>5. QED
    BY <1>1, <2>3, <2>4
<1>7. QED
  BY <1>4, <1>5, <1>6

LEMMA LogTwiceFits ==
  /\ OnlyLog(log_info \o log_info)
  /\ \A k \in Semaphores : /\ Fits(log_info \o log_info, k, TRUE, FALSE)
                           /\ Fits(log_info \o log_info, k, FALSE, TRUE)
<1>1. ASSUME NEW k \in Semaphores
      PROVE  /\ Fits(log_info \o log_info, k, TRUE, FALSE)
             /\ Fits(log_info \o log_info, k, FALSE, TRUE)
  BY LogFits, FitsConcatenation
<1>2. QED
  BY <1>1, LogFits, OnlyLogConcatenation

(* A section of the pool or the ledger in which at most the log is taken.  *)
LEMMA SectionFits ==
  ASSUME NEW p, OnlyLog(p), NEW l \in Semaphores, l # "log", NEW k \in Semaphores,
         Fits(p, k, FALSE, TRUE)
  PROVE  Fits(Inside(l, p), k, FALSE, TRUE)
<1>1. CASE l = k
  <2>1. p \in Seq(Op) /\ Untouched(p, k)
    BY <1>1 DEF OnlyLog, Untouched
  <2>2. \A i \in 1..Len(p) : p[i].op = "wait" => Before(k, p[i].on)
    BY <1>1 DEF OnlyLog, Before
  <2>3. QED
    BY <1>1, <2>1, <2>2, FitsWithin
<1>2. CASE l # k
  BY <1>2, FitsAround
<1>3. QED
  BY <1>1, <1>2

(* The paths of every role take the locks in order, when the thread holds  *)
(* nothing before.                                                         *)
LEMMA PathsFit ==
  ASSUME NEW role \in DOMAIN SignalsOf, NEW p \in PathsOf[role], NEW k \in Semaphores
  PROVE  Fits(p, k, FALSE, TRUE)
<1>1. OnlyLog(<<>>) /\ Fits(<<>>, k, FALSE, TRUE)
  BY DEF OnlyLog, Fits, Ordered, Drains, Untouched
<1>2. /\ Section("pool") = Inside("pool", <<>>) /\ Section("ledger") = Inside("ledger", <<>>)
      /\ "pool" \in Semaphores /\ "ledger" \in Semaphores
  BY DEF Section, Semaphores
<1>3. Fits(Section("pool"), k, FALSE, TRUE) /\ Fits(Section("ledger"), k, FALSE, TRUE)
  BY <1>1, <1>2, SectionFits
<1>4. /\ Fits(Inside("pool", log_info), k, FALSE, TRUE)
      /\ Fits(Inside("ledger", log_info), k, FALSE, TRUE)
      /\ Fits(Inside("pool", log_info \o log_info), k, FALSE, TRUE)
  BY <1>2, LogFits, LogTwiceFits, SectionFits
<1>5. p \in {Section("pool"), Section("ledger"), log_info,
             Inside("pool", log_info), Inside("ledger", log_info),
             Inside("pool", log_info \o log_info)}
  BY DEF PathsOf, SignalsOf, TxGenPaths, MinerPaths, ValidatorPaths, NemesisPaths,
         CheckPoolPaths, CommitPaths, StatisticsPaths, LauncherPaths
<1>6. QED
  BY <1>3, <1>4, <1>5, LogFits

LEMMA ExitFits ==
  ASSUME NEW k \in Semaphores, NEW holds \in BOOLEAN, NEW strict \in BOOLEAN
  PROVE  Fits(<<Exit>>, k, holds, strict)
<1>1. Exit \in Op /\ Exit.on # k /\ Exit.op # "wait"
  BY Operations DEF Exit
<1>2. QED
  BY <1>1, FitsOne

(* dump_ledger, of the controller, takes the ledger, and then the log.     *)
LEMMA DumpFits ==
  /\ Fits(dump_ledger, "ledger", TRUE, FALSE)
  /\ Fits(dump_ledger, "log", FALSE, FALSE)
  /\ Fits(dump_ledger, "pool", FALSE, FALSE)
  /\ Untouched(dump_ledger, "pool")
<1>1. /\ "ledger" \in Semaphores /\ "log" \in Semaphores /\ "pool" \in Semaphores
      /\ log_info \in Seq(Op)
  BY LogFits DEF Semaphores, OnlyLog
<1>2. Fits(Inside("ledger", log_info), "ledger", TRUE, FALSE)
  <2>1. Untouched(log_info, "ledger")
    BY LogFits DEF OnlyLog, Untouched
  <2>2. \A i \in 1..Len(log_info) : log_info[i].op = "wait" => Before("ledger", log_info[i].on)
    BY LogFits DEF OnlyLog, Before
  <2>3. QED
    BY <1>1, <2>1, <2>2, FitsWithin
<1>3. Fits(log_info, "log", FALSE, FALSE) /\ Fits(log_info, "pool", FALSE, FALSE)
  BY <1>1, LogFits, FitsWeaker
<1>4. /\ Fits(Inside("ledger", log_info), "log", FALSE, FALSE)
      /\ Fits(Inside("ledger", log_info), "pool", FALSE, FALSE)
  BY <1>1, <1>3, FitsAround
<1>5. Untouched(Inside("ledger", log_info), "pool")
  <2> DEFINE r == Inside("ledger", log_info)
  <2>1. /\ Len(log_info) \in Nat /\ Len(r) = 2 + Len(log_info)
        /\ r[1] = Wait("ledger")
        /\ \A i \in 2..(1 + Len(log_info)) : r[i] = log_info[i - 1]
        /\ r[2 + Len(log_info)] = Post("ledger")
    BY <1>1, InsidePlaces
  <2>2. Wait("ledger").on # "pool" /\ Post("ledger").on # "pool"
    BY DEF Wait, Post
  <2> HIDE DEF r
  <2>3. ASSUME NEW i \in 1..Len(r) PROVE r[i].on # "pool"
    <3>1. CASE i \in 2..(1 + Len(log_info))
      <4>1. i - 1 \in 1..Len(log_info) /\ r[i] = log_info[i - 1]
        BY <2>1, <3>1
      <4>2. QED
        BY <4>1, LogFits DEF OnlyLog
    <3>2. QED
      BY <2>1, <2>2, <3>1
  <2>4. QED
    BY <2>3 DEF Untouched, r
<1>6. dump_ledger = Inside("ledger", log_info)
  BY DEF dump_ledger
<1>7. QED
  <2>1. Fits(dump_ledger, "ledger", TRUE, FALSE)
    BY <1>2, <1>6, Zenon
  <2>2. Fits(dump_ledger, "log", FALSE, FALSE) /\ Fits(dump_ledger, "pool", FALSE, FALSE)
    BY <1>4, <1>6, Zenon
  <2>3. Untouched(dump_ledger, "pool")
    BY <1>5, <1>6, Zenon
  <2>4. QED
    BY <2>1, <2>2, <2>3

LEMMA UntouchedConcatenation ==
  ASSUME NEW p \in Seq(Op), NEW q \in Seq(Op), NEW l, Untouched(p, l), Untouched(q, l)
  PROVE  Untouched(p \o q, l)
<1>1. /\ Len(p) \in Nat /\ Len(q) \in Nat /\ Len(p \o q) = Len(p) + Len(q)
      /\ \A i \in 1..Len(p) : (p \o q)[i] = p[i]
      /\ \A i \in (Len(p) + 1)..(Len(p) + Len(q)) : (p \o q)[i] = q[i - Len(p)]
  BY Concatenation
<1>2. QED
  BY <1>1 DEF Untouched

(* A thread that may hold k may be interrupted by a handler; the handlers  *)
(* of the controller take the ledger, and never find it with the pool.     *)
LEMMA HandlersFit ==
  ASSUME NEW t \in Threads, NEW s \in SentTo[t], s # "cancel", NEW k \in Semaphores
  PROVE  /\ \A holds \in BOOLEAN :
              ~(k = "pool" /\ Role[t] = "controller" /\ holds)
                => Fits(Handlers[Role[t]][s], k, holds, FALSE)
         /\ Role[t] = "controller" => Untouched(Handlers[Role[t]][s], "pool")
<1>1. Role[t] \in DOMAIN SignalsOf /\ s \in SignalsOf[Role[t]]
  BY LocksAssumption
<1> DEFINE h == Handlers[Role[t]][s]
<1>2. /\ Fits(log_info, k, TRUE, FALSE) /\ Fits(log_info, k, FALSE, FALSE)
      /\ Fits(log_info \o log_info, k, TRUE, FALSE)
      /\ Fits(log_info \o log_info, k, FALSE, FALSE)
  BY LogFits, LogTwiceFits, FitsWeaker
<1>3. \A holds \in BOOLEAN : /\ Fits(<<Exit>>, k, holds, FALSE)
                             /\ Fits(log_info, k, holds, FALSE)
                             /\ Fits(log_info \o log_info, k, holds, FALSE)
  BY <1>2, ExitFits
<1>4. ASSUME NEW holds \in BOOLEAN
      PROVE  /\ Fits(log_info \o <<Exit>>, k, holds, FALSE)
             /\ Fits((log_info \o log_info) \o <<Exit>>, k, holds, FALSE)
  BY <1>3, FitsConcatenation
<1>5. CASE Role[t] # "controller"
  <2>1. h \in {<<Exit>>, log_info \o <<Exit>>, (log_info \o log_info) \o <<Exit>>,
               log_info \o log_info}
    <3>1. CASE Role[t] = "txgen"
      BY <1>1, <3>1 DEF Handlers, SignalsOf
    <3>2. CASE Role[t] = "validator"
      <4>1. s = "SIGTERM"
        BY <1>1, <3>2 DEF SignalsOf
      <4>2. Handlers["validator"]["SIGTERM"] = log_info \o <<Exit>>
        BY DEF Handlers
      <4>3. QED
        BY <3>2, <4>1, <4>2, Zenon
    <3>3. CASE Role[t] = "statistics"
      <4>1. s \in {"SIGTERM", "SIGUSR1"}
        BY <1>1, <3>3 DEF SignalsOf
      <4>2. /\ Handlers["statistics"]["SIGTERM"] = (log_info \o log_info) \o <<Exit>>
            /\ Handlers["statistics"]["SIGUSR1"] = log_info \o log_info
        BY DEF Handlers
      <4>3. QED
        BY <3>3, <4>1, <4>2, Zenon
    <3>4. Role[t] \notin {"miner", "launcher"}
      BY <1>1 DEF SignalsOf
    <3>5. QED
      BY <1>1, <1>5, <3>1, <3>2, <3>3, <3>4 DEF SignalsOf
  <2> HIDE DEF h
  <2>2. \A holds \in BOOLEAN : Fits(h, k, holds, FALSE)
    BY <1>3, <1>4, <2>1
  <2>3. QED
    BY <1>5, <2>2 DEF h
<1>6. CASE Role[t] = "controller"
  <2>1. h \in {(log_info \o dump_ledger) \o <<Exit>>, log_info \o dump_ledger}
    <3>1. s \in {"SIGINT", "SIGUSR1"}
      BY <1>1, <1>6 DEF SignalsOf
    <3>2. /\ Handlers["controller"]["SIGINT"] = (log_info \o dump_ledger) \o <<Exit>>
          /\ Handlers["controller"]["SIGUSR1"] = log_info \o dump_ledger
      BY DEF Handlers
    <3>3. QED
      BY <1>6, <3>1, <3>2, Zenon
  <2>2. ASSUME NEW holds \in BOOLEAN, ~(k = "pool" /\ holds)
        PROVE  Fits(log_info \o dump_ledger, k, holds, FALSE)
    <3>1. CASE k = "ledger"
      <4>1. Fits(log_info, k, TRUE, FALSE) /\ Fits(dump_ledger, k, TRUE, FALSE)
        BY <1>2, <3>1, DumpFits
      <4>2. Fits(log_info \o dump_ledger, k, TRUE, FALSE)
        BY <4>1, FitsConcatenation
      <4>3. Fits(log_info \o dump_ledger, k, FALSE, FALSE)
        BY <4>2 DEF Fits, Ordered, HeldAt
      <4>4. QED
        BY <4>2, <4>3
    <3>2. CASE k = "log"
      <4>1. Fits(log_info, k, holds, FALSE) /\ Fits(dump_ledger, k, FALSE, FALSE)
        BY <1>3, <3>2, DumpFits
      <4>2. ~Untouched(log_info, k)
        BY <3>2, LogFits
      <4>3. QED
        BY <4>1, <4>2, FitsConcatenation
    <3>3. CASE k = "pool"
      <4>1. holds = FALSE
        BY <2>2, <3>3
      <4>2. Fits(log_info, k, FALSE, FALSE) /\ Fits(dump_ledger, k, FALSE, FALSE)
        BY <1>2, <3>3, DumpFits
      <4>3. Fits(log_info \o dump_ledger, k, FALSE, FALSE)
        BY <4>2, FitsConcatenation
      <4>4. QED
        BY <4>1, <4>3
    <3>4. QED
      BY <3>1, <3>2, <3>3 DEF Semaphores
  <2>3. ASSUME NEW holds \in BOOLEAN, ~(k = "pool" /\ holds)
        PROVE  Fits((log_info \o dump_ledger) \o <<Exit>>, k, holds, FALSE)
    BY <1>3, <2>2, <2>3, FitsConcatenation
  <2>4. /\ Untouched(log_info \o dump_ledger, "pool")
        /\ Untouched((log_info \o dump_ledger) \o <<Exit>>, "pool")
    <3>1. /\ log_info \in Seq(Op) /\ dump_ledger \in Seq(Op) /\ <<Exit>> \in Seq(Op)
          /\ log_info \o dump_ledger \in Seq(Op)
      BY LogFits, DumpFits, Operations, Concatenation DEF Fits, OnlyLog
    <3>2. Untouched(log_info, "pool") /\ Untouched(dump_ledger, "pool")
      BY LogFits, DumpFits DEF OnlyLog, Untouched
    <3>3. Untouched(<<Exit>>, "pool")
      BY DEF Untouched, Exit
    <3>4. QED
      BY <3>1, <3>2, <3>3, UntouchedConcatenation
  <2> HIDE DEF h
  <2>5. QED
    BY <1>6, <2>1, <2>2, <2>3, <2>4 DEF h
<1>7. QED
  BY <1>5, <1>6

(* The controller, whose handlers take the ledger, never takes the pool.   *)
NoPoolInController ==
  \A t \in Threads :
     Role[t] = "controller" => "pool" \notin held[t] /\ Untouched(todo[t], "pool")

(* What threads have left keeps to the order, and posts what they hold.    *)
PathsOrdered ==
  \A t \in Threads, k \in Semaphores :
     Running(t) => /\ Ordered(todo[t], k, k \in held[t], ~Interrupted(t))
                   /\ Drains(todo[t], k, k \in held[t])

OrderInv == LocksInv /\ PathsOrdered /\ NoPoolInController

LEMMA OrderInit == Init => OrderInv
<1> SUFFICES ASSUME Init PROVE OrderInv
  OBVIOUS
<1>1. PathsOrdered
  BY DEF Init, PathsOrdered, Ordered, Drains, Untouched
<1>2. NoPoolInController
  BY DEF Init, NoPoolInController, Untouched
<1>3. QED
  BY <1>1, <1>2, LocksInit DEF OrderInv

(* A thread that begins a path holds nothing.                              *)
LEMMA OrderBegin ==
  ASSUME OrderInv, NEW t \in Threads, Begin(t)
  PROVE  PathsOrdered' /\ NoPoolInController'
<1>1. PICK path \in PathsOf[Role[t]] : todo' = [todo EXCEPT ![t] = path]
  BY DEF Begin
<1>2. UNCHANGED <<sem, held, signals, exited>> /\ Running(t) /\ todo[t] = <<>>
  BY DEF Begin
<1>3. LocksTypeOK
  BY DEF OrderInv, LocksInv
<1>4. ASSUME NEW u \in Threads, NEW k \in Semaphores, Running(u)'
      PROVE  /\ Ordered(todo'[u], k, k \in held'[u], ~Interrupted(u)')
             /\ Drains(todo'[u], k, k \in held'[u])
  <2>1. CASE u = t
    <3>1. Fits(path, k, FALSE, TRUE)
      BY LocksAssumption, PathsFit
    <3>2. k \notin held[t]
      <4>1. Drains(<<>>, k, k \in held[t])
        BY <1>2 DEF OrderInv, PathsOrdered
      <4>2. QED
        BY <4>1 DEF Drains, LastPosts
    <3>3. todo'[u] = path /\ (k \in held'[u]) = FALSE
      BY <1>1, <1>2, <1>3, <2>1, <3>2 DEF LocksTypeOK
    <3>4. \A strict \in BOOLEAN : Ordered(path, k, FALSE, strict)
      BY <3>1, FitsWeaker DEF Fits
    <3>5. Drains(path, k, FALSE) /\ (~Interrupted(u)') \in BOOLEAN
      BY <3>1 DEF Fits
    <3>6. Ordered(path, k, FALSE, ~Interrupted(u)')
      BY <3>4, <3>5, Zenon
    <3>7. QED
      BY <3>3, <3>5, <3>6
  <2>2. CASE u # t
    <3>1. todo'[u] = todo[u] /\ held' = held /\ Running(u) /\ Interrupted(u)' = Interrupted(u)
      BY <1>1, <1>2, <1>3, <1>4, <2>2 DEF LocksTypeOK, Running, Interrupted
    <3>2. QED
      BY <3>1 DEF OrderInv, PathsOrdered
  <2>3. QED
    BY <2>1, <2>2
<1>5. NoPoolInController'
  <2>1. ASSUME NEW u \in Threads, Role[u] = "controller"
        PROVE  "pool" \notin held'[u] /\ Untouched(todo'[u], "pool")
    <3>1. u # t
      BY <1>1, <2>1 DEF PathsOf
    <3>2. todo'[u] = todo[u] /\ held' = held
      BY <1>1, <1>2, <1>3, <3>1 DEF LocksTypeOK
    <3>3. QED
      BY <2>1, <3>2 DEF OrderInv, NoPoolInController
  <2>2. QED
    BY <2>1 DEF NoPoolInController
<1>6. QED
  BY <1>4, <1>5 DEF PathsOrdered

(* A thread goes on by one wait or one post.                               *)
LEMMA OrderOperation ==
  ASSUME OrderInv, NEW t \in Threads, SemWait(t) \/ SemPost(t)
  PROVE  PathsOrdered' /\ NoPoolInController'
<1> DEFINE q == todo[t]
           l == q[1].on
<1>1. LocksTypeOK
  BY DEF OrderInv, LocksInv
<1>2. q \in Seq(Op) /\ q # <<>> /\ Head(q) = q[1] /\ q[1] \in Op
  <2>1. q \in Seq(Op) /\ q # <<>>
    BY <1>1 DEF SemWait, SemPost, At, LocksTypeOK
  <2>2. QED
    BY <2>1, TailPlaces
<1>3. /\ todo' = [todo EXCEPT ![t] = Tail(q)]
      /\ UNCHANGED <<signals, exited>>
      /\ Running(t)
      /\ \/ q[1].op = "wait" /\ held' = [held EXCEPT ![t] = @ \cup {l}]
         \/ q[1].op = "post" /\ held' = [held EXCEPT ![t] = @ \ {l}]
  BY <1>2 DEF SemWait, SemPost, At
<1> HIDE DEF q
<1>4. ASSUME NEW u \in Threads, NEW k \in Semaphores, Running(u)'
      PROVE  /\ Ordered(todo'[u], k, k \in held'[u], ~Interrupted(u)')
             /\ Drains(todo'[u], k, k \in held'[u])
  <2>0. Running(u) /\ Interrupted(u)' = Interrupted(u)
    BY <1>3, <1>4 DEF Running, Interrupted
  <2>1. CASE u = t
    <3>1. todo'[u] = Tail(q)
      BY <1>1, <1>3, <2>1 DEF LocksTypeOK
    <3> DEFINE holds == k \in held[u]
               next == k \in held'[u]
               strict == ~Interrupted(u)
    <3>2. Ordered(q, k, holds, strict) /\ Drains(q, k, holds)
      BY <2>0, <2>1 DEF OrderInv, PathsOrdered, q
    <3>3. /\ next => IsWait(q[1], k) \/ (holds /\ q[1].on # k)
          /\ q[1].on # k => next = holds
          /\ IsPost(q[1], k) => ~next
      BY <1>1, <1>3, <2>1 DEF LocksTypeOK, IsWait, IsPost
    <3>4. holds \in BOOLEAN /\ next \in BOOLEAN /\ strict \in BOOLEAN
      OBVIOUS
    <3> HIDE DEF holds, next, strict
    <3>5. Ordered(Tail(q), k, next, strict) /\ Drains(Tail(q), k, next)
      BY <1>2, <3>2, <3>3, <3>4, OrderedTail, DrainsTail
    <3>6. (~Interrupted(u)') = strict
      BY <2>0 DEF strict
    <3>7. QED
      BY <3>1, <3>5, <3>6, Zenon DEF next
  <2>2. CASE u # t
    <3>1. todo'[u] = todo[u] /\ held'[u] = held[u]
      BY <1>1, <1>3, <2>2 DEF LocksTypeOK
    <3>2. QED
      BY <2>0, <3>1 DEF OrderInv, PathsOrdered
  <2>3. QED
    BY <2>1, <2>2
<1>5. NoPoolInController'
  <2>1. ASSUME NEW u \in Threads, Role[u] = "controller"
        PROVE  "pool" \notin held'[u] /\ Untouched(todo'[u], "pool")
    <3>1. "pool" \notin held[u] /\ Untouched(todo[u], "pool")
      BY <2>1 DEF OrderInv, NoPoolInController
    <3>2. CASE u = t
      <4>1. todo'[u] = Tail(q) /\ Untouched(q, "pool")
        BY <1>1, <1>3, <3>1, <3>2 DEF LocksTypeOK, q
      <4>2. l # "pool" /\ Untouched(Tail(q), "pool")
        BY <1>2, <4>1, TailPlaces DEF Untouched
      <4>3. "pool" \notin held'[u]
        BY <1>1, <1>3, <3>1, <3>2, <4>2 DEF LocksTypeOK
      <4>4. QED
        BY <4>1, <4>2, <4>3
    <3>3. CASE u # t
      BY <1>1, <1>3, <3>1, <3>3 DEF LocksTypeOK
    <3>4. QED
      BY <3>2, <3>3
  <2>2. QED
    BY <2>1 DEF NoPoolInController
<1>6. QED
  BY <1>4, <1>5 DEF PathsOrdered

(* A handler comes before what its thread was doing.                       *)
LEMMA OrderDeliver ==
  ASSUME OrderInv, NEW t \in Threads, NEW s \in signals[t], Deliver(t, s)
  PROVE  PathsOrdered' /\ NoPoolInController'
<1> DEFINE p == Handlers[Role[t]][s]
           q == todo[t]
<1>1. LocksTypeOK /\ HandlersLeft
  BY DEF OrderInv, LocksInv
<1>2. /\ signals' = [signals EXCEPT ![t] = @ \ {s}]
      /\ todo' = [todo EXCEPT ![t] = p \o q]
      /\ UNCHANGED <<sem, held, exited>>
      /\ Running(t) /\ s # "cancel"
  BY DEF Deliver
<1>3. s \in SentTo[t] /\ q \in Seq(Op)
  BY <1>1 DEF HandlersLeft, LocksTypeOK
<1>4. ASSUME NEW k \in Semaphores, NEW holds \in BOOLEAN,
             ~(k = "pool" /\ Role[t] = "controller" /\ holds)
      PROVE  Fits(p, k, holds, FALSE) /\ p \in Seq(Op) /\ Drains(p, k, FALSE)
  BY <1>2, <1>3, <1>4, HandlersFit DEF Fits
<1>5. Role[t] = "controller" => Untouched(p, "pool")
  BY <1>2, <1>3, HandlersFit DEF Semaphores
<1>6. p \in Seq(Op)
  BY <1>4 DEF Semaphores
<1> HIDE DEF p, q
<1>7. ASSUME NEW u \in Threads, NEW k \in Semaphores, Running(u)'
      PROVE  /\ Ordered(todo'[u], k, k \in held'[u], ~Interrupted(u)')
             /\ Drains(todo'[u], k, k \in held'[u])
  <2>1. CASE u = t
    <3> DEFINE holds == k \in held[t]
    <3>1. todo'[u] = p \o q /\ (k \in held'[u]) = holds
      BY <1>1, <1>2, <2>1 DEF LocksTypeOK
    <3>2. Interrupted(u)'
      BY <1>1, <1>2, <1>3, <2>1 DEF LocksTypeOK, Interrupted
    <3>3. Drains(q, k, holds) /\ Ordered(q, k, holds, ~Interrupted(t))
      BY <1>2 DEF OrderInv, PathsOrdered, q
    <3>4. Ordered(q, k, holds, FALSE)
      BY <3>3 DEF Ordered, Allowed
    <3>5. ~(k = "pool" /\ Role[t] = "controller" /\ holds) /\ holds \in BOOLEAN
      BY DEF OrderInv, NoPoolInController
    <3> HIDE DEF holds
    <3>6. Fits(p, k, holds, FALSE)
      BY <1>4, <3>5
    <3>7. Ordered(p \o q, k, holds, FALSE) /\ Drains(p \o q, k, holds)
      BY <1>3, <3>3, <3>4, <3>5, <3>6, OrderedConcatenation, DrainsConcatenation DEF Fits
    <3>8. (~Interrupted(u)') = FALSE
      BY <3>2
    <3>9. QED
      BY <3>1, <3>7, <3>8, Zenon
  <2>2. CASE u # t
    <3>1. todo'[u] = todo[u] /\ held' = held /\ Running(u) /\ Interrupted(u)' = Interrupted(u)
      BY <1>1, <1>2, <1>7, <2>2 DEF LocksTypeOK, Running, Interrupted
    <3>2. QED
      BY <3>1 DEF OrderInv, PathsOrdered
  <2>3. QED
    BY <2>1, <2>2
<1>8. NoPoolInController'
  <2>1. ASSUME NEW u \in Threads, Role[u] = "controller"
        PROVE  "pool" \notin held'[u] /\ Untouched(todo'[u], "pool")
    <3>1. "pool" \notin held'[u] /\ Untouched(todo[u], "pool")
      BY <1>2, <2>1 DEF OrderInv, NoPoolInController
    <3>2. CASE u = t
      <4>1. todo'[u] = p \o q /\ Untouched(q, "pool") /\ Untouched(p, "pool")
        BY <1>1, <1>2, <1>5, <2>1, <3>1, <3>2 DEF LocksTypeOK, q
      <4>2. QED
        BY <1>3, <1>6, <3>1, <4>1, UntouchedConcatenation
    <3>3. CASE u # t
      BY <1>1, <1>2, <3>1, <3>3 DEF LocksTypeOK
    <3>4. QED
      BY <3>2, <3>3
  <2>2. QED
    BY <2>1 DEF NoPoolInController
<1>9. QED
  BY <1>7, <1>8 DEF PathsOrdered

(* Of a thread that ends nothing is asked.                                 *)
LEMMA OrderEnds ==
  ASSUME OrderInv, NEW t \in Threads, Ends(t),
         \A u \in Threads : u # t => signals'[u] = signals[u]
  PROVE  PathsOrdered' /\ NoPoolInController'
<1>1. LocksTypeOK
  BY DEF OrderInv, LocksInv
<1>2. /\ exited' = exited \cup {t}
      /\ todo' = [todo EXCEPT ![t] = <<>>]
      /\ UNCHANGED <<sem, held>>
  BY DEF Ends
<1>3. ASSUME NEW u \in Threads, NEW k \in Semaphores, Running(u)'
      PROVE  /\ Ordered(todo'[u], k, k \in held'[u], ~Interrupted(u)')
             /\ Drains(todo'[u], k, k \in held'[u])
  <2>1. u # t
    BY <1>2, <1>3 DEF Running
  <2>2. todo'[u] = todo[u] /\ held' = held /\ Running(u) /\ Interrupted(u)' = Interrupted(u)
    BY <1>1, <1>2, <1>3, <2>1 DEF LocksTypeOK, Running, Interrupted
  <2>3. QED
    BY <2>2 DEF OrderInv, PathsOrdered
<1>4. ASSUME NEW u \in Threads, Role[u] = "controller"
      PROVE  "pool" \notin held'[u] /\ Untouched(todo'[u], "pool")
  <2>1. todo'[u] = todo[u] \/ todo'[u] = <<>>
    BY <1>1, <1>2 DEF LocksTypeOK
  <2>2. QED
    BY <1>2, <1>4, <2>1 DEF OrderInv, NoPoolInController, Untouched
<1>5. QED
  BY <1>3, <1>4 DEF PathsOrdered, NoPoolInController

LEMMA OrderNext == OrderInv /\ [Next]_vars => OrderInv'
<1> SUFFICES ASSUME OrderInv, [Next]_vars PROVE OrderInv'
  OBVIOUS
<1>1. LocksInv'
  BY LocksNext DEF OrderInv
<1>2. ASSUME NEW t \in Threads, ThreadNext(t) PROVE PathsOrdered' /\ NoPoolInController'
  <2>1. CASE Begin(t)
    BY <2>1, OrderBegin
  <2>2. CASE SemWait(t) \/ SemPost(t)
    BY <2>2, OrderOperation
  <2>3. CASE ThreadExits(t)
    BY <2>3, OrderEnds DEF ThreadExits
  <2>4. CASE \E s \in signals[t] : Deliver(t, s)
    BY <2>4, OrderDeliver
  <2>5. CASE Cancel(t)
    <3>1. Ends(t) /\ signals' = [signals EXCEPT ![t] = {}]
      BY <2>5 DEF Cancel
    <3>2. \A u \in Threads : u # t => signals'[u] = signals[u]
      BY <3>1 DEF OrderInv, LocksInv, LocksTypeOK
    <3>3. QED
      BY <3>1, <3>2, OrderEnds
  <2>6. QED
    BY <1>2, <2>1, <2>2, <2>3, <2>4, <2>5 DEF ThreadNext
<1>3. CASE UNCHANGED vars
  <2>1. todo' = todo /\ held' = held /\ signals' = signals /\ exited' = exited
    BY <1>3 DEF vars
  <2>2. PathsOrdered' /\ NoPoolInController'
    BY <2>1 DEF OrderInv, PathsOrdered, NoPoolInController, Running, Interrupted
  <2>3. QED
    BY <1>1, <2>2 DEF OrderInv
<1>4. QED
  BY <1>1, <1>2, <1>3 DEF Next, OrderInv

THEOREM OrderCorrect == Spec => []OrderInv
BY OrderInit, OrderNext, PTL DEF Spec

(* The first wait of what is left is one at which the thread holds what it *)
(* holds.                                                                  *)
LEMMA OrderHolds == OrderInv => LockOrder
<1> SUFFICES ASSUME OrderInv, NEW t \in Threads, NEW k \in Semaphores,
                    NEW l \in Semaphores, Waiting(t, l), k \in held[t]
             PROVE  Before(k, l) \/ (k = l /\ Interrupted(t))
  BY DEF LockOrder
<1> DEFINE q == todo[t]
<1>1. q \in Seq(Op) /\ q # <<>> /\ Running(t) /\ Head(q).op = "wait" /\ Head(q).on = l
  BY DEF Waiting, At, OrderInv, LocksInv, LocksTypeOK
<1>2. Len(q) \in Nat /\ Len(q) >= 1 /\ q[1].op = "wait" /\ q[1].on = l
  BY <1>1, TailPlaces
<1>3. Ordered(q, k, k \in held[t], ~Interrupted(t))
  BY <1>1 DEF OrderInv, PathsOrdered
<1>4. HeldAt(q, 1, k, k \in held[t])
  BY DEF HeldAt, UntouchedBefore
<1>5. Allowed(k, l, ~Interrupted(t))
  <2> HIDE DEF q
  <2>1. QED
    BY <1>2, <1>3, <1>4 DEF Ordered
<1>6. QED
  BY <1>5 DEF Allowed

(* The locks are taken in an order on every path that no handler has come  *)
(* to, and a handler waits out of order only for what its thread holds.    *)
THEOREM LocksInOrder == Spec => []LockOrder
BY OrderCorrect, OrderHolds, PTL

(* Who waits for ever waits, in the end, for a thread that ended or for    *)
(* itself: the holder of the log is never blocked by another thread, and   *)
(* the holder of another lock only by that of the log.                     *)
LEMMA BlockedInvariant == OrderInv => BlockedOnlyBySignal
<1> SUFFICES ASSUME OrderInv, NEW t \in Threads, Blocked(t), Abandoned = {},
                    ~ \E u \in Threads : SelfWait(u) /\ Interrupted(u)
             PROVE  \E u \in Threads : Running(u) /\ todo[u] # <<>> /\ ~Blocked(u)
  BY DEF BlockedOnlyBySignal
<1>1. LockOrder /\ MutualExclusion
  BY OrderHolds DEF OrderInv, LocksInv
<1>2. ASSUME NEW l \in Semaphores, sem[l] = 0
      PROVE  \E u \in Threads : l \in held[u] /\ Running(u) /\ todo[u] # <<>>
  <2>1. PICK u \in Threads : l \in held[u]
    BY <1>1, <1>2 DEF MutualExclusion
  <2>2. Running(u)
    BY <2>1 DEF Abandoned, Running
  <2>3. Drains(todo[u], l, l \in held[u])
    BY <2>2 DEF OrderInv, PathsOrdered
  <2>4. todo[u] # <<>>
    BY <2>1, <2>3 DEF Drains, LastPosts
  <2>5. QED
    BY <2>1, <2>2, <2>4
<1>3. ASSUME NEW u \in Threads, NEW k \in held[u], NEW l \in Semaphores,
             Waiting(u, l), k \in Semaphores
      PROVE  k # "log" /\ l = "log"
  <2>1. Before(k, l) \/ (k = l /\ Interrupted(u))
    BY <1>1, <1>3 DEF LockOrder
  <2>2. ~(k = l /\ Interrupted(u))
    BY <1>3 DEF SelfWait
  <2>3. QED
    BY <2>1, <2>2 DEF Before
<1>4. PICK l \in Semaphores : Waiting(t, l) /\ sem[l] = 0
  BY DEF Blocked
<1>5. PICK u \in Threads : l \in held[u] /\ Running(u) /\ todo[u] # <<>>
  BY <1>2, <1>4
<1>6. CASE ~Blocked(u)
  BY <1>5, <1>6
<1>7. CASE Blocked(u)
  <2>1. Waiting(u, "log") /\ sem["log"] = 0
    BY <1>3, <1>5, <1>7 DEF Blocked
  <2>2. PICK v \in Threads : "log" \in held[v] /\ Running(v) /\ todo[v] # <<>>
    BY <1>2, <2>1 DEF Semaphores
  <2>3. ~Blocked(v)
    BY <1>3, <2>2 DEF Blocked, Semaphores
  <2>4. QED
    BY <2>2, <2>3
<1>8. QED
  BY <1>6, <1>7

(* There is no deadlock among the three locks but what a signal brings.    *)
THEOREM OnlySignalsBlock == Spec => []BlockedOnlyBySignal
BY OrderCorrect, BlockedInvariant, PTL
=============================================================================
