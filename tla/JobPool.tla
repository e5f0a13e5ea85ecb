------------------------------- MODULE JobPool -------------------------------
(***************************************************************************)
(* The parallel loop TParallel with its TJobThreadPool and TJobThreads     *)
(* (glib/concurrent/task.h).                                               *)
(*                                                                         *)
(* The master cuts the items of a loop into one segment per thread, puts   *)
(* each as a job into the queue of its thread and waits until all threads  *)
(* are finished.  It may start several loops before it waits.  A thread    *)
(* processes the items of a job one by one.  Sections under Critical are   *)
(* one step.                                                               *)
(*                                                                         *)
(* TBlocker waits for a condition variable without holding its mutex and   *)
(* with a time whose nanoseconds have overflowed: pthread_cond_timedwait   *)
(* refuses that and returns at once.  Blocking is no step here.            *)
(***************************************************************************)
EXTENDS Naturals, Sequences, FiniteSets, FiniteSetsExt

CONSTANTS
  ThreadNo,    \* the number of threads, at least 1
  Sizes,       \* the numbers of items a loop may have
  MaxLoops     \* bound: how many loops the master starts

Thread == 1..ThreadNo
Loop == 1..MaxLoops

VARIABLES
  Q,           \* the queue of each thread, the oldest job first
  pc,          \* where each thread is
  n,           \* the item a thread is at
  InProgress, StopFlag,
  master,      \* where the master is, and at which thread
  AllItems,    \* the number of items of each loop that was started
  each,        \* history: how often Task.Each was called for each item
  waiting      \* the job WaitForTask believes to have waited for, if any

vars == <<Q, pc, n, InProgress, StopFlag, master, AllItems, each, waiting>>
threads == <<pc, n, InProgress, each>>

Loops == Len(AllItems)
MaxItems == Max(Sizes \cup {0})
Past == 2 * MaxItems + 2     \* bound: where we stop looking at an overrun
Job == [loop : Loop, IndexOffset : 0..Past, IndexEnd : 0..MaxItems]

TypeOK ==
  /\ Q \in [Thread -> Seq(Job)]
  /\ pc \in [Thread -> {"top", "look", "each", "ended"}]
  /\ n \in [Thread -> 0..Past]
  /\ InProgress \in [Thread -> BOOLEAN] /\ StopFlag \in [Thread -> BOOLEAN]
  /\ master \in [at : {"idle", "add", "wait", "poll", "stop", "join", "gone"},
                 thread : 1..ThreadNo + 1]
  /\ AllItems \in Seq(Sizes)
  /\ each \in [Loop -> [0..Past -> 0..2]]

Init ==
  /\ Q = [t \in Thread |-> << >>]
  /\ pc = [t \in Thread |-> "top"]
  /\ n = [t \in Thread |-> 0]
  /\ InProgress = [t \in Thread |-> FALSE]
  /\ StopFlag = [t \in Thread |-> FALSE]
  /\ master = [at |-> "idle", thread |-> 1]
  /\ AllItems = << >>
  /\ each = [l \in Loop |-> [i \in 0..Past |-> 0]]
  /\ waiting = {}

(***************************************************************************)
(* The cut of the items (TJobThreadPool::AddJob).                          *)
(***************************************************************************)
ItemsPerThread(all) == all \div ThreadNo + 1

Segment(l, t) ==
  LET all == AllItems[l]
  IN [loop |-> l,
      IndexOffset |-> (t - 1) * ItemsPerThread(all),
      IndexEnd |-> Min({all, t * ItemsPerThread(all)})]

JobNo(l) == Min({ThreadNo, AllItems[l]})

(***************************************************************************)
(* The master.                                                             *)
(***************************************************************************)
MasterTo(at, t) == master' = [at |-> at, thread |-> t]
Is(at) == master.at = at /\ master.thread \in Thread
NextThread(at, then) ==
  IF master.thread = ThreadNo THEN MasterTo(then, 1) ELSE MasterTo(at, master.thread + 1)

ExecuteAndForget(size) ==
  /\ master.at = "idle"
  /\ Loops < MaxLoops
  /\ AllItems' = Append(AllItems, size)
  /\ MasterTo("add", 1)
  /\ UNCHANGED <<Q, threads, StopFlag, waiting>>

AddJob ==
  /\ master.at = "add"
  /\ IF master.thread <= JobNo(Loops)
     THEN /\ Q' = [Q EXCEPT ![master.thread] = Append(@, Segment(Loops, master.thread))]
          /\ MasterTo("add", master.thread + 1)
     ELSE MasterTo("idle", 1) /\ UNCHANGED Q
  /\ UNCHANGED <<threads, StopFlag, AllItems, waiting>>

WaitForCompletion ==
  /\ master.at = "idle"
  /\ MasterTo("wait", 1)
  /\ waiting' = {}
  /\ UNCHANGED <<Q, threads, StopFlag, AllItems>>

\* WaitForTask(i): Finished.Block() returns at once.
WaitForTask ==
  /\ Is("wait")
  /\ waiting' = {<<t, Q[t][1]>> : t \in {u \in {master.thread} : InProgress[u] /\ Q[u] # << >>}}
  /\ NextThread("wait", "poll")
  /\ UNCHANGED <<Q, threads, StopFlag, AllItems>>

\* Mutant of ThreadIsFinished: asks for a job in progress only.
ThreadIsFinishedEmpty(t) == ~InProgress[t]
ThreadIsFinished(t) == Q[t] = << >> /\ ~InProgress[t]

\* One look of IsFinished at one thread; the loop starts anew when it is not finished.
Poll ==
  /\ Is("poll")
  /\ IF ThreadIsFinished(master.thread) THEN NextThread("poll", "idle") ELSE MasterTo("poll", 1)
  /\ waiting' = {}
  /\ UNCHANGED <<Q, threads, StopFlag, AllItems>>

\* ~TParallel
Destroy == master.at = "idle" /\ MasterTo("stop", 1)
           /\ UNCHANGED <<Q, threads, StopFlag, AllItems, waiting>>
Stop ==
  /\ Is("stop")
  /\ StopFlag' = [StopFlag EXCEPT ![master.thread] = TRUE]
  /\ NextThread("stop", "join")
  /\ UNCHANGED <<Q, threads, AllItems, waiting>>
Join ==
  /\ Is("join") /\ pc[master.thread] = "ended"
  /\ NextThread("join", "gone")
  /\ UNCHANGED <<Q, threads, StopFlag, AllItems, waiting>>

(***************************************************************************)
(* The loop of a thread (TJobThread::Run).                                 *)
(***************************************************************************)
\* Mutant of Stops: the flag counts only while there is a job.
StopsWhenBusy(t) == StopFlag[t] /\ Q[t] # << >>
Stops(t) == StopFlag[t]

Top(t) ==
  /\ pc[t] = "top"
  /\ pc' = [pc EXCEPT ![t] = IF Stops(t) THEN "ended" ELSE "look"]
  /\ UNCHANGED <<Q, n, InProgress, StopFlag, master, AllItems, each, waiting>>

Look(t) ==
  /\ pc[t] = "look"
  /\ IF Q[t] = << >>
     THEN pc' = [pc EXCEPT ![t] = "top"] /\ UNCHANGED <<n, InProgress>>
     ELSE /\ InProgress' = [InProgress EXCEPT ![t] = TRUE]
          /\ n' = [n EXCEPT ![t] = Head(Q[t]).IndexOffset]
          /\ pc' = [pc EXCEPT ![t] = "each"]
  /\ UNCHANGED <<Q, StopFlag, master, AllItems, each, waiting>>

\* The inner loop ends where the item is the end, not where it is past it.
AtEnd(t) == n[t] = Head(Q[t]).IndexEnd

Each(t) ==
  /\ pc[t] = "each" /\ ~AtEnd(t) /\ n[t] < Past
  /\ each' = [each EXCEPT ![Head(Q[t]).loop][n[t]] = @ + 1]
  /\ n' = [n EXCEPT ![t] = @ + 1]
  /\ UNCHANGED <<Q, pc, InProgress, StopFlag, master, AllItems, waiting>>

AfterJob(t) == [Q EXCEPT ![t] = Tail(@)]

Idle(t) == [InProgress EXCEPT ![t] = FALSE]

FinishJob(t) ==
  /\ pc[t] = "each" /\ AtEnd(t)
  /\ InProgress' = Idle(t)
  /\ Q' = AfterJob(t)
  /\ pc' = [pc EXCEPT ![t] = "top"]
  /\ UNCHANGED <<n, StopFlag, master, AllItems, each, waiting>>

ThreadStep(t) == Top(t) \/ Look(t) \/ Each(t) \/ FinishJob(t)
MasterStep == AddJob \/ WaitForTask \/ Poll \/ Stop \/ Join

Next ==
  \/ \E size \in Sizes : ExecuteAndForget(size)
  \/ WaitForCompletion
  \/ Destroy
  \/ MasterStep
  \/ \E t \in Thread : ThreadStep(t)

\* The scheduler runs every thread, and a call the master has begun goes on.  What
\* the master calls next, and whether it calls, is up to the program that uses it.
Fairness == WF_vars(MasterStep) /\ \A t \in Thread : WF_vars(ThreadStep(t))

Spec == Init /\ [][Next]_vars
FairSpec == Spec /\ Fairness

(***************************************************************************)
(* The use of the pool that the properties are about: no segment begins    *)
(* after its end (README, departures).                                     *)
(***************************************************************************)
CutsFit == \A s \in Sizes : \A t \in Thread : t <= s => (t - 1) * ItemsPerThread(s) <= s
Careful ==
  /\ ThreadNo \in Nat \ {0} /\ MaxLoops \in Nat
  /\ Sizes \subseteq Nat /\ MaxItems \in Nat /\ \A s \in Sizes : s <= MaxItems
  /\ CutsFit

(***************************************************************************)
(* Properties.                                                             *)
(***************************************************************************)
\* No item is processed twice, and nothing outside the items is touched.
EachAtMostOnce ==
  \A l \in Loop : \A i \in 0..Past :
    each[l][i] <= IF l <= Loops /\ i < AllItems[l] THEN 1 ELSE 0

\* When WaitForCompletion returns, every item of every loop that was started has
\* been processed, though the wait for the single tasks waits for nothing.
ReturnsWhenComplete ==
  [][master.at = "poll" /\ master'.at = "idle" =>
       \A l \in 1..Loops : \A i \in 0..AllItems[l] - 1 : each[l][i] = 1]_vars

\* WaitForCompletion returns.
WaitEnds == master.at = "wait" ~> master.at = "idle"

\* The destructor returns, whatever is in the queues.
DestroyEnds == master.at = "stop" ~> master.at = "gone"

\* Queues and threads are where the jobs expect them, and no item is in two jobs.
JobsSound == TypeOK /\ EachAtMostOnce

\* Every call of the owner comes to its end.
CallsReturn == WaitEnds /\ DestroyEnds

\* A job describes "the processing of a specific subsegment of items" and the pool
\* "takes care of splitting the job across threads" (task.h).
JobsAreSegments ==
  \A t \in Thread : \A k \in DOMAIN Q[t] :
    Q[t][k].IndexOffset <= Q[t][k].IndexEnd /\ Q[t][k].IndexEnd <= AllItems[Q[t][k].loop]

\* WaitForTask is to "block for job completion" (task.h): a job it has waited for
\* has left the queue.
WaitedJobIsDone == \A w \in waiting : \A k \in DOMAIN Q[w[1]] : Q[w[1]][k] # w[2]
=============================================================================
