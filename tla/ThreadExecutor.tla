---------------------------- MODULE ThreadExecutor ----------------------------
(***************************************************************************)
(* The pool of threads TThreadExecutor (glib/concurrent/thread.cpp) over   *)
(* the POSIX threads of glib/concurrent/posix.                             *)
(*                                                                         *)
(* Clients put runnables into TaskQ; the pool's threads take and run them. *)
(* Lock is a mutex and a condition variable.  A section of code that holds *)
(* it from Lock to Release (or to the wait) is one step here: whoever      *)
(* could see it half done needs the lock.  The destructor's section is the *)
(* exception: it cancels the threads one after the other, and the threads  *)
(* do notice.                                                              *)
(*                                                                         *)
(* pthread_cancel takes effect where the thread next waits, or at any      *)
(* point of a runnable that is a cancellation point.  A thread cancelled   *)
(* inside pthread_cond_wait first takes the mutex back.                    *)
(***************************************************************************)
EXTENDS Naturals, Sequences, FiniteSets

CONSTANTS
  Runnable,    \* the objects clients pass to Execute, each of them once
  PoolSize,    \* the number of threads
  Outcomes,    \* how Run may end: "returns", "PExcept", "other" (exceptions)
  Effects,     \* what a cancellation does: "ends" the thread, or "aborts" the
               \* process, as it does where cancelling unwinds the C++ frames
               \* into the catch-all of EntryPoint
  None         \* no thread, no runnable

ASSUME ExecutorAssumption ==
  /\ PoolSize \in Nat \ {0}
  /\ Outcomes \subseteq {"returns", "PExcept", "other"}
  /\ Effects \subseteq {"ends", "aborts"}
  /\ None \notin Runnable /\ None \notin Nat

Thread == 1..PoolSize
Owner == 0     \* the thread that constructs and destroys the executor

VARIABLES
  TaskQ,       \* the queue
  mutex,       \* who holds Lock, None if nobody does
  pc,          \* where each thread is
  job,         \* the runnable a thread is running
  cancelled,   \* the threads pthread_cancel was called for
  owner,       \* where the owner is, and at which thread of ThreadV
  submitted,   \* history: the runnables passed to Execute, in order
  started      \* history: the runnables the threads took, in order

vars == <<TaskQ, mutex, pc, job, cancelled, owner, submitted, started>>

Places == {"new", "lock", "wait", "dying", "run", "ended"}
Phases == {"construct", "use", "cancel", "join", "gone", "aborted"}

TypeOK ==
  /\ TaskQ \in Seq(Runnable)
  /\ mutex \in Thread \cup {Owner, None}
  /\ pc \in [Thread -> Places]
  /\ job \in [Thread -> Runnable \cup {None}]
  /\ cancelled \in SUBSET Thread
  /\ owner \in [phase : Phases, at : 1..PoolSize + 1]
  /\ submitted \in Seq(Runnable)
  /\ started \in Seq(Runnable)

Init ==
  /\ TaskQ = << >>
  /\ mutex = None
  /\ pc = [t \in Thread |-> "new"]
  /\ job = [t \in Thread |-> None]
  /\ cancelled = {}
  /\ owner = [phase |-> "construct", at |-> 1]
  /\ submitted = << >>
  /\ started = << >>

Going == owner.phase # "aborted"
Waiting == {t \in Thread : pc[t] = "wait"}
IsAlive(t) == pc[t] \notin {"new", "ended"}

(***************************************************************************)
(* The owner: the constructor starts the threads, one by one; the          *)
(* destructor cancels them under the lock and joins them.                  *)
(***************************************************************************)
OwnerTo(p, n) == owner' = [phase |-> p, at |-> n]

StartThread ==
  /\ owner.phase = "construct" /\ owner.at \in Thread
  /\ pc' = [pc EXCEPT ![owner.at] = "lock"]
  /\ OwnerTo(IF owner.at = PoolSize THEN "use" ELSE "construct", owner.at + 1)
  /\ UNCHANGED <<TaskQ, mutex, job, cancelled, submitted, started>>

\* No client is inside Execute when the owner destroys the executor, and none
\* calls it afterwards.
Destroy ==
  /\ owner.phase = "use"
  /\ mutex = None
  /\ mutex' = Owner
  /\ OwnerTo("cancel", 1)
  /\ UNCHANGED <<TaskQ, pc, job, cancelled, submitted, started>>

CancelThread ==
  /\ owner.phase = "cancel" /\ owner.at \in Thread
  /\ cancelled' = IF IsAlive(owner.at) THEN cancelled \cup {owner.at} ELSE cancelled
  /\ OwnerTo("cancel", owner.at + 1)
  /\ UNCHANGED <<TaskQ, mutex, pc, job, submitted, started>>

ReleaseAfterCancel ==
  /\ owner = [phase |-> "cancel", at |-> PoolSize + 1]
  /\ mutex' = None
  /\ OwnerTo("join", 1)
  /\ UNCHANGED <<TaskQ, pc, job, cancelled, submitted, started>>

JoinThread ==
  /\ owner.phase = "join" /\ owner.at \in Thread
  /\ pc[owner.at] = "ended"
  /\ OwnerTo(IF owner.at = PoolSize THEN "gone" ELSE "join", owner.at + 1)
  /\ UNCHANGED <<TaskQ, mutex, pc, job, cancelled, submitted, started>>

(***************************************************************************)
(* Clients.                                                                *)
(***************************************************************************)
\* Mutant of Signal: nobody is woken.
SignalNobody == UNCHANGED pc

\* pthread_cond_signal: one of the waiting threads, if there is any, goes for the
\* lock.  A thread that is being cancelled does not use up the signal.
Signal ==
  IF Waiting = {} THEN UNCHANGED pc
  ELSE \E t \in Waiting : pc' = [pc EXCEPT ![t] = "lock"]

Accepts(r) == r # None

Execute(r) ==
  /\ Accepts(r)
  /\ owner.phase = "use"
  /\ mutex = None
  /\ \A n \in DOMAIN submitted : submitted[n] # r
  /\ TaskQ' = Append(TaskQ, r)
  /\ submitted' = Append(submitted, r)
  /\ Signal
  /\ UNCHANGED <<mutex, job, cancelled, owner, started>>

(***************************************************************************)
(* The threads of the pool.                                                *)
(***************************************************************************)
\* WaitForTask, from the lock to the release or to the wait.  IsFinished is set
\* nowhere in the code.
Sleep(t) ==
  /\ Going /\ pc[t] = "lock" /\ mutex = None
  /\ TaskQ = << >>
  /\ pc' = [pc EXCEPT ![t] = "wait"]
  /\ UNCHANGED <<TaskQ, mutex, job, cancelled, owner, submitted, started>>

\* Mutant of Rest: the runnable stays in the queue.
RestAll == TaskQ
Rest == Tail(TaskQ)

Take(t) ==
  /\ Going /\ pc[t] = "lock" /\ mutex = None
  /\ TaskQ # << >>
  /\ job' = [job EXCEPT ![t] = Head(TaskQ)]
  /\ started' = Append(started, Head(TaskQ))
  /\ TaskQ' = Rest
  /\ pc' = [pc EXCEPT ![t] = "run"]
  /\ UNCHANGED <<mutex, cancelled, owner, submitted>>

\* pthread_cond_wait may return without a signal, unless a cancellation is pending.
WakeSpuriously(t) ==
  /\ Going /\ pc[t] = "wait" /\ t \notin cancelled
  /\ pc' = [pc EXCEPT ![t] = "lock"]
  /\ UNCHANGED <<TaskQ, mutex, job, cancelled, owner, submitted, started>>

\* Run ends.  The loop catches PExcept and goes on; anything else reaches
\* EntryPoint, which ends the thread.
AfterRun(outcome) == IF outcome = "other" THEN "ended" ELSE "lock"

EndRun(t) ==
  /\ Going /\ pc[t] = "run"
  /\ \E outcome \in Outcomes : pc' = [pc EXCEPT ![t] = AfterRun(outcome)]
  /\ job' = [job EXCEPT ![t] = None]
  /\ UNCHANGED <<TaskQ, mutex, cancelled, owner, submitted, started>>

\* The end of a thread that is cancelled, holding the mutex or not.
End(t, m) ==
  \E effect \in Effects :
    /\ pc' = [pc EXCEPT ![t] = "ended"]
    /\ job' = [job EXCEPT ![t] = None]
    /\ mutex' = m
    /\ owner' = IF effect = "aborts" THEN [owner EXCEPT !.phase = "aborted"] ELSE owner
    /\ UNCHANGED <<TaskQ, cancelled, submitted, started>>

CancelInRun(t) == Going /\ t \in cancelled /\ pc[t] = "run" /\ End(t, mutex)

\* The wait is a cancellation point: the thread leaves it, takes the mutex back
\* and ends.  EntryPoint has a cleanup handler that sets Status, and none that
\* releases the lock.
CancelInWait(t) ==
  /\ Going /\ t \in cancelled /\ pc[t] = "wait"
  /\ pc' = [pc EXCEPT ![t] = "dying"]
  /\ UNCHANGED <<TaskQ, mutex, job, cancelled, owner, submitted, started>>

Die(t) == Going /\ pc[t] = "dying" /\ mutex = None /\ End(t, t)

OwnerStep == StartThread \/ CancelThread \/ ReleaseAfterCancel \/ JoinThread
LockStep(t) == Sleep(t) \/ Take(t) \/ Die(t)

Next ==
  \/ OwnerStep
  \/ Destroy
  \/ \E r \in Runnable \cup {None} : Execute(r)
  \/ \E t \in Thread : \/ LockStep(t)
                       \/ WakeSpuriously(t)
                       \/ EndRun(t)
                       \/ CancelInRun(t)
                       \/ CancelInWait(t)

(***************************************************************************)
(* Fairness: the owner finishes the constructor and the destructor it is   *)
(* in; when the lock is free and threads want it, one of them gets it (not *)
(* each of them: the mutex promises no order); runnables come to an end;   *)
(* a thread that sleeps and was cancelled notices.                         *)
(***************************************************************************)
Fairness ==
  /\ WF_vars(OwnerStep)
  /\ WF_vars(\E t \in Thread : LockStep(t))
  /\ \A t \in Thread : WF_vars(EndRun(t)) /\ WF_vars(CancelInWait(t))

Spec == Init /\ [][Next]_vars
FairSpec == Spec /\ Fairness

(***************************************************************************)
(* Properties.                                                             *)
(***************************************************************************)
\* Whatever the threads, the signals and the cancellations do, every runnable
\* passed to Execute is in the queue or was handed to exactly one thread, and
\* they are handed out in the order they were passed in.
NothingLost == submitted = started \o TaskQ

\* While a thread sleeps, there are at least as many threads on their way to the
\* lock as runnables in the queue: no signal that Execute sends is lost, and
\* Execute need not wake more than one thread.
NoSleeperIsNeeded ==
  owner.phase = "use" /\ Waiting # {} =>
    Len(TaskQ) <= Cardinality({t \in Thread : pc[t] = "lock"})

\* Every runnable that was passed in is started, unless the owner destroys the
\* executor or the exceptions that EntryPoint catches have ended all threads.
PoolIsDead == \A t \in Thread : pc[t] = "ended"
EverythingStarts ==
  \A r \in Runnable :
    (\E n \in DOMAIN TaskQ : TaskQ[n] = r)
      ~> \/ \E n \in DOMAIN started : started[n] = r
         \/ owner.phase # "use" \/ PoolIsDead

\* The destructor cancels the threads and joins them ("cancel the threads",
\* "join" in ~TThreadExecutor), so it comes to its end.
DestructorReturns == owner.phase = "cancel" ~> owner.phase = "gone"
=============================================================================
