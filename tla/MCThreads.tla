------------------------------- MODULE MCThreads -------------------------------
(***************************************************************************)
(* The two ways in which glib/concurrent runs work on threads: the         *)
(* executor, with three threads and three runnables, and the pool of the   *)
(* parallel loop (Jobs), with two threads and two loops of up to three     *)
(* items: two threads are never given a segment that begins after its end  *)
(* (README, departures).  Which one it is, is chosen in the initial state, *)
(* and the other one stays as it is.                                       *)
(***************************************************************************)
EXTENDS ThreadExecutor

CONSTANTS r1, r2, r3, ThreadNo, MaxLoops

VARIABLES kind, JobQ, jobPc, item, InProgress, StopFlag, master, AllItems, each, waiting

pool == <<JobQ, jobPc, item, InProgress, StopFlag, master, AllItems, each, waiting>>
all == <<kind, vars, pool>>

Jobs == INSTANCE JobPool WITH Q <- JobQ, pc <- jobPc, n <- item, Sizes <- 0..3

MCRunnable == {r1, r2, r3}
MCOutcomes == {"returns", "PExcept", "other"}
MCEffects == {"ends", "aborts"}

\* The loops are ones that ThreadExecutorProofs is about.
ASSUME PoolCareful == Jobs!Careful

MCInit == kind \in {"executor", "jobs"} /\ Init /\ Jobs!Init
MCNext == /\ \/ kind = "executor" /\ Next /\ UNCHANGED pool
             \/ kind = "jobs" /\ Jobs!Next /\ UNCHANGED vars
          /\ UNCHANGED kind

\* The fairness of the two modules, each of the kind that it is.
Executor(A) == kind = "executor" /\ A /\ UNCHANGED <<pool, kind>>
OfJobs(A) == kind = "jobs" /\ A /\ UNCHANGED <<vars, kind>>
MCFairness ==
  /\ WF_all(Executor(OwnerStep))
  /\ WF_all(Executor(\E t \in Thread : LockStep(t)))
  /\ \A t \in Thread : WF_all(Executor(EndRun(t))) /\ WF_all(Executor(CancelInWait(t)))
  /\ WF_all(OfJobs(Jobs!MasterStep))
  /\ \A t \in Jobs!Thread : WF_all(OfJobs(Jobs!ThreadStep(t)))

MCSpec == MCInit /\ [][MCNext]_all /\ MCFairness

\* A loop does each of its items once: never twice while it runs, and all of them before
\* WaitForCompletion returns.
ItemsAreDone == []Jobs!JobsSound /\ Jobs!ReturnsWhenComplete

\* Every runnable is started, and every call of the owner of a pool comes to its end.
WorkGoesOn == EverythingStarts /\ Jobs!CallsReturn
================================================================================
