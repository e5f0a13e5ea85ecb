------------------------------ MODULE NodeAsync ------------------------------
(***************************************************************************)
(* Work that crosses between node's main thread and the threads of libuv's *)
(* pool: TNodeJsAsyncUtil (nodejs/nodeutil.cpp).                           *)
(*                                                                         *)
(* ExecuteOnWorker queues a request; a pool thread runs it (OnWorker), the *)
(* main loop then calls its callback (AfterOnWorker).  While it runs, a    *)
(* request may call ExecuteOnMain, with tasks for one handle: they are     *)
(* left in the handle's configuration and the loop is signalled, and the   *)
(* loop calls OnMain or, if the handle is a blocking one, OnMainBlock,     *)
(* which lets the waiting request go on.                                   *)
(*                                                                         *)
(* The signal of libuv is a flag: sent twice before the loop looks, it     *)
(* calls back once; the flag is cleared before the call.  A task is its    *)
(* wrapper, which is made for it and deleted with it.                      *)
(***************************************************************************)
EXTENDS Naturals, FiniteSets

CONSTANTS
  Request,     \* the requests queued with ExecuteOnWorker
  Task,        \* the tasks passed to ExecuteOnMain, each of them once
  Shared,      \* more than one request at a time uses a blocking handle
  SemFails,    \* the system may refuse a semaphore
  PoolThreads, \* the number of threads of libuv's pool
  Nil          \* no task, no request

ASSUME AsyncAssumption ==
  Nil \notin Task \cup Request /\ {Shared, SemFails} \subseteq BOOLEAN /\ PoolThreads \in Nat \ {0}

VARIABLES
  req,         \* where each request is
  own,         \* the task a request is passing to the main thread
  TaskWrapper, \* the task in the handle's configuration
  pending,     \* the loop was signalled
  handle,      \* what made it: "plain" by NewHandle, "blocking" by
               \* NewBlockingHandle, "deleted" by DelHandle
  main,        \* what the main thread is doing, and for which task
  task,        \* what became of each task
  sem,         \* its semaphore
  fault        \* history: deleted memory or a null pointer was used

asyncVars == <<req, own, TaskWrapper, pending, handle, main, task, sem, fault>>

AsyncTypeOK ==
  /\ req \in [Request -> {"new", "queued", "run", "set", "send", "wait", "ran", "done"}]
  /\ own \in [Request -> Task \cup {Nil}]
  /\ TaskWrapper \in Task \cup {Nil}
  /\ pending \in BOOLEAN /\ fault \in BOOLEAN
  /\ handle \in {"plain", "blocking", "deleted"}
  /\ main \in [at : {"loop", "called", "run", "post", "destroy"}, task : Task \cup {Nil}]
  /\ task \in [Task -> {"new", "alive", "ran", "deleted", "ran and deleted"}]
  /\ sem \in [Task -> {"none", "zero", "one", "destroyed"}]
  /\ \A r \in Request : own[r] # Nil <=> req[r] \in {"set", "send", "wait"}
  /\ main.task # Nil <=> main.at \in {"run", "post", "destroy"}

AsyncInit ==
  /\ req = [r \in Request |-> "new"]
  /\ own = [r \in Request |-> Nil]
  /\ TaskWrapper = Nil
  /\ pending = FALSE
  /\ handle \in {"plain", "blocking"}
  /\ main = [at |-> "loop", task |-> Nil]
  /\ task = [t \in Task |-> "new"]
  /\ sem = [t \in Task |-> "none"]
  /\ fault = FALSE

MainTo(at, t) == main' = [at |-> at, task |-> t]
ReqTo(r, at) == req' = [req EXCEPT ![r] = at]
Blocking == handle = "blocking"
IsDeleted(t) == task[t] \in {"deleted", "ran and deleted"}
Deleted(t) == IF task[t] = "ran" THEN "ran and deleted" ELSE "deleted"
Busy == {r \in Request : req[r] \in {"run", "set", "send", "wait"}}

\* A blocking handle is one request's own, unless Shared.
MayUse(r) ==
  /\ handle # "deleted"
  /\ Blocking /\ ~Shared => \A o \in Request \ {r} : own[o] = Nil

(***************************************************************************)
(* Requests on the pool.                                                   *)
(***************************************************************************)
ExecuteOnWorker(r) ==
  /\ main.at = "loop" /\ req[r] = "new"
  /\ ReqTo(r, "queued")
  /\ UNCHANGED <<own, TaskWrapper, pending, handle, main, task, sem, fault>>

OnWorker(r) ==
  /\ req[r] = "queued" /\ Cardinality(Busy) < PoolThreads
  /\ ReqTo(r, "run")
  /\ UNCHANGED <<own, TaskWrapper, pending, handle, main, task, sem, fault>>

\* Run ends, with or without an exception: OnWorker catches it.
EndRequest(r) ==
  /\ req[r] = "run"
  /\ ReqTo(r, "ran")
  /\ UNCHANGED <<own, TaskWrapper, pending, handle, main, task, sem, fault>>

AfterOnWorker(r) ==
  /\ main.at = "loop" /\ req[r] = "ran"
  /\ ReqTo(r, "done")
  /\ UNCHANGED <<own, TaskWrapper, pending, handle, main, task, sem, fault>>

(***************************************************************************)
(* ExecuteOnMain.                                                          *)
(***************************************************************************)
\* Mutant of Replaced: the task that is replaced is forgotten.
ReplacedLeaks(t) == [task EXCEPT ![t] = "alive"]

\* SetAsyncData deletes the task it replaces.
Replaced(t) ==
  [u \in Task |-> IF u = t THEN "alive"
                  ELSE IF u = TaskWrapper THEN Deleted(u) ELSE task[u]]

\* The handle is there as long as requests use it.
SetAsyncData(r, t) ==
  /\ req[r] = "run" /\ MayUse(r) /\ task[t] = "new"
  /\ task' = Replaced(t)
  /\ TaskWrapper' = t
  /\ own' = [own EXCEPT ![r] = t]
  /\ ReqTo(r, IF Blocking THEN "set" ELSE "send")
  /\ UNCHANGED <<pending, handle, main, sem, fault>>

\* uv_sem_init, in the wrapper that others can already reach.
SemaphoreMade(r) ==
  /\ sem' = [sem EXCEPT ![own[r]] = "zero"]
  /\ ReqTo(r, "send")
  /\ UNCHANGED <<own, task>>

\* The task is deleted and the call throws; the wrapper that holds it stays where it is.
SemaphoreFailed(r) ==
  /\ task' = [task EXCEPT ![own[r]] = Deleted(own[r])]
  /\ own' = [own EXCEPT ![r] = Nil]
  /\ ReqTo(r, "run")
  /\ UNCHANGED sem

InitSemaphore(r) ==
  /\ req[r] = "set"
  /\ fault' = (fault \/ IsDeleted(own[r]))
  /\ SemaphoreMade(r) \/ (SemFails /\ SemaphoreFailed(r))
  /\ UNCHANGED <<TaskWrapper, pending, handle, main>>

\* Mutant of Sent: the loop is signalled only if it is waiting.
SentWhenIdle == pending \/ main.at = "loop"
Sent == TRUE

AsyncSend(r) ==
  /\ req[r] = "send"
  /\ pending' = Sent
  /\ ReqTo(r, IF Blocking THEN "wait" ELSE "run")
  /\ own' = IF Blocking THEN own ELSE [own EXCEPT ![r] = Nil]
  /\ UNCHANGED <<TaskWrapper, handle, main, task, sem, fault>>

\* Mutant of WaitIsOver: the wait ends when the main thread has the task.
WaitIsOverEarly(r) == TaskWrapper # own[r]

\* uv_sem_wait.  In memory that was deleted it finds anything.
WaitIsOver(r) == sem[own[r]] \in {"one", "destroyed"} \/ IsDeleted(own[r])

SemaphoreWait(r) ==
  /\ req[r] = "wait"
  /\ WaitIsOver(r)
  /\ fault' = (fault \/ IsDeleted(own[r]))
  /\ own' = [own EXCEPT ![r] = Nil]
  /\ ReqTo(r, "run")
  /\ UNCHANGED <<TaskWrapper, pending, handle, main, task, sem>>

(***************************************************************************)
(* The main loop.                                                          *)
(***************************************************************************)
Signalled ==
  /\ main.at = "loop" /\ pending /\ handle # "deleted"
  /\ pending' = FALSE
  /\ MainTo("called", Nil)
  /\ UNCHANGED <<req, own, TaskWrapper, handle, task, sem, fault>>

\* Mutants of NoTask and Cleared: no question is asked; the task stays.
NoTaskUnasked == FALSE
NoTask == TaskWrapper = Nil
Cleared == Nil

\* ExtractAndClearData.  OnMain returns if there is no task; OnMainBlock does not ask.
ExtractAndClearData ==
  /\ main.at = "called"
  /\ IF NoTask
     THEN MainTo("loop", Nil) /\ fault' = (fault \/ Blocking)
     ELSE MainTo("run", TaskWrapper) /\ UNCHANGED fault
  /\ TaskWrapper' = Cleared
  /\ UNCHANGED <<req, own, pending, handle, task, sem>>

\* Run, with or without an exception.  OnMain deletes the task.
RunOnMain ==
  /\ main.at = "run"
  /\ IF Blocking
     THEN task' = [task EXCEPT ![main.task] = "ran"] /\ MainTo("post", main.task)
     ELSE task' = [task EXCEPT ![main.task] = "ran and deleted"] /\ MainTo("loop", Nil)
  /\ UNCHANGED <<req, own, TaskWrapper, pending, handle, sem, fault>>

PostSemaphore ==
  /\ main.at = "post"
  /\ sem' = [sem EXCEPT ![main.task] = "one"]
  /\ MainTo("destroy", main.task)
  /\ UNCHANGED <<req, own, TaskWrapper, pending, handle, task, fault>>

DestroySemaphore ==
  /\ main.at = "destroy"
  /\ sem' = [sem EXCEPT ![main.task] = "destroyed"]
  /\ task' = [task EXCEPT ![main.task] = Deleted(main.task)]
  /\ MainTo("loop", Nil)
  /\ UNCHANGED <<req, own, TaskWrapper, pending, handle, fault>>

\* DelHandle, called when no request uses the handle any more: the handle is closed,
\* its configuration deleted.
DelHandle ==
  /\ main.at = "loop" /\ handle # "deleted"
  /\ Busy = {}
  /\ handle' = "deleted"
  /\ UNCHANGED <<req, own, TaskWrapper, pending, main, task, sem, fault>>

MainStep ==
  Signalled \/ ExtractAndClearData \/ RunOnMain \/ PostSemaphore \/ DestroySemaphore

AsyncNext ==
  \/ \E r \in Request :
       \/ ExecuteOnWorker(r) \/ OnWorker(r) \/ EndRequest(r) \/ AfterOnWorker(r)
       \/ \E t \in Task : SetAsyncData(r, t)
       \/ InitSemaphore(r) \/ AsyncSend(r) \/ SemaphoreWait(r)
  \/ MainStep
  \/ DelHandle

\* The loop turns, and a request that is passing a task goes on.  Nothing is assumed
\* of when requests start, pass tasks or end, or of when the handle is deleted; a wait
\* in deleted memory need not end.
AsyncFairness ==
  /\ WF_asyncVars(MainStep)
  /\ \A r \in Request :
       /\ WF_asyncVars(InitSemaphore(r)) /\ WF_asyncVars(AsyncSend(r))
       /\ WF_asyncVars(SemaphoreWait(r) /\ fault' = fault)

AsyncSpec == AsyncInit /\ [][AsyncNext]_asyncVars
AsyncFairSpec == AsyncSpec /\ AsyncFairness

(***************************************************************************)
(* Properties.                                                             *)
(***************************************************************************)
\* A task that was passed in is always somewhere: in the configuration, in the hands
\* of the main thread, or at its end; it is never in two of these places, and what is
\* in the first two is not deleted.  So no task runs twice and none is leaked.
TasksAreTracked ==
  /\ \A t \in Task : task[t] = "alive" => (t = TaskWrapper) # (t = main.task)
  /\ \A t \in Task : t \in {TaskWrapper, main.task} => ~IsDeleted(t)

\* "When ExecuteOnMain is called 5 times before a task is executed, the task will be
\* executed only once" (nodeutil.h): the last one.  A task is run or is replaced by a
\* later one, unless the handle is deleted first; no signal is lost between the flag
\* and the configuration.
EveryTaskIsServed ==
  \A t \in Task : task[t] = "alive" ~> task[t] # "alive" \/ handle = "deleted"

\* No deleted memory and no null pointer is used, the destroyed semaphore of a
\* task that did run set aside (see RequestGoesOn).
OnlyLiveWrappers ==
  [][fault' /\ ~fault =>
       \E r \in Request : req[r] = "wait" /\ req'[r] = "run" /\ task[own[r]] = "ran and deleted"
    ]_asyncVars

\* "The worker thread will wait for the task on the main thread to finish before
\* continuing execution" (nodeutil.h, NewBlockingHandle).
WaitsForItsTask ==
  [][\A r \in Request : req[r] = "wait" /\ req'[r] = "run" =>
       task[own[r]] \in {"ran", "ran and deleted"}]_asyncVars

\* What a request that passes a task to a blocking handle relies on.
BlockingIsSafe == OnlyLiveWrappers /\ WaitsForItsTask

\* Tasks, wrappers and semaphores are where the requests and the loop expect them.
TasksAreSound == AsyncTypeOK /\ TasksAreTracked

\* The same: it does continue.
RequestGoesOn == \A r \in Request : req[r] = "wait" ~> req[r] = "run"

\* DelHandle "closes a UV async handle and releases the memory" (nodeutil.h): no task
\* is left that nobody deletes.
NothingLeftBehind == handle = "deleted" => \A t \in Task : task[t] # "alive"
=============================================================================
