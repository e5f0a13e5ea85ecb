------------------------- MODULE ThreadExecutorProofs -------------------------
(***************************************************************************)
(* Proofs about the three ways of running work on threads, for any number  *)
(* of threads.  The pool: nothing that is passed in is lost, and no signal *)
(* is.  The parallel loop: every item is done once, and all of them before *)
(* the wait returns.  Node's main thread: every task passed to it is kept  *)
(* track of, and a request that waits for its task goes on after it.       *)
(***************************************************************************)
EXTENDS ThreadExecutor, NodeAsync, FiniteSetTheorems, TLAPS

Locking == {t \in Thread : pc[t] = "lock"}

\* Before the destructor nobody is cancelled; before the constructor has ended
\* nothing was passed in.
Undisturbed ==
  /\ owner.phase \in {"construct", "use"} =>
       cancelled = {} /\ \A t \in Thread : pc[t] # "dying"
  /\ owner.phase = "construct" => TaskQ = << >>

IInv == TypeOK /\ NothingLost /\ Undisturbed /\ NoSleeperIsNeeded

USE ExecutorAssumption

LEMMA ThreadsFinite == IsFiniteSet(Thread) /\ Owner \notin Thread
  BY FS_Interval DEF Thread, Owner

(***************************************************************************)
(* Types.                                                                  *)
(***************************************************************************)
LEMMA NextType == TypeOK /\ [Next]_vars => TypeOK'
  <1> SUFFICES ASSUME TypeOK, [Next]_vars PROVE TypeOK'
    OBVIOUS
  <1> USE DEF TypeOK, Places, Phases
  <1>1. CASE StartThread
    BY <1>1 DEF StartThread, OwnerTo, Thread
  <1>2. CASE CancelThread
    <2>1. owner.at \in Thread /\ owner'.at = owner.at + 1
            /\ owner' \in [phase : Phases, at : 1..PoolSize + 1]
      BY <1>2 DEF CancelThread, OwnerTo, Thread
    <2>2. cancelled' \in SUBSET Thread
      BY <1>2, <2>1 DEF CancelThread
    <2> QED BY <1>2, <2>1, <2>2 DEF CancelThread
  <1>3. CASE ReleaseAfterCancel
    BY <1>3 DEF ReleaseAfterCancel, OwnerTo
  <1>4. CASE JoinThread
    BY <1>4 DEF JoinThread, OwnerTo, Thread
  <1>5. CASE Destroy
    BY <1>5 DEF Destroy, OwnerTo
  <1>6. ASSUME NEW r \in Runnable \cup {None}, Execute(r) PROVE TypeOK'
    <2>1. r \in Runnable
      BY <1>6 DEF Execute, Accepts
    <2>2. pc' \in [Thread -> Places]
      BY <1>6, SMTT(90) DEF Execute, Signal, Waiting
    <2> QED BY <1>6, <2>1, <2>2 DEF Execute
  <1>7. ASSUME NEW t \in Thread, Take(t) PROVE TypeOK'
    <2>1. Head(TaskQ) \in Runnable /\ Tail(TaskQ) \in Seq(Runnable)
      BY <1>7 DEF Take
    <2> QED BY <1>7, <2>1 DEF Take, Rest
  <1>8. ASSUME NEW t \in Thread, Sleep(t) \/ WakeSpuriously(t) \/ CancelInWait(t) PROVE TypeOK'
    BY <1>8 DEF Sleep, WakeSpuriously, CancelInWait
  <1>9. ASSUME NEW t \in Thread, EndRun(t) PROVE TypeOK'
    BY <1>9 DEF EndRun, AfterRun
  <1>10. ASSUME NEW t \in Thread, Die(t) \/ CancelInRun(t) PROVE TypeOK'
    <2>1. PICK m \in {t, mutex} : End(t, m)
      BY <1>10 DEF Die, CancelInRun
    <2>2. owner' = owner \/ owner' = [owner EXCEPT !.phase = "aborted"]
      BY <2>1 DEF End
    <2>3. owner' \in [phase : Phases, at : 1..PoolSize + 1]
      <3>1. [owner EXCEPT !.phase = "aborted"] = [phase |-> "aborted", at |-> owner.at]
        OBVIOUS
      <3> QED BY <2>2, <3>1
    <2>4. pc' \in [Thread -> Places] /\ job' \in [Thread -> Runnable \cup {None}]
      BY <2>1 DEF End
    <2>5. mutex' \in Thread \cup {Owner, None}
      BY <2>1 DEF End
    <2> QED BY <2>1, <2>3, <2>4, <2>5 DEF End
  <1>11. CASE UNCHANGED vars
    BY <1>11 DEF vars
  <1> QED BY <1>1, <1>2, <1>3, <1>4, <1>5, <1>6, <1>7, <1>8, <1>9, <1>10, <1>11
          DEF Next, OwnerStep, LockStep

(***************************************************************************)
(* What was passed in is in the queue or was started, in its order.        *)
(***************************************************************************)
LEMMA NextKeeps == TypeOK /\ NothingLost /\ [Next]_vars => NothingLost'
  <1> SUFFICES ASSUME TypeOK, NothingLost, [Next]_vars PROVE NothingLost'
    OBVIOUS
  <1>1. ASSUME NEW r \in Runnable \cup {None}, Execute(r) PROVE NothingLost'
    <2>1. r \in Runnable
      BY <1>1 DEF Execute, Accepts
    <2> QED BY <1>1, <2>1 DEF Execute, NothingLost, TypeOK
  <1>2. ASSUME NEW t \in Thread, Take(t) PROVE NothingLost'
    <2>1. /\ TaskQ \in Seq(Runnable) /\ TaskQ # << >> /\ started \in Seq(Runnable)
          /\ TaskQ' = Tail(TaskQ) /\ started' = Append(started, Head(TaskQ))
          /\ submitted' = submitted
      BY <1>2 DEF Take, Rest, TypeOK
    <2>2. Append(started, Head(TaskQ)) \o Tail(TaskQ) = started \o TaskQ
      BY <2>1
    <2> QED BY <2>1, <2>2 DEF NothingLost
  <1>3. CASE UNCHANGED <<TaskQ, submitted, started>>
    BY <1>3 DEF NothingLost
  <1> QED BY <1>1, <1>2, <1>3
          DEF Next, OwnerStep, LockStep, StartThread, CancelThread, ReleaseAfterCancel, JoinThread,
              Destroy, Sleep, WakeSpuriously, EndRun, CancelInRun, CancelInWait, Die, End, vars

(***************************************************************************)
(* The sleepers.                                                           *)
(***************************************************************************)
LEMMA NextUndisturbed == TypeOK /\ Undisturbed /\ [Next]_vars => Undisturbed'
  <1> SUFFICES ASSUME TypeOK, Undisturbed, [Next]_vars PROVE Undisturbed'
    OBVIOUS
  <1> USE DEF Undisturbed, TypeOK
  <1>1. CASE StartThread
    BY <1>1 DEF StartThread, OwnerTo, Thread
  <1>2. CASE CancelThread \/ ReleaseAfterCancel \/ JoinThread \/ Destroy
    BY <1>2 DEF CancelThread, ReleaseAfterCancel, JoinThread, Destroy, OwnerTo
  <1>3. ASSUME NEW r \in Runnable \cup {None}, Execute(r) PROVE Undisturbed'
    BY <1>3 DEF Execute, Signal, Waiting
  <1>4. ASSUME NEW t \in Thread, Take(t) PROVE Undisturbed'
    BY <1>4 DEF Take
  <1>5. ASSUME NEW t \in Thread, Sleep(t) \/ WakeSpuriously(t) \/ CancelInWait(t)
        PROVE Undisturbed'
    BY <1>5 DEF Sleep, WakeSpuriously, CancelInWait
  <1>6. ASSUME NEW t \in Thread, EndRun(t) PROVE Undisturbed'
    BY <1>6 DEF EndRun, AfterRun
  <1>7. ASSUME NEW t \in Thread, Die(t) \/ CancelInRun(t) PROVE Undisturbed'
    <2>1. owner.phase \notin {"construct", "use"}
      BY <1>7 DEF Die, CancelInRun
    <2>2. owner'.phase \notin {"construct", "use"}
      BY <1>7, <2>1 DEF Die, CancelInRun, End
    <2> QED BY <2>2
  <1>8. CASE UNCHANGED vars
    BY <1>8 DEF vars
  <1> QED BY <1>1, <1>2, <1>3, <1>4, <1>5, <1>6, <1>7, <1>8 DEF Next, OwnerStep, LockStep

LEMMA NextEnough ==
  TypeOK /\ TypeOK' /\ Undisturbed /\ NoSleeperIsNeeded /\ [Next]_vars => NoSleeperIsNeeded'
  <1> SUFFICES ASSUME TypeOK, TypeOK', Undisturbed, NoSleeperIsNeeded, [Next]_vars,
                      owner'.phase = "use", Waiting' # {}
               PROVE  Len(TaskQ') <= Cardinality(Locking')
    BY DEF NoSleeperIsNeeded, Locking
  <1>a. /\ IsFiniteSet(Locking) /\ Cardinality(Locking) \in Nat
        /\ IsFiniteSet(Locking') /\ Cardinality(Locking') \in Nat
    BY ThreadsFinite, FS_Subset, FS_CardinalityType DEF Locking
  <1>b. Len(TaskQ) \in Nat /\ Len(TaskQ') \in Nat
    BY DEF TypeOK
  <1>c. owner.phase = "use" /\ Waiting # {} => Len(TaskQ) <= Cardinality(Locking)
    BY DEF NoSleeperIsNeeded, Locking
  <1>1. CASE StartThread
    <2>1. TaskQ' = << >>
      BY <1>1 DEF StartThread, Undisturbed
    <2> QED BY <2>1, <1>a
  <1>2. ASSUME NEW r \in Runnable \cup {None}, Execute(r)
        PROVE  Len(TaskQ') <= Cardinality(Locking')
    <2>1. Waiting # {}
      BY <1>2 DEF Execute, Signal, Waiting
    <2>2. PICK t \in Waiting : pc' = [pc EXCEPT ![t] = "lock"]
      BY <1>2, <2>1 DEF Execute, Signal
    <2>3. t \notin Locking /\ Locking' = Locking \cup {t}
      BY <2>2 DEF Waiting, Locking, TypeOK
    <2>4. Cardinality(Locking') = Cardinality(Locking) + 1
      BY <2>3, <1>a, FS_AddElement
    <2>5. Len(TaskQ') = Len(TaskQ) + 1
      BY <1>2 DEF Execute, TypeOK, Accepts
    <2>6. owner.phase = "use"
      BY <1>2 DEF Execute
    <2> QED BY <2>1, <2>4, <2>5, <2>6, <1>a, <1>b, <1>c
  <1>3. ASSUME NEW t \in Thread, Take(t) PROVE Len(TaskQ') <= Cardinality(Locking')
    <2>1. t \in Locking /\ Locking' = Locking \ {t} /\ Waiting' = Waiting
      BY <1>3 DEF Take, Waiting, Locking, TypeOK
    <2>2. Cardinality(Locking') = Cardinality(Locking) - 1
      BY <2>1, <1>a, FS_RemoveElement
    <2>3. Len(TaskQ') = Len(TaskQ) - 1 /\ owner.phase = "use"
      BY <1>3 DEF Take, Rest, TypeOK
    <2> QED BY <2>1, <2>2, <2>3, <1>a, <1>b, <1>c
  <1>4. ASSUME NEW t \in Thread, Sleep(t) PROVE Len(TaskQ') <= Cardinality(Locking')
    <2>1. TaskQ' = << >>
      BY <1>4 DEF Sleep
    <2> QED BY <2>1, <1>a
  <1>5. ASSUME TaskQ' = TaskQ, owner.phase = "use", Waiting # {}, Locking \subseteq Locking'
        PROVE  Len(TaskQ') <= Cardinality(Locking')
    <2>1. Cardinality(Locking) <= Cardinality(Locking')
      BY <1>5, <1>a, FS_Subset
    <2> QED BY <1>5, <2>1, <1>a, <1>b, <1>c
  <1>6. ASSUME NEW t \in Thread, WakeSpuriously(t) \/ EndRun(t)
        PROVE  Len(TaskQ') <= Cardinality(Locking')
    <2>1. /\ TaskQ' = TaskQ /\ owner.phase = "use" /\ Waiting # {}
          /\ Locking \subseteq Locking'
      BY <1>6 DEF WakeSpuriously, EndRun, AfterRun, Waiting, Locking, TypeOK
    <2> QED BY <2>1, <1>5
  <1>7. ASSUME NEW t \in Thread, Die(t) \/ CancelInRun(t) \/ CancelInWait(t) PROVE FALSE
    BY <1>7 DEF Die, CancelInRun, CancelInWait, End, Undisturbed, TypeOK, Phases
  <1>8. CASE UNCHANGED vars
    <2>1. /\ TaskQ' = TaskQ /\ owner.phase = "use" /\ Waiting # {}
          /\ Locking \subseteq Locking'
      BY <1>8 DEF vars, Waiting, Locking
    <2> QED BY <2>1, <1>5
  <1>9. ~(CancelThread \/ ReleaseAfterCancel \/ JoinThread \/ Destroy)
    BY DEF CancelThread, ReleaseAfterCancel, JoinThread, Destroy, OwnerTo
  <1> QED BY <1>1, <1>2, <1>3, <1>4, <1>6, <1>7, <1>8, <1>9 DEF Next, OwnerStep, LockStep

(***************************************************************************)
(* The theorems.                                                           *)
(***************************************************************************)
LEMMA InitInv == Init => IInv
  <1> SUFFICES ASSUME Init PROVE IInv
    OBVIOUS
  <1>1. TypeOK
    BY DEF Init, TypeOK, Places, Phases, Thread
  <1>2. NothingLost
    BY DEF Init, NothingLost
  <1>3. Undisturbed
    BY DEF Init, Undisturbed
  <1>4. NoSleeperIsNeeded
    BY DEF Init, NoSleeperIsNeeded
  <1> QED BY <1>1, <1>2, <1>3, <1>4 DEF IInv

LEMMA Inductive == Spec => []IInv
  <1>1. IInv /\ [Next]_vars => IInv'
    BY NextType, NextKeeps, NextUndisturbed, NextEnough DEF IInv
  <1> QED BY InitInv, <1>1, PTL DEF Spec

\* TThreadExecutor::Execute and WaitForTask: whatever the number of threads, and
\* whatever wakes or cancels them, every runnable is queued or was handed to
\* exactly one thread, in the order of Execute.
THEOREM NoRunnableIsLost == Spec => []NothingLost
  <1>1. IInv => NothingLost
    BY DEF IInv
  <1> QED BY Inductive, <1>1, PTL

\* One signal per Execute is enough: as long as a thread sleeps, the threads that
\* are on their way to the lock are as many as the runnables in the queue.
THEOREM OneSignalIsEnough == Spec => []NoSleeperIsNeeded
  <1>1. IInv => NoSleeperIsNeeded
    BY DEF IInv
  <1> QED BY Inductive, <1>1, PTL

\* Every variable keeps its type, and no thread is cancelled before the destructor.
THEOREM TypeCorrect == Spec => [](TypeOK /\ Undisturbed)
  <1>1. IInv => TypeOK /\ Undisturbed
    BY DEF IInv
  <1> QED BY Inductive, <1>1, PTL

(***************************************************************************)
(* The parallel loop (Jobs), which is the other way of running work on     *)
(* threads: for any number of threads and loops, each item is done once.   *)
(* An item is done when its segment has left the queue of its thread, or   *)
(* when that thread is past it.                                            *)
(***************************************************************************)
CONSTANTS ThreadNo, Sizes, MaxLoops
VARIABLES JobQ, jobPc, item, InProgress, StopFlag, master, AllItems, each, waiting

Jobs == INSTANCE JobPool WITH Q <- JobQ, pc <- jobPc, n <- item

(***************************************************************************)
(* The cut of s items.                                                     *)
(***************************************************************************)
CutBegin(s, t) == (t - 1) * Jobs!ItemsPerThread(s)
CutEnd(s, t) == Jobs!Min({s, t * Jobs!ItemsPerThread(s)})
InCut(s, t, i) == CutBegin(s, t) <= i /\ i < CutEnd(s, t)
Parts(s) == Jobs!Min({ThreadNo, s})

LEMMA MinOfTwo ==
  ASSUME NEW a \in Int, NEW b \in Int PROVE Jobs!Min({a, b}) = IF a <= b THEN a ELSE b
  <1> DEFINE m == IF a <= b THEN a ELSE b
  <1>1. m \in {a, b} /\ \A y \in {a, b} : m <= y
    OBVIOUS
  <1>2. \A x \in {a, b} : (\A y \in {a, b} : x <= y) => x = m
    OBVIOUS
  <1> QED BY <1>1, <1>2 DEF Jobs!Min

LEMMA Share ==
  ASSUME Jobs!Careful, NEW s \in Sizes
  PROVE  /\ Jobs!ItemsPerThread(s) \in Nat \ {0}
         /\ s < ThreadNo * Jobs!ItemsPerThread(s)
         /\ s < ThreadNo => Jobs!ItemsPerThread(s) = 1
  <1>1. s \in Nat /\ ThreadNo \in Nat \ {0}
    BY DEF Jobs!Careful
  <1> DEFINE d == s \div ThreadNo
  <1>2. d \in Nat /\ s < ThreadNo * (d + 1)
    BY <1>1
  <1>3. s < ThreadNo => d = 0
    BY <1>1
  <1>4. Jobs!ItemsPerThread(s) = d + 1
    BY DEF Jobs!ItemsPerThread
  <1> HIDE DEF d
  <1> QED BY <1>1, <1>2, <1>3, <1>4

LEMMA CutType ==
  ASSUME Jobs!Careful, NEW s \in Sizes, NEW t \in 1..Parts(s)
  PROVE  /\ t \in Jobs!Thread /\ t <= s
         /\ CutBegin(s, t) \in Nat /\ CutEnd(s, t) \in Nat
         /\ CutBegin(s, t) <= CutEnd(s, t) /\ CutEnd(s, t) <= s
         /\ CutBegin(s, t) \in 0..Jobs!Past /\ CutEnd(s, t) \in 0..Jobs!MaxItems
            /\ Jobs!MaxItems < Jobs!Past
  <1>1. s \in Nat /\ ThreadNo \in Nat \ {0} /\ Jobs!MaxItems \in Nat /\ s <= Jobs!MaxItems
    BY DEF Jobs!Careful
  <1>2. Parts(s) = IF ThreadNo <= s THEN ThreadNo ELSE s
    BY <1>1, MinOfTwo DEF Parts
  <1>3. t \in 1..ThreadNo /\ t <= s
    BY <1>1, <1>2
  <1> DEFINE k == Jobs!ItemsPerThread(s)
  <1>4. k \in Nat \ {0}
    BY Share
  <1>5. (t - 1) * k <= s
    BY <1>3 DEF Jobs!Careful, Jobs!CutsFit, Jobs!Thread
  <1> HIDE DEF k
  <1>6. (t - 1) * k \in Nat /\ t * k \in Nat /\ (t - 1) * k <= t * k
    BY <1>3, <1>4
  <1>7. CutBegin(s, t) = (t - 1) * k /\ CutEnd(s, t) = Jobs!Min({s, t * k})
    BY DEF CutBegin, CutEnd, k
  <1>8. CutEnd(s, t) = IF s <= t * k THEN s ELSE t * k
    BY <1>1, <1>6, <1>7, MinOfTwo
  <1>9. Jobs!MaxItems < Jobs!Past
    BY <1>1 DEF Jobs!Past
  <1> QED BY <1>1, <1>3, <1>5, <1>6, <1>7, <1>8, <1>9 DEF Jobs!Thread, Jobs!Past

LEMMA CutsDisjoint ==
  ASSUME Jobs!Careful, NEW s \in Sizes, NEW t \in 1..Parts(s), NEW u \in 1..Parts(s), NEW i \in Nat,
         InCut(s, t, i), InCut(s, u, i)
  PROVE  t = u
  <1>1. s \in Nat /\ t \in Nat /\ u \in Nat
    BY CutType DEF Jobs!Careful, Jobs!Thread
  <1> DEFINE k == Jobs!ItemsPerThread(s)
  <1>2. k \in Nat \ {0}
    BY Share
  <1>3. /\ CutEnd(s, t) = Jobs!Min({s, t * k}) /\ CutEnd(s, u) = Jobs!Min({s, u * k})
        /\ CutBegin(s, t) = (t - 1) * k /\ CutBegin(s, u) = (u - 1) * k
    BY DEF CutEnd, CutBegin
  <1> HIDE DEF k
  <1>4. t * k \in Nat /\ u * k \in Nat
    BY <1>1, <1>2
  <1>5. (t - 1) * k <= i /\ i < t * k /\ (u - 1) * k <= i /\ i < u * k
    BY <1>1, <1>3, <1>4, MinOfTwo DEF InCut
  <1>6. \A a, b \in Nat : a < b => a * k <= (b - 1) * k
    BY <1>2
  <1> QED BY <1>1, <1>2, <1>4, <1>5, <1>6

LEMMA CutsCover ==
  ASSUME Jobs!Careful, NEW s \in Sizes, NEW i \in 0..s - 1
  PROVE  \E t \in 1..Parts(s) : InCut(s, t, i)
  <1>1. s \in Nat /\ ThreadNo \in Nat \ {0}
    BY DEF Jobs!Careful
  <1> DEFINE k == Jobs!ItemsPerThread(s)
  <1> DEFINE q == i \div k
  <1> DEFINE t == q + 1
  <1>2. k \in Nat \ {0} /\ s < ThreadNo * k /\ (s < ThreadNo => k = 1)
    BY Share
  <1>3. CutBegin(s, t) = (t - 1) * k /\ CutEnd(s, t) = Jobs!Min({s, t * k})
    BY DEF CutEnd, CutBegin
  <1> HIDE DEF k
  <1>4. q \in Nat /\ q * k <= i /\ i < (q + 1) * k
    BY <1>1, <1>2
  <1>4a. k = 1 => q = i
    BY <1>1
  <1> HIDE DEF q
  <1>5. t \in Nat /\ t - 1 = q /\ t * k \in Nat
    BY <1>2, <1>4
  <1>6. InCut(s, t, i)
    BY <1>1, <1>3, <1>4, <1>5, MinOfTwo DEF InCut
  <1>7. t <= ThreadNo
    <2>1. q * k < ThreadNo * k
      BY <1>1, <1>2, <1>4
    <2> QED BY <1>1, <1>2, <1>4, <2>1
  <1>8. t <= s
    <2>1. CASE s < ThreadNo
      BY <1>1, <1>2, <1>4a, <2>1
    <2>2. CASE ThreadNo <= s
      BY <1>1, <1>5, <1>7, <2>2
    <2> QED BY <1>1, <2>1, <2>2
  <1>9. t \in 1..Parts(s)
    BY <1>1, <1>4, <1>7, <1>8, MinOfTwo DEF Parts
  <1> QED BY <1>6, <1>9

(***************************************************************************)
(* The invariant.                                                          *)
(***************************************************************************)
\* The segment of loop l for thread t has been put into the queue of t.
Given(l, t) ==
  /\ l \in 1..Jobs!Loops /\ t \in 1..Parts(AllItems[l])
  /\ l = Jobs!Loops /\ master.at = "add" => t < master.thread

InQ(l, t) == \E j \in 1..Len(JobQ[t]) : JobQ[t][j].loop = l

\* Thread t has done item i of loop l.
ItemDone(l, t, i) ==
  /\ Given(l, t) /\ InCut(AllItems[l], t, i)
  /\ ~InQ(l, t) \/ (jobPc[t] = "each" /\ JobQ[t][1].loop = l /\ i < item[t])

QueuesSound ==
  \A t \in Jobs!Thread :
    /\ \A j \in 1..Len(JobQ[t]) : Given(JobQ[t][j].loop, t)
       /\ JobQ[t][j] = Jobs!Segment(JobQ[t][j].loop, t)
    /\ \A i, j \in 1..Len(JobQ[t]) : i < j => JobQ[t][i].loop < JobQ[t][j].loop

AtHead ==
  \A t \in Jobs!Thread :
    /\ jobPc[t] = "each" <=> InProgress[t]
    /\ jobPc[t] = "each" => JobQ[t] # << >> /\ JobQ[t][1].IndexOffset <= item[t]
       /\ item[t] <= JobQ[t][1].IndexEnd

EachOnce ==
  \A l \in Jobs!Loop : \A i \in 0..Jobs!Past :
    each[l][i] = IF \E t \in Jobs!Thread : ItemDone(l, t, i) THEN 1 ELSE 0

\* Before the first thread that was not polled yet, all are finished.
Polled == master.at = "poll" => \A t \in Jobs!Thread : t < master.thread => Jobs!ThreadIsFinished(t)

\* No loop is started but the ones there is room for, and it is a loop that is cut.
Started == Jobs!Loops <= MaxLoops /\ (master.at = "add" => Jobs!Loops >= 1)

JobsIInv == Jobs!TypeOK /\ Started /\ QueuesSound /\ AtHead /\ EachOnce /\ Polled

(***************************************************************************)
(* Types.                                                                  *)
(***************************************************************************)
LEMMA Bounds ==
  ASSUME Jobs!Careful, Jobs!TypeOK
  PROVE  /\ ThreadNo \in Nat \ {0} /\ MaxLoops \in Nat /\ Jobs!MaxItems \in Nat /\ Jobs!Past \in Nat
         /\ Jobs!Loops \in Nat /\ Jobs!Loop = 1..MaxLoops
         /\ \A l \in 1..Jobs!Loops : AllItems[l] \in Sizes /\ AllItems[l] \in Nat
  <1>1. AllItems \in Seq(Sizes) /\ Sizes \subseteq Nat
    BY DEF Jobs!TypeOK, Jobs!Careful
  <1>2. Jobs!Loops \in Nat /\ \A l \in 1..Jobs!Loops : AllItems[l] \in Sizes
    BY <1>1 DEF Jobs!Loops
  <1>3. Jobs!MaxItems \in Nat
    BY DEF Jobs!Careful
  <1>4. Jobs!Past \in Nat
    BY <1>3 DEF Jobs!Past
  <1> QED BY <1>1, <1>2, <1>3, <1>4 DEF Jobs!Careful, Jobs!Loop

LEMMA SegmentIs ==
  ASSUME NEW l, NEW t
  PROVE  Jobs!Segment(l, t) = [loop |-> l, IndexOffset |-> CutBegin(AllItems[l], t), IndexEnd |-> CutEnd(AllItems[l], t)]
  BY DEF Jobs!Segment, CutBegin, CutEnd

LEMMA PartsType ==
  ASSUME Jobs!Careful, NEW s \in Sizes
  PROVE  Parts(s) \in Nat /\ Parts(s) <= ThreadNo /\ Parts(s) <= s /\ 1..Parts(s) \subseteq Jobs!Thread
  <1>1. s \in Nat /\ ThreadNo \in Nat \ {0}
    BY DEF Jobs!Careful
  <1>2. Parts(s) = IF ThreadNo <= s THEN ThreadNo ELSE s
    BY <1>1, MinOfTwo DEF Parts
  <1> QED BY <1>1, <1>2 DEF Jobs!Thread

\* The job at the head of the queue of a thread.
LEMMA HeadIs ==
  ASSUME Jobs!Careful, Jobs!TypeOK, QueuesSound, NEW t \in Jobs!Thread, JobQ[t] # << >>
  PROVE  /\ Head(JobQ[t]) = JobQ[t][1] /\ JobQ[t][1].loop \in 1..Jobs!Loops
            /\ JobQ[t][1].loop \in Jobs!Loop
         /\ Given(JobQ[t][1].loop, t) /\ InQ(JobQ[t][1].loop, t)
         /\ AllItems[JobQ[t][1].loop] \in Sizes /\ t \in 1..Parts(AllItems[JobQ[t][1].loop])
         /\ JobQ[t][1].IndexOffset = CutBegin(AllItems[JobQ[t][1].loop], t)
         /\ JobQ[t][1].IndexEnd = CutEnd(AllItems[JobQ[t][1].loop], t)
         /\ JobQ[t][1].IndexOffset \in Nat /\ JobQ[t][1].IndexEnd \in Nat
         /\ JobQ[t][1].IndexOffset <= JobQ[t][1].IndexEnd
         /\ JobQ[t][1].IndexOffset \in 0..Jobs!Past /\ JobQ[t][1].IndexEnd < Jobs!Past
  <1>1. JobQ[t] \in Seq(Jobs!Job) /\ 1 \in 1..Len(JobQ[t]) /\ Head(JobQ[t]) = JobQ[t][1]
    BY DEF Jobs!TypeOK
  <1> DEFINE l == JobQ[t][1].loop
  <1>2. Given(l, t) /\ JobQ[t][1] = Jobs!Segment(l, t)
    BY <1>1 DEF QueuesSound
  <1>3. l \in 1..Jobs!Loops /\ t \in 1..Parts(AllItems[l])
    BY <1>2 DEF Given
  <1>4. AllItems[l] \in Sizes
    BY <1>3, Bounds
  <1>5. l \in Jobs!Loop
    <2>1. JobQ[t][1] \in Jobs!Job
      BY <1>1
    <2> QED BY <2>1 DEF Jobs!Job
  <1>6. JobQ[t][1].IndexOffset = CutBegin(AllItems[l], t)
          /\ JobQ[t][1].IndexEnd = CutEnd(AllItems[l], t)
    BY <1>2, SegmentIs
  <1>7. InQ(l, t)
    BY <1>1 DEF InQ
  <1> HIDE DEF l
  <1>8. /\ CutBegin(AllItems[l], t) \in Nat /\ CutEnd(AllItems[l], t) \in Nat
        /\ CutBegin(AllItems[l], t) <= CutEnd(AllItems[l], t)
        /\ CutBegin(AllItems[l], t) \in 0..Jobs!Past /\ CutEnd(AllItems[l], t) < Jobs!Past
    <2>1. /\ CutBegin(AllItems[l], t) \in Nat /\ CutEnd(AllItems[l], t) \in Nat
          /\ CutBegin(AllItems[l], t) <= CutEnd(AllItems[l], t)
          /\ CutBegin(AllItems[l], t) \in 0..Jobs!Past
             /\ CutEnd(AllItems[l], t) \in 0..Jobs!MaxItems /\ Jobs!MaxItems < Jobs!Past
      BY <1>3, <1>4, CutType
    <2> QED BY <2>1, Bounds
  <1> QED BY <1>1, <1>2, <1>3, <1>4, <1>5, <1>6, <1>7, <1>8 DEF l

LEMMA JobsNextType == Jobs!Careful /\ JobsIInv /\ [Jobs!Next]_(Jobs!vars) => Jobs!TypeOK'
  <1> SUFFICES ASSUME Jobs!Careful, JobsIInv, [Jobs!Next]_(Jobs!vars) PROVE Jobs!TypeOK'
    OBVIOUS
  <1>a. Jobs!TypeOK /\ Started /\ QueuesSound /\ AtHead
    BY DEF JobsIInv
  <1>b. /\ ThreadNo \in Nat \ {0} /\ MaxLoops \in Nat /\ Jobs!MaxItems \in Nat /\ Jobs!Past \in Nat
        /\ Jobs!Loops \in Nat
    BY <1>a, Bounds
  <1>c. ASSUME NEW at \in {"idle", "add", "wait", "poll", "stop", "join", "gone"},
                 NEW t \in 1..ThreadNo + 1,
               Jobs!MasterTo(at, t)
        PROVE  master' \in [at : {"idle", "add", "wait", "poll", "stop", "join", "gone"}, thread : 1..ThreadNo + 1]
    BY <1>c DEF Jobs!MasterTo
  <1>d. ASSUME NEW at \in {"idle", "add", "wait", "poll", "stop", "join", "gone"},
               NEW then \in {"idle", "add", "wait", "poll", "stop", "join", "gone"},
               master.thread \in Jobs!Thread, Jobs!NextThread(at, then)
        PROVE  master' \in [at : {"idle", "add", "wait", "poll", "stop", "join", "gone"}, thread : 1..ThreadNo + 1]
    <2>1. 1 \in 1..ThreadNo + 1 /\ master.thread + 1 \in 1..ThreadNo + 1
      BY <1>b, <1>d DEF Jobs!Thread
    <2> QED BY <1>d, <2>1, <1>c DEF Jobs!NextThread
  <1>e. 1 \in 1..ThreadNo + 1
    BY <1>b
  <1>1. ASSUME NEW size \in Sizes, Jobs!ExecuteAndForget(size) PROVE Jobs!TypeOK'
    <2>1. AllItems' \in Seq(Sizes)
      BY <1>1, <1>a DEF Jobs!ExecuteAndForget, Jobs!TypeOK
    <2> QED BY <1>1, <1>a, <1>c, <1>e, <2>1 DEF Jobs!ExecuteAndForget, Jobs!TypeOK, Jobs!threads
  <1>2. CASE Jobs!AddJob
    <2>1. CASE master.thread <= Jobs!JobNo(Jobs!Loops)
      <3>1. Jobs!Loops \in 1..Jobs!Loops /\ AllItems[Jobs!Loops] \in Sizes /\ Jobs!Loops \in Jobs!Loop
        BY <1>2, <1>a, <1>b, Bounds DEF Jobs!AddJob, Started
      <3>2. master.thread \in 1..Parts(AllItems[Jobs!Loops])
        BY <2>1, <1>a, <3>1, PartsType DEF Jobs!JobNo, Parts, Jobs!TypeOK
      <3>3. master.thread \in Jobs!Thread
        BY <3>1, <3>2, PartsType
      <3>4. Jobs!Segment(Jobs!Loops, master.thread) \in Jobs!Job
        <4>1. /\ CutBegin(AllItems[Jobs!Loops], master.thread) \in 0..Jobs!Past
              /\ CutEnd(AllItems[Jobs!Loops], master.thread) \in 0..Jobs!MaxItems
          BY <3>1, <3>2, CutType
        <4> QED BY <3>1, <4>1, SegmentIs DEF Jobs!Job
      <3>5. JobQ' \in [Jobs!Thread -> Seq(Jobs!Job)]
        <4>1. JobQ' = [JobQ EXCEPT ![master.thread] = Append(@, Jobs!Segment(Jobs!Loops, master.thread))]
          BY <1>2, <2>1 DEF Jobs!AddJob
        <4> QED BY <3>3, <3>4, <4>1, <1>a DEF Jobs!TypeOK
      <3>6. master.thread + 1 \in 1..ThreadNo + 1
        BY <1>b, <3>3 DEF Jobs!Thread
      <3>7. master' \in [at : {"idle", "add", "wait", "poll", "stop", "join", "gone"}, thread : 1..ThreadNo + 1]
        BY <1>2, <2>1, <3>6, <1>c DEF Jobs!AddJob
      <3> QED BY <1>2, <3>5, <3>7, <1>a DEF Jobs!AddJob, Jobs!TypeOK, Jobs!threads
    <2>2. CASE ~(master.thread <= Jobs!JobNo(Jobs!Loops))
      BY <1>2, <2>2, <1>a, <1>c, <1>e DEF Jobs!AddJob, Jobs!TypeOK, Jobs!threads
    <2> QED BY <2>1, <2>2
  <1>3. CASE Jobs!WaitForCompletion \/ Jobs!Destroy
    BY <1>3, <1>a, <1>c, <1>e DEF Jobs!WaitForCompletion, Jobs!Destroy, Jobs!TypeOK, Jobs!threads
  <1>4. CASE Jobs!WaitForTask \/ Jobs!Poll
    BY <1>4, <1>a, <1>c, <1>d, <1>e DEF Jobs!WaitForTask, Jobs!Poll, Jobs!TypeOK, Jobs!threads, Jobs!Is
  <1>5. CASE Jobs!Stop \/ Jobs!Join
    BY <1>5, <1>a, <1>d DEF Jobs!Stop, Jobs!Join, Jobs!TypeOK, Jobs!threads, Jobs!Is
  <1>6. ASSUME NEW t \in Jobs!Thread, Jobs!Top(t) \/ Jobs!Look(t) \/ Jobs!Each(t)
                 \/ Jobs!FinishJob(t) PROVE Jobs!TypeOK'
    <2>1. CASE Jobs!Top(t)
      BY <2>1, <1>a DEF Jobs!Top, Jobs!TypeOK
    <2>2. CASE Jobs!Look(t)
      <3>1. CASE JobQ[t] = << >>
        BY <2>2, <3>1, <1>a DEF Jobs!Look, Jobs!TypeOK
      <3>2. CASE JobQ[t] # << >>
        <4>1. Head(JobQ[t]).IndexOffset \in 0..Jobs!Past
          BY <3>2, <1>a, HeadIs
        <4>2. item' \in [Jobs!Thread -> 0..Jobs!Past]
          BY <2>2, <3>2, <4>1, <1>a DEF Jobs!Look, Jobs!TypeOK
        <4>3. jobPc' \in [Jobs!Thread -> {"top", "look", "each", "ended"}]
                /\ InProgress' \in [Jobs!Thread -> BOOLEAN]
          BY <2>2, <3>2, <1>a DEF Jobs!Look, Jobs!TypeOK
        <4> QED BY <2>2, <4>2, <4>3, <1>a DEF Jobs!Look, Jobs!TypeOK
      <3> QED BY <3>1, <3>2
    <2>3. CASE Jobs!Each(t)
      <3>1. JobQ[t] # << >> /\ item[t] <= JobQ[t][1].IndexEnd
        BY <2>3, <1>a DEF Jobs!Each, AtHead
      <3>2. Head(JobQ[t]) = JobQ[t][1] /\ JobQ[t][1].loop \in Jobs!Loop
        BY <3>1, <1>a, HeadIs
      <3>3. item[t] \in 0..Jobs!Past /\ item[t] + 1 \in 0..Jobs!Past
        BY <2>3, <1>a, <1>b DEF Jobs!Each, Jobs!TypeOK
      <3>4. item' \in [Jobs!Thread -> 0..Jobs!Past]
        BY <2>3, <3>3, <1>a DEF Jobs!Each, Jobs!TypeOK
      <3>5. each[JobQ[t][1].loop][item[t]] + 1 \in 0..2
        <4>1. each[JobQ[t][1].loop][item[t]] = 0 \/ each[JobQ[t][1].loop][item[t]] = 1
          BY <3>2, <3>3 DEF JobsIInv, EachOnce
        <4> QED BY <4>1
      <3>6. each' \in [Jobs!Loop -> [0..Jobs!Past -> 0..2]]
        BY <2>3, <3>2, <3>3, <3>5, <1>a DEF Jobs!Each, Jobs!TypeOK
      <3> QED BY <2>3, <3>4, <3>6, <1>a DEF Jobs!Each, Jobs!TypeOK
    <2>4. CASE Jobs!FinishJob(t)
      <3>1. JobQ[t] # << >>
        BY <2>4, <1>a DEF Jobs!FinishJob, AtHead
      <3>2. JobQ' \in [Jobs!Thread -> Seq(Jobs!Job)]
        BY <2>4, <3>1, <1>a DEF Jobs!FinishJob, Jobs!AfterJob, Jobs!TypeOK
      <3> QED BY <2>4, <3>2, <1>a DEF Jobs!FinishJob, Jobs!Idle, Jobs!TypeOK
    <2> QED BY <1>6, <2>1, <2>2, <2>3, <2>4
  <1>7. CASE UNCHANGED Jobs!vars
    BY <1>7, <1>a DEF Jobs!vars, Jobs!TypeOK
  <1> QED BY <1>1, <1>2, <1>3, <1>4, <1>5, <1>6, <1>7 DEF Jobs!Next, Jobs!MasterStep, Jobs!ThreadStep

(***************************************************************************)
(* Which segments have been given out.                                     *)
(***************************************************************************)
SameGiven == /\ AllItems' = AllItems
             /\ \A l \in 1..Jobs!Loops : \A t \in Jobs!Thread : Given(l, t)' <=> Given(l, t)

LEMMA GivenIn ==
  ASSUME Jobs!Careful, Jobs!TypeOK, NEW l, NEW t, Given(l, t)
  PROVE  l \in 1..Jobs!Loops /\ t \in Jobs!Thread /\ AllItems[l] \in Sizes
           /\ t \in 1..Parts(AllItems[l])
  <1>1. l \in 1..Jobs!Loops /\ t \in 1..Parts(AllItems[l])
    BY DEF Given
  <1>2. AllItems[l] \in Sizes
    BY <1>1, Bounds
  <1> QED BY <1>1, <1>2, PartsType

LEMMA MasterGives ==
  ASSUME AllItems' = AllItems, master' = master \/ (master.at # "add" /\ master'.at # "add")
  PROVE  SameGiven
  BY DEF SameGiven, Given, Jobs!Loops

LEMMA LoopGives ==
  ASSUME Jobs!Careful, Jobs!TypeOK, NEW size \in Sizes, Jobs!ExecuteAndForget(size)
  PROVE  /\ Jobs!Loops' = Jobs!Loops + 1 /\ \A l \in 1..Jobs!Loops : AllItems'[l] = AllItems[l]
         /\ \A l \in 1..Jobs!Loops : \A t \in Jobs!Thread : Given(l, t)' <=> Given(l, t)
         /\ \A l : l = Jobs!Loops + 1 => \A t \in Jobs!Thread : ~Given(l, t)'
  <1>1. /\ AllItems' = Append(AllItems, size) /\ AllItems \in Seq(Sizes)
        /\ master'.at = "add" /\ master'.thread = 1 /\ master.at = "idle"
    BY DEF Jobs!ExecuteAndForget, Jobs!MasterTo, Jobs!TypeOK
  <1>2. Jobs!Loops \in Nat /\ Jobs!Loops' = Jobs!Loops + 1
          /\ \A l \in 1..Jobs!Loops : AllItems'[l] = AllItems[l]
    BY <1>1 DEF Jobs!Loops
  <1>3. ASSUME NEW l \in 1..Jobs!Loops, NEW t \in Jobs!Thread PROVE Given(l, t)' <=> Given(l, t)
    <2>1. l # Jobs!Loops' /\ l \in 1..Jobs!Loops'
      BY <1>2
    <2> QED BY <1>1, <1>2, <2>1 DEF Given
  <1>4. ASSUME NEW l, l = Jobs!Loops + 1, NEW t \in Jobs!Thread, Given(l, t)' PROVE FALSE
    <2>1. t \in Nat /\ t >= 1
      BY Bounds DEF Jobs!Thread
    <2>4. t < master'.thread
      BY <1>1, <1>2, <1>4 DEF Given
    <2> QED BY <2>1, <2>4, <1>1
  <1> QED BY <1>2, <1>3, <1>4

LEMMA JobGives ==
  ASSUME Jobs!Careful, Jobs!TypeOK, Started, Jobs!AddJob
  PROVE  /\ AllItems' = AllItems /\ Jobs!Loops \in 1..Jobs!Loops /\ AllItems[Jobs!Loops] \in Sizes
         /\ \A l \in 1..Jobs!Loops : \A t \in Jobs!Thread : <<l, t>> # <<Jobs!Loops, master.thread>>
            => (Given(l, t)' <=> Given(l, t))
         /\ ~Given(Jobs!Loops, master.thread)
         /\ master.thread <= Jobs!JobNo(Jobs!Loops) => master.thread \in Jobs!Thread
            /\ \A l, t : l = Jobs!Loops /\ t = master.thread => Given(l, t)'
         /\ ~(master.thread <= Jobs!JobNo(Jobs!Loops)) => SameGiven
  <1>1. master.at = "add" /\ AllItems' = AllItems /\ Jobs!Loops \in 1..Jobs!Loops
          /\ AllItems[Jobs!Loops] \in Sizes
    BY Bounds DEF Jobs!AddJob, Started
  <1>2. Jobs!JobNo(Jobs!Loops) = Parts(AllItems[Jobs!Loops])
    BY DEF Jobs!JobNo, Parts
  <1>3. /\ Parts(AllItems[Jobs!Loops]) \in Nat /\ 1..Parts(AllItems[Jobs!Loops]) \subseteq Jobs!Thread
        /\ master.thread \in Nat /\ master.thread >= 1 /\ Jobs!Thread \subseteq Nat
    BY <1>1, PartsType, Bounds DEF Jobs!TypeOK, Jobs!Thread
  <1>4. Jobs!Loops' = Jobs!Loops
    BY <1>1 DEF Jobs!Loops
  <1>5. ~Given(Jobs!Loops, master.thread)
    BY <1>1, <1>3 DEF Given
  <1>6. CASE master.thread <= Jobs!JobNo(Jobs!Loops)
    <2>1. master'.at = "add" /\ master'.thread = master.thread + 1
      BY <1>6 DEF Jobs!AddJob, Jobs!MasterTo
    <2>2. master.thread \in 1..Parts(AllItems[Jobs!Loops])
      BY <1>2, <1>3, <1>6
    <2>3. ASSUME NEW l \in 1..Jobs!Loops,
                   NEW t \in Jobs!Thread, <<l, t>> # <<Jobs!Loops, master.thread>>
          PROVE  Given(l, t)' <=> Given(l, t)
      <3>1. l = Jobs!Loops => (t < master'.thread <=> t < master.thread)
        BY <1>3, <2>1, <2>3
      <3> QED BY <1>1, <1>4, <2>1, <3>1 DEF Given
    <2>6. ASSUME NEW l, NEW t, l = Jobs!Loops, t = master.thread PROVE Given(l, t)'
      BY <1>1, <1>3, <1>4, <2>1, <2>2, <2>6 DEF Given
    <2> QED BY <1>1, <1>3, <1>5, <1>6, <2>2, <2>3, <2>6
  <1>7. CASE ~(master.thread <= Jobs!JobNo(Jobs!Loops))
    <2>1. master'.at = "idle"
      BY <1>7 DEF Jobs!AddJob, Jobs!MasterTo
    <2>2. ASSUME NEW l \in 1..Jobs!Loops, NEW t \in Jobs!Thread PROVE Given(l, t)' <=> Given(l, t)
      <3>1. l = Jobs!Loops /\ t \in 1..Parts(AllItems[l]) => t < master.thread
        BY <1>2, <1>3, <1>7
      <3> QED BY <1>1, <1>4, <2>1, <3>1 DEF Given
    <2> QED BY <1>1, <1>5, <1>7, <2>2 DEF SameGiven
  <1> QED BY <1>6, <1>7

(***************************************************************************)
(* The queues.                                                             *)
(***************************************************************************)
LEMMA QueuesStay ==
  ASSUME Jobs!Careful, Jobs!TypeOK, QueuesSound, JobQ' = JobQ, Jobs!Loops' \in Nat,
         \A l \in 1..Jobs!Loops : AllItems'[l] = AllItems[l],
         \A l \in 1..Jobs!Loops : \A t \in Jobs!Thread : Given(l, t)' <=> Given(l, t)
  PROVE  QueuesSound'
  <1> SUFFICES ASSUME NEW t \in Jobs!Thread, NEW j \in 1..Len(JobQ[t])
               PROVE  Given(JobQ[t][j].loop, t)' /\ JobQ[t][j] = Jobs!Segment(JobQ[t][j].loop, t)'
    BY DEF QueuesSound
  <1>1. PICK l : l = JobQ[t][j].loop
    OBVIOUS
  <1>2. Given(l, t) /\ JobQ[t][j] = Jobs!Segment(l, t)
    BY <1>1 DEF QueuesSound
  <1>3. l \in 1..Jobs!Loops
    BY <1>2, GivenIn
  <1>4. Given(l, t)' /\ Jobs!Segment(l, t)' = Jobs!Segment(l, t)
    BY <1>2, <1>3 DEF Jobs!Segment
  <1> QED BY <1>1, <1>2, <1>4

LEMMA NextQueues == Jobs!Careful /\ JobsIInv /\ Jobs!TypeOK' /\ [Jobs!Next]_(Jobs!vars) => QueuesSound'
  <1> SUFFICES ASSUME Jobs!Careful, JobsIInv, Jobs!TypeOK', [Jobs!Next]_(Jobs!vars) PROVE QueuesSound'
    OBVIOUS
  <1>a. Jobs!TypeOK /\ Started /\ QueuesSound /\ AtHead /\ Jobs!Loops' \in Nat
    BY DEF JobsIInv, Jobs!TypeOK, Jobs!Loops
  <1>b. ASSUME JobQ' = JobQ, SameGiven PROVE QueuesSound'
    BY <1>a, <1>b, QueuesStay DEF SameGiven
  <1>1. ASSUME NEW size \in Sizes, Jobs!ExecuteAndForget(size) PROVE QueuesSound'
    BY <1>1, <1>a, LoopGives, QueuesStay DEF Jobs!ExecuteAndForget
  <1>2. CASE Jobs!AddJob
    <2>1. CASE master.thread <= Jobs!JobNo(Jobs!Loops)
      <3> DEFINE m == master.thread
      <3>1. /\ AllItems' = AllItems /\ Jobs!Loops' = Jobs!Loops /\ m \in Jobs!Thread
               /\ JobQ \in [Jobs!Thread -> Seq(Jobs!Job)]
            /\ JobQ' = [JobQ EXCEPT ![m] = Append(@, Jobs!Segment(Jobs!Loops, m))]
        BY <1>2, <2>1, <1>a, JobGives DEF Jobs!AddJob, Jobs!TypeOK, Jobs!Loops
      <3>2. SUFFICES ASSUME NEW t \in Jobs!Thread
                     PROVE  /\ \A j \in 1..Len(JobQ'[t]) : Given(JobQ[t][j].loop, t)'
                               /\ JobQ'[t][j] = Jobs!Segment(JobQ[t][j].loop, t)'
                            /\ \A i, j \in 1..Len(JobQ'[t]) : i < j
                               => JobQ'[t][i].loop < JobQ'[t][j].loop
        BY DEF QueuesSound
      <3>3. /\ \A j \in 1..Len(JobQ[t]) : Given(JobQ[t][j].loop, t)
               /\ JobQ[t][j] = Jobs!Segment(JobQ[t][j].loop, t)
            /\ \A i, j \in 1..Len(JobQ[t]) : i < j => JobQ[t][i].loop < JobQ[t][j].loop
        BY <1>a DEF QueuesSound
      <3>4. \A j \in 1..Len(JobQ[t]) : JobQ[t][j].loop \in 1..Jobs!Loops /\ (t = m
              => JobQ[t][j].loop < Jobs!Loops)
        <4> SUFFICES ASSUME NEW j \in 1..Len(JobQ[t])
                     PROVE  JobQ[t][j].loop \in 1..Jobs!Loops /\ (t = m => JobQ[t][j].loop < Jobs!Loops)
          OBVIOUS
        <4>1. Given(JobQ[t][j].loop, t)
          BY <3>3
        <4>2. JobQ[t][j].loop \in 1..Jobs!Loops
          BY <4>1, <1>a, GivenIn
        <4>3. t = m => JobQ[t][j].loop # Jobs!Loops
          BY <1>2, <4>1, <1>a, JobGives
        <4> QED BY <4>2, <4>3, <1>a, Bounds
      <3>5. ASSUME NEW l \in 1..Jobs!Loops, Given(l, t) \/ (l = Jobs!Loops /\ t = m) PROVE Given(l, t)'
        BY <1>2, <2>1, <3>5, <1>a, JobGives
      <3>6. \A l : Jobs!Segment(l, t)' = Jobs!Segment(l, t)
        BY <3>1 DEF Jobs!Segment
      <3>7. CASE t # m
        <4>1. JobQ'[t] = JobQ[t]
          BY <3>1, <3>7
        <4> QED BY <4>1, <3>3, <3>4, <3>5, <3>6
      <3>8. CASE t = m
        <4>1. PICK q \in Seq(Jobs!Job) : q = JobQ[t]
          BY <3>1
        <4>2. PICK x : x = Jobs!Segment(Jobs!Loops, t)
          OBVIOUS
        <4>3. JobQ'[t] = Append(q, x) /\ x.loop = Jobs!Loops
          BY <3>1, <3>8, <4>1, <4>2 DEF Jobs!Segment
        <4>4. Jobs!Loops \in 1..Jobs!Loops
          BY <1>2, <1>a, JobGives
        <4>5. Len(JobQ'[t]) = Len(q) + 1 /\ Len(q) \in Nat /\ JobQ'[t][Len(q) + 1] = x
              /\ \A j \in 1..Len(q) : JobQ'[t][j] = q[j]
          BY <4>1, <4>3
        <4>6. \A j \in 1..Len(JobQ'[t]) : j \in 1..Len(q) \/ j = Len(q) + 1
          BY <4>5
        <4>7. ASSUME NEW j \in 1..Len(JobQ'[t])
              PROVE Given(JobQ[t][j].loop, t)' /\ JobQ'[t][j] = Jobs!Segment(JobQ[t][j].loop, t)'
          <5>1. CASE j \in 1..Len(q)
            <6>1. PICK l : l = JobQ[t][j].loop
              OBVIOUS
            <6>2. l \in 1..Jobs!Loops /\ Given(l, t) /\ JobQ[t][j] = Jobs!Segment(l, t)
              BY <5>1, <6>1, <3>3, <3>4, <4>1
            <6>3. Given(l, t)' /\ JobQ'[t][j] = Jobs!Segment(l, t)' /\ JobQ'[t][j].loop = l
              BY <5>1, <6>1, <6>2, <3>5, <3>6, <4>1, <4>5
            <6> QED BY <6>3
          <5>2. CASE j = Len(q) + 1
            <6>1. PICK l : l = Jobs!Loops
              OBVIOUS
            <6>2. Given(l, t)'
              BY <6>1, <3>5, <3>8, <4>4
            <6>3. JobQ'[t][j] = Jobs!Segment(l, t)' /\ JobQ'[t][j].loop = l
              BY <5>2, <6>1, <3>6, <4>2, <4>3, <4>5
            <6> QED BY <6>2, <6>3
          <5> QED BY <5>1, <5>2, <4>6
        <4>8. ASSUME NEW i \in 1..Len(JobQ'[t]), NEW j \in 1..Len(JobQ'[t]), i < j
              PROVE  JobQ'[t][i].loop < JobQ'[t][j].loop
          <5>1. i \in 1..Len(q)
            BY <4>5, <4>8
          <5>2. CASE j \in 1..Len(q)
            BY <5>1, <5>2, <4>1, <4>5, <4>8, <3>3
          <5>3. CASE j = Len(q) + 1
            BY <5>1, <5>3, <4>1, <4>3, <4>5, <3>4, <3>8
          <5> QED BY <5>2, <5>3, <4>6
        <4> QED BY <4>7, <4>8
      <3> QED BY <3>7, <3>8
    <2>2. CASE ~(master.thread <= Jobs!JobNo(Jobs!Loops))
      BY <1>2, <2>2, <1>a, <1>b, JobGives DEF Jobs!AddJob
    <2> QED BY <2>1, <2>2
  <1>3. CASE Jobs!WaitForCompletion \/ Jobs!Destroy \/ Jobs!WaitForTask \/ Jobs!Poll \/ Jobs!Stop
               \/ Jobs!Join
    <2>1. JobQ' = JobQ /\ AllItems' = AllItems /\ master.at # "add" /\ master'.at # "add"
      BY <1>3 DEF Jobs!WaitForCompletion, Jobs!Destroy, Jobs!WaitForTask, Jobs!Poll, Jobs!Stop,
        Jobs!Join, Jobs!Is, Jobs!NextThread, Jobs!MasterTo
    <2> QED BY <2>1, <1>b, MasterGives
  <1>4. ASSUME NEW t \in Jobs!Thread, Jobs!Top(t) \/ Jobs!Look(t) \/ Jobs!Each(t) PROVE QueuesSound'
    <2>1. JobQ' = JobQ /\ AllItems' = AllItems /\ master' = master
      BY <1>4 DEF Jobs!Top, Jobs!Look, Jobs!Each
    <2> QED BY <2>1, <1>b, MasterGives
  <1>5. ASSUME NEW u \in Jobs!Thread, Jobs!FinishJob(u) PROVE QueuesSound'
    <2>1. /\ AllItems' = AllItems /\ master' = master /\ JobQ[u] # << >>
          /\ JobQ' = [JobQ EXCEPT ![u] = Tail(@)] /\ JobQ \in [Jobs!Thread -> Seq(Jobs!Job)]
      BY <1>5, <1>a DEF Jobs!FinishJob, Jobs!AfterJob, AtHead, Jobs!TypeOK
    <2>2. \A l, t : (Given(l, t)' <=> Given(l, t)) /\ Jobs!Segment(l, t)' = Jobs!Segment(l, t)
      BY <2>1 DEF Given, Jobs!Segment, Jobs!Loops
    <2>3. SUFFICES ASSUME NEW t \in Jobs!Thread
                   PROVE  /\ \A j \in 1..Len(JobQ'[t]) : Given(JobQ[t][j].loop, t)'
                             /\ JobQ'[t][j] = Jobs!Segment(JobQ[t][j].loop, t)'
                          /\ \A i, j \in 1..Len(JobQ'[t]) : i < j => JobQ'[t][i].loop < JobQ'[t][j].loop
      BY DEF QueuesSound
    <2>4. /\ \A j \in 1..Len(JobQ[t]) : Given(JobQ[t][j].loop, t)
             /\ JobQ[t][j] = Jobs!Segment(JobQ[t][j].loop, t)
          /\ \A i, j \in 1..Len(JobQ[t]) : i < j => JobQ[t][i].loop < JobQ[t][j].loop
      BY <1>a DEF QueuesSound
    <2>5. \E d \in {0, 1} : Len(JobQ'[t]) = Len(JobQ[t]) - d
            /\ \A j \in 1..Len(JobQ'[t]) : JobQ'[t][j] = JobQ[t][j + d]
      <3>1. CASE t # u
        BY <2>1, <3>1
      <3>2. CASE t = u
        <4>1. PICK q \in Seq(Jobs!Job) : q = JobQ[t]
          BY <2>1
        <4>2. JobQ'[t] = Tail(q) /\ q # << >>
          BY <2>1, <3>2, <4>1
        <4>3. Len(Tail(q)) = Len(q) - 1 /\ \A j \in 1..Len(Tail(q)) : Tail(q)[j] = q[j + 1]
          BY <4>1, <4>2
        <4> QED BY <4>1, <4>2, <4>3
      <3> QED BY <3>1, <3>2
    <2>6. PICK d \in {0, 1} : Len(JobQ'[t]) = Len(JobQ[t]) - d
                                /\ \A j \in 1..Len(JobQ'[t]) : JobQ'[t][j] = JobQ[t][j + d]
      BY <2>5
    <2>7. Len(JobQ[t]) \in Nat /\ \A j \in 1..Len(JobQ'[t]) : j + d \in 1..Len(JobQ[t])
      BY <2>1, <2>6
    <2>8. ASSUME NEW j \in 1..Len(JobQ'[t])
          PROVE Given(JobQ[t][j].loop, t)' /\ JobQ'[t][j] = Jobs!Segment(JobQ[t][j].loop, t)'
      <3>1. PICK l : l = JobQ'[t][j].loop
        OBVIOUS
      <3>2. Given(l, t) /\ JobQ'[t][j] = Jobs!Segment(l, t)
        BY <2>4, <2>6, <2>7, <3>1
      <3>3. Given(l, t)' /\ JobQ'[t][j] = Jobs!Segment(l, t)'
        BY <2>2, <3>2
      <3> QED BY <3>1, <3>3
    <2>9. ASSUME NEW i \in 1..Len(JobQ'[t]), NEW j \in 1..Len(JobQ'[t]), i < j
          PROVE JobQ'[t][i].loop < JobQ'[t][j].loop
      <3>1. i + d \in 1..Len(JobQ[t]) /\ j + d \in 1..Len(JobQ[t]) /\ i + d < j + d
        BY <2>6, <2>7, <2>9
      <3>2. JobQ[t][i + d].loop < JobQ[t][j + d].loop
        BY <2>4, <3>1
      <3>3. JobQ'[t][i] = JobQ[t][i + d] /\ JobQ'[t][j] = JobQ[t][j + d]
        BY <2>6
      <3> QED BY <3>2, <3>3
    <2> QED BY <2>8, <2>9
  <1>6. CASE UNCHANGED Jobs!vars
    BY <1>6, <1>b, MasterGives DEF Jobs!vars
  <1> QED BY <1>1, <1>2, <1>3, <1>4, <1>5, <1>6 DEF Jobs!Next, Jobs!MasterStep, Jobs!ThreadStep

(***************************************************************************)
(* The threads and the master.                                             *)
(***************************************************************************)
LEMMA NextAtHead == Jobs!Careful /\ JobsIInv /\ [Jobs!Next]_(Jobs!vars) => AtHead'
  <1> SUFFICES ASSUME Jobs!Careful, JobsIInv, [Jobs!Next]_(Jobs!vars) PROVE AtHead'
    OBVIOUS
  <1>a. Jobs!TypeOK /\ QueuesSound /\ AtHead /\ JobQ \in [Jobs!Thread -> Seq(Jobs!Job)]
    BY DEF JobsIInv, Jobs!TypeOK
  <1>1. CASE Jobs!AddJob
    <2>1. UNCHANGED <<jobPc, item, InProgress>>
      BY <1>1 DEF Jobs!AddJob, Jobs!threads
    <2>2. ASSUME NEW t \in Jobs!Thread, JobQ[t] # << >>
          PROVE JobQ'[t] # << >> /\ JobQ'[t][1] = JobQ[t][1]
      <3>1. CASE JobQ'[t] = JobQ[t]
        BY <2>2, <3>1
      <3>2. CASE JobQ'[t] # JobQ[t]
        <4>1. PICK x : JobQ'[t] = Append(JobQ[t], x)
          BY <1>1, <3>2, <1>a DEF Jobs!AddJob
        <4> QED BY <4>1, <2>2, <1>a
      <3> QED BY <3>1, <3>2
    <2> QED BY <2>1, <2>2, <1>a DEF AtHead
  <1>2. ASSUME JobQ' = JobQ, UNCHANGED <<jobPc, item, InProgress>> PROVE AtHead'
    BY <1>2, <1>a DEF AtHead
  <1>3. ASSUME NEW u \in Jobs!Thread, Jobs!Top(u) \/ Jobs!Look(u) \/ Jobs!Each(u)
                 \/ Jobs!FinishJob(u) PROVE AtHead'
    <2>0. /\ jobPc \in [Jobs!Thread -> {"top", "look", "each", "ended"}]
          /\ item \in [Jobs!Thread -> 0..Jobs!Past] /\ InProgress \in [Jobs!Thread -> BOOLEAN]
             /\ Jobs!Past \in Nat
      BY <1>a, Bounds DEF Jobs!TypeOK
    <2>1. ASSUME NEW t \in Jobs!Thread, t # u
          PROVE  JobQ'[t] = JobQ[t] /\ jobPc'[t] = jobPc[t] /\ item'[t] = item[t]
                   /\ InProgress'[t] = InProgress[t]
      BY <1>3, <2>0, <2>1, <1>a DEF Jobs!Top, Jobs!Look, Jobs!Each, Jobs!FinishJob, Jobs!AfterJob,
        Jobs!Idle
    <2>2. /\ jobPc'[u] = "each" <=> InProgress'[u]
          /\ jobPc'[u] = "each" => JobQ'[u] # << >> /\ JobQ'[u][1].IndexOffset <= item'[u]
             /\ item'[u] <= JobQ'[u][1].IndexEnd
      <3>1. CASE Jobs!Top(u)
        BY <3>1, <2>0, <1>a DEF Jobs!Top, AtHead
      <3>2. CASE Jobs!Look(u)
        <4>1. CASE JobQ[u] = << >>
          BY <3>2, <4>1, <2>0, <1>a DEF Jobs!Look, AtHead
        <4>2. CASE JobQ[u] # << >>
          <5>1. JobQ' = JobQ /\ jobPc'[u] = "each" /\ InProgress'[u] = TRUE
                  /\ item'[u] = Head(JobQ[u]).IndexOffset
            BY <3>2, <4>2, <2>0 DEF Jobs!Look
          <5>2. Head(JobQ[u]) = JobQ[u][1] /\ JobQ[u][1].IndexOffset <= JobQ[u][1].IndexEnd
                  /\ JobQ[u][1].IndexOffset \in Nat
            BY <4>2, <1>a, HeadIs
          <5> QED BY <4>2, <5>1, <5>2
        <4> QED BY <4>1, <4>2
      <3>3. CASE Jobs!Each(u)
        <4>1. /\ JobQ' = JobQ /\ jobPc' = jobPc /\ InProgress' = InProgress /\ jobPc[u] = "each"
                 /\ JobQ[u] # << >>
              /\ item'[u] = item[u] + 1 /\ item[u] # Head(JobQ[u]).IndexEnd
              /\ JobQ[u][1].IndexOffset <= item[u] /\ item[u] <= JobQ[u][1].IndexEnd /\ item[u] \in Nat
          BY <3>3, <2>0, <1>a DEF Jobs!Each, Jobs!AtEnd, AtHead
        <4>2. Head(JobQ[u]) = JobQ[u][1] /\ JobQ[u][1].IndexOffset \in Nat
                /\ JobQ[u][1].IndexEnd \in Nat
          BY <4>1, <1>a, HeadIs
        <4>3. InProgress[u]
          BY <4>1, <1>a DEF AtHead
        <4>4. PICK a, b \in Nat : a = JobQ[u][1].IndexOffset /\ b = JobQ[u][1].IndexEnd
          BY <4>2
        <4>5. a <= item[u] + 1 /\ item[u] + 1 <= b
          BY <4>1, <4>2, <4>4
        <4> QED BY <4>1, <4>3, <4>4, <4>5
      <3>4. CASE Jobs!FinishJob(u)
        BY <3>4, <2>0 DEF Jobs!FinishJob, Jobs!Idle
      <3> QED BY <1>3, <3>1, <3>2, <3>3, <3>4
    <2>3. ASSUME NEW t \in Jobs!Thread
          PROVE  /\ jobPc'[t] = "each" <=> InProgress'[t]
                 /\ jobPc'[t] = "each" => JobQ'[t] # << >> /\ JobQ'[t][1].IndexOffset <= item'[t]
                    /\ item'[t] <= JobQ'[t][1].IndexEnd
      BY <2>1, <2>2, <1>a DEF AtHead
    <2> QED BY <2>3 DEF AtHead
  <1> QED BY <1>1, <1>2, <1>3
          DEF Jobs!Next, Jobs!MasterStep, Jobs!ThreadStep, Jobs!ExecuteAndForget,
            Jobs!WaitForCompletion, Jobs!Destroy, Jobs!WaitForTask,
              Jobs!Poll, Jobs!Stop, Jobs!Join, Jobs!threads, Jobs!vars

LEMMA NextStarted == Jobs!Careful /\ JobsIInv /\ [Jobs!Next]_(Jobs!vars) => Started'
  <1> SUFFICES ASSUME Jobs!Careful, JobsIInv, [Jobs!Next]_(Jobs!vars) PROVE Started'
    OBVIOUS
  <1>a. Jobs!TypeOK /\ Started /\ Jobs!Loops \in Nat /\ MaxLoops \in Nat
    BY Bounds DEF JobsIInv
  <1>1. ASSUME NEW size \in Sizes, Jobs!ExecuteAndForget(size) PROVE Started'
    BY <1>1, <1>a, LoopGives DEF Jobs!ExecuteAndForget, Started
  <1>2. ASSUME AllItems' = AllItems, master'.at = "add" => master.at = "add" PROVE Started'
    BY <1>2, <1>a DEF Started, Jobs!Loops
  <1>3. CASE Jobs!AddJob
    BY <1>2, <1>3 DEF Jobs!AddJob
  <1>4. CASE Jobs!WaitForCompletion \/ Jobs!Destroy \/ Jobs!WaitForTask \/ Jobs!Poll \/ Jobs!Stop
               \/ Jobs!Join
    <2>1. AllItems' = AllItems /\ master'.at # "add"
      BY <1>4 DEF Jobs!WaitForCompletion, Jobs!Destroy, Jobs!WaitForTask, Jobs!Poll, Jobs!Stop,
        Jobs!Join, Jobs!Is, Jobs!NextThread, Jobs!MasterTo
    <2> QED BY <2>1, <1>2
  <1>5. ASSUME NEW t \in Jobs!Thread, Jobs!ThreadStep(t) PROVE Started'
    BY <1>2, <1>5 DEF Jobs!ThreadStep, Jobs!Top, Jobs!Look, Jobs!Each, Jobs!FinishJob
  <1>6. CASE UNCHANGED Jobs!vars
    BY <1>2, <1>6 DEF Jobs!vars
  <1> QED BY <1>1, <1>3, <1>4, <1>5, <1>6 DEF Jobs!Next, Jobs!MasterStep

LEMMA NextPolled == Jobs!Careful /\ JobsIInv /\ [Jobs!Next]_(Jobs!vars) => Polled'
  <1> SUFFICES ASSUME Jobs!Careful, JobsIInv, [Jobs!Next]_(Jobs!vars), master'.at = "poll",
                      NEW t \in Jobs!Thread, t < master'.thread
               PROVE  Jobs!ThreadIsFinished(t)'
    BY DEF Polled
  <1>a. Jobs!TypeOK /\ Polled /\ AtHead /\ t \in Nat /\ t >= 1 /\ ThreadNo \in Nat \ {0}
        /\ Jobs!Thread = 1..ThreadNo /\ master.thread \in Nat
    BY Bounds DEF JobsIInv, Jobs!Thread, Jobs!TypeOK
  <1>b. ASSUME master' = master, JobQ' = JobQ, InProgress' = InProgress PROVE Jobs!ThreadIsFinished(t)'
    BY <1>a, <1>b DEF Polled, Jobs!ThreadIsFinished
  <1>1. CASE Jobs!Poll
    <2>1. CASE Jobs!ThreadIsFinished(master.thread)
      <3>1. master' = [at |-> "poll", thread |-> master.thread + 1] /\ JobQ' = JobQ
              /\ InProgress' = InProgress
        BY <1>1, <2>1 DEF Jobs!Poll, Jobs!NextThread, Jobs!MasterTo, Jobs!threads
      <3>2. t < master.thread \/ t = master.thread
        BY <3>1, <1>a
      <3>3. master.at = "poll"
        BY <1>1 DEF Jobs!Poll, Jobs!Is
      <3>4. Jobs!ThreadIsFinished(t)
        BY <2>1, <3>2, <3>3, <1>a DEF Polled
      <3> QED BY <3>1, <3>4 DEF Jobs!ThreadIsFinished
    <2>2. CASE ~Jobs!ThreadIsFinished(master.thread)
      <3>1. master'.thread = 1
        BY <1>1, <2>2 DEF Jobs!Poll, Jobs!MasterTo
      <3> QED BY <3>1, <1>a
    <2> QED BY <2>1, <2>2
  <1>2. CASE Jobs!WaitForTask
    <2>1. master'.thread = 1
      BY <1>2 DEF Jobs!WaitForTask, Jobs!NextThread, Jobs!MasterTo, Jobs!Is
    <2> QED BY <2>1, <1>a
  <1>3. ASSUME NEW u \in Jobs!Thread, Jobs!ThreadStep(u) PROVE Jobs!ThreadIsFinished(t)'
    <2>1. master' = master /\ Jobs!ThreadIsFinished(t)
      BY <1>3, <1>a DEF Jobs!ThreadStep, Jobs!Top, Jobs!Look, Jobs!Each, Jobs!FinishJob, Polled
    <2>2. CASE t = u
      <3>1. JobQ[u] = << >> /\ ~InProgress[u] /\ jobPc[u] # "each"
        BY <2>1, <2>2, <1>a DEF Jobs!ThreadIsFinished, AtHead
      <3>2. JobQ' = JobQ /\ InProgress' = InProgress
        BY <1>3, <3>1 DEF Jobs!ThreadStep, Jobs!Top, Jobs!Look, Jobs!Each, Jobs!FinishJob
      <3> QED BY <2>1, <3>2 DEF Jobs!ThreadIsFinished
    <2>3. CASE t # u
      <3>1. JobQ'[t] = JobQ[t] /\ InProgress'[t] = InProgress[t]
        BY <1>3, <2>3, <1>a, ZenonT(40) DEF Jobs!ThreadStep, Jobs!Top, Jobs!Look, Jobs!Each, Jobs!FinishJob,
          Jobs!AfterJob, Jobs!Idle, Jobs!TypeOK
      <3> QED BY <2>1, <3>1 DEF Jobs!ThreadIsFinished
    <2> QED BY <2>2, <2>3
  <1>4. CASE UNCHANGED Jobs!vars
    BY <1>4, <1>b DEF Jobs!vars
  <1>5. ~(Jobs!AddJob \/ Jobs!Destroy \/ Jobs!Stop \/ Jobs!Join)
          /\ \A size \in Sizes : ~Jobs!ExecuteAndForget(size)
    BY DEF Jobs!AddJob, Jobs!Destroy, Jobs!Stop, Jobs!Join, Jobs!ExecuteAndForget, Jobs!NextThread,
      Jobs!MasterTo
  <1>6. ~Jobs!WaitForCompletion
    BY DEF Jobs!WaitForCompletion, Jobs!MasterTo
  <1> QED BY <1>1, <1>2, <1>3, <1>4, <1>5, <1>6 DEF Jobs!Next, Jobs!MasterStep

(***************************************************************************)
(* The items.                                                              *)
(***************************************************************************)
LEMMA SameDone ==
  ASSUME Jobs!TypeOK, EachOnce, each' = each,
         \A l \in Jobs!Loop : \A i \in 0..Jobs!Past : \A t \in Jobs!Thread : ItemDone(l, t, i)'
           <=> ItemDone(l, t, i)
  PROVE  EachOnce'
  <1> SUFFICES ASSUME NEW l \in Jobs!Loop, NEW i \in 0..Jobs!Past
               PROVE  each[l][i] = IF \E t \in Jobs!Thread : ItemDone(l, t, i)' THEN 1 ELSE 0
    BY DEF EachOnce
  <1>1. (\E t \in Jobs!Thread : ItemDone(l, t, i)') <=> (\E t \in Jobs!Thread : ItemDone(l, t, i))
    OBVIOUS
  <1> QED BY <1>1 DEF EachOnce

\* An item that a thread has done is in a loop that was started, and nobody else has done it.
LEMMA DoneOnce ==
  ASSUME Jobs!Careful, Jobs!TypeOK, NEW l, NEW t, NEW i \in Nat, ItemDone(l, t, i)
  PROVE  /\ l \in 1..Jobs!Loops /\ t \in Jobs!Thread /\ i < AllItems[l] /\ AllItems[l] \in Sizes
         /\ t \in 1..Parts(AllItems[l])
  <1>1. Given(l, t) /\ InCut(AllItems[l], t, i)
    BY DEF ItemDone
  <1>2. l \in 1..Jobs!Loops /\ t \in Jobs!Thread /\ AllItems[l] \in Sizes /\ t \in 1..Parts(AllItems[l])
    BY <1>1, GivenIn
  <1>3. PICK s \in Sizes : s = AllItems[l]
    BY <1>2
  <1>4. CutEnd(s, t) \in Nat /\ CutEnd(s, t) <= s /\ s \in Nat
    BY <1>2, <1>3, CutType DEF Jobs!Careful
  <1>5. i < CutEnd(s, t)
    BY <1>1, <1>3 DEF InCut
  <1> QED BY <1>2, <1>3, <1>4, <1>5

LEMMA GivenSame ==
  ASSUME Jobs!Careful, Jobs!TypeOK, NEW l, NEW t, Given(l, t) <=> Given(l, t)', Given(l, t)
           => AllItems'[l] = AllItems[l],
         Given(l, t) => JobQ'[t] = JobQ[t] /\ jobPc'[t] = jobPc[t] /\ item'[t] = item[t]
  PROVE  \A i : ItemDone(l, t, i)' <=> ItemDone(l, t, i)
  <1>1. CASE ~Given(l, t)
    BY <1>1 DEF ItemDone
  <1>2. CASE Given(l, t)
    BY <1>2 DEF ItemDone, InQ
  <1> QED BY <1>1, <1>2

LEMMA EachStep ==
  ASSUME Jobs!Careful, JobsIInv, NEW u \in Jobs!Thread, Jobs!Each(u) PROVE EachOnce'
  <1>a. Jobs!TypeOK /\ QueuesSound /\ AtHead /\ EachOnce /\ Jobs!Past \in Nat
    BY Bounds DEF JobsIInv
  <1>1. JobQ[u] # << >> /\ jobPc[u] = "each"
    BY <1>a DEF Jobs!Each, AtHead
  <1>2. PICK h : h = JobQ[u][1].loop
    OBVIOUS
  <1>3. /\ Head(JobQ[u]) = JobQ[u][1] /\ h \in Jobs!Loop /\ Given(h, u) /\ InQ(h, u)
        /\ AllItems[h] \in Sizes /\ u \in 1..Parts(AllItems[h])
        /\ JobQ[u][1].IndexOffset = CutBegin(AllItems[h], u)
           /\ JobQ[u][1].IndexEnd = CutEnd(AllItems[h], u)
        /\ JobQ[u][1].IndexOffset \in Nat /\ JobQ[u][1].IndexEnd \in Nat
    BY <1>1, <1>2, <1>a, HeadIs
  <1>4. PICK k \in 0..Jobs!Past : k = item[u]
    BY <1>a DEF Jobs!TypeOK
  <1>5. InCut(AllItems[h], u, k)
    <2>1. item[u] # JobQ[u][1].IndexEnd /\ JobQ[u][1].IndexOffset <= item[u]
            /\ item[u] <= JobQ[u][1].IndexEnd
      BY <1>1, <1>3, <1>a DEF Jobs!Each, Jobs!AtEnd, AtHead
    <2> QED BY <1>3, <1>4, <2>1 DEF InCut
  <1>6. /\ each' = [each EXCEPT ![h][k] = @ + 1] /\ item' = [item EXCEPT ![u] = k + 1]
        /\ JobQ' = JobQ /\ jobPc' = jobPc /\ AllItems' = AllItems /\ master' = master
    BY <1>2, <1>3, <1>4 DEF Jobs!Each
  <1>7. \A l, t : Given(l, t)' <=> Given(l, t)
    BY <1>6 DEF Given, Jobs!Loops
  <1>8. item'[u] = k + 1 /\ \A t \in Jobs!Thread : t # u => item'[t] = item[t]
    BY <1>6, <1>a DEF Jobs!TypeOK
  <1>9. \A l, i : \A t \in Jobs!Thread : t # u => (ItemDone(l, t, i)' <=> ItemDone(l, t, i))
    BY <1>6, <1>7, <1>8 DEF ItemDone, InQ
  <1>10. \A l, t : InQ(l, t)' <=> InQ(l, t)
    BY <1>6 DEF InQ
  <1>11. ASSUME NEW l \in Jobs!Loop, NEW i \in 0..Jobs!Past
         PROVE  ItemDone(l, u, i)' <=> ItemDone(l, u, i) \/ (l = h /\ i = k)
    <2>1. i < k + 1 <=> i < k \/ i = k
      BY <1>4
    <2>2. CASE l = h
      <3>1. ItemDone(l, u, i)' <=> InCut(AllItems[l], u, i) /\ i < k + 1
        BY <1>1, <1>2, <1>3, <1>6, <1>7, <1>8, <1>10, <2>2 DEF ItemDone
      <3>2. ItemDone(l, u, i) <=> InCut(AllItems[l], u, i) /\ i < k
        BY <1>1, <1>2, <1>3, <1>4, <2>2 DEF ItemDone
      <3> QED BY <1>5, <2>1, <2>2, <3>1, <3>2
    <2>3. CASE l # h
      <3>1. ItemDone(l, u, i)' <=> Given(l, u) /\ InCut(AllItems[l], u, i) /\ ~InQ(l, u)
        BY <1>2, <1>6, <1>7, <1>10, <2>3 DEF ItemDone
      <3>2. ItemDone(l, u, i) <=> Given(l, u) /\ InCut(AllItems[l], u, i) /\ ~InQ(l, u)
        BY <1>2, <2>3 DEF ItemDone
      <3> QED BY <2>3, <3>1, <3>2
    <2> QED BY <2>2, <2>3
  <1>12. \A t \in Jobs!Thread : ~ItemDone(h, t, k)
    <2> SUFFICES ASSUME NEW t \in Jobs!Thread, ItemDone(h, t, k) PROVE FALSE
      OBVIOUS
    <2>0. k \in Nat
      BY <1>a, <1>4
    <2>1. t \in 1..Parts(AllItems[h]) /\ k \in Nat
      BY <1>a, <2>0, DoneOnce
    <2>1a. InCut(AllItems[h], t, k)
      BY DEF ItemDone
    <2>2. PICK s \in Sizes : s = AllItems[h]
      BY <1>3
    <2>3. t = u
      BY <1>3, <1>5, <2>1, <2>1a, <2>2, CutsDisjoint
    <2> QED BY <1>2, <1>3, <1>4, <1>a, <2>3 DEF ItemDone
  <1>13. each[h][k] = 0
    BY <1>3, <1>12, <1>a DEF EachOnce
  <1> SUFFICES ASSUME NEW l \in Jobs!Loop, NEW i \in 0..Jobs!Past
               PROVE  each'[l][i] = IF \E t \in Jobs!Thread : ItemDone(l, t, i)' THEN 1 ELSE 0
    BY DEF EachOnce
  <1>14. each \in [Jobs!Loop -> [0..Jobs!Past -> 0..2]]
    BY <1>a DEF Jobs!TypeOK
  <1>15. CASE l = h /\ i = k
    <2>1. each'[l][i] = 1
      <3>1. each' = [each EXCEPT ![h] = [each[h] EXCEPT ![k] = each[h][k] + 1]]
        BY <1>6
      <3>2. each[h] \in [0..Jobs!Past -> 0..2] /\ each[h][k] + 1 = 1
        BY <1>3, <1>13, <1>14
      <3> QED BY <3>1, <3>2, <1>14, <1>15
    <2>2. ItemDone(l, u, i)'
      BY <1>11, <1>15
    <2> QED BY <2>1, <2>2
  <1>16. CASE ~(l = h /\ i = k)
    <2>1. each'[l][i] = each[l][i]
      BY <1>3, <1>6, <1>14, <1>16
    <2>2. \A t \in Jobs!Thread : ItemDone(l, t, i)' <=> ItemDone(l, t, i)
      BY <1>9, <1>11, <1>16
    <2>3. each[l][i] = IF \E t \in Jobs!Thread : ItemDone(l, t, i) THEN 1 ELSE 0
      BY <1>a DEF EachOnce
    <2> QED BY <2>1, <2>2, <2>3
  <1> QED BY <1>15, <1>16

LEMMA FinishStep ==
  ASSUME Jobs!Careful, JobsIInv, NEW u \in Jobs!Thread, Jobs!FinishJob(u) PROVE EachOnce'
  <1>a. Jobs!TypeOK /\ QueuesSound /\ AtHead /\ EachOnce /\ Jobs!Past \in Nat
          /\ JobQ \in [Jobs!Thread -> Seq(Jobs!Job)]
    BY Bounds DEF JobsIInv, Jobs!TypeOK
  <1>1. JobQ[u] # << >> /\ jobPc[u] = "each"
    BY <1>a DEF Jobs!FinishJob, AtHead
  <1>2. PICK h : h = JobQ[u][1].loop
    OBVIOUS
  <1>3. /\ Head(JobQ[u]) = JobQ[u][1] /\ JobQ[u][1].IndexEnd = CutEnd(AllItems[h], u)
    BY <1>1, <1>2, <1>a, HeadIs
  <1>4. item[u] = CutEnd(AllItems[h], u)
    BY <1>3 DEF Jobs!FinishJob, Jobs!AtEnd
  <1>5. /\ JobQ' = [JobQ EXCEPT ![u] = Tail(@)] /\ jobPc' = [jobPc EXCEPT ![u] = "top"]
        /\ item' = item /\ each' = each /\ AllItems' = AllItems /\ master' = master
    BY DEF Jobs!FinishJob, Jobs!AfterJob
  <1>6. \A l, t : Given(l, t)' <=> Given(l, t)
    BY <1>5 DEF Given, Jobs!Loops
  <1>7. \A t \in Jobs!Thread : t # u => JobQ'[t] = JobQ[t] /\ jobPc'[t] = jobPc[t]
    BY <1>5, <1>a DEF Jobs!TypeOK
  <1>8. \A l, i : \A t \in Jobs!Thread : t # u => (ItemDone(l, t, i)' <=> ItemDone(l, t, i))
    BY <1>5, <1>6, <1>7 DEF ItemDone, InQ
  <1>9. jobPc'[u] = "top" /\ JobQ'[u] = Tail(JobQ[u])
    BY <1>5, <1>a DEF Jobs!TypeOK
  <1>10. \A l : InQ(l, u)' <=> (InQ(l, u) /\ l # h)
    <2>1. PICK q \in Seq(Jobs!Job) : q = JobQ[u] /\ q # << >>
      BY <1>1, <1>a
    <2>2. /\ Len(q) \in Nat /\ Len(q) >= 1 /\ Len(Tail(q)) = Len(q) - 1
          /\ \A j \in 1..Len(Tail(q)) : Tail(q)[j] = q[j + 1]
      BY <2>1
    <2>3. \A i, j \in 1..Len(q) : i < j => q[i].loop < q[j].loop
      BY <2>1, <1>a DEF QueuesSound
    <2>3a. \A j \in 1..Len(q) : q[j].loop \in Nat
      <3> SUFFICES ASSUME NEW j \in 1..Len(q) PROVE q[j].loop \in Nat
        OBVIOUS
      <3>1. q[j] \in Jobs!Job
        BY <2>1
      <3>2. q[j].loop \in Jobs!Loop
        BY <3>1 DEF Jobs!Job
      <3> QED BY <3>2, <1>a, Bounds
    <2>4. \A j \in 1..Len(q) : j # 1 => q[j].loop # h
      <3> SUFFICES ASSUME NEW j \in 1..Len(q), j # 1, q[j].loop = h PROVE FALSE
        OBVIOUS
      <3>1. 1 \in 1..Len(q) /\ 1 < j
        BY <2>2
      <3>2. q[1].loop < q[j].loop
        BY <2>3, <3>1
      <3>3. q[1].loop = h /\ h \in Nat
        BY <1>2, <2>1, <2>3a, <3>1
      <3> QED BY <3>2, <3>3
    <2> SUFFICES ASSUME NEW l PROVE InQ(l, u)' <=> (InQ(l, u) /\ l # h)
      OBVIOUS
    <2>a. InQ(l, u)' <=> \E j \in 1..Len(Tail(q)) : Tail(q)[j].loop = l
      <3>1. InQ(l, u)' <=> \E j \in 1..Len(JobQ'[u]) : JobQ'[u][j].loop = l
        BY DEF InQ
      <3>2. JobQ'[u] = Tail(q)
        BY <1>9, <2>1
      <3> QED BY <3>1, <3>2
    <2>b. InQ(l, u) <=> \E j \in 1..Len(q) : q[j].loop = l
      BY <2>1 DEF InQ
    <2>5. ASSUME NEW j \in 1..Len(Tail(q)), Tail(q)[j].loop = l
          PROVE (\E i \in 1..Len(q) : q[i].loop = l) /\ l # h
      <3>1. j + 1 \in 1..Len(q) /\ j + 1 # 1 /\ q[j + 1].loop = l
        BY <2>2, <2>5
      <3> QED BY <3>1, <2>4
    <2>6. ASSUME NEW j \in 1..Len(q), q[j].loop = l, l # h
          PROVE \E i \in 1..Len(Tail(q)) : Tail(q)[i].loop = l
      <3>1. j # 1
        BY <1>2, <2>1, <2>6
      <3>2. j - 1 \in 1..Len(Tail(q)) /\ (j - 1) + 1 = j
        BY <2>2, <3>1
      <3>3. Tail(q)[j - 1] = q[j]
        BY <2>2, <3>2
      <3> QED BY <2>6, <3>2, <3>3
    <2> QED BY <2>a, <2>b, <2>5, <2>6
  <1>11. ASSUME NEW l \in Jobs!Loop, NEW i \in 0..Jobs!Past
         PROVE ItemDone(l, u, i)' <=> ItemDone(l, u, i)
    <2>1. ItemDone(l, u, i)' <=> Given(l, u) /\ InCut(AllItems[l], u, i) /\ ~(InQ(l, u) /\ l # h)
      BY <1>5, <1>6, <1>9, <1>10 DEF ItemDone
    <2>2. ItemDone(l, u, i) <=> Given(l, u) /\ InCut(AllItems[l], u, i) /\ (~InQ(l, u) \/ (l = h
            /\ i < CutEnd(AllItems[h], u)))
      BY <1>1, <1>2, <1>4 DEF ItemDone
    <2>3. l = h /\ InCut(AllItems[l], u, i) => i < CutEnd(AllItems[h], u)
      BY DEF InCut
    <2> QED BY <2>1, <2>2, <2>3
  <1>12. \A l \in Jobs!Loop : \A i \in 0..Jobs!Past : \A t \in Jobs!Thread : ItemDone(l, t, i)'
           <=> ItemDone(l, t, i)
    BY <1>8, <1>11
  <1> QED BY <1>5, <1>12, <1>a, SameDone

LEMMA LookStep ==
  ASSUME Jobs!Careful, JobsIInv, NEW u \in Jobs!Thread, Jobs!Top(u) \/ Jobs!Look(u) PROVE EachOnce'
  <1>a. Jobs!TypeOK /\ QueuesSound /\ AtHead /\ EachOnce /\ Jobs!Past \in Nat
    BY Bounds DEF JobsIInv
  <1>1. JobQ' = JobQ /\ each' = each /\ AllItems' = AllItems /\ master' = master /\ jobPc[u] # "each"
    BY DEF Jobs!Top, Jobs!Look
  <1>2. \A l, t : (Given(l, t)' <=> Given(l, t)) /\ (InQ(l, t)' <=> InQ(l, t))
    BY <1>1 DEF Given, Jobs!Loops, InQ
  <1>3. \A t \in Jobs!Thread : t # u => jobPc'[t] = jobPc[t] /\ item'[t] = item[t]
    BY <1>a DEF Jobs!Top, Jobs!Look, Jobs!TypeOK
  <1>4. \A l, i : \A t \in Jobs!Thread : t # u => (ItemDone(l, t, i)' <=> ItemDone(l, t, i))
    BY <1>1, <1>2, <1>3 DEF ItemDone
  <1>5. \A l \in Jobs!Loop : \A i \in 0..Jobs!Past : ItemDone(l, u, i)' <=> ItemDone(l, u, i)
    <2>1. CASE jobPc'[u] # "each"
      BY <1>1, <1>2, <2>1 DEF ItemDone
    <2>2. CASE jobPc'[u] = "each"
      <3>1. Jobs!Look(u) /\ JobQ[u] # << >> /\ item'[u] = Head(JobQ[u]).IndexOffset
        BY <2>2, <1>a DEF Jobs!Top, Jobs!Look, Jobs!TypeOK
      <3>2. /\ Head(JobQ[u]) = JobQ[u][1]
               /\ JobQ[u][1].IndexOffset = CutBegin(AllItems[JobQ[u][1].loop], u)
            /\ JobQ[u][1].IndexOffset \in Nat
        BY <3>1, <1>a, HeadIs
      <3>3. \A i \in 0..Jobs!Past : InCut(AllItems[JobQ[u][1].loop], u, i) => ~(i < item'[u])
        BY <3>1, <3>2 DEF InCut
      <3> QED BY <1>1, <1>2, <3>3 DEF ItemDone
    <2> QED BY <2>1, <2>2
  <1>6. \A l \in Jobs!Loop : \A i \in 0..Jobs!Past : \A t \in Jobs!Thread : ItemDone(l, t, i)'
          <=> ItemDone(l, t, i)
    BY <1>4, <1>5
  <1> QED BY <1>1, <1>6, <1>a, SameDone

LEMMA LoopStep ==
  ASSUME Jobs!Careful, JobsIInv, NEW size \in Sizes, Jobs!ExecuteAndForget(size) PROVE EachOnce'
  <1>a. Jobs!TypeOK /\ EachOnce /\ Jobs!Past \in Nat /\ Jobs!Loops \in Nat
    BY Bounds DEF JobsIInv
  <1>1. each' = each /\ JobQ' = JobQ /\ jobPc' = jobPc /\ item' = item
    BY DEF Jobs!ExecuteAndForget, Jobs!threads
  <1>2. ASSUME NEW l \in Jobs!Loop, NEW t \in Jobs!Thread, NEW i \in 0..Jobs!Past
        PROVE ItemDone(l, t, i)' <=> ItemDone(l, t, i)
    <2>1. CASE l \in 1..Jobs!Loops
      <3>1. (Given(l, t)' <=> Given(l, t)) /\ AllItems'[l] = AllItems[l]
        BY <1>a, <2>1, LoopGives
      <3> QED BY <3>1, <1>1 DEF ItemDone, InQ
    <2>2. CASE l \notin 1..Jobs!Loops
      <3>1. ~Given(l, t)
        BY <2>2 DEF Given
      <3>2. ~Given(l, t)'
        <4>1. CASE l = Jobs!Loops + 1
          BY <1>a, <4>1, LoopGives
        <4>2. CASE l # Jobs!Loops + 1
          <5>1. l \notin 1..Jobs!Loops'
            BY <1>a, <2>2, <4>2, LoopGives
          <5> QED BY <5>1 DEF Given
        <4> QED BY <4>1, <4>2
      <3> QED BY <3>1, <3>2 DEF ItemDone
    <2> QED BY <2>1, <2>2
  <1> QED BY <1>1, <1>2, <1>a, SameDone

LEMMA JobStep ==
  ASSUME Jobs!Careful, JobsIInv, Jobs!AddJob PROVE EachOnce'
  <1>a. /\ Jobs!TypeOK /\ Started /\ QueuesSound /\ AtHead /\ EachOnce /\ Jobs!Past \in Nat
        /\ JobQ \in [Jobs!Thread -> Seq(Jobs!Job)]
    BY Bounds DEF JobsIInv, Jobs!TypeOK
  <1>1. each' = each /\ jobPc' = jobPc /\ item' = item /\ AllItems' = AllItems
    BY DEF Jobs!AddJob, Jobs!threads
  <1>2. Jobs!Loops' = Jobs!Loops
    BY <1>1 DEF Jobs!Loops
  <1>3. CASE master.thread <= Jobs!JobNo(Jobs!Loops)
    <2>1. PICK m, h, x : m = master.thread /\ h = Jobs!Loops
                           /\ x = Jobs!Segment(Jobs!Loops, master.thread)
      OBVIOUS
    <2>2. /\ m \in Jobs!Thread /\ ~Given(h, m) /\ Given(h, m)' /\ h \in 1..Jobs!Loops
          /\ \A l \in 1..Jobs!Loops : \A t \in Jobs!Thread : <<l, t>> # <<h, m>> => (Given(l, t)'
             <=> Given(l, t))
      BY <2>1, <1>3, <1>a, JobGives
    <2>3. JobQ' = [JobQ EXCEPT ![m] = Append(@, x)] /\ x.loop = h
      BY <2>1, <1>3 DEF Jobs!AddJob, Jobs!Segment
    <2>4. \A t \in Jobs!Thread : t # m => JobQ'[t] = JobQ[t]
      BY <2>3, <1>a
    <2>5. JobQ'[m] = Append(JobQ[m], x) /\ JobQ[m] \in Seq(Jobs!Job)
      BY <2>2, <2>3, <1>a
    <2>6. \A l : InQ(l, m)' <=> InQ(l, m) \/ l = h
      <3> SUFFICES ASSUME NEW l PROVE InQ(l, m)' <=> InQ(l, m) \/ l = h
        OBVIOUS
      <3>1. PICK q \in Seq(Jobs!Job) : q = JobQ[m]
        BY <2>5
      <3>2. JobQ'[m] = Append(q, x)
        BY <2>5, <3>1
      <3>3. /\ Len(Append(q, x)) = Len(q) + 1 /\ Len(q) \in Nat /\ Append(q, x)[Len(q) + 1] = x
            /\ \A j \in 1..Len(q) : Append(q, x)[j] = q[j]
        BY <3>1
      <3>4. InQ(l, m)' <=> \E j \in 1..Len(Append(q, x)) : Append(q, x)[j].loop = l
        <4>1. InQ(l, m)' <=> \E j \in 1..Len(JobQ'[m]) : JobQ'[m][j].loop = l
          BY DEF InQ
        <4> QED BY <4>1, <3>2
      <3>5. InQ(l, m) <=> \E j \in 1..Len(q) : q[j].loop = l
        BY <3>1 DEF InQ
      <3>6. ASSUME NEW j \in 1..Len(Append(q, x)), Append(q, x)[j].loop = l PROVE InQ(l, m) \/ l = h
        <4>1. j \in 1..Len(q) \/ j = Len(q) + 1
          BY <3>3
        <4> QED BY <4>1, <3>3, <3>5, <3>6, <2>3
      <3>7. InQ(l, m) => InQ(l, m)'
        <4> SUFFICES ASSUME NEW j \in 1..Len(q), q[j].loop = l
                     PROVE  \E k \in 1..Len(Append(q, x)) : Append(q, x)[k].loop = l
          BY <3>4, <3>5
        <4>1. j \in 1..Len(Append(q, x)) /\ Append(q, x)[j] = q[j]
          BY <3>3
        <4> QED BY <4>1
      <3>8. l = h => InQ(l, m)'
        <4>1. Len(q) + 1 \in 1..Len(Append(q, x))
          BY <3>3
        <4> QED BY <4>1, <3>3, <3>4, <2>3
      <3> QED BY <3>4, <3>6, <3>7, <3>8
    <2>7. jobPc[m] = "each" => JobQ'[m][1] = JobQ[m][1]
      BY <2>2, <2>5, <1>a DEF AtHead
    <2>8. ASSUME NEW l \in Jobs!Loop, NEW t \in Jobs!Thread, NEW i \in 0..Jobs!Past
          PROVE ItemDone(l, t, i)' <=> ItemDone(l, t, i)
      <3>0. l \notin 1..Jobs!Loops => ~ItemDone(l, t, i)' /\ ~ItemDone(l, t, i)
        BY <1>2 DEF ItemDone, Given
      <3>1. CASE l \in 1..Jobs!Loops /\ t # m
        BY <1>1, <2>2, <2>4, <3>1 DEF ItemDone, InQ
      <3>2. CASE l \in 1..Jobs!Loops /\ t = m /\ l # h
        BY <1>1, <2>2, <2>6, <2>7, <3>2 DEF ItemDone
      <3>3. CASE l = h /\ t = m
        <4>1. InQ(l, t)' /\ ~Given(l, t)
          BY <2>2, <2>6, <3>3
        <4>2. ~ItemDone(l, t, i)
          BY <4>1 DEF ItemDone
        <4>3. jobPc[t] = "each" => JobQ'[t][1].loop # l
          <5> SUFFICES ASSUME jobPc[t] = "each", JobQ[t][1].loop = l PROVE FALSE
            BY <2>7, <3>3
          <5>1. JobQ[t] # << >>
            BY <1>a DEF AtHead
          <5>2. Given(l, t)
            BY <5>1, <1>a, HeadIs
          <5> QED BY <4>1, <5>2
        <4>4. ~ItemDone(l, t, i)'
          BY <1>1, <4>1, <4>3 DEF ItemDone
        <4> QED BY <4>2, <4>4
      <3> QED BY <3>0, <3>1, <3>2, <3>3
    <2> QED BY <1>1, <2>8, <1>a, SameDone
  <1>4. CASE ~(master.thread <= Jobs!JobNo(Jobs!Loops))
    <2>1. JobQ' = JobQ /\ SameGiven
      BY <1>4, <1>a, JobGives DEF Jobs!AddJob
    <2>2. ASSUME NEW l \in Jobs!Loop, NEW t \in Jobs!Thread, NEW i \in 0..Jobs!Past
          PROVE ItemDone(l, t, i)' <=> ItemDone(l, t, i)
      BY <1>1, <1>2, <2>1 DEF ItemDone, InQ, SameGiven, Given
    <2> QED BY <1>1, <2>2, <1>a, SameDone
  <1> QED BY <1>3, <1>4

LEMMA NextEach == Jobs!Careful /\ JobsIInv /\ [Jobs!Next]_(Jobs!vars) => EachOnce'
  <1> SUFFICES ASSUME Jobs!Careful, JobsIInv, [Jobs!Next]_(Jobs!vars) PROVE EachOnce'
    OBVIOUS
  <1>a. Jobs!TypeOK /\ EachOnce
    BY DEF JobsIInv
  <1>1. ASSUME UNCHANGED <<JobQ, jobPc, item, each, AllItems>>,
               master' = master \/ (master.at # "add" /\ master'.at # "add")
        PROVE  EachOnce'
    <2>1. \A l \in Jobs!Loop : \A i \in 0..Jobs!Past : \A t \in Jobs!Thread : ItemDone(l, t, i)'
            <=> ItemDone(l, t, i)
      BY <1>1 DEF ItemDone, InQ, Given, Jobs!Loops
    <2> QED BY <1>1, <2>1, <1>a, SameDone
  <1>2. CASE Jobs!WaitForCompletion \/ Jobs!Destroy \/ Jobs!WaitForTask \/ Jobs!Poll \/ Jobs!Stop
               \/ Jobs!Join
    <2>1. UNCHANGED <<JobQ, jobPc, item, each, AllItems>> /\ master.at # "add" /\ master'.at # "add"
      BY <1>2 DEF Jobs!WaitForCompletion, Jobs!Destroy, Jobs!WaitForTask, Jobs!Poll, Jobs!Stop,
        Jobs!Join, Jobs!Is, Jobs!NextThread, Jobs!MasterTo, Jobs!threads
    <2> QED BY <2>1, <1>1
  <1>3. CASE UNCHANGED Jobs!vars
    BY <1>1, <1>3 DEF Jobs!vars
  <1> QED BY <1>2, <1>3, LoopStep, JobStep, LookStep, EachStep, FinishStep DEF Jobs!Next,
            Jobs!MasterStep, Jobs!ThreadStep

(***************************************************************************)
(* The theorems.                                                           *)
(***************************************************************************)
LEMMA JobsInitInv == Jobs!Careful /\ Jobs!Init => JobsIInv
  <1> SUFFICES ASSUME Jobs!Careful, Jobs!Init PROVE JobsIInv
    OBVIOUS
  <1>1. Jobs!TypeOK
    <2>1. ThreadNo \in Nat \ {0} /\ MaxLoops \in Nat /\ Jobs!MaxItems \in Nat /\ Jobs!Past \in Nat
      BY DEF Jobs!Careful, Jobs!Past
    <2> QED BY <2>1 DEF Jobs!Init, Jobs!TypeOK, Jobs!Thread
  <1>2. Jobs!Loops = 0 /\ MaxLoops \in Nat
    BY DEF Jobs!Init, Jobs!Loops, Jobs!Careful
  <1>3. Started
    BY <1>2 DEF Started, Jobs!Init
  <1>4. QueuesSound
    BY DEF QueuesSound, Jobs!Init
  <1>5. AtHead
    BY DEF AtHead, Jobs!Init
  <1>6. \A l, t : ~Given(l, t)
    BY <1>2 DEF Given
  <1>7. EachOnce
    BY <1>6 DEF EachOnce, ItemDone, Jobs!Init
  <1>8. Polled
    BY DEF Polled, Jobs!Init
  <1> QED BY <1>1, <1>3, <1>4, <1>5, <1>7, <1>8 DEF JobsIInv

LEMMA JobsInductive == Jobs!Careful /\ JobsIInv /\ [Jobs!Next]_(Jobs!vars) => JobsIInv'
  BY JobsNextType, NextStarted, NextQueues, NextAtHead, NextEach, NextPolled DEF JobsIInv

LEMMA InvSound == Jobs!Careful /\ JobsIInv => Jobs!JobsSound
  <1> SUFFICES ASSUME Jobs!Careful, JobsIInv, NEW l \in Jobs!Loop, NEW i \in 0..Jobs!Past
               PROVE  each[l][i] <= IF l <= Jobs!Loops /\ i < AllItems[l] THEN 1 ELSE 0
    BY DEF Jobs!JobsSound, Jobs!EachAtMostOnce, JobsIInv
  <1>a. Jobs!TypeOK /\ EachOnce /\ Jobs!Past \in Nat /\ Jobs!Loops \in Nat
    BY Bounds DEF JobsIInv
  <1>1. CASE \E t \in Jobs!Thread : ItemDone(l, t, i)
    <2>1. PICK t \in Jobs!Thread : ItemDone(l, t, i)
      BY <1>1
    <2>2. l \in 1..Jobs!Loops /\ i < AllItems[l]
      BY <2>1, <1>a, DoneOnce
    <2>3. each[l][i] = 1
      BY <1>1, <1>a DEF EachOnce
    <2> QED BY <2>2, <2>3, <1>a
  <1>2. CASE ~\E t \in Jobs!Thread : ItemDone(l, t, i)
    BY <1>2, <1>a DEF EachOnce
  <1> QED BY <1>1, <1>2

LEMMA LastPoll ==
  ASSUME Jobs!Careful, JobsIInv, Jobs!Next, master.at = "poll", master'.at = "idle",
         NEW l \in 1..Jobs!Loops, NEW i \in 0..AllItems[l] - 1
  PROVE  each[l][i] = 1
  <1>a. Jobs!TypeOK /\ EachOnce /\ Started /\ Polled /\ Jobs!Past \in Nat /\ Jobs!Loops \in Nat
        /\ AllItems[l] \in Sizes /\ AllItems[l] \in Nat /\ Jobs!Thread = 1..ThreadNo
           /\ ThreadNo \in Nat \ {0}
        /\ Jobs!Loop = 1..MaxLoops /\ MaxLoops \in Nat
    BY Bounds DEF JobsIInv, Jobs!Thread
  <1>1. Jobs!Poll
    <2>1. ~(Jobs!AddJob \/ Jobs!WaitForCompletion \/ Jobs!Destroy \/ Jobs!WaitForTask \/ Jobs!Stop
            \/ Jobs!Join)
      BY DEF Jobs!AddJob, Jobs!WaitForCompletion, Jobs!Destroy, Jobs!WaitForTask, Jobs!Stop,
        Jobs!Join, Jobs!Is
    <2>2. \A size \in Sizes : ~Jobs!ExecuteAndForget(size)
      BY DEF Jobs!ExecuteAndForget
    <2>3. \A t \in Jobs!Thread : ~Jobs!ThreadStep(t)
      BY DEF Jobs!ThreadStep, Jobs!Top, Jobs!Look, Jobs!Each, Jobs!FinishJob
    <2> QED BY <2>1, <2>2, <2>3 DEF Jobs!Next, Jobs!MasterStep
  <1>2. Jobs!ThreadIsFinished(master.thread) /\ master.thread = ThreadNo
    BY <1>1 DEF Jobs!Poll, Jobs!NextThread, Jobs!MasterTo
  <1>3. ASSUME NEW t \in Jobs!Thread PROVE JobQ[t] = << >>
    <2>1. t < master.thread \/ t = master.thread
      BY <1>2, <1>a
    <2> QED BY <2>1, <1>2, <1>a DEF Polled, Jobs!ThreadIsFinished
  <1>4. PICK s \in Sizes : s = AllItems[l]
    BY <1>a
  <1>5. PICK t \in 1..Parts(s) : InCut(s, t, i)
    BY <1>4, CutsCover
  <1>6. t \in Jobs!Thread
    BY <1>5, PartsType
  <1>7. Given(l, t)
    BY <1>4, <1>5 DEF Given
  <1>8. ~InQ(l, t)
    BY <1>3, <1>6 DEF InQ
  <1>9. ItemDone(l, t, i)
    BY <1>4, <1>5, <1>7, <1>8 DEF ItemDone
  <1>10. l \in Jobs!Loop
    BY <1>a DEF Started
  <1>11. i \in 0..Jobs!Past
    BY <1>a, <1>4 DEF Jobs!Careful, Jobs!Past
  <1> QED BY <1>6, <1>9, <1>10, <1>11, <1>a DEF EachOnce

\* TJobThreadPool::AddJob and TJobThread::Run: for any number of threads and any loops that are
\* cut into segments which do not begin after their end, Each is never called twice for an item,
\* nor for anything that is no item.
THEOREM JobsStaySound == ASSUME Jobs!Careful PROVE Jobs!Spec => []Jobs!JobsSound
  <1>1. Jobs!Init => JobsIInv
    BY JobsInitInv
  <1>2. JobsIInv /\ [Jobs!Next]_(Jobs!vars) => JobsIInv'
    BY JobsInductive
  <1>3. JobsIInv => Jobs!JobsSound
    BY InvSound
  <1> QED BY <1>1, <1>2, <1>3, PTL DEF Jobs!Spec

\* TParallel::WaitForCompletion: polling one thread after the other is enough, for what a thread
\* was found to have finished stays finished; when it returns, each item of each loop was done.
THEOREM WaitIsComplete == ASSUME Jobs!Careful PROVE Jobs!Spec => Jobs!ReturnsWhenComplete
  <1>1. Jobs!Init => JobsIInv
    BY JobsInitInv
  <1>2. JobsIInv /\ [Jobs!Next]_(Jobs!vars) => JobsIInv'
    BY JobsInductive
  <1>3. JobsIInv /\ [Jobs!Next]_(Jobs!vars) =>
          [master.at = "poll" /\ master'.at = "idle" =>
             \A l \in 1..Jobs!Loops : \A i \in 0..AllItems[l] - 1 : each[l][i] = 1]_(Jobs!vars)
    BY LastPoll
  <1> QED BY <1>1, <1>2, <1>3, PTL DEF Jobs!Spec, Jobs!ReturnsWhenComplete

(***************************************************************************)
(* The tasks that requests pass to the main thread (NodeAsync), for any    *)
(* requests, tasks and threads: each is served once, and a request that    *)
(* blocks waits for its own.                                               *)
(***************************************************************************)
\* What the configuration has and what the loop has in hand did not run yet, or is
\* waiting to be deleted.
Placed ==
  /\ TaskWrapper # Nil => task[TaskWrapper] = "alive" /\ TaskWrapper # main.task
  /\ main.at = "run" => task[main.task] = "alive"
  /\ main.at \in {"post", "destroy"} => task[main.task] = "ran"

(***************************************************************************)
(* A blocking handle that is one request's own: the request, the loop and  *)
(* the task move together.                                                 *)
(***************************************************************************)
\* The request waits for its task, which the configuration still has.
WaitsFor(r, t) == req[r] = "wait" /\ own[r] = t

\* Only a blocking handle makes requests wait, and it has one user at a time.
OneUser ==
  /\ ~Blocking => \A r \in Request : req[r] \notin {"set", "wait"}
  /\ Blocking => \A r, s \in Request : own[r] # Nil /\ own[s] # Nil => r = s

\* From SetAsyncData to the signal the loop does not know of the task.
LeftAlone ==
  Blocking =>
    \A r \in Request : req[r] \in {"set", "send"} =>
      /\ TaskWrapper = own[r] /\ task[own[r]] = "alive"
      /\ ~pending /\ main.at \in {"loop", "destroy"}

\* From the signal to the post of the semaphore the request waits.
ServedInTurn ==
  Blocking =>
    /\ pending => main.at \in {"loop", "destroy"}
    /\ pending \/ main.at = "called" =>
         TaskWrapper # Nil /\ \E r \in Request : WaitsFor(r, TaskWrapper)
    /\ main.at \in {"run", "post"} => \E r \in Request : WaitsFor(r, main.task)

\* A semaphore is posted after its task ran, and no task is replaced.
PostedAfterRun ==
  /\ \A t \in Task : sem[t] \in {"one", "destroyed"} =>
       task[t] = "ran and deleted" \/ (main.at = "destroy" /\ main.task = t)
  /\ Blocking => \A r \in Request : own[r] # Nil => task[own[r]] # "deleted"

AsyncIInv ==
  /\ AsyncTypeOK /\ TasksAreTracked /\ Placed
  /\ OneUser /\ LeftAlone /\ ServedInTurn /\ PostedAfterRun

MainPlaces == {"loop", "called", "run", "post", "destroy"}
TaskStates == {"new", "alive", "ran", "deleted", "ran and deleted"}

LEMMA MainIs ==
  ASSUME NEW at \in MainPlaces, NEW t \in Task \cup {Nil}, MainTo(at, t)
  PROVE  /\ main'.at = at /\ main'.task = t
         /\ main' \in [at : MainPlaces, task : Task \cup {Nil}]
  BY DEF MainTo, MainPlaces

LEMMA AsyncTypes ==
  ASSUME AsyncTypeOK
  PROVE  /\ task \in [Task -> TaskStates] /\ sem \in [Task -> {"none", "zero", "one", "destroyed"}]
         /\ TaskWrapper \in Task \cup {Nil} /\ main.task \in Task \cup {Nil}
         /\ fault \in BOOLEAN /\ pending \in BOOLEAN
         /\ main.at \in {"run", "post", "destroy"} <=> main.task # Nil
  BY DEF AsyncTypeOK, TaskStates

\* What the steps of the loop do.
LEMMA SignalledDoes ==
  ASSUME AsyncTypeOK, Signalled
  PROVE  /\ main.at = "loop" /\ main'.at = "called" /\ main'.task = Nil /\ main.task = Nil
         /\ main' \in [at : MainPlaces, task : Task \cup {Nil}]
         /\ pending /\ pending' = FALSE
         /\ UNCHANGED <<req, own, TaskWrapper, handle, task, sem, fault>>
  <1>1. MainTo("called", Nil)
    BY DEF Signalled
  <1> QED BY AsyncTypes, MainIs, <1>1 DEF Signalled, MainPlaces

LEMMA ExtractDoes ==
  ASSUME AsyncTypeOK, ExtractAndClearData
  PROVE  /\ main.at = "called" /\ main.task = Nil /\ TaskWrapper' = Nil
         /\ main' \in [at : MainPlaces, task : Task \cup {Nil}]
         /\ UNCHANGED <<req, own, pending, handle, task, sem>>
         /\ TaskWrapper = Nil =>
              main'.at = "loop" /\ main'.task = Nil /\ fault' = (fault \/ Blocking)
         /\ TaskWrapper # Nil =>
              main'.at = "run" /\ main'.task = TaskWrapper /\ fault' = fault
  <1>1. CASE TaskWrapper = Nil
    <2>1. MainTo("loop", Nil) /\ fault' = (fault \/ Blocking)
      BY <1>1 DEF ExtractAndClearData, NoTask
    <2> QED BY AsyncTypes, MainIs, <1>1, <2>1
       DEF ExtractAndClearData, Cleared, MainPlaces
  <1>2. CASE TaskWrapper # Nil
    <2>1. MainTo("run", TaskWrapper) /\ fault' = fault
      BY <1>2 DEF ExtractAndClearData, NoTask
    <2> QED BY AsyncTypes, MainIs, <1>2, <2>1
       DEF ExtractAndClearData, Cleared, MainPlaces
  <1> QED BY <1>1, <1>2

LEMMA RunDoes ==
  ASSUME AsyncTypeOK, RunOnMain
  PROVE  /\ main.at = "run" /\ main.task \in Task
         /\ main' \in [at : MainPlaces, task : Task \cup {Nil}] /\ task' \in [Task -> TaskStates]
         /\ UNCHANGED <<req, own, TaskWrapper, pending, handle, sem, fault>>
         /\ \A u \in Task \ {main.task} : task'[u] = task[u]
         /\ Blocking => main'.at = "post" /\ main'.task = main.task /\ task'[main.task] = "ran"
         /\ ~Blocking => main'.at = "loop" /\ main'.task = Nil
                         /\ task'[main.task] = "ran and deleted"
  <1>1. main.at = "run" /\ main.task \in Task
    BY AsyncTypes DEF RunOnMain
  <1>2. CASE Blocking
    <2>1. MainTo("post", main.task) /\ task' = [task EXCEPT ![main.task] = "ran"]
      BY <1>2 DEF RunOnMain
    <2> QED BY AsyncTypes, MainIs, <1>1, <1>2, <2>1 DEF RunOnMain, MainPlaces, TaskStates
  <1>3. CASE ~Blocking
    <2>1. MainTo("loop", Nil) /\ task' = [task EXCEPT ![main.task] = "ran and deleted"]
      BY <1>3 DEF RunOnMain
    <2> QED BY AsyncTypes, MainIs, <1>1, <1>3, <2>1 DEF RunOnMain, MainPlaces, TaskStates
  <1> QED BY <1>2, <1>3

LEMMA PostDoes ==
  ASSUME AsyncTypeOK, PostSemaphore
  PROVE  /\ main.at = "post" /\ main.task \in Task /\ main'.at = "destroy" /\ main'.task = main.task
         /\ main' \in [at : MainPlaces, task : Task \cup {Nil}]
         /\ sem' = [sem EXCEPT ![main.task] = "one"]
         /\ UNCHANGED <<req, own, TaskWrapper, pending, handle, task, fault>>
  <1>1. main.at = "post" /\ main.task \in Task /\ MainTo("destroy", main.task)
    BY AsyncTypes DEF PostSemaphore
  <1> QED BY MainIs, <1>1 DEF PostSemaphore, MainPlaces

LEMMA DestroyDoes ==
  ASSUME AsyncTypeOK, DestroySemaphore
  PROVE  /\ main.at = "destroy" /\ main.task \in Task /\ main'.at = "loop" /\ main'.task = Nil
         /\ main' \in [at : MainPlaces, task : Task \cup {Nil}]
         /\ sem' = [sem EXCEPT ![main.task] = "destroyed"]
         /\ task' = [task EXCEPT ![main.task] = Deleted(main.task)] /\ task' \in [Task -> TaskStates]
         /\ Deleted(main.task) \in {"deleted", "ran and deleted"}
         /\ UNCHANGED <<req, own, TaskWrapper, pending, handle, fault>>
  <1>1. main.at = "destroy" /\ main.task \in Task /\ MainTo("loop", Nil)
    BY AsyncTypes DEF DestroySemaphore
  <1>2. Deleted(main.task) \in {"deleted", "ran and deleted"}
    BY DEF Deleted
  <1>3. task' = [task EXCEPT ![main.task] = Deleted(main.task)]
    BY DEF DestroySemaphore
  <1>4. task' \in [Task -> TaskStates]
    BY AsyncTypes, <1>1, <1>2, <1>3 DEF TaskStates
  <1> QED BY MainIs, <1>1, <1>2, <1>3, <1>4 DEF DestroySemaphore, MainPlaces

(***************************************************************************)
(* Types, and what became of the tasks: of any handle, shared or not.      *)
(***************************************************************************)
LEMMA AsyncNextType ==
  ASSUME Nil \notin Task
  PROVE  AsyncTypeOK /\ [AsyncNext]_asyncVars => AsyncTypeOK'
  <1> SUFFICES ASSUME AsyncTypeOK, [AsyncNext]_asyncVars PROVE AsyncTypeOK'
    OBVIOUS
  <1> USE DEF AsyncTypeOK
  <1>1. ASSUME NEW r \in Request,
               ExecuteOnWorker(r) \/ OnWorker(r) \/ EndRequest(r) \/ AfterOnWorker(r)
        PROVE AsyncTypeOK'
    <2>1. CASE ExecuteOnWorker(r)
      BY <2>1 DEF ExecuteOnWorker, ReqTo
    <2>2. CASE OnWorker(r)
      BY <2>2 DEF OnWorker, ReqTo
    <2>3. CASE EndRequest(r)
      BY <2>3 DEF EndRequest, ReqTo
    <2>4. CASE AfterOnWorker(r)
      BY <2>4 DEF AfterOnWorker, ReqTo
    <2> QED BY <1>1, <2>1, <2>2, <2>3, <2>4
  <1>2. ASSUME NEW r \in Request, NEW t \in Task, SetAsyncData(r, t) PROVE AsyncTypeOK'
    <2>1. task' \in [Task -> {"new", "alive", "ran", "deleted", "ran and deleted"}]
      BY <1>2 DEF SetAsyncData, Replaced, Deleted
    <2> QED BY <1>2, <2>1 DEF SetAsyncData, ReqTo
  <1>3. ASSUME NEW r \in Request, InitSemaphore(r) PROVE AsyncTypeOK'
    <2>1. CASE SemaphoreMade(r)
      BY <1>3, <2>1 DEF InitSemaphore, SemaphoreMade, ReqTo, IsDeleted
    <2>2. CASE SemaphoreFailed(r)
      BY <1>3, <2>2 DEF InitSemaphore, SemaphoreFailed, Deleted, ReqTo, IsDeleted
    <2> QED BY <1>3, <2>1, <2>2 DEF InitSemaphore
  <1>4. ASSUME NEW r \in Request, AsyncSend(r) PROVE AsyncTypeOK'
    BY <1>4 DEF AsyncSend, Sent, ReqTo, Blocking
  <1>5. ASSUME NEW r \in Request, SemaphoreWait(r) PROVE AsyncTypeOK'
    BY <1>5 DEF SemaphoreWait, ReqTo, IsDeleted
  <1>6. CASE MainStep
    <2>1. CASE Signalled
      BY <2>1, SignalledDoes DEF MainPlaces
    <2>2. CASE ExtractAndClearData
      BY <2>2, ExtractDoes, AsyncTypes DEF MainPlaces, Blocking
    <2>3. CASE RunOnMain
      <3>1. /\ main'.at \in {"post", "loop"} /\ (main'.task # Nil <=> main'.at = "post")
            /\ main' \in [at : MainPlaces, task : Task \cup {Nil}] /\ task' \in [Task -> TaskStates]
            /\ UNCHANGED <<req, own, TaskWrapper, pending, handle, sem, fault>>
        BY <2>3, RunDoes
      <3> QED BY <3>1 DEF MainPlaces, TaskStates
    <2>4. CASE PostSemaphore
      BY <2>4, PostDoes DEF MainPlaces
    <2>5. CASE DestroySemaphore
      BY <2>5, DestroyDoes, ZenonT(40) DEF MainPlaces, TaskStates
    <2> QED BY <1>6, <2>1, <2>2, <2>3, <2>4, <2>5 DEF MainStep
  <1>7. CASE DelHandle
    BY <1>7 DEF DelHandle
  <1>8. CASE UNCHANGED asyncVars
    BY <1>8 DEF asyncVars
  <1> QED BY <1>1, <1>2, <1>3, <1>4, <1>5, <1>6, <1>7, <1>8 DEF AsyncNext

LEMMA NextTracked ==
  ASSUME Nil \notin Task, ~SemFails
  PROVE  AsyncTypeOK /\ TasksAreTracked /\ Placed /\ [AsyncNext]_asyncVars =>
           TasksAreTracked' /\ Placed'
  <1> SUFFICES ASSUME AsyncTypeOK, TasksAreTracked, Placed, [AsyncNext]_asyncVars
               PROVE  TasksAreTracked' /\ Placed'
    OBVIOUS
  <1> USE DEF TasksAreTracked, Placed, IsDeleted
  <1>t. /\ task \in [Task -> TaskStates]
        /\ TaskWrapper \in Task \cup {Nil} /\ main.task \in Task \cup {Nil}
        /\ main.at \in {"run", "post", "destroy"} <=> main.task # Nil
    BY DEF AsyncTypeOK, TaskStates
  <1>1. ASSUME NEW r \in Request, NEW t \in Task, SetAsyncData(r, t)
        PROVE  TasksAreTracked' /\ Placed'
    <2>1. TaskWrapper' = t /\ main' = main /\ t # main.task /\ t # TaskWrapper
      BY <1>1, <1>t DEF SetAsyncData
    <2>2. ASSUME NEW u \in Task
          PROVE  task'[u] = IF u = t THEN "alive" ELSE IF u = TaskWrapper THEN Deleted(u) ELSE task[u]
      BY <1>1 DEF SetAsyncData, Replaced
    <2>3. \A u \in Task : Deleted(u) \in {"deleted", "ran and deleted"}
      BY DEF Deleted
    <2> QED BY <1>t, <2>1, <2>2, <2>3
  <1>2. CASE MainStep
    <2>1. CASE Signalled
      BY <2>1, SignalledDoes, ZenonT(40)
    <2>2. CASE ExtractAndClearData
      <3>1. main.task = Nil /\ TaskWrapper' = Nil /\ task' = task
        BY <2>2, ExtractDoes
      <3>2. CASE TaskWrapper = Nil
        <4>1. main'.at = "loop" /\ main'.task = Nil
          BY <2>2, <3>2, ExtractDoes
        <4> QED BY <1>t, <3>1, <3>2, <4>1
      <3>3. CASE TaskWrapper # Nil
        <4>1. main'.at = "run" /\ main'.task = TaskWrapper
          BY <2>2, <3>3, ExtractDoes
        <4> QED BY <1>t, <3>1, <3>3, <4>1
      <3> QED BY <3>2, <3>3
    <2>3. CASE RunOnMain
      <3>1. /\ main.at = "run" /\ main.task \in Task /\ TaskWrapper' = TaskWrapper
            /\ \A u \in Task \ {main.task} : task'[u] = task[u]
            /\ \/ main'.at = "post" /\ main'.task = main.task /\ task'[main.task] = "ran"
               \/ main'.at = "loop" /\ main'.task = Nil /\ task'[main.task] = "ran and deleted"
        BY <2>3, RunDoes
      <3>2. ASSUME NEW u \in Task, task'[u] = "alive" PROVE (u = TaskWrapper') # (u = main'.task)
        <4>1. u # main.task /\ task[u] = "alive" /\ u # Nil
          BY <3>1, <3>2
        <4>2. u = TaskWrapper /\ u # main'.task
          BY <1>t, <3>1, <4>1
        <4> QED BY <3>1, <4>2
      <3>3. ASSUME NEW u \in Task, u \in {TaskWrapper', main'.task} PROVE ~IsDeleted(u)'
        BY <1>t, <3>1, <3>3
      <3>4. Placed'
        BY <1>t, <3>1
      <3> QED BY <3>2, <3>3, <3>4
    <2>4. CASE PostSemaphore
      BY <1>t, <2>4, PostDoes, ZenonT(40)
    <2>5. CASE DestroySemaphore
      <3>1. /\ main.at = "destroy" /\ main.task \in Task /\ TaskWrapper' = TaskWrapper
            /\ main'.at = "loop" /\ main'.task = Nil
            /\ \A u \in Task \ {main.task} : task'[u] = task[u]
            /\ task'[main.task] \in {"deleted", "ran and deleted"}
        BY <1>t, <2>5, DestroyDoes
      <3>2. ASSUME NEW u \in Task, task'[u] = "alive" PROVE (u = TaskWrapper') # (u = main'.task)
        <4>1. u # main.task /\ task[u] = "alive" /\ u # Nil
          BY <3>1, <3>2
        <4>2. u = TaskWrapper /\ u # main'.task
          BY <1>t, <3>1, <4>1
        <4> QED BY <3>1, <4>2
      <3>3. ASSUME NEW u \in Task, u \in {TaskWrapper', main'.task} PROVE ~IsDeleted(u)'
        BY <1>t, <3>1, <3>3
      <3>4. Placed'
        BY <1>t, <3>1
      <3> QED BY <3>2, <3>3, <3>4
    <2> QED BY <1>2, <2>1, <2>2, <2>3, <2>4, <2>5 DEF MainStep
  <1>3. CASE UNCHANGED <<TaskWrapper, main, task>>
    BY <1>3
  <1> QED BY <1>1, <1>2, <1>3
          DEF AsyncNext, ExecuteOnWorker, OnWorker, EndRequest,
              AfterOnWorker, InitSemaphore, SemaphoreMade,
              AsyncSend, SemaphoreWait, DelHandle, asyncVars

(***************************************************************************)
(* A handle that is not shared.                                            *)
(***************************************************************************)
LEMMA ReqTypes ==
  ASSUME AsyncTypeOK
  PROVE  /\ req \in [Request -> {"new", "queued", "run", "set", "send", "wait", "ran", "done"}]
         /\ own \in [Request -> Task \cup {Nil}]
         /\ \A r \in Request : own[r] # Nil <=> req[r] \in {"set", "send", "wait"}
  BY DEF AsyncTypeOK

LEMMA OwnIs ==
  ASSUME AsyncTypeOK, NEW r \in Request, own[r] # Nil
  PROVE  own[r] \in Task
  BY ReqTypes

LEMMA NextOneUser ==
  ASSUME ~Shared, ~SemFails, AsyncTypeOK, OneUser,
         [AsyncNext]_asyncVars
  PROVE  OneUser'
  <1> USE DEF OneUser, Blocking
  <1>1. ASSUME NEW r \in Request,
               ExecuteOnWorker(r) \/ OnWorker(r)
                 \/ EndRequest(r) \/ AfterOnWorker(r)
        PROVE  OneUser'
    BY <1>1, ReqTypes
       DEF ExecuteOnWorker, OnWorker, EndRequest, AfterOnWorker,
           ReqTo
  <1>2. ASSUME NEW r \in Request, NEW t \in Task, SetAsyncData(r, t) PROVE OneUser'
    BY <1>2, ReqTypes DEF SetAsyncData, MayUse, ReqTo
  <1>3. ASSUME NEW r \in Request, InitSemaphore(r) \/ AsyncSend(r) PROVE OneUser'
    BY <1>3, ReqTypes DEF InitSemaphore, SemaphoreMade, AsyncSend, ReqTo
  <1>4. ASSUME NEW r \in Request, SemaphoreWait(r) PROVE OneUser'
    BY <1>4, ReqTypes DEF SemaphoreWait, ReqTo
  <1>5. CASE MainStep
    <2>1. UNCHANGED <<req, own, handle>>
      BY <1>5, SignalledDoes, ExtractDoes, RunDoes, PostDoes, DestroyDoes DEF MainStep
    <2> QED BY <2>1
  <1>6. CASE DelHandle
    BY <1>6, ReqTypes DEF DelHandle, Busy
  <1>7. CASE UNCHANGED asyncVars
    BY <1>7 DEF asyncVars
  <1> QED BY <1>1, <1>2, <1>3, <1>4, <1>5, <1>6, <1>7 DEF AsyncNext

\* A request that is passing a task is the only one, and nothing else is under way.
LEMMA NextLeftAlone ==
  ASSUME ~Shared, ~SemFails, AsyncTypeOK, Placed, OneUser, LeftAlone, ServedInTurn,
         [AsyncNext]_asyncVars
  PROVE  LeftAlone'
  <1> USE DEF LeftAlone, Blocking
  <1>1. ASSUME NEW r \in Request,
               ExecuteOnWorker(r) \/ OnWorker(r)
                 \/ EndRequest(r) \/ AfterOnWorker(r)
        PROVE  LeftAlone'
    BY <1>1, ReqTypes
       DEF ExecuteOnWorker, OnWorker, EndRequest, AfterOnWorker,
           ReqTo
  <1>2. ASSUME NEW r \in Request, NEW t \in Task, SetAsyncData(r, t) PROVE LeftAlone'
    <2>1. SUFFICES ASSUME handle = "blocking", NEW s \in Request, req'[s] \in {"set", "send"}
                   PROVE  /\ TaskWrapper' = own'[s] /\ task'[own'[s]] = "alive"
                          /\ ~pending' /\ main'.at \in {"loop", "destroy"}
      BY <1>2 DEF SetAsyncData
    <2>2. \A o \in Request : own[o] = Nil
      BY <1>2, <2>1, ReqTypes DEF SetAsyncData, MayUse
    <2>3. s = r
      BY <1>2, <2>1, <2>2, ReqTypes DEF SetAsyncData, ReqTo
    <2>4. TaskWrapper' = t /\ own'[r] = t /\ task'[t] = "alive"
      BY <1>2, ReqTypes DEF SetAsyncData, Replaced
    <2>5. \A o \in Request, u \in Task : ~WaitsFor(o, u)
      BY <2>2, ReqTypes DEF WaitsFor
    <2>6. ~pending /\ main.at \in {"loop", "destroy"}
      BY <2>1, <2>5, AsyncTypes DEF ServedInTurn, AsyncTypeOK
    <2> QED BY <1>2, <2>3, <2>4, <2>6 DEF SetAsyncData
  <1>3. ASSUME NEW r \in Request, InitSemaphore(r) PROVE LeftAlone'
    BY <1>3, ReqTypes DEF InitSemaphore, SemaphoreMade, ReqTo
  <1>4. ASSUME NEW r \in Request, AsyncSend(r) PROVE LeftAlone'
    <2>1. handle = "blocking" => \A s \in Request : req'[s] \notin {"set", "send"}
      BY <1>4, ReqTypes DEF AsyncSend, ReqTo, OneUser
    <2> QED BY <1>4, <2>1 DEF AsyncSend
  <1>5. ASSUME NEW r \in Request, SemaphoreWait(r) PROVE LeftAlone'
    BY <1>5, ReqTypes DEF SemaphoreWait, ReqTo
  <1>6. CASE Signalled \/ ExtractAndClearData \/ RunOnMain \/ PostSemaphore
    <2>1. handle = "blocking" => \A s \in Request : req[s] \notin {"set", "send"}
      BY <1>6, SignalledDoes, ExtractDoes, RunDoes, PostDoes
    <2>2. UNCHANGED <<req, handle>>
      BY <1>6, SignalledDoes, ExtractDoes, RunDoes, PostDoes
    <2> QED BY <2>1, <2>2
  <1>7. CASE DestroySemaphore
    <2>1. /\ UNCHANGED <<req, own, TaskWrapper, pending, handle>> /\ main'.at = "loop"
          /\ main.task # Nil
          /\ \A u \in Task \ {main.task} : task'[u] = task[u]
      BY <1>7, DestroyDoes, AsyncTypes
    <2>2. TaskWrapper # Nil => task'[TaskWrapper] = task[TaskWrapper]
      BY <2>1, AsyncTypes DEF Placed
    <2> QED BY <2>1, <2>2, ReqTypes
  <1>8. CASE DelHandle
    BY <1>8 DEF DelHandle
  <1>9. CASE UNCHANGED asyncVars
    BY <1>9 DEF asyncVars
  <1> QED BY <1>1, <1>2, <1>3, <1>4, <1>5, <1>6, <1>7, <1>8, <1>9 DEF AsyncNext, MainStep

\* A wait ends after the task ran: the loop has nothing to do with it any more.
LEMMA WaitEndsAfterRun ==
  ASSUME Nil \notin Task, AsyncTypeOK, Placed, OneUser, ServedInTurn, PostedAfterRun, Blocking,
         NEW r \in Request, SemaphoreWait(r)
  PROVE  /\ task[own[r]] \in {"ran", "ran and deleted"}
         /\ ~pending /\ main.at \in {"loop", "destroy"}
         /\ ~IsDeleted(own[r]) \/ task[own[r]] = "ran and deleted"
  <1>1. own[r] \in Task /\ req[r] = "wait"
    BY ReqTypes DEF SemaphoreWait
  <1>2. task[own[r]] = "ran and deleted" \/ (main.at = "destroy" /\ main.task = own[r])
    BY <1>1 DEF SemaphoreWait, WaitIsOver, IsDeleted, PostedAfterRun
  <1>3. task[own[r]] \in {"ran", "ran and deleted"}
    BY <1>2 DEF Placed
  <1>4. \A s \in Request, t \in Task : WaitsFor(s, t) => t = own[r]
    BY <1>1, ReqTypes DEF WaitsFor, OneUser
  <1>5. ~pending /\ main.at # "called"
    BY <1>3, <1>4, AsyncTypes DEF ServedInTurn, Placed
  <1>6. main.at \notin {"run", "post"}
    BY <1>2, <1>4, AsyncTypes DEF ServedInTurn, Placed
  <1>7. main.at \in {"loop", "destroy"}
    BY <1>5, <1>6 DEF AsyncTypeOK
  <1> QED BY <1>3, <1>5, <1>7 DEF IsDeleted

LEMMA NextServed ==
  ASSUME Nil \notin Task, ~Shared, ~SemFails, AsyncTypeOK, Placed, OneUser, LeftAlone, ServedInTurn, PostedAfterRun,
         [AsyncNext]_asyncVars
  PROVE  ServedInTurn'
  <1> USE DEF ServedInTurn, WaitsFor, Blocking
  <1>1. ASSUME NEW r \in Request,
               ExecuteOnWorker(r) \/ OnWorker(r)
                 \/ EndRequest(r) \/ AfterOnWorker(r)
        PROVE  ServedInTurn'
    <2>1. /\ UNCHANGED <<own, TaskWrapper, pending, handle, main>>
          /\ \A s \in Request : req[s] = "wait" => req'[s] = "wait"
      BY <1>1, ReqTypes
         DEF ExecuteOnWorker, OnWorker, EndRequest,
             AfterOnWorker, ReqTo
    <2> QED BY <2>1
  <1>2. ASSUME NEW r \in Request, NEW t \in Task, SetAsyncData(r, t) PROVE ServedInTurn'
    <2>1. handle = "blocking" => \A o \in Request : own[o] = Nil
      BY <1>2, ReqTypes DEF SetAsyncData, MayUse
    <2>2. handle = "blocking" => ~pending /\ main.at \in {"loop", "destroy"}
      BY <2>1, AsyncTypes, ReqTypes DEF AsyncTypeOK
    <2> QED BY <1>2, <2>2 DEF SetAsyncData
  <1>3. ASSUME NEW r \in Request, InitSemaphore(r) PROVE ServedInTurn'
    BY <1>3 DEF InitSemaphore, SemaphoreMade, LeftAlone
  <1>4. ASSUME NEW r \in Request, AsyncSend(r), handle = "blocking" PROVE ServedInTurn'
    <2>1. main.at \in {"loop", "destroy"} /\ TaskWrapper = own[r] /\ own[r] # Nil
      BY <1>4, ReqTypes DEF AsyncSend, LeftAlone
    <2>2. req'[r] = "wait" /\ own'[r] = own[r] /\ TaskWrapper' = TaskWrapper /\ main' = main
      BY <1>4, ReqTypes DEF AsyncSend, ReqTo
    <2> QED BY <2>1, <2>2
  <1>5. ASSUME NEW r \in Request, SemaphoreWait(r), handle = "blocking" PROVE ServedInTurn'
    BY <1>5, WaitEndsAfterRun DEF SemaphoreWait
  <1>6. CASE Signalled
    BY <1>6, SignalledDoes
  <1>7. CASE ExtractAndClearData
    BY <1>7, ExtractDoes
  <1>8. CASE RunOnMain
    BY <1>8, RunDoes
  <1>9. CASE PostSemaphore \/ DestroySemaphore
    BY <1>9, PostDoes, DestroyDoes
  <1>10. CASE DelHandle
    BY <1>10 DEF DelHandle
  <1>11. CASE UNCHANGED asyncVars
    BY <1>11 DEF asyncVars
  <1>12. ASSUME NEW r \in Request, AsyncSend(r) \/ SemaphoreWait(r), handle # "blocking"
         PROVE  ServedInTurn'
    BY <1>12 DEF AsyncSend, SemaphoreWait
  <1> QED BY <1>1, <1>2, <1>3, <1>4, <1>5, <1>6, <1>7, <1>8, <1>9, <1>10, <1>11, <1>12
          DEF AsyncNext, MainStep

LEMMA NextPosted ==
  ASSUME Nil \notin Task, ~Shared, ~SemFails, AsyncTypeOK, Placed, OneUser, PostedAfterRun,
         [AsyncNext]_asyncVars
  PROVE  PostedAfterRun'
  <1> USE DEF PostedAfterRun, Blocking
  <1>1. ASSUME NEW r \in Request,
               ExecuteOnWorker(r) \/ OnWorker(r)
                 \/ EndRequest(r) \/ AfterOnWorker(r)
        PROVE  PostedAfterRun'
    BY <1>1 DEF ExecuteOnWorker, OnWorker, EndRequest, AfterOnWorker
  <1>2. ASSUME NEW r \in Request, NEW t \in Task, SetAsyncData(r, t) PROVE PostedAfterRun'
    <2>1. handle = "blocking" => \A o \in Request : own'[o] # Nil => own'[o] = t
      BY <1>2, ReqTypes DEF SetAsyncData, MayUse
    <2>2. task[t] = "new" /\ task'[t] = "alive" /\ UNCHANGED <<sem, main, handle>>
      BY <1>2 DEF SetAsyncData, Replaced
    <2>3. \A u \in Task : task[u] = "ran and deleted" => task'[u] = "ran and deleted"
      BY <1>2, <2>2, AsyncTypes DEF SetAsyncData, Replaced, Placed
    <2> QED BY <2>1, <2>2, <2>3
  <1>3. ASSUME NEW r \in Request, InitSemaphore(r) PROVE PostedAfterRun'
    BY <1>3, AsyncTypes, ReqTypes DEF InitSemaphore, SemaphoreMade
  <1>4. ASSUME NEW r \in Request, AsyncSend(r) \/ SemaphoreWait(r) PROVE PostedAfterRun'
    BY <1>4, ReqTypes, ZenonT(40) DEF AsyncSend, SemaphoreWait
  <1>5. CASE Signalled
    BY <1>5, SignalledDoes
  <1>6. CASE ExtractAndClearData
    BY <1>6, ExtractDoes
  <1>7. CASE RunOnMain
    <2>1. /\ main.at = "run" /\ main.task \in Task /\ task[main.task] = "alive"
          /\ UNCHANGED <<own, sem, handle>>
          /\ \A u \in Task \ {main.task} : task'[u] = task[u]
          /\ task'[main.task] \in {"ran", "ran and deleted"}
      BY <1>7, RunDoes DEF Placed
    <2>2. ASSUME NEW t \in Task, sem'[t] \in {"one", "destroyed"} PROVE task'[t] = "ran and deleted"
      BY <2>1, <2>2
    <2>3. ASSUME NEW r \in Request, own'[r] # Nil, handle = "blocking" PROVE task'[own'[r]] # "deleted"
      <3>1. own'[r] = own[r] /\ own[r] \in Task /\ task[own[r]] # "deleted"
        <4>1. own'[r] = own[r] /\ own[r] # Nil
          BY <2>1, <2>3
        <4>2. own[r] \in Task
          BY <4>1, OwnIs
        <4>3. handle = "blocking" => \A o \in Request : own[o] # Nil => task[own[o]] # "deleted"
          OBVIOUS
        <4> QED BY <2>3, <4>1, <4>2, <4>3
      <3>2. CASE own[r] = main.task
        BY <2>1, <3>1, <3>2
      <3>3. CASE own[r] # main.task
        BY <2>1, <3>1, <3>3
      <3> QED BY <3>2, <3>3
    <2> QED BY <2>1, <2>2, <2>3
  <1>8. CASE PostSemaphore
    BY <1>8, PostDoes, AsyncTypes
  <1>9. CASE DestroySemaphore
    <2>1. /\ main.at = "destroy" /\ main.task \in Task /\ UNCHANGED <<own, handle>>
          /\ \A u \in Task \ {main.task} : task'[u] = task[u] /\ sem'[u] = sem[u]
      BY <1>9, DestroyDoes, AsyncTypes
    <2>2. task'[main.task] = "ran and deleted"
      <3>1. task[main.task] = "ran" /\ task' = [task EXCEPT ![main.task] = Deleted(main.task)]
        BY <1>9, <2>1, DestroyDoes DEF Placed
      <3>2. Deleted(main.task) = "ran and deleted"
        BY <3>1 DEF Deleted
      <3> QED BY <2>1, <3>1, <3>2, AsyncTypes
    <2>3. ASSUME NEW t \in Task, sem'[t] \in {"one", "destroyed"}
          PROVE  task'[t] = "ran and deleted" \/ (main'.at = "destroy" /\ main'.task = t)
      <3>1. t # main.task => sem'[t] = sem[t] /\ task'[t] = task[t]
        BY <2>1
      <3>2. t # main.task => task[t] = "ran and deleted"
        BY <2>1, <2>3, <3>1
      <3> QED BY <2>2, <3>1, <3>2
    <2>4. ASSUME handle = "blocking", NEW r \in Request, own[r] # Nil PROVE task'[own[r]] # "deleted"
      <3>1. own[r] \in Task /\ task[own[r]] # "deleted"
        <4>1. own[r] \in Task
          BY <2>4, OwnIs
        <4> QED BY <2>4, <4>1
      <3>2. own[r] # main.task => task'[own[r]] = task[own[r]]
        BY <2>1, <3>1
      <3> QED BY <2>2, <3>1, <3>2
    <2> QED BY <2>1, <2>3, <2>4
  <1>10. CASE DelHandle
    BY <1>10 DEF DelHandle
  <1>11. CASE UNCHANGED asyncVars
    BY <1>11 DEF asyncVars
  <1> QED BY <1>1, <1>2, <1>3, <1>4, <1>5, <1>6, <1>7, <1>8, <1>9, <1>10, <1>11
          DEF AsyncNext, MainStep

(***************************************************************************)
(* The theorems.                                                           *)
(***************************************************************************)
LEMMA AsyncInitInv == AsyncInit => AsyncIInv
  <1> SUFFICES ASSUME AsyncInit PROVE AsyncIInv
    OBVIOUS
  <1> USE DEF AsyncInit
  <1>1. AsyncTypeOK
    BY DEF AsyncTypeOK
  <1>2. TasksAreTracked /\ Placed
    BY DEF TasksAreTracked, Placed, IsDeleted
  <1>3. OneUser /\ LeftAlone
    BY DEF OneUser, LeftAlone
  <1>4. ServedInTurn /\ PostedAfterRun
    BY DEF ServedInTurn, PostedAfterRun
  <1> QED BY <1>1, <1>2, <1>3, <1>4 DEF AsyncIInv

\* Of any handle, as long as the system grants semaphores: a task that was passed in is in
\* the configuration, with the loop, or at its end, and in one place only; none runs twice
\* and none is leaked.
THEOREM TasksStaySound ==
  ASSUME ~SemFails
  PROVE  AsyncSpec => []TasksAreSound
  <1>0. Nil \notin Task
    BY AsyncAssumption
  <1> DEFINE I == AsyncTypeOK /\ TasksAreTracked /\ Placed
  <1>1. AsyncInit => I
    BY AsyncInitInv DEF AsyncIInv
  <1>2. I /\ [AsyncNext]_asyncVars => I'
    BY <1>0, AsyncNextType, NextTracked
  <1>3. I => TasksAreSound
    BY DEF TasksAreSound
  <1> QED BY <1>1, <1>2, <1>3, PTL DEF AsyncSpec

LEMMA AsyncInductive ==
  ASSUME Nil \notin Task, ~Shared, ~SemFails
  PROVE  AsyncSpec => []AsyncIInv
  <1>1. AsyncIInv /\ [AsyncNext]_asyncVars => AsyncIInv'
    BY AsyncNextType, NextTracked, NextOneUser, NextLeftAlone, NextServed, NextPosted
       DEF AsyncIInv
  <1> QED BY AsyncInitInv, <1>1, PTL DEF AsyncSpec

\* Of a blocking handle that one request uses at a time (nodeutil.h, NewBlockingHandle):
\* the request goes on after its own task has run, and no deleted wrapper and no null
\* pointer is used on the way.
THEOREM BlockingWaitsForItsTask ==
  ASSUME ~Shared, ~SemFails
  PROVE  AsyncSpec => BlockingIsSafe
  <1>0. Nil \notin Task
    BY AsyncAssumption
  <1>1. ASSUME AsyncIInv, [AsyncNext]_asyncVars, NEW r \in Request, req[r] = "wait", req'[r] = "run"
        PROVE  task[own[r]] \in {"ran", "ran and deleted"}
    <2>1. Blocking
      BY <1>1 DEF AsyncIInv, OneUser
    <2>2. SemaphoreWait(r)
      BY <1>1, ReqTypes, SignalledDoes, ExtractDoes, RunDoes, PostDoes, DestroyDoes
         DEF AsyncIInv, AsyncNext, MainStep, ExecuteOnWorker, OnWorker,
             EndRequest, AfterOnWorker, SetAsyncData,
             InitSemaphore, SemaphoreMade, AsyncSend, SemaphoreWait, DelHandle,
             ReqTo, asyncVars
    <2> QED BY <1>1, <2>1, <2>2, WaitEndsAfterRun, <1>0 DEF AsyncIInv
  <1>2. ASSUME AsyncIInv, [AsyncNext]_asyncVars, fault', ~fault
        PROVE  \E r \in Request :
                 req[r] = "wait" /\ req'[r] = "run" /\ task[own[r]] = "ran and deleted"
    <2>1. ASSUME NEW r \in Request, InitSemaphore(r) PROVE FALSE
      BY <1>2, <2>1 DEF InitSemaphore, SemaphoreMade, AsyncIInv, LeftAlone, OneUser, IsDeleted
    <2>2. ASSUME ExtractAndClearData PROVE FALSE
      BY <1>2, <2>2, ExtractDoes DEF AsyncIInv, ServedInTurn
    <2>3. ASSUME NEW r \in Request, SemaphoreWait(r)
          PROVE  req[r] = "wait" /\ req'[r] = "run" /\ task[own[r]] = "ran and deleted"
      <3>1. req[r] = "wait" /\ req'[r] = "run" /\ IsDeleted(own[r])
        BY <1>2, <2>3, ReqTypes DEF SemaphoreWait, ReqTo, AsyncIInv
      <3>2. Blocking
        BY <1>2, <3>1 DEF AsyncIInv, OneUser
      <3> QED BY <1>2, <2>3, <3>1, <3>2, WaitEndsAfterRun, <1>0 DEF AsyncIInv
    <2>4. fault' = fault \/ ExtractAndClearData
            \/ \E r \in Request : InitSemaphore(r) \/ SemaphoreWait(r)
      BY <1>2, SignalledDoes, RunDoes, PostDoes, DestroyDoes
         DEF AsyncIInv, AsyncNext, MainStep, ExecuteOnWorker, OnWorker,
             EndRequest, AfterOnWorker, SetAsyncData,
             AsyncSend, DelHandle, asyncVars
    <2> QED BY <1>2, <2>1, <2>2, <2>3, <2>4
  <1>3. AsyncIInv /\ [AsyncNext]_asyncVars =>
          [\A r \in Request : req[r] = "wait" /\ req'[r] = "run" =>
             task[own[r]] \in {"ran", "ran and deleted"}]_asyncVars
    BY <1>1
  <1>4. AsyncIInv /\ [AsyncNext]_asyncVars =>
          [fault' /\ ~fault => \E r \in Request :
             req[r] = "wait" /\ req'[r] = "run" /\ task[own[r]] = "ran and deleted"]_asyncVars
    BY <1>2
  <1>5. AsyncSpec => []AsyncIInv
    BY <1>0, AsyncInductive
  <1> QED BY <1>3, <1>4, <1>5, PTL
     DEF AsyncSpec, BlockingIsSafe, OnlyLiveWrappers,
         WaitsForItsTask

===============================================================================
