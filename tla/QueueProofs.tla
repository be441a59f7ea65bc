---------------------------- MODULE QueueProofs ----------------------------
(***************************************************************************)
(* Proofs about the two queues that do not belong to a search, that of the *)
(* thread pool and that of the worst slacks.                               *)
(*                                                                         *)
(* DispatchQueue, for any number of threads and any tasks: the latch       *)
(* counts the outstanding tasks, no wakeup is lost, and the pool runs each *)
(* task once.  A thread has a task exactly while it runs, each task is in  *)
(* one place, and only a resize of the pool raises the quit signal: with   *)
(* these the three are inductive.                                          *)
(*                                                                         *)
(* WorstSlack, for any set of endpoints, any slacks and any queue sizes:   *)
(* the queue is complete and every answer is the worst slack.  The answer  *)
(* is right because the worst vertex, when known, is in the queue          *)
(* (WorstInQueue) and an endpoint outside the queue is no worse than any   *)
(* inside (QueueComplete).  While the queue is being filled both hold for  *)
(* the endpoints visited so far.                                           *)
(***************************************************************************)
EXTENDS DispatchQueue, WorstSlack, FiniteSetTheorems, SequenceTheorems, TLAPS

-----------------------------------------------------------------------------
(* The thread pool.                                                        *)

Busy == {w \in Threads : op[w] # NoTask}

\* Where a task may be: in one entry of the queue or with one thread.
TaskInOnePlace ==
  /\ \A i, j \in DOMAIN q : q[i] = q[j] => i = j
  /\ \A w \in Busy : op[w] \notin InQueue
  /\ \A v, w \in Busy : op[v] = op[w] => v = w

BusyRuns == \A w \in Threads : op[w] # NoTask <=> thread[w] = "run"

QuitWhileResizing ==
  /\ quit <=> caller \in {"notify_all", "join"}
  /\ \A w \in Threads : thread[w] = "exit" => quit
  /\ \E w \in Threads : thread[w] # "none"

PoolInv == /\ TypeOK /\ LatchCounts /\ TaskInOnePlace /\ BusyRuns /\ QuitWhileResizing
           /\ SomeoneAwake

-----------------------------------------------------------------------------
(* The queue.                                                              *)

LEMMA AppendTask ==
  ASSUME NEW s \in Seq(Tasks), NEW t \in Tasks
  PROVE  /\ Append(s, t) \in Seq(Tasks)
         /\ Len(Append(s, t)) = Len(s) + 1
         /\ {Append(s, t)[i] : i \in DOMAIN Append(s, t)} = {s[i] : i \in DOMAIN s} \cup {t}
         /\ (\A i, j \in DOMAIN s : s[i] = s[j] => i = j) /\ t \notin {s[i] : i \in DOMAIN s}
              => \A i, j \in DOMAIN Append(s, t) : Append(s, t)[i] = Append(s, t)[j] => i = j
<1>1. /\ Append(s, t) \in Seq(Tasks) /\ Len(Append(s, t)) = Len(s) + 1
      /\ \A i \in 1..Len(s) : Append(s, t)[i] = s[i]
      /\ Append(s, t)[Len(s) + 1] = t
  BY AppendProperties
<1>2. /\ DOMAIN s = 1..Len(s) /\ DOMAIN Append(s, t) = 1..(Len(s) + 1) /\ Len(s) \in Nat
  BY <1>1, LenProperties
<1>3. \A i \in 1..(Len(s) + 1) : i \in 1..Len(s) \/ i = Len(s) + 1
  BY <1>2
<1>4. 1..Len(s) \subseteq 1..(Len(s) + 1) /\ Len(s) + 1 \in 1..(Len(s) + 1)
  BY <1>2
<1>5. {Append(s, t)[i] : i \in DOMAIN Append(s, t)} = {s[i] : i \in DOMAIN s} \cup {t}
  BY <1>1, <1>2, <1>3, <1>4
<1>6. ASSUME \A i, j \in DOMAIN s : s[i] = s[j] => i = j, t \notin {s[i] : i \in DOMAIN s},
             NEW i \in DOMAIN Append(s, t), NEW j \in DOMAIN Append(s, t),
             Append(s, t)[i] = Append(s, t)[j]
      PROVE  i = j
  BY <1>1, <1>2, <1>3, <1>6
<1> QED
  BY <1>1, <1>5, <1>6

LEMMA TakeHead ==
  ASSUME NEW s \in Seq(Tasks), s # <<>>, \A i, j \in DOMAIN s : s[i] = s[j] => i = j
  PROVE  /\ Head(s) \in Tasks /\ Tail(s) \in Seq(Tasks)
         /\ Len(Tail(s)) = Len(s) - 1
         /\ Head(s) \in {s[i] : i \in DOMAIN s}
         /\ {Tail(s)[i] : i \in DOMAIN Tail(s)} = {s[i] : i \in DOMAIN s} \ {Head(s)}
         /\ \A i, j \in DOMAIN Tail(s) : Tail(s)[i] = Tail(s)[j] => i = j
<1>1. /\ Head(s) \in Tasks /\ Tail(s) \in Seq(Tasks) /\ Len(Tail(s)) = Len(s) - 1
      /\ Head(s) = s[1] /\ Len(s) \in Nat /\ Len(s) > 0
      /\ \A i \in 1..(Len(s) - 1) : Tail(s)[i] = s[i + 1]
  BY HeadTailProperties, EmptySeq, LenProperties
<1>2. /\ DOMAIN s = 1..Len(s) /\ DOMAIN Tail(s) = 1..(Len(s) - 1)
  BY <1>1, LenProperties
<1>3. \A i \in 1..(Len(s) - 1) : i + 1 \in 1..Len(s) /\ i + 1 # 1
  BY <1>1
<1>4. \A i \in 1..Len(s) : i = 1 \/ (i - 1 \in 1..(Len(s) - 1) /\ (i - 1) + 1 = i)
  BY <1>1
<1>5. 1 \in 1..Len(s)
  BY <1>1
<1>6. {Tail(s)[i] : i \in DOMAIN Tail(s)} = {s[i] : i \in DOMAIN s} \ {Head(s)}
  <2>1. ASSUME NEW i \in 1..(Len(s) - 1)
        PROVE  Tail(s)[i] \in {s[k] : k \in DOMAIN s} \ {Head(s)}
    BY <1>1, <1>2, <1>3, <1>5
  <2>2. ASSUME NEW i \in 1..Len(s), s[i] # Head(s)
        PROVE  s[i] \in {Tail(s)[k] : k \in DOMAIN Tail(s)}
    <3>1. i - 1 \in 1..(Len(s) - 1) /\ s[i] = Tail(s)[i - 1]
      BY <2>2, <1>1, <1>4
    <3> QED
      BY <3>1, <1>2
  <2> QED
    BY <2>1, <2>2, <1>2
<1>7. ASSUME NEW i \in DOMAIN Tail(s), NEW j \in DOMAIN Tail(s), Tail(s)[i] = Tail(s)[j]
      PROVE  i = j
  <2>1. s[i + 1] = s[j + 1] /\ i + 1 \in DOMAIN s /\ j + 1 \in DOMAIN s /\ i \in Int /\ j \in Int
    BY <1>1, <1>2, <1>3, <1>7
  <2>2. i + 1 = j + 1
    BY <2>1
  <2> QED
    BY <2>1, <2>2
<1> QED
  BY <1>1, <1>2, <1>5, <1>6, <1>7

LEMMA BusyFinite == IsFiniteSet(Busy)
BY FS_Subset, DispatchAssumption DEF Busy
LEMMA EmptyQueue == ASSUME TypeOK PROVE q = <<>> <=> Len(q) = 0
BY EmptySeq DEF TypeOK

-----------------------------------------------------------------------------
(* The invariant, step by step.                                            *)

LEMMA InitPoolInv == Init => PoolInv
<1> SUFFICES ASSUME Init PROVE PoolInv
  OBVIOUS
<1>1. Busy = {} /\ q = <<>> /\ Len(q) = 0 /\ DOMAIN q = {}
  BY DEF Init, Busy
<1>2. TypeOK
  <2>1. q \in Seq(Tasks) /\ InitThreads \in (SUBSET Threads) \ {{}}
    BY <1>1, EmptySeq, DispatchAssumption
  <2> QED
    BY <2>1 DEF Init, TypeOK
<1>3. LatchCounts
  <2>1. Cardinality(Busy) = 0 /\ count = 0
    BY <1>1, FS_EmptySet DEF Init
  <2> QED
    BY <1>1, <2>1 DEF LatchCounts, Busy
<1>4. QuitWhileResizing
  BY DispatchAssumption DEF Init, QuitWhileResizing
<1> QED
  BY <1>1, <1>2, <1>3, <1>4
     DEF Init, PoolInv, TaskInOnePlace, BusyRuns, SomeoneAwake, InQueue, Busy

\* A step that leaves the tasks where they are.
LEMMA TasksUnmoved ==
  ASSUME PoolInv, UNCHANGED <<q, count, op>>
  PROVE  LatchCounts' /\ TaskInOnePlace'
BY DEF PoolInv, LatchCounts, TaskInOnePlace, InQueue, Busy

LEMMA TakeTaskInv ==
  ASSUME PoolInv, NEW w \in Threads, TakeTask(w)
  PROVE  PoolInv'
<1> USE DEF PoolInv
<1>1. /\ q \in Seq(Tasks) /\ q # <<>> /\ \A i, j \in DOMAIN q : q[i] = q[j] => i = j
  BY DEF TakeTask, TypeOK, TaskInOnePlace
<1>2. /\ Head(q) \in Tasks /\ q' \in Seq(Tasks) /\ Len(q') = Len(q) - 1
      /\ Head(q) \in InQueue /\ InQueue' = InQueue \ {Head(q)}
      /\ \A i, j \in DOMAIN q' : q'[i] = q'[j] => i = j
  <2>1. q' = Tail(q) /\ InQueue = {q[i] : i \in DOMAIN q}
        /\ InQueue' = {Tail(q)[i] : i \in DOMAIN Tail(q)}
    BY DEF TakeTask, InQueue
  <2> QED
    BY <1>1, <2>1, TakeHead
<1>3. w \notin Busy /\ Busy' = Busy \cup {w} /\ Head(q) # NoTask
      /\ op'[w] = Head(q) /\ \A v \in Busy : v # w /\ op'[v] = op[v]
  BY <1>2, DispatchAssumption DEF TakeTask, At, TypeOK, BusyRuns, Busy
<1>4. Cardinality(Busy') = Cardinality(Busy) + 1 /\ Cardinality(Busy) \in Nat
  BY <1>3, BusyFinite, FS_AddElement, FS_CardinalityType
<1>5. LatchCounts'
  <2>1. count = Len(q) + Cardinality(Busy) /\ count' = count /\ Len(q) \in Nat
    BY <1>1, LenProperties DEF LatchCounts, Busy, TakeTask
  <2>2. count' = Len(q') + Cardinality(Busy')
    BY <2>1, <1>2, <1>4
  <2> QED
    BY <2>2 DEF LatchCounts, Busy
<1>6. TypeOK'
  BY <1>2 DEF TakeTask, At, TypeOK, callerVars
<1>7. TaskInOnePlace'
  BY <1>2, <1>3 DEF TaskInOnePlace
<1>8. BusyRuns'
  BY <1>3 DEF TakeTask, At, BusyRuns, Busy, TypeOK
<1>9. QuitWhileResizing' /\ SomeoneAwake'
  BY DEF TakeTask, At, QuitWhileResizing, SomeoneAwake, TypeOK, callerVars
<1> QED
  BY <1>5, <1>6, <1>7, <1>8, <1>9

LEMMA CountDownInv ==
  ASSUME PoolInv, NEW w \in Threads, CountDown(w)
  PROVE  PoolInv'
<1> USE DEF PoolInv
<1>1. w \in Busy /\ Busy' = Busy \ {w} /\ \A v \in Busy' : op'[v] = op[v]
  BY DEF CountDown, At, TypeOK, BusyRuns, Busy
<1>2. Cardinality(Busy') = Cardinality(Busy) - 1 /\ Cardinality(Busy) \in Nat
      /\ Cardinality(Busy') \in Nat
  BY <1>1, BusyFinite, FS_RemoveElement, FS_CardinalityType
<1>3. LatchCounts' /\ count' \in Nat
  <2>1. count = Len(q) + Cardinality(Busy) /\ count' = count - 1 /\ Len(q) \in Nat /\ q' = q
    BY LenProperties DEF LatchCounts, Busy, CountDown, TypeOK
  <2>2. count' = Len(q') + Cardinality(Busy') /\ count' \in Nat
    BY <2>1, <1>2
  <2> QED
    BY <2>2 DEF LatchCounts, Busy
<1>4. TypeOK'
  BY <1>3 DEF CountDown, At, TypeOK, callerVars
<1>5. TaskInOnePlace'
  BY <1>1 DEF CountDown, TaskInOnePlace, InQueue
<1>6. BusyRuns'
  BY <1>1 DEF CountDown, At, BusyRuns, Busy, TypeOK
<1>7. QuitWhileResizing' /\ SomeoneAwake'
  BY DEF CountDown, At, QuitWhileResizing, SomeoneAwake, TypeOK, callerVars
<1> QED
  BY <1>3, <1>4, <1>5, <1>6, <1>7

LEMMA DispatchInv ==
  ASSUME PoolInv, NEW t \in Tasks, Dispatch(t)
  PROVE  PoolInv'
<1> USE DEF PoolInv
<1>1. q \in Seq(Tasks) /\ t \notin InQueue /\ \A w \in Busy : op[w] # t
  BY DEF Dispatch, TypeOK, Running, Busy
<1>2. /\ q' \in Seq(Tasks) /\ Len(q') = Len(q) + 1 /\ InQueue' = InQueue \cup {t}
      /\ \A i, j \in DOMAIN q' : q'[i] = q'[j] => i = j
  BY <1>1, AppendTask DEF Dispatch, InQueue, TaskInOnePlace
<1>3. op' = op /\ Busy' = Busy
  BY DEF Dispatch, threadVars, Busy
<1>4. Cardinality(Busy) \in Nat
  BY BusyFinite, FS_CardinalityType
<1>5. LatchCounts' /\ count' \in Nat
  <2>1. count = Len(q) + Cardinality(Busy) /\ count' = count + 1 /\ Len(q) \in Nat
    BY <1>1, LenProperties DEF LatchCounts, Busy, Dispatch
  <2>2. count' = Len(q') + Cardinality(Busy') /\ count' \in Nat
    BY <2>1, <1>2, <1>3, <1>4
  <2> QED
    BY <2>2 DEF LatchCounts, Busy
<1>6. TypeOK'
  BY <1>2, <1>5 DEF Dispatch, Call, TypeOK, threadVars
<1>7. TaskInOnePlace'
  BY <1>1, <1>2, <1>3 DEF TaskInOnePlace
<1>8. BusyRuns' /\ QuitWhileResizing' /\ SomeoneAwake'
  BY DEF Dispatch, Call, threadVars, BusyRuns, QuitWhileResizing, SomeoneAwake
<1> QED
  BY <1>5, <1>6, <1>7, <1>8

\* The other steps of the threads, which move no task.
LEMMA WorkerStepInv ==
  ASSUME PoolInv, NEW w \in Threads,
         WaitForWork(w) \/ Quit(w) \/ NotifyLatch(w) \/ SpuriousWakeup(w)
  PROVE  PoolInv'
<1>1. UNCHANGED <<q, count, op, quit>>
  BY DEF WaitForWork, Quit, NotifyLatch, SpuriousWakeup
<1>2. LatchCounts' /\ TaskInOnePlace'
  BY <1>1, TasksUnmoved
<1>3. TypeOK' /\ BusyRuns'
  BY <1>1 DEF PoolInv, TypeOK, BusyRuns, At, WaitForWork, Quit, NotifyLatch, SpuriousWakeup,
     callerVars
<1>4. QuitWhileResizing' /\ SomeoneAwake'
  BY <1>1 DEF PoolInv, TypeOK, QuitWhileResizing, SomeoneAwake, At, WaitForWork, Quit,
     NotifyLatch, SpuriousWakeup, callerVars
<1> QED
  BY <1>2, <1>3, <1>4 DEF PoolInv

\* Those of the caller that leave the threads alone.
LEMMA CallerStepInv ==
  ASSUME PoolInv,
         \/ LoadCount \/ CompareCount \/ SpuriousLatchWakeup \/ FinishTasks
         \/ \E S \in (SUBSET Threads) \ {{}} : SetThreadCount(S)
  PROVE  PoolInv'
<1>1. UNCHANGED <<q, count, op, thread>>
  BY DEF LoadCount, CompareCount, SpuriousLatchWakeup, FinishTasks, SetThreadCount, threadVars
<1>2. LatchCounts' /\ TaskInOnePlace'
  BY <1>1, TasksUnmoved
<1>3. TypeOK' /\ BusyRuns'
  BY <1>1 DEF PoolInv, TypeOK, BusyRuns, Call, LoadCount, CompareCount, SpuriousLatchWakeup,
     FinishTasks, SetThreadCount
<1>4. QuitWhileResizing' /\ SomeoneAwake'
  BY <1>1 DEF PoolInv, QuitWhileResizing, SomeoneAwake, Call, LoadCount, CompareCount,
     SpuriousLatchWakeup, FinishTasks, SetThreadCount
<1> QED
  BY <1>2, <1>3, <1>4 DEF PoolInv

\* Notifications, and the threads of the resized pool.
LEMMA WakeInv ==
  ASSUME PoolInv, NotifyOne \/ NotifyAll \/ JoinThreads
  PROVE  PoolInv'
<1> USE DEF PoolInv
<1>1. UNCHANGED <<q, count, op>>
  BY DEF NotifyOne, NotifyAll, JoinThreads
<1>2. LatchCounts' /\ TaskInOnePlace'
  BY <1>1, TasksUnmoved
<1>3. CASE NotifyOne
  <2>1. TypeOK' /\ BusyRuns'
    BY <1>3 DEF NotifyOne, Call, TypeOK, BusyRuns, Waiting
  <2>2. QuitWhileResizing'
    BY <1>3 DEF NotifyOne, Call, TypeOK, QuitWhileResizing, Waiting
  <2>3. SomeoneAwake'
    BY <1>3 DEF NotifyOne, Call, TypeOK, QuitWhileResizing, SomeoneAwake, Waiting
  <2> QED
    BY <1>2, <2>1, <2>2, <2>3
<1>4. CASE NotifyAll
  BY <1>2, <1>4 DEF NotifyAll, Call, TypeOK, BusyRuns, QuitWhileResizing, SomeoneAwake
<1>5. CASE JoinThreads
  <2>1. resize \subseteq Threads /\ resize # {}
    BY DEF TypeOK
  <2>2. TypeOK' /\ BusyRuns'
    BY <1>5 DEF JoinThreads, Call, TypeOK, BusyRuns
  <2> QED
    BY <1>2, <1>5, <2>1, <2>2 DEF JoinThreads, Call, QuitWhileResizing, SomeoneAwake
<1> QED
  BY <1>3, <1>4, <1>5

LEMMA StepPoolInv == PoolInv /\ [Next]_vars => PoolInv'
<1> SUFFICES ASSUME PoolInv, [Next]_vars PROVE PoolInv'
  OBVIOUS
<1>1. ASSUME NEW w \in Threads, WorkerStep(w) \/ SpuriousWakeup(w) PROVE PoolInv'
  BY <1>1, TakeTaskInv, CountDownInv, WorkerStepInv DEF WorkerStep
<1>2. CASE CallerStep \/ SpuriousLatchWakeup \/ FinishTasks
  BY <1>2, CallerStepInv, WakeInv DEF CallerStep
<1>3. ASSUME NEW t \in Tasks, Dispatch(t) PROVE PoolInv'
  BY <1>3, DispatchInv
<1>4. CASE \E S \in (SUBSET Threads) \ {{}} : SetThreadCount(S)
  BY <1>4, CallerStepInv
<1>5. CASE UNCHANGED vars
  BY <1>5 DEF vars, threadVars, callerVars, PoolInv, TypeOK, LatchCounts, TaskInOnePlace,
     BusyRuns, QuitWhileResizing, SomeoneAwake, InQueue, Busy
<1> QED
  BY <1>1, <1>2, <1>3, <1>4, <1>5 DEF Next

LEMMA PoolInvAlways == Spec => []PoolInv
<1> QED
  BY InitPoolInv, StepPoolInv, PTL DEF Spec

-----------------------------------------------------------------------------
(* Each step is one of TaskPool or changes nothing of it.                  *)

\* InQueue and Running are the tasks of the threads and of the queue.
LEMMA RunningTasks == Running = {op[w] : w \in Busy}
BY DEF Running, Busy

LEMMA InitPool == Init => Pool!Init
<1> SUFFICES ASSUME Init PROVE Pool!Init
  OBVIOUS
<1>1. InQueue = {} /\ Running = {}
  BY DEF Init, InQueue, Running
<1> QED
  BY <1>1 DEF Init, Pool!Init

LEMMA StepPool == PoolInv /\ [Next]_vars => [Pool!Next]_(Pool!vars)
<1> SUFFICES ASSUME PoolInv, [Next]_vars PROVE [Pool!Next]_(Pool!vars)
  OBVIOUS
<1> DEFINE pending == InQueue \cup Running
           finishing == caller \in {"load", "compare", "asleep"}
<1>1. ASSUME UNCHANGED <<q, op, finishing>> PROVE UNCHANGED Pool!vars
  BY <1>1 DEF InQueue, Running, Pool!vars
<1>2. ASSUME NEW w \in Threads, WaitForWork(w) \/ Quit(w) \/ NotifyLatch(w) \/ SpuriousWakeup(w)
      PROVE  UNCHANGED <<q, op, finishing>>
  BY <1>2 DEF WaitForWork, Quit, NotifyLatch, SpuriousWakeup, callerVars
<1>3. ASSUME NEW w \in Threads, TakeTask(w) PROVE UNCHANGED Pool!vars
  <2>1. /\ q \in Seq(Tasks) /\ q # <<>> /\ \A i, j \in DOMAIN q : q[i] = q[j] => i = j
    BY <1>3 DEF TakeTask, PoolInv, TypeOK, TaskInOnePlace
  <2>2. q' = Tail(q) /\ InQueue = {q[i] : i \in DOMAIN q}
        /\ InQueue' = {Tail(q)[i] : i \in DOMAIN Tail(q)}
    BY <1>3 DEF TakeTask, InQueue
  <2>3. Head(q) \in InQueue /\ InQueue' = InQueue \ {Head(q)} /\ Head(q) \in Tasks
    BY <2>1, <2>2, TakeHead
  <2>4. /\ op[w] = NoTask /\ op' = [op EXCEPT ![w] = Head(q)]
        /\ op \in [Threads -> Tasks \cup {NoTask}]
    BY <1>3 DEF TakeTask, At, PoolInv, TypeOK, BusyRuns
  <2>5. Running' = Running \cup {Head(q)}
    BY <2>3, <2>4, DispatchAssumption DEF Running
  <2> QED
    BY <1>3, <2>3, <2>5 DEF TakeTask, callerVars, Pool!vars
<1>4. ASSUME NEW w \in Threads, CountDown(w) PROVE \E t \in Tasks : Pool!Complete(t)
  <2>1. op[w] \in Tasks /\ w \in Busy /\ op' = [op EXCEPT ![w] = NoTask] /\ q' = q
        /\ op \in [Threads -> Tasks \cup {NoTask}]
    BY <1>4 DEF CountDown, At, PoolInv, TypeOK, BusyRuns, Busy
  <2>2. Running' = Running \ {op[w]} /\ op[w] \in Running /\ op[w] \notin InQueue
    BY <2>1, DispatchAssumption DEF Running, PoolInv, TaskInOnePlace, Busy
  <2>3. InQueue' = InQueue
    BY <2>1 DEF InQueue
  <2> QED
    BY <1>4, <2>1, <2>2, <2>3 DEF CountDown, callerVars, Pool!Complete
<1>5. ASSUME NEW t \in Tasks, Dispatch(t) PROVE Pool!Dispatch(t)
  <2>1. InQueue' = InQueue \cup {t} /\ Running' = Running
    <3>1. q \in Seq(Tasks) /\ q' = Append(q, t) /\ op' = op
      BY <1>5 DEF Dispatch, threadVars, PoolInv, TypeOK
    <3>2. InQueue' = InQueue \cup {t}
      BY <3>1, AppendTask DEF InQueue
    <3> QED
      BY <3>1, <3>2 DEF Running
  <2> QED
    BY <1>5, <2>1 DEF Dispatch, Call, Pool!Dispatch
<1>6. CASE FinishTasks
  BY <1>6 DEF FinishTasks, Call, threadVars, InQueue, Running, Pool!BeginFinish, Pool!Next
<1>7. CASE LoadCount
  <2>1. CASE count = 0
    <3>1. Len(q) = 0 /\ Cardinality(Busy) = 0
      <4>1. Len(q) \in Nat /\ Cardinality(Busy) \in Nat
        BY BusyFinite, FS_CardinalityType, LenProperties DEF PoolInv, TypeOK
      <4>2. count = Len(q) + Cardinality(Busy)
        BY DEF PoolInv, LatchCounts, Busy
      <4> QED
        BY <2>1, <4>1, <4>2
    <3>2. q = <<>> /\ Busy = {}
      BY <3>1, BusyFinite, FS_EmptySet, EmptyQueue DEF PoolInv
    <3>3. InQueue = {} /\ Running = {}
      BY <3>2, RunningTasks DEF InQueue
    <3>4. InQueue' = InQueue /\ Running' = Running
      BY <1>7 DEF LoadCount, threadVars, InQueue, Running
    <3> QED
      BY <1>7, <2>1, <3>3, <3>4 DEF LoadCount, Call, Pool!EndFinish, Pool!Next
  <2>2. CASE count # 0
    BY <1>1, <1>7, <2>2 DEF LoadCount, Call, threadVars
  <2> QED
    BY <2>1, <2>2
<1>8. CASE CompareCount \/ SpuriousLatchWakeup \/ NotifyOne \/ NotifyAll \/ JoinThreads
  BY <1>1, <1>8 DEF CompareCount, SpuriousLatchWakeup, NotifyOne, NotifyAll, JoinThreads, Call,
     threadVars
<1>9. ASSUME NEW S, SetThreadCount(S) PROVE UNCHANGED <<q, op, finishing>>
  BY <1>9 DEF SetThreadCount, Call, threadVars
<1>10. CASE UNCHANGED vars
  BY <1>1, <1>10 DEF vars, threadVars, callerVars
<1> QED
  BY <1>1, <1>2, <1>3, <1>4, <1>5, <1>6, <1>7, <1>8, <1>9, <1>10
     DEF Next, WorkerStep, CallerStep, Pool!Next

-----------------------------------------------------------------------------
\* The types hold for any threads and tasks.
THEOREM PoolTypeCorrect == Spec => []TypeOK
<1>1. PoolInv => TypeOK
  BY DEF PoolInv
<1> QED
  BY <1>1, PoolInvAlways, PTL

\* Through every resize of the pool the latch is the number of tasks that are
\* queued or taken.
THEOREM LatchIsExact == Spec => []LatchCounts
<1>1. PoolInv => LatchCounts
  BY DEF PoolInv
<1> QED
  BY <1>1, PoolInvAlways, PTL

\* No notification is lost: tasks never lie in the queue with every thread
\* asleep.
THEOREM NoWakeupLost == Spec => []SomeoneAwake
<1>1. PoolInv => SomeoneAwake
  BY DEF PoolInv
<1> QED
  BY <1>1, PoolInvAlways, PTL

\* The pool runs each dispatched task once and finishTasks returns only when
\* none is left: it implements TaskPool.
THEOREM PoolIsTaskPool == Spec => ImplementsTaskPool
<1>1. Spec => [][Pool!Next]_(Pool!vars)
  BY PoolInvAlways, StepPool, PTL DEF Spec
<1>2. Spec => Pool!Init
  BY InitPool, PTL DEF Spec
<1> QED
  BY <1>1, <1>2 DEF ImplementsTaskPool

-----------------------------------------------------------------------------
(* The worst slack queue.                                                  *)

WorstInv ==
  /\ WSTypeOK
  /\ pc # "idle" => exists
  /\ ~exists => invalid_tns = {} /\ queue = {} /\ worst_vertex = NoVertex
  /\ pc = "init" => /\ invalid_tns = {}
                    /\ queue \subseteq Known
                    /\ worst_vertex = NoVertex =>
                         /\ worst_slack = Infinity /\ slack_threshold = Infinity
                         /\ \A v \in Known : slack[v] = Infinity
  /\ QueueComplete
  /\ WorstInQueue
  /\ WorstSlackAnswer

LEMMA SlackType ==
  ASSUME WSTypeOK
  PROVE  /\ \A v \in Endpoints : slack[v] \in Int /\ slack[v] <= Infinity
         /\ worst_slack \in Int /\ worst_slack <= Infinity
         /\ slack_threshold \in Int /\ slack_threshold <= Infinity
         /\ Infinity \in Int
<1>1. \A s \in Slacks \cup {Infinity} : s \in Int /\ s <= Infinity
  BY WorstSlackAssumption
<1>2. \A v \in Endpoints : slack[v] \in Slacks \cup {Infinity}
  BY DEF WSTypeOK
<1> QED
  BY <1>1, <1>2, WorstSlackAssumption DEF WSTypeOK

LEMMA InitWorstInv == WSInit => WorstInv
BY WorstSlackAssumption DEF WSInit, WorstInv, WSTypeOK, QueueComplete, WorstInQueue,
   WorstSlackAnswer, Known, Filled

\* A slack that changes makes the queue say nothing of its endpoint.
LEMMA ChangeSlackInv ==
  ASSUME WorstInv, NEW v \in Endpoints, NEW s \in Slacks \cup {Infinity}, ChangeSlack(v, s)
  PROVE  WorstInv'
<1> USE DEF ChangeSlack, WorstInv, worstVars, queueVars
<1>1. WSTypeOK'
  BY DEF WSTypeOK
<1>2. QueueComplete'
  BY DEF QueueComplete, Known, Filled, WSTypeOK
<1>3. WorstInQueue'
  BY DEF WorstInQueue, Known, WSTypeOK
<1> QED
  BY <1>1, <1>2, <1>3 DEF WorstSlackAnswer

LEMMA DeletePathsInv ==
  ASSUME WorstInv, NEW v \in Endpoints, DeletePaths(v)
  PROVE  WorstInv'
<1> USE DEF DeletePaths, WorstInv, worstVars, queueVars
<1>1. WSTypeOK'
  BY DEF WSTypeOK
<1>2. QueueComplete'
  BY DEF QueueComplete, Known, Filled, WSTypeOK
<1>3. WorstInQueue'
  BY DEF WorstInQueue, Known, WSTypeOK
<1> QED
  BY <1>1, <1>2, <1>3 DEF WorstSlackAnswer

LEMMA UpdateWorstSlackInv ==
  ASSUME WorstInv, NEW v \in Endpoints, UpdateWorstSlack(v)
  PROVE  WorstInv'
<1> USE DEF UpdateWorstSlack, WorstInv, worstVars, queueVars
<1>1. WSTypeOK /\ pc = "update" /\ pc' = "update" /\ v \in invalid_tns
  OBVIOUS
<1>2. CASE queue = {}
  <2>1. WSTypeOK'
    BY <1>2 DEF WSTypeOK
  <2>2. QueueComplete' /\ WorstInQueue'
    BY <1>1, <1>2 DEF QueueComplete, WorstInQueue, Filled
  <2> QED
    BY <1>1, <2>1, <2>2 DEF WorstSlackAnswer
<1>3. CASE queue # {}
  <2>1. UpdateWorst(v) /\ UpdateQueue(v)
    BY <1>3
  <2>2. WSTypeOK'
    BY <2>1 DEF UpdateWorst, UpdateQueue, WSTypeOK
  <2>3. QueueComplete'
    BY <1>1, <1>3, <2>1 DEF QueueComplete, UpdateQueue, Known, Filled, WSTypeOK
  <2>4. WorstInQueue'
    <3>1. CASE worst_vertex # NoVertex /\ slack[v] < worst_slack
      <4>1. worst_vertex' = v /\ worst_slack' = slack[v]
        BY <2>1, <3>1 DEF UpdateWorst
      <4>2. slack[v] <= slack_threshold /\ slack[v] # Infinity
        BY <1>1, <3>1, SlackType DEF WorstInQueue
      <4>3. \A u \in Known' : slack[v] <= slack[u]
        BY <1>1, <3>1, SlackType DEF WorstInQueue, Known
      <4> QED
        BY <1>1, <2>1, <4>1, <4>2, <4>3 DEF WorstInQueue, UpdateQueue
    <3>2. CASE v # worst_vertex /\ ~(worst_vertex # NoVertex /\ slack[v] < worst_slack)
      <4>1. UNCHANGED worstVars
        BY <2>1, <3>2 DEF UpdateWorst
      <4>2. worst_vertex # NoVertex => worst_slack <= slack[v]
        BY <1>1, <3>2, SlackType
      <4> QED
        BY <1>1, <2>1, <3>2, <4>1, <4>2 DEF WorstInQueue, UpdateQueue, Known
    <3>3. CASE v = worst_vertex /\ ~(worst_vertex # NoVertex /\ slack[v] < worst_slack)
      BY <2>1, <3>3 DEF UpdateWorst, WorstInQueue
    <3> QED
      BY <3>1, <3>2, <3>3
  <2> QED
    BY <1>1, <2>2, <2>3, <2>4 DEF WorstSlackAnswer
<1> QED
  BY <1>2, <1>3

\* Pruning keeps exactly the visited endpoints up to the new threshold, for
\* the new threshold is the slack of one of them.
LEMMA SortQueueInv ==
  ASSUME WSTypeOK, NEW S \in SUBSET Endpoints, NEW vertices \in SUBSET S,
         \A u \in S : u \in vertices <=> slack[u] # Infinity /\ slack[u] <= slack_threshold,
         IsFiniteSet(Endpoints), SortQueue(vertices)
  PROVE  /\ queue' \subseteq S
         /\ \A u \in S : u \in queue' <=> slack[u] # Infinity /\ slack[u] <= slack_threshold'
         /\ worst_vertex' \in queue'
         /\ worst_slack' = slack[worst_vertex'] /\ worst_slack' <= slack_threshold'
         /\ \A u \in S : worst_slack' <= slack[u]
         /\ slack_threshold' \in Slacks
         /\ worst_slack' \in Slacks
         /\ max_queue_size' \in Nat
<1>1. PICK t \in {slack[u] : u \in vertices}, v \in vertices :
        /\ IsWorst(v, vertices)
        /\ slack_threshold' = t
        /\ queue' = Pruned(t, vertices)
        /\ max_queue_size' = 2 * Cardinality(Pruned(t, vertices))
        /\ worst_vertex' = v
        /\ worst_slack' = slack[v]
  BY DEF SortQueue
<1>2. \A u \in S : slack[u] \in Int /\ slack[u] <= Infinity
  BY SlackType
<1>3. slack_threshold \in Int /\ Infinity \in Int
  BY SlackType
<1>4. PICK w \in vertices : t = slack[w]
  BY <1>1
<1>5. t \in Int /\ t <= slack_threshold /\ t # Infinity
  BY <1>2, <1>4
<1>6. slack[v] <= t
  BY <1>1, <1>4 DEF IsWorst
<1>7. \A u \in S : u \in queue' <=> slack[u] # Infinity /\ slack[u] <= slack_threshold'
  BY <1>1, <1>2, <1>3, <1>5 DEF Pruned
<1>8. \A u \in S : slack[v] <= slack[u]
  BY <1>1, <1>2, <1>3, <1>5, <1>6, <1>7 DEF IsWorst, Pruned
<1>9. max_queue_size' \in Nat
  <2>1. Pruned(t, vertices) \in SUBSET Endpoints
    BY DEF Pruned
  <2>2. Cardinality(Pruned(t, vertices)) \in Nat
    BY <2>1, FS_Subset, FS_CardinalityType
  <2> QED
    BY <1>1, <2>2
<1>10. slack[v] # Infinity /\ slack[v] \in Slacks /\ t \in Slacks
  BY <1>1, <1>4 DEF WSTypeOK
<1>11. v \in queue'
  BY <1>1, <1>6 DEF Pruned
<1>12. queue' \subseteq S
  BY <1>1 DEF Pruned
<1> QED
  BY <1>1, <1>6, <1>7, <1>8, <1>9, <1>10, <1>11, <1>12

LEMMA InitVisitInv ==
  ASSUME WorstInv, NEW v \in Endpoints, InitVisit(v)
  PROVE  WorstInv'
<1> DEFINE S == Known \cup {v}
<1>1. /\ WSTypeOK /\ pc = "init" /\ pc' = "init" /\ exists /\ exists' /\ invalid_tns' = {}
      /\ Known = Endpoints \ todo /\ v \in todo /\ Known' = S
      /\ todo' \subseteq Endpoints
      /\ UNCHANGED <<slack, answer>>
  BY DEF WorstInv, InitVisit, Known, WSTypeOK
<1>2. /\ \A u \in Known : u \in queue <=> slack[u] # Infinity /\ slack[u] <= slack_threshold
      /\ queue \subseteq Known
      /\ worst_vertex = NoVertex =>
           /\ worst_slack = Infinity /\ slack_threshold = Infinity
           /\ \A u \in Known : slack[u] = Infinity
      /\ worst_vertex # NoVertex =>
           /\ worst_vertex \in queue
           /\ worst_slack <= slack_threshold
           /\ worst_slack = slack[worst_vertex]
           /\ \A u \in Known : worst_slack <= slack[u]
  BY <1>1 DEF WorstInv, QueueComplete, WorstInQueue, Filled
<1>3. S \in SUBSET Endpoints /\ v \in S /\ v \notin Known
  BY <1>1
<1> SUFFICES
      /\ queue' \subseteq S
      /\ \A u \in S : u \in queue' <=> slack[u] # Infinity /\ slack[u] <= slack_threshold'
      /\ worst_vertex' \in queue' \cup {NoVertex}
      /\ worst_vertex' = NoVertex =>
           /\ worst_slack' = Infinity /\ slack_threshold' = Infinity
           /\ \A u \in S : slack[u] = Infinity
      /\ worst_vertex' # NoVertex =>
           /\ worst_slack' <= slack_threshold'
           /\ worst_slack' = slack[worst_vertex']
           /\ \A u \in S : worst_slack' <= slack[u]
      /\ slack_threshold' \in Slacks \cup {Infinity}
      /\ worst_slack' \in Slacks \cup {Infinity}
      /\ max_queue_size' \in Nat
  BY <1>1, <1>3 DEF WorstInv, WSTypeOK, QueueComplete, WorstInQueue, WorstSlackAnswer
<1>4. \A u \in Endpoints : slack[u] \in Int /\ slack[u] <= Infinity
  BY <1>1, SlackType
<1>5. /\ slack_threshold \in Slacks \cup {Infinity} /\ slack_threshold \in Int
      /\ worst_slack \in Slacks \cup {Infinity} /\ worst_slack \in Int
      /\ max_queue_size \in Nat /\ Infinity \in Int /\ slack_threshold <= Infinity
      /\ slack[v] \in Slacks \cup {Infinity}
      /\ NoVertex \notin Endpoints
  BY <1>1, SlackType, WorstSlackAssumption DEF WSTypeOK
<1>6. CASE SkipUnconstrained(v)
  <2>1. slack[v] = Infinity /\ UNCHANGED <<worstVars, queueVars>>
    BY <1>6 DEF SkipUnconstrained
  <2> HIDE DEF S
  <2>2. v \notin queue /\ S = Known \cup {v}
    BY <1>2, <1>1 DEF S
  <2> QED
    BY <1>2, <1>3, <1>4, <1>5, <2>1, <2>2 DEF worstVars, queueVars
<1>7. CASE InsertEndpoint(v)
  <2> DEFINE vertices == IF slack[v] <= slack_threshold THEN queue \cup {v} ELSE queue
  <2>1. slack[v] # Infinity
    BY <1>7 DEF InsertEndpoint
  <2>2. vertices \in SUBSET S
    BY <1>2
  <2>3. \A u \in S : u \in vertices <=> slack[u] # Infinity /\ slack[u] <= slack_threshold
    BY <1>1, <1>2, <2>1
  <2>4. CASE Cardinality(vertices) >= max_queue_size
    <3>1. SortQueue(vertices)
      BY <1>7, <2>4 DEF InsertEndpoint
    <3> HIDE DEF vertices, S
    <3>2. /\ queue' \subseteq S
          /\ \A u \in S : u \in queue' <=> slack[u] # Infinity /\ slack[u] <= slack_threshold'
          /\ worst_vertex' \in queue'
          /\ worst_slack' = slack[worst_vertex'] /\ worst_slack' <= slack_threshold'
          /\ \A u \in S : worst_slack' <= slack[u]
          /\ slack_threshold' \in Slacks
          /\ worst_slack' \in Slacks
          /\ max_queue_size' \in Nat
      BY <1>1, <1>3, <2>2, <2>3, <3>1, SortQueueInv, WorstSlackAssumption
    <3> QED
      BY <1>3, <1>5, <3>2
  <2>5. CASE ~(Cardinality(vertices) >= max_queue_size)
    <3>1. /\ queue' = vertices
          /\ worst_vertex' = IF slack[v] < worst_slack THEN v ELSE worst_vertex
          /\ worst_slack' = IF slack[v] < worst_slack THEN slack[v] ELSE worst_slack
          /\ UNCHANGED <<slack_threshold, max_queue_size>>
      BY <1>7, <2>5 DEF InsertEndpoint
    <3>2. CASE slack[v] < worst_slack
      <4>1. slack[v] <= slack_threshold
        BY <1>2, <1>3, <1>4, <1>5, <3>2
      <4>2. \A u \in S : slack[v] <= slack[u]
        BY <1>2, <1>3, <1>4, <1>5, <3>2
      <4> QED
        BY <1>3, <1>5, <2>2, <2>3, <3>1, <3>2, <4>1, <4>2
    <3>3. CASE ~(slack[v] < worst_slack)
      <4>1. worst_vertex # NoVertex
        BY <1>2, <1>3, <1>4, <1>5, <2>1, <3>3
      <4>2. worst_slack <= slack[v]
        BY <1>3, <1>4, <1>5, <3>3
      <4> QED
        BY <1>2, <1>5, <2>2, <2>3, <3>1, <3>3, <4>1, <4>2
    <3> QED
      BY <3>2, <3>3
  <2> QED
    BY <2>4, <2>5
<1> QED
  BY <1>6, <1>7 DEF InitVisit

\* The least slack of a complete queue is the least of all endpoints.
LEMMA FindWorstInQueueInv ==
  ASSUME WorstInv, FindWorstInQueue
  PROVE  WorstInv'
<1>1. /\ WSTypeOK /\ pc = "update" /\ pc' = "idle" /\ exists' = exists /\ exists
      /\ invalid_tns = {} /\ invalid_tns' = {} /\ Known = Endpoints /\ Known' = Endpoints
      /\ Filled /\ UNCHANGED <<slack, slack_threshold, queue, max_queue_size, todo>>
  BY DEF WorstInv, FindWorstInQueue, Known, Filled, queueVars
<1>2. PICK v \in queue : /\ IsWorst(v, queue) /\ worst_vertex' = v
                         /\ worst_slack' = slack[v] /\ answer' = <<slack[v], v>>
  BY DEF FindWorstInQueue
<1>3. \A u \in Endpoints : u \in queue <=> slack[u] # Infinity /\ slack[u] <= slack_threshold
  BY <1>1 DEF WorstInv, QueueComplete
<1>4. v \in Endpoints
  BY <1>1 DEF WSTypeOK
<1>5. \A u \in Endpoints : slack[v] <= slack[u]
  BY <1>1, <1>2, <1>3, <1>4, SlackType DEF IsWorst
<1>6. WSTypeOK'
  BY <1>1, <1>2, <1>4 DEF WSTypeOK
<1>7. QueueComplete'
  BY <1>1, <1>3 DEF QueueComplete
<1>8. WorstInQueue'
  BY <1>1, <1>2, <1>3, <1>4, <1>5 DEF WorstInQueue
<1>9. WorstSlackAnswer'
  BY <1>1, <1>2, <1>4, <1>5, WorstSlackAssumption DEF WorstSlackAnswer
<1> QED
  BY <1>1, <1>6, <1>7, <1>8, <1>9 DEF WorstInv

LEMMA StepWorstInv == WorstInv /\ [WSNext]_wsVars => WorstInv'
<1> SUFFICES ASSUME WorstInv, [WSNext]_wsVars PROVE WorstInv'
  OBVIOUS
<1> USE DEF worstVars, queueVars
<1>1. ASSUME NEW v \in Endpoints, NEW s \in Slacks \cup {Infinity}, ChangeSlack(v, s)
      PROVE  WorstInv'
  BY <1>1, ChangeSlackInv
<1>2. ASSUME NEW v \in Endpoints, DeletePaths(v)
      PROVE  WorstInv'
  BY <1>2, DeletePathsInv
<1>3. ASSUME NEW v \in Endpoints, UpdateWorstSlack(v)
      PROVE  WorstInv'
  BY <1>3, UpdateWorstSlackInv
<1>4. ASSUME NEW v \in Endpoints, InitVisit(v)
      PROVE  WorstInv'
  BY <1>4, InitVisitInv
<1>5. CASE ClearWorstSlack
  BY <1>5, WorstSlackAssumption DEF ClearWorstSlack, NewQueue, WorstInv, WSTypeOK,
     QueueComplete, WorstInQueue, WorstSlackAnswer, Filled
<1>6. CASE StartQuery
  BY <1>6 DEF StartQuery, WorstInv, WSTypeOK, QueueComplete, WorstInQueue,
     WorstSlackAnswer, Filled, Known
<1>7. CASE ReturnKnown
  <2>1. Known = Endpoints /\ Known' = Endpoints /\ worst_vertex \in Endpoints
    BY <1>7 DEF ReturnKnown, WorstInv, WSTypeOK, Known
  <2>2. WorstSlackAnswer'
    BY <1>7, <2>1 DEF ReturnKnown, WorstInv, WorstInQueue, WorstSlackAnswer
  <2> QED
    BY <1>7, <2>1, <2>2 DEF ReturnKnown, WorstInv, WSTypeOK, QueueComplete, WorstInQueue,
       Filled
<1>8. CASE FindWorstInQueue
  BY <1>8, FindWorstInQueueInv
<1>9. CASE InitQueue
  <2>1. Known' = {} /\ queue' = {} /\ invalid_tns' = {}
    BY <1>9 DEF InitQueue, Known
  <2> QED
    BY <1>9, <2>1, WorstSlackAssumption DEF InitQueue, WorstInv, WSTypeOK, QueueComplete,
       WorstInQueue, WorstSlackAnswer
<1>10. CASE InitQueueEnd
  <2>1. Known = Endpoints /\ Known' = Endpoints
    BY <1>10 DEF InitQueueEnd, WorstInv, Known
  <2>2. WorstSlackAnswer'
    BY <1>10, <2>1, SlackType DEF InitQueueEnd, WorstInv, WorstInQueue, WorstSlackAnswer
  <2> QED
    BY <1>10, <2>1, <2>2 DEF InitQueueEnd, WorstInv, WSTypeOK, QueueComplete, WorstInQueue,
       Filled
<1>11. CASE UNCHANGED wsVars
  BY <1>11 DEF wsVars, WorstInv, WSTypeOK, QueueComplete, WorstInQueue, WorstSlackAnswer,
     Filled, Known
<1> QED
  BY <1>1, <1>2, <1>3, <1>4, <1>5, <1>6, <1>7, <1>8, <1>9, <1>10, <1>11 DEF WSNext

LEMMA WorstInvAlways == WSSpec => []WorstInv
<1> QED
  BY InitWorstInv, StepWorstInv, PTL DEF WSSpec

\* The types hold for any endpoints, slacks and queue sizes.
THEOREM WorstSlackTypeCorrect == WSSpec => []WSTypeOK
<1>1. WorstInv => WSTypeOK
  BY DEF WorstInv
<1> QED
  BY <1>1, WorstInvAlways, PTL

\* The queue, when it is not empty, holds exactly the endpoints whose slack is
\* no more than the threshold, whatever changed, was deleted or was pruned.
THEOREM QueueIsComplete == WSSpec => []QueueComplete
<1>1. WorstInv => QueueComplete
  BY DEF WorstInv
<1> QED
  BY <1>1, WorstInvAlways, PTL

\* A known worst vertex is in the queue, and no endpoint that the queue speaks
\* about is worse, after any updates and deletions.
THEOREM KnownWorstIsWorst == WSSpec => []WorstInQueue
<1>1. WorstInv => WorstInQueue
  BY DEF WorstInv
<1> QED
  BY <1>1, WorstInvAlways, PTL

\* Every answer is the worst slack of all endpoints and an endpoint with it.
THEOREM AnswerIsWorst == WSSpec => []WorstSlackAnswer
<1>1. WorstInv => WorstSlackAnswer
  BY DEF WorstInv
<1> QED
  BY <1>1, WorstInvAlways, PTL

=============================================================================
