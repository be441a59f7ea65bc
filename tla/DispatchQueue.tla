--------------------------- MODULE DispatchQueue ---------------------------
(***************************************************************************)
(* The thread pool of the parallel searches (util/DispatchQueue.cc and     *)
(* DynamicLatch of DispatchQueue.hh).                                      *)
(*                                                                         *)
(* One caller dispatches tasks, waits for them (finishTasks) and resizes   *)
(* the pool (setThreadCount).  The state under lock_ is q and quit, and    *)
(* every section of code that holds lock_ is one action here.  The latch   *)
(* is an atomic counter outside the lock, so each access of it is an       *)
(* action of its own.  Waits may wake up spuriously.                       *)
(*                                                                         *)
(* A definition Variant_X is a slip in the definition that follows it,     *)
(* used only to show that a property depends on getting X right.           *)
(***************************************************************************)
EXTENDS Integers, Sequences, FiniteSets

CONSTANTS
  Threads,          \* bound: threads the pool may have
  InitThreads,      \* threads of the new pool
  Tasks,            \* tasks the caller dispatches, again once they are done
  NoTask

ASSUME DispatchAssumption ==
  /\ IsFiniteSet(Threads)
  /\ InitThreads \subseteq Threads
  /\ InitThreads # {}
  /\ NoTask \notin Tasks

VARIABLES
  q,                \* q_: dispatched tasks, oldest first
  quit,             \* quit_
  count,            \* count_ of pending_task_count_latch_
  thread,           \* thread -> where it is in dispatch_thread_handler
  op,               \* thread -> task it has taken, or NoTask
  caller,           \* where the caller is
  current,          \* value of the latch the caller waits on
  resize            \* threads of the pool after setThreadCount

threadVars == <<thread, op>>
callerVars == <<caller, current, resize>>
vars == <<q, quit, count, threadVars, callerVars>>

Init ==
  /\ q = <<>> /\ quit = FALSE /\ count = 0
  /\ thread = [w \in Threads |-> IF w \in InitThreads THEN "loop" ELSE "none"]
  /\ op = [w \in Threads |-> NoTask]
  /\ caller = "idle" /\ current = 0 /\ resize = InitThreads

Waiting == {w \in Threads : thread[w] = "wait"}
InQueue == {q[i] : i \in DOMAIN q}
Running == {op[w] : w \in Threads} \ {NoTask}

-----------------------------------------------------------------------------
(* A worker: dispatch_thread_handler.                                      *)

At(w, from, to) == thread[w] = from /\ thread' = [thread EXCEPT ![w] = to]

\* With lock_ held: no task and no quit signal, so the thread waits on cv_.
WaitForWork(w) ==
  /\ At(w, "loop", "wait")
  /\ ~quit /\ q = <<>>
  /\ UNCHANGED <<q, quit, count, op, callerVars>>

\* With lock_ held: the oldest task is taken.
TakeTask(w) ==
  /\ At(w, "loop", "run")
  /\ ~quit /\ q # <<>>
  /\ op' = [op EXCEPT ![w] = Head(q)]
  /\ q' = Tail(q)
  /\ UNCHANGED <<quit, count, callerVars>>

\* With lock_ held: the quit signal ends the loop, whatever is queued.
Quit(w) ==
  /\ At(w, "loop", "exit")
  /\ quit
  /\ UNCHANGED <<q, quit, count, op, callerVars>>

SpuriousWakeup(w) ==
  /\ At(w, "wait", "loop")
  /\ UNCHANGED <<q, quit, count, op, callerVars>>

\* The task has run; DynamicLatch::countDown subtracts ...
CountDown(w) ==
  /\ At(w, "run", IF count = 1 THEN "notify" ELSE "loop")
  /\ count' = count - 1
  /\ op' = [op EXCEPT ![w] = NoTask]
  /\ UNCHANGED <<q, quit, callerVars>>

\* ... and then wakes the caller if nothing was left.
Variant_NotifyNobody(w) ==
  /\ At(w, "notify", "loop")
  /\ UNCHANGED <<q, quit, count, op, callerVars>>
NotifyLatch(w) ==
  /\ At(w, "notify", "loop")
  /\ caller' = IF caller = "asleep" THEN "compare" ELSE caller
  /\ UNCHANGED <<q, quit, count, op, current, resize>>

WorkerStep(w) ==
  \/ WaitForWork(w) \/ TakeTask(w) \/ Quit(w)
  \/ CountDown(w) \/ NotifyLatch(w)

-----------------------------------------------------------------------------
(* The caller.                                                             *)

Call(from, to) == caller = from /\ caller' = to

\* dispatch: the push and countUp hold lock_, the notification does not.
Variant_DispatchUncounted(t) ==
  /\ Call("idle", "notify_one")
  /\ t \notin InQueue \cup Running
  /\ q' = Append(q, t)
  /\ UNCHANGED <<quit, count, threadVars, current, resize>>
Dispatch(t) ==
  /\ Call("idle", "notify_one")
  /\ t \notin InQueue \cup Running
  /\ q' = Append(q, t)
  /\ count' = count + 1
  /\ UNCHANGED <<quit, threadVars, current, resize>>
Variant_NotifyNone ==
  /\ Call("notify_one", "idle")
  /\ UNCHANGED <<q, quit, count, threadVars, current, resize>>
NotifyOne ==
  /\ Call("notify_one", "idle")
  /\ IF Waiting = {} THEN UNCHANGED thread
     ELSE \E w \in Waiting : thread' = [thread EXCEPT ![w] = "loop"]
  /\ UNCHANGED <<q, quit, count, op, current, resize>>

\* finishTasks: DynamicLatch::wait.
FinishTasks ==
  /\ Call("idle", "load")
  /\ UNCHANGED <<q, quit, count, threadVars, current, resize>>
Variant_LoadCount ==
  /\ Call("load", IF count <= 1 THEN "idle" ELSE "compare")
  /\ current' = count
  /\ UNCHANGED <<q, quit, count, threadVars, resize>>
LoadCount ==
  /\ Call("load", IF count = 0 THEN "idle" ELSE "compare")
  /\ current' = IF count = 0 THEN 0 ELSE count
  /\ UNCHANGED <<q, quit, count, threadVars, resize>>
\* count_.wait(current): sleep while the latch has the value that was read.
CompareCount ==
  /\ Call("compare", IF count = current THEN "asleep" ELSE "load")
  /\ UNCHANGED <<q, quit, count, threadVars, current, resize>>
SpuriousLatchWakeup ==
  /\ Call("asleep", "compare")
  /\ UNCHANGED <<q, quit, count, threadVars, current, resize>>

\* setThreadCount: terminateThreads, then threads for the same queue.
SetThreadCount(S) ==
  /\ Call("idle", "notify_all")
  /\ quit' = TRUE
  /\ resize' = S
  /\ UNCHANGED <<q, count, threadVars, current>>
Variant_NotifyOne ==
  /\ Call("notify_all", "join")
  /\ \E S \in SUBSET Waiting :
       /\ Waiting # {} => Cardinality(S) = 1
       /\ thread' = [w \in Threads |-> IF w \in S THEN "loop" ELSE thread[w]]
  /\ UNCHANGED <<q, quit, count, op, current, resize>>
NotifyAll ==
  /\ Call("notify_all", "join")
  /\ thread' = [w \in Threads |-> IF thread[w] = "wait" THEN "loop" ELSE thread[w]]
  /\ UNCHANGED <<q, quit, count, op, current, resize>>
Variant_JoinAndClear ==
  /\ Call("join", "idle")
  /\ \A w \in Threads : thread[w] \in {"exit", "none"}
  /\ quit' = FALSE
  /\ thread' = [w \in Threads |-> IF w \in resize THEN "loop" ELSE "none"]
  /\ q' = <<>>
  /\ UNCHANGED <<count, op, current, resize>>
JoinThreads ==
  /\ Call("join", "idle")
  /\ \A w \in Threads : thread[w] \in {"exit", "none"}
  /\ quit' = FALSE
  /\ thread' = [w \in Threads |-> IF w \in resize THEN "loop" ELSE "none"]
  /\ UNCHANGED <<q, count, op, current, resize>>

CallerStep == NotifyOne \/ LoadCount \/ CompareCount \/ NotifyAll \/ JoinThreads

Next ==
  \/ \E w \in Threads : WorkerStep(w) \/ SpuriousWakeup(w)
  \/ CallerStep \/ SpuriousLatchWakeup
  \/ \E t \in Tasks : Dispatch(t)
  \/ FinishTasks
  \/ \E S \in (SUBSET Threads) \ {{}} : SetThreadCount(S)

\* Every thread that is not blocked runs; a wait need never wake up by itself
\* and the caller need never call.
Spec ==
  /\ Init /\ [][Next]_vars
  /\ \A w \in Threads : WF_vars(WorkerStep(w))
  /\ WF_vars(CallerStep)

-----------------------------------------------------------------------------
TypeOK ==
  /\ q \in Seq(Tasks)
  /\ quit \in BOOLEAN
  /\ count \in Nat
  /\ thread \in [Threads -> {"none", "loop", "wait", "run", "notify", "exit"}]
  /\ op \in [Threads -> Tasks \cup {NoTask}]
  /\ caller \in {"idle", "notify_one", "load", "compare", "asleep", "notify_all", "join"}
  /\ current \in Nat
  /\ resize \in (SUBSET Threads) \ {{}}

\* The latch counts the tasks that are queued or taken, through every resize
\* of the pool: so finishTasks waits for all of them and for no more.
LatchCounts == count = Len(q) + Cardinality({w \in Threads : op[w] # NoTask})

\* While tasks are queued and nobody was asked to stop, the caller is about to
\* notify or a thread is awake: a notification is never lost.
SomeoneAwake ==
  q # <<>> /\ caller \in {"idle", "load", "compare", "asleep"} =>
    \E w \in Threads : thread[w] \in {"loop", "run", "notify"}

\* The pool implements TaskPool: each task is run once for each dispatch, none
\* is lost by a resize, and finishTasks returns when none is left.
Pool == INSTANCE TaskPool WITH
          pending <- InQueue \cup Running,
          finishing <- caller \in {"load", "compare", "asleep"}
ImplementsTaskPool == Pool!Init /\ [][Pool!Next]_(Pool!vars)

\* finishTasks and setThreadCount return.
FinishTasksReturns == caller = "load" ~> caller = "idle"
SetThreadCountReturns == caller = "notify_all" ~> caller = "idle"
=============================================================================
