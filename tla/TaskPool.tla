------------------------------ MODULE TaskPool ------------------------------
(***************************************************************************)
(* What a DispatchQueue promises its caller: every dispatched task is run  *)
(* once, and finishTasks returns when no task is left.                     *)
(***************************************************************************)
CONSTANTS
  Tasks

VARIABLES
  pending,          \* tasks dispatched and not completed
  finishing         \* the caller is in finishTasks

vars == <<pending, finishing>>

Init == pending = {} /\ finishing = FALSE

Dispatch(t) ==
  /\ ~finishing
  /\ t \notin pending
  /\ pending' = pending \cup {t}
  /\ UNCHANGED finishing
Complete(t) ==
  /\ t \in pending
  /\ pending' = pending \ {t}
  /\ UNCHANGED finishing
BeginFinish == ~finishing /\ finishing' = TRUE /\ UNCHANGED pending
EndFinish == finishing /\ pending = {} /\ finishing' = FALSE /\ UNCHANGED pending

Next ==
  \/ \E t \in Tasks : Dispatch(t) \/ Complete(t)
  \/ BeginFinish \/ EndFinish

Spec == Init /\ [][Next]_vars
=============================================================================
