-------------------------- MODULE MCDispatchQueue --------------------------
(***************************************************************************)
(* Two threads, one or both in the pool, and three tasks: more            *)
(* tasks than threads, so that some wait in the queue during a resize.     *)
(***************************************************************************)
EXTENDS DispatchQueue

MCThreads == {"w1", "w2"}
MCTasks == {"t1", "t2", "t3"}
=============================================================================
