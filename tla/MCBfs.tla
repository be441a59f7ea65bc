------------------------------- MODULE MCBfs -------------------------------
(***************************************************************************)
(* Two vertices a and b of one level that queue the same vertex c, which   *)
(* queues d; d also follows b directly.  One to three threads.  Levels may *)
(* change while vertices are queued.                                       *)
(***************************************************************************)
EXTENDS Bfs

MCVertices == {"a", "b", "c", "d"}
MCAdjacent == [v \in MCVertices |->
                 CASE v = "a" -> {"c"}
                   [] v = "b" -> {"c", "d"}
                   [] v = "c" -> {"d"}
                   [] v = "d" -> {}]
MCInitLevel == [v \in MCVertices |->
                  CASE v \in {"a", "b"} -> 0 [] v = "c" -> 1 [] v = "d" -> 2]
=============================================================================
