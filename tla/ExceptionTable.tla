---------------------------- MODULE ExceptionTable ----------------------------
(***************************************************************************)
(* What the exceptions of a design promise, whatever becomes of the ones   *)
(* the commands gave (Sdc::addException, resetPath, removeClock): each     *)
(* way from a -from over -thrus to a -to has the value that the last       *)
(* command naming it gave, until a reset_path names it or a clock in it    *)
(* goes.  A command is seen to take effect at once, while it runs on.      *)
(***************************************************************************)
CONSTANTS Keys, Commands, Resets, Clocks,
          Names(_, _),      \* whether a command or reset names a key
          ValueOf(_),       \* of a command
          HasClock(_, _)    \* whether a clock is in a key

VARIABLES table,            \* [Keys -> set of values], none or one
          busy              \* whether a command is running

vars == <<table, busy>>

Init == table = [k \in Keys |-> {}] /\ busy = FALSE

Set(c) == /\ ~busy /\ busy' = TRUE
          /\ table' = [k \in Keys |-> IF Names(c, k) THEN {ValueOf(c)} ELSE table[k]]
Reset(r) == /\ ~busy /\ busy' = TRUE
            /\ table' = [k \in Keys |-> IF Names(r, k) THEN {} ELSE table[k]]
RemoveClock(clk) == /\ ~busy /\ UNCHANGED busy
                    /\ table' = [k \in Keys |-> IF HasClock(clk, k) THEN {} ELSE table[k]]
Return == busy /\ busy' = FALSE /\ UNCHANGED table

Next == \/ \E c \in Commands : Set(c)
        \/ \E r \in Resets : Reset(r)
        \/ \E clk \in Clocks : RemoveClock(clk)
        \/ Return

Spec == Init /\ [][Next]_vars
=============================================================================
