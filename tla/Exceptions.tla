------------------------------ MODULE Exceptions ------------------------------
(***************************************************************************)
(* The timing exceptions of a mode (sdc/Sdc.cc, sdc/ExceptionPath.cc):     *)
(* false paths, multicycle paths, path delays and path margins.  A new one *)
(* is split where it mixes pins and clocks, takes its paths out of those   *)
(* it overrides, and merges with any that differ from it in one point, as  *)
(* long as that goes.  reset_path goes through the exceptions, breaks up   *)
(* those it matches and adds again what it does not name.                  *)
(*                                                                         *)
(* An exception is a record; its points, -from, each -thru and -to, are    *)
(* sets of pins and clocks, and {Absent} stands for a point it does not have. *)
(* Its address is an id.  Exceptions are kept in sets by address, which    *)
(* the allocator chooses: a loop over one is in any order.  The search of  *)
(* a path (search/Search.cc) is modelled at max delay, as what the states  *)
(* in its tags end with.  Left out: rise and fall, instances and nets as   *)
(* points, comments, path groups, filters and loops, internal end points,  *)
(* and pins and instances deleted under an exception.                      *)
(***************************************************************************)
EXTENDS Integers, FiniteSets, SequencesExt

CONSTANTS
  Ids,                   \* addresses: as many exceptions as exist at once
  Pins, Clocks, Absent,
  Commands,              \* records [type, min_max, value, pts]
  Resets,                \* records [min_max, pts]
  RemovableClocks,
  Paths                  \* records [clk, pins, end_clk]: pins that a search goes over

NoException == [type |-> "none"]
NoReset == [pts |-> <<>>]
End == "end"             \* exceptions_.end()
NoId == "none"

\* Exceptions: points from -from to -to, a missing one {Absent}.
Points == {{Absent}} \cup SUBSET (Pins \cup Clocks)
ExceptionRecords ==
  {e \in [type : {"false_path", "path_delay", "multi_cycle", "path_margin"},
          min_max : {"min", "max", "all"}, value : Int, pts : Seq(Points)] : Len(e.pts) >= 2}

ASSUME ExceptionsAssumption ==
  /\ Absent \notin Pins \cup Clocks
  /\ Commands \subseteq ExceptionRecords
  /\ NoReset \notin Resets
  /\ {End, NoId} \cap Ids = {}

VARIABLES
  exception,             \* [Ids -> record or NoException]: exceptions_
  first_pts,             \* first_{from,thru,to}_{pin,clk}_exceptions_
  merge_hash,            \* exception_merge_hash_
  todo,                  \* stack of what the running command has still to do
  reset,                 \* the reset_path that is running, or NoReset
  itr, ahead,            \* its iterator, and what is beyond it
  clocks                 \* those that exist

tables == <<exception, first_pts, merge_hash>>
vars == <<tables, todo, reset, itr, ahead, clocks>>

-----------------------------------------------------------------------------
(* Exceptions, as values.                                                  *)

HasPins(pt) == pt \cap Pins # {}
HasClocks(pt) == pt \cap Clocks # {}
HasThrus(e) == Len(e.pts) > 2
From(e) == e.pts[1]
To(e) == Last(e.pts)

TypePriority(e) == CASE e.type = "false_path" -> 4000 [] e.type = "path_delay" -> 3000
                     [] e.type = "multi_cycle" -> 2000 [] e.type = "path_margin" -> 500
\* fromThruToPriority.
Bit(b, n) == IF b THEN n ELSE 0
Priority(e) == TypePriority(e) + Bit(HasPins(From(e)), 64) + Bit(HasPins(To(e)), 32)
                 + Bit(HasThrus(e), 16) + Bit(HasClocks(From(e)), 8) + Bit(HasClocks(To(e)), 4)

Overrides(e, f) == e.type = f.type /\ Priority(e) = Priority(f) /\ e.min_max = f.min_max
Mergeable(e, f) ==
  /\ Overrides(e, f)
  /\ CASE e.type = "false_path" -> TRUE
       [] e.type = "multi_cycle" -> e.value = f.value
       [] e.type = "path_delay" -> e.value = f.value /\ To(e) = {Absent} /\ To(f) = {Absent}
       [] e.type = "path_margin" -> FALSE
Intersects(pts1, pts2) == /\ Len(pts1) = Len(pts2)
                          /\ \A i \in DOMAIN pts1 : pts1[i] \cap pts2[i] # {}

\* ExceptionPath::resetMatch: only the points of the reset need match.
ThrusOf(pts) == SubSeq(pts, 2, Len(pts) - 1)
ThrusIntersect(s, t) == \A i \in DOMAIN s \cap DOMAIN t : s[i] \cap t[i] # {}
ResetMatch(r, e) ==
  /\ r.pts[1] # {Absent} => r.pts[1] \cap From(e) # {}
  /\ Len(r.pts) > 2 => HasThrus(e) /\ ThrusIntersect(ThrusOf(e.pts), ThrusOf(r.pts))
  /\ Last(r.pts) # {Absent} => Last(r.pts) \cap To(e) # {}
  /\ r.min_max \in {"all", e.min_max}

WithPt(e, i, pt) == [e EXCEPT !.pts[i] = pt]

\* addException and addException1: one exception for the pins and one for the
\* clocks of its -from and -to.  Their priorities differ, so their order does
\* not matter.
Kinds(pt) == IF HasPins(pt) /\ HasClocks(pt) THEN {pt \cap Pins, pt \cap Clocks} ELSE {pt}
Split(e) == {WithPt(WithPt(e, 1, from), Len(e.pts), to) : from \in Kinds(From(e)),
                                                          to \in Kinds(To(e))}

\* expandExceptionExcluding: for each point, e with what excluding lacks of it.
\* The other thrus of a thru are copies of that thru.
Excluding(e, i, pt) ==
  [e EXCEPT !.pts = [j \in DOMAIN @ |-> IF j = i THEN pt
                                        ELSE IF {1, Len(@)} \cap {i, j} = {} THEN @[i] ELSE @[j]]]
Variant_ExpandExcluding(e, excluding) ==
  {Excluding(e, i, e.pts[i] \ excluding.pts[i]) :
     i \in {j \in 1..(Len(e.pts) - 1) : e.pts[j] \ excluding.pts[j] # {}}}
ExpandExcluding(e, excluding) ==
  {Excluding(e, i, e.pts[i] \ excluding.pts[i]) :
     i \in {j \in DOMAIN e.pts : e.pts[j] \ excluding.pts[j] # {}}}

\* expandException: one exception for each choice of objects.
Ways(e) == {w \in [DOMAIN e.pts -> UNION Range(e.pts)] : \A i \in DOMAIN w : w[i] \in e.pts[i]}
Expand(e) == {[e EXCEPT !.pts = [i \in DOMAIN w |-> {w[i]}]] : w \in Ways(e)}

-----------------------------------------------------------------------------
(* The tables.                                                             *)

Live == {i \in Ids : exception[i] # NoException}

\* recordExceptionFirstPts: the point that starts the exception.
FirstPt(e) == IF From(e) # {Absent} THEN "from" ELSE IF HasThrus(e) THEN "thru" ELSE "to"
FirstObjects(e) == CASE FirstPt(e) = "from" -> From(e) [] FirstPt(e) = "thru" -> e.pts[2]
                     [] FirstPt(e) = "to" -> To(e)
FirstPts(i, e) == {<<FirstPt(e), object, i>> : object \in FirstObjects(e)}
\* recordMergeHashes: under its points but one, for each that it has.  Hashes
\* do not collide.
MergeHashes(i, e) ==
  {<<Priority(e), j, WithPt(e, j, {}).pts, i>> : j \in {k \in DOMAIN e.pts : e.pts[k] # {Absent}}}

Recorded(i, e) == /\ exception' = [exception EXCEPT ![i] = e]
                  /\ first_pts' = first_pts \cup FirstPts(i, e)
                  /\ merge_hash' = merge_hash \cup MergeHashes(i, e)

Variant_Unrecorded(i) == FirstPts(i, exception[i])
Unrecorded(i) == FirstPts(i, exception[i]) \cup MergeHashes(i, exception[i])
\* deleteException of each of S.
Deleted(S) ==
  LET gone == UNION {Unrecorded(i) : i \in S}
  IN  /\ exception' = [i \in Ids |-> IF i \in S THEN NoException ELSE exception[i]]
      /\ first_pts' = first_pts \ gone
      /\ merge_hash' = merge_hash \ gone
      /\ ahead' = ahead \ S

-----------------------------------------------------------------------------
(* addException, by the frames of its calls.                               *)

Idle == todo = <<>> /\ reset = NoReset
Top == Head(todo)
Calling(op) == todo # <<>> /\ Top.op = op

\* makeFalsePath, makeMulticyclePath, makePathDelay, makePathMargin.
MakeException(c) ==
  /\ Idle
  /\ \A i \in DOMAIN c.pts : c.pts[i] \cap Clocks \subseteq clocks
  /\ todo' = <<[op |-> "add", exceptions |-> Split(c)]>>
  /\ UNCHANGED <<tables, reset, itr, ahead, clocks>>

\* findMatchingExceptions, by the objects of the first point.
Matches(e) ==
  {i \in Live : /\ \E object \in FirstObjects(e) : <<FirstPt(e), object, i>> \in first_pts
                /\ Overrides(exception[i], e) /\ Intersects(exception[i].pts, e.pts)}
Overriding(e) == e.type \in {"multi_cycle", "path_delay", "path_margin"}

\* The next exception to add: addException2 up to recordException, with
\* deleteMatchingExceptions.
AddException(e) ==
  LET matches == IF Overriding(e) THEN Matches(e) ELSE {}
      expansions == UNION {ExpandExcluding(exception[i], e) : i \in matches}
  IN  /\ Calling("add")
      /\ Deleted(matches)
      /\ todo' = <<[op |-> "add", exceptions |-> expansions],
                   [op |-> "record", exception |-> e],
                   [Top EXCEPT !.exceptions = @ \ {e}]>> \o Tail(todo)
      /\ UNCHANGED <<reset, itr, clocks>>

\* recordException, at any free address: before or beyond the iterator.
RecordException ==
  /\ Calling("record") /\ Live # Ids
  /\ \E i \in Ids \ Live :
       /\ Recorded(i, Top.exception)
       /\ todo' = <<[op |-> "merge", id |-> i]>> \o Tail(todo)
       /\ \/ UNCHANGED ahead
          \/ itr \in Live /\ ahead' = ahead \cup {i}
  /\ UNCHANGED <<reset, itr, clocks>>

\* What findMergeMatch may merge i into, over the point j, and what it records
\* again of m, merged.
Variant_MergedFirstPts(m, merged, j) == {}
MergedFirstPts(m, merged, j) ==
  IF \A k \in 1..(j - 1) : merged.pts[k] = {Absent} THEN FirstPts(m, merged) ELSE {}
MergeMatches(i, j) ==
  {m \in Live \ {i} : /\ \E h \in MergeHashes(i, exception[i]) :
                            h[2] = j /\ <<h[1], h[2], h[3], m>> \in merge_hash
                      /\ Mergeable(exception[i], exception[m])
                      /\ WithPt(exception[i], j, {}).pts = WithPt(exception[m], j, {}).pts}
MergePts(i) == {j \in DOMAIN exception[i].pts : MergeMatches(i, j) # {}}

\* mergeException, one findMergeMatch: into the first found, at the first point.
Merge ==
  /\ Calling("merge")
  /\ LET i == Top.id
         j == CHOOSE k \in MergePts(i) : \A l \in MergePts(i) : k <= l
     IN  IF MergePts(i) = {}
         THEN todo' = Tail(todo) /\ UNCHANGED <<tables, ahead>>
         ELSE \E m \in MergeMatches(i, j) :
                LET merged == WithPt(exception[m], j, exception[m].pts[j] \cup exception[i].pts[j])
                    gone == Unrecorded(i) \cup MergeHashes(m, exception[m])
                IN  /\ exception' = [exception EXCEPT ![i] = NoException, ![m] = merged]
                    /\ first_pts' = (first_pts \ gone) \cup MergedFirstPts(m, merged, j)
                    /\ merge_hash' = (merge_hash \ gone) \cup MergeHashes(m, merged)
                    /\ ahead' = ahead \ {i}
                    /\ todo' = <<[op |-> "merge", id |-> m]>> \o Tail(todo)
  /\ UNCHANGED <<reset, itr, clocks>>

AddReturns ==
  /\ Calling("add") /\ Top.exceptions = {}
  /\ todo' = Tail(todo)
  /\ UNCHANGED <<tables, reset, itr, ahead, clocks>>

-----------------------------------------------------------------------------
(* resetPath and removeClock.                                              *)

\* The iterator goes to the next of S.
NextOf(S) == IF S = {} THEN itr' = End /\ ahead' = {}
             ELSE \E i \in S : itr' = i /\ ahead' = S \ {i}

ResetPath(r) ==
  /\ Idle
  /\ reset' = r /\ NextOf(Live)
  /\ UNCHANGED <<tables, todo, clocks>>

\* One exception of the loop.  itr is erased first, and goes on.
Resetting == reset # NoReset /\ todo = <<>>
ResetMatching ==
  /\ Resetting /\ itr \in Live /\ ResetMatch(reset, exception[itr])
  /\ LET gone == Unrecorded(itr)
     IN  /\ exception' = [exception EXCEPT ![itr] = NoException]
         /\ first_pts' = first_pts \ gone
         /\ merge_hash' = merge_hash \ gone
  /\ NextOf(ahead)
  /\ todo' = <<[op |-> "add",
                exceptions |-> {e \in Expand(exception[itr]) : ~ResetMatch(reset, e)}]>>
  /\ UNCHANGED <<reset, clocks>>
ResetOther ==
  /\ Resetting /\ itr \in Live /\ ~ResetMatch(reset, exception[itr])
  /\ NextOf(ahead)
  /\ UNCHANGED <<tables, todo, reset, clocks>>
ResetReturns ==
  /\ Resetting /\ itr = End
  /\ reset' = NoReset /\ itr' = NoId
  /\ UNCHANGED <<tables, todo, ahead, clocks>>

\* deleteExceptionsReferencing: the clock is taken out of the -from, or else
\* out of the -to; where it was alone the exception goes.
WithoutClock(e, clk) ==
  LET i == IF clk \in From(e) THEN 1 ELSE Len(e.pts)
      f == WithPt(e, i, e.pts[i] \ {clk})
  IN  IF f.pts[i] = {} THEN NoException ELSE f
RemoveClock(clk) ==
  /\ Idle /\ clk \in RemovableClocks \cap clocks
  /\ clocks' = clocks \ {clk}
  /\ LET touched == {i \in Live : clk \in From(exception[i]) \cup To(exception[i])}
         gone == UNION {Unrecorded(i) : i \in touched}
         new == [i \in touched |-> WithoutClock(exception[i], clk)]
         kept == {i \in touched : new[i] # NoException}
     IN  /\ exception' = [i \in Ids |-> IF i \in touched THEN new[i] ELSE exception[i]]
         /\ first_pts' = (first_pts \ gone) \cup UNION {FirstPts(i, new[i]) : i \in kept}
         /\ merge_hash' = (merge_hash \ gone) \cup UNION {MergeHashes(i, new[i]) : i \in kept}
  /\ UNCHANGED <<todo, reset, itr, ahead>>

Init ==
  /\ exception = [i \in Ids |-> NoException] /\ first_pts = {} /\ merge_hash = {}
  /\ todo = <<>> /\ reset = NoReset /\ itr = NoId /\ ahead = {} /\ clocks = Clocks

Next ==
  \/ \E c \in Commands : MakeException(c)
  \/ \E e \in (IF Calling("add") THEN Top.exceptions ELSE {}) : AddException(e)
  \/ RecordException \/ Merge \/ AddReturns
  \/ \E r \in Resets : ResetPath(r)
  \/ ResetMatching \/ ResetOther \/ ResetReturns
  \/ \E clk \in RemovableClocks : RemoveClock(clk)

Spec == Init /\ [][Next]_vars

-----------------------------------------------------------------------------
(* The search of a path at max delay, by the exceptions its tags carry: a  *)
(* state <<i, n>> is exception i with point n the next to come.            *)

MatchesMax(e) == e.min_max \in {"max", "all"}
FirstState(i) == <<i, IF From(exception[i]) = {Absent} /\ HasThrus(exception[i]) THEN 3 ELSE 2>>
MatchesNextThru(s, pin) ==
  LET pts == exception[s[1]].pts IN s[2] < Len(pts) /\ pin \in pts[s[2]]
IsCompleteFalse(s) == LET e == exception[s[1]]
                      IN  e.type = "false_path" /\ s[2] = Len(e.pts) /\ To(e) = {Absent}
FirstAt(point, object) ==
  {i \in Live : <<point, object, i>> \in first_pts /\ MatchesMax(exception[i])}

\* exceptionFromStates, at the pin where a path starts.  A complete false path
\* is the end of it.
NoPath == {<<NoId, 0>>}
ExceptionFromStates(pin, clk) ==
  LET first == UNION {FirstAt("from", pin), FirstAt("thru", pin), FirstAt("from", clk)}
      states == {LET s == FirstState(i)
                 IN  IF MatchesNextThru(s, pin) THEN <<i, s[2] + 1>> ELSE s : i \in first}
  IN  IF \E s \in states : IsCompleteFalse(s) THEN NoPath ELSE states

\* mutateTag, to a pin.  A false path that starts and is complete at the pin
\* ends the path at the next.
NextState(s, pin) ==
  <<s[1], CHOOSE n \in s[2]..Len(exception[s[1]].pts) :
            /\ ~MatchesNextThru(<<s[1], n>>, pin)
            /\ \A m \in s[2]..(n - 1) : MatchesNextThru(<<s[1], m>>, pin)>>
MutateTag(from_states, pin) ==
  LET states == {NextState(s, pin) : s \in from_states}
  IN  IF from_states = NoPath \/ \E s \in states : IsCompleteFalse(s) THEN NoPath
      ELSE states \cup {FirstState(i) : i \in FirstAt("thru", pin)}
PathStates(path) ==
  LET states[n \in DOMAIN path.pins] ==
        IF n = 1 THEN ExceptionFromStates(path.pins[1], path.clk)
        ELSE MutateTag(states[n - 1], path.pins[n])
  IN  states[Len(path.pins)]

\* exceptionTo: the highest priority of those that are complete, and of these
\* the tightest.  Equal path margins are chosen by their addresses.
MaxPriority(e) ==
  Priority(e) + CASE e.type # "multi_cycle" -> 0 [] e.min_max = "all" -> 1 [] OTHER -> 2
TighterThan(e, f) == e.type \in {"path_delay", "multi_cycle"} /\ e.value < f.value
HighestPriority(S) ==
  LET highest == {e \in S : \A f \in S : MaxPriority(f) <= MaxPriority(e)}
  IN  {<<e.type, e.value>> : e \in {f \in highest : ~\E g \in highest : TighterThan(g, f)}}
MatchesTo(e, path) == To(e) \cap {Absent, Last(path.pins), path.end_clk} # {}
ExceptionTo(path) ==
  LET states == PathStates(path)
      carried == {s[1] : s \in {t \in states : t[2] = Len(exception[t[1]].pts)}}
      at_end == FirstAt("to", Last(path.pins)) \cup FirstAt("to", path.end_clk)
  IN  IF states = NoPath THEN {<<"false_path", 0>>}
      ELSE HighestPriority({e \in {exception[i] : i \in carried \cup at_end} :
                              MatchesTo(e, path)})

-----------------------------------------------------------------------------
(* What the exceptions say of each way that a command names.               *)

Keys == UNION {{[type |-> c.type, min_max |-> c.min_max, pts |-> w] : w \in Ways(c)} :
                 c \in Commands}
Names(c, k) == /\ c.type = k.type /\ c.min_max = k.min_max /\ Len(c.pts) = Len(k.pts)
               /\ \A i \in DOMAIN k.pts : k.pts[i] \in c.pts[i]
AsException(k, value) == [type |-> k.type, min_max |-> k.min_max, value |-> value,
                          pts |-> [i \in DOMAIN k.pts |-> {k.pts[i]}]]
NamedByReset(r, k) == ResetMatch(r, AsException(k, 0))

\* What the running command has still to add comes before what is recorded.
Pending == UNION {CASE f.op = "add" -> f.exceptions [] f.op = "record" -> {f.exception}
                    [] f.op = "merge" -> {} : f \in Range(todo)}
Values(S, k) == {e.value : e \in {f \in S : Names(f, k)}}
Table == [k \in Keys |->
            IF reset # NoReset /\ NamedByReset(reset, k) THEN {}
            ELSE IF Values(Pending, k) # {} THEN Values(Pending, k)
            ELSE Values({exception[i] : i \in Live}, k)]

Abstract == INSTANCE ExceptionTable WITH
  Resets <- {[op |-> "reset", r |-> r] : r \in Resets},
  Names <- LAMBDA c, k : IF c \in Commands THEN Names(c, k) ELSE NamedByReset(c.r, k),
  ValueOf <- LAMBDA c : c.value,
  HasClock <- LAMBDA clk, k : clk \in Range(k.pts),
  Clocks <- RemovableClocks,
  table <- Table, busy <- ~Idle

-----------------------------------------------------------------------------
(* Properties.                                                             *)

\* The iterator of resetPath and every entry of the tables a command and a
\* search go through is an exception that exists, under the points it has now,
\* and none is missing: merging, breaking up and deleting exceptions under a
\* loop, and changing their points in place, leaves no pointer behind.
IteratorLive == itr \in Live \cup {End, NoId}
TablesLive ==
  /\ ahead \subseteq Live \ {itr}
  /\ first_pts = UNION {FirstPts(i, exception[i]) : i \in Live}
  /\ merge_hash = UNION {MergeHashes(i, exception[i]) : i \in Live}
  /\ \A f \in Range(todo) : f.op = "merge" => f.id \in Live
PointersLive == IteratorLive /\ TablesLive

\* Between commands, what a search finds at the end of a path, by the tables
\* of first points and the states its tags carried from point to point, is what
\* the exceptions hold for it: of the ways that the path takes, the value of
\* the one with the highest priority, however they were merged, split and
\* broken up.  That they hold what the commands said is ImplementsTable.
ThrusOnPath(thrus, pins) ==
  \E at \in [DOMAIN thrus -> DOMAIN pins] :
    \A i \in DOMAIN thrus : pins[at[i]] = thrus[i] /\ (i > 1 => at[i - 1] < at[i])
Takes(path, k) ==
  /\ MatchesMax(k)
  /\ k.pts[1] \in {Absent, path.pins[1], path.clk}
  /\ ThrusOnPath(ThrusOf(k.pts), path.pins)
  /\ Last(k.pts) \in {Absent, Last(path.pins), path.end_clk}
GoverningException ==
  Idle => LET table == Table
          IN  \A path \in Paths :
                ExceptionTo(path) =
                  HighestPriority(UNION {{AsException(k, value) : value \in table[k]} :
                                           k \in {l \in Keys : Takes(path, l)}})

\* The exceptions hold what the commands said, each of which takes effect at
\* once: adding, merging, breaking up and removing exceptions loses no way,
\* brings back none that was overridden, reset or removed, and gives none two
\* values.
ImplementsTable == Abstract!Spec
=============================================================================
