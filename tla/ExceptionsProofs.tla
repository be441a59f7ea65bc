-------------------------- MODULE ExceptionsProofs --------------------------
(***************************************************************************)
(* Proofs about Exceptions: the tables by first point and by merge hash    *)
(* hold what the exceptions that exist have as points, and nothing else,   *)
(* after every step of every command, also in the middle of a reset.       *)
(***************************************************************************)
EXTENDS Exceptions, TLAPS

-----------------------------------------------------------------------------
(* The inductive invariant.                                                *)

Frames == [op : {"add"}, exceptions : SUBSET ExceptionRecords]
            \cup [op : {"record"}, exception : ExceptionRecords]
            \cup [op : {"merge"}, id : Ids]

\* The shape of the state.
TypeOK ==
  /\ exception \in [Ids -> ExceptionRecords \cup {NoException}]
  /\ todo \in Seq(Frames)
  /\ reset \in Resets \cup {NoReset}
  /\ itr \in Ids \cup {End, NoId} /\ ahead \subseteq Ids
  /\ clocks \subseteq Clocks

\* Only the call that runs merges, and only a reset has an iterator.
MergesOnTop == \A n \in DOMAIN todo : todo[n].op = "merge" => n = 1
NoLoop ==
  /\ reset = NoReset => itr = NoId /\ ahead = {}
  /\ itr = End => ahead = {}

ExceptionsInv == TypeOK /\ TablesLive /\ MergesOnTop /\ NoLoop

-----------------------------------------------------------------------------
(* What the operators on exceptions give is an exception.                  *)

\* A part of a point is a point, and so is a choice from it.
LEMMA PartPoint ==
  ASSUME NEW p \in Points, NEW q, q \subseteq p
  PROVE  q \in Points
BY DEF Points

LEMMA ObjectPoint ==
  ASSUME NEW p \in Points, NEW o \in p
  PROVE  {o} \in Points
BY DEF Points

\* Two points that are there are there together.
LEMMA MergedPoint ==
  ASSUME NEW p \in Points, NEW q \in Points, p # {Absent}, q # {Absent}
  PROVE  p \cup q \in Points /\ p \cup q # {Absent}
BY ExceptionsAssumption DEF Points

LEMMA RecordFields ==
  ASSUME NEW e \in ExceptionRecords
  PROVE  /\ e.pts \in Seq(Points) /\ Len(e.pts) \in Nat /\ Len(e.pts) >= 2
         /\ DOMAIN e.pts = 1..Len(e.pts)
         /\ \A j \in DOMAIN e.pts : e.pts[j] \in Points
         /\ 1 \in DOMAIN e.pts /\ Len(e.pts) \in DOMAIN e.pts
         /\ e # NoException
<1>1. e.pts \in Seq(Points) /\ Len(e.pts) >= 2
  BY DEF ExceptionRecords
<1>2. Len(e.pts) \in Nat /\ DOMAIN e.pts = 1..Len(e.pts)
  BY <1>1
<1>3. e # NoException
  <2>1. e.type # "none"
    BY DEF ExceptionRecords
  <2> QED
    BY <2>1 DEF NoException
<1> QED
  BY <1>1, <1>2, <1>3

\* Other points of an exception give an exception.
LEMMA OtherPts ==
  ASSUME NEW e \in ExceptionRecords, NEW pts \in Seq(Points), Len(pts) = Len(e.pts)
  PROVE  /\ [e EXCEPT !.pts = pts] \in ExceptionRecords
         /\ [e EXCEPT !.pts = pts].pts = pts
<1> DEFINE f == [e EXCEPT !.pts = pts]
<1>1. /\ f = [type |-> e.type, min_max |-> e.min_max, value |-> e.value, pts |-> pts]
  BY DEF ExceptionRecords
<1>2. f.pts = pts
  BY <1>1
<1>3. f \in ExceptionRecords
  BY <1>1, <1>2 DEF ExceptionRecords
<1> QED
  BY <1>2, <1>3

LEMMA WithPtRecord ==
  ASSUME NEW e \in ExceptionRecords, NEW i \in DOMAIN e.pts, NEW pt \in Points
  PROVE  /\ WithPt(e, i, pt) \in ExceptionRecords
         /\ WithPt(e, i, pt).pts = [e.pts EXCEPT ![i] = pt]
         /\ Len(WithPt(e, i, pt).pts) = Len(e.pts)
<1> DEFINE pts == [e.pts EXCEPT ![i] = pt]
<1>1. pts \in Seq(Points) /\ Len(pts) = Len(e.pts)
  BY RecordFields
<1>2. WithPt(e, i, pt) = [e EXCEPT !.pts = pts]
  BY DEF WithPt, ExceptionRecords
<1> HIDE DEF pts
<1>3. WithPt(e, i, pt) \in ExceptionRecords /\ WithPt(e, i, pt).pts = pts
  BY <1>1, <1>2, OtherPts
<1> QED
  BY <1>1, <1>3 DEF pts

LEMMA SplitRecords ==
  ASSUME NEW e \in ExceptionRecords
  PROVE  Split(e) \subseteq ExceptionRecords
<1>1. \A pt \in Points : Kinds(pt) \subseteq Points
  BY PartPoint DEF Kinds
<1> SUFFICES ASSUME NEW from \in Kinds(From(e)), NEW to \in Kinds(To(e))
             PROVE  WithPt(WithPt(e, 1, from), Len(e.pts), to) \in ExceptionRecords
  BY DEF Split
<1>2. From(e) \in Points /\ To(e) \in Points
  BY RecordFields DEF From, To, Last
<1>3. from \in Points /\ to \in Points
  BY <1>1, <1>2
<1>4. WithPt(e, 1, from) \in ExceptionRecords /\ Len(WithPt(e, 1, from).pts) = Len(e.pts)
  BY <1>3, RecordFields, WithPtRecord
<1>5. Len(e.pts) \in DOMAIN WithPt(e, 1, from).pts
  BY <1>4, RecordFields
<1> QED
  BY <1>3, <1>4, <1>5, WithPtRecord

LEMMA ExcludingRecords ==
  ASSUME NEW e \in ExceptionRecords, NEW f
  PROVE  ExpandExcluding(e, f) \subseteq ExceptionRecords
<1> SUFFICES ASSUME NEW i \in DOMAIN e.pts
             PROVE  Excluding(e, i, e.pts[i] \ f.pts[i]) \in ExceptionRecords
  BY DEF ExpandExcluding
<1> DEFINE pt == e.pts[i] \ f.pts[i]
           pts == [j \in DOMAIN e.pts |->
                     IF j = i THEN pt
                     ELSE IF {1, Len(e.pts)} \cap {i, j} = {} THEN e.pts[i] ELSE e.pts[j]]
<1>1. pt \in Points
  BY PartPoint, RecordFields
<1> HIDE DEF pt
<1>2. pts \in [1..Len(e.pts) -> Points] /\ Len(e.pts) \in Nat
  BY <1>1, RecordFields
<1>3. Excluding(e, i, pt) = [e EXCEPT !.pts = pts]
  BY DEF Excluding, ExceptionRecords
<1> HIDE DEF pts
<1>4. pts \in Seq(Points) /\ Len(pts) = Len(e.pts)
  BY <1>2
<1>5. Excluding(e, i, pt) \in ExceptionRecords
  BY <1>3, <1>4, OtherPts
<1> QED
  BY <1>5 DEF pt

LEMMA ExpandRecords ==
  ASSUME NEW e \in ExceptionRecords
  PROVE  Expand(e) \subseteq ExceptionRecords
<1> SUFFICES ASSUME NEW w \in Ways(e)
             PROVE  [e EXCEPT !.pts = [i \in DOMAIN w |-> {w[i]}]] \in ExceptionRecords
  BY DEF Expand
<1> DEFINE pts == [i \in DOMAIN w |-> {w[i]}]
<1>1. DOMAIN w = 1..Len(e.pts) /\ \A i \in DOMAIN w : w[i] \in e.pts[i]
  BY RecordFields DEF Ways
<1>2. \A i \in DOMAIN w : {w[i]} \in Points
  BY <1>1, ObjectPoint, RecordFields
<1>3. pts \in [1..Len(e.pts) -> Points] /\ Len(e.pts) \in Nat
  BY <1>1, <1>2, RecordFields
<1>4. pts \in Seq(Points) /\ Len(pts) = Len(e.pts)
  BY <1>3
<1> HIDE DEF pts
<1>5. [e EXCEPT !.pts = pts] \in ExceptionRecords
  BY <1>4, OtherPts
<1> QED
  BY <1>5 DEF pts

-----------------------------------------------------------------------------
(* An entry of a table names the exception it is for, and is of one table. *)

LEMMA FirstPtsOwner ==
  ASSUME NEW i, NEW e, NEW x \in FirstPts(i, e)
  PROVE  x[3] = i /\ DOMAIN x = 1..3
<1>1. PICK object \in FirstObjects(e) : x = <<FirstPt(e), object, i>>
  BY DEF FirstPts
<1> QED
  BY <1>1

LEMMA MergeHashesOwner ==
  ASSUME NEW i, NEW e, NEW x \in MergeHashes(i, e)
  PROVE  x[4] = i /\ DOMAIN x = 1..4
<1>1. PICK j \in DOMAIN e.pts : x = <<Priority(e), j, WithPt(e, j, {}).pts, i>>
  BY DEF MergeHashes
<1> QED
  BY <1>1

LEMMA TablesApart ==
  ASSUME NEW i, NEW e, NEW k, NEW f
  PROVE  FirstPts(i, e) \cap MergeHashes(k, f) = {}
<1>1. ASSUME NEW x \in FirstPts(i, e), x \in MergeHashes(k, f) PROVE FALSE
  <2>1. DOMAIN x = 1..3 /\ DOMAIN x = 1..4
    BY <1>1, FirstPtsOwner, MergeHashesOwner
  <2>2. 4 \in 1..4 /\ 4 \notin 1..3
    OBVIOUS
  <2> QED
    BY <2>1, <2>2
<1> QED
  BY <1>1

\* What is erased for exceptions is what the tables have for them.
LEMMA UnrecordedOne ==
  ASSUME NEW k, NEW i, NEW e
  PROVE  /\ \A x \in FirstPts(i, e) : x \in Unrecorded(k) <=> k = i /\ x \in FirstPts(i, exception[i])
         /\ \A x \in MergeHashes(i, e) :
              x \in Unrecorded(k) <=> k = i /\ x \in MergeHashes(i, exception[i])
<1>1. ASSUME NEW x \in FirstPts(i, e), x \in Unrecorded(k)
      PROVE  k = i /\ x \in FirstPts(i, exception[i])
  <2>1. x \in FirstPts(k, exception[k])
    BY <1>1, TablesApart DEF Unrecorded
  <2>2. x[3] = i /\ x[3] = k
    BY <1>1, <2>1, FirstPtsOwner
  <2> QED
    BY <2>1, <2>2
<1>2. ASSUME NEW x \in MergeHashes(i, e), x \in Unrecorded(k)
      PROVE  k = i /\ x \in MergeHashes(i, exception[i])
  <2>1. x \in MergeHashes(k, exception[k])
    BY <1>2, TablesApart DEF Unrecorded
  <2>2. x[4] = i /\ x[4] = k
    BY <1>2, <2>1, MergeHashesOwner
  <2> QED
    BY <2>1, <2>2
<1>3. FirstPts(i, exception[i]) \subseteq Unrecorded(i)
      /\ MergeHashes(i, exception[i]) \subseteq Unrecorded(i)
  BY DEF Unrecorded
<1> QED
  BY <1>1, <1>2, <1>3

LEMMA UnrecordedAll ==
  ASSUME NEW S, NEW i, NEW e
  PROVE  /\ \A x \in FirstPts(i, e) : x \in UNION {Unrecorded(k) : k \in S}
                                       <=> i \in S /\ x \in FirstPts(i, exception[i])
         /\ \A x \in MergeHashes(i, e) : x \in UNION {Unrecorded(k) : k \in S}
                                          <=> i \in S /\ x \in MergeHashes(i, exception[i])
<1>1. \A x \in FirstPts(i, e), k \in S :
        x \in Unrecorded(k) <=> k = i /\ x \in FirstPts(i, exception[i])
  BY UnrecordedOne
<1>2. \A x \in MergeHashes(i, e), k \in S :
        x \in Unrecorded(k) <=> k = i /\ x \in MergeHashes(i, exception[i])
  BY UnrecordedOne
<1> QED
  BY <1>1, <1>2

\* A step that takes the exceptions S out of the tables and records those of K
\* keeps them right, when S go and K are there after it.
TablesMatch == /\ first_pts = UNION {FirstPts(i, exception[i]) : i \in Live}
               /\ merge_hash = UNION {MergeHashes(i, exception[i]) : i \in Live}

LEMMA Rerecorded ==
  ASSUME TablesMatch,
         NEW S, S \subseteq Live, NEW K, Live' = (Live \ S) \cup K,
         K \cap (Live \ S) = {},
         \A i \in Live \ S : exception'[i] = exception[i],
         LET gone == UNION {Unrecorded(i) : i \in S}
         IN  /\ first_pts' = (first_pts \ gone) \cup UNION {FirstPts(i, exception'[i]) : i \in K}
             /\ merge_hash' = (merge_hash \ gone) \cup UNION {MergeHashes(i, exception'[i]) : i \in K}
  PROVE  TablesMatch'
<1> DEFINE gone == UNION {Unrecorded(i) : i \in S}
<1>1. \A i \in Live : \A x \in FirstPts(i, exception[i]) : x \in gone <=> i \in S
  BY UnrecordedAll
<1>2. \A i \in Live : \A x \in MergeHashes(i, exception[i]) : x \in gone <=> i \in S
  BY UnrecordedAll
<1>3. first_pts \ gone = UNION {FirstPts(i, exception[i]) : i \in Live \ S}
  BY <1>1 DEF TablesMatch
<1>4. merge_hash \ gone = UNION {MergeHashes(i, exception[i]) : i \in Live \ S}
  BY <1>2 DEF TablesMatch
<1>5. /\ first_pts' = (first_pts \ gone) \cup UNION {FirstPts(i, exception'[i]) : i \in K}
      /\ merge_hash' = (merge_hash \ gone) \cup UNION {MergeHashes(i, exception'[i]) : i \in K}
  OBVIOUS
<1> HIDE DEF gone
<1>6. first_pts' = UNION {FirstPts(i, exception'[i]) : i \in Live'}
  BY <1>3, <1>5
<1>7. merge_hash' = UNION {MergeHashes(i, exception'[i]) : i \in Live'}
  BY <1>4, <1>5
<1> QED
  BY <1>6, <1>7 DEF TablesMatch, FirstPts, MergeHashes, FirstPt, FirstObjects, Priority

-----------------------------------------------------------------------------
(* The steps.                                                              *)

LEMMA LiveException ==
  ASSUME TypeOK, NEW i \in Live
  PROVE  i \in Ids /\ exception[i] \in ExceptionRecords
BY DEF TypeOK, Live

\* The frame on top, and those below it, which are of no merge.
LEMMA TopFrame ==
  ASSUME TypeOK, MergesOnTop, todo # <<>>
  PROVE  /\ Top \in Frames /\ Top \in Range(todo)
         /\ Tail(todo) \in Seq(Frames)
         /\ \A n \in DOMAIN Tail(todo) : Tail(todo)[n].op # "merge"
<1>1. todo \in Seq(Frames) /\ Len(todo) \in Nat \ {0} /\ Top = todo[1]
  BY DEF TypeOK, Top
<1>2. 1 \in DOMAIN todo
  BY <1>1
<1>3. Top \in Frames /\ Top \in Range(todo)
  BY <1>1, <1>2 DEF Range
<1>4. Tail(todo) \in Seq(Frames)
  BY <1>1
<1>5. ASSUME NEW n \in DOMAIN Tail(todo) PROVE Tail(todo)[n].op # "merge"
  <2>1. n \in 1..(Len(todo) - 1) /\ Tail(todo)[n] = todo[n + 1] /\ n + 1 \in DOMAIN todo /\ n + 1 # 1
    BY <1>1
  <2> QED
    BY <2>1 DEF MergesOnTop
<1> QED
  BY <1>3, <1>4, <1>5

LEMMA AddFrame ==
  ASSUME TypeOK, MergesOnTop, Calling("add")
  PROVE  Top.exceptions \subseteq ExceptionRecords
<1>1. Top \in Frames /\ Top.op = "add"
  BY TopFrame DEF Calling
<1> QED
  BY <1>1 DEF Frames

LEMMA RecordFrame ==
  ASSUME TypeOK, MergesOnTop, Calling("record")
  PROVE  Top.exception \in ExceptionRecords
<1>1. Top \in Frames /\ Top.op = "record"
  BY TopFrame DEF Calling
<1> QED
  BY <1>1 DEF Frames

\* What is put on the frames below the top.
LEMMA PushFrames ==
  ASSUME TypeOK, MergesOnTop, todo # <<>>, NEW frames \in Seq(Frames),
         todo' = frames \o Tail(todo),
         \A n \in DOMAIN frames : frames[n].op = "merge" => n = 1
  PROVE  /\ todo' \in Seq(Frames) /\ MergesOnTop'
         /\ \A f \in Range(todo') : f.op = "merge" => frames # <<>> /\ f = frames[1]
<1>1. Tail(todo) \in Seq(Frames) /\ \A n \in DOMAIN Tail(todo) : Tail(todo)[n].op # "merge"
  BY TopFrame
<1> DEFINE rest == Tail(todo)
<1> HIDE DEF rest
<1>2. /\ frames \o rest \in Seq(Frames) /\ Len(frames) \in Nat /\ Len(rest) \in Nat
      /\ DOMAIN (frames \o rest) = 1..(Len(frames) + Len(rest))
      /\ \A n \in 1..(Len(frames) + Len(rest)) :
           (frames \o rest)[n] = IF n <= Len(frames) THEN frames[n] ELSE rest[n - Len(frames)]
  BY <1>1 DEF rest
<1>3. ASSUME NEW n \in DOMAIN todo', todo'[n].op = "merge"
      PROVE  n = 1 /\ frames # <<>> /\ todo'[n] = frames[1]
  <2>1. n \in 1..(Len(frames) + Len(rest))
    BY <1>2, <1>3 DEF rest
  <2>2. n <= Len(frames)
    <3> SUFFICES ASSUME ~(n <= Len(frames)) PROVE FALSE
      OBVIOUS
    <3>1. todo'[n] = rest[n - Len(frames)] /\ n - Len(frames) \in 1..Len(rest)
      BY <1>2, <2>1 DEF rest
    <3>2. n - Len(frames) \in DOMAIN rest
      BY <1>1, <3>1 DEF rest
    <3> QED
      BY <1>1, <1>3, <3>1, <3>2 DEF rest
  <2>3. todo'[n] = frames[n] /\ n \in DOMAIN frames
    BY <1>2, <2>1, <2>2 DEF rest
  <2>4. n = 1
    BY <1>3, <2>3
  <2>5. frames # <<>>
    BY <2>3
  <2> QED
    BY <2>3, <2>4, <2>5
<1> QED
  BY <1>2, <1>3 DEF rest, MergesOnTop, Range

LEMMA MakeExceptionInv ==
  ASSUME ExceptionsInv, NEW c \in Commands, MakeException(c)
  PROVE  ExceptionsInv'
<1> DEFINE frame == [op |-> "add", exceptions |-> Split(c)]
<1>1. frame \in Frames
  <2>1. Split(c) \subseteq ExceptionRecords
    BY ExceptionsAssumption, SplitRecords
  <2> QED
    BY <2>1 DEF Frames
<1>2. todo' = <<frame>> /\ frame.op # "merge"
  BY DEF MakeException
<1> HIDE DEF frame
<1>3. DOMAIN todo' = {1} /\ todo'[1] = frame /\ todo' \in Seq(Frames)
  BY <1>1, <1>2
<1>4. \A f \in Range(todo') : f.op # "merge"
  BY <1>2, <1>3 DEF Range
<1>5. UNCHANGED <<tables, reset, itr, ahead, clocks>>
  BY DEF MakeException
<1>6. Live' = Live
  BY <1>5 DEF Live, tables
<1>7. TypeOK'
  BY <1>3, <1>5 DEF ExceptionsInv, TypeOK, tables
<1>8. TablesLive'
  BY <1>4, <1>5, <1>6 DEF ExceptionsInv, TablesLive, tables
<1>9. MergesOnTop' /\ NoLoop'
  BY <1>3, <1>5 DEF ExceptionsInv, MergesOnTop, NoLoop
<1> QED
  BY <1>7, <1>8, <1>9 DEF ExceptionsInv

\* Exceptions that are deleted.
LEMMA DeletedTables ==
  ASSUME ExceptionsInv, NEW S, S \subseteq Live,
         exception' = [i \in Ids |-> IF i \in S THEN NoException ELSE exception[i]],
         first_pts' = first_pts \ UNION {Unrecorded(i) : i \in S},
         merge_hash' = merge_hash \ UNION {Unrecorded(i) : i \in S}
  PROVE  /\ exception' \in [Ids -> ExceptionRecords \cup {NoException}]
         /\ Live' = Live \ S /\ TablesMatch'
<1>1. exception' \in [Ids -> ExceptionRecords \cup {NoException}]
  BY DEF ExceptionsInv, TypeOK
<1>2. Live' = Live \ S /\ \A i \in Live \ S : exception'[i] = exception[i]
  BY DEF Live
<1>3. TablesMatch
  BY DEF ExceptionsInv, TablesLive, TablesMatch
<1> DEFINE gone == UNION {Unrecorded(i) : i \in S}
<1>4. /\ first_pts' = (first_pts \ gone) \cup UNION {FirstPts(i, exception'[i]) : i \in {}}
      /\ merge_hash' = (merge_hash \ gone) \cup UNION {MergeHashes(i, exception'[i]) : i \in {}}
  OBVIOUS
<1>5. TablesMatch'
  <2>1. Live' = (Live \ S) \cup {} /\ {} \cap (Live \ S) = {}
    BY <1>2
  <2> QED
    BY <1>2, <1>3, <1>4, <2>1, Rerecorded
<1> QED
  BY <1>1, <1>2, <1>5

LEMMA AddExceptionInv ==
  ASSUME ExceptionsInv, Calling("add"), NEW e \in Top.exceptions, AddException(e)
  PROVE  ExceptionsInv'
<1>1. PICK matches \in SUBSET Live :
        LET expansions == UNION {ExpandExcluding(exception[i], e) : i \in matches}
        IN  /\ Deleted(matches)
            /\ todo' = <<[op |-> "add", exceptions |-> expansions],
                         [op |-> "record", exception |-> e],
                         [Top EXCEPT !.exceptions = @ \ {e}]>> \o Tail(todo)
  <2> DEFINE matches == IF Overriding(e) THEN Matches(e) ELSE {}
  <2>1. matches \in SUBSET Live
    BY DEF Matches
  <2> QED
    BY <2>1 DEF AddException
<1>2. UNCHANGED <<reset, itr, clocks>>
  BY DEF AddException
<1>3. TypeOK /\ MergesOnTop /\ NoLoop /\ TablesLive
  BY DEF ExceptionsInv
<1>4. /\ exception' \in [Ids -> ExceptionRecords \cup {NoException}]
      /\ Live' = Live \ matches /\ TablesMatch' /\ ahead' = ahead \ matches
  BY <1>1, DeletedTables DEF Deleted
<1> DEFINE expansions == UNION {ExpandExcluding(exception[i], e) : i \in matches}
           below == [Top EXCEPT !.exceptions = @ \ {e}]
           frames == <<[op |-> "add", exceptions |-> expansions],
                       [op |-> "record", exception |-> e], below>>
<1>5. expansions \subseteq ExceptionRecords
  BY <1>1, <1>3, LiveException, ExcludingRecords
<1>6. e \in ExceptionRecords /\ Top.exceptions \subseteq ExceptionRecords
  BY <1>3, AddFrame
<1>7. below \in Frames /\ below.op = "add"
  <2>1. Top \in Frames /\ Top.op = "add"
    BY <1>3, TopFrame DEF Calling
  <2>2. Top = [op |-> "add", exceptions |-> Top.exceptions]
    BY <2>1 DEF Frames
  <2>3. below = [op |-> "add", exceptions |-> Top.exceptions \ {e}]
    BY <2>2
  <2> QED
    BY <1>6, <2>3 DEF Frames
<1> HIDE DEF expansions, below
<1>8. /\ frames \in Seq(Frames) /\ DOMAIN frames = 1..3
      /\ \A n \in DOMAIN frames : frames[n].op # "merge"
  <2>1. [op |-> "add", exceptions |-> expansions] \in Frames /\ [op |-> "record", exception |-> e] \in Frames
    BY <1>5, <1>6 DEF Frames
  <2> QED
    BY <1>7, <2>1
<1>9. todo' = frames \o Tail(todo) /\ todo # <<>>
  BY <1>1 DEF expansions, below, Calling
<1> HIDE DEF frames
<1>10. /\ todo' \in Seq(Frames) /\ MergesOnTop'
       /\ \A f \in Range(todo') : f.op # "merge"
  <2>1. /\ todo' \in Seq(Frames) /\ MergesOnTop'
        /\ \A f \in Range(todo') : f.op = "merge" => f = frames[1]
    BY <1>3, <1>8, <1>9, PushFrames
  <2> QED
    BY <1>8, <2>1
<1>11. TypeOK'
  BY <1>2, <1>3, <1>4, <1>10 DEF TypeOK
<1>12. TablesLive'
  BY <1>2, <1>3, <1>4, <1>10 DEF TablesLive, TablesMatch
<1>13. NoLoop'
  BY <1>2, <1>3, <1>4 DEF NoLoop
<1> QED
  BY <1>10, <1>11, <1>12, <1>13 DEF ExceptionsInv

LEMMA RecordExceptionInv ==
  ASSUME ExceptionsInv, RecordException
  PROVE  ExceptionsInv'
<1>1. Calling("record") /\ UNCHANGED <<reset, itr, clocks>>
  BY DEF RecordException
<1>2. PICK i \in Ids \ Live :
        /\ Recorded(i, Top.exception)
        /\ todo' = <<[op |-> "merge", id |-> i]>> \o Tail(todo)
        /\ \/ UNCHANGED ahead
           \/ itr \in Live /\ ahead' = ahead \cup {i}
  BY DEF RecordException
<1>3. TypeOK /\ MergesOnTop /\ NoLoop /\ TablesLive /\ TablesMatch
  BY DEF ExceptionsInv, TablesLive, TablesMatch
<1>4. PICK e : e = Top.exception
  OBVIOUS
<1>5. e \in ExceptionRecords /\ e # NoException
  BY <1>1, <1>3, <1>4, RecordFrame, RecordFields
<1>6. exception' = [exception EXCEPT ![i] = e]
  BY <1>2, <1>4 DEF Recorded
<1>7. exception' \in [Ids -> ExceptionRecords \cup {NoException}]
  BY <1>3, <1>5, <1>6 DEF TypeOK
<1>8. exception'[i] = e /\ \A k \in Ids : k # i => exception'[k] = exception[k]
  BY <1>3, <1>6 DEF TypeOK
<1>9. Live' = Live \cup {i}
  BY <1>5, <1>8 DEF Live
<1>10. TablesMatch'
  <2>1. /\ first_pts' = (first_pts \ UNION {Unrecorded(k) : k \in {}})
                           \cup UNION {FirstPts(k, exception'[k]) : k \in {i}}
        /\ merge_hash' = (merge_hash \ UNION {Unrecorded(k) : k \in {}})
                            \cup UNION {MergeHashes(k, exception'[k]) : k \in {i}}
    BY <1>2, <1>4, <1>8 DEF Recorded
  <2>2. Live' = (Live \ {}) \cup {i} /\ {i} \cap (Live \ {}) = {}
        /\ \A k \in Live \ {} : exception'[k] = exception[k]
    BY <1>2, <1>8, <1>9 DEF Live
  <2> QED
    BY <1>3, <2>1, <2>2, Rerecorded
<1>11. ahead' \subseteq Live' \ {itr'}
  <2>1. ahead \subseteq Live \ {itr}
    BY <1>3 DEF TablesLive
  <2> QED
    BY <1>1, <1>2, <1>9, <2>1
<1> DEFINE frames == <<[op |-> "merge", id |-> i]>>
<1>12. /\ frames \in Seq(Frames) /\ DOMAIN frames = {1} /\ frames[1].id = i
  BY <1>2 DEF Frames
<1>13. todo' = frames \o Tail(todo) /\ todo # <<>>
  BY <1>1, <1>2 DEF Calling
<1> HIDE DEF frames
<1>14. /\ todo' \in Seq(Frames) /\ MergesOnTop'
       /\ \A f \in Range(todo') : f.op = "merge" => f = frames[1]
  BY <1>3, <1>12, <1>13, PushFrames
<1>15. \A f \in Range(todo') : f.op = "merge" => f.id \in Live'
  BY <1>9, <1>12, <1>14
<1>16. TypeOK'
  BY <1>1, <1>2, <1>3, <1>7, <1>14 DEF TypeOK
<1>17. TablesLive'
  BY <1>10, <1>11, <1>15 DEF TablesLive, TablesMatch
<1>18. NoLoop'
  <2>1. itr \in Live => itr \in Ids
    BY DEF Live
  <2> QED
    BY <1>1, <1>2, <1>3, <2>1, ExceptionsAssumption DEF NoLoop
<1> QED
  BY <1>14, <1>16, <1>17, <1>18 DEF ExceptionsInv

\* What may merge: both exceptions have the point.
LEMMA MergeMatchPoint ==
  ASSUME ExceptionsInv, NEW i \in Live, NEW j, NEW m \in MergeMatches(i, j)
  PROVE  /\ m \in Live /\ m # i
         /\ j \in DOMAIN exception[i].pts /\ exception[i].pts[j] # {Absent}
         /\ j \in DOMAIN exception[m].pts /\ exception[m].pts[j] # {Absent}
<1>1. PICK h \in MergeHashes(i, exception[i]) : h[2] = j /\ <<h[1], h[2], h[3], m>> \in merge_hash
  BY DEF MergeMatches
<1>2. m \in Live /\ m # i
  BY DEF MergeMatches
<1>3. j \in DOMAIN exception[i].pts /\ exception[i].pts[j] # {Absent}
  BY <1>1 DEF MergeHashes
<1>4. PICK x : x = <<h[1], h[2], h[3], m>>
  OBVIOUS
<1>5. x[2] = j /\ x[4] = m
  BY <1>1, <1>4
<1>6. PICK k \in Live : x \in MergeHashes(k, exception[k])
  BY <1>1, <1>4 DEF ExceptionsInv, TablesLive
<1>7. k = m
  BY <1>5, <1>6, MergeHashesOwner
<1>8. j \in DOMAIN exception[m].pts /\ exception[m].pts[j] # {Absent}
  BY <1>5, <1>6, <1>7 DEF MergeHashes
<1> QED
  BY <1>2, <1>3, <1>8

\* Merging at a point that is not the first leaves the first; at the first it
\* adds objects.
LEMMA MergedFirst ==
  ASSUME NEW e \in ExceptionRecords, NEW j \in DOMAIN e.pts, e.pts[j] # {Absent},
         NEW pt \in Points, pt # {Absent}, e.pts[j] \subseteq pt, NEW m
  PROVE  FirstPts(m, e) \cup MergedFirstPts(m, WithPt(e, j, pt), j) = FirstPts(m, WithPt(e, j, pt))
<1> DEFINE f == WithPt(e, j, pt)
<1>1. /\ Len(e.pts) \in Nat /\ Len(e.pts) >= 2 /\ DOMAIN e.pts = 1..Len(e.pts)
      /\ Len(f.pts) = Len(e.pts) /\ f.pts = [e.pts EXCEPT ![j] = pt]
  BY RecordFields, WithPtRecord
<1>2. /\ f.pts[j] = pt
      /\ \A k \in DOMAIN e.pts : k # j => f.pts[k] = e.pts[k]
  BY <1>1
<1>3. From(f) = f.pts[1] /\ To(f) = f.pts[Len(e.pts)] /\ From(e) = e.pts[1] /\ To(e) = e.pts[Len(e.pts)]
  BY <1>1 DEF From, To, Last
<1>4. HasThrus(f) <=> HasThrus(e)
  BY <1>1 DEF HasThrus
<1> HIDE DEF f
<1>5. CASE \A k \in 1..(j - 1) : f.pts[k] = {Absent}
  <2>1. MergedFirstPts(m, f, j) = FirstPts(m, f)
    BY <1>5 DEF MergedFirstPts
  <2>2. FirstPt(f) = FirstPt(e)
    <3>1. (From(e) = {Absent}) <=> (From(f) = {Absent})
      BY <1>1, <1>2, <1>3
    <3> QED
      BY <1>4, <3>1 DEF FirstPt
  <2>3. FirstObjects(e) \subseteq FirstObjects(f)
    <3>1. \A k \in DOMAIN e.pts : e.pts[k] \subseteq f.pts[k]
      BY <1>2
    <3>2. 1 \in DOMAIN e.pts /\ 2 \in DOMAIN e.pts /\ Len(e.pts) \in DOMAIN e.pts
      BY <1>1
    <3>3. FirstPt(e) \in {"from", "thru", "to"}
      BY DEF FirstPt
    <3> QED
      BY <1>3, <2>2, <3>1, <3>2, <3>3 DEF FirstObjects
  <2>4. FirstPts(m, e) \subseteq FirstPts(m, f)
    BY <2>2, <2>3 DEF FirstPts
  <2> QED
    BY <2>1, <2>4 DEF f
<1>6. CASE ~\A k \in 1..(j - 1) : f.pts[k] = {Absent}
  <2>1. MergedFirstPts(m, f, j) = {}
    BY <1>6 DEF MergedFirstPts
  <2>2. PICK k \in 1..(j - 1) : f.pts[k] # {Absent}
    BY <1>6
  <2>3. k \in DOMAIN e.pts /\ k < j /\ j <= Len(e.pts) /\ j > 1 /\ j \in Int /\ k \in Int
    BY <1>1, <2>2
  <2>4. From(f) = From(e)
    BY <1>1, <1>2, <1>3, <2>3
  <2>5. FirstPt(f) = FirstPt(e)
    BY <1>4, <2>4 DEF FirstPt
  <2>6. FirstObjects(f) = FirstObjects(e)
    <3>1. CASE From(e) # {Absent}
      BY <2>4, <2>5, <3>1 DEF FirstObjects, FirstPt
    <3>2. CASE From(e) = {Absent}
      <4>1. k # 1 /\ j > 2 /\ Len(e.pts) > 2
        <5>1. f.pts[1] = {Absent}
          BY <1>3, <2>4, <3>2
        <5>2. k # 1
          BY <2>2, <5>1
        <5> QED
          BY <1>1, <2>2, <2>3, <5>2
      <4>2. FirstPt(e) = "thru"
        BY <3>2, <4>1 DEF FirstPt, HasThrus
      <4>3. f.pts[2] = e.pts[2]
        BY <1>1, <1>2, <4>1
      <4> QED
        BY <2>5, <4>2, <4>3 DEF FirstObjects
    <3> QED
      BY <3>1, <3>2
  <2> QED
    BY <2>1, <2>5, <2>6 DEF f, FirstPts
<1> QED
  BY <1>5, <1>6

LEMMA MergeInv ==
  ASSUME ExceptionsInv, Merge
  PROVE  ExceptionsInv'
<1>1. Calling("merge") /\ UNCHANGED <<reset, itr, clocks>>
  BY DEF Merge
<1>2. TypeOK /\ MergesOnTop /\ NoLoop /\ TablesLive /\ TablesMatch
  BY DEF ExceptionsInv, TablesLive, TablesMatch
<1>3. PICK i : i = Top.id
  OBVIOUS
<1>4. i \in Live /\ i \in Ids
  BY <1>1, <1>2, <1>3, TopFrame DEF TablesLive, Calling, Live
<1>5. CASE todo' = Tail(todo) /\ UNCHANGED <<tables, ahead>>
  <2>1. Live' = Live
    BY <1>5 DEF Live, tables
  <2>2. todo' = <<>> \o Tail(todo) /\ todo # <<>>
    BY <1>1, <1>2, <1>5, TopFrame DEF Calling
  <2>3. /\ todo' \in Seq(Frames) /\ MergesOnTop'
        /\ \A f \in Range(todo') : f.op # "merge"
    <3> DEFINE none == <<>>
    <3>1. none \in Seq(Frames) /\ DOMAIN none = {} /\ none = <<>>
      OBVIOUS
    <3> HIDE DEF none
    <3> QED
      BY <1>2, <2>2, <3>1, PushFrames
  <2>4. TypeOK'
    BY <1>1, <1>2, <1>5, <2>3 DEF TypeOK, tables
  <2>5. TablesLive'
    BY <1>1, <1>2, <1>5, <2>1, <2>3 DEF TablesLive, tables
  <2>6. NoLoop'
    BY <1>1, <1>2, <1>5 DEF NoLoop
  <2> QED
    BY <2>3, <2>4, <2>5, <2>6 DEF ExceptionsInv
<1>6. ASSUME NEW j, NEW m \in MergeMatches(i, j), NEW merged, NEW gone,
             merged = WithPt(exception[m], j, exception[m].pts[j] \cup exception[i].pts[j]),
             gone = Unrecorded(i) \cup MergeHashes(m, exception[m]),
             exception' = [exception EXCEPT ![i] = NoException, ![m] = merged],
             first_pts' = (first_pts \ gone) \cup MergedFirstPts(m, merged, j),
             merge_hash' = (merge_hash \ gone) \cup MergeHashes(m, merged),
             ahead' = ahead \ {i},
             todo' = <<[op |-> "merge", id |-> m]>> \o Tail(todo)
      PROVE  ExceptionsInv'
  <2>1. /\ m \in Live /\ m # i
        /\ j \in DOMAIN exception[i].pts /\ exception[i].pts[j] # {Absent}
        /\ j \in DOMAIN exception[m].pts /\ exception[m].pts[j] # {Absent}
    BY <1>4, <1>6, MergeMatchPoint
  <2>2. PICK e, f : e = exception[m] /\ f = exception[i]
    OBVIOUS
  <2>3. e \in ExceptionRecords /\ f \in ExceptionRecords /\ m \in Ids
    BY <1>2, <1>4, <2>1, <2>2, LiveException
  <2>4. PICK pt : pt = e.pts[j] \cup f.pts[j]
    OBVIOUS
  <2>5. pt \in Points /\ pt # {Absent} /\ e.pts[j] \subseteq pt
    BY <2>1, <2>2, <2>3, <2>4, RecordFields, MergedPoint
  <2>6. merged = WithPt(e, j, pt) /\ merged \in ExceptionRecords /\ merged # NoException
    BY <1>6, <2>1, <2>2, <2>3, <2>4, <2>5, WithPtRecord, RecordFields
  <2>7. /\ exception' \in [Ids -> ExceptionRecords \cup {NoException}]
        /\ exception'[i] = NoException /\ exception'[m] = merged
        /\ \A k \in Ids \ {i, m} : exception'[k] = exception[k]
    BY <1>2, <1>4, <1>6, <2>1, <2>3, <2>6 DEF TypeOK
  <2>8. Live' = Live \ {i}
    BY <2>1, <2>3, <2>6, <2>7 DEF Live
  <2>9. /\ \A k : \A x \in FirstPts(k, exception[k]) : x \in gone <=> k = i
        /\ \A k : \A x \in MergeHashes(k, exception[k]) : x \in gone <=> k \in {i, m}
    <3>1. ASSUME NEW k, NEW x \in FirstPts(k, exception[k])
          PROVE  x \in gone <=> k = i
      <4>1. x \in Unrecorded(i) <=> k = i
        BY <3>1, UnrecordedOne
      <4>2. x \notin MergeHashes(m, exception[m])
        BY <3>1, TablesApart
      <4> QED
        BY <1>6, <4>1, <4>2
    <3>2. ASSUME NEW k, NEW x \in MergeHashes(k, exception[k])
          PROVE  x \in gone <=> k \in {i, m}
      <4>1. x \in Unrecorded(i) <=> k = i
        BY <3>2, UnrecordedOne
      <4>2. x \in MergeHashes(m, exception[m]) <=> k = m
        BY <3>2, MergeHashesOwner
      <4> QED
        BY <1>6, <4>1, <4>2
    <3> QED
      BY <3>1, <3>2
  <2>10. merge_hash' = UNION {MergeHashes(k, exception'[k]) : k \in Live'}
    <3>1. merge_hash \ gone = UNION {MergeHashes(k, exception[k]) : k \in Live \ {i, m}}
      BY <1>2, <2>9 DEF TablesMatch
    <3>2. \A k \in Live \ {i, m} : exception'[k] = exception[k]
      BY <2>7 DEF Live
    <3>3. Live' = (Live \ {i, m}) \cup {m}
      BY <2>1, <2>8
    <3>4. UNION {MergeHashes(k, exception'[k]) : k \in Live'}
            = (UNION {MergeHashes(k, exception[k]) : k \in Live \ {i, m}}) \cup MergeHashes(m, merged)
      BY <2>7, <3>2, <3>3
    <3> QED
      BY <1>6, <3>1, <3>4
  <2>11. first_pts' = UNION {FirstPts(k, exception'[k]) : k \in Live'}
    <3>1. first_pts \ gone = UNION {FirstPts(k, exception[k]) : k \in Live \ {i}}
      BY <1>2, <2>9 DEF TablesMatch
    <3>2. \A k \in Live \ {i, m} : exception'[k] = exception[k]
      BY <2>7 DEF Live
    <3>3. FirstPts(m, e) \cup MergedFirstPts(m, merged, j) = FirstPts(m, merged)
      BY <2>1, <2>2, <2>3, <2>5, <2>6, MergedFirst
    <3>4. Live' = (Live \ {i, m}) \cup {m} /\ Live \ {i} = (Live \ {i, m}) \cup {m}
      BY <2>1, <2>8
    <3>5. UNION {FirstPts(k, exception'[k]) : k \in Live'}
            = (UNION {FirstPts(k, exception[k]) : k \in Live \ {i, m}}) \cup FirstPts(m, merged)
      BY <2>7, <3>2, <3>4
    <3>6. first_pts \ gone = (UNION {FirstPts(k, exception[k]) : k \in Live \ {i, m}}) \cup FirstPts(m, e)
      BY <2>2, <3>1, <3>4
    <3> QED
      BY <1>6, <3>3, <3>5, <3>6
  <2> DEFINE frames == <<[op |-> "merge", id |-> m]>>
  <2>12. /\ frames \in Seq(Frames) /\ DOMAIN frames = {1} /\ frames[1].id = m
    BY <2>3 DEF Frames
  <2>13. todo' = frames \o Tail(todo) /\ todo # <<>>
    BY <1>1, <1>6 DEF Calling
  <2> HIDE DEF frames
  <2>14. /\ todo' \in Seq(Frames) /\ MergesOnTop'
         /\ \A g \in Range(todo') : g.op = "merge" => g = frames[1]
    BY <1>2, <2>12, <2>13, PushFrames
  <2>15. \A g \in Range(todo') : g.op = "merge" => g.id \in Live'
    BY <2>1, <2>8, <2>12, <2>14
  <2>16. TypeOK'
    BY <1>1, <1>2, <1>6, <2>7, <2>14 DEF TypeOK
  <2>17. ahead' \subseteq Live' \ {itr'}
    BY <1>1, <1>2, <1>6, <2>8 DEF TablesLive
  <2>18. TablesLive'
    BY <2>10, <2>11, <2>15, <2>17 DEF TablesLive
  <2>19. NoLoop'
    BY <1>1, <1>2, <1>6 DEF NoLoop
  <2> QED
    BY <2>14, <2>16, <2>18, <2>19 DEF ExceptionsInv
<1>7. CASE MergePts(i) = {}
  BY <1>3, <1>5, <1>7 DEF Merge
<1>8. CASE MergePts(i) # {}
  <2> DEFINE j == CHOOSE k \in MergePts(i) : \A l \in MergePts(i) : k <= l
             merged(m) == WithPt(exception[m], j, exception[m].pts[j] \cup exception[i].pts[j])
             gone(m) == Unrecorded(i) \cup MergeHashes(m, exception[m])
  <2>1. PICK m \in MergeMatches(i, j) :
          /\ exception' = [exception EXCEPT ![i] = NoException, ![m] = merged(m)]
          /\ first_pts' = (first_pts \ gone(m)) \cup MergedFirstPts(m, merged(m), j)
          /\ merge_hash' = (merge_hash \ gone(m)) \cup MergeHashes(m, merged(m))
          /\ ahead' = ahead \ {i}
          /\ todo' = <<[op |-> "merge", id |-> m]>> \o Tail(todo)
    BY <1>3, <1>8 DEF Merge
  <2> HIDE DEF j
  <2> QED
    BY <1>6, <2>1
<1> QED
  BY <1>7, <1>8

LEMMA AddReturnsInv ==
  ASSUME ExceptionsInv, AddReturns
  PROVE  ExceptionsInv'
<1>1. TypeOK /\ MergesOnTop /\ NoLoop /\ TablesLive
  BY DEF ExceptionsInv
<1>2. /\ todo # <<>> /\ todo' = Tail(todo)
      /\ UNCHANGED <<tables, reset, itr, ahead, clocks>>
  BY DEF AddReturns, Calling
<1>3. Live' = Live
  BY <1>2 DEF Live, tables
<1>4. /\ todo' \in Seq(Frames) /\ MergesOnTop'
      /\ \A f \in Range(todo') : f.op # "merge"
  BY <1>1, <1>2, TopFrame DEF MergesOnTop, Range
<1>5. TypeOK'
  BY <1>1, <1>2, <1>4 DEF TypeOK, tables
<1>6. TablesLive'
  BY <1>1, <1>2, <1>3, <1>4 DEF TablesLive, tables
<1>7. NoLoop'
  BY <1>1, <1>2 DEF NoLoop
<1> QED
  BY <1>4, <1>5, <1>6, <1>7 DEF ExceptionsInv

\* The iterator goes on to one of S, and the others are ahead of it.
LEMMA NextOfLoop ==
  ASSUME NEW S, S \subseteq Ids, NextOf(S)
  PROVE  /\ itr' \in S \cup {End} /\ ahead' \subseteq S \ {itr'}
         /\ itr' = End => ahead' = {}
<1>1. CASE S = {}
  BY <1>1 DEF NextOf
<1>2. CASE S # {}
  <2>1. PICK i \in S : itr' = i /\ ahead' = S \ {i}
    BY <1>2 DEF NextOf
  <2>2. i # End
    BY ExceptionsAssumption
  <2> QED
    BY <2>1, <2>2
<1> QED
  BY <1>1, <1>2

LEMMA ResetPathInv ==
  ASSUME ExceptionsInv, NEW r \in Resets, ResetPath(r)
  PROVE  ExceptionsInv'
<1>1. TypeOK /\ MergesOnTop /\ TablesLive
  BY DEF ExceptionsInv
<1>2. reset' = r /\ NextOf(Live) /\ UNCHANGED <<tables, todo, clocks>>
  BY DEF ResetPath
<1>3. Live \subseteq Ids /\ Live' = Live
  BY <1>2 DEF Live, tables
<1>4. itr' \in Live \cup {End} /\ ahead' \subseteq Live \ {itr'} /\ (itr' = End => ahead' = {})
  BY <1>2, <1>3, NextOfLoop
<1>5. TypeOK'
  BY <1>1, <1>2, <1>3, <1>4 DEF TypeOK, tables
<1>6. TablesLive'
  BY <1>1, <1>2, <1>3, <1>4 DEF TablesLive, tables
<1>7. MergesOnTop' /\ NoLoop'
  BY <1>1, <1>2, <1>4, ExceptionsAssumption DEF MergesOnTop, NoLoop
<1> QED
  BY <1>5, <1>6, <1>7 DEF ExceptionsInv

LEMMA ResetMatchingInv ==
  ASSUME ExceptionsInv, ResetMatching
  PROVE  ExceptionsInv'
<1>1. TypeOK /\ NoLoop /\ TablesLive
  BY DEF ExceptionsInv
<1>2. PICK i \in Live : i = itr
  BY DEF ResetMatching
<1>3. PICK pieces : pieces = {e \in Expand(exception[i]) : ~ResetMatch(reset, e)}
  OBVIOUS
<1>4. /\ exception' = [exception EXCEPT ![i] = NoException]
      /\ first_pts' = first_pts \ Unrecorded(i)
      /\ merge_hash' = merge_hash \ Unrecorded(i)
      /\ NextOf(ahead) /\ todo' = <<[op |-> "add", exceptions |-> pieces]>>
      /\ reset # NoReset /\ UNCHANGED <<reset, clocks>>
  BY <1>2, <1>3 DEF ResetMatching, Resetting
<1>5. /\ exception' \in [Ids -> ExceptionRecords \cup {NoException}]
      /\ Live' = Live \ {i} /\ TablesMatch'
  <2>1. exception' = [k \in Ids |-> IF k \in {i} THEN NoException ELSE exception[k]]
    BY <1>1, <1>4 DEF TypeOK
  <2>2. UNION {Unrecorded(k) : k \in {i}} = Unrecorded(i)
    OBVIOUS
  <2>3. /\ first_pts' = first_pts \ UNION {Unrecorded(k) : k \in {i}}
        /\ merge_hash' = merge_hash \ UNION {Unrecorded(k) : k \in {i}}
    BY <1>4, <2>2
  <2> QED
    BY <1>2, <2>1, <2>3, DeletedTables
<1>6. ahead \subseteq Live' /\ Live' \subseteq Ids
  BY <1>1, <1>2, <1>5 DEF TablesLive, Live
<1>7. itr' \in ahead \cup {End} /\ ahead' \subseteq ahead \ {itr'} /\ (itr' = End => ahead' = {})
  BY <1>4, <1>6, NextOfLoop
<1> DEFINE frame == [op |-> "add", exceptions |-> pieces]
<1>8. frame \in Frames /\ frame.op = "add"
  <2>1. pieces \subseteq ExceptionRecords
    BY <1>1, <1>3, LiveException, ExpandRecords
  <2> QED
    BY <2>1 DEF Frames
<1>9. todo' = <<frame>>
  BY <1>4
<1> HIDE DEF frame
<1>10. todo' \in Seq(Frames) /\ DOMAIN todo' = {1} /\ todo'[1].op = "add"
  BY <1>8, <1>9
<1>11. TypeOK'
  BY <1>1, <1>4, <1>5, <1>6, <1>7, <1>10 DEF TypeOK
<1>12. TablesLive'
  BY <1>5, <1>6, <1>7, <1>10 DEF TablesLive, TablesMatch, Range
<1>13. MergesOnTop' /\ NoLoop'
  BY <1>4, <1>7, <1>10 DEF MergesOnTop, NoLoop
<1> QED
  BY <1>11, <1>12, <1>13 DEF ExceptionsInv

LEMMA ResetOtherInv ==
  ASSUME ExceptionsInv, ResetOther
  PROVE  ExceptionsInv'
<1>1. TypeOK /\ MergesOnTop /\ TablesLive
  BY DEF ExceptionsInv
<1>2. reset # NoReset /\ NextOf(ahead) /\ UNCHANGED <<tables, todo, reset, clocks>>
  BY DEF ResetOther, Resetting
<1>3. Live \subseteq Ids /\ Live' = Live /\ ahead \subseteq Live
  BY <1>1, <1>2 DEF Live, tables, TablesLive
<1>4. itr' \in Live \cup {End} /\ ahead' \subseteq Live \ {itr'} /\ (itr' = End => ahead' = {})
  BY <1>2, <1>3, NextOfLoop
<1>5. TypeOK'
  BY <1>1, <1>2, <1>3, <1>4 DEF TypeOK, tables
<1>6. TablesLive'
  BY <1>1, <1>2, <1>3, <1>4 DEF TablesLive, tables
<1>7. MergesOnTop' /\ NoLoop'
  BY <1>1, <1>2, <1>4 DEF MergesOnTop, NoLoop
<1> QED
  BY <1>5, <1>6, <1>7 DEF ExceptionsInv

LEMMA ResetReturnsInv ==
  ASSUME ExceptionsInv, ResetReturns
  PROVE  ExceptionsInv'
<1>1. TypeOK /\ MergesOnTop /\ NoLoop /\ TablesLive
  BY DEF ExceptionsInv
<1>2. itr = End /\ reset' = NoReset /\ itr' = NoId /\ UNCHANGED <<tables, todo, ahead, clocks>>
  BY DEF ResetReturns
<1>3. Live' = Live
  BY <1>2 DEF Live, tables
<1>4. ahead = {}
  BY <1>1, <1>2 DEF NoLoop
<1>5. TypeOK' /\ TablesLive' /\ MergesOnTop' /\ NoLoop'
  BY <1>1, <1>2, <1>3, <1>4 DEF TypeOK, TablesLive, MergesOnTop, NoLoop, tables
<1> QED
  BY <1>5 DEF ExceptionsInv

LEMMA RemoveClockInv ==
  ASSUME ExceptionsInv, NEW clk, RemoveClock(clk)
  PROVE  ExceptionsInv'
<1>1. TypeOK /\ MergesOnTop /\ NoLoop /\ TablesLive /\ TablesMatch
  BY DEF ExceptionsInv, TablesLive, TablesMatch
<1>2. /\ todo = <<>> /\ reset = NoReset /\ clocks' = clocks \ {clk}
      /\ UNCHANGED <<todo, reset, itr, ahead>>
  BY DEF RemoveClock, Idle
<1>3. ahead = {} /\ itr = NoId
  BY <1>1, <1>2 DEF NoLoop
<1>4. PICK touched : touched = {i \in Live : clk \in From(exception[i]) \cup To(exception[i])}
  OBVIOUS
<1>5. PICK new : new = [i \in touched |-> WithoutClock(exception[i], clk)]
  OBVIOUS
<1>6. PICK kept : kept = {i \in touched : new[i] # NoException}
  OBVIOUS
<1>7. LET gone == UNION {Unrecorded(i) : i \in touched}
      IN  /\ exception' = [i \in Ids |-> IF i \in touched THEN new[i] ELSE exception[i]]
          /\ first_pts' = (first_pts \ gone) \cup UNION {FirstPts(i, new[i]) : i \in kept}
          /\ merge_hash' = (merge_hash \ gone) \cup UNION {MergeHashes(i, new[i]) : i \in kept}
  BY <1>4, <1>5, <1>6 DEF RemoveClock
<1>8. \A i \in touched : new[i] \in ExceptionRecords \cup {NoException}
  <2> SUFFICES ASSUME NEW i \in touched PROVE new[i] \in ExceptionRecords \cup {NoException}
    OBVIOUS
  <2>1. PICK e \in ExceptionRecords : e = exception[i]
    BY <1>1, <1>4, LiveException
  <2>2. PICK k \in {1, Len(e.pts)} :
          LET f == WithPt(e, k, e.pts[k] \ {clk})
          IN  new[i] = IF f.pts[k] = {} THEN NoException ELSE f
    BY <1>5, <2>1 DEF WithoutClock
  <2>3. k \in DOMAIN e.pts /\ e.pts[k] \ {clk} \in Points
    BY RecordFields, PartPoint
  <2>4. WithPt(e, k, e.pts[k] \ {clk}) \in ExceptionRecords
    BY <2>3, WithPtRecord
  <2> QED
    BY <2>2, <2>4
<1>9. touched \subseteq Live /\ Live \subseteq Ids
  BY <1>4 DEF Live
<1>10. exception' \in [Ids -> ExceptionRecords \cup {NoException}]
  BY <1>1, <1>7, <1>8 DEF TypeOK
<1>11. /\ \A i \in touched : exception'[i] = new[i]
       /\ \A i \in Live \ touched : exception'[i] = exception[i]
       /\ Live' = (Live \ touched) \cup kept
  BY <1>6, <1>7, <1>9 DEF Live
<1>12. kept \cap (Live \ touched) = {} /\ kept \subseteq touched
  BY <1>6
<1>13. TablesMatch'
  <2> DEFINE gone == UNION {Unrecorded(i) : i \in touched}
  <2>1. /\ {FirstPts(i, new[i]) : i \in kept} = {FirstPts(i, exception'[i]) : i \in kept}
        /\ {MergeHashes(i, new[i]) : i \in kept} = {MergeHashes(i, exception'[i]) : i \in kept}
    BY <1>11, <1>12
  <2>2. /\ first_pts' = (first_pts \ gone) \cup UNION {FirstPts(i, exception'[i]) : i \in kept}
        /\ merge_hash' = (merge_hash \ gone) \cup UNION {MergeHashes(i, exception'[i]) : i \in kept}
    BY <1>7, <2>1
  <2> QED
    BY <1>1, <1>9, <1>11, <1>12, <2>2, Rerecorded
<1>14. TypeOK'
  BY <1>1, <1>2, <1>10 DEF TypeOK
<1>15. TablesLive'
  BY <1>2, <1>3, <1>13 DEF TablesLive, TablesMatch, Range
<1>16. MergesOnTop' /\ NoLoop'
  BY <1>1, <1>2, <1>3 DEF MergesOnTop, NoLoop
<1> QED
  BY <1>14, <1>15, <1>16 DEF ExceptionsInv

LEMMA InitInv == Init => ExceptionsInv
<1> SUFFICES ASSUME Init PROVE ExceptionsInv
  OBVIOUS
<1>1. Live = {} /\ todo = <<>> /\ DOMAIN todo = {}
  BY DEF Init, Live
<1>2. todo \in Seq(Frames)
  BY <1>1
<1>3. TypeOK /\ MergesOnTop /\ NoLoop
  BY <1>1, <1>2 DEF Init, TypeOK, MergesOnTop, NoLoop
<1>4. TablesLive
  BY <1>1 DEF Init, TablesLive, Range
<1> QED
  BY <1>3, <1>4 DEF ExceptionsInv

LEMMA StepInv == ExceptionsInv /\ [Next]_vars => ExceptionsInv'
<1> SUFFICES ASSUME ExceptionsInv, [Next]_vars PROVE ExceptionsInv'
  OBVIOUS
<1>1. ASSUME NEW c \in Commands, MakeException(c) PROVE ExceptionsInv'
  BY <1>1, MakeExceptionInv
<1>2. ASSUME NEW e \in (IF Calling("add") THEN Top.exceptions ELSE {}), AddException(e)
      PROVE  ExceptionsInv'
  BY <1>2, AddExceptionInv
<1>3. CASE RecordException
  BY <1>3, RecordExceptionInv
<1>4. CASE Merge
  BY <1>4, MergeInv
<1>5. CASE AddReturns
  BY <1>5, AddReturnsInv
<1>6. ASSUME NEW r \in Resets, ResetPath(r) PROVE ExceptionsInv'
  BY <1>6, ResetPathInv
<1>7. CASE ResetMatching
  BY <1>7, ResetMatchingInv
<1>8. CASE ResetOther
  BY <1>8, ResetOtherInv
<1>9. CASE ResetReturns
  BY <1>9, ResetReturnsInv
<1>10. ASSUME NEW clk \in RemovableClocks, RemoveClock(clk) PROVE ExceptionsInv'
  BY <1>10, RemoveClockInv
<1>11. CASE UNCHANGED vars
  <2>1. Live' = Live
    BY <1>11 DEF vars, tables, Live
  <2> QED
    BY <1>11, <2>1 DEF vars, tables, ExceptionsInv, TypeOK, TablesLive, MergesOnTop, NoLoop
<1> QED
  BY <1>1, <1>2, <1>3, <1>4, <1>5, <1>6, <1>7, <1>8, <1>9, <1>10, <1>11 DEF Next

-----------------------------------------------------------------------------
(* The theorems.                                                           *)

\* The inductive invariant: the state has its types, the tables match the
\* exceptions, only the call on top of the stack merges, and there is an
\* iterator only during a reset.
THEOREM InductiveInvariant == Spec => []ExceptionsInv
BY InitInv, StepInv, PTL DEF Spec

\* Adding, overriding, splitting, merging, breaking up and removing exceptions
\* (addException, mergeException, resetPath, deleteExceptionsReferencing)
\* leave in the two tables the entries of every exception that exists, under
\* the points that it has now, and of no other; and the merge that is to go on
\* and what the iterator of a reset has still to visit exist.
THEOREM LiveTables == Spec => []TablesLive
<1>1. ExceptionsInv => TablesLive
  BY DEF ExceptionsInv
<1> QED
  BY <1>1, InductiveInvariant, PTL
=============================================================================
