----------------------------- MODULE BfsProofs -----------------------------
(***************************************************************************)
(* Proofs about Bfs for any graph, levels and number of threads: a vertex  *)
(* is flagged exactly while one entry of its level is still to be visited, *)
(* and the threads visit a set of vertices in level order.                 *)
(*                                                                         *)
(* The chunks of a level share no entry and together have all of them, and *)
(* a visit only enqueues vertices above the level that is being visited:   *)
(* so no thread touches the vector that others read.                       *)
(***************************************************************************)
EXTENDS Bfs, FiniteSetTheorems, SequenceTheorems, WellFoundedInduction, TLAPS

\* A non-empty set of natural numbers has a least element.
LEMMA LeastNat ==
  ASSUME NEW S, S \subseteq Nat, S # {}
  PROVE  \E x \in S : \A y \in S : x <= y
<1> DEFINE R == {ss \in Nat \X Nat : ss[1] < ss[2]}
<1>1. IsWellFoundedOn(R, Nat)
  BY NatLessThanWellFounded DEF OpToRel
<1>2. \E x \in S : \A y \in S : <<y, x>> \notin R
  <2> HIDE DEF R
  <2> QED
    BY <1>1, WFMin
<1>3. \A x, y \in Nat : <<y, x>> \notin R => x <= y
  OBVIOUS
<1> QED
  <2> HIDE DEF R
  <2> QED
    BY <1>2, <1>3

\* An entry that is still to be visited, as Entries(v) has it.
Waiting(l, i) ==
  l = cur /\ ~Serial => \E t \in Tasks : next[t] <= i /\ i <= last[t]
Entry(v, l, i) ==
  l \in Levels /\ i \in DOMAIN queue[l] /\ queue[l][i] = v /\ Waiting(l, i)

FlaggedOnceInv ==
  \A v \in Vertices :
    /\ in_queue[v] => \E l, i : Entry(v, l, i)
    /\ \A l, i : Entry(v, l, i) => in_queue[v] /\ l = level[v]
    /\ \A l, i, j : Entry(v, l, i) /\ Entry(v, l, j) => i = j
    /\ in_queue[v] => level[v] = cur \/ level[v] \in first_level..last_level

TaskDone(t) == found[t] = {} /\ checked[t] = Null

\* What a call or a visit that is under way leaves of the tasks.
Phases ==
  /\ cur # NoLevel => to_level # NoLevel /\ cur <= to_level /\ cur < first_level
  /\ cur = NoLevel => \A t \in Tasks : TaskDone(t)
  /\ cur = NoLevel \/ Serial => \A t \in Tasks : last[t] < next[t]
  /\ Serial => \A t \in Tasks : t # 1 => TaskDone(t)

\* Each task has entries of its own.
ChunksDisjoint ==
  cur # NoLevel /\ ~Serial =>
    /\ \A t \in Tasks : 1 <= next[t] /\ last[t] <= Len(queue[cur])
    /\ \A t, u \in Tasks : \A i \in Nat :
         next[t] <= i /\ i <= last[t] /\ next[u] <= i /\ i <= last[u] => t = u

\* What a visit enqueues is above the level being visited.
FoundAbove ==
  cur # NoLevel =>
    \A t \in Tasks : /\ \A w \in found[t] : cur < level[w]
                     /\ checked[t] # Null => cur < level[checked[t]]

BfsInv == /\ TypeOK /\ Levelized(level) /\ FlaggedOnceInv /\ Phases /\ ChunksDisjoint
          /\ FoundAbove

-----------------------------------------------------------------------------
(* Chunks.                                                                 *)

LEMMA Monotone ==
  ASSUME NEW a \in Nat, NEW b \in Nat, NEW c \in Nat, a <= b
  PROVE  a * c <= b * c
OBVIOUS

\* A level of n vertices in chunks of n \div k, the last with what is left.
LEMMA ChunkSize ==
  ASSUME NEW n \in Nat, NEW k \in Nat \ {0}
  PROVE  n \div k \in Nat /\ k * (n \div k) <= n
OBVIOUS

LEMMA ChunksCover ==
  ASSUME BfsAssumption, thread_count \in Tasks, NEW n \in Nat
  PROVE  /\ \A t \in Tasks : /\ Chunk(t, n)[1] \in Nat /\ Chunk(t, n)[2] \in Nat
                             /\ 1 <= Chunk(t, n)[1] /\ Chunk(t, n)[2] <= n
         /\ \A i \in 1..n : \E t \in Tasks : Chunk(t, n)[1] <= i /\ i <= Chunk(t, n)[2]
         /\ \A t, u \in Tasks : \A i \in Nat :
              /\ Chunk(t, n)[1] <= i /\ i <= Chunk(t, n)[2]
              /\ Chunk(u, n)[1] <= i /\ i <= Chunk(u, n)[2]
              => t = u
<1> DEFINE k == thread_count
           size == n \div k
<1>1. k \in Nat \ {0} /\ size \in Nat /\ k * size <= n /\ k <= MaxThreads /\ MaxThreads \in Nat
  BY ChunkSize DEF BfsAssumption, Tasks
<1>2. \A t \in Tasks : t \in Nat /\ t >= 1 /\ t - 1 \in Nat
  BY <1>1 DEF Tasks
<1>3. CASE n < k
  <2>1. 1 \in Tasks /\ Chunk(1, n) = <<1, n>>
    BY <1>1, <1>3 DEF Chunk, Tasks
  <2>2. \A t \in Tasks : t # 1 => Chunk(t, n) = <<1, 0>>
    BY <1>1, <1>3 DEF Chunk, Tasks
  <2> QED
    BY <2>1, <2>2
<1>4. CASE n >= k
  <2> DEFINE lo(t) == (t - 1) * size + 1
             hi(t) == IF t = k THEN n ELSE t * size
  <2>1. \A t \in Tasks : t < k => Chunk(t, n) = <<lo(t), hi(t)>>
    BY <1>1, <1>4 DEF Chunk, Tasks
  <2>2. Chunk(k, n) = <<lo(k), hi(k)>>
    BY <1>1, <1>4 DEF Chunk, Tasks
  <2>3. \A t \in Tasks : t > k => Chunk(t, n) = <<1, 0>>
    BY <1>1, <1>4 DEF Chunk, Tasks
  <2>4. \A t \in Tasks : t * size \in Nat /\ (t - 1) * size \in Nat
    BY <1>1, <1>2
  <2>5. \A t, u \in Tasks : t < u => t * size <= (u - 1) * size
    <3>1. \A t, u \in Tasks : t < u => t <= u - 1
      BY <1>2
    <3> QED
      BY <1>1, <1>2, <3>1, Monotone
  <2>6. \A t \in Tasks : t <= k => t * size <= n
    <3>1. \A t \in Tasks : t <= k => t * size <= k * size
      BY <1>1, <1>2, Monotone
    <3>2. k * size \in Nat
      BY <1>1
    <3> QED
      BY <1>1, <2>4, <3>1, <3>2
  <2> HIDE DEF size
  <2>7. \A t \in Tasks : t <= k =>
          /\ Chunk(t, n)[1] = (t - 1) * size + 1
          /\ Chunk(t, n)[2] = IF t = k THEN n ELSE t * size
    BY <1>1, <1>2, <2>1, <2>2 DEF Tasks
  <2>8. \A t \in Tasks : t <= k \/ (Chunk(t, n)[1] = 1 /\ Chunk(t, n)[2] = 0)
    BY <1>1, <1>2, <2>3
  <2>9. \A t \in Tasks : /\ Chunk(t, n)[1] \in Nat /\ Chunk(t, n)[2] \in Nat
                         /\ 1 <= Chunk(t, n)[1] /\ Chunk(t, n)[2] <= n
    BY <1>1, <1>2, <2>4, <2>6, <2>7, <2>8
  <2>10. ASSUME NEW i \in 1..n
         PROVE  \E t \in Tasks : Chunk(t, n)[1] <= i /\ i <= Chunk(t, n)[2]
    <3> DEFINE S == {t \in 1..k : i <= Chunk(t, n)[2]}
    <3>1. 1..k \subseteq Tasks /\ k \in 1..k
      BY <1>1 DEF Tasks
    <3>2. k \in S
      BY <1>1, <2>7, <3>1
    <3>3. S \subseteq Nat
      OBVIOUS
    <3>4. PICK t \in S : \A u \in S : t <= u
      <4> HIDE DEF S
      <4> QED
        BY <3>2, <3>3, LeastNat
    <3>5. t \in Tasks /\ t \in Nat /\ t >= 1 /\ t <= k /\ i <= Chunk(t, n)[2]
      BY <1>1, <3>1, <3>4
    <3>6. CASE t = 1
      BY <1>1, <2>7, <3>5, <3>6
    <3>7. CASE t # 1
      <4>1. t - 1 \in 1..k /\ t - 1 \in Tasks /\ t - 1 # k
        BY <1>1, <3>1, <3>5, <3>7
      <4>2. ~(i <= Chunk(t - 1, n)[2])
        <5>1. t - 1 \notin S
          BY <3>4, <3>5, <4>1
        <5> QED
          BY <4>1, <5>1
      <4>3. Chunk(t - 1, n)[2] = (t - 1) * size
        BY <1>1, <2>7, <3>5, <4>1
      <4> QED
        BY <2>4, <2>7, <3>5, <4>1, <4>2, <4>3
    <3> QED
      BY <3>6, <3>7
  <2>11. ASSUME NEW t \in Tasks, NEW u \in Tasks, NEW i \in Nat, t < u,
                Chunk(t, n)[1] <= i, i <= Chunk(t, n)[2],
                Chunk(u, n)[1] <= i, i <= Chunk(u, n)[2]
         PROVE  FALSE
    <3>1. u <= k /\ t < k
      BY <1>1, <1>2, <2>8, <2>11
    <3>2. Chunk(t, n)[2] = t * size /\ Chunk(u, n)[1] = (u - 1) * size + 1
      BY <1>1, <1>2, <2>7, <3>1
    <3> QED
      BY <2>4, <2>5, <2>11, <3>2
  <2> QED
    BY <1>2, <2>9, <2>10, <2>11
<1> QED
  BY <1>1, <1>3, <1>4

-----------------------------------------------------------------------------
(* Entries.                                                                *)

LEMMA FlaggedOnceEntries ==
  ASSUME BfsAssumption, TypeOK
  PROVE  FlaggedOnceInv => FlaggedOnce
<1>1. SUFFICES ASSUME FlaggedOnceInv, NEW v \in Vertices
               PROVE  /\ in_queue[v] <=> Entries(v) # {}
                      /\ \A e, f \in Entries(v) : e = f
                      /\ \A e \in Entries(v) : e[1] = level[v]
                      /\ in_queue[v] => level[v] = cur \/ level[v] \in first_level..last_level
  BY DEF FlaggedOnce
<1>2. ASSUME NEW e \in Entries(v)
      PROVE  e = <<e[1], e[2]>> /\ Entry(v, e[1], e[2])
  <2>1. PICK l \in Levels : e \in {l} \X DOMAIN queue[l]
    BY DEF Entries, Positions
  <2>2. e = <<e[1], e[2]>> /\ e[1] = l /\ e[2] \in DOMAIN queue[l]
    BY <2>1
  <2> QED
    BY <2>1, <2>2 DEF Entries, Entry, Waiting
<1>3. ASSUME NEW l, NEW i, Entry(v, l, i)
      PROVE  <<l, i>> \in Entries(v)
  <2>1. <<l, i>> \in Positions
    BY <1>3 DEF Entry, Positions
  <2> QED
    BY <1>3, <2>1 DEF Entry, Entries, Waiting
<1>4. \A l, i, j : /\ Entry(v, l, i) => in_queue[v] /\ l = level[v]
                   /\ Entry(v, l, i) /\ Entry(v, l, j) => i = j
  BY <1>1 DEF FlaggedOnceInv
<1>5. in_queue[v] <=> Entries(v) # {}
  <2>1. in_queue[v] => \E l, i : Entry(v, l, i)
    BY <1>1 DEF FlaggedOnceInv
  <2>2. in_queue[v] \in BOOLEAN
    BY DEF TypeOK
  <2> QED
    BY <1>2, <1>3, <1>4, <2>1, <2>2
<1>6. \A e, f \in Entries(v) : e = f
  BY <1>2, <1>4
<1>7. in_queue[v] => level[v] = cur \/ level[v] \in first_level..last_level
  BY <1>1 DEF FlaggedOnceInv
<1> QED
  BY <1>2, <1>4, <1>5, <1>6, <1>7

\* A step that only takes out the entries of the vertices of S, and clears
\* their flags.
LEMMA DropEntries ==
  ASSUME FlaggedOnceInv, NEW S,
         \A w \in Vertices : in_queue'[w] => in_queue[w] /\ w \notin S,
         \A w \in Vertices : in_queue[w] /\ w \notin S => in_queue'[w],
         \A w \in Vertices : w \notin S => level'[w] = level[w],
         \A w \in Vertices : \A l, i : Entry(w, l, i)' <=> Entry(w, l, i) /\ w \notin S,
         \A w \in Vertices : in_queue'[w] =>
           level'[w] = cur' \/ level'[w] \in first_level'..last_level'
  PROVE  FlaggedOnceInv'
BY DEF FlaggedOnceInv

LEMMA SameEntries ==
  ASSUME FlaggedOnceInv, UNCHANGED <<in_queue, level>>,
         \A w \in Vertices : \A l, i : Entry(w, l, i)' <=> Entry(w, l, i),
         \A w \in Vertices : in_queue'[w] =>
           level'[w] = cur' \/ level'[w] \in first_level'..last_level'
  PROVE  FlaggedOnceInv'
BY DEF FlaggedOnceInv

\* A step that adds an entry of a vertex that was not flagged, and flags it.
LEMMA AddEntry ==
  ASSUME FlaggedOnceInv, NEW v \in Vertices, ~in_queue[v], NEW n,
         in_queue'[v],
         \A w \in Vertices : w # v => (in_queue'[w] <=> in_queue[w]),
         \A w \in Vertices : level'[w] = level[w],
         \A w \in Vertices : \A l, i :
           Entry(w, l, i)' <=> Entry(w, l, i) \/ (w = v /\ l = level[v] /\ i = n),
         \A w \in Vertices : in_queue'[w] =>
           level'[w] = cur' \/ level'[w] \in first_level'..last_level'
  PROVE  FlaggedOnceInv'
<1>1. ASSUME NEW w \in Vertices, w # v
      PROVE  /\ \A l, i : Entry(w, l, i)' <=> Entry(w, l, i)
             /\ in_queue'[w] <=> in_queue[w]
  BY <1>1
<1>2. \A l, i : Entry(v, l, i)' <=> l = level[v] /\ i = n
  BY DEF FlaggedOnceInv
<1>3. ASSUME NEW w \in Vertices
      PROVE  /\ in_queue'[w] => \E l, i : Entry(w, l, i)'
             /\ \A l, i : Entry(w, l, i)' => in_queue'[w] /\ l = level'[w]
             /\ \A l, i, j : Entry(w, l, i)' /\ Entry(w, l, j)' => i = j
  <2>1. CASE w = v
    BY <1>2, <2>1
  <2>2. CASE w # v
    BY <1>1, <2>2 DEF FlaggedOnceInv
  <2> QED
    BY <2>1, <2>2
<1> QED
  BY <1>3 DEF FlaggedOnceInv

LEMMA Numbers ==
  ASSUME BfsAssumption, TypeOK
  PROVE  /\ MaxLevel \in Nat /\ Levels \subseteq Nat /\ Tasks \subseteq Nat /\ 1 \in Tasks
         /\ \A l \in Levels : l <= MaxLevel
         /\ first_level \in Nat /\ last_level \in Nat /\ first_level <= MaxLevel + 1
         /\ last_level <= MaxLevel /\ thread_count \in Nat /\ thread_count # 0
         /\ \A v \in Vertices : level[v] \in Levels /\ level[v] \in Nat /\ in_queue[v] \in BOOLEAN
         /\ \A l \in Levels : /\ queue[l] \in Seq(Vertices \cup {Null})
                              /\ Len(queue[l]) \in Nat /\ DOMAIN queue[l] = 1..Len(queue[l])
<1>1. MaxLevel \in Nat /\ Levels = 0..MaxLevel /\ Tasks = 1..MaxThreads /\ MaxThreads \in Nat \ {0}
  BY DEF BfsAssumption, Levels, Tasks
<1>2. \A l \in Levels : /\ queue[l] \in Seq(Vertices \cup {Null})
                        /\ Len(queue[l]) \in Nat /\ DOMAIN queue[l] = 1..Len(queue[l])
  BY LenProperties DEF TypeOK
<1> QED
  BY <1>1, <1>2 DEF TypeOK

LEMMA WaitingIdle ==
  ASSUME BfsAssumption, cur = NoLevel \/ Serial
  PROVE  \A l \in Levels : \A i : Waiting(l, i)
BY DEF Waiting, BfsAssumption

-----------------------------------------------------------------------------
(* The invariant, step by step.                                            *)

LEMMA InitBfsInv == BfsAssumption /\ Init => BfsInv
<1> SUFFICES ASSUME BfsAssumption, Init PROVE BfsInv
  OBVIOUS
<1>1. MaxLevel \in Nat /\ Levels = 0..MaxLevel /\ Tasks = 1..MaxThreads /\ MaxThreads \in Nat \ {0}
  BY DEF BfsAssumption, Levels, Tasks
<1>2. \A l \in Levels : queue[l] = <<>> /\ DOMAIN queue[l] = {}
  BY DEF Init
<1>3. TypeOK
  <2>1. queue \in [Levels -> Seq(Vertices \cup {Null})]
    BY EmptySeq DEF Init
  <2> QED
    BY <1>1, <2>1 DEF Init, TypeOK, BfsAssumption
<1>4. Levelized(level)
  BY DEF Init, BfsAssumption
<1>5. FlaggedOnceInv
  BY <1>2 DEF Init, FlaggedOnceInv, Entry
<1>6. Phases /\ ChunksDisjoint /\ FoundAbove
  BY <1>1 DEF Init, Phases, ChunksDisjoint, FoundAbove, TaskDone
<1> QED
  BY <1>3, <1>4, <1>5, <1>6 DEF BfsInv

\* A vertex above the level being visited is enqueued under the lock.
LEMMA LockedEnqueueInv ==
  ASSUME BfsAssumption, BfsInv, NEW v \in Vertices, LockedEnqueue(v),
         cur # NoLevel => cur < level[v],
         UNCHANGED <<visitVars, next, last>>
  PROVE  /\ FlaggedOnceInv' /\ ChunksDisjoint'
         /\ in_queue' \in [Vertices -> BOOLEAN]
         /\ queue' \in [Levels -> Seq(Vertices \cup {Null})]
         /\ first_level' \in 0..(MaxLevel + 1) /\ last_level' \in Levels
         /\ cur # NoLevel => cur < first_level'
         /\ \A w \in Vertices : in_queue'[w] <=> in_queue[w] \/ w = v
<1> USE DEF BfsInv
<1>1. CASE in_queue[v]
  <2>1. UNCHANGED <<queueVars, visitVars, next, last>>
    BY <1>1 DEF LockedEnqueue
  <2>2. \A w \in Vertices : \A l, i : Entry(w, l, i)' <=> Entry(w, l, i)
    BY <2>1 DEF Entry, Waiting, Serial, queueVars, visitVars
  <2>3. FlaggedOnceInv'
    BY <2>1, <2>2 DEF FlaggedOnceInv, queueVars, visitVars
  <2>4. ChunksDisjoint'
    BY <2>1 DEF ChunksDisjoint, Serial, queueVars, visitVars
  <2> QED
    BY <1>1, <2>1, <2>3, <2>4, Numbers DEF queueVars, TypeOK, Phases
<1>2. CASE ~in_queue[v]
  <2> DEFINE n == Len(queue[level[v]]) + 1
  <2>1. Push(v)
    BY <1>2 DEF LockedEnqueue
  <2>2. level[v] \in Levels /\ level[v] # cur /\ level[v] \in Nat
    BY Numbers DEF BfsAssumption
  <2>3. /\ Append(queue[level[v]], v) \in Seq(Vertices \cup {Null})
        /\ DOMAIN Append(queue[level[v]], v) = 1..n
        /\ \A i \in DOMAIN queue[level[v]] : Append(queue[level[v]], v)[i] = queue[level[v]][i]
        /\ Append(queue[level[v]], v)[n] = v
        /\ \A i : i \in 1..n <=> i \in DOMAIN queue[level[v]] \/ i = n
    <3>1. queue[level[v]] \in Seq(Vertices \cup {Null}) /\ v \in Vertices \cup {Null}
      BY <2>2, Numbers
    <3>2. /\ Append(queue[level[v]], v) \in Seq(Vertices \cup {Null})
          /\ Len(Append(queue[level[v]], v)) = n
          /\ \A i \in 1..Len(queue[level[v]]) : Append(queue[level[v]], v)[i] = queue[level[v]][i]
          /\ Append(queue[level[v]], v)[n] = v
      BY <3>1, AppendProperties
    <3>3. n = Len(queue[level[v]]) + 1 /\ Len(queue[level[v]]) \in Nat
      BY <2>2, <3>1, LenProperties
    <3>4. DOMAIN queue[level[v]] = 1..Len(queue[level[v]])
      BY <3>1, LenProperties
    <3>5. DOMAIN Append(queue[level[v]], v) = 1..n
      BY <3>2, LenProperties
    <3>6. \A i : i \in 1..n <=> i \in DOMAIN queue[level[v]] \/ i = n
      <4> HIDE DEF n
      <4> QED
        BY ONLY <3>3, <3>4
    <3> HIDE DEF n
    <3> QED
      BY ONLY <3>2, <3>4, <3>5, <3>6
  <2>4. /\ queue' = [queue EXCEPT ![level[v]] = Append(queue[level[v]], v)]
        /\ queue \in [Levels -> Seq(Vertices \cup {Null})]
    BY <2>1 DEF Push, TypeOK
  <2>5. /\ queue' \in [Levels -> Seq(Vertices \cup {Null})]
        /\ queue'[level[v]] = Append(queue[level[v]], v)
        /\ \A l \in Levels : l # level[v] => queue'[l] = queue[l]
    BY <2>2, <2>3, <2>4
  <2>6. /\ in_queue' \in [Vertices -> BOOLEAN] /\ in_queue'[v]
        /\ \A w \in Vertices : w # v => in_queue'[w] = in_queue[w]
    BY <2>1 DEF Push, TypeOK
  <2>7. /\ first_level' \in 0..(MaxLevel + 1) /\ last_level' \in Levels
        /\ first_level' <= first_level /\ first_level' <= level[v]
        /\ last_level <= last_level' /\ level[v] <= last_level'
        /\ first_level' = first_level \/ first_level' = level[v]
    BY <2>1, <2>2, Numbers DEF Push, Levels
  <2>8. ASSUME NEW w \in Vertices, NEW l, NEW i
        PROVE  Entry(w, l, i)' <=> Entry(w, l, i) \/ (w = v /\ l = level[v] /\ i = n)
    <3>1. Waiting(l, i)' <=> Waiting(l, i)
      BY DEF Waiting, Serial, visitVars
    <3>2. CASE l \in Levels /\ l # level[v]
      BY <2>5, <3>1, <3>2 DEF Entry
    <3>3. CASE l = level[v]
      <4>1. Waiting(l, i)
        BY <2>2, <3>3 DEF Waiting
      <4>2. n \notin DOMAIN queue[l]
        BY <2>2, <3>3, Numbers
      <4> QED
        BY <2>2, <2>3, <2>5, <3>1, <3>3, <4>1, <4>2 DEF Entry
    <3>4. CASE l \notin Levels
      BY <2>2, <3>4 DEF Entry
    <3> QED
      BY <3>2, <3>3, <3>4
  <2>9. ASSUME NEW w \in Vertices, in_queue'[w]
        PROVE  level'[w] = cur' \/ level'[w] \in first_level'..last_level'
    <3>1. w = v \/ level[w] = cur \/ level[w] \in first_level..last_level
      BY <2>6, <2>9 DEF FlaggedOnceInv
    <3>2. first_level' \in Int /\ last_level' \in Int /\ level[w] \in Int
      BY <2>7, Numbers
    <3> QED
      BY <2>7, <3>1, <3>2, Numbers DEF visitVars
  <2>10. FlaggedOnceInv'
    <3> HIDE DEF n
    <3> QED
      BY <1>2, <2>6, <2>8, <2>9, AddEntry DEF visitVars
  <2>11. ChunksDisjoint'
    <3>1. cur # NoLevel => queue'[cur] = queue[cur]
      BY <2>2, <2>5 DEF TypeOK
    <3> QED
      BY <3>1 DEF ChunksDisjoint, Serial, visitVars
  <2>12. cur # NoLevel => cur < first_level'
    BY <2>7, Numbers DEF Phases, TypeOK
  <2> QED
    BY <2>5, <2>6, <2>7, <2>10, <2>11, <2>12
<1> QED
  BY <1>1, <1>2 DEF TypeOK

\* An entry of the level vectors is emptied between visits.
LEMMA RemoveEntryInv ==
  ASSUME BfsAssumption, BfsInv, cur = NoLevel, NEW v \in Vertices, RemoveEntry(v),
         UNCHANGED <<thread_count, to_level, cur, taskVars>>,
         \A w \in Vertices : w # v => level'[w] = level[w]
  PROVE  /\ FlaggedOnceInv'
         /\ in_queue' \in [Vertices -> BOOLEAN]
         /\ queue' \in [Levels -> Seq(Vertices \cup {Null})]
         /\ UNCHANGED <<first_level, last_level>>
         /\ \A w \in Vertices : in_queue'[w] <=> in_queue[w] /\ w # v
<1> USE DEF BfsInv
<1> DEFINE q == queue[level[v]]
<1>1. \A l \in Levels : \A i : Waiting(l, i) /\ Waiting(l, i)'
  BY WaitingIdle DEF Waiting, BfsAssumption
<1>2. level[v] \in Levels /\ q \in Seq(Vertices \cup {Null}) /\ v # Null
      /\ DOMAIN q = 1..Len(q) /\ Len(q) \in Nat
  BY Numbers DEF BfsAssumption
<1>3. in_queue[v] => \E i \in DOMAIN q : q[i] = v
  BY DEF FlaggedOnceInv, Entry
<1>4. \A i \in DOMAIN q : q[i] = v => Entry(v, level[v], i)
  BY <1>1, <1>2 DEF Entry
<1>5. \A i, j : Entry(v, level[v], i) /\ Entry(v, level[v], j) => i = j
  BY DEF FlaggedOnceInv
<1>6. CASE ~in_queue[v]
  <2>1. UNCHANGED queueVars
    BY <1>6 DEF RemoveEntry
  <2>2. \A w \in Vertices : \A l, i : Entry(w, l, i)' <=> Entry(w, l, i) /\ w \notin {v}
    BY <1>1, <1>6, <2>1 DEF Entry, queueVars, FlaggedOnceInv
  <2>3. \A w \in Vertices : in_queue'[w] => level'[w] \in first_level'..last_level'
    BY <1>2, <1>6, <2>1, Numbers DEF FlaggedOnceInv, queueVars, BfsAssumption
  <2>4. FlaggedOnceInv'
    BY <1>6, <2>1, <2>2, <2>3, DropEntries DEF queueVars
  <2> QED
    BY <1>6, <2>1, <2>4 DEF queueVars, TypeOK
<1>7. CASE in_queue[v]
  <2>1. PICK first \in DOMAIN q :
             /\ q[first] = v
             /\ queue' = [queue EXCEPT ![level[v]][first] = Null]
             /\ in_queue' = [in_queue EXCEPT ![v] = FALSE]
             /\ UNCHANGED <<first_level, last_level>>
    <3> DEFINE IsFirst(i) == i \in DOMAIN q /\ q[i] = v /\ \A j \in DOMAIN q : q[j] = v => i <= j
    <3>1. PICK i \in DOMAIN q : q[i] = v
      BY <1>3, <1>7
    <3>2. \A j \in DOMAIN q : q[j] = v => j = i
      BY <1>4, <1>5, <3>1
    <3>3. IsFirst(i)
      BY <1>2, <3>1, <3>2
    <3>4. (CHOOSE k \in DOMAIN q : q[k] = v /\ \A j \in DOMAIN q : q[j] = v => k <= j) = i
      BY <3>1, <3>2, <3>3
    <3> QED
      BY <1>7, <3>1, <3>4 DEF RemoveEntry
  <2> DEFINE r == [q EXCEPT ![first] = Null]
  <2>2. /\ queue' \in [Levels -> Seq(Vertices \cup {Null})]
        /\ queue'[level[v]] = r
        /\ \A l \in Levels : l # level[v] => queue'[l] = queue[l]
    <3>1. r \in Seq(Vertices \cup {Null})
      BY <1>2, ExceptSeq
    <3>2. queue' = [queue EXCEPT ![level[v]] = r]
      BY <2>1
    <3>3. queue \in [Levels -> Seq(Vertices \cup {Null})]
      BY DEF TypeOK
    <3> HIDE DEF r
    <3> QED
      BY <1>2, <3>1, <3>2, <3>3
  <2>3. /\ in_queue' \in [Vertices -> BOOLEAN] /\ ~in_queue'[v]
        /\ \A w \in Vertices : w # v => in_queue'[w] = in_queue[w]
    BY <2>1 DEF TypeOK
  <2>4. ASSUME NEW w \in Vertices, NEW l, NEW i
        PROVE  Entry(w, l, i)' <=> Entry(w, l, i) /\ w \notin {v}
    <3>1. w # Null
      BY DEF BfsAssumption
    <3>2. CASE l = level[v] /\ w # v
      <4>1. l \in Levels /\ queue'[l] = [queue[l] EXCEPT ![first] = Null] /\ queue[l][first] = v
        BY <1>2, <2>1, <2>2, <3>2
      <4> QED
        BY <1>1, <3>1, <3>2, <4>1 DEF Entry
    <3>3. CASE w = v
      <4>1. Entry(v, l, i) => l = level[v]
        BY DEF FlaggedOnceInv
      <4>2. l # level[v] => ~Entry(v, l, i)'
        BY <1>1, <2>2, <4>1 DEF Entry
      <4>3. Entry(v, level[v], first)
        BY <1>1, <1>2, <2>1 DEF Entry
      <4>4. \A j \in DOMAIN q : q[j] = v => j = first
        BY <1>4, <1>5, <4>3
      <4>5. l = level[v] => ~Entry(v, l, i)'
        BY <1>2, <2>1, <2>2, <4>4 DEF Entry
      <4> QED
        BY <3>3, <4>2, <4>5
    <3>4. CASE l # level[v] /\ w # v
      BY <1>1, <2>2, <3>4 DEF Entry
    <3> QED
      BY <3>2, <3>3, <3>4
  <2>5. \A w \in Vertices : in_queue'[w] => level'[w] \in first_level'..last_level'
    <3>1. \A w \in Vertices : in_queue'[w] => in_queue[w] /\ level'[w] = level[w]
      BY <2>3
    <3>2. \A w \in Vertices : in_queue[w] => level[w] \in first_level..last_level
      BY Numbers DEF FlaggedOnceInv, BfsAssumption
    <3> QED
      BY ONLY <2>1, <3>1, <3>2
  <2>6. FlaggedOnceInv'
    <3>1. /\ \A w \in Vertices : in_queue'[w] => in_queue[w] /\ w \notin {v}
          /\ \A w \in Vertices : in_queue[w] /\ w \notin {v} => in_queue'[w]
          /\ \A w \in Vertices : w \notin {v} => level'[w] = level[w]
      BY <2>3
    <3> QED
      BY ONLY <2>4, <2>5, <3>1, FlaggedOnceInv, DropEntries
  <2> QED
    BY <2>1, <2>2, <2>3, <2>6
<1> QED
  BY <1>6, <1>7, Numbers

\* A step between visits or between levels that leaves the tasks alone.
LEMMA BetweenLevels ==
  ASSUME BfsInv, cur = NoLevel, cur' = NoLevel, UNCHANGED taskVars
  PROVE  Phases' /\ ChunksDisjoint' /\ FoundAbove'
BY DEF BfsInv, Phases, ChunksDisjoint, FoundAbove, TaskDone, taskVars

LEMMA EnqueueInv ==
  ASSUME BfsAssumption, BfsInv, NEW v \in Vertices, Enqueue(v)
  PROVE  BfsInv'
<1>1. cur = NoLevel /\ UNCHANGED <<visitVars, taskVars>> /\ LockedEnqueue(v)
  BY DEF Enqueue, Idle, BfsInv, Phases, visitVars
<1>2. /\ FlaggedOnceInv' /\ in_queue' \in [Vertices -> BOOLEAN]
      /\ queue' \in [Levels -> Seq(Vertices \cup {Null})]
      /\ first_level' \in 0..(MaxLevel + 1) /\ last_level' \in Levels
  BY <1>1, LockedEnqueueInv DEF taskVars
<1>3. Phases' /\ ChunksDisjoint' /\ FoundAbove'
  BY <1>1, BetweenLevels DEF visitVars
<1> QED
  BY <1>1, <1>2, <1>3 DEF BfsInv, TypeOK, Levelized, visitVars, taskVars

LEMMA RemoveInv ==
  ASSUME BfsAssumption, BfsInv, NEW v \in Vertices, Remove(v)
  PROVE  BfsInv'
<1>1. /\ cur = NoLevel /\ RemoveEntry(v)
      /\ UNCHANGED <<thread_count, to_level, cur, taskVars>> /\ UNCHANGED level
  BY DEF Remove, Idle, BfsInv, Phases
<1>2. /\ FlaggedOnceInv' /\ in_queue' \in [Vertices -> BOOLEAN]
      /\ queue' \in [Levels -> Seq(Vertices \cup {Null})]
      /\ UNCHANGED <<first_level, last_level>>
  BY <1>1, RemoveEntryInv
<1>3. Phases' /\ ChunksDisjoint' /\ FoundAbove'
  BY <1>1, BetweenLevels
<1> QED
  BY <1>1, <1>2, <1>3 DEF BfsInv, TypeOK, Levelized, taskVars

LEMMA ChangeLevelInv ==
  ASSUME BfsAssumption, BfsInv, NEW v \in Vertices, NEW l \in Levels, ChangeLevel(v, l)
  PROVE  BfsInv'
<1>1. /\ cur = NoLevel /\ RemoveEntry(v)
      /\ UNCHANGED <<thread_count, to_level, cur, taskVars>>
      /\ level' = [level EXCEPT ![v] = l] /\ Levelized(level')
  BY DEF ChangeLevel, Idle, BfsInv, Phases
<1>2. /\ level' \in [Vertices -> Levels]
      /\ \A w \in Vertices : w # v => level'[w] = level[w]
  BY <1>1 DEF BfsInv, TypeOK
<1>3. /\ FlaggedOnceInv' /\ in_queue' \in [Vertices -> BOOLEAN]
      /\ queue' \in [Levels -> Seq(Vertices \cup {Null})]
      /\ UNCHANGED <<first_level, last_level>>
  BY <1>1, <1>2, RemoveEntryInv
<1>4. Phases' /\ ChunksDisjoint' /\ FoundAbove'
  BY <1>1, BetweenLevels
<1>5. Levelized(level)'
  BY <1>1 DEF Levelized
<1> QED
  BY <1>1, <1>2, <1>3, <1>4, <1>5 DEF BfsInv, TypeOK, taskVars

\* Clear empties the vectors that have entries, and so clears every flag.
LEMMA ClearInv ==
  ASSUME BfsAssumption, BfsInv, Clear
  PROVE  BfsInv' /\ \A w \in Vertices : ~in_queue'[w]
<1> USE DEF BfsInv
<1> DEFINE cleared == first_level..last_level
<1>1. cur = NoLevel /\ UNCHANGED <<visitVars, taskVars>>
  BY DEF Clear, Idle, Phases, visitVars
<1>2. /\ in_queue' = [w \in Vertices |->
           in_queue[w] /\ ~\E l \in cleared : \E i \in DOMAIN queue[l] : queue[l][i] = w]
      /\ queue' = [l \in Levels |-> IF l \in cleared THEN <<>> ELSE queue[l]]
      /\ first_level' = MaxLevel /\ last_level' = 0
  BY DEF Clear
<1>3. \A l \in Levels : \A i : Waiting(l, i) /\ Waiting(l, i)'
  BY <1>1, WaitingIdle DEF Waiting, BfsAssumption, visitVars
<1>4. ASSUME NEW w \in Vertices PROVE ~in_queue'[w]
  <2>1. in_queue[w] => level[w] \in cleared
    BY <1>1, Numbers DEF FlaggedOnceInv, BfsAssumption
  <2>2. in_queue[w] => \E i \in DOMAIN queue[level[w]] : queue[level[w]][i] = w
    BY DEF FlaggedOnceInv, Entry
  <2> QED
    BY <1>2, <2>1, <2>2
<1>5. ASSUME NEW w \in Vertices, NEW l, NEW i PROVE ~Entry(w, l, i)'
  <2>1. SUFFICES ASSUME l \in Levels, i \in DOMAIN queue'[l], queue'[l][i] = w PROVE FALSE
    BY DEF Entry
  <2>2. CASE l \in cleared
    BY <1>2, <2>1, <2>2
  <2>3. CASE l \notin cleared
    <3>1. Entry(w, l, i)
      BY <1>2, <1>3, <2>1, <2>3 DEF Entry
    <3>2. in_queue[w] /\ l = level[w]
      BY <3>1 DEF FlaggedOnceInv
    <3> QED
      BY <1>1, <2>3, <3>2, Numbers DEF FlaggedOnceInv, BfsAssumption
  <2> QED
    BY <2>2, <2>3
<1>6. FlaggedOnceInv'
  BY <1>4, <1>5 DEF FlaggedOnceInv
<1>7. TypeOK'
  <2>1. queue' \in [Levels -> Seq(Vertices \cup {Null})]
    BY <1>2, Numbers, EmptySeq
  <2>2. in_queue' \in [Vertices -> BOOLEAN]
    BY <1>2 DEF TypeOK
  <2>3. first_level' \in 0..(MaxLevel + 1) /\ last_level' \in Levels
    BY <1>2, Numbers DEF Levels
  <2> QED
    BY <1>1, <2>1, <2>2, <2>3 DEF TypeOK, visitVars, taskVars
<1>8. Phases' /\ ChunksDisjoint' /\ FoundAbove'
  BY <1>1, BetweenLevels DEF visitVars
<1> QED
  BY <1>1, <1>4, <1>6, <1>7, <1>8 DEF Levelized, visitVars

\* The steps that only change thread_count or to_level.
LEMMA VisitBoundsInv ==
  ASSUME BfsAssumption, BfsInv, UNCHANGED <<level, queueVars, cur, taskVars>>,
         \/ \E n \in Tasks : SetThreadCount(n)
         \/ \E l \in Levels : StartVisit(l)
         \/ EndVisit
  PROVE  BfsInv'
<1>1. cur = NoLevel /\ cur' = NoLevel
  BY DEF BfsInv, SetThreadCount, StartVisit, EndVisit, Phases
<1>2. \A l \in Levels : \A i : Waiting(l, i) /\ Waiting(l, i)'
  BY <1>1 DEF Waiting, BfsAssumption
<1>3. \A w \in Vertices : \A l, i : Entry(w, l, i)' <=> Entry(w, l, i)
  BY <1>2 DEF Entry, queueVars
<1>4. FlaggedOnceInv'
  BY <1>3 DEF BfsInv, FlaggedOnceInv, queueVars
<1>5. TypeOK'
  BY DEF BfsInv, TypeOK, SetThreadCount, StartVisit, EndVisit, queueVars, taskVars
<1>6. Phases' /\ ChunksDisjoint' /\ FoundAbove'
  BY <1>1, BetweenLevels
<1> QED
  BY <1>4, <1>5, <1>6 DEF BfsInv, Levelized

\* The visit goes on to the first queued level, whose entries are its tasks'.
LEMMA NextLevelFacts ==
  ASSUME BfsAssumption, BfsInv, NextLevel, found' = found, checked' = checked,
         \A l, i : l = first_level /\ i \in DOMAIN queue[l] => Waiting(l, i)'
  PROVE  /\ cur = NoLevel /\ cur' = first_level /\ cur' \in Levels /\ first_level' = first_level + 1
         /\ first_level' \in 0..(MaxLevel + 1) /\ cur' <= to_level' /\ to_level' # NoLevel
         /\ FlaggedOnceInv' /\ FoundAbove' /\ \A t \in Tasks : TaskDone(t)'
<1> USE DEF BfsInv
<1>1. /\ cur = NoLevel /\ cur' = first_level /\ first_level' = first_level + 1
      /\ first_level <= last_level /\ first_level <= to_level /\ to_level # NoLevel
      /\ UNCHANGED <<thread_count, level, in_queue, queue, last_level, to_level>>
  BY DEF NextLevel, MoreLevels
<1>2. cur' \in Levels /\ first_level' \in 0..(MaxLevel + 1)
  BY <1>1, Numbers DEF Levels
<1>3. \A w \in Vertices : \A l, i : Entry(w, l, i)' <=> Entry(w, l, i)
  <2>1. ASSUME NEW w \in Vertices, NEW l \in Levels, NEW i \in DOMAIN queue[l]
        PROVE  Waiting(l, i)' /\ Waiting(l, i)
    <3>1. Waiting(l, i)
      BY <1>1, WaitingIdle
    <3>2. l = first_level => Waiting(l, i)'
      BY <2>1
    <3>3. l # first_level => Waiting(l, i)'
      BY <1>1 DEF Waiting
    <3> QED
      BY <3>1, <3>2, <3>3
  <2> QED
    BY <1>1, <2>1 DEF Entry
<1>4. ASSUME NEW w \in Vertices, in_queue'[w]
      PROVE  level'[w] = cur' \/ level'[w] \in first_level'..last_level'
  BY <1>1, <1>4, Numbers DEF FlaggedOnceInv, BfsAssumption
<1>5. FlaggedOnceInv'
  BY <1>1, <1>3, <1>4, SameEntries
<1>6. \A t \in Tasks : TaskDone(t)'
  BY <1>1 DEF Phases, TaskDone
<1>7. FoundAbove'
  BY <1>6 DEF FoundAbove, TaskDone
<1> QED
  BY <1>1, <1>2, <1>5, <1>6, <1>7

LEMMA NextLevelSerialInv ==
  ASSUME BfsAssumption, BfsInv, NextLevelSerial
  PROVE  BfsInv'
<1> USE DEF BfsInv
<1>1. /\ Serial /\ Serial' /\ NextLevel /\ UNCHANGED taskVars
      /\ UNCHANGED <<thread_count, level, in_queue, queue, last_level, to_level>>
  BY DEF NextLevelSerial, NextLevel, Serial
<1>2. \A l, i : l = first_level /\ i \in DOMAIN queue[l] => Waiting(l, i)'
  BY <1>1 DEF Waiting
<1>3. /\ cur = NoLevel /\ cur' = first_level /\ cur' \in Levels /\ first_level' = first_level + 1
      /\ first_level' \in 0..(MaxLevel + 1) /\ cur' <= to_level' /\ to_level' # NoLevel
      /\ FlaggedOnceInv' /\ FoundAbove' /\ \A t \in Tasks : TaskDone(t)'
  BY <1>1, <1>2, NextLevelFacts DEF taskVars
<1>4. Phases' /\ ChunksDisjoint'
  BY <1>1, <1>3, Numbers DEF Phases, ChunksDisjoint, taskVars
<1> QED
  BY <1>1, <1>3, <1>4 DEF TypeOK, Levelized, taskVars

LEMMA NextLevelParallelInv ==
  ASSUME BfsAssumption, BfsInv, NextLevelParallel
  PROVE  BfsInv'
<1> USE DEF BfsInv
<1> DEFINE n == Len(queue[first_level])
<1>1. /\ ~Serial /\ ~Serial' /\ NextLevel /\ UNCHANGED <<found, checked>>
      /\ UNCHANGED <<thread_count, level, in_queue, queue, last_level, to_level>>
      /\ cur' = first_level /\ first_level <= last_level
      /\ next' = [t \in Tasks |-> Chunk(t, n)[1]]
      /\ last' = [t \in Tasks |-> Chunk(t, n)[2]]
  BY DEF NextLevelParallel, NextLevel, Serial, MoreLevels
<1>2. first_level \in Levels /\ n \in Nat /\ DOMAIN queue[first_level] = 1..n
  BY <1>1, Numbers DEF Levels
<1>3. /\ \A t \in Tasks : /\ Chunk(t, n)[1] \in Nat /\ Chunk(t, n)[2] \in Nat
                          /\ 1 <= Chunk(t, n)[1] /\ Chunk(t, n)[2] <= n
      /\ \A i \in 1..n : \E t \in Tasks : Chunk(t, n)[1] <= i /\ i <= Chunk(t, n)[2]
      /\ \A t, u \in Tasks : \A i \in Nat :
           /\ Chunk(t, n)[1] <= i /\ i <= Chunk(t, n)[2]
           /\ Chunk(u, n)[1] <= i /\ i <= Chunk(u, n)[2]
           => t = u
  <2>1. thread_count \in Tasks
    BY DEF TypeOK
  <2> QED
    BY <1>2, <2>1, ChunksCover
<1> HIDE DEF n
<1>4. \A l, i : l = first_level /\ i \in DOMAIN queue[l] => Waiting(l, i)'
  BY <1>1, <1>2, <1>3 DEF Waiting
<1>5. /\ cur = NoLevel /\ cur' = first_level /\ cur' \in Levels /\ first_level' = first_level + 1
      /\ first_level' \in 0..(MaxLevel + 1) /\ cur' <= to_level' /\ to_level' # NoLevel
      /\ FlaggedOnceInv' /\ FoundAbove' /\ \A t \in Tasks : TaskDone(t)'
  BY <1>1, <1>4, NextLevelFacts
<1>6. ChunksDisjoint'
  <2>1. Len(queue'[cur']) = n
    BY <1>1 DEF n
  <2>2. \A t \in Tasks : next'[t] = Chunk(t, n)[1] /\ last'[t] = Chunk(t, n)[2]
    BY <1>1
  <2> QED
    BY ONLY <1>3, <2>1, <2>2 DEF ChunksDisjoint
<1>7. Phases'
  <2>1. cur' < first_level' /\ cur' # NoLevel
    BY <1>2, <1>5, Numbers DEF BfsAssumption
  <2> QED
    BY ONLY <1>1, <1>5, <2>1 DEF Phases
<1>8. next' \in [Tasks -> Nat] /\ last' \in [Tasks -> Nat]
  BY <1>1, <1>3
<1> QED
  BY <1>1, <1>5, <1>6, <1>7, <1>8 DEF TypeOK, Levelized

\* The entry that a visit takes out of the level being visited.
LEMMA VisitEntry ==
  ASSUME BfsAssumption, BfsInv, cur # NoLevel, NEW t \in Tasks, NEW n,
         NEW v \in Vertices \cup {Null},
         n \in DOMAIN queue[cur], queue[cur][n] = v, Waiting(cur, n),
         IF v = Null THEN UNCHANGED <<in_queue, found>> ELSE Visited(t, v),
         UNCHANGED <<visitVars, first_level, last_level, checked>>,
         \A w \in Vertices : \A l, i :
           Entry(w, l, i)' <=> Entry(w, l, i) /\ ~(l = cur /\ i = n)
  PROVE  /\ FlaggedOnceInv' /\ FoundAbove'
         /\ in_queue' \in [Vertices -> BOOLEAN] /\ found' \in [Tasks -> SUBSET Vertices]
         /\ \A w \in Vertices : in_queue'[w] <=> in_queue[w] /\ w # v
         /\ v \in Vertices => in_queue[v] /\ level[v] = cur
<1> USE DEF BfsInv
<1>1. \A w \in Vertices : in_queue[w] => level[w] = cur \/ level[w] \in first_level..last_level
  BY DEF FlaggedOnceInv
<1>2. CASE v = Null
  <2>1. UNCHANGED <<in_queue, found>> /\ v \notin Vertices
    BY <1>2 DEF BfsAssumption
  <2>2. \A w \in Vertices : \A l, i : Entry(w, l, i)' <=> Entry(w, l, i)
    BY <2>1 DEF Entry
  <2>3. FlaggedOnceInv'
    BY <1>1, <2>1, <2>2, SameEntries DEF visitVars
  <2> QED
    BY <2>1, <2>3 DEF TypeOK, FoundAbove, visitVars
<1>3. CASE v \in Vertices
  <2>1. v # Null /\ Visited(t, v)
    BY <1>3 DEF BfsAssumption
  <2>2. Entry(v, cur, n)
    BY <1>3 DEF Entry, TypeOK
  <2>3. in_queue[v] /\ level[v] = cur /\ \A l, i : Entry(v, l, i) => l = cur /\ i = n
    BY <1>3, <2>2 DEF FlaggedOnceInv
  <2>4. \A w \in Vertices : \A l, i : Entry(w, l, i)' <=> Entry(w, l, i) /\ w \notin {v}
    BY <1>3, <2>2, <2>3 DEF Entry
  <2>5. /\ in_queue' \in [Vertices -> BOOLEAN] /\ ~in_queue'[v]
        /\ \A w \in Vertices : w # v => in_queue'[w] = in_queue[w]
    BY <1>3, <2>1 DEF Visited, TypeOK
  <2>6. FlaggedOnceInv'
    <3>1. /\ FlaggedOnceInv
          /\ \A w \in Vertices : in_queue'[w] => in_queue[w] /\ w \notin {v}
          /\ \A w \in Vertices : in_queue[w] /\ w \notin {v} => in_queue'[w]
      BY <2>5
    <3>2. level' = level /\ cur' = cur /\ UNCHANGED <<first_level, last_level>>
      BY DEF visitVars
    <3>3. /\ \A w \in Vertices : w \notin {v} => level'[w] = level[w]
          /\ \A w \in Vertices : in_queue'[w] =>
               level'[w] = cur' \/ level'[w] \in first_level'..last_level'
      BY <1>1, <3>1, <3>2
    <3> QED
      BY ONLY <2>4, <3>1, <3>3, DropEntries
  <2>7. PICK S \in SUBSET Adjacent[v] : found' = [found EXCEPT ![t] = S]
    BY <2>1 DEF Visited
  <2>8. S \subseteq Vertices /\ found' \in [Tasks -> SUBSET Vertices]
    BY <1>3, <2>7 DEF TypeOK, BfsAssumption
  <2>9. \A w \in S : cur < level[w]
    BY <1>3, <2>3, <2>7 DEF Levelized
  <2>10. \A u \in Tasks : found'[u] = IF u = t THEN S ELSE found[u]
    BY <2>7 DEF TypeOK
  <2>11. FoundAbove'
    BY <2>9, <2>10 DEF FoundAbove, visitVars
  <2> QED
    BY <2>3, <2>5, <2>6, <2>8, <2>11 DEF TypeOK
<1> QED
  BY <1>2, <1>3

\* What the visits of an entry by one thread and by a task have in common.
VisitedEntry(t, n) ==
  /\ cur # NoLevel /\ cur \in Levels /\ n \in DOMAIN queue[cur] /\ Waiting(cur, n)
  /\ TaskDone(t)
  /\ LET v == queue[cur][n]
     IN  IF v = Null THEN UNCHANGED <<in_queue, found>> ELSE Visited(t, v)
  /\ UNCHANGED <<visitVars, first_level, last_level, checked>>

LEMMA PopVisitInv ==
  ASSUME BfsAssumption, BfsInv, PopVisit
  PROVE  BfsInv' /\ \E n : VisitedEntry(1, n)
<1> USE DEF BfsInv
<1> DEFINE q == queue[cur]
           n == Len(q)
           v == q[n]
<1>1. /\ Serial /\ cur # NoLevel /\ q # <<>> /\ TaskDone(1)
      /\ queue' = [queue EXCEPT ![cur] = SubSeq(q, 1, n - 1)]
      /\ IF v = Null THEN UNCHANGED <<in_queue, found>> ELSE Visited(1, v)
      /\ UNCHANGED <<visitVars, first_level, last_level, next, last, checked>>
  BY DEF PopVisit, TaskDone
<1>2. cur \in Levels /\ q \in Seq(Vertices \cup {Null})
  BY <1>1, Numbers DEF TypeOK
<1>3. n \in Nat /\ n # 0 /\ DOMAIN q = 1..n
  BY <1>1, <1>2, EmptySeq, LenProperties
<1>4. n \in DOMAIN q /\ v \in Vertices \cup {Null}
  BY <1>2, <1>3, ElementOfSeq
<1>5. /\ SubSeq(q, 1, n - 1) \in Seq(Vertices \cup {Null})
      /\ DOMAIN SubSeq(q, 1, n - 1) = 1..(n - 1)
      /\ \A i \in 1..(n - 1) : SubSeq(q, 1, n - 1)[i] = q[i]
  <2>1. \A i \in 1..(n - 1) : q[i] \in Vertices \cup {Null}
    BY <1>2, <1>3, ElementOfSeq
  <2>2. 1 \in Int /\ n - 1 \in Int
    BY <1>3
  <2>3. /\ SubSeq(q, 1, n - 1) \in Seq(Vertices \cup {Null})
        /\ Len(SubSeq(q, 1, n - 1)) = IF 1 <= n - 1 THEN (n - 1) - 1 + 1 ELSE 0
        /\ \A i \in 1..((n - 1) - 1 + 1) : SubSeq(q, 1, n - 1)[i] = q[1 + i - 1]
    <3> HIDE DEF n, q
    <3> QED
      BY <2>1, <2>2, SubSeqProperties
  <2>4. Len(SubSeq(q, 1, n - 1)) = n - 1
    BY <1>3, <2>3
  <2>5. DOMAIN SubSeq(q, 1, n - 1) = 1..(n - 1)
    BY <2>3, <2>4, LenProperties
  <2>6. \A i \in 1..(n - 1) : SubSeq(q, 1, n - 1)[i] = q[i]
    BY <1>3, <2>3
  <2> QED
    BY <2>3, <2>5, <2>6
<1>6. /\ queue' \in [Levels -> Seq(Vertices \cup {Null})]
      /\ queue'[cur] = SubSeq(q, 1, n - 1)
      /\ \A l \in Levels : l # cur => queue'[l] = queue[l]
  BY <1>1, <1>2, <1>5 DEF TypeOK
<1>7. Waiting(cur, n) /\ \A l, i : Waiting(l, i) /\ Waiting(l, i)'
  BY <1>1 DEF Waiting, Serial, visitVars
<1>8. ASSUME NEW w \in Vertices, NEW l, NEW i
      PROVE  Entry(w, l, i)' <=> Entry(w, l, i) /\ ~(l = cur /\ i = n)
  <2>1. CASE l = cur
    <3>1. i \in 1..(n - 1) <=> i \in 1..n /\ i # n
      BY <1>3
    <3> QED
      BY <1>3, <1>5, <1>6, <1>7, <2>1, <3>1 DEF Entry
  <2>2. CASE l # cur
    BY <1>6, <1>7, <2>2 DEF Entry
  <2> QED
    BY <2>1, <2>2
<1>9. VisitedEntry(1, n)
  BY <1>1, <1>2, <1>4, <1>7 DEF VisitedEntry
<1>10. /\ FlaggedOnceInv' /\ FoundAbove'
       /\ in_queue' \in [Vertices -> BOOLEAN] /\ found' \in [Tasks -> SUBSET Vertices]
  <2>1. 1 \in Tasks
    BY Numbers
  <2> HIDE DEF n, v, q
  <2>2. queue[cur][n] = v /\ n \in DOMAIN queue[cur]
    BY <1>4 DEF v, q
  <2> QED
    BY <1>1, <1>4, <1>7, <1>8, <2>1, <2>2, VisitEntry
<1>11. Phases' /\ ChunksDisjoint'
  <2>1. Serial'
    BY <1>1 DEF Serial, visitVars
  <2>2. \A t \in Tasks : t # 1 => found'[t] = found[t]
    BY <1>1 DEF Visited, TypeOK
  <2> QED
    BY <1>1, <2>1, <2>2 DEF Phases, ChunksDisjoint, TaskDone, visitVars
<1> QED
  BY <1>1, <1>6, <1>9, <1>10, <1>11 DEF TypeOK, Levelized, visitVars

LEMMA TaskVisitInv ==
  ASSUME BfsAssumption, BfsInv, NEW t \in Tasks, TaskVisit(t)
  PROVE  BfsInv' /\ \E n : VisitedEntry(t, n)
<1> USE DEF BfsInv
<1> DEFINE n == next[t]
           v == queue[cur][n]
<1>1. /\ ~Serial /\ cur # NoLevel /\ TaskDone(t) /\ n <= last[t]
      /\ next' = [next EXCEPT ![t] = n + 1]
      /\ IF v = Null THEN UNCHANGED <<in_queue, found>> ELSE Visited(t, v)
      /\ UNCHANGED <<visitVars, queue, first_level, last_level, last, checked>>
  BY DEF TaskVisit, TaskDone
<1>2. /\ cur \in Levels /\ next \in [Tasks -> Nat] /\ last \in [Tasks -> Nat]
      /\ n \in Nat /\ last[t] \in Nat
  BY <1>1 DEF TypeOK
<1>3. /\ \A u \in Tasks : 1 <= next[u] /\ last[u] <= Len(queue[cur])
      /\ \A u, w \in Tasks : \A i \in Nat :
           next[u] <= i /\ i <= last[u] /\ next[w] <= i /\ i <= last[w] => u = w
  BY <1>1 DEF ChunksDisjoint
<1>4. n \in 1..Len(queue[cur]) /\ n \in DOMAIN queue[cur]
  <2>1. Len(queue[cur]) \in Nat /\ DOMAIN queue[cur] = 1..Len(queue[cur])
    BY <1>2, Numbers
  <2>2. 1 <= n /\ last[t] <= Len(queue[cur])
    BY <1>3
  <2> HIDE DEF n
  <2> QED
    BY ONLY <1>1, <1>2, <2>1, <2>2
<1>5. v \in Vertices \cup {Null}
  BY <1>2, <1>4, Numbers, ElementOfSeq
<1>6. Waiting(cur, n)
  BY <1>1, <1>2 DEF Waiting
<1>7. \A u \in Tasks : next'[u] = IF u = t THEN n + 1 ELSE next[u]
  BY <1>1, <1>2
<1>8. ASSUME NEW i \in Nat
      PROVE  (\E u \in Tasks : next'[u] <= i /\ i <= last[u])
               <=> (\E u \in Tasks : next[u] <= i /\ i <= last[u]) /\ i # n
  <2>1. next[t] <= n /\ n <= last[t]
    BY <1>1, <1>2
  <2>2. \A u \in Tasks : u # t => ~(next[u] <= n /\ n <= last[u])
    BY <1>2, <1>3, <2>1
  <2>3. \A u \in Tasks : next'[u] <= i <=> next[u] <= i /\ ~(u = t /\ i = n)
    BY <1>2, <1>7
  <2>4. \A u \in Tasks : next'[u] <= i /\ i <= last[u] => i # n
    BY <2>2, <2>3
  <2> QED
    BY <2>3, <2>4
<1> HIDE DEF n, v
<1>9. ASSUME NEW w \in Vertices, NEW l, NEW i
      PROVE  Entry(w, l, i)' <=> Entry(w, l, i) /\ ~(l = cur /\ i = n)
  <2>1. CASE l = cur
    <3>1. i \in DOMAIN queue[cur] => i \in Nat
      BY <1>2, Numbers
    <3>2. i \in DOMAIN queue[cur] => (Waiting(cur, i) <=> \E u \in Tasks : next[u] <= i /\ i <= last[u])
      BY <1>1 DEF Waiting
    <3>3. i \in DOMAIN queue[cur] => (Waiting(l, i)' <=> \E u \in Tasks : next'[u] <= i /\ i <= last[u])
      BY <1>1, <2>1 DEF Waiting, Serial, visitVars
    <3>4. /\ Entry(w, l, i) <=> i \in DOMAIN queue[cur] /\ queue[cur][i] = w /\ Waiting(cur, i)
          /\ Entry(w, l, i)' <=> i \in DOMAIN queue[cur] /\ queue[cur][i] = w /\ Waiting(l, i)'
      BY <1>1, <1>2, <2>1 DEF Entry
    <3> QED
      BY ONLY <1>8, <2>1, <3>1, <3>2, <3>3, <3>4
  <2>2. CASE l # cur
    BY <1>1, <2>2 DEF Entry, Waiting, Serial, visitVars
  <2> QED
    BY <2>1, <2>2
<1>10. VisitedEntry(t, n)
  BY <1>1, <1>2, <1>4, <1>6 DEF VisitedEntry, v
<1>11. /\ FlaggedOnceInv' /\ FoundAbove'
       /\ in_queue' \in [Vertices -> BOOLEAN] /\ found' \in [Tasks -> SUBSET Vertices]
  <2>1. queue[cur][n] = v
    BY DEF v
  <2> QED
    BY <1>1, <1>4, <1>5, <1>6, <1>9, <2>1, VisitEntry
<1>12. next' \in [Tasks -> Nat] /\ last' \in [Tasks -> Nat]
  BY <1>1, <1>2
<1>13. ChunksDisjoint'
  <2>1. \A u \in Tasks : \A i \in Nat : next'[u] <= i => next[u] <= i
    BY ONLY <1>2, <1>7 DEF n
  <2>2. \A u \in Tasks : 1 <= next'[u]
    BY ONLY <1>2, <1>3, <1>7 DEF n
  <2> QED
    BY <1>1, <1>3, <2>1, <2>2 DEF ChunksDisjoint, visitVars
<1>14. Phases'
  BY <1>1 DEF Phases, TaskDone, Serial, visitVars
<1> QED
  BY <1>1, <1>10, <1>11, <1>12, <1>13, <1>14 DEF TypeOK, Levelized, visitVars

LEMMA CheckFlagInv ==
  ASSUME BfsAssumption, BfsInv, NEW t \in Tasks, NEW w \in Vertices, CheckFlag(t, w)
  PROVE  BfsInv'
<1> USE DEF BfsInv
<1>1. /\ checked[t] = Null /\ w \in found[t]
      /\ found' = [found EXCEPT ![t] = @ \ {w}]
      /\ checked' = [checked EXCEPT ![t] = IF in_queue[w] THEN Null ELSE w]
      /\ UNCHANGED <<visitVars, queueVars, next, last>>
  BY DEF CheckFlag
<1>2. /\ found' \in [Tasks -> SUBSET Vertices] /\ checked' \in [Tasks -> Vertices \cup {Null}]
      /\ \A u \in Tasks : found'[u] \subseteq found[u]
      /\ \A u \in Tasks : checked'[u] = checked[u] \/ (u = t /\ checked'[u] \in {w, Null})
  BY <1>1 DEF TypeOK
<1>3. ~TaskDone(t)
  BY <1>1 DEF TaskDone
<1>4. \A v \in Vertices : \A l, i : Entry(v, l, i)' <=> Entry(v, l, i)
  BY <1>1 DEF Entry, Waiting, Serial, visitVars, queueVars
<1>5. FlaggedOnceInv'
  BY <1>1, <1>4 DEF FlaggedOnceInv, visitVars, queueVars
<1>6. ChunksDisjoint'
  BY <1>1 DEF ChunksDisjoint, Serial, visitVars, queueVars
<1>7. Phases'
  <2>1. \A u \in Tasks : TaskDone(u) => u # t /\ TaskDone(u)'
    BY <1>1, <1>3 DEF TaskDone, TypeOK
  <2> QED
    BY <1>1, <1>3, <2>1 DEF Phases, Serial, visitVars, queueVars
<1>8. FoundAbove'
  BY <1>1, <1>2 DEF FoundAbove, visitVars
<1> QED
  BY <1>1, <1>2, <1>5, <1>6, <1>7, <1>8 DEF TypeOK, Levelized, visitVars, queueVars

LEMMA EnqueueCheckedInv ==
  ASSUME BfsAssumption, BfsInv, NEW t \in Tasks, EnqueueChecked(t)
  PROVE  BfsInv' /\ \A w \in Vertices : in_queue'[w] <=> in_queue[w] \/ w = checked[t]
<1> USE DEF BfsInv
<1> DEFINE v == checked[t]
<1>1. /\ v # Null /\ LockedEnqueue(v)
      /\ checked' = [checked EXCEPT ![t] = Null]
      /\ UNCHANGED <<visitVars, next, last, found>>
  BY DEF EnqueueChecked
<1>2. v \in Vertices /\ (cur # NoLevel => cur < level[v]) /\ ~TaskDone(t)
  BY <1>1 DEF TypeOK, FoundAbove, TaskDone
<1>3. /\ FlaggedOnceInv' /\ ChunksDisjoint'
      /\ in_queue' \in [Vertices -> BOOLEAN]
      /\ queue' \in [Levels -> Seq(Vertices \cup {Null})]
      /\ first_level' \in 0..(MaxLevel + 1) /\ last_level' \in Levels
      /\ cur # NoLevel => cur < first_level'
      /\ \A w \in Vertices : in_queue'[w] <=> in_queue[w] \/ w = v
  <2> HIDE DEF v
  <2> QED
    BY <1>1, <1>2, LockedEnqueueInv
<1>4. /\ checked' \in [Tasks -> Vertices \cup {Null}]
      /\ \A u \in Tasks : checked'[u] = IF u = t THEN Null ELSE checked[u]
  BY <1>1 DEF TypeOK
<1>5. Phases'
  <2>1. \A u \in Tasks : TaskDone(u) => TaskDone(u)'
    BY <1>1, <1>4 DEF TaskDone
  <2> QED
    BY <1>1, <1>2, <1>3, <2>1 DEF Phases, Serial, visitVars
<1>6. FoundAbove'
  BY <1>1, <1>4 DEF FoundAbove, visitVars
<1> QED
  BY <1>1, <1>3, <1>4, <1>5, <1>6 DEF TypeOK, Levelized, visitVars

LEMMA EndLevelInv ==
  ASSUME BfsAssumption, BfsInv, EndLevel
  PROVE  BfsInv'
<1> USE DEF BfsInv
<1>1. /\ cur # NoLevel /\ cur' = NoLevel
      /\ queue' = [queue EXCEPT ![cur] = <<>>]
      /\ next' = [t \in Tasks |-> 1] /\ last' = [t \in Tasks |-> 0]
      /\ UNCHANGED <<thread_count, level, to_level, in_queue, first_level, last_level,
                     found, checked>>
  BY DEF EndLevel
<1>2. \A t \in Tasks : TaskDone(t)
  BY DEF EndLevel, TasksFinished, Phases, TaskDone
<1>3. cur \in Levels
  BY <1>1, Numbers DEF TypeOK
<1>4. \A w \in Vertices : \A i : ~Entry(w, cur, i)
  <2>1. CASE Serial
    BY <2>1 DEF EndLevel, Entry
  <2>2. CASE ~Serial
    <3>1. \A t \in Tasks : next[t] > last[t] /\ next[t] \in Nat /\ last[t] \in Nat
      BY <2>2 DEF EndLevel, TasksFinished, TypeOK
    <3>2. \A i \in Nat : ~\E t \in Tasks : next[t] <= i /\ i <= last[t]
      BY <3>1
    <3>3. \A i \in DOMAIN queue[cur] : i \in Nat
      BY <1>3, Numbers
    <3> QED
      BY <2>2, <3>2, <3>3 DEF Entry, Waiting
  <2> QED
    BY <2>1, <2>2
<1>5. /\ queue' \in [Levels -> Seq(Vertices \cup {Null})]
      /\ queue'[cur] = <<>>
      /\ \A l \in Levels : l # cur => queue'[l] = queue[l]
  BY <1>1, <1>3, EmptySeq DEF TypeOK
<1>6. \A w \in Vertices : \A l, i : Entry(w, l, i)' <=> Entry(w, l, i)
  <2>1. \A l \in Levels : \A i : Waiting(l, i)'
    BY <1>1 DEF Waiting, BfsAssumption
  <2>2. \A l \in Levels : \A i : l # cur => Waiting(l, i)
    BY DEF Waiting
  <2>3. ASSUME NEW w \in Vertices, NEW l, NEW i PROVE Entry(w, l, i)' <=> Entry(w, l, i)
    <3>1. CASE l = cur
      BY <1>3, <1>4, <1>5, <3>1 DEF Entry
    <3>2. CASE l # cur
      BY <1>5, <2>1, <2>2, <3>2 DEF Entry
    <3> QED
      BY <3>1, <3>2
  <2> QED
    BY <2>3
<1>7. \A w \in Vertices : in_queue'[w] => level'[w] = cur' \/ level'[w] \in first_level'..last_level'
  <2>1. \A w \in Vertices : in_queue[w] => \E i : Entry(w, level[w], i)
    BY DEF FlaggedOnceInv
  <2> QED
    BY <1>1, <1>4, <2>1 DEF FlaggedOnceInv
<1>8. FlaggedOnceInv'
  BY <1>1, <1>6, <1>7, SameEntries
<1>9. Phases' /\ ChunksDisjoint' /\ FoundAbove'
  BY <1>1, <1>2 DEF Phases, ChunksDisjoint, FoundAbove, TaskDone
<1> QED
  BY <1>1, <1>5, <1>8, <1>9 DEF TypeOK, Levelized

LEMMA VisitStepInv ==
  ASSUME BfsAssumption, BfsInv, VisitStep
  PROVE  BfsInv'
<1>1. CASE NextLevelSerial
  BY <1>1, NextLevelSerialInv
<1>2. CASE NextLevelParallel
  BY <1>2, NextLevelParallelInv
<1>3. CASE PopVisit
  BY <1>3, PopVisitInv
<1>4. CASE \E t \in Tasks : TaskVisit(t)
  BY <1>4, TaskVisitInv
<1>5. CASE \E t \in Tasks : EnqueueChecked(t)
  BY <1>5, EnqueueCheckedInv
<1>6. CASE \E t \in Tasks : \E w \in Vertices : CheckFlag(t, w)
  BY <1>6, CheckFlagInv
<1>7. CASE EndLevel
  BY <1>7, EndLevelInv
<1>8. CASE EndVisit
  <2>1. UNCHANGED <<level, queueVars, cur, taskVars>>
    BY <1>8 DEF EndVisit
  <2> QED
    BY <1>8, <2>1, VisitBoundsInv
<1> QED
  BY <1>1, <1>2, <1>3, <1>4, <1>5, <1>6, <1>7, <1>8 DEF VisitStep

LEMMA StepBfsInv ==
  ASSUME BfsAssumption, BfsInv, [Next]_vars
  PROVE  BfsInv'
<1>1. CASE \E v \in Vertices : Enqueue(v)
  BY <1>1, EnqueueInv
<1>2. CASE \E v \in Vertices : Remove(v)
  BY <1>2, RemoveInv
<1>3. CASE \E v \in Vertices : \E l \in Levels : ChangeLevel(v, l)
  BY <1>3, ChangeLevelInv
<1>4. CASE Clear
  BY <1>4, ClearInv
<1>5. CASE \E n \in Tasks : SetThreadCount(n)
  <2>1. UNCHANGED <<level, queueVars, cur, taskVars>>
    BY <1>5 DEF SetThreadCount
  <2> QED
    BY <1>5, <2>1, VisitBoundsInv
<1>6. CASE \E l \in Levels : StartVisit(l)
  <2>1. UNCHANGED <<level, queueVars, cur, taskVars>>
    BY <1>6 DEF StartVisit
  <2> QED
    BY <1>6, <2>1, VisitBoundsInv
<1>7. CASE VisitStep
  BY <1>7, VisitStepInv
<1>8. CASE UNCHANGED vars
  <2>1. UNCHANGED <<visitVars, queueVars, taskVars>>
    BY <1>8 DEF vars
  <2>2. \A w \in Vertices : \A l, i : Entry(w, l, i)' <=> Entry(w, l, i)
    BY <2>1 DEF Entry, Waiting, Serial, visitVars, queueVars, taskVars
  <2>3. FlaggedOnceInv'
    BY <2>1, <2>2 DEF BfsInv, FlaggedOnceInv, visitVars, queueVars
  <2> QED
    BY <2>1, <2>3 DEF BfsInv, TypeOK, Levelized, Phases, ChunksDisjoint, FoundAbove, TaskDone,
                      Serial, visitVars, queueVars, taskVars
<1> QED
  BY <1>1, <1>2, <1>3, <1>4, <1>5, <1>6, <1>7, <1>8 DEF Next

LEMMA BfsInvAlways == Spec => []BfsInv
<1>1. Init => BfsInv
  BY BfsAssumption, InitBfsInv
<1>2. BfsInv /\ [Next]_vars => BfsInv'
  BY BfsAssumption, StepBfsInv
<1> QED
  BY <1>1, <1>2, PTL DEF Spec

\* Every variable of the iterators keeps its type: in particular first_level
\* goes no further than one past the last level, and a chunk is a range of
\* positions (BfsIterator::visitParallel, enqueue and remove).
THEOREM BfsTypeCorrect == Spec => []TypeOK
<1>1. BfsInv => TypeOK
  BY DEF BfsInv
<1> QED
  BY <1>1, BfsInvAlways, PTL

\* Whichever threads enqueue a vertex at the same time, it is flagged exactly
\* while one entry of its level is still to be visited, and that entry is
\* where visit and clear look: BfsIterator::enqueue, remove, clear and
\* visitParallel neither lose a vertex nor queue it twice.
THEOREM EachFlaggedOnce == Spec => []FlaggedOnce
<1>1. BfsInv => FlaggedOnce
  BY BfsAssumption, FlaggedOnceEntries DEF BfsInv
<1> QED
  BY <1>1, BfsInvAlways, PTL

-----------------------------------------------------------------------------
(* The search by level that the threads implement.                         *)

LEMMA UnionMember ==
  ASSUME NEW A, NEW T, NEW f, NEW c, NEW nil, NEW x
  PROVE  x \in A \cup (UNION {f[t] : t \in T}) \cup ({c[t] : t \in T} \ {nil})
           <=> \/ x \in A
               \/ \E t \in T : x \in f[t]
               \/ x # nil /\ \E t \in T : x = c[t]
<1>1. x \in UNION {f[t] : t \in T} <=> \E t \in T : x \in f[t]
  <2>1. x \in UNION {f[t] : t \in T} <=> \E y \in {f[t] : t \in T} : x \in y
    OBVIOUS
  <2> QED
    BY <2>1
<1> QED
  BY <1>1

LEMMA QueuedMember ==
  \A x : /\ x \in Queued <=> \/ x \in Vertices /\ in_queue[x]
                             \/ \E t \in Tasks : x \in found[t]
                             \/ x # Null /\ \E t \in Tasks : x = checked[t]
         /\ x \in Queued' <=> \/ x \in Vertices /\ in_queue'[x]
                              \/ \E t \in Tasks : x \in found'[t]
                              \/ x # Null /\ \E t \in Tasks : x = checked'[t]
BY UnionMember DEF Queued

\* Between levels no task holds a vertex.
LEMMA QueuedIdle ==
  ASSUME BfsAssumption, BfsInv, cur = NoLevel
  PROVE  \A x : x \in Queued <=> x \in Vertices /\ in_queue[x]
BY QueuedMember DEF BfsInv, Phases, TaskDone

LEMMA InitLevelSearch == BfsAssumption /\ Init => Abstract!Init
<1> SUFFICES ASSUME BfsAssumption, Init PROVE Abstract!Init
  OBVIOUS
<1>1. Queued = {}
  BY QueuedMember DEF Init
<1> QED
  BY <1>1 DEF Init, Abstract!Init

LEMMA VisitLevelSearch ==
  ASSUME BfsAssumption, BfsInv, NEW t \in Tasks, NEW n, VisitedEntry(t, n)
  PROVE  [Abstract!Next]_(Abstract!vars)
<1> USE DEF BfsInv
<1> DEFINE v == queue[cur][n]
<1>1. /\ cur # NoLevel /\ cur \in Levels /\ n \in DOMAIN queue[cur] /\ Waiting(cur, n)
      /\ TaskDone(t)
      /\ IF v = Null THEN UNCHANGED <<in_queue, found>> ELSE Visited(t, v)
      /\ UNCHANGED <<visitVars, first_level, last_level, checked>>
  BY DEF VisitedEntry
<1>2. CASE v = Null
  <2>1. Queued' = Queued
    BY <1>1, <1>2 DEF Queued
  <2> QED
    BY <1>1, <2>1 DEF Abstract!vars, visitVars
<1>3. CASE v # Null
  <2>1. v \in Vertices
    BY <1>1, <1>3, Numbers, ElementOfSeq
  <2>2. in_queue[v] /\ level[v] = cur
    <3>1. Entry(v, cur, n)
      BY <1>1 DEF Entry
    <3>2. FlaggedOnceInv
      OBVIOUS
    <3> HIDE DEF v
    <3> QED
      BY ONLY <2>1, <3>1, <3>2 DEF FlaggedOnceInv
  <2>3. PICK S \in SUBSET Adjacent[v] :
          found' = [found EXCEPT ![t] = S] /\ in_queue' = [in_queue EXCEPT ![v] = FALSE]
    BY <1>1, <1>3 DEF Visited
  <2> HIDE DEF v
  <2>4. \A w \in Queued : w \in Vertices /\ level[v] <= level[w] /\ (~in_queue[w] => w # v)
    <3>1. ASSUME NEW w \in Vertices, in_queue[w] PROVE level[v] <= level[w]
      <4>1. level[w] = cur \/ level[w] \in first_level..last_level
        BY <3>1 DEF FlaggedOnceInv
      <4>2. cur < first_level
        BY <1>1 DEF Phases
      <4>3. level[v] = cur /\ cur \in Nat /\ first_level \in Nat /\ last_level \in Int
        BY <1>1, <2>2, Numbers
      <4> QED
        BY ONLY <4>1, <4>2, <4>3
    <3>2. ASSUME NEW u \in Tasks, NEW w \in found[u] PROVE w \in Vertices /\ level[v] < level[w]
      BY <1>1, <2>2, <3>2 DEF FoundAbove, TypeOK
    <3>3. ASSUME NEW u \in Tasks, checked[u] # Null
          PROVE  checked[u] \in Vertices /\ level[v] < level[checked[u]]
      BY <1>1, <2>2, <3>3 DEF FoundAbove, TypeOK
    <3>4. ASSUME NEW w \in Vertices, level[v] < level[w]
          PROVE  level[v] <= level[w] /\ w # v
      <4>1. level[v] \in Nat /\ level[w] \in Nat
        BY <2>1, Numbers
      <4> QED
        BY ONLY <3>4, <4>1
    <3>5. ASSUME NEW w, w \in Queued
          PROVE  \/ w \in Vertices /\ in_queue[w]
                 \/ w \in Vertices /\ level[v] < level[w]
      BY <3>2, <3>3, <3>5, QueuedMember
    <3> QED
      BY ONLY <2>2, <3>1, <3>4, <3>5
  <2>5. \A u \in Tasks : v \notin found[u] /\ v # checked[u]
    <3>1. level[v] \in Nat
      BY <2>1, Numbers
    <3> QED
      BY <1>1, <1>3, <2>2, <3>1 DEF FoundAbove, v
  <2>6. ASSUME NEW x PROVE x \in Queued' <=> (x \in Queued /\ x # v) \/ x \in S
    <3>1. x \in Queued' <=> \/ x \in Vertices /\ in_queue'[x]
                            \/ \E u \in Tasks : x \in found'[u]
                            \/ x # Null /\ \E u \in Tasks : x = checked[u]
      BY <1>1, QueuedMember
    <3>2. (\E u \in Tasks : x \in found'[u]) <=> (\E u \in Tasks : x \in found[u]) \/ x \in S
      BY <1>1, <2>3 DEF TaskDone, TypeOK
    <3>3. x \in Vertices => (in_queue'[x] <=> in_queue[x] /\ x # v)
      BY <2>3 DEF TypeOK
    <3> QED
      BY <2>5, <3>1, <3>2, <3>3, QueuedMember
  <2>7. Queued' = (Queued \ {v}) \cup S
    BY <2>6
  <2>8. v \in Queued /\ to_level # NoLevel /\ level[v] <= to_level
    BY <1>1, <2>1, <2>2, QueuedMember DEF Phases
  <2>9. Abstract!Visit(v, S)
    BY <1>1, <2>4, <2>7, <2>8 DEF Abstract!Visit, visitVars
  <2> QED
    BY <2>1, <2>9 DEF Abstract!Next
<1> QED
  BY <1>2, <1>3

\* Calls between visits.
LEMMA CallLevelSearch ==
  ASSUME BfsAssumption, BfsInv,
         \/ \E v \in Vertices : \/ Enqueue(v) \/ Remove(v)
                                \/ \E l \in Levels : ChangeLevel(v, l)
         \/ Clear
  PROVE  Abstract!Next
<1> USE DEF BfsInv
<1>1. cur = NoLevel /\ to_level = NoLevel /\ UNCHANGED <<thread_count, to_level, cur, taskVars>>
  BY DEF Enqueue, Remove, ChangeLevel, Clear, Idle, Phases
<1>2. \A x : x \in Queued <=> x \in Vertices /\ in_queue[x]
  BY <1>1, QueuedIdle
<1>3. \A x : x \in Queued' <=> x \in Vertices /\ in_queue'[x]
  <2>1. \A t \in Tasks : found'[t] = {} /\ checked'[t] = Null
    BY <1>1 DEF Phases, TaskDone, taskVars
  <2> QED
    BY <2>1 DEF Queued
<1>4. ASSUME NEW v \in Vertices, Enqueue(v) PROVE Abstract!Enqueue(v)
  <2>1. LockedEnqueue(v) /\ UNCHANGED <<visitVars, next, last>>
    BY <1>1, <1>4 DEF Enqueue, visitVars, taskVars
  <2>2. \A w \in Vertices : in_queue'[w] <=> in_queue[w] \/ w = v
    BY <1>1, <2>1, LockedEnqueueInv
  <2>3. Queued' = Queued \cup {v}
    BY <1>2, <1>3, <2>2
  <2> QED
    BY <1>1, <2>1, <2>3 DEF Abstract!Enqueue, Abstract!Idle, visitVars
<1>5. ASSUME NEW v \in Vertices, Remove(v) PROVE Abstract!Remove(v)
  <2>1. RemoveEntry(v) /\ UNCHANGED level
    BY <1>5 DEF Remove
  <2>2. \A w \in Vertices : in_queue'[w] <=> in_queue[w] /\ w # v
    BY <1>1, <2>1, RemoveEntryInv
  <2>3. Queued' = Queued \ {v}
    BY <1>2, <1>3, <2>2
  <2> QED
    BY <1>1, <2>1, <2>3 DEF Abstract!Remove, Abstract!Idle
<1>6. ASSUME NEW v \in Vertices, NEW l \in Levels, ChangeLevel(v, l)
      PROVE  Abstract!ChangeLevel(v, l)
  <2>1. RemoveEntry(v) /\ level' = [level EXCEPT ![v] = l] /\ Levelized(level')
    BY <1>6 DEF ChangeLevel
  <2>2. \A w \in Vertices : w # v => level'[w] = level[w]
    BY <2>1 DEF TypeOK
  <2>3. \A w \in Vertices : in_queue'[w] <=> in_queue[w] /\ w # v
    BY <1>1, <2>1, <2>2, RemoveEntryInv
  <2>4. Queued' = Queued \ {v}
    BY <1>2, <1>3, <2>3
  <2>5. Abstract!Levelized(level')
    BY <2>1 DEF Levelized, Abstract!Levelized
  <2> QED
    BY <1>1, <2>1, <2>4, <2>5 DEF Abstract!ChangeLevel, Abstract!Idle
<1>7. ASSUME Clear PROVE Abstract!Clear
  <2>1. Queued' = {} /\ UNCHANGED level
    BY <1>3, <1>7, ClearInv DEF Clear
  <2> QED
    BY <1>1, <2>1 DEF Abstract!Clear, Abstract!Idle
<1> QED
  BY <1>4, <1>5, <1>6, <1>7 DEF Abstract!Next

LEMMA StepLevelSearch ==
  ASSUME BfsAssumption, BfsInv, [Next]_vars
  PROVE  [Abstract!Next]_(Abstract!vars)
<1> USE DEF BfsInv
<1>1. CASE UNCHANGED vars
  BY <1>1 DEF vars, visitVars, queueVars, taskVars, Abstract!vars, Queued
<1>2. CASE \/ \E v \in Vertices : \/ Enqueue(v) \/ Remove(v)
                                  \/ \E l \in Levels : ChangeLevel(v, l)
           \/ Clear
  BY <1>2, CallLevelSearch
<1>3. CASE \/ \E n \in Tasks : SetThreadCount(n)
           \/ NextLevelSerial \/ NextLevelParallel \/ EndLevel
  <2>1. UNCHANGED <<level, in_queue, found, checked, to_level>>
    BY <1>3 DEF SetThreadCount, NextLevelSerial, NextLevelParallel, NextLevel, EndLevel,
                queueVars, taskVars
  <2>2. Queued' = Queued
    BY <2>1 DEF Queued
  <2> QED
    BY <2>1, <2>2 DEF Abstract!vars
<1>4. CASE \E l \in Levels : StartVisit(l)
  <2>1. PICK l \in Levels : StartVisit(l)
    BY <1>4
  <2>2. Abstract!StartVisit(l)
    BY <2>1 DEF StartVisit, Abstract!StartVisit, Queued, queueVars, taskVars
  <2> QED
    BY <2>2 DEF Abstract!Next
<1>5. CASE PopVisit
  <2>1. 1 \in Tasks
    BY Numbers
  <2> QED
    BY <1>5, <2>1, PopVisitInv, VisitLevelSearch
<1>6. CASE \E t \in Tasks : TaskVisit(t)
  BY <1>6, TaskVisitInv, VisitLevelSearch
<1>7. CASE \E t \in Tasks : \E w \in Vertices : CheckFlag(t, w)
  <2>1. PICK t \in Tasks, w \in Vertices : CheckFlag(t, w)
    BY <1>7
  <2>2. /\ checked[t] = Null /\ w \in found[t] /\ w # Null
        /\ \A u \in Tasks : found'[u] = IF u = t THEN found[u] \ {w} ELSE found[u]
        /\ \A u \in Tasks : checked'[u] =
             IF u = t THEN IF in_queue[w] THEN Null ELSE w ELSE checked[u]
        /\ UNCHANGED <<level, to_level, in_queue>>
    BY <2>1 DEF CheckFlag, TypeOK, BfsAssumption, visitVars, queueVars
  <2>3. ASSUME NEW x PROVE x \in Queued' <=> x \in Queued
    <3>1. x \in Queued' <=> \/ x \in Vertices /\ in_queue[x]
                            \/ \E u \in Tasks : x \in found'[u]
                            \/ x # Null /\ \E u \in Tasks : x = checked'[u]
      BY <2>2, QueuedMember
    <3>2. CASE x = w
      BY <2>2, <3>1, <3>2, QueuedMember
    <3>3. CASE x # w
      BY <2>2, <3>1, <3>3, QueuedMember
    <3> QED
      BY <3>2, <3>3
  <2>4. Queued' = Queued
    BY <2>3
  <2> QED
    BY <2>2, <2>4 DEF Abstract!vars
<1>8. CASE \E t \in Tasks : EnqueueChecked(t)
  <2>1. PICK t \in Tasks : EnqueueChecked(t)
    BY <1>8
  <2>2. /\ checked[t] # Null /\ checked[t] \in Vertices
        /\ \A u \in Tasks : checked'[u] = IF u = t THEN Null ELSE checked[u]
        /\ UNCHANGED <<level, to_level, found>>
        /\ \A w \in Vertices : in_queue'[w] <=> in_queue[w] \/ w = checked[t]
    BY <2>1, EnqueueCheckedInv DEF EnqueueChecked, TypeOK, visitVars
  <2>3. ASSUME NEW x PROVE x \in Queued' <=> x \in Queued
    <3>1. x \in Queued' <=> \/ x \in Vertices /\ in_queue'[x]
                            \/ \E u \in Tasks : x \in found[u]
                            \/ x # Null /\ \E u \in Tasks : x = checked'[u]
      BY <2>2, QueuedMember
    <3> QED
      BY <2>2, <3>1, QueuedMember
  <2>4. Queued' = Queued
    BY <2>3
  <2> QED
    BY <2>2, <2>4 DEF Abstract!vars
<1>9. CASE EndVisit
  <2>1. /\ to_level # NoLevel /\ cur = NoLevel /\ to_level' = NoLevel
        /\ ~(first_level <= last_level /\ first_level <= to_level)
        /\ UNCHANGED <<level, in_queue, found, checked>>
    BY <1>9 DEF EndVisit, MoreLevels, queueVars, taskVars
  <2>2. to_level \in Nat
    BY <2>1, Numbers DEF TypeOK
  <2>3. \A v \in Queued : level[v] > to_level
    BY <2>1, <2>2, QueuedIdle, Numbers DEF FlaggedOnceInv, BfsAssumption
  <2>4. Queued' = Queued
    BY <2>1 DEF Queued
  <2>5. Abstract!EndVisit
    BY <2>1, <2>3, <2>4 DEF Abstract!EndVisit
  <2> QED
    BY <2>5 DEF Abstract!Next
<1> QED
  BY <1>1, <1>2, <1>3, <1>4, <1>5, <1>6, <1>7, <1>8, <1>9 DEF Next, VisitStep

\* However many threads visit and enqueue, BfsIterator::visitParallel is a
\* search by level: a vertex is visited after every queued vertex of an
\* earlier level, and the visit returns when no queued vertex has a level to
\* visit.
THEOREM BfsIsLevelSearch == Spec => ImplementsLevelSearch
<1>1. Init => Abstract!Init
  BY BfsAssumption, InitLevelSearch
<1>2. BfsInv /\ [Next]_vars => [Abstract!Next]_(Abstract!vars)
  BY BfsAssumption, StepLevelSearch
<1> QED
  BY <1>1, <1>2, BfsInvAlways, PTL DEF Spec, ImplementsLevelSearch
=============================================================================
