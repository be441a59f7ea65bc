--------------------------- MODULE TagGroupsProofs ---------------------------
(***************************************************************************)
(* Proofs about TagGroups for any vertices, tags, threads and capacity: no *)
(* thread reads an entry of a group that is not there, reference counts    *)
(* are the numbers of vertices, and no deleted tag is in use.              *)
(*                                                                         *)
(* A group leaves the table between visits only, so what a thread has read *)
(* or found needs no protection but the lock that orders new groups; the   *)
(* arrays that were replaced are full, and are not written again.          *)
(***************************************************************************)
EXTENDS TagGroups, FiniteSetTheorems, FunctionTheorems, SequenceTheorems, TLAPS

Size(a) == Cardinality(DOMAIN arrays[a])
Array == UNION {[0..n - 1 -> SUBSET Int] : n \in Nat \ {0}}
ThreadState == [pc : {"idle", "read", "entry", "copy", "publish", "set"},
                vertex : Vertices \cup {Idle.vertex}, reads : SUBSET Int, array : Int,
                wanted : SUBSET TagValues, found : SUBSET Int, index : Int,
                cache : SUBSET Int]

LiveTags(S) == \A i \in S : i \in DOMAIN tags /\ tags[i] # "deleted"

\* The variables that hold sequences, functions and records.
Shapes ==
  /\ tags \in Seq(TagValues \cup {"deleted"})
  /\ arrays \in Seq(Array) /\ tag_groups \in 1..Len(arrays)
  /\ tag_groups_prev \subseteq DOMAIN arrays
  /\ tag_group_next \in 0..ArrayCapacity
  /\ tag_group_free_indices \in Seq(Int)
  /\ ref_count \in [DOMAIN arrays[tag_groups] -> Int]
  /\ tag_group_index \in [Vertices -> {NoIndex} \cup tag_group_set]
  /\ paths \in [Vertices -> SUBSET Int]
  /\ thread \in [Threads -> ThreadState]
  /\ filtered_arrivals \subseteq Vertices /\ have_filter \in BOOLEAN
  /\ to_visit \subseteq Vertices /\ searching \in {"no", "all", "filtered"}

\* Every index below tag_group_next is in the set or free, once.
Indices ==
  /\ tag_group_set \cup Range(tag_group_free_indices) = 0..tag_group_next - 1
  /\ tag_group_set \cap Range(tag_group_free_indices) = {}
  /\ IsInjective(tag_group_free_indices)

\* Groups of the current array are of tags made; an array that was replaced was
\* full, and has nothing else.
Entries ==
  /\ \A i \in 0..tag_group_next - 1 : Group(i) \subseteq DOMAIN tags
  /\ \A a \in 1..tag_groups - 1 :
       /\ Size(a) <= tag_group_next
       /\ \A i \in DOMAIN arrays[a] : arrays[a][i] \subseteq DOMAIN tags

Counts ==
  /\ \A v \in Vertices :
       IF tag_group_index[v] = NoIndex THEN paths[v] = {}
       ELSE Group(tag_group_index[v]) = paths[v]
  /\ \A g \in DOMAIN ref_count :
       IF g \in tag_group_set
       THEN ref_count[g] = Cardinality({v \in Vertices : tag_group_index[v] = g})
       ELSE ref_count[g] \in 0..Cardinality(Vertices)
  /\ \A g, h \in tag_group_set : Group(g) = Group(h) => g = h

TagTable ==
  /\ \A g \in tag_group_set : LiveTags(Group(g))
  /\ \A i, j \in DOMAIN tags : tags[i] = tags[j] /\ tags[i] # "deleted" => i = j
  /\ ~have_filter => \A i \in DOMAIN tags : tags[i] \notin FilterValues
  /\ \A v \in Vertices : tag_group_index[v] # NoIndex /\ HasFilterTag(paths[v])
                         => v \in filtered_arrivals

\* What a thread has read or found stays in the tables until its visit ends.
ThreadOK(t) ==
  /\ thread[t].pc = "idle" =>
       thread[t].reads = {} /\ thread[t].wanted = {} /\ thread[t].found = {}
  /\ thread[t].pc # "idle" => thread[t].vertex \in Vertices
  /\ thread[t].reads \subseteq tag_group_set
  /\ thread[t].pc = "entry" =>
       /\ Live(thread[t].array)
       /\ \A i \in thread[t].reads : /\ i \in DOMAIN arrays[thread[t].array]
                                     /\ arrays[thread[t].array][i] = Group(i)
  /\ thread[t].pc \in {"copy", "publish", "set"} =>
       thread[t].index \in tag_group_set /\ Group(thread[t].index) = thread[t].found
  /\ ~have_filter => thread[t].wanted \cap FilterValues = {}
  /\ LiveTags(thread[t].found \cup thread[t].cache)

\* Only the holder of the lock replaces the array, and only when it is full.
Publishing == \E t \in Threads : thread[t].pc = "publish"
Growth ==
  /\ lock \subseteq Threads /\ \A t, u \in lock : t = u
  /\ \A t \in Threads : t \in lock <=> thread[t].pc \in {"copy", "publish"}
  /\ tag_group_next = ArrayCapacity <=> lock # {}
  /\ ~Publishing => Len(arrays) = tag_groups
  /\ Publishing =>
       /\ Len(arrays) = tag_groups + 1
       /\ Size(Len(arrays)) = 2 * ArrayCapacity
       /\ \A i \in 0..ArrayCapacity - 1 : arrays[Len(arrays)][i] = Group(i)

BetweenVisits ==
  Quiet => /\ to_visit = {} /\ tag_groups_prev = {} /\ Len(arrays) = 1
           /\ \A t \in Threads : thread[t] = Idle

TagGroupsInv ==
  /\ Shapes /\ Indices /\ Entries /\ Counts /\ TagTable
  /\ \A t \in Threads : ThreadOK(t)
  /\ Growth /\ BetweenVisits

-----------------------------------------------------------------------------
(* Sets in order, and arrays.                                              *)

\* The groups of a set in order are those of the set, each once.
LEMMA InOrderSeq ==
  ASSUME NEW S, IsFiniteSet(S), S \subseteq Int
  PROVE  /\ InOrder(S) \in Seq(S) /\ IsInjective(InOrder(S))
         /\ Range(InOrder(S)) = S
<1> DEFINE n == Cardinality(S)
           below(i) == {j \in S : j <= i}
           rank == [i \in S |-> Cardinality(below(i))]
<1>1. n \in Nat /\ \A T \in SUBSET S : IsFiniteSet(T) /\ Cardinality(T) \in Nat
  BY FS_Subset, FS_CardinalityType
<1>2. \A i \in S : rank[i] \in 1..n
  <2> TAKE i \in S
  <2>1. below(i) \in SUBSET S /\ i \in below(i)
    OBVIOUS
  <2>2. Cardinality(below(i)) <= n
    BY <2>1, FS_Subset
  <2>3. Cardinality(below(i)) # 0
    BY <1>1, <2>1, FS_EmptySet
  <2>4. Cardinality(below(i)) \in Nat
    BY <1>1, <2>1
  <2> QED
    BY <1>1, <2>2, <2>3, <2>4
<1>3. ASSUME NEW i \in S, NEW j \in S, i < j
      PROVE  rank[i] # rank[j]
  <2>1. below(i) \subseteq below(j) /\ j \in below(j) /\ j \notin below(i)
    <3>1. i \in Int /\ j \in Int /\ \A k \in S : k \in Int
      OBVIOUS
    <3>2. \A k \in S : k <= i => k <= j
      BY ONLY <1>3, <3>1
    <3>3. j <= j /\ ~(j <= i)
      BY ONLY <1>3, <3>1
    <3> QED
      BY <3>2, <3>3
  <2>2. IsFiniteSet(below(j)) /\ below(i) \in SUBSET below(j) /\ below(i) # below(j)
    BY <1>1, <2>1
  <2>3. Cardinality(below(j)) # Cardinality(below(i))
    <3> HIDE DEF below
    <3> QED
      BY <2>2, FS_Subset
  <2> QED
    BY <2>3
<1>4. \A i, j \in S : rank[i] = rank[j] => i = j
  BY <1>3
<1>5. \A m \in 1..n : \E i \in S : rank[i] = m
  <2> HIDE DEF rank
  <2>1. rank \in [S -> 1..n]
    BY <1>2 DEF rank
  <2>2. rank \in Injection(S, 1..n)
    BY <1>4, <2>1, Fun_IsInj
  <2>3. IsFiniteSet(1..n) /\ Cardinality(1..n) = n
    BY <1>1, FS_Interval
  <2>4. rank \in Surjection(S, 1..n)
    BY <2>2, <2>3, FS_Injection
  <2> QED
    BY <2>4, Fun_SurjectionProperties
<1>6. InOrder(S) = [m \in 1..n |-> CHOOSE i \in S : rank[i] = m]
  <2>1. \A m \in 1..n : (CHOOSE i \in S : rank[i] = m)
                         = (CHOOSE i \in S : Cardinality({j \in S : j <= i}) = m)
    OBVIOUS
  <2> QED
    BY <2>1 DEF InOrder
<1> HIDE DEF rank, n
<1>7. \A m \in 1..n : InOrder(S)[m] \in S /\ rank[InOrder(S)[m]] = m
  BY <1>5, <1>6
<1>8. DOMAIN InOrder(S) = 1..n
  BY <1>6
<1>9. IsInjective(InOrder(S))
  BY <1>7, <1>8 DEF IsInjective
<1>10. InOrder(S) \in Seq(S)
  <2>1. InOrder(S) \in [1..n -> S]
    BY <1>6, <1>7
  <2> QED
    BY <1>1, <2>1, SeqDef DEF n
<1>11. \A i \in S : rank[i] \in 1..n /\ InOrder(S)[rank[i]] = i
  BY <1>2, <1>4, <1>7 DEF n
<1> QED
  BY <1>7, <1>8, <1>9, <1>10, <1>11 DEF Range

\* The last of a sequence without repetitions is not in the rest.
LEMMA PopLast ==
  ASSUME NEW S, NEW s \in Seq(S), s # <<>>, IsInjective(s)
  PROVE  /\ Front(s) \in Seq(S) /\ IsInjective(Front(s))
         /\ Last(s) \in Range(s) /\ Range(Front(s)) = Range(s) \ {Last(s)}
<1> DEFINE n == Len(s)
<1>1. n \in Nat \ {0} /\ DOMAIN s = 1..n
  BY LenProperties, EmptySeq
<1>2. /\ Front(s) \in Seq(S) /\ DOMAIN Front(s) = 1..n - 1
      /\ \A i \in 1..n - 1 : Front(s)[i] = s[i]
  <2>1. Front(s) = SubSeq(s, 1, n - 1)
    BY DEF Front
  <2>2. \A k \in 1..n - 1 : s[k] \in S
    BY <1>1, ElementOfSeq
  <2>3. DOMAIN Front(s) = 1..n - 1 /\ \A i \in 1..n - 1 : Front(s)[i] = s[i]
    BY <1>1, <2>1
  <2>4. Front(s) = [i \in 1..n - 1 |-> s[i]]
    BY <1>1, <2>1
  <2>5. Front(s) \in [1..n - 1 -> S]
    BY <2>2, <2>4
  <2> QED
    BY <1>1, <2>3, <2>5, SeqDef
<1>3. Last(s) = s[n]
  BY DEF Last
<1> HIDE DEF n
<1>4. \A i, j \in 1..n : s[i] = s[j] => i = j
  BY <1>1 DEF IsInjective
<1>5. IsInjective(Front(s))
  BY <1>1, <1>2, <1>4 DEF IsInjective
<1>6. Range(Front(s)) = {s[i] : i \in 1..n - 1}
  BY <1>2 DEF Range
<1>7. \A i \in 1..n : (i \in 1..n - 1) <=> (s[i] # s[n])
  BY <1>1, <1>4
<1>8. Range(s) = {s[i] : i \in 1..n} /\ 1..n - 1 \subseteq 1..n
  BY <1>1 DEF Range
<1>9. {s[i] : i \in 1..n - 1} = {s[i] : i \in 1..n} \ {s[n]}
  BY ONLY <1>7, <1>8
<1>10. s[n] \in Range(s)
  BY <1>1 DEF Range
<1> QED
  BY <1>2, <1>3, <1>5, <1>6, <1>8, <1>9, <1>10

\* Two sequences without repetitions and with no element in common.
LEMMA ConcatInjective ==
  ASSUME NEW s \in Seq(Int), NEW r \in Seq(Int), IsInjective(s), IsInjective(r),
         Range(s) \cap Range(r) = {}
  PROVE  /\ s \o r \in Seq(Int) /\ IsInjective(s \o r)
         /\ Range(s \o r) = Range(s) \cup Range(r)
<1> DEFINE c == s \o r
           n == Len(s)
           m == Len(r)
<1>1. n \in Nat /\ m \in Nat /\ DOMAIN s = 1..n /\ DOMAIN r = 1..m
  BY LenProperties
<1>2. /\ c \in Seq(Int) /\ Len(c) = n + m
      /\ \A i \in 1..n + m : c[i] = IF i <= n THEN s[i] ELSE r[i - n]
  BY ConcatProperties
<1>3. DOMAIN c = 1..n + m
  BY <1>2, LenProperties
<1>4. Range(c) = Range(s) \cup Range(r)
  BY RangeConcatenation
<1> HIDE DEF c, n, m
<1>5. ASSUME NEW i \in 1..n + m, NEW j \in 1..n + m, c[i] = c[j]
      PROVE  i = j
  <2>1. \A k \in 1..n : s[k] \in Range(s)
    BY <1>1 DEF Range
  <2>2. \A k \in 1..m : r[k] \in Range(r)
    BY <1>1 DEF Range
  <2>3. \A k, l \in 1..n : s[k] = s[l] => k = l
    BY <1>1 DEF IsInjective
  <2>4. \A k, l \in 1..m : r[k] = r[l] => k = l
    BY <1>1 DEF IsInjective
  <2>5. /\ \A k \in 1..n + m : k <= n => k \in 1..n /\ c[k] = s[k]
        /\ \A k \in 1..n + m : ~(k <= n) => k - n \in 1..m /\ c[k] = r[k - n]
    BY <1>1, <1>2
  <2>6. i <= n <=> j <= n
    BY <1>5, <2>1, <2>2, <2>5
  <2>7. CASE i <= n
    BY <1>5, <2>3, <2>5, <2>6, <2>7
  <2>8. CASE ~(i <= n)
    <3>1. i - n = j - n
      BY <1>5, <2>4, <2>5, <2>6, <2>8
    <3> QED
      BY <1>1, <3>1
  <2> QED
    BY <2>7, <2>8
<1>6. IsInjective(c)
  BY <1>3, <1>5 DEF IsInjective
<1> QED
  BY <1>2, <1>4, <1>6 DEF c

\* An array has the indices below its size.
LEMMA ArraySize ==
  ASSUME NEW f \in Array
  PROVE  LET n == Cardinality(DOMAIN f)
         IN  n \in Nat \ {0} /\ DOMAIN f = 0..n - 1 /\ f \in [0..n - 1 -> SUBSET Int]
<1>1. PICK m \in Nat \ {0} : f \in [0..m - 1 -> SUBSET Int]
  BY DEF Array
<1>2. Cardinality(0..m - 1) = m
  BY FS_Interval
<1> QED
  BY <1>1, <1>2

LEMMA MakeArray ==
  ASSUME NEW n \in Nat \ {0}, NEW f \in [0..n - 1 -> SUBSET Int]
  PROVE  f \in Array /\ Cardinality(DOMAIN f) = n
<1>1. Cardinality(0..n - 1) = n
  BY FS_Interval
<1> QED
  BY <1>1 DEF Array

LEMMA Numbers ==
  ASSUME TagGroupsAssumption, Shapes, Indices
  PROVE  /\ Len(arrays) \in Nat /\ DOMAIN arrays = 1..Len(arrays)
         /\ \A a \in 1..Len(arrays) :
              /\ Size(a) \in Nat \ {0} /\ DOMAIN arrays[a] = 0..Size(a) - 1
              /\ arrays[a] \in [0..Size(a) - 1 -> SUBSET Int]
         /\ ArrayCapacity = Size(tag_groups) /\ ArrayCapacity \in Nat \ {0}
         /\ DOMAIN arrays[tag_groups] = 0..ArrayCapacity - 1
         /\ arrays[tag_groups] \in [0..ArrayCapacity - 1 -> SUBSET Int]
         /\ tag_group_next \in Nat /\ tag_group_next <= ArrayCapacity
         /\ \A g \in tag_group_set : g \in 0..tag_group_next - 1 /\ g \in DOMAIN arrays[tag_groups]
         /\ NoIndex \notin tag_group_set
         /\ Len(tags) \in Nat /\ DOMAIN tags = 1..Len(tags)
<1>1. Len(arrays) \in Nat /\ DOMAIN arrays = 1..Len(arrays) /\ tag_groups \in 1..Len(arrays)
  BY LenProperties DEF Shapes
<1>2. \A a \in 1..Len(arrays) : arrays[a] \in Array
  BY ElementOfSeq DEF Shapes
<1>3. \A a \in 1..Len(arrays) :
         /\ Size(a) \in Nat \ {0} /\ DOMAIN arrays[a] = 0..Size(a) - 1
         /\ arrays[a] \in [0..Size(a) - 1 -> SUBSET Int]
  BY <1>2, ArraySize DEF Size
<1>4. ArrayCapacity = Size(tag_groups)
  BY DEF ArrayCapacity, Size
<1>5. ArrayCapacity \in Nat \ {0} /\ tag_group_next \in 0..ArrayCapacity
  BY <1>1, <1>3, <1>4 DEF Shapes
<1>6. /\ \A g \in tag_group_set : g \in 0..tag_group_next - 1
      /\ NoIndex \notin tag_group_set
  <2>1. \A g \in tag_group_set : g \in 0..tag_group_next - 1
    BY DEF Indices
  <2> QED
    BY <1>5, <2>1 DEF NoIndex
<1>7. Len(tags) \in Nat /\ DOMAIN tags = 1..Len(tags)
  BY LenProperties DEF Shapes
<1>8. \A g \in tag_group_set : g \in 0..ArrayCapacity - 1
  BY <1>5, <1>6
<1> QED
  BY <1>1, <1>3, <1>4, <1>5, <1>6, <1>7, <1>8

LEMMA IdleState ==
  /\ Idle \in ThreadState /\ Idle.pc = "idle"
  /\ Idle.reads = {} /\ Idle.wanted = {} /\ Idle.found = {} /\ Idle.cache = {}
BY DEF Idle, ThreadState, NoIndex

-----------------------------------------------------------------------------
(* The visits of the threads.                                              *)

\* A thread that stands still keeps what it has read and found, when groups
\* and tags are only added.
LEMMA OthersOK ==
  ASSUME Shapes, NEW u \in Threads, ThreadOK(u), thread'[u] = thread[u],
         have_filter' = have_filter,
         tag_group_set \subseteq tag_group_set',
         \A i \in tag_group_set : Group(i)' = Group(i),
         \A a : Live(a) => Live(a)',
         \A a : \A i \in tag_group_set :
           Live(a) /\ i \in DOMAIN arrays[a]
           => i \in DOMAIN arrays'[a] /\ arrays'[a][i] = arrays[a][i],
         \A i \in DOMAIN tags : i \in DOMAIN tags' /\ tags'[i] = tags[i]
  PROVE  ThreadOK(u)'
<1>1. /\ thread'[u].pc = "idle" =>
           thread'[u].reads = {} /\ thread'[u].wanted = {} /\ thread'[u].found = {}
      /\ thread'[u].pc # "idle" => thread'[u].vertex \in Vertices
      /\ thread'[u].reads \subseteq tag_group_set'
      /\ ~have_filter' => thread'[u].wanted \cap FilterValues = {}
  BY DEF ThreadOK
<1>2. ASSUME thread'[u].pc = "entry"
      PROVE  /\ thread'[u].array = tag_groups' \/ thread'[u].array \in tag_groups_prev'
             /\ \A i \in thread'[u].reads :
                  /\ i \in DOMAIN arrays'[thread'[u].array]
                  /\ arrays'[thread'[u].array][i] = arrays'[tag_groups'][i]
  <2>1. /\ Live(thread[u].array) /\ thread[u].reads \subseteq tag_group_set
        /\ \A i \in thread[u].reads : /\ i \in DOMAIN arrays[thread[u].array]
                                      /\ arrays[thread[u].array][i] = Group(i)
    BY <1>2 DEF ThreadOK
  <2> QED
    BY <2>1 DEF Live, Group
<1>3. ASSUME thread'[u].pc \in {"copy", "publish", "set"}
      PROVE  /\ thread'[u].index \in tag_group_set'
             /\ arrays'[tag_groups'][thread'[u].index] = thread'[u].found
  BY <1>3 DEF ThreadOK, Group
<1>4. \A i \in thread'[u].found \cup thread'[u].cache : i \in DOMAIN tags' /\ tags'[i] # "deleted"
  BY DEF ThreadOK, LiveTags
<1> QED
  BY <1>1, <1>2, <1>3, <1>4 DEF ThreadOK, LiveTags, Live, Group

\* Nothing is visited between visits.
LEMMA VisitsSearch ==
  ASSUME TagGroupsInv
  PROVE  /\ \A t \in Threads : thread[t].pc # "idle" => searching # "no"
         /\ to_visit # {} => searching # "no"
BY IdleState DEF TagGroupsInv, BetweenVisits, Quiet

\* A step of a thread that leaves the tables and the lock alone.
LEMMA ThreadStep ==
  ASSUME TagGroupsAssumption, TagGroupsInv, NEW t \in Threads, searching # "no",
         UNCHANGED <<tags, tableVars, lock, vertexVars, filtered_arrivals, have_filter,
                     searching>>,
         to_visit' \subseteq Vertices,
         thread' \in [Threads -> ThreadState],
         \A u \in Threads : u # t => thread'[u] = thread[u],
         thread[t].pc \notin {"copy", "publish"}, thread'[t].pc \notin {"copy", "publish"},
         ThreadOK(t)'
  PROVE  TagGroupsInv'
<1> USE DEF TagGroupsInv, tableVars, vertexVars
<1>1. /\ ArrayCapacity' = ArrayCapacity
      /\ \A i : Group(i)' = Group(i)
      /\ \A a : (Live(a)' <=> Live(a)) /\ Size(a)' = Size(a)
  BY DEF ArrayCapacity, Group, Live, Size
<1>2. Shapes'
  BY <1>1 DEF Shapes
<1>3. Indices' /\ Entries' /\ Counts'
  BY <1>1 DEF Indices, Entries, Counts
<1>4. TagTable'
  BY <1>1 DEF TagTable, LiveTags, HasFilterTag, Group
<1>5. \A u \in Threads : ThreadOK(u)'
  <2>1. ASSUME NEW u \in Threads, u # t PROVE ThreadOK(u)'
    BY <1>1, <2>1, OthersOK
  <2> QED
    BY <2>1
<1>6. Growth'
  <2>1. \A u \in Threads : thread'[u].pc \in {"copy", "publish"} <=> thread[u].pc \in {"copy", "publish"}
    OBVIOUS
  <2>2. \A u \in Threads : thread'[u].pc = "publish" <=> thread[u].pc = "publish"
    OBVIOUS
  <2>3. Publishing' <=> Publishing
    BY <2>2 DEF Publishing
  <2> QED
    BY <1>1, <2>1, <2>3 DEF Growth
<1>7. BetweenVisits'
  BY DEF BetweenVisits, Quiet
<1> QED
  BY <1>2, <1>3, <1>4, <1>5, <1>6, <1>7

LEMMA BeginVisitInv ==
  ASSUME TagGroupsAssumption, TagGroupsInv, NEW t \in Threads, NEW v \in Vertices,
         BeginVisit(t, v)
  PROVE  TagGroupsInv'
<1> USE DEF TagGroupsInv
<1>1. thread \in [Threads -> ThreadState] /\ thread[t].pc = "idle" /\ v \in to_visit
  BY DEF BeginVisit, Shapes
<1> DEFINE reads == {tag_group_index[u] : u \in {w \in Vertices : /\ w = v \/ Level[w] < Level[v]
                                                                  /\ tag_group_index[w] # NoIndex}}
<1>2. PICK wanted \in SUBSET (IF have_filter THEN TagValues ELSE TagValues \ FilterValues) :
        thread' = [thread EXCEPT ![t] = [@ EXCEPT !.pc = "read", !.vertex = v, !.wanted = wanted,
                                                  !.found = {}, !.reads = reads]]
  BY DEF BeginVisit
<1>3. reads \subseteq tag_group_set /\ reads \subseteq Int
  BY Numbers DEF Shapes
<1> HIDE DEF reads
<1>4. /\ thread' \in [Threads -> ThreadState]
      /\ \A u \in Threads : u # t => thread'[u] = thread[u]
      /\ thread'[t].pc = "read" /\ thread'[t].vertex = v /\ thread'[t].wanted = wanted
      /\ thread'[t].found = {} /\ thread'[t].reads = reads
      /\ thread'[t].cache = thread[t].cache
  <2> DEFINE q == [thread[t] EXCEPT !.pc = "read", !.vertex = v, !.wanted = wanted,
                                    !.found = {}, !.reads = reads]
  <2>1. /\ q \in ThreadState /\ q.pc = "read" /\ q.vertex = v /\ q.wanted = wanted
        /\ q.found = {} /\ q.reads = reads /\ q.cache = thread[t].cache
    <3>1. thread[t] \in ThreadState /\ wanted \in SUBSET TagValues
      BY <1>1, <1>2
    <3>2. v \in Vertices
      OBVIOUS
    <3> QED
      BY ONLY <1>3, <3>1, <3>2 DEF ThreadState
  <2>2. thread' = [thread EXCEPT ![t] = q]
    BY <1>1, <1>2
  <2> HIDE DEF q
  <2> QED
    BY <1>1, <2>1, <2>2
<1>5. ThreadOK(t)'
  BY <1>2, <1>3, <1>4 DEF BeginVisit, ThreadOK, LiveTags, tableVars
<1> QED
  BY <1>1, <1>4, <1>5, VisitsSearch, ThreadStep DEF BeginVisit, Shapes

LEMMA ReadInv ==
  ASSUME TagGroupsAssumption, TagGroupsInv, NEW t \in Threads,
         LoadArray(t) \/ ReadEntry(t)
  PROVE  TagGroupsInv'
<1> USE DEF TagGroupsInv
<1>1. thread \in [Threads -> ThreadState] /\ thread[t] \in ThreadState /\ tag_groups \in Int
      /\ DOMAIN arrays[tag_groups] = 0..ArrayCapacity - 1
  BY Numbers DEF Shapes
<1>2. CASE LoadArray(t)
  <2>1. thread[t].pc = "read"
        /\ thread' = [thread EXCEPT ![t].pc = "entry", ![t].array = tag_groups]
    BY <1>2 DEF LoadArray
  <2>2. /\ thread' \in [Threads -> ThreadState]
        /\ \A u \in Threads : u # t => thread'[u] = thread[u]
        /\ thread'[t].pc = "entry" /\ thread'[t].vertex = thread[t].vertex
        /\ thread'[t].wanted = thread[t].wanted /\ thread'[t].reads = thread[t].reads
        /\ thread'[t].array = tag_groups
        /\ thread'[t].found = thread[t].found /\ thread'[t].cache = thread[t].cache
    BY <1>1, <2>1 DEF ThreadState
  <2>3. \A i \in thread[t].reads : i \in DOMAIN arrays[tag_groups]
    BY <1>1, Numbers DEF ThreadOK
  <2>4. ThreadOK(t)'
    BY <1>2, <2>1, <2>2, <2>3 DEF LoadArray, ThreadOK, LiveTags, Live, Group, tableVars, searchVars
  <2> QED
    BY <1>2, <2>1, <2>2, <2>4, VisitsSearch, ThreadStep DEF LoadArray, Shapes, searchVars
<1>3. CASE ReadEntry(t)
  <2>1. PICK i \in thread[t].reads :
          thread' = [thread EXCEPT ![t].pc = "read", ![t].array = 0, ![t].reads = @ \ {i}]
    BY <1>3 DEF ReadEntry
  <2>2. thread[t].pc = "entry"
    BY <1>3 DEF ReadEntry
  <2>3. /\ thread' \in [Threads -> ThreadState]
        /\ \A u \in Threads : u # t => thread'[u] = thread[u]
        /\ thread'[t].pc = "read" /\ thread'[t].vertex = thread[t].vertex
        /\ thread'[t].wanted = thread[t].wanted /\ thread'[t].reads \subseteq thread[t].reads
        /\ thread'[t].found = thread[t].found /\ thread'[t].cache = thread[t].cache
    <3> DEFINE rest == thread[t].reads \ {i}
    <3>1. rest \in SUBSET Int /\ rest \subseteq thread[t].reads
      BY <1>1 DEF ThreadState
    <3>2. thread' = [thread EXCEPT ![t].pc = "read", ![t].array = 0, ![t].reads = rest]
      BY <2>1
    <3> HIDE DEF rest
    <3> DEFINE q == [thread[t] EXCEPT !.pc = "read"]
               r == [[q EXCEPT !.array = 0] EXCEPT !.reads = rest]
    <3>3. thread' = [thread EXCEPT ![t] = r]
      BY <1>1, <3>2
    <3>4. q \in ThreadState /\ q.pc = "read" /\ q.vertex = thread[t].vertex
          /\ q.wanted = thread[t].wanted /\ q.found = thread[t].found /\ q.cache = thread[t].cache
      BY ONLY <1>1 DEF ThreadState
    <3>5. r \in ThreadState /\ r.pc = "read" /\ r.vertex = thread[t].vertex /\ r.reads = rest
          /\ r.wanted = thread[t].wanted /\ r.found = thread[t].found /\ r.cache = thread[t].cache
      <4> DEFINE p == [q EXCEPT !.array = 0]
      <4> HIDE DEF q
      <4>1. p \in ThreadState /\ p.pc = q.pc /\ p.vertex = q.vertex /\ p.wanted = q.wanted
            /\ p.found = q.found /\ p.cache = q.cache
        BY ONLY <3>4 DEF ThreadState
      <4> HIDE DEF p
      <4>2. [p EXCEPT !.reads = rest] \in ThreadState
        BY ONLY <3>1, <4>1 DEF ThreadState
      <4>3. LET u == [p EXCEPT !.reads = rest]
            IN  /\ u.pc = p.pc /\ u.vertex = p.vertex /\ u.wanted = p.wanted
                /\ u.found = p.found /\ u.cache = p.cache /\ u.reads = rest
        BY ONLY <4>1 DEF ThreadState
      <4>4. r = [p EXCEPT !.reads = rest]
        BY DEF p
      <4> QED
        BY <3>4, <4>1, <4>2, <4>3, <4>4
    <3> HIDE DEF r
    <3> QED
      BY <1>1, <3>1, <3>3, <3>5
  <2>4. ThreadOK(t)'
    BY <1>3, <2>2, <2>3 DEF ReadEntry, ThreadOK, LiveTags, tableVars, searchVars
  <2> QED
    BY <1>3, <2>2, <2>3, <2>4, VisitsSearch, ThreadStep DEF ReadEntry, Shapes, searchVars
<1> QED
  BY <1>2, <1>3

\* A thread's next state with its visit over.
LEMMA EndVisitState ==
  ASSUME thread \in [Threads -> ThreadState], NEW t \in Threads, EndVisit(t)
  PROVE  /\ thread' \in [Threads -> ThreadState]
         /\ \A u \in Threads : u # t => thread'[u] = thread[u]
         /\ thread'[t].pc = "idle" /\ thread'[t].reads = {} /\ thread'[t].wanted = {}
         /\ thread'[t].found = {} /\ thread'[t].cache = thread[t].cache
<1> DEFINE r == [Idle EXCEPT !.cache = thread[t].cache]
<1>1. thread[t].cache \in SUBSET Int
  BY DEF ThreadState
<1>2. r \in ThreadState
  BY <1>1, IdleState DEF ThreadState
<1>3. /\ r.pc = "idle" /\ r.reads = {} /\ r.wanted = {} /\ r.found = {}
      /\ r.cache = thread[t].cache
  BY IdleState DEF Idle
<1> HIDE DEF r
<1>4. thread' = [thread EXCEPT ![t] = r]
  BY DEF EndVisit, r
<1> QED
  BY <1>2, <1>3, <1>4

LEMMA UnchangedInv ==
  ASSUME TagGroupsAssumption, TagGroupsInv, NEW t \in Threads, Unchanged(t)
  PROVE  TagGroupsInv'
<1> USE DEF TagGroupsInv
<1>1. thread \in [Threads -> ThreadState] /\ thread[t].pc = "read" /\ EndVisit(t)
  BY DEF Unchanged, Found, Shapes
<1>2. /\ thread' \in [Threads -> ThreadState]
      /\ \A u \in Threads : u # t => thread'[u] = thread[u]
      /\ thread'[t].pc = "idle" /\ thread'[t].reads = {} /\ thread'[t].wanted = {}
      /\ thread'[t].found = {} /\ thread'[t].cache = thread[t].cache
  BY <1>1, EndVisitState
<1>3. ThreadOK(t)'
  BY <1>2 DEF Unchanged, ThreadOK, LiveTags, tableVars, searchVars
<1> QED
  BY <1>1, <1>2, <1>3, VisitsSearch, ThreadStep DEF Unchanged, Shapes, searchVars

LEMMA FindTagGroupInv ==
  ASSUME TagGroupsAssumption, TagGroupsInv, NEW t \in Threads, FindTagGroup(t)
  PROVE  TagGroupsInv'
<1> USE DEF TagGroupsInv
<1> DEFINE known == {g \in tag_group_set : Values(Group(g)) = Values(thread[t].found)}
           g == CHOOSE h \in known : TRUE
<1>1. /\ thread \in [Threads -> ThreadState] /\ thread[t].pc = "read" /\ known # {}
      /\ thread' = [thread EXCEPT ![t].pc = "set", ![t].index = g]
  BY DEF FindTagGroup, Found, Shapes
<1>2. g \in known
  BY <1>1
<1>3. g \in tag_group_set /\ g \in Int
  BY <1>2, Numbers
<1>4. Group(g) = thread[t].found
  <2>1. /\ \A i \in Group(g) \cup thread[t].found : i \in DOMAIN tags /\ tags[i] # "deleted"
        /\ \A i, j \in DOMAIN tags : tags[i] = tags[j] /\ tags[i] # "deleted" => i = j
    BY <1>3 DEF TagTable, ThreadOK, LiveTags
  <2>2. {tags[i] : i \in Group(g)} = {tags[i] : i \in thread[t].found}
    BY <1>2 DEF Values
  <2>3. \A i \in Group(g) : \E j \in thread[t].found : tags[i] = tags[j]
    BY ONLY <2>2
  <2>4. \A j \in thread[t].found : \E i \in Group(g) : tags[i] = tags[j]
    BY ONLY <2>2
  <2>5. Group(g) \subseteq thread[t].found /\ thread[t].found \subseteq Group(g)
    BY ONLY <2>1, <2>3, <2>4
  <2> QED
    BY ONLY <2>5
<1> HIDE DEF g, known
<1>5. /\ thread' \in [Threads -> ThreadState]
      /\ \A u \in Threads : u # t => thread'[u] = thread[u]
      /\ thread'[t].pc = "set" /\ thread'[t].vertex = thread[t].vertex
      /\ thread'[t].wanted = thread[t].wanted /\ thread'[t].reads = thread[t].reads
      /\ thread'[t].index = g
      /\ thread'[t].found = thread[t].found /\ thread'[t].cache = thread[t].cache
  <2> DEFINE q == [[thread[t] EXCEPT !.pc = "set"] EXCEPT !.index = g]
  <2>1. /\ q \in ThreadState /\ q.pc = "set" /\ q.vertex = thread[t].vertex
        /\ q.wanted = thread[t].wanted /\ q.reads = thread[t].reads /\ q.index = g
        /\ q.found = thread[t].found /\ q.cache = thread[t].cache
    <3>1. thread[t] \in ThreadState
      BY <1>1
    <3> QED
      BY ONLY <1>3, <3>1 DEF ThreadState
  <2>2. thread' = [thread EXCEPT ![t] = q]
    BY <1>1
  <2> HIDE DEF q
  <2> QED
    BY <1>1, <2>1, <2>2
<1>6. ThreadOK(t)'
  <2>1. /\ tags' = tags /\ arrays' = arrays /\ tag_groups' = tag_groups
        /\ tag_group_set' = tag_group_set /\ have_filter' = have_filter
        /\ thread[t].reads = {}
    BY DEF FindTagGroup, Found, tableVars, searchVars
  <2>2. /\ thread[t].vertex \in Vertices /\ LiveTags(thread[t].found \cup thread[t].cache)
        /\ (~have_filter => thread[t].wanted \cap FilterValues = {})
    BY <1>1 DEF ThreadOK
  <2>3. thread'[t].index \in tag_group_set'
        /\ arrays'[tag_groups'][thread'[t].index] = thread'[t].found
    BY <1>3, <1>4, <1>5, <2>1 DEF Group
  <2> HIDE DEF TagGroupsInv
  <2> QED
    BY <1>5, <2>1, <2>2, <2>3 DEF ThreadOK, LiveTags, Group
<1>7. /\ UNCHANGED <<tags, tableVars, lock, vertexVars, filtered_arrivals, have_filter,
                     searching>>
      /\ to_visit' \subseteq Vertices /\ searching # "no"
  BY <1>1, VisitsSearch DEF FindTagGroup, Shapes, searchVars
<1> HIDE DEF TagGroupsInv
<1> QED
  BY <1>1, <1>5, <1>6, <1>7, ThreadStep

LEMMA FindTagInv ==
  ASSUME TagGroupsAssumption, TagGroupsInv, NEW t \in Threads, FindTag(t)
  PROVE  TagGroupsInv'
<1> USE DEF TagGroupsInv
<1> DEFINE x == CHOOSE y \in thread[t].wanted : TRUE
           cached == {i \in thread[t].cache : tags[i] = x}
           known == {i \in DOMAIN tags : tags[i] = x}
           i == IF cached # {} THEN CHOOSE j \in cached : TRUE
                ELSE IF known # {} THEN CHOOSE j \in known : TRUE ELSE Len(tags) + 1
           new == cached = {} /\ known = {}
           add == {i} \ DOMAIN tags
<1>1. /\ thread \in [Threads -> ThreadState] /\ thread[t] \in ThreadState
      /\ thread[t].pc = "read" /\ thread[t].reads = {} /\ thread[t].wanted # {}
      /\ tags \in Seq(TagValues \cup {"deleted"}) /\ Len(tags) \in Nat
      /\ DOMAIN tags = 1..Len(tags)
  BY Numbers DEF FindTag, Shapes
<1>2. /\ tags' = IF new THEN Append(tags, x) ELSE tags
      /\ thread' = [thread EXCEPT ![t].wanted = @ \ {x}, ![t].found = @ \cup {i},
                                  ![t].cache = @ \cup add]
      /\ UNCHANGED <<tableVars, lock, vertexVars, filtered_arrivals, searchVars>>
  BY DEF FindTag
<1>3. x \in thread[t].wanted /\ x \in TagValues /\ x # "deleted"
      /\ (~have_filter => x \notin FilterValues)
  <2>1. x \in thread[t].wanted
    BY <1>1
  <2>2. x \in TagValues
    BY <1>1, <2>1 DEF ThreadState
  <2> QED
    BY <2>1, <2>2 DEF TagGroupsAssumption, ThreadOK
<1>4. thread[t].cache \subseteq DOMAIN tags
  BY DEF ThreadOK, LiveTags
<1>5. i \in Int /\ IF new THEN i = Len(tags) + 1 ELSE i \in DOMAIN tags /\ tags[i] = x
  <2>1. CASE cached # {}
    BY <1>1, <1>4, <2>1
  <2>2. CASE cached = {} /\ known # {}
    BY <1>1, <2>2
  <2>3. CASE new
    BY <1>1, <2>3
  <2> QED
    BY <2>1, <2>2, <2>3
<1>6. new => \A j \in DOMAIN tags : tags[j] # x
  OBVIOUS
<1>7. add \subseteq {i} /\ (~new => add = {})
  BY <1>5
<1> HIDE DEF x, i, new, add
<1>8. /\ tags' \in Seq(TagValues \cup {"deleted"})
      /\ DOMAIN tags' = IF new THEN 1..Len(tags) + 1 ELSE 1..Len(tags)
      /\ \A j \in DOMAIN tags : j \in DOMAIN tags' /\ tags'[j] = tags[j]
      /\ new => tags'[i] = x
  <2>1. CASE new
    <3>1. tags' = Append(tags, x) /\ i = Len(tags) + 1
      BY <1>2, <1>5, <2>1
    <3>2. tags' \in Seq(TagValues \cup {"deleted"}) /\ Len(tags') = Len(tags) + 1
          /\ (\A j \in 1..Len(tags) : tags'[j] = tags[j]) /\ tags'[Len(tags) + 1] = x
      BY <1>1, <1>3, <3>1, AppendProperties
    <3>3. DOMAIN tags' = 1..Len(tags')
      BY <3>2, LenProperties
    <3> QED
      BY <1>1, <2>1, <3>1, <3>2, <3>3
  <2>2. CASE ~new
    BY <1>1, <1>2, <2>2
  <2> QED
    BY <2>1, <2>2
<1>9. i \in DOMAIN tags' /\ tags'[i] = x
  BY <1>1, <1>5, <1>8
<1>10. /\ \A S : LiveTags(S) => \A j \in S : j \in DOMAIN tags' /\ tags'[j] # "deleted"
       /\ \A S : LiveTags(S) => (\E j \in S : tags'[j] \in FilterValues)
                                = (\E j \in S : tags[j] \in FilterValues)
  BY <1>8 DEF LiveTags
<1>11. /\ thread' \in [Threads -> ThreadState]
       /\ \A u \in Threads : u # t => thread'[u] = thread[u]
       /\ thread'[t].pc = "read" /\ thread'[t].vertex = thread[t].vertex
       /\ thread'[t].wanted \subseteq thread[t].wanted /\ thread'[t].reads = thread[t].reads
       /\ thread'[t].found = thread[t].found \cup {i}
       /\ thread'[t].cache = thread[t].cache \cup add
  <2> DEFINE wanted == thread[t].wanted \ {x}
             found == thread[t].found \cup {i}
             cache == thread[t].cache \cup add
  <2>1. wanted \in SUBSET TagValues /\ wanted \subseteq thread[t].wanted
        /\ found \in SUBSET Int /\ cache \in SUBSET Int
    BY <1>1, <1>5, <1>7 DEF ThreadState
  <2>2. thread' = [thread EXCEPT ![t].wanted = wanted, ![t].found = found, ![t].cache = cache]
    BY <1>1, <1>2 DEF ThreadState
  <2> HIDE DEF wanted, found, cache
  <2> DEFINE p == [thread[t] EXCEPT !.wanted = wanted]
             q == [p EXCEPT !.found = found]
             r == [q EXCEPT !.cache = cache]
  <2>3. thread' = [thread EXCEPT ![t] = r]
    BY <1>1, <2>2
  <2>4. /\ p \in ThreadState /\ p.pc = thread[t].pc /\ p.vertex = thread[t].vertex
        /\ p.reads = thread[t].reads /\ p.wanted = wanted
    BY ONLY <1>1, <2>1 DEF ThreadState
  <2> HIDE DEF p
  <2>5. /\ q \in ThreadState /\ q.pc = p.pc /\ q.vertex = p.vertex
        /\ q.reads = p.reads /\ q.wanted = p.wanted /\ q.found = found
    BY ONLY <2>1, <2>4 DEF ThreadState
  <2> HIDE DEF q
  <2>6. /\ r \in ThreadState /\ r.pc = q.pc /\ r.vertex = q.vertex
        /\ r.reads = q.reads /\ r.wanted = q.wanted /\ r.found = q.found /\ r.cache = cache
    BY ONLY <2>1, <2>5 DEF ThreadState
  <2> HIDE DEF r
  <2>7. /\ thread' \in [Threads -> ThreadState] /\ thread'[t] = r
        /\ \A u \in Threads : u # t => thread'[u] = thread[u]
    BY <1>1, <2>3, <2>6
  <2>8. found = thread[t].found \cup {i} /\ cache = thread[t].cache \cup add
    BY DEF found, cache
  <2> QED
    BY <1>1, <2>1, <2>4, <2>5, <2>6, <2>7, <2>8
<1>12. /\ ArrayCapacity' = ArrayCapacity /\ \A j : Group(j)' = Group(j)
       /\ \A a : (Live(a)' <=> Live(a)) /\ Size(a)' = Size(a)
  BY <1>2 DEF ArrayCapacity, Group, Live, Size, tableVars
<1>13. Shapes'
  BY <1>2, <1>8, <1>11, <1>12 DEF Shapes, tableVars, vertexVars, searchVars
<1>14. Indices' /\ Counts'
  BY <1>2, <1>12 DEF Indices, Counts, tableVars, vertexVars
<1>15. Entries'
  <2>1. DOMAIN tags \subseteq DOMAIN tags'
    BY <1>8
  <2> QED
    BY <1>2, <1>12, <2>1 DEF Entries, tableVars
<1>16. TagTable'
  <2>1. ASSUME NEW g \in tag_group_set' PROVE LiveTags(Group(g))'
    BY <1>2, <1>10, <1>12, <2>1 DEF TagTable, LiveTags, tableVars
  <2>2. \A j, k \in DOMAIN tags' : tags'[j] = tags'[k] /\ tags'[j] # "deleted" => j = k
    <3>1. \A j, k \in DOMAIN tags : tags[j] = tags[k] /\ tags[j] # "deleted" => j = k
      BY DEF TagTable
    <3>2. \A j \in DOMAIN tags' : j \in DOMAIN tags \/ (new /\ j = i)
      BY <1>1, <1>5, <1>8
    <3> QED
      BY ONLY <1>6, <1>8, <3>1, <3>2
  <2>3. ~have_filter' => \A j \in DOMAIN tags' : tags'[j] \notin FilterValues
    <3>1. \A j \in DOMAIN tags' : j \in DOMAIN tags \/ j = i
      BY <1>1, <1>5, <1>8
    <3> QED
      BY <1>2, <1>3, <1>8, <1>9, <3>1 DEF TagTable, searchVars
  <2>4. ASSUME NEW v \in Vertices, tag_group_index'[v] # NoIndex, HasFilterTag(paths[v])'
        PROVE  v \in filtered_arrivals'
    <3>1. paths' = paths /\ tag_group_index' = tag_group_index
          /\ filtered_arrivals' = filtered_arrivals
      BY <1>2 DEF vertexVars
    <3>2. tag_group_index[v] \in tag_group_set /\ Group(tag_group_index[v]) = paths[v]
      BY <2>4, <3>1 DEF Counts, Shapes
    <3>3. LiveTags(paths[v])
      BY <3>2 DEF TagTable
    <3> QED
      BY <1>10, <2>4, <3>1, <3>3 DEF TagTable, HasFilterTag
  <2> QED
    BY <2>1, <2>2, <2>3, <2>4 DEF TagTable
<1>17. \A u \in Threads : ThreadOK(u)'
  <2>1. ASSUME NEW u \in Threads, u # t PROVE ThreadOK(u)'
    BY <1>2, <1>8, <1>11, <1>12, <2>1, OthersOK DEF tableVars, searchVars
  <2>2. ThreadOK(t)'
    <3>1. LiveTags(thread[t].found \cup thread[t].cache)
          /\ thread[t].vertex \in Vertices
          /\ (~have_filter => thread[t].wanted \cap FilterValues = {})
      BY <1>1 DEF ThreadOK
    <3>2. \A j \in thread'[t].found \cup thread'[t].cache : j \in DOMAIN tags' /\ tags'[j] # "deleted"
      BY <1>3, <1>7, <1>9, <1>10, <1>11, <3>1
    <3> QED
      BY <1>1, <1>2, <1>11, <3>1, <3>2 DEF ThreadOK, LiveTags, searchVars
  <2> QED
    BY <2>1, <2>2
<1>18. Growth'
  <2>1. /\ \A u \in Threads : thread'[u].pc = thread[u].pc
        /\ Publishing' <=> Publishing
    BY <1>1, <1>11 DEF Publishing
  <2> QED
    BY <1>2, <1>12, <2>1 DEF Growth, tableVars
<1>19. BetweenVisits'
  BY <1>1, <1>2, VisitsSearch DEF BetweenVisits, Quiet, searchVars
<1> QED
  BY <1>13, <1>14, <1>15, <1>16, <1>17, <1>18, <1>19

\* The vertices with a group are finitely many.
LEMMA GroupVertices ==
  ASSUME TagGroupsAssumption, NEW S \in SUBSET Vertices
  PROVE  IsFiniteSet(S) /\ Cardinality(S) \in 0..Cardinality(Vertices)
<1>1. IsFiniteSet(Vertices)
  BY DEF TagGroupsAssumption
<1>2. IsFiniteSet(S) /\ Cardinality(S) <= Cardinality(Vertices)
  BY <1>1, FS_Subset
<1> QED
  BY <1>1, <1>2, FS_CardinalityType

LEMMA MakeTagGroupInv ==
  ASSUME TagGroupsAssumption, TagGroupsInv, NEW t \in Threads, MakeTagGroup(t)
  PROVE  TagGroupsInv'
<1> USE DEF TagGroupsInv
<1> DEFINE reuse == tag_group_free_indices # <<>>
<1>0. PICK g : g = IF reuse THEN Last(tag_group_free_indices) ELSE tag_group_next
  OBVIOUS
<1> DEFINE full == tag_group_next' = ArrayCapacity
           pc == IF full THEN "copy" ELSE "set"
           found == thread[t].found
<1>1. /\ thread \in [Threads -> ThreadState] /\ thread[t] \in ThreadState
      /\ thread[t].pc = "read" /\ thread[t].reads = {} /\ thread[t].wanted = {}
      /\ lock = {} /\ \A h \in tag_group_set : Group(h) # found
  BY DEF MakeTagGroup, Found, Shapes
<1>2. /\ tag_group_next' = IF reuse THEN tag_group_next ELSE tag_group_next + 1
      /\ tag_group_free_indices' = IF reuse THEN Front(tag_group_free_indices) ELSE <<>>
      /\ arrays' = [arrays EXCEPT ![tag_groups][g] = found]
      /\ ref_count' = [ref_count EXCEPT ![g] = 0]
      /\ tag_group_set' = tag_group_set \cup {g}
      /\ lock' = IF full THEN {t} ELSE {}
      /\ thread' = [thread EXCEPT ![t].pc = pc, ![t].index = g]
      /\ UNCHANGED <<tags, tag_groups, tag_groups_prev, tag_group_index, paths,
                     filtered_arrivals, searchVars>>
  BY <1>0 DEF MakeTagGroup, TableFull
<1>3. /\ tag_group_next \in Nat /\ ArrayCapacity \in Nat \ {0} /\ tag_group_next < ArrayCapacity
      /\ \A u \in Threads : thread[u].pc \notin {"copy", "publish"}
      /\ Len(arrays) = tag_groups /\ Len(arrays) \in Nat
      /\ arrays[tag_groups] \in [0..ArrayCapacity - 1 -> SUBSET Int]
      /\ DOMAIN arrays = 1..Len(arrays) /\ tag_groups \in 1..Len(arrays)
      /\ \A h \in tag_group_set : h \in 0..tag_group_next - 1
  BY <1>1, Numbers DEF Growth, Publishing, Shapes
<1>4. /\ g \in 0..ArrayCapacity - 1 /\ g \in 0..tag_group_next' - 1 /\ g \notin tag_group_set
      /\ tag_group_next' \in 0..ArrayCapacity /\ tag_group_next <= tag_group_next'
      /\ tag_group_free_indices' \in Seq(Int) /\ IsInjective(tag_group_free_indices')
      /\ tag_group_set' \cup Range(tag_group_free_indices') = 0..tag_group_next' - 1
      /\ tag_group_set' \cap Range(tag_group_free_indices') = {}
  <2>1. tag_group_free_indices \in Seq(Int)
    BY DEF Shapes
  <2>2. /\ tag_group_set \cup Range(tag_group_free_indices) = 0..tag_group_next - 1
        /\ tag_group_set \cap Range(tag_group_free_indices) = {}
    BY DEF Indices
  <2>3. CASE reuse
    <3>1. /\ tag_group_free_indices' \in Seq(Int) /\ IsInjective(tag_group_free_indices')
          /\ g \in Range(tag_group_free_indices)
          /\ Range(tag_group_free_indices') = Range(tag_group_free_indices) \ {g}
      BY <1>0, <1>2, <2>1, <2>3, PopLast DEF Indices
    <3>2. tag_group_next' = tag_group_next
      BY <1>2, <2>3
    <3>3. tag_group_set' = tag_group_set \cup {g}
      BY <1>2
    <3>4. /\ tag_group_set' \cup Range(tag_group_free_indices')
             = tag_group_set \cup Range(tag_group_free_indices)
          /\ tag_group_set' \cap Range(tag_group_free_indices') = {}
          /\ g \notin tag_group_set /\ g \in 0..tag_group_next - 1
      BY ONLY <2>2, <3>1, <3>3
    <3>5. g \in 0..ArrayCapacity - 1
      BY ONLY <1>3, <3>4
    <3> QED
      BY <1>3, <2>2, <3>1, <3>2, <3>4, <3>5
  <2>4. CASE ~reuse
    <3>1. g = tag_group_next /\ tag_group_next' = tag_group_next + 1
      BY <1>0, <1>2, <2>4
    <3>2. tag_group_free_indices = <<>> /\ tag_group_free_indices' = <<>>
      BY <1>2, <2>4
    <3>3. Range(<<>>) = {} /\ <<>> \in Seq(Int) /\ IsInjective(<<>>)
      BY EmptySeq DEF Range, IsInjective
    <3>4. tag_group_set = 0..tag_group_next - 1
      BY <2>2, <3>2, <3>3
    <3>5. tag_group_set' = 0..tag_group_next
      BY <1>2, <1>3, <3>1, <3>4
    <3> QED
      BY <1>3, <3>1, <3>2, <3>3, <3>4, <3>5
  <2> QED
    BY <2>3, <2>4
<1>5. LiveTags(found) /\ found \subseteq DOMAIN tags /\ found \in SUBSET Int
  BY <1>1 DEF ThreadOK, LiveTags, ThreadState
<1> HIDE DEF reuse, full, pc, found
<1> DEFINE A == [arrays[tag_groups] EXCEPT ![g] = found]
<1>6. A \in [0..ArrayCapacity - 1 -> SUBSET Int] /\ A \in Array /\ A[g] = found
      /\ \A i : i # g => A[i] = arrays[tag_groups][i]
  <2>1. A \in [0..ArrayCapacity - 1 -> SUBSET Int] /\ A[g] = found
    BY <1>3, <1>4, <1>5
  <2>2. A \in Array
    BY <1>3, <2>1, MakeArray
  <2>3. \A i : i # g => A[i] = arrays[tag_groups][i]
    BY <1>3
  <2> QED
    BY <2>1, <2>2, <2>3
<1> HIDE DEF A
<1>7. /\ arrays' \in Seq(Array) /\ Len(arrays') = Len(arrays)
      /\ arrays'[tag_groups] = A /\ \A a \in 1..Len(arrays) : a # tag_groups => arrays'[a] = arrays[a]
  <2>1. arrays' = [arrays EXCEPT ![tag_groups] = A]
    BY <1>2, <1>3 DEF A
  <2>2. arrays \in Seq(Array)
    BY DEF Shapes
  <2> QED
    BY <1>3, <1>6, <2>1, <2>2, ExceptSeq
<1>8. /\ Group(g)' = found /\ \A i : i # g => Group(i)' = Group(i)
      /\ DOMAIN arrays'[tag_groups] = 0..ArrayCapacity - 1
      /\ \A a \in 1..Len(arrays) : DOMAIN arrays'[a] = DOMAIN arrays[a]
  BY <1>2, <1>3, <1>6, <1>7 DEF Group
<1>9. /\ ArrayCapacity' = ArrayCapacity /\ \A a : (Live(a)' <=> Live(a))
      /\ \A a \in 1..Len(arrays) : Size(a)' = Size(a)
  BY <1>2, <1>3, <1>8 DEF ArrayCapacity, Live, Size
<1>10. /\ thread' \in [Threads -> ThreadState]
       /\ \A u \in Threads : u # t => thread'[u] = thread[u]
       /\ thread'[t].pc = pc /\ thread'[t].vertex = thread[t].vertex
       /\ thread'[t].wanted = {} /\ thread'[t].reads = {}
       /\ thread'[t].index = g
       /\ thread'[t].found = found /\ thread'[t].cache = thread[t].cache
  <2> DEFINE q == [[thread[t] EXCEPT !.pc = pc] EXCEPT !.index = g]
  <2>1. /\ q \in ThreadState /\ q.pc = pc /\ q.vertex = thread[t].vertex
        /\ q.wanted = thread[t].wanted /\ q.reads = thread[t].reads /\ q.index = g
        /\ q.found = thread[t].found /\ q.cache = thread[t].cache
    <3>1. thread[t] \in ThreadState /\ g \in Int /\ pc \in {"copy", "set"}
      BY <1>1, <1>4 DEF pc
    <3> QED
      BY ONLY <3>1 DEF ThreadState
  <2>2. thread' = [thread EXCEPT ![t] = q]
    BY <1>1, <1>2
  <2> HIDE DEF q
  <2> QED
    BY <1>1, <2>1, <2>2 DEF found
<1>11. ref_count' \in [DOMAIN arrays'[tag_groups] -> Int] /\ ref_count'[g] = 0
       /\ \A h \in 0..ArrayCapacity - 1 : h # g => ref_count'[h] = ref_count[h]
  <2>1. ref_count \in [0..ArrayCapacity - 1 -> Int]
    BY <1>3 DEF Shapes
  <2>2. ref_count' = [ref_count EXCEPT ![g] = 0]
    BY <1>2
  <2>3. ref_count' \in [0..ArrayCapacity - 1 -> Int] /\ ref_count'[g] = 0
        /\ \A h \in 0..ArrayCapacity - 1 : h # g => ref_count'[h] = ref_count[h]
    BY ONLY <1>4, <2>1, <2>2
  <2> QED
    BY <1>8, <2>3
<1>12. Shapes'
  <2>1. tag_groups_prev' \subseteq DOMAIN arrays' /\ tag_groups' \in 1..Len(arrays')
    BY <1>2, <1>3, <1>7, LenProperties DEF Shapes
  <2>2. tag_group_index' \in [Vertices -> {NoIndex} \cup tag_group_set']
    BY <1>2 DEF Shapes
  <2>3. ref_count' \in [DOMAIN arrays'[tag_groups'] -> Int] /\ tag_group_next' \in 0..ArrayCapacity'
    BY <1>2, <1>4, <1>9, <1>11
  <2> QED
    BY <1>2, <1>4, <1>7, <1>10, <2>1, <2>2, <2>3 DEF Shapes, searchVars
<1>13. Indices'
  BY <1>4 DEF Indices
<1>14. Entries'
  <2>1. ASSUME NEW i \in 0..tag_group_next' - 1 PROVE Group(i)' \subseteq DOMAIN tags'
    <3>1. i = g \/ i \in 0..tag_group_next - 1
      BY <1>0, <1>2, <1>3 DEF reuse
    <3> QED
      BY <1>2, <1>5, <1>8, <3>1 DEF Entries
  <2>2. ASSUME NEW a \in 1..tag_groups' - 1
        PROVE  /\ Size(a)' <= tag_group_next'
               /\ \A i \in DOMAIN arrays'[a] : arrays'[a][i] \subseteq DOMAIN tags'
    <3>1. a \in 1..tag_groups - 1 /\ a \in 1..Len(arrays) /\ a # tag_groups
      BY <1>2, <1>3
    <3>2. Size(a)' = Size(a) /\ Size(a) \in Nat /\ Size(a) <= tag_group_next
      BY <1>9, <3>1, Numbers DEF Entries
    <3>3. arrays'[a] = arrays[a]
      BY <1>7, <3>1
    <3>4. Size(a)' <= tag_group_next'
      BY ONLY <1>3, <1>4, <3>2
    <3> QED
      BY <1>2, <3>1, <3>3, <3>4 DEF Entries
  <2> QED
    BY <2>1, <2>2 DEF Entries
<1>15. Counts'
  <2>1. \A v \in Vertices : tag_group_index'[v] = tag_group_index[v] /\ tag_group_index[v] # g
    <3>1. g # NoIndex
      BY <1>4 DEF NoIndex
    <3> QED
      BY <1>2, <1>4, <3>1 DEF Shapes
  <2>2. ASSUME NEW v \in Vertices
        PROVE  IF tag_group_index'[v] = NoIndex THEN paths'[v] = {}
               ELSE Group(tag_group_index[v])' = paths'[v]
    BY <1>2, <1>8, <2>1 DEF Counts
  <2>3. ASSUME NEW h \in DOMAIN ref_count'
        PROVE  IF h \in tag_group_set'
               THEN ref_count'[h] = Cardinality({v \in Vertices : tag_group_index'[v] = h})
               ELSE ref_count'[h] \in 0..Cardinality(Vertices)
    <3>1. h \in 0..ArrayCapacity - 1 /\ h \in DOMAIN ref_count
      BY <1>2, <1>8, <1>11 DEF Shapes
    <3>2. CASE h = g
      <4>1. {v \in Vertices : tag_group_index'[v] = h} = {}
        BY <2>1, <3>2
      <4> QED
        BY <1>2, <1>11, <3>2, <4>1, FS_EmptySet
    <3>3. CASE h # g
      BY <1>2, <1>11, <2>1, <3>1, <3>3 DEF Counts
    <3> QED
      BY <3>2, <3>3
  <2>4. \A h, k \in tag_group_set' : Group(h)' = Group(k)' => h = k
    <3>1. \A h, k \in tag_group_set : Group(h) = Group(k) => h = k
      BY DEF Counts
    <3> QED
      BY <1>1, <1>2, <1>4, <1>8, <3>1
  <2> QED
    BY <1>2, <2>2, <2>3, <2>4 DEF Counts, Group
<1>16. TagTable'
  <2>1. ASSUME NEW h \in tag_group_set' PROVE LiveTags(Group(h))'
    BY <1>2, <1>5, <1>8 DEF TagTable, LiveTags
  <2> QED
    BY <1>2, <2>1 DEF TagTable, HasFilterTag, searchVars
<1>17. \A u \in Threads : ThreadOK(u)'
  <2>1. ASSUME NEW u \in Threads, u # t PROVE ThreadOK(u)'
    <3>1. \A i \in tag_group_set : Group(i)' = Group(i)
      BY <1>4, <1>8
    <3>2. ASSUME NEW a, NEW i \in tag_group_set, Live(a), i \in DOMAIN arrays[a]
          PROVE  i \in DOMAIN arrays'[a] /\ arrays'[a][i] = arrays[a][i]
      <4>1. a \in 1..Len(arrays)
        BY <1>3, <3>2 DEF Live, Shapes
      <4> QED
        BY <1>4, <1>6, <1>7, <1>8, <3>2, <4>1
    <3> QED
      BY <1>2, <1>9, <1>10, <2>1, <3>1, <3>2, OthersOK DEF searchVars
  <2>2. ThreadOK(t)'
    <3>1. thread[t].vertex \in Vertices /\ LiveTags(found \cup thread[t].cache)
      BY <1>1 DEF ThreadOK, found
    <3>2. thread'[t].index \in tag_group_set' /\ arrays'[tag_groups'][thread'[t].index] = found
      <4>1. tag_groups' = tag_groups /\ g \in tag_group_set'
        BY <1>2
      <4> QED
        BY ONLY <1>6, <1>7, <1>10, <4>1
    <3>3. pc # "idle" /\ pc # "entry"
      BY DEF pc
    <3> QED
      BY <1>2, <1>10, <3>1, <3>2, <3>3 DEF ThreadOK, LiveTags, Group, searchVars
  <2> QED
    BY <2>1, <2>2
<1>18. Growth'
  <2>1. \A u \in Threads : u \in lock' <=> thread'[u].pc \in {"copy", "publish"}
    BY <1>2, <1>3, <1>10 DEF pc
  <2>2. ~Publishing'
    BY <1>3, <1>10 DEF pc, Publishing
  <2>3. tag_group_next' = ArrayCapacity' <=> lock' # {}
    BY <1>2, <1>9 DEF full
  <2>4. lock' \subseteq Threads /\ \A s, u \in lock' : s = u
    BY <1>2
  <2>5. Len(arrays') = tag_groups'
    BY <1>2, <1>3, <1>7
  <2> HIDE DEF TagGroupsInv
  <2> QED
    BY <2>1, <2>2, <2>3, <2>4, <2>5 DEF Growth
<1>19. BetweenVisits'
  BY <1>1, <1>2, VisitsSearch DEF BetweenVisits, Quiet, searchVars
<1> QED
  BY <1>12, <1>13, <1>14, <1>15, <1>16, <1>17, <1>18, <1>19

\* The holder of the lock is alone with the arrays.
LEMMA Holder ==
  ASSUME TagGroupsInv, NEW t \in Threads, thread[t].pc \in {"copy", "publish"}
  PROVE  /\ lock = {t} /\ tag_group_next = ArrayCapacity
         /\ \A u \in Threads : u # t => thread[u].pc \notin {"copy", "publish"}
<1>1. /\ t \in lock /\ lock \subseteq Threads /\ \A s, u \in lock : s = u
      /\ \A u \in Threads : u \in lock <=> thread[u].pc \in {"copy", "publish"}
      /\ tag_group_next = ArrayCapacity <=> lock # {}
  BY DEF TagGroupsInv, Growth
<1> QED
  BY ONLY <1>1

\* A thread's next state with another pc.
LEMMA MoveState ==
  ASSUME thread \in [Threads -> ThreadState], NEW t \in Threads,
         NEW pc \in {"idle", "read", "entry", "copy", "publish", "set"}, Move(t, pc)
  PROVE  /\ thread' \in [Threads -> ThreadState]
         /\ \A u \in Threads : u # t => thread'[u] = thread[u]
         /\ thread'[t].pc = pc /\ thread'[t].vertex = thread[t].vertex
         /\ thread'[t].reads = thread[t].reads /\ thread'[t].wanted = thread[t].wanted
         /\ thread'[t].found = thread[t].found /\ thread'[t].index = thread[t].index
         /\ thread'[t].cache = thread[t].cache
<1> DEFINE q == [thread[t] EXCEPT !.pc = pc]
<1>1. thread' = [thread EXCEPT ![t] = q]
  BY DEF Move
<1>2. /\ q \in ThreadState /\ q.pc = pc /\ q.vertex = thread[t].vertex
      /\ q.reads = thread[t].reads /\ q.wanted = thread[t].wanted
      /\ q.found = thread[t].found /\ q.index = thread[t].index /\ q.cache = thread[t].cache
  <2>1. thread[t] \in ThreadState /\ pc \in {"idle", "read", "entry", "copy", "publish", "set"}
    OBVIOUS
  <2> QED
    BY ONLY <2>1 DEF ThreadState
<1> HIDE DEF q
<1> QED
  BY <1>1, <1>2

LEMMA CopyTagGroupsInv ==
  ASSUME TagGroupsAssumption, TagGroupsInv, NEW t \in Threads, CopyTagGroups(t)
  PROVE  TagGroupsInv'
<1> USE DEF TagGroupsInv
<1> DEFINE C == ArrayCapacity
           new == [i \in 0..2 * C - 1 |-> IF i < C THEN Group(i) ELSE Garbage]
<1>1. /\ thread \in [Threads -> ThreadState] /\ thread[t].pc = "copy"
      /\ arrays' = Append(arrays, new)
      /\ UNCHANGED <<tags, tag_groups, tag_groups_prev, tag_group_set, tag_group_next,
                     tag_group_free_indices, lock, vertexVars, filtered_arrivals, searchVars>>
  BY DEF CopyTagGroups, Shapes
<1>2. lock = {t} /\ \A u \in Threads : u # t => thread[u].pc \notin {"copy", "publish"}
  BY <1>1, Holder
<1>3. /\ C \in Nat \ {0} /\ Len(arrays) = tag_groups /\ Len(arrays) \in Nat
      /\ arrays[tag_groups] \in [0..C - 1 -> SUBSET Int]
      /\ DOMAIN arrays = 1..Len(arrays) /\ tag_groups \in 1..Len(arrays)
      /\ \A g \in tag_group_set : g \in 0..C - 1
  BY <1>1, <1>2, Numbers DEF Growth, Publishing, Shapes
<1>4. new \in Array /\ Cardinality(DOMAIN new) = 2 * C /\ \A i \in 0..C - 1 : new[i] = Group(i)
  <2>1. \A i \in 0..C - 1 : Group(i) \in SUBSET Int
    BY <1>3 DEF Group
  <2>2. Garbage \in SUBSET Int
    BY DEF Garbage
  <2>3. \A i \in 0..2 * C - 1 : (IF i < C THEN Group(i) ELSE Garbage) \in SUBSET Int
    BY <1>3, <2>1, <2>2
  <2>4. new \in [0..2 * C - 1 -> SUBSET Int]
    BY <2>3
  <2>5. 2 * C \in Nat \ {0} /\ \A i \in 0..C - 1 : i \in 0..2 * C - 1 /\ i < C
    BY <1>3
  <2> HIDE DEF C
  <2>6. \A i \in 0..C - 1 : new[i] = Group(i)
    BY <2>5
  <2> HIDE DEF new
  <2> QED
    BY <2>4, <2>5, <2>6, MakeArray
<1> HIDE DEF new
<1>5. /\ arrays' \in Seq(Array) /\ Len(arrays') = Len(arrays) + 1
      /\ \A a \in 1..Len(arrays) : arrays'[a] = arrays[a]
      /\ arrays'[Len(arrays) + 1] = new
  <2>1. arrays \in Seq(Array)
    BY DEF Shapes
  <2> QED
    BY <1>1, <1>4, <2>1, AppendProperties
<1>6. DOMAIN arrays' = 1..Len(arrays) + 1
  BY <1>5, LenProperties
<1>7. /\ ArrayCapacity' = C /\ \A i : Group(i)' = Group(i)
      /\ \A a : Live(a)' <=> Live(a)
      /\ \A a \in 1..Len(arrays) : Size(a)' = Size(a)
  BY <1>1, <1>3, <1>5 DEF ArrayCapacity, Group, Live, Size
<1>8. /\ thread' \in [Threads -> ThreadState]
      /\ \A u \in Threads : u # t => thread'[u] = thread[u]
      /\ thread'[t].pc = "publish" /\ thread'[t].vertex = thread[t].vertex
      /\ thread'[t].reads = thread[t].reads /\ thread'[t].wanted = thread[t].wanted
      /\ thread'[t].found = thread[t].found /\ thread'[t].index = thread[t].index
      /\ thread'[t].cache = thread[t].cache
  <2>1. Move(t, "publish")
    BY DEF CopyTagGroups
  <2> QED
    BY <1>1, <2>1, MoveState
<1> HIDE DEF C
<1>9. Shapes'
  <2>1. tag_groups_prev' \subseteq DOMAIN arrays' /\ tag_groups' \in 1..Len(arrays')
    BY <1>1, <1>3, <1>5, <1>6 DEF Shapes
  <2>2. arrays'[tag_groups'] = arrays[tag_groups] /\ tag_group_next' \in 0..ArrayCapacity'
    BY <1>1, <1>3, <1>5, <1>7 DEF Shapes, C
  <2> QED
    BY <1>1, <1>5, <1>8, <2>1, <2>2 DEF Shapes, vertexVars, searchVars
<1>10. Indices' /\ Counts'
  BY <1>1, <1>7 DEF Indices, Counts, vertexVars
<1>11. Entries'
  <2>1. \A a \in 1..tag_groups - 1 : a \in 1..Len(arrays)
    BY <1>3
  <2> QED
    BY <1>1, <1>5, <1>7, <2>1 DEF Entries
<1>12. TagTable'
  BY <1>1, <1>7 DEF TagTable, LiveTags, HasFilterTag, vertexVars, searchVars
<1>13. \A u \in Threads : ThreadOK(u)'
  <2>1. ASSUME NEW u \in Threads, u # t PROVE ThreadOK(u)'
    <3>1. ASSUME NEW a, NEW i \in tag_group_set, Live(a), i \in DOMAIN arrays[a]
          PROVE  i \in DOMAIN arrays'[a] /\ arrays'[a][i] = arrays[a][i]
      <4>1. a \in 1..Len(arrays)
        BY <1>3, <3>1 DEF Live, Shapes
      <4> QED
        BY <1>5, <3>1, <4>1
    <3>2. /\ Shapes /\ ThreadOK(u) /\ thread'[u] = thread[u] /\ have_filter' = have_filter
          /\ tag_group_set' = tag_group_set /\ tags' = tags
      BY <1>1, <1>8, <2>1 DEF searchVars
    <3> HIDE DEF TagGroupsInv
    <3> QED
      BY <1>7, <3>1, <3>2, OthersOK
  <2>2. ThreadOK(t)'
    <3>1. thread[t].index \in tag_group_set /\ Group(thread[t].index) = thread[t].found
      BY <1>1 DEF ThreadOK
    <3>2. arrays'[tag_groups'][thread'[t].index] = thread'[t].found
      BY <1>1, <1>3, <1>5, <1>8, <3>1 DEF Group
    <3> QED
      BY <1>1, <1>8, <3>1, <3>2 DEF ThreadOK, LiveTags, Group, searchVars
  <2> QED
    BY <2>1, <2>2
<1>14. Growth'
  <2>1. \A u \in Threads : thread'[u].pc \in {"copy", "publish"} <=> thread[u].pc \in {"copy", "publish"}
    BY <1>1, <1>8
  <2>2. Publishing'
    BY <1>8 DEF Publishing
  <2>3. /\ Len(arrays') = tag_groups' + 1 /\ Size(Len(arrays))' = 2 * ArrayCapacity'
        /\ \A i \in 0..ArrayCapacity' - 1 : arrays'[Len(arrays')][i] = Group(i)'
    BY <1>1, <1>3, <1>4, <1>5, <1>7 DEF Size
  <2>4. /\ lock' = lock /\ (tag_group_next' = ArrayCapacity' <=> lock' # {})
        /\ lock \subseteq Threads /\ \A s, u \in lock : s = u
        /\ \A u \in Threads : u \in lock <=> thread[u].pc \in {"copy", "publish"}
    BY <1>1, <1>7 DEF Growth, C
  <2> QED
    BY <2>1, <2>2, <2>3, <2>4 DEF Growth
<1>15. BetweenVisits'
  BY <1>1, VisitsSearch DEF BetweenVisits, Quiet, searchVars
<1> QED
  BY <1>9, <1>10, <1>11, <1>12, <1>13, <1>14, <1>15

LEMMA PublishTagGroupsInv ==
  ASSUME TagGroupsAssumption, TagGroupsInv, NEW t \in Threads, PublishTagGroups(t)
  PROVE  TagGroupsInv'
<1> USE DEF TagGroupsInv
<1> DEFINE C == ArrayCapacity
<1>0. PICK L : L = Len(arrays)
  OBVIOUS
<1>1. /\ thread \in [Threads -> ThreadState] /\ thread[t].pc = "publish"
      /\ tag_groups_prev' = tag_groups_prev \cup {tag_groups}
      /\ tag_groups' = L
      /\ ref_count' = [i \in DOMAIN arrays[L] |->
                         IF i \in DOMAIN ref_count THEN ref_count[i] ELSE 0]
      /\ lock' = {}
      /\ UNCHANGED <<tags, arrays, tag_group_set, tag_group_next, tag_group_free_indices,
                     tag_group_index, paths, filtered_arrivals, searchVars>>
  BY <1>0 DEF PublishTagGroups, KeptArrays, Shapes
<1>2. /\ lock = {t} /\ tag_group_next = C
      /\ \A u \in Threads : u # t => thread[u].pc \notin {"copy", "publish"}
  BY <1>1, Holder
<1>3. /\ L = tag_groups + 1 /\ Size(L) = 2 * C
      /\ \A i \in 0..C - 1 : arrays[L][i] = Group(i)
  BY <1>0, <1>1 DEF Growth, Publishing
<1>4. /\ C \in Nat \ {0} /\ L \in Nat /\ DOMAIN arrays = 1..L /\ tag_groups \in 1..L
      /\ arrays[L] \in [0..2 * C - 1 -> SUBSET Int] /\ DOMAIN arrays[L] = 0..2 * C - 1
      /\ DOMAIN arrays[tag_groups] = 0..C - 1 /\ Size(tag_groups) = C
      /\ \A g \in tag_group_set : g \in 0..C - 1
  <2>1. C \in Nat \ {0} /\ L \in Nat /\ DOMAIN arrays = 1..L /\ tag_groups \in 1..L
    BY <1>0, Numbers DEF Shapes
  <2>2. L \in 1..L
    BY ONLY <1>3, <2>1
  <2>3. arrays[L] \in [0..2 * C - 1 -> SUBSET Int] /\ DOMAIN arrays[L] = 0..2 * C - 1
    <3>1. arrays[L] \in [0..Size(L) - 1 -> SUBSET Int] /\ DOMAIN arrays[L] = 0..Size(L) - 1
      BY <1>0, <2>2, Numbers
    <3> QED
      BY <1>3, <3>1
  <2>4. DOMAIN arrays[tag_groups] = 0..C - 1 /\ Size(tag_groups) = C
    BY Numbers
  <2>5. \A g \in tag_group_set : g \in 0..C - 1
    BY <1>2, Numbers
  <2> QED
    BY <2>1, <2>2, <2>3, <2>4, <2>5
<1>5. ref_count \in [0..C - 1 -> Int]
  BY <1>4 DEF Shapes
<1>6. /\ ArrayCapacity' = 2 * C /\ \A i \in 0..C - 1 : Group(i)' = Group(i)
      /\ \A a : Size(a)' = Size(a) /\ (Live(a) => Live(a)')
  BY <1>1, <1>3 DEF ArrayCapacity, Group, Live, Size
<1>7. /\ thread' \in [Threads -> ThreadState]
      /\ \A u \in Threads : u # t => thread'[u] = thread[u]
      /\ thread'[t].pc = "set" /\ thread'[t].vertex = thread[t].vertex
      /\ thread'[t].reads = thread[t].reads /\ thread'[t].wanted = thread[t].wanted
      /\ thread'[t].found = thread[t].found /\ thread'[t].index = thread[t].index
      /\ thread'[t].cache = thread[t].cache
  <2>1. Move(t, "set")
    BY DEF PublishTagGroups
  <2> QED
    BY <1>1, <2>1, MoveState
<1> HIDE DEF C
<1>8. /\ ref_count' \in [0..2 * C - 1 -> Int]
      /\ \A h \in 0..C - 1 : ref_count'[h] = ref_count[h]
      /\ \A h \in 0..2 * C - 1 : h \notin 0..C - 1 => ref_count'[h] = 0
  <2>1. ref_count' = [i \in 0..2 * C - 1 |-> IF i \in 0..C - 1 THEN ref_count[i] ELSE 0]
    BY <1>1, <1>4, <1>5
  <2>2. \A h \in 0..C - 1 : h \in 0..2 * C - 1
    BY <1>4
  <2> QED
    BY ONLY <1>5, <2>1, <2>2
<1>9. Shapes'
  <2>1. tag_groups_prev' \subseteq DOMAIN arrays' /\ tag_groups' \in 1..Len(arrays')
    BY <1>0, <1>1, <1>3, <1>4 DEF Shapes
  <2>2. tag_group_next' \in 0..ArrayCapacity'
    BY <1>1, <1>2, <1>4, <1>6
  <2>3. ref_count' \in [DOMAIN arrays'[tag_groups'] -> Int]
    BY <1>1, <1>4, <1>8
  <2> QED
    BY <1>1, <1>7, <2>1, <2>2, <2>3 DEF Shapes, searchVars
<1>10. Indices'
  BY <1>1 DEF Indices
<1>11. Entries'
  <2>1. \A i \in 0..tag_group_next - 1 : i \in 0..C - 1 /\ Group(i) \subseteq DOMAIN tags
    BY <1>2 DEF Entries
  <2>2. ASSUME NEW a \in 1..L - 1
        PROVE  Size(a) <= tag_group_next /\ \A i \in DOMAIN arrays[a] : arrays[a][i] \subseteq DOMAIN tags
    <3>1. CASE a = tag_groups
      BY <1>2, <1>4, <2>1, <3>1 DEF Group
    <3>2. CASE a # tag_groups
      <4>1. a \in 1..tag_groups - 1
        BY ONLY <1>3, <1>4, <3>2
      <4> QED
        BY <4>1 DEF Entries
    <3> QED
      BY <3>1, <3>2
  <2> QED
    BY <1>1, <1>6, <2>1, <2>2 DEF Entries
<1>12. Counts'
  <2>1. ASSUME NEW v \in Vertices, tag_group_index[v] # NoIndex
        PROVE  tag_group_index[v] \in 0..C - 1 /\ Group(tag_group_index[v]) = paths[v]
    <3>1. tag_group_index[v] \in tag_group_set
      BY <2>1 DEF Shapes
    <3> QED
      BY <1>4, <2>1, <3>1 DEF Counts
  <2>2. ASSUME NEW h \in DOMAIN ref_count'
        PROVE  IF h \in tag_group_set
               THEN ref_count'[h] = Cardinality({v \in Vertices : tag_group_index[v] = h})
               ELSE ref_count'[h] \in 0..Cardinality(Vertices)
    <3>1. h \in 0..2 * C - 1
      BY <1>8
    <3>2. CASE h \in 0..C - 1
      BY <1>5, <1>8, <3>2 DEF Counts
    <3>3. CASE h \notin 0..C - 1
      <4>1. ref_count'[h] = 0 /\ h \notin tag_group_set
        BY <1>4, <1>8, <3>1, <3>3
      <4>2. Cardinality(Vertices) \in Nat
        BY FS_CardinalityType DEF TagGroupsAssumption
      <4> QED
        BY <4>1, <4>2
    <3> QED
      BY <3>2, <3>3
  <2>3. \A v \in Vertices : tag_group_index[v] = NoIndex => paths[v] = {}
    BY DEF Counts
  <2>4. \A v \in Vertices :
          IF tag_group_index'[v] = NoIndex THEN paths'[v] = {}
          ELSE arrays'[tag_groups'][tag_group_index'[v]] = paths'[v]
    <3> TAKE v \in Vertices
    <3>1. /\ tag_group_index' = tag_group_index /\ paths' = paths
          /\ arrays' = arrays /\ tag_groups' = L
      BY <1>1
    <3>2. tag_group_index[v] # NoIndex => arrays[L][tag_group_index[v]] = paths[v]
      BY <1>3, <2>1
    <3> HIDE DEF TagGroupsInv
    <3> QED
      BY <2>3, <3>1, <3>2
  <2>5. \A g, h \in tag_group_set' : Group(g)' = Group(h)' => g = h
    BY <1>1, <1>4, <1>6 DEF Counts
  <2> QED
    BY <1>1, <2>2, <2>4, <2>5 DEF Counts, Group
<1>13. TagTable'
  <2>1. ASSUME NEW g \in tag_group_set' PROVE LiveTags(Group(g))'
    BY <1>1, <1>4, <1>6 DEF TagTable, LiveTags
  <2> QED
    BY <1>1, <2>1 DEF TagTable, HasFilterTag, searchVars
<1>14. \A u \in Threads : ThreadOK(u)'
  <2>1. ASSUME NEW u \in Threads, u # t PROVE ThreadOK(u)'
    <3>1. \A i \in tag_group_set : Group(i)' = Group(i)
      BY <1>4, <1>6
    <3> QED
      BY <1>1, <1>6, <1>7, <2>1, <3>1, OthersOK DEF searchVars
  <2>2. ThreadOK(t)'
    <3>1. thread[t].index \in tag_group_set /\ Group(thread[t].index) = thread[t].found
      BY <1>1 DEF ThreadOK
    <3>2. arrays'[tag_groups'][thread'[t].index] = thread'[t].found
      BY <1>1, <1>3, <1>4, <1>7, <3>1
    <3> QED
      BY <1>1, <1>7, <3>1, <3>2 DEF ThreadOK, LiveTags, Group, searchVars
  <2> QED
    BY <2>1, <2>2
<1>15. Growth'
  <2>1. \A u \in Threads : thread'[u].pc \notin {"copy", "publish"}
    BY <1>2, <1>7
  <2>2. ~Publishing'
    BY <2>1 DEF Publishing
  <2>3. Len(arrays') = tag_groups' /\ tag_group_next' # ArrayCapacity'
    BY <1>0, <1>1, <1>2, <1>4, <1>6
  <2> QED
    BY <1>1, <2>1, <2>2, <2>3 DEF Growth
<1>16. BetweenVisits'
  BY <1>1, VisitsSearch DEF BetweenVisits, Quiet, searchVars
<1> QED
  BY <1>9, <1>10, <1>11, <1>12, <1>13, <1>14, <1>15, <1>16

\* A step of a thread that changes the groups of vertices only.
LEMMA VertexStep ==
  ASSUME TagGroupsAssumption, TagGroupsInv, NEW t \in Threads, searching # "no",
         UNCHANGED <<tags, tableVars, lock, searchVars>>,
         tag_group_index' \in [Vertices -> {NoIndex} \cup tag_group_set],
         paths' \in [Vertices -> SUBSET Int],
         ref_count' \in [DOMAIN ref_count -> Int],
         filtered_arrivals' \subseteq Vertices,
         thread' \in [Threads -> ThreadState],
         \A u \in Threads : u # t => thread'[u] = thread[u],
         thread[t].pc \notin {"copy", "publish"}, thread'[t].pc \notin {"copy", "publish"},
         \A v \in Vertices :
           IF tag_group_index'[v] = NoIndex THEN paths'[v] = {}
           ELSE Group(tag_group_index'[v]) = paths'[v],
         \A g \in DOMAIN ref_count :
           IF g \in tag_group_set
           THEN ref_count'[g] = Cardinality({v \in Vertices : tag_group_index'[v] = g})
           ELSE ref_count'[g] \in 0..Cardinality(Vertices),
         \A v \in Vertices : tag_group_index'[v] # NoIndex /\ HasFilterTag(paths'[v])
                             => v \in filtered_arrivals',
         ThreadOK(t)'
  PROVE  TagGroupsInv'
<1> USE DEF TagGroupsInv, tableVars, searchVars
<1>1. /\ ArrayCapacity' = ArrayCapacity
      /\ \A i : Group(i)' = Group(i)
      /\ \A a : (Live(a)' <=> Live(a)) /\ Size(a)' = Size(a)
  BY DEF ArrayCapacity, Group, Live, Size
<1>2. Shapes'
  <2>1. DOMAIN ref_count = DOMAIN arrays'[tag_groups']
    BY DEF Shapes
  <2> QED
    BY <1>1, <2>1 DEF Shapes
<1>3. Indices' /\ Entries'
  BY <1>1 DEF Indices, Entries
<1>4. Counts'
  <2>1. \A v \in Vertices :
          IF tag_group_index'[v] = NoIndex THEN paths'[v] = {}
          ELSE arrays'[tag_groups'][tag_group_index'[v]] = paths'[v]
    BY DEF Group
  <2>2. \A g, h \in tag_group_set' : Group(g)' = Group(h)' => g = h
    BY <1>1 DEF Counts
  <2>3. DOMAIN ref_count' = DOMAIN ref_count
    OBVIOUS
  <2> QED
    BY <2>1, <2>2, <2>3 DEF Counts, Group
<1>5. TagTable'
  <2>1. \A v \in Vertices : tag_group_index'[v] # NoIndex /\ HasFilterTag(paths[v])'
                            => v \in filtered_arrivals'
    BY DEF HasFilterTag
  <2>2. \A g \in tag_group_set' : LiveTags(Group(g))'
    BY <1>1 DEF TagTable, LiveTags
  <2> QED
    BY <2>1, <2>2 DEF TagTable
<1>6. \A u \in Threads : ThreadOK(u)'
  <2>1. ASSUME NEW u \in Threads, u # t PROVE ThreadOK(u)'
    BY <1>1, <2>1, OthersOK
  <2> QED
    BY <2>1
<1>7. Growth'
  <2>1. \A u \in Threads : thread'[u].pc \in {"copy", "publish"} <=> thread[u].pc \in {"copy", "publish"}
    OBVIOUS
  <2>2. \A u \in Threads : thread'[u].pc = "publish" <=> thread[u].pc = "publish"
    OBVIOUS
  <2>3. Publishing' <=> Publishing
    BY <2>2 DEF Publishing
  <2> QED
    BY <1>1, <2>1, <2>3 DEF Growth
<1>8. BetweenVisits'
  BY DEF BetweenVisits, Quiet
<1> QED
  BY <1>2, <1>3, <1>4, <1>5, <1>6, <1>7, <1>8

LEMMA DropPathsInv ==
  ASSUME TagGroupsAssumption, TagGroupsInv, NEW t \in Threads, DropPaths(t)
  PROVE  TagGroupsInv'
<1> USE DEF TagGroupsInv
<1>0. PICK v, prev : v = thread[t].vertex /\ prev = tag_group_index[v]
  OBVIOUS
<1>1. /\ prev # NoIndex
      /\ \/ Found(t) /\ EndVisit(t)
         \/ thread[t].pc = "set" /\ UNCHANGED thread
      /\ tag_group_index' = [tag_group_index EXCEPT ![v] = NoIndex]
      /\ paths' = [paths EXCEPT ![v] = {}]
      /\ ref_count' = [ref_count EXCEPT ![prev] = @ - 1]
      /\ UNCHANGED <<tags, tableVars, lock, filtered_arrivals, searchVars>>
  BY <1>0 DEF DropPaths
<1>2. /\ thread \in [Threads -> ThreadState] /\ thread[t].pc \in {"read", "set"}
      /\ v \in Vertices /\ tag_group_index \in [Vertices -> {NoIndex} \cup tag_group_set]
      /\ paths \in [Vertices -> SUBSET Int] /\ prev \in tag_group_set
      /\ ref_count \in [DOMAIN ref_count -> Int] /\ prev \in DOMAIN ref_count
      /\ NoIndex \notin tag_group_set
  <2>1. thread[t].pc \in {"read", "set"} /\ v \in Vertices
    BY <1>0, <1>1 DEF Found, ThreadOK
  <2>2. prev \in tag_group_set
    BY <1>0, <1>1, <2>1 DEF Shapes
  <2> QED
    BY <2>1, <2>2, Numbers DEF Shapes
<1>3. /\ thread' \in [Threads -> ThreadState]
      /\ \A u \in Threads : u # t => thread'[u] = thread[u]
      /\ thread'[t].pc \notin {"copy", "publish"} /\ ThreadOK(t)'
  <2>1. CASE Found(t) /\ EndVisit(t)
    <3>1. /\ thread' \in [Threads -> ThreadState]
          /\ \A u \in Threads : u # t => thread'[u] = thread[u]
          /\ thread'[t].pc = "idle" /\ thread'[t].reads = {} /\ thread'[t].wanted = {}
          /\ thread'[t].found = {} /\ thread'[t].cache = thread[t].cache
      BY <1>2, <2>1, EndVisitState
    <3>2. ThreadOK(t)'
      BY <1>1, <3>1 DEF ThreadOK, LiveTags, tableVars, searchVars
    <3> QED
      BY <3>1, <3>2
  <2>2. CASE thread[t].pc = "set" /\ UNCHANGED thread
    <3>1. \A i : Group(i)' = Group(i) /\ \A a : Live(a)' <=> Live(a)
      BY <1>1 DEF Group, Live, tableVars
    <3>2. ThreadOK(t)'
      BY <1>1, <2>2, <3>1, OthersOK DEF tableVars, searchVars
    <3> QED
      BY <1>2, <2>2, <3>2
  <2> QED
    BY <1>1, <2>1, <2>2
<1>4. /\ tag_group_index' \in [Vertices -> {NoIndex} \cup tag_group_set]
      /\ tag_group_index'[v] = NoIndex
      /\ \A w \in Vertices : w # v => tag_group_index'[w] = tag_group_index[w]
  BY <1>1, <1>2
<1>5. /\ paths' \in [Vertices -> SUBSET Int] /\ paths'[v] = {}
      /\ \A w \in Vertices : w # v => paths'[w] = paths[w]
  BY <1>1, <1>2
<1>6. /\ ref_count' \in [DOMAIN ref_count -> Int] /\ ref_count'[prev] = ref_count[prev] - 1
      /\ \A g \in DOMAIN ref_count : g # prev => ref_count'[g] = ref_count[g]
  BY <1>1, <1>2
<1>7. ASSUME NEW w \in Vertices
      PROVE  IF tag_group_index'[w] = NoIndex THEN paths'[w] = {}
             ELSE Group(tag_group_index'[w]) = paths'[w]
  BY <1>4, <1>5 DEF Counts
<1>8. ASSUME NEW g \in DOMAIN ref_count
      PROVE  IF g \in tag_group_set
             THEN ref_count'[g] = Cardinality({w \in Vertices : tag_group_index'[w] = g})
             ELSE ref_count'[g] \in 0..Cardinality(Vertices)
  <2> DEFINE with == {w \in Vertices : tag_group_index[w] = g}
  <2>1. IF g \in tag_group_set THEN ref_count[g] = Cardinality(with)
        ELSE ref_count[g] \in 0..Cardinality(Vertices)
    BY DEF Counts
  <2>2. CASE g = prev
    <3>1. {w \in Vertices : tag_group_index'[w] = g} = with \ {v}
      BY <1>2, <1>4, <2>2
    <3>2. v \in with /\ IsFiniteSet(with)
      BY <1>0, <1>2, <2>2, GroupVertices
    <3>3. Cardinality(with \ {v}) = Cardinality(with) - 1
      BY <3>2, FS_RemoveElement
    <3> QED
      BY <1>2, <1>6, <2>1, <2>2, <3>1, <3>3
  <2>3. CASE g # prev
    <3>1. g \in tag_group_set => {w \in Vertices : tag_group_index'[w] = g} = with
      BY <1>0, <1>2, <1>4, <2>3
    <3> QED
      BY <1>6, <2>1, <2>3, <3>1
  <2> QED
    BY <2>2, <2>3
<1>9. \A w \in Vertices : tag_group_index'[w] # NoIndex /\ HasFilterTag(paths'[w])
                          => w \in filtered_arrivals'
  BY <1>1, <1>4, <1>5 DEF TagTable
<1>10. filtered_arrivals' \subseteq Vertices /\ searching # "no"
  BY <1>1, <1>2, VisitsSearch DEF Shapes
<1> QED
  BY <1>1, <1>2, <1>3, <1>4, <1>5, <1>6, <1>7, <1>8, <1>9, <1>10, VertexStep

LEMMA SetPathsInv ==
  ASSUME TagGroupsAssumption, TagGroupsInv, NEW t \in Threads, SetPaths(t)
  PROVE  TagGroupsInv'
<1> USE DEF TagGroupsInv
<1>0. PICK v, g, found : v = thread[t].vertex /\ g = thread[t].index /\ found = thread[t].found
  OBVIOUS
<1>1. /\ thread[t].pc = "set" /\ tag_group_index[v] \in {NoIndex, g} /\ EndVisit(t)
      /\ tag_group_index' = [tag_group_index EXCEPT ![v] = g]
      /\ paths' = [paths EXCEPT ![v] = found]
      /\ ref_count' = [ref_count EXCEPT ![g] = @ + Counted(v, g)]
      /\ filtered_arrivals' = IF HasFilterTag(Group(g)) THEN filtered_arrivals \cup {v}
                              ELSE filtered_arrivals
      /\ UNCHANGED <<tags, tableVars, lock, searchVars>>
  BY <1>0 DEF SetPaths
<1>2. /\ thread \in [Threads -> ThreadState] /\ thread[t] \in ThreadState
      /\ v \in Vertices /\ tag_group_index \in [Vertices -> {NoIndex} \cup tag_group_set]
      /\ paths \in [Vertices -> SUBSET Int] /\ g \in tag_group_set
      /\ Group(g) = found /\ found \in SUBSET Int
      /\ ref_count \in [DOMAIN ref_count -> Int] /\ g \in DOMAIN ref_count
      /\ NoIndex \notin tag_group_set
  <2>1. v \in Vertices /\ g \in tag_group_set /\ Group(g) = found
    BY <1>0, <1>1 DEF ThreadOK
  <2>2. thread[t] \in ThreadState
    BY DEF Shapes
  <2>3. found \in SUBSET Int
    BY <1>0, <2>2 DEF ThreadState
  <2> QED
    BY <2>1, <2>2, <2>3, Numbers DEF Shapes
<1>3. /\ thread' \in [Threads -> ThreadState]
      /\ \A u \in Threads : u # t => thread'[u] = thread[u]
      /\ thread'[t].pc \notin {"copy", "publish"} /\ ThreadOK(t)'
  <2>1. /\ thread' \in [Threads -> ThreadState]
        /\ \A u \in Threads : u # t => thread'[u] = thread[u]
        /\ thread'[t].pc = "idle" /\ thread'[t].reads = {} /\ thread'[t].wanted = {}
        /\ thread'[t].found = {} /\ thread'[t].cache = thread[t].cache
    BY <1>1, <1>2, EndVisitState
  <2>2. ThreadOK(t)'
    BY <1>1, <2>1 DEF ThreadOK, LiveTags, tableVars, searchVars
  <2> QED
    BY <2>1, <2>2
<1>4. /\ tag_group_index' \in [Vertices -> {NoIndex} \cup tag_group_set]
      /\ tag_group_index'[v] = g
      /\ \A w \in Vertices : w # v => tag_group_index'[w] = tag_group_index[w]
  BY <1>1, <1>2
<1>5. /\ paths' \in [Vertices -> SUBSET Int] /\ paths'[v] = found
      /\ \A w \in Vertices : w # v => paths'[w] = paths[w]
  BY <1>1, <1>2
<1>6. /\ ref_count' \in [DOMAIN ref_count -> Int]
      /\ ref_count'[g] = ref_count[g] + (IF tag_group_index[v] = g THEN 0 ELSE 1)
      /\ \A h \in DOMAIN ref_count : h # g => ref_count'[h] = ref_count[h]
  <2>1. Counted(v, g) = (IF tag_group_index[v] = g THEN 0 ELSE 1)
    BY DEF Counted
  <2>2. Counted(v, g) \in Int
    BY <2>1
  <2> QED
    BY <1>1, <1>2, <2>1, <2>2
<1>7. ASSUME NEW w \in Vertices
      PROVE  IF tag_group_index'[w] = NoIndex THEN paths'[w] = {}
             ELSE Group(tag_group_index'[w]) = paths'[w]
  BY <1>2, <1>4, <1>5 DEF Counts
<1>8. ASSUME NEW h \in DOMAIN ref_count
      PROVE  IF h \in tag_group_set
             THEN ref_count'[h] = Cardinality({w \in Vertices : tag_group_index'[w] = h})
             ELSE ref_count'[h] \in 0..Cardinality(Vertices)
  <2> DEFINE with == {w \in Vertices : tag_group_index[w] = h}
  <2>1. IF h \in tag_group_set THEN ref_count[h] = Cardinality(with)
        ELSE ref_count[h] \in 0..Cardinality(Vertices)
    BY DEF Counts
  <2>2. CASE h = g
    <3>1. {w \in Vertices : tag_group_index'[w] = h} = with \cup {v}
      BY <1>2, <1>4, <2>2
    <3>2. (v \in with <=> tag_group_index[v] = g) /\ IsFiniteSet(with)
      BY <1>2, <2>2, GroupVertices
    <3>3. Cardinality(with \cup {v}) = Cardinality(with) + (IF tag_group_index[v] = g THEN 0 ELSE 1)
      <4>1. Cardinality(with \cup {v}) = IF v \in with THEN Cardinality(with) ELSE Cardinality(with) + 1
        BY <3>2, FS_AddElement
      <4>2. Cardinality(with) \in Int
        BY <3>2, FS_CardinalityType
      <4> HIDE DEF with
      <4> QED
        BY ONLY <3>2, <4>1, <4>2
    <3> QED
      BY <1>2, <1>6, <2>1, <2>2, <3>1, <3>3
  <2>3. CASE h # g
    <3>1. h \in tag_group_set => {w \in Vertices : tag_group_index'[w] = h} = with
      BY <1>1, <1>2, <1>4, <2>3
    <3> QED
      BY <1>6, <2>1, <2>3, <3>1
  <2> QED
    BY <2>2, <2>3
<1>9. \A w \in Vertices : tag_group_index'[w] # NoIndex /\ HasFilterTag(paths'[w])
                          => w \in filtered_arrivals'
  BY <1>1, <1>2, <1>4, <1>5 DEF TagTable
<1>10. filtered_arrivals' \subseteq Vertices /\ searching # "no"
  BY <1>1, <1>2, VisitsSearch DEF Shapes
<1> QED
  BY <1>1, <1>2, <1>3, <1>4, <1>5, <1>6, <1>7, <1>8, <1>9, <1>10, VertexStep

-----------------------------------------------------------------------------
(* Between visits.                                                         *)

\* A thread at rest needs only that its cache has no tag that is deleted.
LEMMA AtRest ==
  ASSUME NEW t \in Threads, thread'[t] = Idle
  PROVE  ThreadOK(t)'
<1>1. /\ thread'[t].pc = "idle" /\ thread'[t].reads = {} /\ thread'[t].wanted = {}
      /\ thread'[t].found = {} /\ thread'[t].cache = {}
  BY IdleState
<1> QED
  BY <1>1 DEF ThreadOK, LiveTags

LEMMA StartSearchInv ==
  ASSUME TagGroupsAssumption, TagGroupsInv, StartSearch \/ StartFilteredSearch
  PROVE  TagGroupsInv'
<1> USE DEF TagGroupsInv
<1>1. /\ UNCHANGED <<tags, tableVars, lock, vertexVars, thread>>
      /\ to_visit' \subseteq Vertices /\ searching' \in {"all", "filtered"}
      /\ have_filter = FALSE /\ have_filter' \in BOOLEAN /\ Quiet
      /\ filtered_arrivals' \subseteq Vertices
      /\ filtered_arrivals' = filtered_arrivals \/ (filtered_arrivals' = {} /\ have_filter')
  BY DEF StartSearch, StartFilteredSearch, Shapes
<1> USE DEF tableVars, vertexVars
<1>2. /\ ArrayCapacity' = ArrayCapacity
      /\ \A i : Group(i)' = Group(i)
      /\ \A a : (Live(a)' <=> Live(a)) /\ Size(a)' = Size(a)
  BY <1>1 DEF ArrayCapacity, Group, Live, Size
<1>3. Shapes' /\ Indices' /\ Entries' /\ Counts'
  BY <1>1, <1>2 DEF Shapes, Indices, Entries, Counts
<1>4. \A v \in Vertices : tag_group_index[v] # NoIndex => ~HasFilterTag(paths[v])
  <2>1. ASSUME NEW v \in Vertices, tag_group_index[v] # NoIndex PROVE ~HasFilterTag(paths[v])
    <3>1. tag_group_index[v] \in tag_group_set /\ Group(tag_group_index[v]) = paths[v]
      BY <2>1 DEF Counts, Shapes
    <3>2. paths[v] \subseteq DOMAIN tags
      BY <3>1 DEF TagTable, LiveTags
    <3> QED
      BY <1>1, <3>2 DEF TagTable, HasFilterTag
  <2> QED
    BY <2>1
<1>5. TagTable'
  <2>1. \A v \in Vertices : tag_group_index'[v] # NoIndex => ~HasFilterTag(paths[v])'
    BY <1>1, <1>4 DEF HasFilterTag
  <2>2. \A g \in tag_group_set' : LiveTags(Group(g))'
    BY <1>1, <1>2 DEF TagTable, LiveTags
  <2> QED
    BY <1>1, <2>1, <2>2 DEF TagTable
<1>6. \A t \in Threads : ThreadOK(t)'
  <2> TAKE t \in Threads
  <2>1. thread'[t] = Idle
    BY <1>1 DEF BetweenVisits
  <2> QED
    BY <2>1, AtRest
<1>7. Growth'
  BY <1>1, <1>2 DEF Growth, Publishing
<1>8. BetweenVisits'
  BY <1>1 DEF BetweenVisits, Quiet
<1> QED
  BY <1>3, <1>5, <1>6, <1>7, <1>8

\* Deleting groups of the set: the others stay at their indices, and those of the
\* groups deleted are free.
LEMMA DeleteGroupsTables ==
  ASSUME TagGroupsAssumption, TagGroupsInv, NEW S \in SUBSET tag_group_set, DeleteGroups(S),
         tag_group_next' = tag_group_next
  PROVE  /\ tag_group_set' = tag_group_set \ S /\ tag_group_free_indices' \in Seq(Int)
         /\ Indices'
         /\ arrays' \in Seq(Array) /\ Len(arrays') = 1 /\ DOMAIN arrays' = {1} /\ tag_groups' = 1
         /\ DOMAIN arrays'[1] = 0..ArrayCapacity - 1 /\ ArrayCapacity' = ArrayCapacity
         /\ \A g \in tag_group_set' : Group(g)' = Group(g)
         /\ \A i \in 0..tag_group_next - 1 : Group(i)' \subseteq Group(i)
<1> USE DEF TagGroupsInv
<1> DEFINE C == ArrayCapacity
           A == [i \in 0..C - 1 |-> IF i \in S THEN NoGroup ELSE Group(i)]
<1>1. /\ C \in Nat \ {0} /\ tag_group_next \in Nat /\ tag_group_next <= C
      /\ arrays[tag_groups] \in [0..C - 1 -> SUBSET Int]
      /\ \A g \in tag_group_set : g \in 0..tag_group_next - 1
  BY Numbers
<1>2. /\ tag_group_set' = tag_group_set \ S
      /\ tag_group_free_indices' = tag_group_free_indices \o InOrder(S)
      /\ arrays' = <<A>> /\ tag_groups' = 1
  BY <1>1 DEF DeleteGroups
<1>3. \A i \in 0..tag_group_next - 1 : i \in 0..C - 1
  BY ONLY <1>1
<1>4. A \in [0..C - 1 -> SUBSET Int] /\ A \in Array /\ Cardinality(DOMAIN A) = C
  <2>1. \A i \in 0..C - 1 : (IF i \in S THEN NoGroup ELSE Group(i)) \in SUBSET Int
    BY <1>1 DEF NoGroup, Group
  <2>2. A \in [0..C - 1 -> SUBSET Int]
    BY <2>1
  <2> HIDE DEF A
  <2> QED
    BY <1>1, <2>2, MakeArray
<1>5. \A i \in 0..C - 1 : A[i] = IF i \in S THEN {} ELSE Group(i)
  BY DEF NoGroup
<1> HIDE DEF C, A
<1>6. /\ arrays' \in Seq(Array) /\ Len(arrays') = 1 /\ DOMAIN arrays' = {1} /\ arrays'[1] = A
      /\ DOMAIN A = 0..C - 1
  BY <1>2, <1>4
<1>7. ArrayCapacity' = ArrayCapacity
  BY <1>2, <1>4, <1>6 DEF ArrayCapacity, C
<1>8. \A i \in 0..C - 1 : Group(i)' = IF i \in S THEN {} ELSE Group(i)
  BY <1>2, <1>5, <1>6 DEF Group
<1>9. tag_group_free_indices' \in Seq(Int) /\ Indices'
  <2>1. IsFiniteSet(S) /\ S \subseteq Int
    <3>1. S \in SUBSET (0..tag_group_next - 1)
      BY <1>1
    <3>2. IsFiniteSet(0..tag_group_next - 1)
      BY <1>1, FS_Interval
    <3>3. IsFiniteSet(S)
      BY ONLY <3>1, <3>2, FS_Subset
    <3>4. S \subseteq Int
      BY ONLY <1>1, <3>1
    <3> QED
      BY <3>3, <3>4
  <2>2. InOrder(S) \in Seq(Int) /\ IsInjective(InOrder(S)) /\ Range(InOrder(S)) = S
    <3>1. InOrder(S) \in Seq(S) /\ IsInjective(InOrder(S)) /\ Range(InOrder(S)) = S
      BY <2>1, InOrderSeq
    <3> QED
      BY <2>1, <3>1, SeqMonotonic
  <2>3. /\ tag_group_free_indices \in Seq(Int) /\ IsInjective(tag_group_free_indices)
        /\ tag_group_set \cap Range(tag_group_free_indices) = {}
        /\ tag_group_set \cup Range(tag_group_free_indices) = 0..tag_group_next - 1
    BY DEF Indices, Shapes
  <2>4. Range(tag_group_free_indices) \cap Range(InOrder(S)) = {}
    BY <2>2, <2>3
  <2>5. /\ tag_group_free_indices' \in Seq(Int) /\ IsInjective(tag_group_free_indices')
        /\ Range(tag_group_free_indices') = Range(tag_group_free_indices) \cup S
    BY <1>2, <2>2, <2>3, <2>4, ConcatInjective
  <2> QED
    BY <1>2, <2>3, <2>5 DEF Indices
<1>10. \A g \in tag_group_set' : Group(g)' = Group(g)
  BY <1>1, <1>2, <1>3, <1>8
<1>11. \A i \in 0..tag_group_next - 1 : Group(i)' \subseteq Group(i)
  BY <1>3, <1>8
<1> QED
  BY <1>2, <1>6, <1>7, <1>9, <1>10, <1>11 DEF C

\* With the threads at rest the arrays are as they are between visits.
LEMMA RestGrowth ==
  ASSUME TagGroupsInv, \A t \in Threads : thread[t].pc = "idle"
  PROVE  lock = {} /\ tag_group_next # ArrayCapacity
BY DEF TagGroupsInv, Growth

LEMMA AfterRest ==
  ASSUME lock' = {}, tag_group_next' # ArrayCapacity', Len(arrays') = tag_groups',
         \A t \in Threads : thread'[t] = Idle
  PROVE  Growth'
<1>1. \A t \in Threads : thread'[t].pc = "idle"
  BY IdleState
<1> QED
  BY <1>1 DEF Growth, Publishing

LEMMA EndSearchInv ==
  ASSUME TagGroupsAssumption, TagGroupsInv, EndSearch
  PROVE  TagGroupsInv'
<1> USE DEF TagGroupsInv
<1>0. PICK S : S = IF searching = "all" THEN Unused ELSE {}
  OBVIOUS
<1>1. /\ to_visit = {} /\ \A t \in Threads : thread[t].pc = "idle"
      /\ searching' = "no" /\ thread' = [t \in Threads |-> Idle] /\ tag_groups_prev' = {}
      /\ DeleteGroups(S)
      /\ UNCHANGED <<tags, tag_group_next, lock, vertexVars, filtered_arrivals, have_filter,
                     to_visit>>
  BY <1>0 DEF EndSearch
<1>2. S \in SUBSET tag_group_set /\ \A g \in S : ref_count[g] = 0
  BY <1>0 DEF Unused
<1>3. /\ tag_group_set' = tag_group_set \ S /\ tag_group_free_indices' \in Seq(Int)
      /\ Indices'
      /\ arrays' \in Seq(Array) /\ Len(arrays') = 1 /\ DOMAIN arrays' = {1} /\ tag_groups' = 1
      /\ DOMAIN arrays'[1] = 0..ArrayCapacity - 1 /\ ArrayCapacity' = ArrayCapacity
      /\ \A g \in tag_group_set' : Group(g)' = Group(g)
      /\ \A i \in 0..tag_group_next - 1 : Group(i)' \subseteq Group(i)
  BY <1>1, <1>2, DeleteGroupsTables
<1>4. \A t \in Threads : thread'[t] = Idle
  BY <1>1
<1>5. \A v \in Vertices : tag_group_index[v] \notin S
  <2> SUFFICES ASSUME NEW v \in Vertices, tag_group_index[v] \in S PROVE FALSE
    OBVIOUS
  <2>1. PICK g \in S : g = tag_group_index[v]
    OBVIOUS
  <2> DEFINE with == {w \in Vertices : tag_group_index[w] = g}
  <2>2. g \in tag_group_set /\ g \in DOMAIN ref_count
    BY <1>2, Numbers DEF Shapes
  <2>3. Cardinality(with) = 0
    BY <1>2, <2>2 DEF Counts
  <2>4. IsFiniteSet(with) /\ v \in with
    BY <2>1, GroupVertices
  <2> QED
    BY <2>3, <2>4, FS_EmptySet
<1>6. Shapes'
  <2>1. thread' \in [Threads -> ThreadState]
    BY <1>1, IdleState
  <2>2. ref_count' \in [DOMAIN arrays'[tag_groups'] -> Int]
    BY <1>1, <1>3, Numbers DEF Shapes, vertexVars
  <2>3. tag_group_index' \in [Vertices -> {NoIndex} \cup tag_group_set']
    BY <1>1, <1>3, <1>5 DEF Shapes, vertexVars
  <2>4. tag_groups' \in 1..Len(arrays')
    BY <1>3
  <2> QED
    BY <1>1, <1>3, <2>1, <2>2, <2>3, <2>4 DEF Shapes, vertexVars
<1>7. Entries'
  <2>1. 1..tag_groups' - 1 = {}
    BY <1>3
  <2> QED
    BY <1>1, <1>3, <2>1 DEF Entries
<1>8. Counts'
  <2>1. \A v \in Vertices :
          IF tag_group_index'[v] = NoIndex THEN paths'[v] = {}
          ELSE arrays'[tag_groups'][tag_group_index'[v]] = paths'[v]
    BY <1>1, <1>3, <1>5 DEF Counts, Shapes, Group, vertexVars
  <2>2. ASSUME NEW g \in DOMAIN ref_count'
        PROVE  IF g \in tag_group_set'
               THEN ref_count'[g] = Cardinality({v \in Vertices : tag_group_index'[v] = g})
               ELSE ref_count'[g] \in 0..Cardinality(Vertices)
    <3>1. IF g \in tag_group_set
          THEN ref_count[g] = Cardinality({v \in Vertices : tag_group_index[v] = g})
          ELSE ref_count[g] \in 0..Cardinality(Vertices)
      BY <1>1 DEF Counts, vertexVars
    <3>2. Cardinality({v \in Vertices : tag_group_index[v] = g}) \in 0..Cardinality(Vertices)
      BY GroupVertices
    <3> QED
      BY <1>1, <1>3, <3>1, <3>2 DEF vertexVars
  <2>3. \A g, h \in tag_group_set' : Group(g)' = Group(h)' => g = h
    BY <1>3 DEF Counts
  <2> QED
    BY <2>1, <2>2, <2>3 DEF Counts, Group
<1>9. TagTable'
  <2>1. \A g \in tag_group_set' : LiveTags(Group(g))'
    BY <1>1, <1>3 DEF TagTable, LiveTags
  <2> QED
    BY <1>1, <2>1 DEF TagTable, HasFilterTag, vertexVars
<1>10. \A t \in Threads : ThreadOK(t)'
  BY <1>4, AtRest
<1>11. Growth'
  BY <1>1, <1>3, <1>4, RestGrowth, AfterRest
<1>12. BetweenVisits'
  BY <1>1, <1>3, <1>4 DEF BetweenVisits
<1> QED
  BY <1>3, <1>6, <1>7, <1>8, <1>9, <1>10, <1>11, <1>12

\* The vertices of S lose their groups and paths; the counts stay right.
LEMMA DeletePathsVertices ==
  ASSUME TagGroupsAssumption, TagGroupsInv, NEW S \in SUBSET Vertices, DeletePaths(S)
  PROVE  /\ \A v \in Vertices :
              /\ v \in S => tag_group_index'[v] = NoIndex /\ paths'[v] = {}
              /\ v \notin S => tag_group_index'[v] = tag_group_index[v] /\ paths'[v] = paths[v]
         /\ tag_group_index' \in [Vertices -> {NoIndex} \cup tag_group_set]
         /\ paths' \in [Vertices -> SUBSET Int]
         /\ ref_count' \in [DOMAIN ref_count -> Int]
         /\ \A g \in DOMAIN ref_count :
              /\ g \in tag_group_set =>
                   ref_count'[g] = Cardinality({v \in Vertices : tag_group_index'[v] = g})
              /\ ref_count'[g] \in 0..Cardinality(Vertices)
<1> USE DEF TagGroupsInv
<1>1. /\ tag_group_index \in [Vertices -> {NoIndex} \cup tag_group_set]
      /\ paths \in [Vertices -> SUBSET Int] /\ ref_count \in [DOMAIN ref_count -> Int]
      /\ NoIndex \notin tag_group_set
  BY Numbers DEF Shapes
<1>2. /\ tag_group_index' = [v \in Vertices |-> IF v \in S THEN NoIndex ELSE tag_group_index[v]]
      /\ paths' = [v \in Vertices |-> IF v \in S THEN {} ELSE paths[v]]
      /\ ref_count' = [g \in DOMAIN ref_count |->
                         ref_count[g] - Cardinality({v \in S : tag_group_index[v] = g})]
  BY DEF DeletePaths
<1>3. \A v \in Vertices :
        /\ v \in S => tag_group_index'[v] = NoIndex /\ paths'[v] = {}
        /\ v \notin S => tag_group_index'[v] = tag_group_index[v] /\ paths'[v] = paths[v]
  BY <1>2
<1>4. tag_group_index' \in [Vertices -> {NoIndex} \cup tag_group_set]
      /\ paths' \in [Vertices -> SUBSET Int]
  BY <1>1, <1>2
<1>5. ASSUME NEW g \in DOMAIN ref_count
      PROVE  /\ g \in tag_group_set =>
                  ref_count'[g] = Cardinality({v \in Vertices : tag_group_index'[v] = g})
             /\ ref_count'[g] \in 0..Cardinality(Vertices)
             /\ ref_count[g] - Cardinality({v \in S : tag_group_index[v] = g}) \in Int
  <2> DEFINE with == {v \in Vertices : tag_group_index[v] = g}
             lost == {v \in S : tag_group_index[v] = g}
             rest == {v \in Vertices : tag_group_index'[v] = g}
  <2>1. ref_count'[g] = ref_count[g] - Cardinality(lost)
    BY <1>2
  <2>2. IF g \in tag_group_set THEN ref_count[g] = Cardinality(with)
        ELSE ref_count[g] \in 0..Cardinality(Vertices)
    BY DEF Counts
  <2>3. /\ IsFiniteSet(with) /\ Cardinality(with) \in Int /\ Cardinality(lost) \in Int
        /\ Cardinality(rest) \in 0..Cardinality(Vertices)
    <3>1. with \in SUBSET Vertices /\ lost \in SUBSET Vertices /\ rest \in SUBSET Vertices
      OBVIOUS
    <3> HIDE DEF with, lost, rest
    <3> QED
      BY <3>1, GroupVertices
  <2>4. CASE g \in tag_group_set
    <3>1. rest = with \ S /\ lost = with \cap S
      BY <1>1, <1>3, <2>4
    <3> HIDE DEF with, lost, rest
    <3>2. Cardinality(rest) = Cardinality(with) - Cardinality(lost)
      BY ONLY <2>3, <3>1, FS_Difference
    <3>3. ref_count'[g] = Cardinality(rest) /\ ref_count'[g] \in Int
      BY <2>1, <2>2, <2>3, <2>4, <3>2
    <3>4. ref_count'[g] \in 0..Cardinality(Vertices)
      BY <2>3, <3>3
    <3> QED
      BY <2>1, <3>3, <3>4 DEF lost, rest
  <2>5. CASE g \notin tag_group_set
    <3>1. g # NoIndex
      <4>1. DOMAIN ref_count = 0..ArrayCapacity - 1
        BY Numbers DEF Shapes
      <4> QED
        BY <4>1 DEF NoIndex
    <3>2. lost = {}
      BY <1>1, <2>5, <3>1
    <3>3. Cardinality(lost) = 0
      BY <3>2, FS_EmptySet
    <3> HIDE DEF with, lost, rest
    <3>4. ref_count[g] \in 0..Cardinality(Vertices) /\ Cardinality(Vertices) \in Nat
      BY <2>2, <2>5, FS_CardinalityType DEF TagGroupsAssumption
    <3>5. ref_count'[g] = ref_count[g]
      BY ONLY <2>1, <3>3, <3>4
    <3> QED
      BY <2>1, <2>5, <3>4, <3>5 DEF lost
  <2> QED
    BY <2>4, <2>5
<1>6. ref_count' \in [DOMAIN ref_count -> Int]
  BY <1>2, <1>5
<1> QED
  BY <1>3, <1>4, <1>5, <1>6

LEMMA DeleteVertexBeforeInv ==
  ASSUME TagGroupsAssumption, TagGroupsInv, NEW v \in Vertices, DeleteVertexBefore(v)
  PROVE  TagGroupsInv'
<1> USE DEF TagGroupsInv
<1>1. /\ Quiet /\ DeletePaths({v}) /\ {v} \in SUBSET Vertices
      /\ filtered_arrivals' = filtered_arrivals \ {v}
      /\ UNCHANGED <<tags, tableVars, lock, searchVars, thread>>
  BY DEF DeleteVertexBefore
<1>2. /\ \A w \in Vertices :
           /\ w \in {v} => tag_group_index'[w] = NoIndex /\ paths'[w] = {}
           /\ w \notin {v} => tag_group_index'[w] = tag_group_index[w] /\ paths'[w] = paths[w]
      /\ tag_group_index' \in [Vertices -> {NoIndex} \cup tag_group_set]
      /\ paths' \in [Vertices -> SUBSET Int]
      /\ ref_count' \in [DOMAIN ref_count -> Int]
      /\ \A g \in DOMAIN ref_count :
           /\ g \in tag_group_set =>
                ref_count'[g] = Cardinality({w \in Vertices : tag_group_index'[w] = g})
           /\ ref_count'[g] \in 0..Cardinality(Vertices)
  BY <1>1, DeletePathsVertices
<1> USE DEF tableVars, searchVars
<1>3. /\ ArrayCapacity' = ArrayCapacity
      /\ \A i : Group(i)' = Group(i)
      /\ \A a : (Live(a)' <=> Live(a)) /\ Size(a)' = Size(a)
  BY <1>1 DEF ArrayCapacity, Group, Live, Size
<1>4. Shapes'
  <2>1. DOMAIN ref_count = DOMAIN arrays'[tag_groups']
    BY <1>1 DEF Shapes
  <2> QED
    BY <1>1, <1>2, <1>3, <2>1 DEF Shapes
<1>5. Indices' /\ Entries'
  BY <1>1, <1>3 DEF Indices, Entries
<1>6. Counts'
  <2>1. \A w \in Vertices :
          IF tag_group_index'[w] = NoIndex THEN paths'[w] = {}
          ELSE arrays'[tag_groups'][tag_group_index'[w]] = paths'[w]
    BY <1>1, <1>2 DEF Counts, Group
  <2>2. \A g, h \in tag_group_set' : Group(g)' = Group(h)' => g = h
    BY <1>1, <1>3 DEF Counts
  <2>3. DOMAIN ref_count' = DOMAIN ref_count
    BY <1>2
  <2> QED
    BY <1>1, <1>2, <2>1, <2>2, <2>3 DEF Counts, Group
<1>7. TagTable'
  <2>1. ASSUME NEW w \in Vertices, tag_group_index'[w] # NoIndex, HasFilterTag(paths[w])'
        PROVE  w \in filtered_arrivals'
    <3>1. w # v /\ tag_group_index[w] # NoIndex /\ paths'[w] = paths[w]
      BY <1>2, <2>1
    <3> QED
      BY <1>1, <2>1, <3>1 DEF TagTable, HasFilterTag
  <2>2. \A g \in tag_group_set' : LiveTags(Group(g))'
    BY <1>1, <1>3 DEF TagTable, LiveTags
  <2> QED
    BY <1>1, <2>1, <2>2 DEF TagTable
<1>8. \A t \in Threads : ThreadOK(t)'
  BY <1>1, AtRest DEF BetweenVisits
<1>9. Growth' /\ BetweenVisits'
  BY <1>1, <1>3 DEF Growth, Publishing, BetweenVisits, Quiet
<1> QED
  BY <1>4, <1>5, <1>6, <1>7, <1>8, <1>9

LEMMA ArrivalsInvalidInv ==
  ASSUME TagGroupsAssumption, TagGroupsInv, ArrivalsInvalid
  PROVE  TagGroupsInv'
<1> USE DEF TagGroupsInv
<1>1. /\ Quiet /\ DeletePaths(Vertices) /\ Vertices \in SUBSET Vertices
      /\ tags' = <<>> /\ tag_group_set' = {} /\ tag_group_next' = 0
      /\ tag_group_free_indices' = <<>>
      /\ filtered_arrivals' = {} /\ have_filter' = FALSE
      /\ UNCHANGED <<arrays, tag_groups, tag_groups_prev, lock, to_visit, searching, thread>>
  BY DEF ArrivalsInvalid
<1>2. /\ \A v \in Vertices : tag_group_index'[v] = NoIndex /\ paths'[v] = {}
      /\ tag_group_index' \in [Vertices -> {NoIndex} \cup tag_group_set]
      /\ paths' \in [Vertices -> SUBSET Int]
      /\ ref_count' \in [DOMAIN ref_count -> Int]
      /\ \A g \in DOMAIN ref_count : ref_count'[g] \in 0..Cardinality(Vertices)
  BY <1>1, DeletePathsVertices
<1>3. /\ Len(arrays) = 1 /\ tag_groups = 1 /\ ArrayCapacity \in Nat \ {0}
      /\ \A t \in Threads : thread[t] = Idle
  <2>1. ArrayCapacity \in Nat \ {0} /\ tag_groups \in 1..Len(arrays)
    BY Numbers DEF Shapes
  <2>2. Len(arrays) = 1 /\ \A t \in Threads : thread[t] = Idle
    BY <1>1 DEF BetweenVisits
  <2> QED
    BY <2>1, <2>2
<1>4. ArrayCapacity' = ArrayCapacity
  BY <1>1 DEF ArrayCapacity
<1>5. Shapes'
  <2>1. tag_group_index' \in [Vertices -> {NoIndex} \cup tag_group_set']
    BY <1>2
  <2>2. ref_count' \in [DOMAIN arrays'[tag_groups'] -> Int]
    BY <1>1, <1>2 DEF Shapes
  <2>3. tag_group_next' \in 0..ArrayCapacity'
    BY <1>1, <1>3, <1>4
  <2>4. <<>> \in Seq(TagValues \cup {"deleted"}) /\ <<>> \in Seq(Int)
    BY EmptySeq
  <2> QED
    BY <1>1, <1>2, <2>1, <2>2, <2>3, <2>4 DEF Shapes
<1>6. Indices'
  <2>1. Range(<<>>) = {} /\ IsInjective(<<>>) /\ 0..0 - 1 = {}
    BY DEF Range, IsInjective
  <2> QED
    BY <1>1, <2>1 DEF Indices
<1>7. Entries'
  <2>1. 0..tag_group_next' - 1 = {} /\ 1..tag_groups' - 1 = {}
    BY <1>1, <1>3
  <2> QED
    BY <2>1 DEF Entries
<1>8. Counts' /\ TagTable'
  <2>1. DOMAIN ref_count' = DOMAIN ref_count /\ DOMAIN tags' = {}
    BY <1>1, <1>2
  <2> QED
    BY <1>1, <1>2, <2>1 DEF Counts, TagTable
<1>9. \A t \in Threads : ThreadOK(t)'
  BY <1>1, <1>3, AtRest
<1>10. Growth'
  <2>1. \A t \in Threads : thread[t].pc = "idle" /\ thread'[t] = Idle
    BY <1>1, <1>3, IdleState
  <2>2. lock' = {} /\ tag_group_next' # ArrayCapacity'
    BY <1>1, <1>3, <1>4, <2>1, RestGrowth
  <2> QED
    BY <1>1, <1>3, <2>1, <2>2, AfterRest
<1>11. BetweenVisits'
  BY <1>1 DEF BetweenVisits, Quiet
<1> QED
  BY <1>5, <1>6, <1>7, <1>8, <1>9, <1>10, <1>11

LEMMA DeleteFilteredArrivalsInv ==
  ASSUME TagGroupsAssumption, TagGroupsInv, DeleteFilteredArrivals
  PROVE  TagGroupsInv'
<1> USE DEF TagGroupsInv
<1>0. PICK S, F : S = FilterGroups /\ F = filtered_arrivals
  OBVIOUS
<1>1. /\ Quiet /\ have_filter' = FALSE /\ filtered_arrivals' = {}
      /\ DeletePaths(F) /\ DeleteGroups(S)
      /\ tags' = [i \in DOMAIN tags |-> IF tags[i] \in FilterValues THEN "deleted" ELSE tags[i]]
      /\ UNCHANGED <<tag_groups_prev, tag_group_next, lock, to_visit, searching, thread>>
  BY <1>0 DEF DeleteFilteredArrivals
<1>2. /\ S \in SUBSET tag_group_set /\ F \in SUBSET Vertices
      /\ \A g \in tag_group_set : g \in S <=> HasFilterTag(Group(g))
  BY <1>0 DEF FilterGroups, Shapes
<1>3. /\ tag_group_set' = tag_group_set \ S /\ tag_group_free_indices' \in Seq(Int)
      /\ Indices'
      /\ arrays' \in Seq(Array) /\ Len(arrays') = 1 /\ DOMAIN arrays' = {1} /\ tag_groups' = 1
      /\ DOMAIN arrays'[1] = 0..ArrayCapacity - 1 /\ ArrayCapacity' = ArrayCapacity
      /\ \A g \in tag_group_set' : Group(g)' = Group(g)
      /\ \A i \in 0..tag_group_next - 1 : Group(i)' \subseteq Group(i)
  BY <1>1, <1>2, DeleteGroupsTables
<1>4. /\ \A v \in Vertices :
           /\ v \in F => tag_group_index'[v] = NoIndex /\ paths'[v] = {}
           /\ v \notin F => tag_group_index'[v] = tag_group_index[v] /\ paths'[v] = paths[v]
      /\ tag_group_index' \in [Vertices -> {NoIndex} \cup tag_group_set]
      /\ paths' \in [Vertices -> SUBSET Int]
      /\ ref_count' \in [DOMAIN ref_count -> Int]
      /\ \A g \in DOMAIN ref_count :
           /\ g \in tag_group_set =>
                ref_count'[g] = Cardinality({v \in Vertices : tag_group_index'[v] = g})
           /\ ref_count'[g] \in 0..Cardinality(Vertices)
  BY <1>1, <1>2, DeletePathsVertices
<1>5. /\ tags \in Seq(TagValues \cup {"deleted"}) /\ DOMAIN tags = 1..Len(tags)
      /\ Len(tags) \in Nat /\ NoIndex \notin tag_group_set
  BY Numbers DEF Shapes
<1>6. /\ tags' \in Seq(TagValues \cup {"deleted"}) /\ DOMAIN tags' = DOMAIN tags
      /\ \A i \in DOMAIN tags : tags'[i] \notin FilterValues
      /\ \A i \in DOMAIN tags : tags[i] \notin FilterValues => tags'[i] = tags[i]
      /\ \A i \in DOMAIN tags : tags'[i] # "deleted" => tags'[i] = tags[i]
  <2>1. \A i \in 1..Len(tags) : tags[i] \in TagValues \cup {"deleted"}
    BY <1>5, ElementOfSeq
  <2>2. tags' \in [1..Len(tags) -> TagValues \cup {"deleted"}]
    BY <1>1, <1>5, <2>1
  <2>3. tags' \in Seq(TagValues \cup {"deleted"})
    BY <1>5, <2>2, SeqDef
  <2>4. "deleted" \notin FilterValues
    BY DEF TagGroupsAssumption
  <2>5. \A i \in DOMAIN tags :
          tags'[i] = IF tags[i] \in FilterValues THEN "deleted" ELSE tags[i]
    BY <1>1
  <2> QED
    BY <1>1, <2>3, <2>4, <2>5
<1>7. \A v \in Vertices : tag_group_index'[v] # NoIndex =>
        /\ tag_group_index'[v] = tag_group_index[v] /\ tag_group_index[v] \in tag_group_set'
        /\ paths'[v] = paths[v] /\ Group(tag_group_index[v]) = paths[v]
  <2> TAKE v \in Vertices
  <2> HAVE tag_group_index'[v] # NoIndex
  <2>1. /\ v \notin F /\ tag_group_index'[v] = tag_group_index[v] /\ paths'[v] = paths[v]
        /\ tag_group_index[v] # NoIndex
    BY <1>4
  <2>2. tag_group_index[v] \in tag_group_set /\ Group(tag_group_index[v]) = paths[v]
    BY <2>1 DEF Counts, Shapes
  <2>3. ~HasFilterTag(paths[v])
    BY <1>0, <2>1 DEF TagTable
  <2>4. tag_group_index[v] \notin S
    BY <1>2, <2>2, <2>3
  <2> QED
    BY <1>3, <2>1, <2>2, <2>4
<1>8. \A t \in Threads : thread[t] = Idle /\ thread'[t] = Idle /\ thread[t].pc = "idle"
  BY <1>1, IdleState DEF BetweenVisits
<1>9. Shapes'
  <2>1. tag_group_index' \in [Vertices -> {NoIndex} \cup tag_group_set']
    BY <1>4, <1>7
  <2>2. ref_count' \in [DOMAIN arrays'[tag_groups'] -> Int]
    BY <1>3, <1>4, Numbers DEF Shapes
  <2>3. tag_groups' \in 1..Len(arrays') /\ tag_groups_prev' \subseteq DOMAIN arrays'
    BY <1>1, <1>3 DEF BetweenVisits
  <2>4. filtered_arrivals' \subseteq Vertices /\ have_filter' \in BOOLEAN
    BY <1>1
  <2> QED
    BY <1>1, <1>3, <1>4, <1>6, <2>1, <2>2, <2>3, <2>4 DEF Shapes
<1>10. Entries'
  <2>1. 1..tag_groups' - 1 = {}
    BY <1>3
  <2> QED
    BY <1>1, <1>3, <1>6, <2>1 DEF Entries
<1>11. Counts'
  <2>1. \A v \in Vertices :
          IF tag_group_index'[v] = NoIndex THEN paths'[v] = {}
          ELSE arrays'[tag_groups'][tag_group_index'[v]] = paths'[v]
    <3> TAKE v \in Vertices
    <3>1. CASE tag_group_index'[v] = NoIndex
      BY <1>4, <3>1 DEF Counts
    <3>2. CASE tag_group_index'[v] # NoIndex
      <4>1. PICK g \in tag_group_set' : g = tag_group_index[v] /\ g = tag_group_index'[v]
                                        /\ Group(g) = paths'[v]
        BY <1>7, <3>2
      <4>2. Group(g)' = Group(g)
        BY <1>3
      <4> QED
        BY <3>2, <4>1, <4>2 DEF Group
    <3> QED
      BY <3>1, <3>2
  <2>2. \A g, h \in tag_group_set' : Group(g)' = Group(h)' => g = h
    BY <1>3 DEF Counts
  <2>3. DOMAIN ref_count' = DOMAIN ref_count /\ \A g \in tag_group_set' : g \in tag_group_set
    BY <1>3, <1>4
  <2> QED
    BY <1>4, <2>1, <2>2, <2>3 DEF Counts, Group
<1>12. TagTable'
  <2>1. ASSUME NEW g \in tag_group_set' PROVE LiveTags(Group(g))'
    <3>1. g \in tag_group_set /\ ~HasFilterTag(Group(g)) /\ Group(g)' = Group(g)
      BY <1>2, <1>3
    <3>2. \A i \in Group(g) : i \in DOMAIN tags /\ tags[i] # "deleted" /\ tags[i] \notin FilterValues
      BY <3>1 DEF TagTable, LiveTags, HasFilterTag
    <3> QED
      BY <1>6, <3>1, <3>2 DEF LiveTags
  <2>2. \A i, j \in DOMAIN tags' : tags'[i] = tags'[j] /\ tags'[i] # "deleted" => i = j
    <3>1. \A i, j \in DOMAIN tags : tags[i] = tags[j] /\ tags[i] # "deleted" => i = j
      BY DEF TagTable
    <3> QED
      BY ONLY <1>6, <3>1
  <2>3. ASSUME NEW v \in Vertices, tag_group_index'[v] # NoIndex
        PROVE  ~HasFilterTag(paths[v])'
    <3>1. PICK g \in tag_group_set : Group(g) = paths'[v]
      BY <1>3, <1>7, <2>3
    <3>2. \A i \in paths'[v] : i \in DOMAIN tags
      BY <3>1 DEF TagTable, LiveTags
    <3> QED
      BY <1>6, <3>2 DEF HasFilterTag
  <2> QED
    BY <1>6, <2>1, <2>2, <2>3 DEF TagTable
<1>13. \A t \in Threads : ThreadOK(t)'
  BY <1>8, AtRest
<1>14. Growth'
  BY <1>1, <1>3, <1>8, RestGrowth, AfterRest
<1>15. BetweenVisits'
  BY <1>1, <1>3, <1>8 DEF BetweenVisits, Quiet
<1> QED
  BY <1>3, <1>9, <1>10, <1>11, <1>12, <1>13, <1>14, <1>15

-----------------------------------------------------------------------------
(* The invariant, and what follows from it.                                *)

LEMMA InitInv ==
  ASSUME TagGroupsAssumption, Init
  PROVE  TagGroupsInv
<1> DEFINE A == [i \in 0..Capacity - 1 |-> Garbage]
<1>1. Capacity \in Nat \ {0} /\ IsFiniteSet(Vertices)
  BY DEF TagGroupsAssumption
<1>2. /\ tags = <<>> /\ arrays = <<A>> /\ tag_groups = 1
      /\ tag_groups_prev = {} /\ tag_group_set = {}
      /\ tag_group_next = 0 /\ tag_group_free_indices = <<>>
      /\ ref_count = [i \in 0..Capacity - 1 |-> 0]
      /\ lock = {}
      /\ tag_group_index = [v \in Vertices |-> NoIndex] /\ paths = [v \in Vertices |-> {}]
      /\ filtered_arrivals = {} /\ have_filter = FALSE
      /\ to_visit = {} /\ searching = "no"
      /\ thread = [t \in Threads |-> Idle]
  BY DEF Init
<1>3. A \in Array /\ Cardinality(DOMAIN A) = Capacity /\ DOMAIN A = 0..Capacity - 1
  <2>1. A \in [0..Capacity - 1 -> SUBSET Int]
    BY DEF Garbage
  <2>2. DOMAIN A = 0..Capacity - 1
    OBVIOUS
  <2> HIDE DEF A
  <2> QED
    BY <1>1, <2>1, <2>2, MakeArray
<1> HIDE DEF A
<1>4. arrays \in Seq(Array) /\ Len(arrays) = 1 /\ DOMAIN arrays = {1} /\ arrays[1] = A
  BY <1>2, <1>3
<1>5. ArrayCapacity = Capacity
  BY <1>2, <1>3, <1>4 DEF ArrayCapacity
<1>6. \A t \in Threads : thread[t] = Idle
  BY <1>2
<1>7. Shapes
  <2>1. thread \in [Threads -> ThreadState]
    BY <1>2, IdleState
  <2>2. tags \in Seq(TagValues \cup {"deleted"}) /\ tag_group_free_indices \in Seq(Int)
    BY <1>2, EmptySeq
  <2>3. ref_count \in [DOMAIN arrays[tag_groups] -> Int]
    BY <1>2, <1>3, <1>4
  <2>4. tag_group_index \in [Vertices -> {NoIndex} \cup tag_group_set]
        /\ paths \in [Vertices -> SUBSET Int]
    BY <1>2
  <2>5. tag_groups \in 1..Len(arrays) /\ tag_group_next \in 0..ArrayCapacity
    BY <1>1, <1>2, <1>4, <1>5
  <2> QED
    BY <1>2, <1>4, <2>1, <2>2, <2>3, <2>4, <2>5 DEF Shapes
<1>8. Indices
  <2>1. Range(<<>>) = {} /\ IsInjective(<<>>) /\ 0..0 - 1 = {}
    BY DEF Range, IsInjective
  <2> QED
    BY <1>2, <2>1 DEF Indices
<1>9. Entries
  <2>1. 0..tag_group_next - 1 = {} /\ 1..tag_groups - 1 = {}
    BY <1>2
  <2> QED
    BY <2>1 DEF Entries
<1>10. Counts /\ TagTable
  <2>1. Cardinality(Vertices) \in Nat
    BY <1>1, FS_CardinalityType
  <2>2. \A g \in DOMAIN ref_count : ref_count[g] = 0
    BY <1>2
  <2> QED
    BY <1>2, <2>1, <2>2 DEF Counts, TagTable
<1>11. \A t \in Threads : ThreadOK(t)
  <2> TAKE t \in Threads
  <2>1. /\ thread[t].pc = "idle" /\ thread[t].reads = {} /\ thread[t].wanted = {}
        /\ thread[t].found = {} /\ thread[t].cache = {}
    BY <1>6, IdleState
  <2> QED
    BY <2>1 DEF ThreadOK, LiveTags
<1>12. Growth
  <2>1. \A t \in Threads : thread[t].pc = "idle"
    BY <1>6, IdleState
  <2> QED
    BY <1>1, <1>2, <1>4, <1>5, <2>1 DEF Growth, Publishing
<1>13. BetweenVisits
  BY <1>2, <1>4, <1>6 DEF BetweenVisits
<1> QED
  BY <1>7, <1>8, <1>9, <1>10, <1>11, <1>12, <1>13 DEF TagGroupsInv

LEMMA StepInv ==
  ASSUME TagGroupsAssumption, TagGroupsInv, [Next]_vars
  PROVE  TagGroupsInv'
<1>1. CASE \E t \in Threads : Visit(t)
  <2> PICK t \in Threads : Visit(t)
    BY <1>1
  <2>1. CASE \E v \in Vertices : BeginVisit(t, v)
    BY <2>1, BeginVisitInv
  <2>2. CASE LoadArray(t) \/ ReadEntry(t)
    BY <2>2, ReadInv
  <2>3. CASE FindTag(t)
    BY <2>3, FindTagInv
  <2>4. CASE Unchanged(t)
    BY <2>4, UnchangedInv
  <2>5. CASE FindTagGroup(t)
    BY <2>5, FindTagGroupInv
  <2>6. CASE MakeTagGroup(t)
    BY <2>6, MakeTagGroupInv
  <2>7. CASE CopyTagGroups(t)
    BY <2>7, CopyTagGroupsInv
  <2>8. CASE PublishTagGroups(t)
    BY <2>8, PublishTagGroupsInv
  <2>9. CASE DropPaths(t)
    BY <2>9, DropPathsInv
  <2>10. CASE SetPaths(t)
    BY <2>10, SetPathsInv
  <2> QED
    BY <2>1, <2>2, <2>3, <2>4, <2>5, <2>6, <2>7, <2>8, <2>9, <2>10 DEF Visit
<1>2. CASE StartSearch \/ StartFilteredSearch
  BY <1>2, StartSearchInv
<1>3. CASE EndSearch
  BY <1>3, EndSearchInv
<1>4. CASE DeleteFilteredArrivals
  BY <1>4, DeleteFilteredArrivalsInv
<1>5. CASE ArrivalsInvalid
  BY <1>5, ArrivalsInvalidInv
<1>6. CASE \E v \in Vertices : DeleteVertexBefore(v)
  BY <1>6, DeleteVertexBeforeInv
<1>7. CASE UNCHANGED vars
  <2> USE DEF TagGroupsInv
  <2>1. UNCHANGED <<tags, arrays, tag_groups, tag_groups_prev, tag_group_set, tag_group_next,
                    tag_group_free_indices, ref_count, lock, tag_group_index, paths,
                    filtered_arrivals, have_filter, to_visit, searching, thread>>
    BY <1>7 DEF vars, tableVars, vertexVars, searchVars
  <2>2. /\ ArrayCapacity' = ArrayCapacity
        /\ \A i : Group(i)' = Group(i)
        /\ \A a : (Live(a)' <=> Live(a)) /\ Size(a)' = Size(a)
    BY <2>1 DEF ArrayCapacity, Group, Live, Size
  <2>3. Shapes' /\ Indices' /\ Entries'
    BY <2>1, <2>2 DEF Shapes, Indices, Entries
  <2>4. Counts' /\ TagTable'
    BY <2>1, <2>2 DEF Counts, TagTable, LiveTags, HasFilterTag, Group
  <2>5. \A t \in Threads : ThreadOK(t)'
    BY <2>1, <2>2, OthersOK
  <2>6. Growth' /\ BetweenVisits'
    BY <2>1, <2>2 DEF Growth, Publishing, BetweenVisits, Quiet
  <2> QED
    BY <2>3, <2>4, <2>5, <2>6
<1> QED
  BY <1>1, <1>2, <1>3, <1>4, <1>5, <1>6, <1>7 DEF Next

\* The tables, what the vertices hold of them and what the threads have read stay
\* consistent: deleteTagGroup and deleteTags run only while no thread visits.
THEOREM InductiveInvariant == Spec => []TagGroupsInv
<1>1. Init => TagGroupsInv
  BY TagGroupsAssumption, InitInv
<1>2. TagGroupsInv /\ [Next]_vars => TagGroupsInv'
  BY TagGroupsAssumption, StepInv
<1> QED
  BY <1>1, <1>2, PTL DEF Spec

LEMMA ImpliesTypeOK ==
  ASSUME TagGroupsAssumption, TagGroupsInv
  PROVE  TypeOK
<1> USE DEF TagGroupsInv
<1>1. Range(tags) \subseteq TagValues \cup {"deleted"}
  BY RangeOfSeq DEF Shapes
<1>2. ASSUME NEW a \in DOMAIN arrays, NEW i \in DOMAIN arrays[a], i \in tag_group_set
      PROVE  arrays[a][i] \subseteq DOMAIN tags
  <2>1. /\ a \in 1..Len(arrays) /\ i \in 0..tag_group_next - 1 /\ Len(arrays) \in Nat
        /\ tag_groups \in 1..Len(arrays)
    BY <1>2, Numbers DEF Shapes
  <2>2. CASE a \in 1..tag_groups - 1
    BY <2>2 DEF Entries
  <2>3. CASE a = tag_groups
    BY <2>1, <2>3 DEF Entries, Group
  <2>4. CASE a > tag_groups
    <3>1. Publishing /\ a = Len(arrays)
      <4>1. Len(arrays) # tag_groups
        BY <2>1, <2>4
      <4>2. Publishing
        BY <4>1 DEF Growth
      <4>3. Len(arrays) = tag_groups + 1
        BY <4>2 DEF Growth
      <4> QED
        BY <2>1, <2>4, <4>2, <4>3
    <3>2. i \in 0..ArrayCapacity - 1
      <4>1. tag_group_next \in 0..ArrayCapacity /\ ArrayCapacity \in Nat
        BY Numbers
      <4> QED
        BY ONLY <2>1, <4>1
    <3>3. arrays[a][i] = Group(i)
      BY <3>1, <3>2 DEF Growth
    <3> QED
      BY <2>1, <3>3 DEF Entries
  <2> QED
    BY <2>1, <2>2, <2>3, <2>4
<1>3. tag_groups \in DOMAIN arrays /\ tag_groups_prev \subseteq DOMAIN arrays
      /\ tag_group_next \in 0..ArrayCapacity
  BY Numbers DEF Shapes
<1>4. tag_group_next = ArrayCapacity => \E t \in lock : thread[t].pc \in {"copy", "publish"}
  BY DEF Growth
<1>5. ref_count \in [DOMAIN arrays[tag_groups] -> 0..Cardinality(Vertices)]
  <2>1. \A g \in DOMAIN ref_count : ref_count[g] \in 0..Cardinality(Vertices)
    <3> TAKE g \in DOMAIN ref_count
    <3>1. IF g \in tag_group_set
          THEN ref_count[g] = Cardinality({v \in Vertices : tag_group_index[v] = g})
          ELSE ref_count[g] \in 0..Cardinality(Vertices)
      BY DEF Counts
    <3>2. Cardinality({v \in Vertices : tag_group_index[v] = g}) \in 0..Cardinality(Vertices)
      BY GroupVertices
    <3> QED
      BY <3>1, <3>2
  <2>2. ref_count \in [DOMAIN arrays[tag_groups] -> Int]
    BY DEF Shapes
  <2> QED
    BY <2>1, <2>2
<1>6. paths \in [Vertices -> SUBSET DOMAIN tags]
  <2>1. \A v \in Vertices : paths[v] \subseteq DOMAIN tags
    <3> TAKE v \in Vertices
    <3>1. CASE tag_group_index[v] = NoIndex
      BY <3>1 DEF Counts
    <3>2. CASE tag_group_index[v] # NoIndex
      <4>1. tag_group_index[v] \in tag_group_set /\ Group(tag_group_index[v]) = paths[v]
        BY <3>2 DEF Counts, Shapes
      <4> QED
        BY <4>1 DEF TagTable, LiveTags
    <3> QED
      BY <3>1, <3>2
  <2>2. paths \in [Vertices -> SUBSET Int]
    BY DEF Shapes
  <2> QED
    BY <2>1, <2>2
<1>7. \A t \in Threads : thread[t].found \cup thread[t].cache \subseteq DOMAIN tags
  BY DEF ThreadOK, LiveTags
<1>8. lock \in SUBSET Threads
  BY DEF Growth
<1>9. /\ tag_group_index \in [Vertices -> {NoIndex} \cup tag_group_set]
      /\ filtered_arrivals \subseteq Vertices /\ have_filter \in BOOLEAN
      /\ to_visit \subseteq Vertices /\ searching \in {"no", "all", "filtered"}
  BY DEF Shapes
<1>10. /\ tag_group_set \cup Range(tag_group_free_indices) = 0..tag_group_next - 1
       /\ tag_group_set \cap Range(tag_group_free_indices) = {}
       /\ IsInjective(tag_group_free_indices)
  BY DEF Indices
<1> HIDE DEF TagGroupsInv
<1> QED
  BY <1>1, <1>2, <1>3, <1>4, <1>5, <1>6, <1>7, <1>8, <1>9, <1>10 DEF TypeOK

\* The types hold, and every index below the next is in the set or free, once:
\* findTagGroup never writes past the array or reuses an index in use.
THEOREM Types == Spec => []TypeOK
<1>1. TagGroupsInv => TypeOK
  BY TagGroupsAssumption, ImpliesTypeOK
<1> QED
  BY <1>1, InductiveInvariant, PTL

\* Search::tagGroup without the lock reads the group of the index, from an array
\* that is kept, whatever the other threads make and copy meanwhile.
THEOREM CurrentReads == Spec => []ReadsAreCurrent
<1>1. TagGroupsInv => ReadsAreCurrent
  BY DEF TagGroupsInv, ThreadOK, ReadsAreCurrent
<1> QED
  BY <1>1, InductiveInvariant, PTL

\* A vertex has the group of its paths, TagGroup::ref_count_ is the number of
\* vertices with the group, and equal groups are one.
THEOREM CountedGroups == Spec => []GroupsInUse
<1>1. TagGroupsInv => GroupsInUse
  <2> SUFFICES ASSUME TagGroupsInv PROVE GroupsInUse
    OBVIOUS
  <2>1. Shapes /\ Indices /\ Counts
    BY DEF TagGroupsInv
  <2>2. \A g \in tag_group_set : g \in DOMAIN ref_count
    BY <2>1, TagGroupsAssumption, Numbers DEF Shapes
  <2> QED
    BY <2>1, <2>2 DEF GroupsInUse, Counts, Shapes
<1> QED
  BY <1>1, InductiveInvariant, PTL

\* deleteFilterTags and deleteTags leave no path, group or cache with a deleted
\* tag, and findTag makes no tag twice.
THEOREM LiveTagsOnly == Spec => []TagsLive
<1>1. TagGroupsInv => TagsLive
  <2> SUFFICES ASSUME TagGroupsInv PROVE TagsLive
    OBVIOUS
  <2>1. Shapes /\ Counts /\ TagTable /\ \A t \in Threads : ThreadOK(t)
    BY DEF TagGroupsInv
  <2>2. \A v \in Vertices : LiveTags(paths[v])
    BY <2>1 DEF Shapes, Counts, TagTable, LiveTags
  <2>3. \A g \in tag_group_set : LiveTags(Group(g))
    BY <2>1 DEF TagTable
  <2>4. \A t \in Threads : LiveTags(thread[t].found \cup thread[t].cache)
    BY <2>1 DEF ThreadOK
  <2>5. \A i, j \in DOMAIN tags : tags[i] = tags[j] /\ tags[i] # "deleted" => i = j
    BY <2>1 DEF TagTable
  <2>6. ~have_filter => Range(tags) \cap FilterValues = {}
    BY <2>1 DEF TagTable, Range
  <2> QED
    BY <2>2, <2>3, <2>4, <2>5, <2>6 DEF TagsLive, LiveTags
<1> QED
  BY <1>1, InductiveInvariant, PTL
=============================================================================
