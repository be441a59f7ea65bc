------------------------------ MODULE TagGroups ------------------------------
(***************************************************************************)
(* The tables of tags and tag groups that the arrival search shares among  *)
(* its threads (search/Search.cc, search/TagGroup.cc).                     *)
(*                                                                         *)
(* A thread that visits a vertex reads the groups of the vertex and its    *)
(* fanin from tag_groups_ without a lock, finds the tags of the vertex's   *)
(* new paths, finds or makes the group of these tags under tag_group_lock_ *)
(* and gives it to the vertex.  A full table is copied to a larger array,  *)
(* and the old one is kept until the visit is over.  Between visits unused *)
(* groups, the groups and tags of a report's filter, or all are deleted.   *)
(*                                                                         *)
(* Which tags a visit finds is left open: any set, with tags of the filter *)
(* only while there is one.  A group's value is its set of tags.  The tag  *)
(* table grows by the same steps as the group table and is one step here.  *)
(* Filter references by clock info for reconvergence are left out.         *)
(***************************************************************************)
EXTENDS Integers, Sequences, FiniteSets, SequencesExt

CONSTANTS
  Vertices,
  Level,            \* [Vertices -> Nat]
  Threads,
  TagValues,        \* the tags that searches may find
  FilterValues,     \* those with a filter state (Tag::isFilter)
  Capacity,         \* initial tag_group_capacity_
  MaxTags           \* bound: no filtered search starts with more tags made

NoIndex == -1       \* tag_group_index_max
NoGroup == {}       \* nullptr: no group is without tags
Garbage == {-1}     \* an entry that was never written

ASSUME TagGroupsAssumption ==
  /\ IsFiniteSet(Vertices) /\ IsFiniteSet(TagValues)
  /\ Level \in [Vertices -> Nat]
  /\ FilterValues \subseteq TagValues /\ "deleted" \notin TagValues
  /\ Capacity \in Nat \ {0} /\ MaxTags \in Nat

VARIABLES
  tags,               \* tags_ up to tag_next_: a value, or "deleted"
  arrays,             \* every array of groups made: [0..capacity-1 -> SUBSET tag indices]
  tag_groups,         \* which of them is tag_groups_
  tag_groups_prev,
  tag_group_set,      \* indices of the groups in the set
  tag_group_next, tag_group_free_indices,
  ref_count,          \* TagGroup::ref_count_ by index, for each entry of tag_groups_
  lock,               \* holder of tag_group_lock_, or none
  tag_group_index,    \* Vertex::tag_group_index_
  paths,              \* tags of Vertex::paths_
  filtered_arrivals, have_filter,
  to_visit,           \* queued vertices of the search under way
  searching,          \* "no", or that search: "all" or "filtered"
  thread              \* of each: pc, vertex, what it read and found

tableVars == <<arrays, tag_groups, tag_groups_prev, tag_group_set, tag_group_next,
               tag_group_free_indices>>
vertexVars == <<tag_group_index, paths, ref_count>>
searchVars == <<have_filter, to_visit, searching>>
vars == <<tags, tableVars, lock, vertexVars, filtered_arrivals, searchVars, thread>>

-----------------------------------------------------------------------------
Live(array) == array = tag_groups \/ array \in tag_groups_prev
ArrayCapacity == Cardinality(DOMAIN arrays[tag_groups])
Group(index) == arrays[tag_groups][index]
HasFilterTag(group) == \E t \in group : tags[t] \in FilterValues

Idle == [pc |-> "idle", vertex |-> CHOOSE v \in Vertices : TRUE, reads |-> {}, array |-> 0,
         wanted |-> {}, found |-> {}, index |-> NoIndex, cache |-> {}]
Move(t, pc) == thread' = [thread EXCEPT ![t].pc = pc]
EndVisit(t) == thread' = [thread EXCEPT ![t] = [Idle EXCEPT !.cache = thread[t].cache]]

Init ==
  /\ tags = <<>>
  /\ arrays = << [i \in 0..Capacity - 1 |-> Garbage] >> /\ tag_groups = 1
  /\ tag_groups_prev = {} /\ tag_group_set = {}
  /\ tag_group_next = 0 /\ tag_group_free_indices = <<>>
  /\ ref_count = [i \in 0..Capacity - 1 |-> 0]
  /\ lock = {}
  /\ tag_group_index = [v \in Vertices |-> NoIndex] /\ paths = [v \in Vertices |-> {}]
  /\ filtered_arrivals = {} /\ have_filter = FALSE
  /\ to_visit = {} /\ searching = "no"
  /\ thread = [t \in Threads |-> Idle]

-----------------------------------------------------------------------------
(* The visit of a vertex by a thread (ArrivalVisitor::visit).              *)

\* Vertices under visit and those to be visited, in the order of their levels.
Visiting == {thread[t].vertex : t \in {u \in Threads : thread[u].pc # "idle"}}
BeginVisit(t, v) ==
  /\ thread[t].pc = "idle" /\ v \in to_visit
  /\ \A u \in to_visit \cup Visiting : Level[v] <= Level[u]
  /\ to_visit' = to_visit \ {v}
  /\ \E wanted \in SUBSET (IF have_filter THEN TagValues ELSE TagValues \ FilterValues) :
       thread' = [thread EXCEPT ![t] =
         [@ EXCEPT !.pc = "read", !.vertex = v, !.wanted = wanted, !.found = {},
                   !.reads = {tag_group_index[u] : u \in
                                {w \in Vertices : /\ w = v \/ Level[w] < Level[v]
                                                  /\ tag_group_index[w] # NoIndex}}]]
  /\ UNCHANGED <<tags, tableVars, lock, vertexVars, filtered_arrivals, have_filter, searching>>

\* Search::tagGroup of the vertex and of its fanin: the array, then the entry.
LoadArray(t) ==
  /\ thread[t].pc = "read" /\ thread[t].reads # {}
  /\ thread' = [thread EXCEPT ![t].pc = "entry", ![t].array = tag_groups]
  /\ UNCHANGED <<tags, tableVars, lock, vertexVars, filtered_arrivals, searchVars>>
ReadEntry(t) ==
  /\ thread[t].pc = "entry"
  /\ \E i \in thread[t].reads :
       thread' = [thread EXCEPT ![t].pc = "read", ![t].array = 0, ![t].reads = @ \ {i}]
  /\ UNCHANGED <<tags, tableVars, lock, vertexVars, filtered_arrivals, searchVars>>

\* Search::findTag: from the thread's cache, from the table, or a new one.
FindTag(t) ==
  LET x == CHOOSE y \in thread[t].wanted : TRUE
      cached == {i \in thread[t].cache : tags[i] = x}
      known == {i \in DOMAIN tags : tags[i] = x}
      i == IF cached # {} THEN CHOOSE j \in cached : TRUE
           ELSE IF known # {} THEN CHOOSE j \in known : TRUE ELSE Len(tags) + 1
  IN  /\ thread[t].pc = "read" /\ thread[t].reads = {} /\ thread[t].wanted # {}
      /\ tags' = IF cached = {} /\ known = {} THEN Append(tags, x) ELSE tags
      /\ thread' = [thread EXCEPT ![t].wanted = @ \ {x}, ![t].found = @ \cup {i},
                                  ![t].cache = @ \cup ({i} \ DOMAIN tags)]
      /\ UNCHANGED <<tableVars, lock, vertexVars, filtered_arrivals, searchVars>>

Found(t) == thread[t].pc = "read" /\ thread[t].reads = {} /\ thread[t].wanted = {}

\* Search::arrivalsChanged is false only for the tags the vertex has.
Unchanged(t) ==
  /\ Found(t) /\ thread[t].found = paths[thread[t].vertex]
  /\ EndVisit(t)
  /\ UNCHANGED <<tags, tableVars, lock, vertexVars, filtered_arrivals, searchVars>>

\* Search::findTagGroup, with the lock held from its first step to its last.
Values(group) == {tags[i] : i \in group}
FindTagGroup(t) ==
  LET known == {g \in tag_group_set : Values(Group(g)) = Values(thread[t].found)}
  IN  /\ Found(t) /\ thread[t].found # {} /\ lock = {}
      /\ known # {}
      /\ thread' = [thread EXCEPT ![t].pc = "set", ![t].index = CHOOSE g \in known : TRUE]
      /\ UNCHANGED <<tags, tableVars, lock, vertexVars, filtered_arrivals, searchVars>>
Variant_TableFull(next) == next > ArrayCapacity
TableFull(next) == next = ArrayCapacity
MakeTagGroup(t) ==
  LET reuse == tag_group_free_indices # <<>>
      g == IF reuse THEN Last(tag_group_free_indices) ELSE tag_group_next
  IN  /\ Found(t) /\ thread[t].found # {} /\ lock = {}
      /\ \A h \in tag_group_set : Values(Group(h)) # Values(thread[t].found)
      /\ tag_group_next' = IF reuse THEN tag_group_next ELSE tag_group_next + 1
      /\ tag_group_free_indices' = IF reuse THEN Front(tag_group_free_indices) ELSE <<>>
      /\ arrays' = [arrays EXCEPT ![tag_groups][g] = thread[t].found]
      /\ ref_count' = [ref_count EXCEPT ![g] = 0]
      /\ tag_group_set' = tag_group_set \cup {g}
      /\ LET full == TableFull(tag_group_next')
         IN  /\ lock' = IF full THEN {t} ELSE {}
             /\ thread' = [thread EXCEPT ![t].pc = IF full THEN "copy" ELSE "set", ![t].index = g]
      /\ UNCHANGED <<tags, tag_groups, tag_groups_prev, tag_group_index, paths,
                     filtered_arrivals, searchVars>>
CopyTagGroups(t) ==
  /\ thread[t].pc = "copy"
  /\ arrays' = Append(arrays, [i \in 0..2 * ArrayCapacity - 1 |->
                                 IF i < ArrayCapacity THEN Group(i) ELSE Garbage])
  /\ Move(t, "publish")
  /\ UNCHANGED <<tags, tag_groups, tag_groups_prev, tag_group_set, tag_group_next,
                 tag_group_free_indices, lock, vertexVars, filtered_arrivals, searchVars>>
Variant_KeptArrays == tag_groups_prev
KeptArrays == tag_groups_prev \cup {tag_groups}
PublishTagGroups(t) ==
  /\ thread[t].pc = "publish"
  /\ tag_groups_prev' = KeptArrays
  /\ tag_groups' = Len(arrays)
  /\ ref_count' = [i \in DOMAIN arrays[Len(arrays)] |->
                     IF i \in DOMAIN ref_count THEN ref_count[i] ELSE 0]
  /\ lock' = {}
  /\ Move(t, "set")
  /\ UNCHANGED <<tags, arrays, tag_group_set, tag_group_next, tag_group_free_indices,
                 tag_group_index, paths, filtered_arrivals, searchVars>>

\* Search::setVertexArrivals: the old paths go first, unless the group is the same.
DropPaths(t) ==
  LET v == thread[t].vertex
      prev == tag_group_index[v]
  IN  /\ prev # NoIndex
      /\ \/ Found(t) /\ thread[t].found = {} /\ EndVisit(t)
         \/ thread[t].pc = "set" /\ thread[t].index # prev /\ UNCHANGED thread
      /\ tag_group_index' = [tag_group_index EXCEPT ![v] = NoIndex]
      /\ paths' = [paths EXCEPT ![v] = {}]
      /\ ref_count' = [ref_count EXCEPT ![prev] = @ - 1]
      /\ UNCHANGED <<tags, tableVars, lock, filtered_arrivals, searchVars>>
Variant_Counted(v, g) == 1
Counted(v, g) == IF tag_group_index[v] = g THEN 0 ELSE 1
SetPaths(t) ==
  LET v == thread[t].vertex
      g == thread[t].index
  IN  /\ thread[t].pc = "set" /\ tag_group_index[v] \in {NoIndex, g}
      /\ tag_group_index' = [tag_group_index EXCEPT ![v] = g]
      /\ paths' = [paths EXCEPT ![v] = thread[t].found]
      /\ ref_count' = [ref_count EXCEPT ![g] = @ + Counted(v, g)]
      /\ filtered_arrivals' = IF HasFilterTag(Group(g)) THEN filtered_arrivals \cup {v}
                              ELSE filtered_arrivals
      /\ EndVisit(t)
      /\ UNCHANGED <<tags, tableVars, lock, searchVars>>

-----------------------------------------------------------------------------
(* Between visits.                                                         *)

Quiet == searching = "no"

\* Search::findArrivals2: the queued vertices are those that an edit invalidated.
StartSearch ==
  /\ Quiet /\ ~have_filter
  /\ to_visit' \in (SUBSET Vertices) \ {{}}
  /\ searching' = "all"
  /\ UNCHANGED <<tags, tableVars, lock, vertexVars, filtered_arrivals, have_filter, thread>>

\* Search::findFilteredArrivals of a report with -from pins or -through.
StartFilteredSearch ==
  /\ Quiet /\ ~have_filter /\ Len(tags) <= MaxTags
  /\ to_visit' \in (SUBSET Vertices) \ {{}}
  /\ searching' = "filtered" /\ have_filter' = TRUE /\ filtered_arrivals' = {}
  /\ UNCHANGED <<tags, tableVars, lock, vertexVars, thread>>

\* The groups of S in the order of their indices.
InOrder(S) == [n \in 1..Cardinality(S) |->
                 CHOOSE i \in S : Cardinality({j \in S : j <= i}) = n]
\* deleteTagGroup of each group of S, in that order.
DeleteGroups(S) ==
  /\ tag_group_set' = tag_group_set \ S
  /\ tag_group_free_indices' = tag_group_free_indices \o InOrder(S)
  /\ arrays' = << [i \in DOMAIN arrays[tag_groups] |-> IF i \in S THEN NoGroup ELSE Group(i)] >>
  /\ tag_groups' = 1
Unused == {g \in tag_group_set : ref_count[g] = 0}
\* BfsIterator::visitParallel deletes the visitors and their caches, then
\* deleteTagsPrev the old arrays and, unless filtered, deleteUnusedTagGroups.
EndSearch ==
  /\ ~Quiet /\ to_visit = {} /\ \A t \in Threads : thread[t].pc = "idle"
  /\ searching' = "no"
  /\ thread' = [t \in Threads |-> Idle]
  /\ tag_groups_prev' = {}
  /\ DeleteGroups(IF searching = "all" THEN Unused ELSE {})
  /\ UNCHANGED <<tags, tag_group_next, lock, vertexVars, filtered_arrivals, have_filter, to_visit>>

\* deletePaths of the vertices of S.
DeletePaths(S) ==
  /\ tag_group_index' = [v \in Vertices |-> IF v \in S THEN NoIndex ELSE tag_group_index[v]]
  /\ paths' = [v \in Vertices |-> IF v \in S THEN {} ELSE paths[v]]
  /\ ref_count' = [g \in DOMAIN ref_count |->
                     ref_count[g] - Cardinality({v \in S : tag_group_index[v] = g})]

\* Search::deleteFilteredArrivals, before the next report or search.
Variant_FilterGroups == {g \in tag_group_set : HasFilterTag(Group(g)) /\ ref_count[g] = 0}
FilterGroups == {g \in tag_group_set : HasFilterTag(Group(g))}
DeleteFilteredArrivals ==
  /\ Quiet /\ have_filter
  /\ have_filter' = FALSE
  /\ filtered_arrivals' = {}
  /\ DeletePaths(filtered_arrivals)
  /\ DeleteGroups(FilterGroups)
  /\ tags' = [i \in DOMAIN tags |-> IF tags[i] \in FilterValues THEN "deleted" ELSE tags[i]]
  /\ UNCHANGED <<tag_groups_prev, tag_group_next, lock, to_visit, searching, thread>>

\* Search::arrivalsInvalid: deletePaths and deleteTags.
ArrivalsInvalid ==
  /\ Quiet
  /\ DeletePaths(Vertices)
  /\ tags' = <<>> /\ tag_group_set' = {} /\ tag_group_next' = 0
  /\ tag_group_free_indices' = <<>>
  /\ filtered_arrivals' = {} /\ have_filter' = FALSE
  /\ UNCHANGED <<arrays, tag_groups, tag_groups_prev, lock, to_visit, searching, thread>>

\* Search::deleteVertexBefore; v then stands for a vertex made later.
DeleteVertexBefore(v) ==
  /\ Quiet
  /\ DeletePaths({v})
  /\ filtered_arrivals' = filtered_arrivals \ {v}
  /\ UNCHANGED <<tags, tableVars, lock, searchVars, thread>>

Visit(t) ==
  \/ \E v \in Vertices : BeginVisit(t, v)
  \/ LoadArray(t) \/ ReadEntry(t) \/ FindTag(t) \/ Unchanged(t)
  \/ FindTagGroup(t) \/ MakeTagGroup(t) \/ CopyTagGroups(t) \/ PublishTagGroups(t)
  \/ DropPaths(t) \/ SetPaths(t)

Next ==
  \/ \E t \in Threads : Visit(t)
  \/ StartSearch \/ StartFilteredSearch \/ EndSearch
  \/ DeleteFilteredArrivals \/ ArrivalsInvalid
  \/ \E v \in Vertices : DeleteVertexBefore(v)

Spec == Init /\ [][Next]_vars

-----------------------------------------------------------------------------
\* Types; the next entry is always within the array, and every entry below it
\* is of a group in the set or is free, once.
TypeOK ==
  /\ Range(tags) \subseteq TagValues \cup {"deleted"}
  /\ \A a \in DOMAIN arrays : \A i \in DOMAIN arrays[a] :
       arrays[a][i] \subseteq DOMAIN tags \/ i \notin tag_group_set
  /\ tag_groups \in DOMAIN arrays /\ tag_groups_prev \subseteq DOMAIN arrays
  /\ tag_group_next \in 0..ArrayCapacity
  /\ tag_group_next = ArrayCapacity => \E t \in lock : thread[t].pc \in {"copy", "publish"}
  /\ tag_group_set \cup Range(tag_group_free_indices) = 0..tag_group_next - 1
  /\ tag_group_set \cap Range(tag_group_free_indices) = {}
  /\ IsInjective(tag_group_free_indices)
  /\ ref_count \in [DOMAIN arrays[tag_groups] -> 0..Cardinality(Vertices)]
  /\ lock \in SUBSET Threads
  /\ tag_group_index \in [Vertices -> {NoIndex} \cup tag_group_set]
  /\ paths \in [Vertices -> SUBSET DOMAIN tags]
  /\ filtered_arrivals \subseteq Vertices /\ have_filter \in BOOLEAN
  /\ to_visit \subseteq Vertices /\ searching \in {"no", "all", "filtered"}
  /\ \A t \in Threads : thread[t].found \cup thread[t].cache \subseteq DOMAIN tags

\* "so that other threads can use Search::tagGroup(TagGroupIndex) without
\* returning gubbish" (Search.cc:2675): the array that a thread has loaded is
\* not deleted and has, at each index it is to read, the group of that index.
ReadsAreCurrent ==
  \A t \in Threads : thread[t].pc = "entry" =>
    /\ Live(thread[t].array)
    /\ \A i \in thread[t].reads : /\ i \in tag_group_set \cap DOMAIN arrays[thread[t].array]
                                  /\ arrays[thread[t].array][i] = Group(i)

\* The group of a vertex is that of its paths; a count is the number of vertices
\* with the group, so that only groups of no vertex are deleted as unused; and
\* equal groups are one, so that vertices can compare groups by their pointers.
GroupsInUse ==
  /\ \A v \in Vertices :
       IF tag_group_index[v] = NoIndex THEN paths[v] = {}
       ELSE tag_group_index[v] \in tag_group_set /\ Group(tag_group_index[v]) = paths[v]
  /\ \A g \in tag_group_set :
       ref_count[g] = Cardinality({v \in Vertices : tag_group_index[v] = g})
  /\ \A g, h \in tag_group_set : Group(g) = Group(h) => g = h

\* No path, no group and no thread's cache has a deleted tag; no tag is made
\* twice; and tags of a filter are gone when the filter is.
TagsLive ==
  /\ \A i \in UNION ({paths[v] : v \in Vertices} \cup {Group(g) : g \in tag_group_set}
                     \cup {thread[t].found \cup thread[t].cache : t \in Threads}) :
       i \in DOMAIN tags /\ tags[i] # "deleted"
  /\ \A i, j \in DOMAIN tags : tags[i] = tags[j] /\ tags[i] # "deleted" => i = j
  /\ ~have_filter => Range(tags) \cap FilterValues = {}

=============================================================================
