------------------------- MODULE LineageGraphProofs -------------------------
(***************************************************************************)
(* Proofs about the analysis of a lineage graph, for any finite set of     *)
(* candidates and any edges between them, loops included, and whichever    *)
(* order the successors of a candidate are taken in.                       *)
(*                                                                         *)
(* A candidate is complete once all it leads to has finished, a member of  *)
(* its own component last of all (CompleteIn).  During the first search    *)
(* what has finished is complete or is in the component of a candidate on  *)
(* the stack (SearchInv).  The open component of the second search holds   *)
(* candidates of one component, because a predecessor from another one     *)
(* would have finished too late not to be done (CollectInv).  The sort     *)
(* counts the predecessors that are not ordered, and gets to the end       *)
(* because of those left the last to finish would be on a cycle (SortInv). *)
(***************************************************************************)
EXTENDS LineageGraph, FiniteSetTheorems, WellFoundedInduction, TLAPS

-----------------------------------------------------------------------------
(* Graphs. *)

\* The candidates that x leads to, x itself included.
Reach(g, x) == {x} \union Descendants(g, x)

\* Two candidates in one component.
Mutual(g, x, y) == y \in Reach(g, x) /\ x \in Reach(g, y)

LEMMA ReachIsClosed ==
  ASSUME NEW g \in Graphs, NEW x \in Candidate
  PROVE  /\ Reach(g, x) \subseteq Candidate
         /\ x \in Reach(g, x)
         /\ \A y \in Reach(g, x) : g[y] \subseteq Descendants(g, x)
<1>1. g[x] \subseteq Descendants(g, x)
  BY DEF Descendants, Graphs
<1>2. \A y \in Descendants(g, x) : g[y] \subseteq Descendants(g, x)
  <2> SUFFICES ASSUME NEW y \in Descendants(g, x), NEW z \in g[y]
               PROVE  z \in Descendants(g, x)
    OBVIOUS
  <2>1. y \in Candidate /\ z \in Candidate
    BY DEF Descendants, Graphs
  <2>2. ASSUME NEW S \in SUBSET Candidate, g[x] \subseteq S, \A v \in S : g[v] \subseteq S
        PROVE  z \in S
    BY <2>2 DEF Descendants
  <2> QED
    BY <2>1, <2>2 DEF Descendants
<1> QED
  BY <1>1, <1>2 DEF Reach, Descendants

LEMMA ReachIsLeast ==
  ASSUME NEW g \in Graphs, NEW S \in SUBSET Candidate, NEW x \in S,
         \A y \in S : g[y] \subseteq S
  PROVE  Reach(g, x) \subseteq S
  BY DEF Reach, Descendants

LEMMA ReachIsTransitive ==
  ASSUME NEW g \in Graphs, NEW x \in Candidate, NEW y \in Reach(g, x)
  PROVE  Reach(g, y) \subseteq Reach(g, x)
<1>1. Reach(g, x) \in SUBSET Candidate
  BY ReachIsClosed
<1>2. \A z \in Reach(g, x) : g[z] \subseteq Reach(g, x)
  BY ReachIsClosed DEF Reach
<1> QED
  BY <1>1, <1>2, ReachIsLeast

LEMMA EdgeIsReach ==
  ASSUME NEW g \in Graphs, NEW x \in Candidate, NEW y \in g[x]
  PROVE  y \in Reach(g, x) /\ y \in Candidate
  BY ReachIsClosed DEF Reach

\* What leads into a set that contains its predecessors is in the set.
LEMMA ReachBackward ==
  ASSUME NEW g \in Graphs, NEW S \in SUBSET Candidate,
         \A y \in S : Predecessors(g, y) \subseteq S,
         NEW x \in Candidate, NEW y \in S, y \in Reach(g, x)
  PROVE  x \in S
<1> DEFINE Out == Candidate \ S
<1>1. \A z \in Out : g[z] \subseteq Out
  BY DEF Predecessors, Graphs
<1>2. x \in Out => Reach(g, x) \subseteq Out
  BY <1>1, ReachIsLeast
<1> QED
  BY <1>2

LEMMA MutualIsEquivalence ==
  ASSUME NEW g \in Graphs, NEW x \in Candidate, NEW y \in Candidate, NEW z \in Candidate
  PROVE  /\ Mutual(g, x, x)
         /\ Mutual(g, x, y) => Mutual(g, y, x)
         /\ Mutual(g, x, y) /\ Mutual(g, y, z) => Mutual(g, x, z)
         /\ Mutual(g, x, y) => Reach(g, x) = Reach(g, y)
  BY ReachIsClosed, ReachIsTransitive DEF Mutual

LEMMA ComponentIsMutual ==
  ASSUME NEW g \in Graphs, NEW c \in Candidate
  PROVE  Component(g, c) = {d \in Candidate : Mutual(g, c, d)}
  BY DEF Component, Mutual, Reach, Ancestors, Descendants

LEMMA ComponentsPartition ==
  ASSUME NEW g \in Graphs, NEW nodes \in StrongComponents(g), NEW c \in nodes
  PROVE  /\ nodes \subseteq Candidate
         /\ nodes = Component(g, c)
<1>1. PICK r \in Candidate : nodes = Component(g, r)
  BY DEF StrongComponents
<1>2. nodes = {d \in Candidate : Mutual(g, r, d)}
  BY <1>1, ComponentIsMutual
<1>3. \A d \in Candidate : Mutual(g, r, d) <=> Mutual(g, c, d)
  BY <1>2, MutualIsEquivalence
<1> QED
  BY <1>2, <1>3, ComponentIsMutual

\* A candidate on a cycle leads to itself through a successor.
LEMMA CycleThroughSuccessor ==
  ASSUME NEW g \in Graphs, NEW c \in Candidate
  PROVE  c \in OnCycle(g) <=> \E s \in g[c] : c \in Reach(g, s)
<1> DEFINE Later == {d \in Candidate : \E s \in g[c] : d \in Reach(g, s)}
<1>1. ASSUME NEW s \in g[c], c \in Reach(g, s)
      PROVE  c \in OnCycle(g)
  <2>1. s \in Descendants(g, c) /\ Descendants(g, c) \in SUBSET Candidate
    BY ReachIsClosed DEF Reach
  <2>2. Reach(g, s) \subseteq Descendants(g, c)
    BY <2>1, ReachIsClosed, ReachIsLeast DEF Reach
  <2> QED
    BY <1>1, <2>2 DEF OnCycle
<1>2. ASSUME c \in OnCycle(g)
      PROVE  c \in Later
  <2>1. g[c] \subseteq Later
    BY EdgeIsReach, ReachIsClosed
  <2>2. \A x \in Later : g[x] \subseteq Later
    <3> SUFFICES ASSUME NEW s \in g[c], NEW x \in Reach(g, s), NEW y \in g[x]
                 PROVE  y \in Candidate /\ y \in Reach(g, s)
      OBVIOUS
    <3> QED
      BY EdgeIsReach, ReachIsClosed DEF Reach
  <2> QED
    BY <1>2, <2>1, <2>2 DEF OnCycle, Descendants
<1> QED
  BY <1>1, <1>2

LEMMA CycleIsShared ==
  ASSUME NEW g \in Graphs, NEW c \in OnCycle(g), NEW d \in Candidate, Mutual(g, c, d)
  PROVE  d \in OnCycle(g)
<1>1. CASE c = d
  BY <1>1
<1>2. CASE c # d
  <2>1. d \in Descendants(g, c) /\ c \in Descendants(g, d) /\ c \in Candidate
    BY <1>2 DEF Mutual, Reach, Descendants
  <2>2. Reach(g, c) \subseteq Descendants(g, d)
    BY <2>1, ReachIsClosed, ReachIsLeast DEF Reach
  <2> QED
    BY <2>1, <2>2 DEF Reach, OnCycle
<1> QED
  BY <1>1, <1>2

\* IsCycle decides whether the members of a component are on a cycle.
LEMMA CycleIsRecognised ==
  ASSUME NEW g \in Graphs, NEW nodes \in StrongComponents(g)
  PROVE  /\ nodes # {}
         /\ nodes \subseteq OnCycle(g) <=>
              (\E c, d \in nodes : c # d) \/ (\E c \in nodes : c \in g[c])
<1>1. PICK r \in Candidate : nodes = Component(g, r)
  BY DEF StrongComponents
<1>2. nodes = {d \in Candidate : Mutual(g, r, d)} /\ r \in nodes
  BY <1>1, ComponentIsMutual, MutualIsEquivalence
<1>3. ASSUME NEW c \in nodes, NEW d \in nodes, c # d
      PROVE  c \in OnCycle(g)
  <2>1. Mutual(g, c, d) /\ c \in Candidate /\ d \in Candidate
    BY <1>2, MutualIsEquivalence
  <2>2. d \in Descendants(g, c) /\ c \in Descendants(g, d)
    BY <1>3, <2>1 DEF Mutual, Reach
  <2>3. Reach(g, d) \subseteq Descendants(g, c)
    BY <2>1, <2>2, ReachIsClosed, ReachIsLeast DEF Reach
  <2> QED
    BY <2>1, <2>2, <2>3 DEF Reach, OnCycle
<1>4. ASSUME NEW c \in nodes, c \in g[c]
      PROVE  c \in OnCycle(g)
  BY <1>2, <1>4, CycleThroughSuccessor, ReachIsClosed
<1>5. ASSUME NEW c \in nodes, c \in OnCycle(g)
      PROVE  nodes \subseteq OnCycle(g)
  BY <1>2, <1>5, CycleIsShared, MutualIsEquivalence
<1>6. ASSUME nodes = {r}, r \in OnCycle(g)
      PROVE  r \in g[r]
  <2>1. PICK s \in g[r] : r \in Reach(g, s)
    BY <1>6, CycleThroughSuccessor
  <2>2. s \in Candidate /\ Mutual(g, r, s)
    BY <2>1, EdgeIsReach DEF Mutual
  <2> QED
    BY <1>2, <1>6, <2>1, <2>2
<1> QED
  BY <1>2, <1>3, <1>4, <1>5, <1>6

-----------------------------------------------------------------------------
(* The inductive invariant. *)

Gray == {pending[k].node : k \in DOMAIN pending}
Black == {finished[i] : i \in DOMAIN finished}

\* The stack is a path of the graph, and holds what its candidates have yet to
\* push; what has finished leads only to what was reached.
PathInv ==
  /\ visited = Gray \union Black /\ Gray \intersect Black = {}
  /\ \A i, j \in DOMAIN finished : finished[i] = finished[j] => i = j
  /\ \A k, l \in DOMAIN pending : k < l =>
       /\ pending[k].node # pending[l].node
       /\ pending[l].node \in Reach(successors, pending[k].node)
  /\ \A c \in Black : successors[c] \subseteq visited
  /\ \A k \in DOMAIN pending :
       /\ pending[k].rest \subseteq successors[pending[k].node]
       /\ successors[pending[k].node] \subseteq visited \union pending[k].rest

\* All that p leads to is in the sequence, a member of the component of p last.
CompleteIn(g, seq, p) ==
  \E last \in DOMAIN seq :
    /\ Mutual(g, seq[last], p)
    /\ \A y \in Reach(g, p) : \E j \in 1..last : seq[j] = y

Complete(p) == CompleteIn(successors, finished, p)

SearchInv ==
  /\ PathInv
  /\ \A p \in Black : Complete(p) \/ \E g \in Gray : Mutual(successors, p, g)
  /\ stage # "visit" => pending = <<>> /\ visited = Candidate

Done == UNION components
Open == component \union frontier

\* The open component holds candidates of one component, that of the candidate
\* it was opened with, the last to finish that is not done.
OpenInv ==
  Open # {} =>
    \E r \in DOMAIN finished :
      /\ finished[r] \in Open
      /\ \A c \in Open : Mutual(successors, finished[r], c)
      /\ \A j \in DOMAIN finished : j > r => finished[j] \in Done

CollectInv ==
  /\ assigned = Done \union Open /\ Done \intersect Open = {}
  /\ \A c \in Done : Predecessors(successors, c) \subseteq Done
  /\ \A c \in component : Predecessors(successors, c) \subseteq assigned
  /\ ComponentsAreStrong
  /\ OpenInv
  /\ stage = "visit" => assigned = {} /\ components = {}
  /\ stage \in {"sort", "answered"} => Open = {} /\ Done = Candidate
  /\ stage = "sort" => cyclic = {}

Ordered == {order[i] : i \in DOMAIN order}

SortInv ==
  /\ \A c \in Candidate : indegree[c] = Cardinality(Predecessors(successors, c) \ Ordered)
  /\ OrderRespectsEdges
  /\ stage \in {"visit", "collect"} => order = <<>>
  /\ stage = "sort" => ready = {c \in Candidate \ Ordered : indegree[c] = 0}
  /\ stage = "answered" => IF cyclic = {} THEN Ordered = Candidate ELSE order = <<>>

IInv == TypeOK /\ SearchInv /\ CollectInv /\ SortInv
-----------------------------------------------------------------------------
(* The first search. *)

StackItem == [node : Candidate, rest : SUBSET Candidate]

LEMMA SequenceElements ==
  ASSUME NEW S, NEW s \in Seq(S)
  PROVE  /\ Len(s) \in Nat /\ DOMAIN s = 1..Len(s)
         /\ \A k \in DOMAIN s : s[k] \in S
  OBVIOUS

LEMMA SequenceOfElements ==
  ASSUME NEW S, NEW T, NEW s \in Seq(S), \A k \in DOMAIN s : s[k] \in T
  PROVE  s \in Seq(T)
  OBVIOUS

LEMMA SequenceTypes ==
  ASSUME TypeOK
  PROVE  /\ successors \in Graphs /\ visited \subseteq Candidate
         /\ finished \in Seq(Candidate) /\ DOMAIN finished = 1..Len(finished)
         /\ pending \in Seq(StackItem) /\ DOMAIN pending = 1..Len(pending)
         /\ Len(finished) \in Nat /\ Len(pending) \in Nat
         /\ \A i \in DOMAIN finished : finished[i] \in Candidate
         /\ \A k \in DOMAIN pending :
              pending[k].node \in Candidate /\ pending[k].rest \subseteq Candidate
         /\ Gray \subseteq visited /\ Black \subseteq visited
<1>1. successors \in Graphs /\ visited \subseteq Candidate
  BY DEF TypeOK
<1>2. finished \in Seq(visited) /\ pending \in Seq([node : visited, rest : SUBSET Candidate])
  BY DEF TypeOK
<1>3. finished \in Seq(Candidate)
  BY <1>1, <1>2
<1>4. \A i \in DOMAIN finished : finished[i] \in visited
  BY <1>2
<1>5. \A k \in DOMAIN pending : pending[k] \in [node : visited, rest : SUBSET Candidate]
  BY <1>2, SequenceElements
<1>6. \A k \in DOMAIN pending : pending[k] \in StackItem
  BY <1>1, <1>5 DEF StackItem
<1>7. pending \in Seq(StackItem)
  BY <1>2, <1>6, SequenceOfElements
<1> QED
  BY <1>1, <1>2, <1>3, <1>4, <1>5, <1>7 DEF Gray, Black, StackItem

\* Expanding a candidate that was not reached, with what it is pushed on.
LEMMA ExpandKeepsPath ==
  ASSUME TypeOK, PathInv, NEW stack \in Seq(StackItem), NEW c \in Candidate \ visited,
         Expand(stack, c), UNCHANGED <<successors, finished>>,
         Gray = {stack[k].node : k \in DOMAIN stack},
         \A k, l \in DOMAIN stack : k < l =>
           /\ stack[k].node # stack[l].node
           /\ stack[l].node \in Reach(successors, stack[k].node),
         \A k \in DOMAIN stack :
           /\ c \in Reach(successors, stack[k].node)
           /\ stack[k].rest \subseteq successors[stack[k].node]
           /\ successors[stack[k].node] \subseteq visited \union {c} \union stack[k].rest
  PROVE  PathInv' /\ Gray' = Gray \union {c} /\ Black' = Black
<1> DEFINE item == [node |-> c, rest |-> successors[c] \ (visited \union {c})]
<1>1. successors[c] \subseteq Candidate /\ item \in StackItem
  BY SequenceTypes DEF Graphs, StackItem
<1>2. pending' = Append(stack, item) /\ visited' = visited \union {c}
  BY DEF Expand
<1>3. /\ DOMAIN pending' = 1..(Len(stack) + 1) /\ DOMAIN stack = 1..Len(stack)
      /\ pending'[Len(stack) + 1] = item
      /\ \A k \in DOMAIN stack : pending'[k] = stack[k]
      /\ Len(stack) \in Nat
  BY <1>1, <1>2
<1>4. Gray' = Gray \union {c} /\ Black' = Black
  <2>1. Gray' = {pending'[k].node : k \in DOMAIN pending'} /\ Black' = Black
    BY DEF Gray, Black
  <2>2. {pending'[k].node : k \in DOMAIN pending'}
          = {stack[k].node : k \in DOMAIN stack} \union {c}
    BY <1>3
  <2> QED
    BY <2>1, <2>2
<1>5. \A k \in DOMAIN stack : stack[k].node \in visited
  BY DEF PathInv
<1>6. visited' = Gray' \union Black' /\ Gray' \intersect Black' = {}
  BY <1>2, <1>4 DEF PathInv
<1>7. \A k, l \in DOMAIN pending' : k < l =>
        /\ pending'[k].node # pending'[l].node
        /\ pending'[l].node \in Reach(successors, pending'[k].node)
  BY <1>3, <1>5
<1>8. \A k \in DOMAIN pending' :
        /\ pending'[k].rest \subseteq successors[pending'[k].node]
        /\ successors[pending'[k].node] \subseteq visited' \union pending'[k].rest
  BY <1>2, <1>3
<1>9. \A d \in Black' : successors[d] \subseteq visited'
  BY <1>2, <1>4 DEF PathInv
<1> QED
  BY <1>4, <1>6, <1>7, <1>8, <1>9 DEF PathInv

LEMMA StartAtKeepsSearch ==
  ASSUME TypeOK, SearchInv, NEW c \in Candidate, StartAt(c)
  PROVE  SearchInv'
<1>1. pending = <<>> /\ stage = "visit" /\ stage' = "visit" /\ c \in Candidate \ visited
      /\ Expand(<<>>, c) /\ UNCHANGED <<successors, finished>>
  BY DEF StartAt
<1> DEFINE stack == <<>>
<1>2. /\ Gray = {stack[k].node : k \in DOMAIN stack}
      /\ stack \in Seq(StackItem) /\ DOMAIN stack = {}
      /\ Expand(stack, c)
  BY <1>1 DEF Gray
<1> HIDE DEF stack
<1>3. PathInv' /\ Black' = Black
  BY <1>1, <1>2, ExpandKeepsPath DEF SearchInv
<1>4. Gray = {}
  BY <1>1 DEF Gray
<1> QED
  BY <1>1, <1>3, <1>4 DEF SearchInv, Complete

LEMMA DescendKeepsSearch ==
  ASSUME TypeOK, SearchInv, NEW c \in Candidate, Descend(c)
  PROVE  SearchInv'
<1> DEFINE n == Len(pending)
           top == [Top EXCEPT !.rest = @ \ {c}]
<1>1. /\ stage = "visit" /\ stage' = "visit" /\ pending # <<>> /\ c \in Top.rest
      /\ UNCHANGED <<successors, finished>>
  BY DEF Descend
<1>2. n \in DOMAIN pending /\ n \in Nat \ {0} /\ Top = pending[n] /\ Top \in StackItem
  BY <1>1, SequenceTypes DEF Top
<1>3. top \in StackItem /\ top.node = Top.node /\ top.rest = Top.rest \ {c}
  BY <1>2 DEF StackItem
<1>4. /\ Popped(c) \in Seq(StackItem) /\ DOMAIN Popped(c) = DOMAIN pending
      /\ Popped(c)[n] = top
      /\ \A k \in DOMAIN pending : k # n => Popped(c)[k] = pending[k]
  BY <1>2, <1>3, SequenceTypes DEF Popped, Below
<1>5. \A k \in DOMAIN pending : Popped(c)[k].node = pending[k].node
  BY <1>2, <1>3, <1>4
<1>6. Gray = {Popped(c)[k].node : k \in DOMAIN Popped(c)}
  BY <1>4, <1>5 DEF Gray
<1>7. \A k, l \in DOMAIN Popped(c) : k < l =>
        /\ Popped(c)[k].node # Popped(c)[l].node
        /\ Popped(c)[l].node \in Reach(successors, Popped(c)[k].node)
  BY <1>4, <1>5 DEF SearchInv, PathInv
<1>8. ASSUME NEW k \in DOMAIN Popped(c)
      PROVE  /\ c \in Reach(successors, Popped(c)[k].node)
             /\ Popped(c)[k].rest \subseteq successors[Popped(c)[k].node]
             /\ successors[Popped(c)[k].node] \subseteq visited \union {c} \union Popped(c)[k].rest
  <2>1. Top.rest \subseteq successors[Top.node] /\ Top.node \in Candidate
    BY <1>2, SequenceTypes DEF SearchInv, PathInv
  <2>2. c \in Reach(successors, Top.node)
    BY <1>1, <2>1, EdgeIsReach, SequenceTypes
  <2>3. Top.node \in Reach(successors, pending[k].node)
    <3>1. CASE k = n
      BY <1>2, <3>1, <2>1, ReachIsClosed, SequenceTypes
    <3>2. CASE k # n
      <4>1. k < n
        BY <1>2, <1>4, <3>2, SequenceTypes
      <4> QED
        BY <1>2, <1>4, <4>1 DEF SearchInv, PathInv
    <3> QED
      BY <3>1, <3>2
  <2>4. c \in Reach(successors, pending[k].node)
    BY <1>4, <2>2, <2>3, ReachIsTransitive, SequenceTypes
  <2>5. /\ Popped(c)[k].rest \subseteq pending[k].rest
        /\ pending[k].rest \subseteq {c} \union Popped(c)[k].rest
    BY <1>2, <1>3, <1>4
  <2>6. /\ pending[k].rest \subseteq successors[pending[k].node]
        /\ successors[pending[k].node] \subseteq visited \union pending[k].rest
    BY <1>4 DEF SearchInv, PathInv
  <2> QED
    BY <1>4, <1>5, <2>4, <2>5, <2>6
<1>9. CASE c \in visited /\ pending' = Popped(c) /\ UNCHANGED visited
  <2>1. Gray' = Gray /\ Black' = Black
    BY <1>1, <1>6, <1>9 DEF Gray, Black
  <2>2. PathInv'
    BY <1>1, <1>7, <1>8, <1>9, <2>1 DEF SearchInv, PathInv
  <2> QED
    BY <1>1, <2>1, <2>2 DEF SearchInv, Complete
<1>10. CASE c \notin visited /\ Expand(Popped(c), c)
  <2>1. PathInv' /\ Gray' = Gray \union {c} /\ Black' = Black
    BY <1>1, <1>4, <1>6, <1>7, <1>8, <1>10, ExpandKeepsPath DEF SearchInv
  <2> QED
    BY <1>1, <2>1 DEF SearchInv, Complete
<1> QED
  BY <1>9, <1>10 DEF Descend

LEMMA FinishKeepsPath ==
  ASSUME TypeOK, SearchInv, Finish
  PROVE  /\ PathInv' /\ Top.node \in Gray
         /\ Gray' = Gray \ {Top.node} /\ Black' = Black \union {Top.node}
         /\ \A g \in Gray' : Top.node \in Reach(successors, g)
         /\ finished' = Append(finished, Top.node)
<1> DEFINE n == Len(pending)
           m == Len(finished)
           t == Top.node
<1>1. /\ pending # <<>> /\ Top.rest = {} /\ finished' = Append(finished, t) /\ pending' = Below
      /\ UNCHANGED <<successors, visited>>
  BY DEF Finish, visiting
<1>2. n \in DOMAIN pending /\ n \in Nat \ {0} /\ Top = pending[n] /\ t \in Gray /\ t \in Candidate
  BY <1>1, SequenceTypes DEF Top, Gray
<1>3. DOMAIN pending' = 1..(n - 1) /\ \A k \in 1..(n - 1) : pending'[k] = pending[k]
  BY <1>1, <1>2, SequenceTypes DEF Below
<1>4. /\ DOMAIN finished' = 1..(m + 1) /\ finished'[m + 1] = t
      /\ \A i \in 1..m : finished'[i] = finished[i]
  BY <1>1, <1>2, SequenceTypes
<1>5. \A k \in 1..(n - 1) :
        /\ pending[k].node # t
        /\ t \in Reach(successors, pending[k].node)
  BY <1>2, SequenceTypes DEF SearchInv, PathInv
<1>6. Gray' = Gray \ {t}
  <2>1. Gray' = {pending[k].node : k \in 1..(n - 1)}
    BY <1>3 DEF Gray
  <2>2. Gray = {pending[k].node : k \in 1..n}
    BY SequenceTypes DEF Gray
  <2>3. 1..n = 1..(n - 1) \union {n}
    BY <1>2
  <2> QED
    BY <1>2, <1>5, <2>1, <2>2, <2>3
<1>7. Black' = Black \union {t}
  <2>1. Black' = {finished'[i] : i \in 1..(m + 1)}
    BY <1>4 DEF Black
  <2>2. Black = {finished[i] : i \in 1..m}
    BY SequenceTypes DEF Black
  <2>3. 1..(m + 1) = 1..m \union {m + 1}
    BY SequenceTypes
  <2> QED
    BY <1>4, <2>1, <2>2, <2>3
<1>8. t \notin Black
  BY <1>2 DEF SearchInv, PathInv
<1>9. PathInv'
  <2>1. visited' = Gray' \union Black' /\ Gray' \intersect Black' = {}
    BY <1>1, <1>2, <1>6, <1>7 DEF SearchInv, PathInv
  <2>2. \A i, j \in DOMAIN finished' : finished'[i] = finished'[j] => i = j
    <3>1. \A i \in 1..m : finished[i] # t
      BY <1>8, SequenceTypes DEF Black
    <3> QED
      BY <1>4, <3>1, SequenceTypes DEF SearchInv, PathInv
  <2>3. \A k, l \in DOMAIN pending' : k < l =>
          /\ pending'[k].node # pending'[l].node
          /\ pending'[l].node \in Reach(successors', pending'[k].node)
    BY <1>1, <1>2, <1>3, SequenceTypes DEF SearchInv, PathInv
  <2>4. \A c \in Black' : successors'[c] \subseteq visited'
    <3>1. successors[t] \subseteq visited
      BY <1>1, <1>2 DEF SearchInv, PathInv
    <3> QED
      BY <1>1, <1>7, <3>1 DEF SearchInv, PathInv
  <2>5. \A k \in DOMAIN pending' :
          /\ pending'[k].rest \subseteq successors'[pending'[k].node]
          /\ successors'[pending'[k].node] \subseteq visited' \union pending'[k].rest
    BY <1>1, <1>2, <1>3, SequenceTypes DEF SearchInv, PathInv
  <2> QED
    BY <2>1, <2>2, <2>3, <2>4, <2>5 DEF PathInv
<1>10. \A g \in Gray' : t \in Reach(successors, g)
  BY <1>3, <1>5 DEF Gray
<1> QED
  BY <1>1, <1>2, <1>6, <1>7, <1>9, <1>10

\* What finishes is complete, or of the component of a candidate still open.
LEMMA FinishedIsComplete ==
  ASSUME TypeOK, SearchInv, Finish, NEW t \in Candidate, t = Top.node
  PROVE  CompleteIn(successors, finished', t) \/ \E g \in Gray' : Mutual(successors, t, g)
<1> DEFINE Rest == Reach(successors, t)
<1>1. /\ PathInv' /\ t \in Gray
      /\ Gray' = Gray \ {t} /\ Black' = Black \union {t}
      /\ \A g \in Gray' : t \in Reach(successors, g)
      /\ finished' = Append(finished, t)
      /\ successors' = successors
  BY FinishKeepsPath, SequenceTypes DEF Finish
<1>2. CASE \E g \in Gray' : g \in Rest
  BY <1>1, <1>2 DEF Mutual
<1>3. CASE \A g \in Gray' : g \notin Rest
  <2>1. Rest \subseteq Candidate /\ t \in Rest /\ \A y \in Rest : successors[y] \subseteq Rest
    BY ReachIsClosed, SequenceTypes DEF Reach
  <2>2. \A y \in Black' : successors[y] \subseteq Black' \union Gray'
    BY <1>1 DEF PathInv
  <2>3. \A y \in Rest \intersect Black' : successors[y] \subseteq Rest \intersect Black'
    BY <1>3, <2>1, <2>2
  <2>4. Rest \intersect Black' \in SUBSET Candidate /\ t \in Rest \intersect Black'
    BY <1>1, <2>1
  <2>5. Rest \subseteq Black'
    BY <2>3, <2>4, ReachIsLeast, SequenceTypes
  <2>6. /\ DOMAIN finished' = 1..(Len(finished) + 1) /\ Len(finished) \in Nat
        /\ finished'[Len(finished) + 1] = t
    BY <1>1, SequenceTypes
  <2>7. \A y \in Rest : \E j \in 1..(Len(finished) + 1) : finished'[j] = y
    BY <2>5, <2>6 DEF Black
  <2>8. Mutual(successors, t, t)
    BY <1>1, MutualIsEquivalence, SequenceTypes
  <2>9. CompleteIn(successors, finished', t)
    BY <2>6, <2>7, <2>8 DEF CompleteIn
  <2> QED
    BY <2>9
<1> QED
  BY <1>2, <1>3

LEMMA CompleteIsKept ==
  ASSUME NEW g \in Graphs, NEW seq \in Seq(Candidate), NEW p \in Candidate,
         CompleteIn(g, seq, p), NEW c \in Candidate
  PROVE  CompleteIn(g, Append(seq, c), p)
<1> DEFINE longer == Append(seq, c)
<1>1. /\ DOMAIN seq = 1..Len(seq) /\ DOMAIN longer = 1..(Len(seq) + 1)
      /\ \A i \in 1..Len(seq) : longer[i] = seq[i]
      /\ Len(seq) \in Nat
  OBVIOUS
<1> HIDE DEF longer
<1>2. PICK last \in DOMAIN seq :
        /\ Mutual(g, seq[last], p)
        /\ \A y \in Reach(g, p) : \E j \in 1..last : seq[j] = y
  BY DEF CompleteIn
<1>3. \A y \in Reach(g, p) : \E j \in 1..last : longer[j] = y
  BY <1>1, <1>2
<1>4. last \in DOMAIN longer /\ Mutual(g, longer[last], p)
  BY <1>1, <1>2
<1>5. CompleteIn(g, longer, p)
  BY <1>3, <1>4 DEF CompleteIn
<1> QED
  BY <1>5 DEF longer

\* The members of a component are complete together.
LEMMA CompleteIsShared ==
  ASSUME NEW g \in Graphs, NEW seq \in Seq(Candidate),
         NEW p \in Candidate, NEW q \in Candidate, Mutual(g, p, q), CompleteIn(g, seq, p)
  PROVE  CompleteIn(g, seq, q)
<1>1. PICK last \in DOMAIN seq :
        /\ Mutual(g, seq[last], p)
        /\ \A y \in Reach(g, p) : \E j \in 1..last : seq[j] = y
  BY DEF CompleteIn
<1>2. Mutual(g, seq[last], q) /\ Reach(g, q) = Reach(g, p)
  BY <1>1, MutualIsEquivalence
<1> QED
  BY <1>1, <1>2 DEF CompleteIn

LEMMA FinishKeepsSearch ==
  ASSUME TypeOK, SearchInv, Finish
  PROVE  SearchInv'
<1> PICK t \in Candidate : t = Top.node
  BY FinishKeepsPath, SequenceTypes
<1>1. /\ PathInv' /\ t \in Gray
      /\ Gray' = Gray \ {t} /\ Black' = Black \union {t}
      /\ finished' = Append(finished, t) /\ finished \in Seq(Candidate)
      /\ successors' = successors /\ successors \in Graphs /\ stage' = "visit"
  BY FinishKeepsPath, SequenceTypes DEF Finish
<1>2. finished' \in Seq(Candidate)
  BY <1>1
<1>3. CompleteIn(successors, finished', t) \/ \E g \in Gray' : Mutual(successors, t, g)
  BY FinishedIsComplete
<1>4. ASSUME NEW p \in Black'
      PROVE  CompleteIn(successors, finished', p) \/ \E g \in Gray' : Mutual(successors, p, g)
  <2>1. p \in Candidate
    BY <1>1, SequenceTypes
  <2>2. CASE p = t
    BY <1>3, <2>2
  <2>3. CASE p \in Black /\ Complete(p)
    BY <1>1, <2>1, <2>3, CompleteIsKept DEF Complete
  <2>4. CASE p \in Black /\ \E g \in Gray : Mutual(successors, p, g)
    <3>1. PICK g \in Gray : Mutual(successors, p, g)
      BY <2>4
    <3>2. CASE g # t
      BY <1>1, <3>1, <3>2
    <3>3. CASE g = t
      <4>1. Mutual(successors, t, p)
        BY <1>1, <2>1, <3>1, <3>3, MutualIsEquivalence
      <4>2. CASE CompleteIn(successors, finished', t)
        BY <1>1, <1>2, <2>1, <4>1, <4>2, CompleteIsShared
      <4>3. CASE \E h \in Gray' : Mutual(successors, t, h)
        <5>1. \A h \in Gray' : h \in Candidate
          BY <1>1, SequenceTypes
        <5> QED
          BY <1>1, <2>1, <3>1, <3>3, <4>3, <5>1, MutualIsEquivalence
      <4> QED
        BY <1>3, <4>2, <4>3
    <3> QED
      BY <3>2, <3>3
  <2> QED
    BY <1>1, <2>2, <2>3, <2>4 DEF SearchInv
<1> QED
  BY <1>1, <1>4 DEF SearchInv, Complete

\* What the later searches leave alone.
LEMMA SearchFrame ==
  ASSUME SearchInv, UNCHANGED <<successors, visiting>>,
         stage' # "visit" => pending = <<>> /\ visited = Candidate
  PROVE  SearchInv'
<1>1. visited' = visited /\ finished' = finished /\ pending' = pending
  BY DEF visiting
<1>2. Gray' = Gray /\ Black' = Black
  BY <1>1 DEF Gray, Black
<1>3. PathInv'
  BY <1>1, <1>2 DEF SearchInv, PathInv
<1>4. \A p : Complete(p)' = Complete(p)
  BY <1>1 DEF Complete, CompleteIn
<1> QED
  BY <1>1, <1>2, <1>3, <1>4 DEF SearchInv
-----------------------------------------------------------------------------
(* The second search. *)

\* What the second search knows of the first one.
LEMMA SearchIsComplete ==
  ASSUME TypeOK, SearchInv, stage # "visit"
  PROVE  /\ \A p \in Candidate : Complete(p)
         /\ Black = Candidate
<1>1. Gray = {}
  BY DEF SearchInv, Gray
<1> QED
  BY <1>1 DEF SearchInv, PathInv

LEMMA DoneFacts ==
  ASSUME TypeOK, CollectInv
  PROVE  /\ Done \subseteq Candidate /\ Open \subseteq Candidate /\ assigned \subseteq Candidate
         /\ \A c \in Done, d \in Candidate : Mutual(successors, c, d) => d \in Done
<1>1. Done \subseteq Candidate /\ Open \subseteq Candidate /\ assigned \subseteq Candidate
  BY DEF TypeOK, Done, Open
<1>2. ASSUME NEW c \in Done, NEW d \in Candidate, Mutual(successors, c, d)
      PROVE  d \in Done
  <2>1. PICK nodes \in components : c \in nodes
    BY DEF Done
  <2>2. nodes = Component(successors, c)
    BY <2>1, ComponentsPartition DEF CollectInv, ComponentsAreStrong, TypeOK
  <2>3. d \in nodes
    BY <1>1, <1>2, <2>2, ComponentIsMutual DEF TypeOK
  <2> QED
    BY <2>1, <2>3 DEF Done
<1> QED
  BY <1>1, <1>2

LEMMA OpenComponentKeepsCollect ==
  ASSUME TypeOK, SearchInv, CollectInv, NEW c \in Candidate, OpenComponent(c)
  PROVE  CollectInv'
<1>1. /\ stage = "collect" /\ stage' = "collect" /\ frontier = {} /\ component = {}
      /\ LastUnassigned(c)
      /\ assigned' = assigned \union {c} /\ frontier' = {c}
      /\ UNCHANGED <<successors, component, components, cyclic, finished>>
  BY DEF OpenComponent, visiting
<1>2. Done' = Done /\ Open = {} /\ Open' = {c}
  BY <1>1 DEF Done, Open
<1>3. PICK r \in DOMAIN finished :
        /\ finished[r] = c /\ c \notin assigned
        /\ \A j \in DOMAIN finished : j > r => finished[j] \in assigned
  BY <1>1 DEF LastUnassigned
<1>4. assigned = Done
  BY <1>2 DEF CollectInv
<1>5. OpenInv'
  <2>1. Mutual(successors, finished[r], c)
    BY <1>3, MutualIsEquivalence, SequenceTypes
  <2> QED
    BY <1>1, <1>2, <1>3, <1>4, <2>1 DEF OpenInv
<1>6. assigned' = Done' \union Open' /\ Done' \intersect Open' = {}
  BY <1>1, <1>2, <1>3, <1>4
<1>7. \A d \in Done' : Predecessors(successors', d) \subseteq Done'
  BY <1>1, <1>2 DEF CollectInv
<1>8. \A d \in component' : Predecessors(successors', d) \subseteq assigned'
  BY <1>1
<1>9. ComponentsAreStrong'
  BY <1>1 DEF CollectInv, ComponentsAreStrong
<1> QED
  BY <1>1, <1>5, <1>6, <1>7, <1>8, <1>9 DEF CollectInv

\* A predecessor of the open component that is not done is of that component:
\* were it not, a member of its own component would have finished after the
\* candidate the open one started from, and both would be done.
LEMMA PredecessorIsMutual ==
  ASSUME TypeOK, SearchInv, CollectInv, stage = "collect",
         NEW r \in DOMAIN finished, \A j \in DOMAIN finished : j > r => finished[j] \in Done,
         NEW c \in Candidate, Mutual(successors, finished[r], c),
         NEW p \in Predecessors(successors, c), p \notin Done
  PROVE  Mutual(successors, finished[r], p)
<1>1. p \in Candidate /\ c \in Reach(successors, p)
  BY EdgeIsReach, SequenceTypes DEF Predecessors
<1>2. finished[r] \in Reach(successors, p)
  BY <1>1, ReachIsTransitive, SequenceTypes DEF Mutual
<1>3. PICK last \in DOMAIN finished :
        /\ Mutual(successors, finished[last], p)
        /\ \A y \in Reach(successors, p) : \E j \in 1..last : finished[j] = y
  BY <1>1, SearchIsComplete DEF Complete, CompleteIn
<1>4. PICK j \in 1..last : finished[j] = finished[r]
  BY <1>2, <1>3
<1>5. j = r
  BY <1>3, <1>4, SequenceTypes DEF SearchInv, PathInv
<1>6. last = r
  <2>1. finished[last] \notin Done
    BY <1>1, <1>3, DoneFacts
  <2> QED
    BY <1>3, <1>4, <1>5, <2>1, SequenceTypes
<1> QED
  BY <1>3, <1>6

LEMMA CollectKeepsCollect ==
  ASSUME TypeOK, SearchInv, CollectInv, NEW c \in Candidate, Collect(c)
  PROVE  CollectInv'
<1> DEFINE new == Predecessors(successors, c) \ assigned
<1>1. /\ stage = "collect" /\ stage' = "collect" /\ c \in frontier
      /\ assigned' = assigned \union new /\ frontier' = (frontier \ {c}) \union new
      /\ component' = component \union {c}
      /\ UNCHANGED <<successors, components, cyclic, finished>>
  BY DEF Collect, visiting
<1>2. Done' = Done /\ Open' = Open \union new /\ c \in Open
  BY <1>1 DEF Done, Open
<1>3. PICK r \in DOMAIN finished :
        /\ finished[r] \in Open
        /\ \A d \in Open : Mutual(successors, finished[r], d)
        /\ \A j \in DOMAIN finished : j > r => finished[j] \in Done
  BY <1>2 DEF CollectInv, OpenInv
<1>4. \A p \in new : Mutual(successors, finished[r], p)
  BY <1>1, <1>2, <1>3, PredecessorIsMutual DEF CollectInv
<1>5. OpenInv'
  <2>1. \A d \in Open' : Mutual(successors', finished'[r], d)
    BY <1>1, <1>2, <1>3, <1>4
  <2>2. r \in DOMAIN finished' /\ finished'[r] \in Open'
    BY <1>1, <1>2, <1>3
  <2>3. \A j \in DOMAIN finished' : j > r => finished'[j] \in Done'
    BY <1>1, <1>2, <1>3
  <2> QED
    BY <2>1, <2>2, <2>3 DEF OpenInv
<1>6. assigned' = Done' \union Open' /\ Done' \intersect Open' = {}
  BY <1>1, <1>2 DEF CollectInv
<1>7. \A d \in Done' : Predecessors(successors', d) \subseteq Done'
  BY <1>1, <1>2 DEF CollectInv
<1>8. \A d \in component' : Predecessors(successors', d) \subseteq assigned'
  BY <1>1 DEF CollectInv
<1>9. ComponentsAreStrong'
  BY <1>1 DEF CollectInv, ComponentsAreStrong
<1> QED
  BY <1>1, <1>5, <1>6, <1>7, <1>8, <1>9 DEF CollectInv

\* The component that is closed is whole.
LEMMA ClosedIsWhole ==
  ASSUME TypeOK, SearchInv, CollectInv, CloseComponent
  PROVE  component \in StrongComponents(successors)
<1>1. stage = "collect" /\ frontier = {} /\ component # {} /\ Open = component
  BY DEF CloseComponent, Open
<1>2. PICK r \in DOMAIN finished :
        /\ finished[r] \in component
        /\ \A d \in component : Mutual(successors, finished[r], d)
  BY <1>1 DEF CollectInv, OpenInv
<1> DEFINE root == finished[r]
<1>3. root \in Candidate
  BY SequenceTypes
<1>4. ASSUME NEW d \in Candidate, Mutual(successors, root, d)
      PROVE  d \in component
  <2> DEFINE S == Done \union component
  <2>1. S \in SUBSET Candidate /\ assigned = S
    BY <1>1, DoneFacts DEF CollectInv
  <2>2. \A y \in S : Predecessors(successors, y) \subseteq S
    BY <2>1 DEF CollectInv
  <2>3. root \in S /\ root \in Reach(successors, d)
    BY <1>2, <1>4 DEF Mutual
  <2>4. d \in S
    <3> HIDE DEF S, root
    <3> QED
      BY <2>1, <2>2, <2>3, ReachBackward, SequenceTypes
  <2>5. d \notin Done
    <3>1. Mutual(successors, d, root)
      BY <1>3, <1>4, MutualIsEquivalence, SequenceTypes
    <3>2. d \in Done => root \in Done
      BY <1>3, <3>1, DoneFacts
    <3> QED
      BY <1>1, <1>2, <3>2 DEF CollectInv
  <2> QED
    BY <2>4, <2>5
<1>5. component \subseteq Candidate
  BY DEF TypeOK
<1>6. component = Component(successors, root)
  BY <1>2, <1>3, <1>4, <1>5, ComponentIsMutual, SequenceTypes
<1> QED
  BY <1>3, <1>6 DEF StrongComponents

LEMMA CloseComponentKeepsCollect ==
  ASSUME TypeOK, SearchInv, CollectInv, CloseComponent
  PROVE  CollectInv'
<1>1. /\ stage = "collect" /\ stage' = "collect" /\ frontier = {} /\ frontier' = {}
      /\ component # {} /\ component' = {} /\ components' = components \union {component}
      /\ cyclic' = IF IsCycle(component) THEN cyclic \union {component} ELSE cyclic
      /\ UNCHANGED <<successors, assigned, finished>>
  BY DEF CloseComponent, visiting
<1>2. Done' = Done \union component /\ Open = component /\ Open' = {}
  BY <1>1 DEF Done, Open
<1>3. component \in StrongComponents(successors)
  BY ClosedIsWhole
<1>4. IsCycle(component) <=> component \subseteq OnCycle(successors)
  BY <1>3, CycleIsRecognised, SequenceTypes DEF IsCycle
<1>5. ComponentsAreStrong'
  <2>1. component \notin components
    BY <1>1, <1>2 DEF CollectInv, Done
  <2>2. cyclic \subseteq components
    BY DEF TypeOK
  <2>3. \A nodes \in components' : nodes \in cyclic' <=> nodes \subseteq OnCycle(successors')
    BY <1>1, <1>4, <2>1, <2>2 DEF CollectInv, ComponentsAreStrong
  <2> QED
    BY <1>1, <1>3, <2>3 DEF CollectInv, ComponentsAreStrong
<1>6. assigned' = Done' \union Open' /\ Done' \intersect Open' = {}
  BY <1>1, <1>2 DEF CollectInv
<1>7. \A d \in Done' : Predecessors(successors', d) \subseteq Done'
  BY <1>1, <1>2 DEF CollectInv
<1> QED
  BY <1>1, <1>2, <1>5, <1>6, <1>7 DEF CollectInv, OpenInv

LEMMA CollectFrame ==
  ASSUME CollectInv, UNCHANGED <<successors, collecting, finished>>,
         stage' = "visit" => stage = "visit",
         stage' \in {"sort", "answered"} => Open = {} /\ Done = Candidate,
         stage' = "sort" => cyclic = {}
  PROVE  CollectInv'
<1>1. /\ UNCHANGED <<successors, assigned, frontier, component, components, cyclic, finished>>
  BY DEF collecting
<1>2. Done' = Done /\ Open' = Open
  BY <1>1 DEF Done, Open
<1>3. OpenInv' /\ ComponentsAreStrong'
  BY <1>1, <1>2 DEF CollectInv, OpenInv, ComponentsAreStrong
<1> QED
  BY <1>1, <1>2, <1>3 DEF CollectInv

LEMMA AllCollectedIsDone ==
  ASSUME TypeOK, SearchInv, CollectInv, AllCollected
  PROVE  Open = {} /\ Done = Candidate
<1>1. Open = {} /\ stage = "collect" /\ \A i \in DOMAIN finished : finished[i] \in assigned
  BY DEF AllCollected, Open
<1>2. Candidate \subseteq assigned
  BY <1>1, SearchIsComplete DEF Black
<1> QED
  BY <1>1, <1>2, DoneFacts DEF CollectInv
-----------------------------------------------------------------------------
(* The topological sort. *)

LEMMA PredecessorsAreFinite ==
  ASSUME NEW g \in Graphs, NEW c \in Candidate, NEW S
  PROVE  /\ IsFiniteSet(Predecessors(g, c) \ S)
         /\ Cardinality(Predecessors(g, c) \ S) \in Nat
         /\ Cardinality(Predecessors(g, c) \ S) = 0 <=> Predecessors(g, c) \subseteq S
<1>1. Predecessors(g, c) \ S \in SUBSET Candidate
  BY DEF Predecessors
<1>2. IsFiniteSet(Predecessors(g, c) \ S)
  BY <1>1, CandidateAssumption, FS_Subset
<1> QED
  BY <1>2, FS_CardinalityType, FS_EmptySet

LEMMA OrderTypes ==
  ASSUME TypeOK
  PROVE  /\ order \in Seq(Candidate) /\ DOMAIN order = 1..Len(order) /\ Len(order) \in Nat
         /\ \A i \in DOMAIN order : order[i] \in Candidate
         /\ Ordered \subseteq Candidate
         /\ successors \in Graphs /\ indegree \in [Candidate -> Nat]
  BY DEF TypeOK, Ordered

\* Who is in the order has its predecessors in the order.
LEMMA OrderedIsClosed ==
  ASSUME TypeOK, SortInv, NEW d \in Ordered
  PROVE  Predecessors(successors, d) \subseteq Ordered
<1>1. PICK j \in DOMAIN order : order[j] = d
  BY DEF Ordered
<1>2. \A p \in Predecessors(successors, d) : \E i \in 1..(j - 1) : order[i] = p
  BY <1>1 DEF SortInv, OrderRespectsEdges
<1>3. 1..(j - 1) \subseteq DOMAIN order
  BY <1>1, OrderTypes
<1> QED
  BY <1>2, <1>3 DEF Ordered

LEMMA EmitKeepsSort ==
  ASSUME TypeOK, SortInv, NEW c \in Candidate, Emit(c)
  PROVE  SortInv' /\ indegree' \in [Candidate -> Nat]
<1> DEFINE n == Len(order)
<1>1. /\ stage = "sort" /\ stage' = "sort" /\ c \in ready /\ order' = Append(order, c)
      /\ indegree' = [d \in Candidate |->
                        IF d \in successors[c] THEN indegree[d] - 1 ELSE indegree[d]]
      /\ ready' = (ready \ {c}) \union {d \in successors[c] : indegree'[d] = 0}
      /\ UNCHANGED successors
  BY DEF Emit
<1>2. c \notin Ordered /\ indegree[c] = 0
  BY <1>1 DEF SortInv
<1>3. Predecessors(successors, c) \subseteq Ordered
  BY <1>2, PredecessorsAreFinite, OrderTypes DEF SortInv
<1>4. /\ DOMAIN order' = 1..(n + 1) /\ order'[n + 1] = c
      /\ \A i \in 1..n : order'[i] = order[i]
  BY <1>1, OrderTypes
<1>5. Ordered' = Ordered \union {c}
  <2>1. Ordered' = {order'[i] : i \in 1..(n + 1)}
    BY <1>4 DEF Ordered
  <2>2. Ordered = {order[i] : i \in 1..n}
    BY OrderTypes DEF Ordered
  <2>3. 1..(n + 1) = 1..n \union {n + 1}
    BY OrderTypes
  <2> QED
    BY <1>4, <2>1, <2>2, <2>3
<1>6. ASSUME NEW d \in Candidate
      PROVE  indegree'[d] = Cardinality(Predecessors(successors, d) \ Ordered')
  <2> DEFINE open == Predecessors(successors, d) \ Ordered
  <2>1. IsFiniteSet(open) /\ indegree[d] = Cardinality(open)
    BY PredecessorsAreFinite, OrderTypes DEF SortInv
  <2>2. Predecessors(successors, d) \ Ordered' = open \ {c}
    BY <1>5
  <2>3. c \in open <=> d \in successors[c]
    BY <1>2 DEF Predecessors
  <2> HIDE DEF open
  <2>4. Cardinality(open \ {c}) = IF c \in open THEN Cardinality(open) - 1 ELSE Cardinality(open)
    BY <2>1, FS_RemoveElement
  <2> QED
    BY <1>1, <2>1, <2>2, <2>3, <2>4
<1>7. indegree' \in [Candidate -> Nat]
  <2>1. \A d \in Candidate : \A S : Cardinality(Predecessors(successors, d) \ S) \in Nat
    BY PredecessorsAreFinite, OrderTypes
  <2>2. \A d \in Candidate : indegree'[d] \in Nat
    BY <1>6, <2>1
  <2> QED
    BY <1>1, <2>2
<1>8. OrderRespectsEdges'
  <2>1. ASSUME NEW j \in 1..n
        PROVE  /\ \A p \in Predecessors(successors, order[j]) : \E i \in 1..(j - 1) : order[i] = p
               /\ \A i \in 1..n : order[i] = order[j] => i = j
    BY <2>1, OrderTypes DEF SortInv, OrderRespectsEdges
  <2>2. \A j \in 1..n : 1..(j - 1) \subseteq 1..n
    BY OrderTypes
  <2>3. \A i \in 1..n : order[i] # c
    BY <1>2, OrderTypes DEF Ordered
  <2>4. ASSUME NEW j \in DOMAIN order'
        PROVE  /\ \A p \in Predecessors(successors', order'[j]) :
                    \E i \in 1..(j - 1) : order'[i] = p
               /\ \A i \in DOMAIN order' : order'[i] = order'[j] => i = j
    <3>1. CASE j = n + 1
      <4>1. \A p \in Predecessors(successors, c) : \E i \in 1..n : order'[i] = p
        BY <1>3, <1>4, OrderTypes DEF Ordered
      <4>2. (n + 1) - 1 = n
        BY OrderTypes
      <4> QED
        BY <1>1, <1>4, <2>3, <3>1, <4>1, <4>2, OrderTypes
    <3>2. CASE j \in 1..n
      <4>1. \A p \in Predecessors(successors, order[j]) : \E i \in 1..(j - 1) : order'[i] = p
        <5> SUFFICES ASSUME NEW p \in Predecessors(successors, order[j])
                     PROVE  \E i \in 1..(j - 1) : order'[i] = p
          OBVIOUS
        <5>1. PICK i \in 1..(j - 1) : order[i] = p
          BY <2>1, <3>2
        <5>2. i \in 1..n
          BY <2>2, <3>2, <5>1
        <5> QED
          BY <1>4, <5>1, <5>2
      <4>2. \A i \in DOMAIN order' : order'[i] = order'[j] => i = j
        BY <1>4, <2>1, <2>3, <3>2, OrderTypes
      <4> QED
        BY <1>1, <1>4, <3>2, <4>1, <4>2
    <3> QED
      BY <1>4, <2>4, <3>1, <3>2, OrderTypes
  <2> QED
    BY <2>4 DEF OrderRespectsEdges
<1>9. ready' = {d \in Candidate \ Ordered' : indegree'[d] = 0}
  <2>1. ready = {d \in Candidate \ Ordered : indegree[d] = 0}
    BY <1>1 DEF SortInv
  <2>2. c \notin successors[c]
    BY <1>2, <1>3 DEF Predecessors
  <2>3. \A d \in successors[c] : d \in Candidate /\ d \notin Ordered /\ d # c
    <3>1. ASSUME NEW d \in successors[c]
          PROVE  d \in Candidate /\ d \notin Ordered /\ d # c
      <4>1. d \in Candidate /\ c \in Predecessors(successors, d)
        BY OrderTypes DEF Graphs, Predecessors
      <4> QED
        BY <1>2, <2>2, <4>1, OrderedIsClosed
    <3> QED
      BY <3>1
  <2>4. ASSUME NEW d \in ready, d # c
        PROVE  d \in Candidate \ Ordered' /\ indegree'[d] = 0
    <3>1. Predecessors(successors, d) \subseteq Ordered /\ d \in Candidate \ Ordered
      BY <2>1, PredecessorsAreFinite, OrderTypes DEF SortInv
    <3>2. d \notin successors[c]
      BY <1>2, <3>1 DEF Predecessors
    <3> QED
      BY <1>1, <1>5, <2>1, <2>4, <3>1, <3>2
  <2>5. ASSUME NEW d \in Candidate \ Ordered', indegree'[d] = 0
        PROVE  d \in ready'
    BY <1>1, <1>5, <2>1, <2>5
  <2> QED
    BY <1>1, <1>5, <2>3, <2>4, <2>5
<1> QED
  BY <1>1, <1>6, <1>7, <1>8, <1>9 DEF SortInv

LEMMA PositionsAreFinite ==
  ASSUME NEW n \in Nat
  PROVE  IsFiniteSet(1..n) /\ Cardinality(1..n) = n
  BY FS_Interval

\* A set of positions without a largest one is empty: of the sets of those that
\* are not below one of its members, there would be no smallest.
LEMMA UpwardIsEmpty ==
  ASSUME NEW n \in Nat, NEW S \in SUBSET (1..n), \A i \in S : \E j \in S : j > i
  PROVE  S = {}
<1> DEFINE From(i) == {j \in S : j >= i}
           Ends == {From(i) : i \in S}
<1> SUFFICES ASSUME S # {} PROVE FALSE
  OBVIOUS
<1>1. IsFiniteSet(S)
  BY PositionsAreFinite, FS_Subset
<1>2. \A i \in S : From(i) \in FiniteSubsetsOf(S)
  BY <1>1, FS_Subset DEF FiniteSubsetsOf
<1>3. Ends \subseteq FiniteSubsetsOf(S) /\ Ends # {}
  BY <1>2
<1>4. IsWellFoundedOn(StrictSubsetOrdering(S), FiniteSubsetsOf(S))
  BY FS_StrictSubsetOrderingWellFounded
<1>5. \E T \in Ends : \A U \in Ends : ~(<<U, T>> \in StrictSubsetOrdering(S))
  <2> HIDE DEF Ends
  <2> QED
    BY <1>3, <1>4, WFMin
<1>6. PICK i \in S : \A k \in S : ~(<<From(k), From(i)>> \in StrictSubsetOrdering(S))
  BY <1>5
<1>7. PICK k \in S : k > i
  OBVIOUS
<1>8. From(k) \subseteq From(i) /\ i \in From(i) /\ i \notin From(k)
  <2>1. \A j \in S : j \in Nat
    OBVIOUS
  <2>2. i \in Nat /\ k \in Nat /\ ~(i >= k) /\ i >= i
    BY <1>7, <2>1
  <2>3. \A j \in S : j >= k => j >= i
    BY <1>7, <2>1, <2>2
  <2> QED
    BY <2>2, <2>3
<1>9. <<From(k), From(i)>> \in StrictSubsetOrdering(S)
  BY <1>8 DEF StrictSubsetOrdering
<1> QED
  BY <1>6, <1>9

\* When no candidate is ready, all have been ordered: the last to finish of
\* those that have not been would lead to, and be led to by, another of them.
LEMMA NothingReadyIsOrdered ==
  ASSUME TypeOK, SearchInv, CollectInv, SortInv, stage = "sort", ready = {}
  PROVE  Ordered = Candidate
<1> DEFINE Left == {i \in DOMAIN finished : finished[i] \notin Ordered}
<1>1. \A p \in Candidate : Complete(p)
  BY SearchIsComplete
<1>2. \A p \in Candidate : \E i \in DOMAIN finished : finished[i] = p
  BY SearchIsComplete DEF Black
<1>3. \A c \in Candidate : c \notin OnCycle(successors)
  <2> SUFFICES ASSUME NEW c \in OnCycle(successors) PROVE FALSE
    BY DEF OnCycle
  <2>1. c \in Candidate
    BY DEF OnCycle
  <2>2. PICK nodes \in components : c \in nodes
    BY <2>1 DEF CollectInv, Done
  <2>3. nodes = Component(successors, c)
    BY <2>2, ComponentsPartition, SequenceTypes DEF CollectInv, ComponentsAreStrong
  <2>4. nodes \subseteq OnCycle(successors)
    BY <2>1, <2>3, ComponentIsMutual, CycleIsShared, SequenceTypes
  <2> QED
    BY <2>2, <2>4 DEF CollectInv, ComponentsAreStrong
<1>4. ASSUME NEW u \in Candidate, u \notin Ordered
      PROVE  \E p \in Candidate : p \notin Ordered /\ u \in successors[p]
  <2>1. indegree[u] # 0
    BY <1>4 DEF SortInv
  <2>2. ~ (Predecessors(successors, u) \subseteq Ordered)
    BY <2>1, PredecessorsAreFinite, OrderTypes DEF SortInv
  <2> QED
    BY <2>2 DEF Predecessors
<1>5. ASSUME NEW i \in Left
      PROVE  \E j \in Left : j > i
  <2>1. finished[i] \in Candidate /\ finished[i] \notin Ordered
    BY SequenceTypes
  <2>2. PICK p \in Candidate : p \notin Ordered /\ finished[i] \in successors[p]
    BY <1>4, <2>1
  <2>3. PICK j \in DOMAIN finished : finished[j] = p
    BY <1>2
  <2>4. PICK last \in DOMAIN finished :
          /\ Mutual(successors, finished[last], p)
          /\ \A y \in Reach(successors, p) : \E k \in 1..last : finished[k] = y
    BY <1>1 DEF Complete, CompleteIn
  <2>5. finished[last] = p
    <3>1. finished[last] \in Candidate
      BY SequenceTypes
    <3>2. finished[last] # p => p \in Component(successors, p) /\ finished[last] \in Component(successors, p)
      BY <2>4, <3>1, ComponentIsMutual, MutualIsEquivalence, SequenceTypes
    <3>3. Component(successors, p) \in StrongComponents(successors)
      BY DEF StrongComponents
    <3>4. finished[last] # p => p \in OnCycle(successors)
      BY <3>2, <3>3, CycleIsRecognised, SequenceTypes
    <3> QED
      BY <1>3, <3>4
  <2>6. last = j
    BY <2>3, <2>5 DEF SearchInv, PathInv
  <2>7. finished[i] \in Reach(successors, p)
    BY <2>2, EdgeIsReach, SequenceTypes
  <2>8. PICK k \in 1..last : finished[k] = finished[i]
    BY <2>4, <2>7
  <2>9. k = i /\ i <= j
    BY <2>6, <2>8, SequenceTypes DEF SearchInv, PathInv
  <2>10. i # j
    <3>1. i = j => p \in successors[p]
      BY <2>2, <2>3
    <3>2. p \in successors[p] => p \in OnCycle(successors)
      BY CycleThroughSuccessor, ReachIsClosed, SequenceTypes
    <3> QED
      BY <1>3, <3>1, <3>2
  <2> QED
    BY <2>2, <2>3, <2>9, <2>10, SequenceTypes
<1>6. Left = {}
  BY <1>5, UpwardIsEmpty, SequenceTypes
<1> QED
  BY <1>2, <1>6, OrderTypes
-----------------------------------------------------------------------------
(* The invariant is inductive. *)

LEMMA InitIsInductive == Init => IInv
<1> SUFFICES ASSUME Init PROVE IInv
  OBVIOUS
<1>1. /\ stage = "visit" /\ visited = {} /\ pending = <<>> /\ finished = <<>>
      /\ assigned = {} /\ frontier = {} /\ component = {} /\ components = {} /\ cyclic = {}
      /\ ready = {} /\ order = <<>>
      /\ indegree = [c \in Candidate |-> Cardinality(Predecessors(successors, c))]
  BY DEF Init
<1>2. successors \in Graphs
  BY DEF Init, Graphs
<1>3. DOMAIN pending = {} /\ DOMAIN finished = {} /\ DOMAIN order = {}
  BY <1>1
<1>4. \A c \in Candidate :
        /\ indegree[c] \in Nat
        /\ indegree[c] = Cardinality(Predecessors(successors, c) \ {})
  <2>1. \A c \in Candidate : Predecessors(successors, c) \ {} = Predecessors(successors, c)
    OBVIOUS
  <2> QED
    BY <1>1, <1>2, <2>1, PredecessorsAreFinite
<1>5. TypeOK
  <2>1. indegree \in [Candidate -> Nat]
    BY <1>1, <1>4
  <2>2. finished \in Seq(visited) /\ pending \in Seq([node : visited, rest : SUBSET Candidate])
    BY <1>1
  <2> QED
    BY <1>1, <1>2, <2>1, <2>2 DEF TypeOK
<1>6. SearchInv
  BY <1>1, <1>3 DEF SearchInv, PathInv, Gray, Black
<1>7. CollectInv
  BY <1>1 DEF CollectInv, OpenInv, ComponentsAreStrong, Open, Done
<1>8. SortInv
  <2>1. Ordered = {}
    BY <1>3 DEF Ordered
  <2> QED
    BY <1>1, <1>3, <1>4, <2>1 DEF SortInv, OrderRespectsEdges
<1> QED
  BY <1>5, <1>6, <1>7, <1>8 DEF IInv

LEMMA VisitIsTyped ==
  ASSUME TypeOK, SearchInv, NEW c \in Candidate, StartAt(c) \/ Descend(c)
  PROVE  TypeOK'
<1>1. /\ UNCHANGED <<successors, stage, finished, collecting, sorting>>
  BY DEF StartAt, Descend
<1>2. TypeOK => /\ finished \in Seq(visited) /\ visited \subseteq Candidate
                /\ pending \in Seq([node : visited, rest : SUBSET Candidate])
  BY DEF TypeOK
<1>3. visited \subseteq visited' /\ visited' \subseteq Candidate
  BY <1>2 DEF StartAt, Descend, Expand
<1>4. pending' \in Seq([node : visited', rest : SUBSET Candidate])
  <2> DEFINE Item == [node : visited, rest : SUBSET Candidate]
             Later == [node : visited', rest : SUBSET Candidate]
             item == [node |-> c, rest |-> successors[c] \ (visited \union {c})]
  <2>1. \A e \in Item : e \in Later
    BY <1>3
  <2>2. pending \in Seq(Item) /\ successors[c] \subseteq Candidate
    BY <1>2, SequenceTypes DEF Graphs
  <2>3. \A stack \in Seq(Later) : Expand(stack, c) => pending' \in Seq(Later)
    <3> SUFFICES ASSUME NEW stack \in Seq(Later), Expand(stack, c)
                 PROVE  pending' \in Seq(Later)
      OBVIOUS
    <3>1. pending' = Append(stack, item) /\ c \in visited'
      BY DEF Expand
    <3>2. item \in Later
      BY <2>2, <3>1
    <3> HIDE DEF item, Later
    <3> QED
      BY <3>1, <3>2
  <2>4. CASE StartAt(c)
    <3>1. Expand(<<>>, c) /\ <<>> \in Seq(Later)
      BY <2>4 DEF StartAt
    <3> QED
      BY <2>3, <3>1
  <2>5. CASE Descend(c)
    <3>1. Top \in Item /\ pending # <<>> /\ Len(pending) \in Nat \ {0}
      <4>1. pending # <<>> /\ Len(pending) \in Nat \ {0} /\ Len(pending) \in DOMAIN pending
        BY <2>5, SequenceTypes DEF Descend
      <4> QED
        BY <2>2, <4>1, SequenceElements DEF Top
    <3>2. [Top EXCEPT !.rest = @ \ {c}] \in Item
      BY <3>1
    <3>3. Below \in Seq(Item)
      <4> HIDE DEF Item
      <4> QED
        BY <2>2, <3>1 DEF Below
    <3>4. Popped(c) \in Seq(Item)
      <4> HIDE DEF Item
      <4> QED
        BY <3>2, <3>3 DEF Popped
    <3>5. Popped(c) \in Seq(Later)
      <4> HIDE DEF Item, Later
      <4> QED
        BY <2>1, <3>4, SequenceElements, SequenceOfElements
    <3> QED
      BY <2>3, <2>5, <3>5 DEF Descend
  <2> QED
    BY <2>4, <2>5
<1>5. finished' \in Seq(visited')
  BY <1>1, <1>2, <1>3, SequenceElements, SequenceOfElements
<1> QED
  BY <1>1, <1>3, <1>4, <1>5 DEF TypeOK, collecting, sorting

LEMMA FinishIsTyped ==
  ASSUME TypeOK, SearchInv, Finish
  PROVE  TypeOK'
<1>1. /\ UNCHANGED <<successors, stage, visited, collecting, sorting>>
      /\ finished' = Append(finished, Top.node) /\ pending' = Below /\ pending # <<>>
  BY DEF Finish
<1>2. finished' \in Seq(visited)
  <2>1. Top.node \in visited /\ finished \in Seq(visited)
    BY FinishKeepsPath, SequenceTypes DEF TypeOK
  <2> QED
    BY <1>1, <2>1
<1>3. pending' \in Seq([node : visited, rest : SUBSET Candidate])
  <2> DEFINE Item == [node : visited, rest : SUBSET Candidate]
  <2>1. pending \in Seq(Item) /\ Len(pending) \in Nat \ {0}
    BY <1>1, SequenceTypes DEF TypeOK
  <2> HIDE DEF Item
  <2>2. Below \in Seq(Item)
    BY <2>1 DEF Below
  <2> QED
    BY <1>1, <2>2 DEF Item
<1> QED
  BY <1>1, <1>2, <1>3 DEF TypeOK, collecting, sorting

LEMMA SortFrame ==
  ASSUME SortInv, UNCHANGED <<successors, indegree, order, cyclic>>,
         stage' \in {"visit", "collect"} => stage \in {"visit", "collect"},
         stage' = "sort" => ready' = {c \in Candidate \ Ordered : indegree[c] = 0},
         stage' = "answered" => IF cyclic = {} THEN Ordered = Candidate ELSE order = <<>>
  PROVE  SortInv'
<1>1. Ordered' = Ordered
  BY DEF Ordered
<1> QED
  BY <1>1 DEF SortInv, OrderRespectsEdges

LEMMA StepIsInductive ==
  ASSUME IInv, Next
  PROVE  IInv'
<1> USE DEF IInv
<1>1. ASSUME NEW c \in Candidate, StartAt(c) \/ Descend(c)
      PROVE  IInv'
  <2>1. /\ stage = "visit" /\ stage' = stage
        /\ UNCHANGED <<successors, collecting, sorting>>
    BY <1>1 DEF StartAt, Descend
  <2>2. TypeOK' /\ SearchInv'
    BY <1>1, VisitIsTyped, StartAtKeepsSearch, DescendKeepsSearch
  <2>3. CollectInv'
    <3>1. finished' = finished
      BY <1>1 DEF StartAt, Descend
    <3> QED
      BY <2>1, <3>1, CollectFrame
  <2>4. SortInv'
    BY <2>1, SortFrame DEF sorting, collecting
  <2> QED
    BY <2>2, <2>3, <2>4
<1>2. ASSUME Finish
      PROVE  IInv'
  <2>1. /\ stage = "visit" /\ stage' = stage
        /\ UNCHANGED <<successors, collecting, sorting>>
    BY <1>2 DEF Finish
  <2>2. TypeOK' /\ SearchInv'
    BY <1>2, FinishIsTyped, FinishKeepsSearch
  <2>3. CollectInv'
    <3>1. /\ assigned = {} /\ components = {} /\ cyclic = {} /\ component = {} /\ frontier = {}
      BY <2>1 DEF CollectInv, TypeOK
    <3>2. /\ assigned' = {} /\ components' = {} /\ cyclic' = {} /\ component' = {} /\ frontier' = {}
      BY <2>1, <3>1 DEF collecting
    <3> QED
      BY <2>1, <3>2 DEF CollectInv, OpenInv, ComponentsAreStrong, Open, Done
  <2>4. SortInv'
    BY <2>1, SortFrame DEF sorting, collecting
  <2> QED
    BY <2>2, <2>3, <2>4
<1>3. ASSUME AllVisited
      PROVE  IInv'
  <2>1. /\ stage = "visit" /\ stage' = "collect" /\ pending = <<>> /\ visited = Candidate
        /\ UNCHANGED <<successors, visiting, collecting, sorting>>
    BY <1>3 DEF AllVisited
  <2>2. TypeOK'
    BY <2>1 DEF TypeOK, visiting, collecting, sorting
  <2>3. SearchInv'
    BY <2>1, SearchFrame
  <2>4. CollectInv'
    BY <2>1, CollectFrame DEF visiting
  <2>5. SortInv'
    BY <2>1, SortFrame DEF sorting, collecting
  <2> QED
    BY <2>2, <2>3, <2>4, <2>5
<1>4. ASSUME NEW c \in Candidate, OpenComponent(c) \/ Collect(c)
      PROVE  IInv'
  <2>1. /\ stage = "collect" /\ stage' = stage
        /\ UNCHANGED <<successors, components, cyclic, visiting, sorting>>
    BY <1>4 DEF OpenComponent, Collect
  <2>2. TypeOK'
    <3>1. /\ assigned \subseteq assigned' /\ assigned' \subseteq Candidate
          /\ frontier' \subseteq assigned' /\ component' \subseteq assigned'
      BY <1>4 DEF OpenComponent, Collect, TypeOK, Predecessors
    <3> QED
      BY <2>1, <3>1 DEF TypeOK, visiting, sorting
  <2>3. SearchInv'
    BY <2>1, SearchFrame DEF SearchInv
  <2>4. CollectInv'
    BY <1>4, OpenComponentKeepsCollect, CollectKeepsCollect
  <2>5. SortInv'
    BY <2>1, SortFrame DEF sorting
  <2> QED
    BY <2>2, <2>3, <2>4, <2>5
<1>5. ASSUME CloseComponent
      PROVE  IInv'
  <2>1. /\ stage = "collect" /\ stage' = stage /\ component' = {}
        /\ components' = components \union {component}
        /\ cyclic' \in {cyclic, cyclic \union {component}}
        /\ UNCHANGED <<successors, assigned, frontier, visiting, sorting>>
    BY <1>5 DEF CloseComponent
  <2>2. TypeOK'
    BY <2>1 DEF TypeOK, visiting, sorting
  <2>3. SearchInv'
    BY <2>1, SearchFrame DEF SearchInv
  <2>4. CollectInv'
    BY <1>5, CloseComponentKeepsCollect
  <2>5. SortInv'
    <3>1. Ordered' = Ordered /\ UNCHANGED <<successors, indegree, order>>
      BY <2>1 DEF Ordered, sorting
    <3> QED
      BY <2>1, <3>1 DEF SortInv, OrderRespectsEdges
  <2> QED
    BY <2>2, <2>3, <2>4, <2>5
<1>6. ASSUME AnswerCyclic
      PROVE  IInv'
  <2>1. /\ stage = "collect" /\ stage' = "answered" /\ cyclic # {} /\ AllCollected
        /\ UNCHANGED <<successors, visiting, collecting, sorting>>
    BY <1>6 DEF AnswerCyclic, AllCollected
  <2>2. TypeOK'
    BY <2>1 DEF TypeOK, visiting, collecting, sorting
  <2>3. SearchInv'
    BY <2>1, SearchFrame DEF SearchInv
  <2>4. CollectInv'
    BY <2>1, CollectFrame, AllCollectedIsDone DEF visiting
  <2>5. SortInv'
    <3>1. order = <<>>
      BY <2>1 DEF SortInv
    <3> QED
      BY <2>1, <3>1, SortFrame DEF sorting, collecting
  <2> QED
    BY <2>2, <2>3, <2>4, <2>5
<1>7. ASSUME StartSort
      PROVE  IInv'
  <2>1. /\ stage = "collect" /\ stage' = "sort" /\ cyclic = {} /\ AllCollected
        /\ ready' = {c \in Candidate : indegree[c] = 0}
        /\ UNCHANGED <<successors, visiting, collecting, indegree, order>>
    BY <1>7 DEF StartSort, AllCollected
  <2>2. TypeOK'
    BY <2>1 DEF TypeOK, visiting, collecting
  <2>3. SearchInv'
    BY <2>1, SearchFrame DEF SearchInv
  <2>4. CollectInv'
    BY <2>1, CollectFrame, AllCollectedIsDone DEF visiting
  <2>5. SortInv'
    <3>1. Ordered = {}
      BY <2>1 DEF SortInv, Ordered
    <3> QED
      BY <2>1, <3>1, SortFrame DEF collecting
  <2> QED
    BY <2>2, <2>3, <2>4, <2>5
<1>8. ASSUME NEW c \in Candidate, Emit(c)
      PROVE  IInv'
  <2>1. /\ stage = "sort" /\ stage' = stage /\ order' = Append(order, c)
        /\ ready' = (ready \ {c}) \union {d \in successors[c] : indegree'[d] = 0}
        /\ UNCHANGED <<successors, visiting, collecting>>
    BY <1>8 DEF Emit
  <2>2. SortInv' /\ indegree' \in [Candidate -> Nat]
    BY <1>8, EmitKeepsSort
  <2>3. TypeOK'
    <3>1. order' \in Seq(Candidate)
      BY <2>1, OrderTypes
    <3>2. ready' \subseteq Candidate
      BY <2>1 DEF TypeOK, Graphs
    <3> QED
      BY <2>1, <2>2, <3>1, <3>2 DEF TypeOK, visiting, collecting
  <2>4. SearchInv'
    BY <2>1, SearchFrame DEF SearchInv
  <2>5. CollectInv'
    BY <2>1, CollectFrame DEF visiting, CollectInv
  <2> QED
    BY <2>2, <2>3, <2>4, <2>5
<1>9. ASSUME AnswerOrdered
      PROVE  IInv'
  <2>1. /\ stage = "sort" /\ stage' = "answered" /\ ready = {}
        /\ UNCHANGED <<successors, visiting, collecting, sorting>>
    BY <1>9 DEF AnswerOrdered
  <2>2. TypeOK'
    BY <2>1 DEF TypeOK, visiting, collecting, sorting
  <2>3. SearchInv'
    BY <2>1, SearchFrame DEF SearchInv
  <2>4. CollectInv'
    BY <2>1, CollectFrame DEF visiting, CollectInv
  <2>5. SortInv'
    <3>1. Ordered = Candidate /\ cyclic = {}
      BY <2>1, NothingReadyIsOrdered DEF CollectInv
    <3> QED
      BY <2>1, <3>1, SortFrame DEF sorting, collecting
  <2> QED
    BY <2>2, <2>3, <2>4, <2>5
<1> QED
  BY <1>1, <1>2, <1>3, <1>4, <1>5, <1>6, <1>7, <1>8, <1>9 DEF Next

LEMMA StutterIsInductive ==
  ASSUME IInv, UNCHANGED vars
  PROVE  IInv'
<1>1. UNCHANGED <<successors, visiting, collecting, sorting, stage>>
  BY DEF vars, visiting, collecting, sorting
<1>2. TypeOK'
  BY <1>1 DEF IInv, TypeOK, visiting, collecting, sorting
<1>3. SearchInv'
  BY <1>1, SearchFrame DEF IInv, SearchInv
<1>4. CollectInv'
  BY <1>1, CollectFrame DEF IInv, CollectInv, visiting
<1>5. SortInv'
  BY <1>1, SortFrame DEF IInv, SortInv, sorting, collecting
<1> QED
  BY <1>2, <1>3, <1>4, <1>5 DEF IInv

LEMMA NextIsInductive == IInv /\ [Next]_vars => IInv'
  BY StepIsInductive, StutterIsInductive

\* The three parts of the invariant hold in every state of every analysis.
THEOREM AlwaysInductive == Spec => []IInv
  BY InitIsInductive, NextIsInductive, PTL DEF Spec
-----------------------------------------------------------------------------
(* The properties. *)

LEMMA InductiveImpliesFinishesLast == IInv => ComponentFinishesLast
<1> SUFFICES ASSUME IInv, NEW c \in Candidate,
                    \A d \in Component(successors, c) : \E i \in DOMAIN finished : finished[i] = d
             PROVE  \E last \in DOMAIN finished :
                      /\ finished[last] \in Component(successors, c)
                      /\ \A d \in Descendants(successors, c) : \E j \in 1..last : finished[j] = d
  BY DEF ComponentFinishesLast
<1> USE DEF IInv
<1>1. \A d \in Component(successors, c) : d \in Black
  BY DEF Black
<1>2. /\ Component(successors, c) = {d \in Candidate : Mutual(successors, c, d)}
      /\ c \in Component(successors, c)
  BY ComponentIsMutual, MutualIsEquivalence, SequenceTypes
<1>3. Complete(c)
  <2>1. \A g \in Gray : g \in Candidate /\ g \notin Black
    BY SequenceTypes DEF SearchInv, PathInv
  <2> QED
    BY <1>1, <1>2, <2>1 DEF SearchInv
<1>4. PICK last \in DOMAIN finished :
        /\ Mutual(successors, finished[last], c)
        /\ \A y \in Reach(successors, c) : \E j \in 1..last : finished[j] = y
  BY <1>3 DEF Complete, CompleteIn
<1>5. finished[last] \in Component(successors, c)
  BY <1>2, <1>4, MutualIsEquivalence, SequenceTypes
<1> QED
  BY <1>4, <1>5 DEF Reach

\* For any finite set of candidates and any edges between them: the variables
\* keep their types.
THEOREM TypeCorrect == Spec => []TypeOK
  BY AlwaysInductive, PTL DEF IInv

\* For every graph: of a component that has finished and of the candidates it
\* leads to, a member of the component finished last.
THEOREM AlwaysComponentFinishesLast == Spec => []ComponentFinishesLast
  BY AlwaysInductive, InductiveImpliesFinishesLast, PTL

\* For every graph, what the second search of _analyze_lineage_graph closes is
\* a strongly connected component, called a cycle exactly when it is one.
THEOREM AlwaysComponentsAreStrong == Spec => []ComponentsAreStrong
<1>1. IInv => ComponentsAreStrong
  BY DEF IInv, CollectInv
<1> QED
  BY <1>1, AlwaysInductive, PTL

\* For every graph, no candidate enters the order twice or before one of its
\* predecessors.
THEOREM AlwaysOrderRespectsEdges == Spec => []OrderRespectsEdges
<1>1. IInv => OrderRespectsEdges
  BY DEF IInv, SortInv
<1> QED
  BY <1>1, AlwaysInductive, PTL

-----------------------------------------------------------------------------
(* The three searches implement the analysis in one step. *)

LEMMA AnalysisOperators ==
  /\ Analysis!Graphs = Graphs
  /\ \A g : Analysis!StrongComponents(g) = StrongComponents(g)
  /\ \A g : Analysis!OnCycle(g) = OnCycle(g)
  /\ \A g, seq : Analysis!IsTopological(g, seq) <=> IsTopological(g, seq)
<1>1. Analysis!Graphs = Graphs
  BY DEF Analysis!Graphs, Graphs
<1>2. \A g, c : Analysis!Descendants(g, c) = Descendants(g, c)
  BY DEF Analysis!Descendants, Descendants
<1>3. \A g, c : Analysis!Ancestors(g, c) = Ancestors(g, c)
  BY <1>2 DEF Analysis!Ancestors, Ancestors
<1>4. \A g, c : Analysis!Component(g, c) = Component(g, c)
  BY <1>2, <1>3 DEF Analysis!Component, Component
<1>5. \A g : Analysis!StrongComponents(g) = StrongComponents(g)
  BY <1>4 DEF Analysis!StrongComponents, StrongComponents
<1>6. \A g : Analysis!OnCycle(g) = OnCycle(g)
  BY <1>2 DEF Analysis!OnCycle, OnCycle
<1>7. \A g, seq : Analysis!IsTopological(g, seq) <=> IsTopological(g, seq)
  BY DEF Analysis!IsTopological, IsTopological
<1> QED
  BY <1>1, <1>5, <1>6, <1>7

LEMMA AllStrongComponents ==
  ASSUME IInv, Done = Candidate
  PROVE  /\ components = StrongComponents(successors)
         /\ cyclic = {} <=> OnCycle(successors) = {}
<1> USE DEF IInv
<1>1. components \subseteq StrongComponents(successors)
  BY DEF CollectInv, ComponentsAreStrong
<1>2. \A c \in Candidate : Component(successors, c) \in components
  <2> SUFFICES ASSUME NEW c \in Candidate PROVE Component(successors, c) \in components
    OBVIOUS
  <2>1. PICK nodes \in components : c \in nodes
    BY DEF Done
  <2> QED
    BY <1>1, <2>1, ComponentsPartition, SequenceTypes
<1>3. components = StrongComponents(successors)
  BY <1>1, <1>2 DEF StrongComponents
<1>4. ASSUME cyclic # {}
      PROVE  OnCycle(successors) # {}
  <2>1. PICK nodes \in cyclic : TRUE
    BY <1>4
  <2>2. nodes \in components /\ nodes \subseteq OnCycle(successors)
    BY <2>1 DEF TypeOK, CollectInv, ComponentsAreStrong
  <2> QED
    BY <1>1, <2>2, CycleIsRecognised, SequenceTypes
<1>5. ASSUME NEW c \in OnCycle(successors)
      PROVE  cyclic # {}
  <2>1. c \in Candidate
    BY DEF OnCycle
  <2>2. Component(successors, c) \subseteq OnCycle(successors)
    BY <2>1, ComponentIsMutual, CycleIsShared, SequenceTypes
  <2> QED
    BY <1>2, <2>1, <2>2 DEF CollectInv, ComponentsAreStrong
<1> QED
  BY <1>3, <1>4, <1>5

LEMMA OrderIsTopological ==
  ASSUME IInv, Ordered = Candidate
  PROVE  IsTopological(successors, order)
<1> DEFINE n == Len(order)
<1> USE DEF IInv
<1>1. order \in [1..n -> Candidate] /\ n \in Nat
  BY OrderTypes
<1>2. \A i, j \in 1..n : order[i] = order[j] => i = j
  BY OrderTypes DEF SortInv, OrderRespectsEdges
<1>3. \A c \in Candidate : \E i \in 1..n : order[i] = c
  BY OrderTypes DEF Ordered
<1>4. ASSUME NEW i \in 1..n, NEW j \in 1..n, order[j] \in successors[order[i]]
      PROVE  i < j
  <2>1. order[i] \in Predecessors(successors, order[j])
    BY <1>1, <1>4 DEF Predecessors
  <2>2. PICK k \in 1..(j - 1) : order[k] = order[i]
    BY <2>1, OrderTypes DEF SortInv, OrderRespectsEdges
  <2>3. k = i
    BY <1>1, <1>2, <2>2
  <2> QED
    BY <1>1, <2>2, <2>3
<1> QED
  BY <1>2, <1>3, <1>4, OrderTypes DEF IsTopological

LEMMA AnsweringAnswers ==
  ASSUME IInv, AnswerCyclic \/ AnswerOrdered
  PROVE  Analysis!Answer
<1> USE DEF IInv
<1>1. CASE AnswerCyclic
  <2>1. /\ stage = "collect" /\ stage' = "answered" /\ cyclic # {} /\ AllCollected
        /\ UNCHANGED <<successors, components, order>>
    BY <1>1 DEF AnswerCyclic, AllCollected, collecting, sorting
  <2>2. components = StrongComponents(successors) /\ OnCycle(successors) # {}
    BY <2>1, AllCollectedIsDone, AllStrongComponents
  <2>3. order = <<>>
    BY <2>1 DEF SortInv
  <2> QED
    BY <2>1, <2>2, <2>3, AnalysisOperators DEF Analysis!Answer
<1>2. CASE AnswerOrdered
  <2>1. /\ stage = "sort" /\ stage' = "answered" /\ ready = {}
        /\ UNCHANGED <<successors, components, order>>
    BY <1>2 DEF AnswerOrdered, collecting, sorting
  <2>2. components = StrongComponents(successors) /\ OnCycle(successors) = {}
    BY <2>1, AllStrongComponents DEF CollectInv
  <2>3. IsTopological(successors, order)
    BY <2>1, NothingReadyIsOrdered, OrderIsTopological
  <2> QED
    BY <2>1, <2>2, <2>3, AnalysisOperators DEF Analysis!Answer
<1> QED
  BY <1>1, <1>2

\* For every graph, the analysis answers once, with all the components of the
\* graph and with a topological order exactly when it has no cycle.
THEOREM Implements == Spec => ImplementsAnalysis
<1>1. Init => Analysis!Asked
  BY InitIsInductive, AnalysisOperators DEF Init, IInv, TypeOK, Analysis!Asked
<1>2. IInv /\ [Next]_vars => [Analysis!Answer]_(Analysis!avars)
  <2> SUFFICES ASSUME IInv, [Next]_vars
               PROVE  Analysis!Answer \/ UNCHANGED Analysis!avars
    OBVIOUS
  <2>1. CASE AnswerCyclic \/ AnswerOrdered
    BY <2>1, AnsweringAnswers
  <2>2. ASSUME stage # "answered", stage' # "answered", successors' = successors
        PROVE  UNCHANGED Analysis!avars
    BY <2>2 DEF Analysis!avars
  <2>3. ASSUME NEW c \in Candidate,
               StartAt(c) \/ Descend(c) \/ OpenComponent(c) \/ Collect(c) \/ Emit(c)
        PROVE  UNCHANGED Analysis!avars
    BY <2>2, <2>3 DEF StartAt, Descend, OpenComponent, Collect, Emit
  <2>4. CASE Finish \/ AllVisited \/ CloseComponent \/ StartSort
    BY <2>2, <2>4 DEF Finish, AllVisited, CloseComponent, StartSort, AllCollected
  <2>5. CASE UNCHANGED vars
    BY <2>5 DEF vars, Analysis!avars
  <2> QED
    BY <2>1, <2>3, <2>4, <2>5 DEF Next
<1>3. Spec => Analysis!Spec
  BY <1>1, <1>2, AlwaysInductive, PTL DEF Spec, Analysis!Spec
<1> QED
  BY <1>3 DEF ImplementsAnalysis
=============================================================================
