---------------------------- MODULE LineageGraph ----------------------------
(***************************************************************************)
(* The analysis of a lineage graph (reconcile/rules.py,                    *)
(* _analyze_lineage_graph): a depth-first search with an explicit stack    *)
(* that records the order in which candidates finish, a second search      *)
(* against the edges, in reverse finishing order, that collects the        *)
(* strongly connected components, and, when none of them is a cycle, a     *)
(* topological sort by indegree.                                           *)
(*                                                                         *)
(* The adjacency tuples are made from Python sets of strings, whose        *)
(* iteration order changes from one process to the next, so every order in *)
(* which a candidate's successors may be taken is a behaviour here.  An    *)
(* entry of the stack is a candidate being expanded with those of its      *)
(* pushed successors that have not been popped; the (candidate, True) item *)
(* of the code is the entry with none left.                                *)
(***************************************************************************)
EXTENDS CandidateGraph

CONSTANT Edge  \* the edges a graph may have

ASSUME EdgeAssumption == Edge \subseteq Candidate \X Candidate
ASSUME CandidateAssumption == IsFiniteSet(Candidate)

VARIABLES
  successors,  \* the graph, never changed
  stage,       \* "visit", "collect", "sort" or "answered"
  visited,     \* candidates the first search has reached
  pending,     \* its stack
  finished,    \* candidates in the order they finished
  assigned,    \* candidates that have a component, or are about to
  frontier,    \* candidates of the open component not yet expanded
  component,   \* the open component
  components,  \* the closed components
  cyclic,      \* those of them that are cycles
  indegree,    \* predecessors not yet in the order
  ready,       \* candidates that may come next in the order
  order        \* the topological order so far

vars == <<successors, stage, visited, pending, finished, assigned, frontier,
          component, components, cyclic, indegree, ready, order>>
visiting == <<visited, pending, finished>>
collecting == <<assigned, frontier, component, components, cyclic>>
sorting == <<indegree, ready, order>>

Init ==
  /\ \E edges \in SUBSET Edge :
       successors = [c \in Candidate |-> {d \in Candidate : <<c, d>> \in edges}]
  /\ stage = "visit"
  /\ visited = {} /\ pending = <<>> /\ finished = <<>>
  /\ assigned = {} /\ frontier = {} /\ component = {}
  /\ components = {} /\ cyclic = {}
  /\ indegree = [c \in Candidate |-> Cardinality(Predecessors(successors, c))]
  /\ ready = {} /\ order = <<>>

-----------------------------------------------------------------------------
(* The search along the edges. *)

Top == pending[Len(pending)]
Below == SubSeq(pending, 1, Len(pending) - 1)

\* Mark c and push those of its successors that are not marked.
Expand(stack, c) ==
  /\ visited' = visited \union {c}
  /\ pending' = Append(stack, [node |-> c, rest |-> successors[c] \ (visited \union {c})])

StartAt(c) ==
  /\ stage = "visit" /\ pending = <<>> /\ c \notin visited
  /\ Expand(pending, c)
  /\ UNCHANGED <<successors, stage, finished, collecting, sorting>>

Popped(c) == Append(Below, [Top EXCEPT !.rest = @ \ {c}])

Descend(c) ==
  /\ stage = "visit" /\ pending # <<>> /\ c \in Top.rest
  /\ \/ c \in visited /\ pending' = Popped(c) /\ UNCHANGED visited
     \/ c \notin visited /\ Expand(Popped(c), c)
  /\ UNCHANGED <<successors, stage, finished, collecting, sorting>>

\* Mutant: the candidates are recorded the other way round.
FinishFirst ==
  /\ stage = "visit" /\ pending # <<>> /\ Top.rest = {}
  /\ finished' = <<Top.node>> \o finished
  /\ pending' = Below
  /\ UNCHANGED <<successors, stage, visited, collecting, sorting>>

Finish ==
  /\ stage = "visit" /\ pending # <<>> /\ Top.rest = {}
  /\ finished' = Append(finished, Top.node)
  /\ pending' = Below
  /\ UNCHANGED <<successors, stage, visited, collecting, sorting>>

AllVisited ==
  /\ stage = "visit" /\ pending = <<>> /\ visited = Candidate
  /\ stage' = "collect"
  /\ UNCHANGED <<successors, visiting, collecting, sorting>>

-----------------------------------------------------------------------------
(* The search against the edges. *)

\* The next start of the loop over reversed(finished).
LastUnassigned(c) ==
  \E i \in DOMAIN finished :
    /\ finished[i] = c /\ c \notin assigned
    /\ \A j \in DOMAIN finished : j > i => finished[j] \in assigned

OpenComponent(c) ==
  /\ stage = "collect" /\ frontier = {} /\ component = {}
  /\ LastUnassigned(c)
  /\ assigned' = assigned \union {c}
  /\ frontier' = {c}
  /\ UNCHANGED <<successors, stage, component, components, cyclic, visiting, sorting>>

\* Mutant: candidates that have a component are expanded again.
CollectAgain(c) ==
  /\ stage = "collect" /\ c \in frontier
  /\ assigned' = assigned \union Predecessors(successors, c)
  /\ frontier' = (frontier \ {c}) \union Predecessors(successors, c)
  /\ component' = component \union {c}
  /\ UNCHANGED <<successors, stage, components, cyclic, visiting, sorting>>

Collect(c) ==
  /\ stage = "collect" /\ c \in frontier
  /\ LET new == Predecessors(successors, c) \ assigned
     IN  /\ assigned' = assigned \union new
         /\ frontier' = (frontier \ {c}) \union new
  /\ component' = component \union {c}
  /\ UNCHANGED <<successors, stage, components, cyclic, visiting, sorting>>

\* Mutant: a candidate that replaces itself is no cycle.
IsCycleOfTwo(nodes) == \E c, d \in nodes : c # d

IsCycle(nodes) == (\E c, d \in nodes : c # d) \/ (\E c \in nodes : c \in successors[c])

CloseComponent ==
  /\ stage = "collect" /\ frontier = {} /\ component # {}
  /\ components' = components \union {component}
  /\ cyclic' = IF IsCycle(component) THEN cyclic \union {component} ELSE cyclic
  /\ component' = {}
  /\ UNCHANGED <<successors, stage, assigned, frontier, visiting, sorting>>

AllCollected ==
  /\ stage = "collect" /\ frontier = {} /\ component = {}
  /\ \A i \in DOMAIN finished : finished[i] \in assigned

AnswerCyclic ==
  /\ AllCollected /\ cyclic # {}
  /\ stage' = "answered"
  /\ UNCHANGED <<successors, visiting, collecting, sorting>>

-----------------------------------------------------------------------------
(* The topological sort. *)

StartSort ==
  /\ AllCollected /\ cyclic = {}
  /\ stage' = "sort"
  /\ ready' = {c \in Candidate : indegree[c] = 0}
  /\ UNCHANGED <<successors, visiting, collecting, indegree, order>>

\* Mutant: an emitted candidate stays ready.
EmitAgain(c) ==
  /\ stage = "sort" /\ c \in ready
  /\ order' = Append(order, c)
  /\ indegree' = [d \in Candidate |-> IF d \in successors[c] THEN indegree[d] - 1 ELSE indegree[d]]
  /\ ready' = ready \union {d \in successors[c] : indegree'[d] = 0}
  /\ UNCHANGED <<successors, stage, visiting, collecting>>

Emit(c) ==
  /\ stage = "sort" /\ c \in ready
  /\ order' = Append(order, c)
  /\ indegree' = [d \in Candidate |-> IF d \in successors[c] THEN indegree[d] - 1 ELSE indegree[d]]
  /\ ready' = (ready \ {c}) \union {d \in successors[c] : indegree'[d] = 0}
  /\ UNCHANGED <<successors, stage, visiting, collecting>>

AnswerOrdered ==
  /\ stage = "sort" /\ ready = {}
  /\ stage' = "answered"
  /\ UNCHANGED <<successors, visiting, collecting, sorting>>

Next ==
  \/ \E c \in Candidate : StartAt(c) \/ Descend(c) \/ OpenComponent(c) \/ Collect(c) \/ Emit(c)
  \/ Finish \/ AllVisited \/ CloseComponent \/ AnswerCyclic \/ StartSort \/ AnswerOrdered

\* The analysis is one call: it runs on as long as it can.
Spec == Init /\ [][Next]_vars /\ WF_vars(Next)

-----------------------------------------------------------------------------
(* Properties. *)

\* The types of the variables; no candidate is finished, or ordered, that was not reached.
TypeOK ==
  /\ successors \in Graphs
  /\ stage \in {"visit", "collect", "sort", "answered"}
  /\ visited \subseteq Candidate
  /\ pending \in Seq([node : visited, rest : SUBSET Candidate])
  /\ finished \in Seq(visited)
  /\ assigned \subseteq Candidate /\ frontier \subseteq assigned /\ component \subseteq assigned
  /\ components \subseteq SUBSET assigned /\ cyclic \subseteq components
  /\ indegree \in [Candidate -> Nat]
  /\ ready \subseteq Candidate /\ order \in Seq(Candidate)

\* The first search leaves a component last of all it leads to: of a component
\* that has finished and the candidates it leads to, a member of the component
\* is the last.  The second search is right only in the reverse of such an order.
ComponentFinishesLast ==
  \A c \in Candidate :
    LET nodes == Component(successors, c)
    IN  (\A d \in nodes : \E i \in DOMAIN finished : finished[i] = d) =>
          \E last \in DOMAIN finished :
            /\ finished[last] \in nodes
            /\ \A d \in Descendants(successors, c) : \E j \in 1..last : finished[j] = d

\* Every component that the second search closes is a strongly connected
\* component, whole, and it is reported as a cycle exactly when its members are on one.
ComponentsAreStrong ==
  /\ components \subseteq StrongComponents(successors)
  /\ \A nodes \in components : nodes \in cyclic <=> nodes \subseteq OnCycle(successors)

\* No candidate enters the order before each of its predecessors has, or twice:
\* the flags of a candidate are computed from those of its predecessors
\* (_semantic_ancestor_flags), which must be there.
OrderRespectsEdges ==
  \A j \in DOMAIN order :
    /\ \A p \in Predecessors(successors, order[j]) : \E i \in 1..(j - 1) : order[i] = p
    /\ \A i \in DOMAIN order : order[i] = order[j] => i = j

\* The three searches together implement the one-step analysis.
Analysis == INSTANCE LineageAnalysis WITH
  answered <- stage = "answered",
  components <- IF stage = "answered" THEN components ELSE {},
  order <- IF stage = "answered" THEN order ELSE <<>>
ImplementsAnalysis == Analysis!Spec

\* The analysis of every finite graph ends, cyclic ones included.
EveryAnalysisEnds == <>(stage = "answered")
=============================================================================
