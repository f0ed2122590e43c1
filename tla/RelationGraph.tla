--------------------------- MODULE RelationGraph ----------------------------
(***************************************************************************)
(* The relation graph of a result (reconcile/reconciler.py): the requests  *)
(* of the coordinator are merged into relations, every fact is given the   *)
(* indexes of its relations, and the graph passes a sequence of checks,    *)
(* the last of them a depth-first search for cycles of replacements with   *)
(* an explicit stack and the colours gray (being searched) and black.      *)
(*                                                                         *)
(* These are the steps that PredicateCoordinator takes as the one step     *)
(* Validate.  A relation is the request that was kept for it; its rule is  *)
(* what is written as its reason.  The checks of identities, provenance    *)
(* and activation witnesses concern data the model does not keep.          *)
(***************************************************************************)
EXTENDS PredicateCoordinator, Sequences

VARIABLES
  check,     \* the check that comes next, "none" before there are relations
  relations, \* the relations of the graph
  index,     \* what each fact records of its relations
  stack,     \* facts being searched, each with the children pushed for it
  gray,      \* facts entered and not left
  black      \* facts left

searching == <<stack, gray, black>>
graph == <<check, relations, index, searching>>
gvars == <<vars, graph>>

Checks == {"none", "identity", "conflicts", "indexes", "statuses", "cycles"}

GraphInit ==
  /\ Init
  /\ check = "none" /\ relations = {}
  /\ index = [f \in facts |-> [supersedes |-> {}, superseded_by |-> {}, conflicts |-> {}]]
  /\ stack = <<>> /\ gray = {} /\ black = {}

-----------------------------------------------------------------------------
(* From requests to relations. *)

Key(r) == <<r.type, r.from, r.to>>

\* What _request_priority compares: the method, then the reason.
RequestPriority(rule) ==
  CASE rule = "contradictory_supersedes" -> 1
    [] rule = "unresolved_current" -> 2
    [] OTHER -> 2 + Priority(rule)

Merged ==
  {r \in requests : \A q \in requests :
     Key(q) = Key(r) => RequestPriority(r.rule) =< RequestPriority(q.rule)}

Symmetric(edges) ==
  \A r \in edges : r.type = "CONFLICTS" => [r EXCEPT !.from = r.to, !.to = r.from] \in edges

DerivedIndexes(edges) ==
  [f \in facts |->
     [supersedes |-> {r.to : r \in {q \in edges : q.type = "SUPERSEDES" /\ q.from = f}},
      superseded_by |-> {r.from : r \in {q \in edges : q.type = "SUPERSEDES" /\ q.to = f}},
      conflicts |-> UNION {{r.from, r.to} \ {f} :
                             r \in {q \in edges : q.type = "CONFLICTS" /\ f \in {q.from, q.to}}}]]

Materialize ==
  /\ phase = "validate" /\ check = "none"
  /\ IF (\E r \in requests : r.from = r.to) \/ ~Symmetric(Merged)
       THEN phase' = "rejected_input" /\ UNCHANGED graph
       ELSE /\ relations' = Merged
            /\ index' = DerivedIndexes(Merged)
            /\ check' = "identity"
            /\ UNCHANGED <<phase, searching>>
  /\ UNCHANGED <<inputs, decision, requests, conflictIds>>

-----------------------------------------------------------------------------
(* The checks on sets of relations. *)

Replaced == {f \in facts : \E r \in relations : r.type = "SUPERSEDES" /\ r.to = f}
Replacing == {f \in facts : \E r \in relations : r.type = "SUPERSEDES" /\ r.from = f}
Opposed == {<<r.from, r.to>> : r \in {q \in relations : q.type = "CONFLICTS"}}

IdentitiesAreSound ==
  \A r, q \in relations : r.from # r.to /\ (Key(r) = Key(q) => r = q)

ConflictsAreSound ==
  /\ WithStatus("CONFLICTED") \intersect (Replaced \union Replacing) = {}
  /\ \A r \in relations : r.type = "CONFLICTS" =>
       /\ r.rule \in ConflictRules
       /\ \A f \in {r.from, r.to} : decision[f] = Decided("CONFLICTED", r.rule)
  /\ Symmetric(relations)
  /\ Opposed = AllPairs(WithStatus("CONFLICTED"))

StatusesAreSound ==
  /\ WithStatus("ACTIVE") \intersect Replaced = {}
  /\ WithStatus("SUPERSEDED") \subseteq Replaced
  /\ WithStatus("CONFLICTED") \subseteq {e[1] : e \in Opposed}
  /\ WithStatus("DEPRECATED") \intersect Replacing = {}

Passes(name) ==
  CASE name = "identity" -> IdentitiesAreSound
    [] name = "conflicts" -> ConflictsAreSound
    [] name = "indexes" -> index = DerivedIndexes(relations)
    [] name = "statuses" -> StatusesAreSound

After ==
  [identity |-> "conflicts", conflicts |-> "indexes", indexes |-> "statuses",
   statuses |-> "cycles"]

\* Each check runs only on a graph that passed those before it.
Check ==
  /\ phase = "validate" /\ check \in DOMAIN After
  /\ IF Passes(check)
       THEN check' = After[check] /\ UNCHANGED phase
       ELSE phase' = "rejected_invariant" /\ UNCHANGED check
  /\ UNCHANGED <<inputs, decision, requests, conflictIds, relations, index, searching>>

-----------------------------------------------------------------------------
(* The search for cycles (_validate_supersedes_acyclic). *)

Searching == phase = "validate" /\ check = "cycles"

Top == stack[Len(stack)]
Below == SubSeq(stack, 1, Len(stack) - 1)

Fail ==
  /\ phase' = "rejected_invariant"
  /\ UNCHANGED searching

\* Mutant: a child that is being searched is passed over like one that was left.
EnterOverGray(f, beneath) ==
  /\ gray' = gray \union {f}
  /\ stack' = Append(beneath, [node |-> f, rest |-> index[f].supersedes \ (black \union gray')])
  /\ UNCHANGED <<phase, black>>

\* Turn f gray and push its children, unless one of them is gray already.
Enter(f, beneath) ==
  IF index[f].supersedes \intersect (gray \union {f}) # {}
    THEN Fail
    ELSE /\ gray' = gray \union {f}
         /\ stack' = Append(beneath, [node |-> f, rest |-> index[f].supersedes \ black])
         /\ UNCHANGED <<phase, black>>

SearchFrom(f) ==
  /\ Searching /\ stack = <<>> /\ f \notin black
  /\ Enter(f, <<>>)
  /\ UNCHANGED <<inputs, decision, requests, conflictIds, check, relations, index>>

\* A child is popped.  It may have been left since it was pushed; that it may
\* be gray is tested for as well.
Pop(f) ==
  /\ Searching /\ stack # <<>> /\ f \in Top.rest
  /\ LET beneath == Append(Below, [Top EXCEPT !.rest = @ \ {f}])
     IN  IF f \in gray THEN Fail
         ELSE IF f \in black
           THEN stack' = beneath /\ UNCHANGED <<phase, gray, black>>
           ELSE Enter(f, beneath)
  /\ UNCHANGED <<inputs, decision, requests, conflictIds, check, relations, index>>

\* Mutant: a fact that is left stays gray.
LeaveGray ==
  /\ Searching /\ stack # <<>> /\ Top.rest = {}
  /\ stack' = Below
  /\ black' = black \union {Top.node}
  /\ UNCHANGED <<inputs, decision, requests, conflictIds, phase, check, relations, index, gray>>

\* Mutant: what is on the stack is taken for the fact.
LeaveEntry ==
  /\ Searching /\ stack # <<>> /\ Top.rest = {}
  /\ stack' = Below
  /\ gray' = gray \ {Top.node}
  /\ black' = black \union {Top}
  /\ UNCHANGED <<inputs, decision, requests, conflictIds, phase, check, relations, index>>

Leave ==
  /\ Searching /\ stack # <<>> /\ Top.rest = {}
  /\ stack' = Below
  /\ gray' = gray \ {Top.node}
  /\ black' = black \union {Top.node}
  /\ UNCHANGED <<inputs, decision, requests, conflictIds, phase, check, relations, index>>

\* Mutant: the search ends with its first tree.
PublishEarly ==
  /\ Searching /\ stack = <<>> /\ black # {}
  /\ phase' = "published"
  /\ UNCHANGED <<inputs, decision, requests, conflictIds, graph>>

Publish ==
  /\ Searching /\ stack = <<>> /\ black = facts
  /\ phase' = "published"
  /\ UNCHANGED <<inputs, decision, requests, conflictIds, graph>>

-----------------------------------------------------------------------------

Coordinate ==
  /\ \/ ApplyExplicit \/ ApplyWinnerRule \/ Finalize \/ RollBack \/ RaiseConflicts \/ Construct
     \/ Done
  /\ UNCHANGED graph

GraphNext ==
  \/ Coordinate \/ Materialize \/ Check \/ Leave \/ Publish
  \/ \E f \in facts : SearchFrom(f) \/ Pop(f)

GraphSpec == GraphInit /\ [][GraphNext]_gvars

-----------------------------------------------------------------------------
(* Properties. *)

\* The types of the variables.
GraphTypeOK ==
  /\ check \in Checks
  /\ relations \subseteq requests
  /\ index \in [facts -> [supersedes : SUBSET facts, superseded_by : SUBSET facts,
                         conflicts : SUBSET facts]]
  /\ stack \in Seq([node : facts, rest : SUBSET facts])
  /\ gray \subseteq facts /\ black \subseteq facts

\* The gray facts are the path from the root of the search to the fact on top,
\* each with all its children that are not black still to come or next on the
\* path, and what is black leads only to what is black.  So a gray child closes
\* a cycle, black children need no second search, and no gray fact is ever
\* popped: the second test for gray is dead code.
GrayIsAPath ==
  phase = "validate" =>
    /\ gray = {stack[i].node : i \in DOMAIN stack}
    /\ \A i \in DOMAIN stack :
         LET below == index[stack[i].node].supersedes \ (stack[i].rest \union black)
         IN  below = IF i < Len(stack) THEN {stack[i + 1].node} \ stack[i].rest ELSE {}
    /\ \A f \in black : index[f].supersedes \subseteq black
    /\ stack # <<>> => Top.rest \intersect gray = {}

\* Merging, indexing and the checks with the search are together the one step
\* of the coordinator that accepts a graph exactly when its replacements have
\* no cycle, its conflicts are complete and its statuses match.
ImplementsCoordinator == Spec
=============================================================================
