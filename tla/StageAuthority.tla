--------------------------- MODULE StageAuthority ---------------------------
(***************************************************************************)
(* The stage authority of the State Reconciler (reconcile/models.py,       *)
(* _build_stage_authority) and the pipeline of reconcile() that uses it.   *)
(*                                                                         *)
(* Every record of a reconciliation is issued an authorization when it is  *)
(* built, which says at which stage, for which invocation and from which   *)
(* parents; each later stage, and every validation of a result, asks       *)
(* whether the record is the very object it was issued for.  The authority *)
(* answers from two tables that refer to records weakly: a callback clears *)
(* the entries of a record that is gone, whose address may be given to     *)
(* another.  So a result is valid only as long as it keeps all the records *)
(* of its chain alive, while the tables must keep none.                    *)
(*                                                                         *)
(* A token, drawn at random by the code, is never drawn twice; here it is  *)
(* drawn from those of its address that nothing mentions any more.  A      *)
(* fingerprint is the token it signs, that of a cohort the invocation.     *)
(* The records are frozen, so what they say, and with it their payload     *)
(* fingerprints, are left out, except that of a graph.                     *)
(***************************************************************************)
EXTENDS Naturals

CONSTANTS
  Call,   \* the invocations of reconcile(), which here run one after another
  Facts,  \* the facts of each invocation, all of one subject and predicate
  Slot,   \* the addresses at which records are built
  Draws,  \* tells the tokens of one address apart
  None

ASSUME StageAssumption ==
  /\ Facts \in [Call -> (SUBSET Nat) \ {{}}]
  /\ None \notin Slot /\ None \notin Call

Fact == UNION {Facts[c] : c \in Call}

Token == Slot \X Draws  \* the member tokens

VARIABLES
  memory,        \* the record at each address
  members,       \* weak references, by token: the record that one was made for
  memberTokens,  \* the token of the weak reference kept for an address
  late,          \* tokens of the weak references whose callback is still to run
  phase,         \* where each invocation is
  todo,          \* facts it has still to take through the phase
  local          \* the records it refers to itself, and its caller after it

tables == <<members, memberTokens, late>>
vars == <<memory, tables, phase, todo, local>>

-----------------------------------------------------------------------------
(* Records and authorizations *)

\* The stages from which each stage is authorized.
Transitions ==
  {<<"none", "GROUPED">>, <<"GROUPED", "CLASSIFIED">>, <<"CLASSIFIED", "COORDINATED">>,
   <<"CLASSIFIED", "BASE_FACT">>, <<"COORDINATED", "BASE_FACT">>,
   <<"BASE_FACT", "MATERIALIZED_FACT">>, <<"BASE_FACT", "MATERIALIZED_RELATION">>,
   <<"MATERIALIZED_FACT", "MATERIALIZED_GRAPH">>,
   <<"MATERIALIZED_RELATION", "MATERIALIZED_GRAPH">>}
Stages == {e[2] : e \in Transitions}
Unbuilt == {"GROUPED", "CLASSIFIED", "COORDINATED"}

\* build stands for the token of a graph build, of which an invocation has one.
Authorization ==
  [stage : Stages, previous : Stages \union {"none"}, cohort : Call,
   build : Call \union {None}, parents : SUBSET Token, token : Token]

\* about: the facts a record is about; refs: the records it refers to;
\* copied: it is a copy of the record that the reference was made for.
Record ==
  [cohort : Call, about : SUBSET Fact, refs : SUBSET Slot, auth : Authorization,
   copied : BOOLEAN]

ASSUME RecordAssumption == None \notin Record

Running == {"group", "classify", "resolve", "coordinate", "base", "relate", "fact", "graph",
            "check"}
Ended == {"published", "dropped", "refused", "abandoned"}

Names == {"groups", "classified", "canonical", "rebuilt", "decisions", "bases", "relations",
          "facts", "graph"}
Nothing == [n \in Names |-> {}]

Live(a) == memory[a] # None
Auth(a) == memory[a].auth
Refs(a) == memory[a].refs
Tokens(S) == {Auth(a).token : a \in S}
OfStage(S, stage) == {a \in S : Auth(a).stage = stage}

Init ==
  /\ memory = [a \in Slot |-> None]
  /\ members = [t \in Token |-> None]
  /\ memberTokens = [a \in Slot |-> None]
  /\ late = {}
  /\ phase = [c \in Call |-> "group"]
  /\ todo = Facts
  /\ local = [c \in Call |-> Nothing]

-----------------------------------------------------------------------------
(* The tables: issue, and the callback discard *)

\* The allocator hands out a free address; TLC takes the lowest, so that addresses
\* are used again.
NewAddress == CHOOSE a \in Slot : memory[a] = None
Mentioned ==
  {t \in Token : \/ members[t] # None
                 \/ \E a \in Slot : Live(a) /\ t \in Auth(a).parents \union {Auth(a).token}}
NewToken == <<NewAddress, CHOOSE n \in Draws : <<NewAddress, n>> \notin Mentioned>>

\* Bound: nothing is built when the addresses, or the tokens of one, are used up.
Room ==
  /\ \E a \in Slot : memory[a] = None
  /\ \E n \in Draws : <<NewAddress, n>> \notin Mentioned

\* Mutant: the token of the member is signed as that of the graph build.
IssueConfused(c, about, refs, stage, previous, parents) ==
  /\ Room /\ <<previous, stage>> \in Transitions
  /\ memory' = [memory EXCEPT ![NewAddress] =
       [cohort |-> c, about |-> about, refs |-> refs, copied |-> FALSE,
        auth |-> [stage |-> stage, previous |-> previous, cohort |-> c,
                  build |-> IF stage \in Unbuilt THEN None ELSE NewToken,
                  parents |-> parents, token |-> NewToken]]]
  /\ members' = [members EXCEPT ![NewToken] = NewAddress]
  /\ memberTokens' = [memberTokens EXCEPT ![NewAddress] = NewToken]
  /\ UNCHANGED late

\* A new record, and its entries in the tables.  Every record is authorized
\* once, when it is built, so that the refusal to do so again is left out.
Issue(c, about, refs, stage, previous, parents) ==
  /\ Room /\ <<previous, stage>> \in Transitions
  /\ memory' = [memory EXCEPT ![NewAddress] =
       [cohort |-> c, about |-> about, refs |-> refs, copied |-> FALSE,
        auth |-> [stage |-> stage, previous |-> previous, cohort |-> c,
                  build |-> IF stage \in Unbuilt THEN None ELSE c,
                  parents |-> parents, token |-> NewToken]]]
  /\ members' = [members EXCEPT ![NewToken] = NewAddress]
  /\ memberTokens' = [memberTokens EXCEPT ![NewAddress] = NewToken]
  /\ UNCHANGED late

\* What an invocation refers to, and what the records refer to.
Referred ==
  (UNION {UNION {local[c][n] : n \in Names} : c \in Call})
    \union (UNION {Refs(a) : a \in {b \in Slot : Live(b)}})

\* References are counted and the records form no cycle, so that what an
\* invocation lets go of goes before it continues: in one order of the addresses,
\* as a bound.
Unreferred == {a \in Slot : Live(a)} \ Referred

\* Nothing refers to a record any more: it goes, and its weak reference stops
\* answering.  That the callback runs before the address is free is true of
\* CPython and promised by nobody: here it may be late, one at a time as a bound.
Collect ==
  /\ late = {}
  /\ Unreferred # {}
  /\ LET a == CHOOSE u \in Unreferred : TRUE
     IN  /\ memory' = [memory EXCEPT ![a] = None]
         /\ late' = IF memory[a].copied THEN {} ELSE {Auth(a).token}
  /\ UNCHANGED <<members, memberTokens, phase, todo, local>>

\* Mutant: the callback clears whatever is registered for the address.
DiscardAddress ==
  /\ \E t \in late :
       /\ members' = [u \in Token |-> IF members[u] = members[t] THEN None ELSE members[u]]
       /\ memberTokens' = [memberTokens EXCEPT ![members[t]] = None]
  /\ late' = {}
  /\ UNCHANGED <<memory, phase, todo, local>>

\* The callback discard, which clears what the tables hold for its reference.
Discard ==
  /\ \E t \in late :
       /\ members' = [members EXCEPT ![t] = None]
       /\ memberTokens' = [a \in Slot |-> IF memberTokens[a] = t THEN None ELSE memberTokens[a]]
  /\ late' = {}
  /\ UNCHANGED <<memory, phase, todo, local>>

-----------------------------------------------------------------------------
(* What is validated *)

\* The authorization says what is expected, and the weak reference of its
\* token answers with this very record.
Validates(a, stage, previous, build) ==
  /\ Live(a)
  /\ Auth(a).stage = stage /\ Auth(a).previous = previous /\ Auth(a).build = build
  /\ Auth(a).cohort = memory[a].cohort
  /\ members[Auth(a).token] = a /\ Auth(a).token \notin late

GroupValidates(g) == Validates(g, "GROUPED", "none", None)

\* A decision, with the group it retains.
DecisionValidates(d) ==
  /\ \/ Validates(d, "CLASSIFIED", "GROUPED", None)
     \/ Validates(d, "COORDINATED", "CLASSIFIED", None)
  /\ \A g \in Refs(d) : GroupValidates(g) /\ memory[g].cohort = memory[d].cohort

\* Mutant: the decision of a base fact is taken for a classified one.
BaseValidatesClassified(b, cohort, build) ==
  /\ Live(b)
  /\ \A d \in Refs(b) :
       /\ DecisionValidates(d) /\ memory[d].cohort = cohort
       /\ Validates(b, "BASE_FACT", "CLASSIFIED", build)
       /\ Auth(b).parents = {Auth(d).token}

\* A base fact, with the decision it was derived from.
BaseValidates(b, cohort, build) ==
  /\ Live(b)
  /\ \A d \in Refs(b) :
       /\ DecisionValidates(d) /\ memory[d].cohort = cohort
       /\ Validates(b, "BASE_FACT", Auth(d).stage, build)
       /\ Auth(b).parents = {Auth(d).token}

FactValidates(f, cohort, build) ==
  /\ Validates(f, "MATERIALIZED_FACT", "BASE_FACT", build) /\ memory[f].cohort = cohort
  /\ \A b \in Refs(f) :
       /\ BaseValidates(b, cohort, build) /\ memory[b].cohort = cohort
       /\ Auth(f).parents = {Auth(b).token}

\* The bases that the facts of a graph were made from.
Bases(g) == UNION {Refs(f) : f \in OfStage(Refs(g), "MATERIALIZED_FACT")}
Relations(g) == OfStage(Refs(g), "MATERIALIZED_RELATION")
LastStage(relations) ==
  IF relations = {} THEN "MATERIALIZED_FACT" ELSE "MATERIALIZED_RELATION"

RelationValidates(r, g) ==
  /\ Validates(r, "MATERIALIZED_RELATION", "BASE_FACT", Auth(g).build)
  /\ memory[r].cohort = memory[g].cohort
  /\ Auth(r).parents = Tokens({b \in Bases(g) : memory[b].about \subseteq memory[r].about})

\* The parents of a graph stand for its payload, the fingerprints of its members.
GraphValidates(g) ==
  /\ \A a \in Refs(g) : Live(a)
  /\ \A f \in OfStage(Refs(g), "MATERIALIZED_FACT") :
       FactValidates(f, memory[g].cohort, Auth(g).build)
  /\ \A r \in Relations(g) : RelationValidates(r, g)
  /\ Validates(g, "MATERIALIZED_GRAPH", LastStage(Relations(g)), Auth(g).build)
  /\ Auth(g).parents = Tokens(Refs(g))

\* A result: its graph, and the decisions it was made from.
ResultValidates(c) ==
  \A g \in local[c].graph :
    /\ Live(g) /\ GraphValidates(g)
    /\ \A d \in local[c].decisions : DecisionValidates(d)
    /\ UNION {Refs(b) : b \in Bases(g)} = local[c].decisions

-----------------------------------------------------------------------------
(* The pipeline *)

\* Facts are taken in one order, in the code that of their identities.
Turn(c) == CHOOSE f \in todo[c] : TRUE
Now(c, name) == {a \in local[c][name] : memory[a].about = {Turn(c)}}

\* This fact is through the phase; after the last one the next phase begins.
Advance(c, next) ==
  /\ todo' = [todo EXCEPT ![c] = IF @ = {Turn(c)} THEN Facts[c] ELSE @ \ {Turn(c)}]
  /\ phase' = [phase EXCEPT ![c] = IF todo[c] = {Turn(c)} THEN next ELSE @]

Keep(c, name, a) == local' = [local EXCEPT ![c][name] = @ \union {a}]

\* An exception leaves the invocation, and all it referred to is released.
Fail(c, end) ==
  /\ phase' = [phase EXCEPT ![c] = end]
  /\ local' = [local EXCEPT ![c] = Nothing]
  /\ UNCHANGED <<memory, tables, todo>>

\* An invocation continues when what was let go has gone.  One begins when no other
\* is under way; the result of an earlier one is held, or let go, meanwhile.
At(c, phases) ==
  /\ phase[c] \in phases /\ Unreferred = {}
  /\ \A k \in Call \ {c} : phase[k] \in Ended \/ local[k] = Nothing

Group(c) ==
  /\ At(c, {"group"})
  /\ Issue(c, {Turn(c)}, {}, "GROUPED", "none", {})
  /\ Keep(c, "groups", NewAddress)
  /\ Advance(c, "classify")

\* A caller of group_candidates goes on with a copy (copy.copy) of a group.
CopyGroup(c) ==
  /\ At(c, {"classify"}) /\ Room
  /\ \E g \in Now(c, "groups") :
       /\ ~memory[g].copied
       /\ memory' = [memory EXCEPT ![NewAddress] = [memory[g] EXCEPT !.copied = TRUE]]
       /\ local' = [local EXCEPT ![c].groups = (@ \ {g}) \union {NewAddress}]
  /\ UNCHANGED <<tables, phase, todo>>

Classify(c) ==
  /\ At(c, {"classify"})
  /\ \E g \in Now(c, "groups") :
       /\ GroupValidates(g)
       /\ Issue(c, {Turn(c)}, {g}, "CLASSIFIED", "GROUPED", Tokens({g}))
  /\ Keep(c, "classified", NewAddress)
  /\ Advance(c, "resolve")

\* Whenever a decision is validated, its group and then the decision are
\* built again from the candidates, and compared with it.
Revalidated(c) ==
  CASE phase[c] = "resolve" -> Now(c, "classified")
    [] phase[c] = "coordinate" -> Now(c, "canonical")
    [] phase[c] \in {"base", "check", "published"} -> local[c].decisions
    [] OTHER -> {}

RebuildGroup(c) ==
  /\ At(c, Running \union {"published"}) /\ local[c].rebuilt = {}
  /\ \E d \in Revalidated(c) :
       /\ DecisionValidates(d)
       /\ Issue(c, memory[d].about, {}, "GROUPED", "none", {})
  /\ Keep(c, "rebuilt", NewAddress)
  /\ UNCHANGED <<phase, todo>>

RebuildDecision(c) ==
  /\ At(c, Running \union {"published"})
  /\ \E g \in OfStage(local[c].rebuilt, "GROUPED") :
       Issue(c, memory[g].about, {g}, "CLASSIFIED", "GROUPED", Tokens({g}))
  /\ local' = [local EXCEPT ![c].rebuilt = {NewAddress}]
  /\ UNCHANGED <<phase, todo>>

Rebuilt(c) == OfStage(local[c].rebuilt, "CLASSIFIED")

\* What a validation built serves the comparison only, except in the coordinator.
DropRebuilt(c) ==
  /\ At(c, {"base", "check", "published"}) /\ Rebuilt(c) # {}
  /\ local' = [local EXCEPT ![c].rebuilt = {}]
  /\ UNCHANGED <<memory, tables, phase, todo>>

\* The coordinator works on the decisions as they were rebuilt.
Resolve(c) ==
  /\ At(c, {"resolve"}) /\ Rebuilt(c) # {}
  /\ local' = [local EXCEPT ![c].canonical = @ \union Rebuilt(c), ![c].rebuilt = {}]
  /\ Advance(c, "coordinate")
  /\ UNCHANGED <<memory, tables>>

\* The decisions the coordinator worked on are let go when it is through.
Decided(c, decision) ==
  local' = [local EXCEPT ![c].decisions = @ \union decision, ![c].rebuilt = {},
                         ![c].canonical = IF todo[c] = {Turn(c)} THEN {} ELSE @]

\* The coordinator leaves a decision as it is ...
Retain(c) ==
  /\ At(c, {"coordinate"}) /\ local[c].rebuilt = {}
  /\ Decided(c, Now(c, "canonical"))
  /\ Advance(c, "base")
  /\ UNCHANGED <<memory, tables>>

\* ... or replaces it, with the group of the decision rebuilt once more,
\* which is let go when the new one has been authorized from it.
Coordinate(c) ==
  /\ At(c, {"coordinate"})
  /\ \E p \in Rebuilt(c) :
       /\ DecisionValidates(p)
       /\ Issue(c, {Turn(c)}, Refs(p), "COORDINATED", "CLASSIFIED", Tokens({p}))
  /\ Decided(c, {NewAddress})
  /\ Advance(c, "base")

BuildBase(c) ==
  /\ At(c, {"base"}) /\ local[c].rebuilt = {}
  /\ \E d \in Now(c, "decisions") :
       /\ DecisionValidates(d)
       /\ Issue(c, {Turn(c)}, {d}, "BASE_FACT", Auth(d).stage, Tokens({d}))
  /\ Keep(c, "bases", NewAddress)
  /\ Advance(c, "relate")

\* A relation between two facts; of two with the same facts one stands for both.
Relate(c) ==
  /\ At(c, {"relate"})
  /\ \E f, g \in Facts[c] :
       /\ f < g
       /\ \A r \in local[c].relations : memory[r].about # {f, g}
       /\ Issue(c, {f, g}, {}, "MATERIALIZED_RELATION", "BASE_FACT",
                Tokens({b \in local[c].bases : memory[b].about \subseteq {f, g}}))
  /\ Keep(c, "relations", NewAddress)
  /\ UNCHANGED <<phase, todo>>

EndRelations(c) ==
  /\ At(c, {"relate"})
  /\ phase' = [phase EXCEPT ![c] = "fact"]
  /\ UNCHANGED <<memory, tables, todo, local>>

Materialize(c) ==
  /\ At(c, {"fact"})
  /\ \E b \in Now(c, "bases") :
       Issue(c, {Turn(c)}, {b}, "MATERIALIZED_FACT", "BASE_FACT", Tokens({b}))
  /\ Keep(c, "facts", NewAddress)
  /\ Advance(c, "graph")

BuildGraph(c) ==
  /\ At(c, {"graph"})
  /\ LET parts == local[c].facts \union local[c].relations
     IN  Issue(c, Facts[c], parts, "MATERIALIZED_GRAPH", LastStage(local[c].relations),
               Tokens(parts))
  /\ local' = [local EXCEPT ![c].graph = {NewAddress},
                             ![c].bases = {}, ![c].relations = {}, ![c].facts = {}]
  /\ phase' = [phase EXCEPT ![c] = "check"]
  /\ UNCHANGED todo

\* The result keeps the graph and its source decisions; all else is let go.
Publish(c) ==
  /\ At(c, {"check"}) /\ local[c].rebuilt = {} /\ ResultValidates(c)
  /\ phase' = [phase EXCEPT ![c] = "published"]
  /\ local' = [local EXCEPT ![c] =
       [Nothing EXCEPT !.graph = local[c].graph, !.decisions = local[c].decisions]]
  /\ UNCHANGED <<memory, tables, todo>>

\* A validation fails.
Refuse(c) ==
  /\ At(c, Running)
  /\ \/ phase[c] = "classify" /\ \E g \in Now(c, "groups") : ~GroupValidates(g)
     \/ /\ local[c].rebuilt = {}
        /\ \E d \in Revalidated(c) : ~DecisionValidates(d)
     \/ phase[c] = "coordinate" /\ \E p \in Rebuilt(c) : ~DecisionValidates(p)
     \/ phase[c] = "check" /\ ~ResultValidates(c)
  /\ Fail(c, "refused")

\* Any other exception, or the caller stops between two stages.
Abandon(c) == At(c, Running) /\ Fail(c, "abandoned")

\* The caller lets go of the result.
DropResult(c) == At(c, {"published"}) /\ Fail(c, "dropped")

\* The caller begins again.
Again(c) ==
  /\ At(c, Ended \ {"published"})
  /\ phase' = [phase EXCEPT ![c] = "group"]
  /\ todo' = [todo EXCEPT ![c] = Facts[c]]
  /\ UNCHANGED <<memory, tables, local>>

Next ==
  \/ \E c \in Call :
       \/ Group(c) \/ CopyGroup(c) \/ Classify(c) \/ RebuildGroup(c) \/ RebuildDecision(c)
       \/ DropRebuilt(c) \/ Resolve(c) \/ Retain(c) \/ Coordinate(c)
       \/ BuildBase(c) \/ Relate(c) \/ EndRelations(c) \/ Materialize(c) \/ BuildGraph(c)
       \/ Publish(c) \/ Refuse(c) \/ Abandon(c) \/ DropResult(c) \/ Again(c)
  \/ Collect \/ Discard

Spec == Init /\ [][Next]_vars

-----------------------------------------------------------------------------
(* Properties. *)

\* The types of the variables.
TypeOK ==
  /\ memory \in [Slot -> Record \union {None}]
  /\ members \in [Token -> Slot \union {None}]
  /\ memberTokens \in [Slot -> Token \union {None}]
  /\ late \subseteq Token
  /\ phase \in [Call -> Running \union Ended]
  /\ todo \in [Call -> SUBSET Fact]
  /\ local \in [Call -> [Names -> SUBSET Slot]]

\* The tables remember every record that is alive, under its own token and
\* address, and of all others nothing once their callback has run: whatever
\* dies, in which order, and is built anew at the same address.  So a live
\* record is validated for what it is, and a copy never.
RegistryIsExact ==
  /\ \A a \in Slot : Live(a) =>
       (members[Auth(a).token] = a /\ Auth(a).token \notin late /\ memberTokens[a] = Auth(a).token)
          <=> ~memory[a].copied
  /\ \A t \in Token \ late : members[t] # None =>
       Live(members[t]) /\ Auth(members[t]).token = t /\ ~memory[members[t]].copied
  /\ \A a \in Slot : memberTokens[a] # None =>
       \/ memberTokens[a] \in late
       \/ Live(a) /\ Auth(a).token = memberTokens[a] /\ ~memory[a].copied

\* As long as a result is held it is valid, though the authority holds none
\* of the records it is validated by, and others are built and collected.
ResultStaysValid == \A c \in Call : phase[c] = "published" => ResultValidates(c)

\* No validation in the pipeline refuses what the pipeline has built: only
\* a caller that goes on with a copy is refused.
OnlyCopiesAreRefused ==
  [][\A c \in Call : phase[c] # "refused" /\ phase'[c] = "refused" =>
       \E g \in local[c].groups : memory[g].copied]_vars
=============================================================================
