-------------------------- MODULE SameValueLineage --------------------------
(***************************************************************************)
(* The lineage of a same-value group (reconcile/rules.py,                  *)
(* resolve_same_value_lineage): the candidates assert one value of one     *)
(* fact, some of them retire it and some assert it again, and the lineage  *)
(* tells which assertions still stand and what they amount to.             *)
(*                                                                         *)
(* A candidate is replaced by one that names it in "supersedes", or, when  *)
(* it retires the value over an interval that ends, by one that may        *)
(* activate the value from that end on.  The candidates nobody replaces    *)
(* are the tips.  Flags that run along a topological order of the graph    *)
(* tell what the tips replace.  The analysis of the graph is the one step  *)
(* of LineageAnalysis, which LineageGraph implements.                      *)
(***************************************************************************)
EXTENDS CandidateGraph, Claim

CONSTANT Groups  \* the groups an instance starts from

\* A candidate whose value is not known is a group of its own (group_candidates).
IsGroup(claims) ==
  claims \in [Candidate -> Claims] /\ \A c, d \in Candidate : claims[c].valued \/ c = d

ASSUME GroupsAssumption ==
  \A g \in Groups : IsGroup(g.claim) /\ g.declared \subseteq Candidate \X Candidate
ASSUME GroupAssumption == IsFiniteSet(Candidate) /\ Candidate # {}

Outcomes == {"CURRENT", "NEUTRAL", "REACTIVATED", "DEPRECATED", "UNRESOLVED"}

VARIABLES
  claim,        \* the claim of each candidate, never changed
  declared,     \* the pairs <<successor, predecessor>> of "supersedes", never changed
  stage,        \* "declare", "sweep", "flag", "resolve", "collect", "answered", "rejected"
  explicit,     \* edges <<predecessor, successor>> that are declared
  interval,     \* edges <<predecessor, successor>> found by the sweep
  starts,       \* activation starts the sweep has not come to
  intervals,    \* retired intervals the sweep has not come to
  eligible,     \* retired candidates whose interval has ended
  order,        \* the topological order of the graph
  flagged,      \* how many candidates of the order have their flags
  belowCurrent, \* candidates that replace a current one, over any distance
  belowRetired, \* candidates that replace a retired one, over any distance
  outcome,      \* the outcome of the lineage
  survivors,    \* the surviving candidates
  pending,      \* candidates found by the collection of ancestors, not yet expanded
  superseded,   \* the superseded candidates
  fork          \* participants of the fork warning, empty without one

vars == <<claim, declared, stage, explicit, interval, starts, intervals, eligible, order,
          flagged, belowCurrent, belowRetired, outcome, survivors, pending, superseded, fork>>
group == <<claim, declared>>
edges == <<explicit, interval>>
sweeping == <<starts, intervals, eligible>>
flagging == <<order, flagged, belowCurrent, belowRetired>>
answer == <<outcome, survivors, pending, superseded, fork>>

IsCurrent(c) == Current(claim[c])
IsRetired(c) == Retired(claim[c])

Init ==
  /\ \E g \in Groups : claim = g.claim /\ declared = g.declared
  /\ stage = "declare"
  /\ explicit = {} /\ interval = {}
  /\ starts = {} /\ intervals = {} /\ eligible = {}
  /\ order = <<>> /\ flagged = 0 /\ belowCurrent = {} /\ belowRetired = {}
  /\ outcome = "NEUTRAL" /\ survivors = {} /\ pending = {} /\ superseded = {} /\ fork = {}

-----------------------------------------------------------------------------
(* The edges. *)

\* Mutant: the outcome is named like the status of a fact.
UnresolvedAsConflict(left) ==
  /\ stage' = "answered"
  /\ outcome' = "CONFLICTED"
  /\ survivors' = left

Unresolved(left) ==
  /\ stage' = "answered"
  /\ outcome' = "UNRESOLVED"
  /\ survivors' = left

RejectSelfReference ==
  /\ stage = "declare"
  /\ \E c \in Candidate : <<c, c>> \in declared
  /\ Unresolved(Candidate)
  /\ UNCHANGED <<group, edges, sweeping, flagging, pending, superseded, fork>>

\* Retirements with a valid interval that ends.
RetiredIntervals ==
  {c \in Candidate : IsRetired(c) /\ Known(claim[c].until) /\ ~InvalidOrder(claim[c])}

ActivationStarts ==
  {c \in Candidate :
     ActivationCapable(claim[c]) /\ Known(claim[c].from) /\ claim[c].from <= Now}

Declare ==
  /\ stage = "declare"
  /\ \A c \in Candidate : <<c, c>> \notin declared
  /\ explicit' = {<<d[2], d[1]>> : d \in declared}
  /\ intervals' = RetiredIntervals
  /\ starts' = ActivationStarts
  /\ stage' = "sweep"
  /\ UNCHANGED <<group, interval, eligible, flagging, answer>>

\* Mutant: the activation starts are not sorted.
NextStartUnsorted(c) == c \in starts

NextStart(c) == c \in starts /\ \A d \in starts : claim[c].from <= claim[d].from

EndedBy(c) == {d \in intervals : claim[d].until <= claim[c].from}

\* One round of the loop over the activation starts, which are sorted by time.
Sweep(c) ==
  /\ stage = "sweep" /\ NextStart(c)
  /\ eligible' = eligible \union EndedBy(c)
  /\ intervals' = intervals \ EndedBy(c)
  /\ starts' = starts \ {c}
  /\ interval' = interval \union {<<d, c>> : d \in eligible' \ {c}}
  /\ UNCHANGED <<group, stage, explicit, flagging, answer>>

-----------------------------------------------------------------------------
(* The analysis and the flags. *)

Successors == [c \in Candidate |-> {d \in Candidate : <<c, d>> \in explicit \union interval}]

RejectCycle ==
  /\ stage = "sweep" /\ starts = {}
  /\ OnCycle(Successors) # {}
  /\ Unresolved({})
  /\ UNCHANGED <<group, edges, sweeping, flagging, pending, superseded, fork>>

Analyze ==
  /\ stage = "sweep" /\ starts = {}
  /\ OnCycle(Successors) = {}
  /\ \E sorted \in [1..Cardinality(Candidate) -> Candidate] :
       IsTopological(Successors, sorted) /\ order' = sorted
  /\ stage' = "flag"
  /\ UNCHANGED <<group, edges, sweeping, flagged, belowCurrent, belowRetired, answer>>

\* One round of the loop of _semantic_ancestor_flags.
Flag ==
  /\ stage = "flag" /\ flagged < Len(order)
  /\ LET c == order[flagged + 1]
         above == Predecessors(Successors, c)
     IN  /\ belowCurrent' = IF \E p \in above : IsCurrent(p) \/ p \in belowCurrent
                            THEN belowCurrent \union {c} ELSE belowCurrent
         /\ belowRetired' = IF \E p \in above : IsRetired(p) \/ p \in belowRetired
                            THEN belowRetired \union {c} ELSE belowRetired
  /\ flagged' = flagged + 1
  /\ UNCHANGED <<group, stage, edges, sweeping, order, answer>>

AllFlagged ==
  /\ stage = "flag" /\ flagged = Len(order)
  /\ stage' = "resolve"
  /\ UNCHANGED <<group, edges, sweeping, flagging, answer>>

-----------------------------------------------------------------------------
(* The outcome. *)

Tips == {c \in Candidate : Successors[c] = {}}
CurrentTips == {c \in Tips : IsCurrent(c)}
RetiredTips == {c \in Tips : IsRetired(c)}
NeutralTips == Tips \ (CurrentTips \union RetiredTips)

IncompatibleTips == CurrentTips # {} /\ RetiredTips # {}

\* Mutant: a neutral tip may replace a retirement.
NeutralReplacesCurrent == NeutralTips \intersect belowCurrent # {}

NeutralReplacesSemantic == NeutralTips \intersect (belowCurrent \union belowRetired) # {}
InvalidIntervalMatters ==
  /\ \E c \in Candidate : InvalidOrder(claim[c])
  /\ CurrentTips # {} \/ RetiredTips = {}

UnsupportedReactivation ==
  \E c \in CurrentTips \intersect belowRetired : ~ActivationCapable(claim[c])

Undecidable ==
  \/ IncompatibleTips \/ NeutralReplacesSemantic
  \/ InvalidIntervalMatters \/ UnsupportedReactivation

\* Along declared edges only, against the order: a candidate reaches the
\* targets when it is one or a successor does.
ReachedFrom(targets) ==
  LET reaches[i \in 1..(Len(order) + 1)] ==
        IF i > Len(order) THEN targets
        ELSE IF \E d \in reaches[i + 1] : <<order[i], d>> \in explicit
             THEN reaches[i + 1] \union {order[i]} ELSE reaches[i + 1]
  IN  reaches[1]

\* Along declared edges and the order: what descends from the sources.
DescendsFrom(sources) ==
  LET descends[i \in 0..Len(order)] ==
        IF i = 0 THEN sources
        ELSE IF order[i] \in descends[i - 1]
             THEN descends[i - 1] \union {d \in Candidate : <<order[i], d>> \in explicit}
             ELSE descends[i - 1]
  IN  descends[Len(order)]

ForkParticipants ==
  LET current == ReachedFrom(CurrentTips)
      retired == ReachedFrom(RetiredTips)
  IN  DescendsFrom(current \intersect retired) \intersect (current \union retired)

ResolveUnresolved ==
  /\ stage = "resolve" /\ Undecidable
  /\ Unresolved(Tips)
  /\ fork' = IF IncompatibleTips THEN ForkParticipants ELSE {}
  /\ UNCHANGED <<group, edges, sweeping, flagging, pending, superseded>>

Settle(result, winners) ==
  /\ outcome' = result
  /\ survivors' = Tips
  /\ pending' = UNION {Predecessors(Successors, c) : c \in winners}
  /\ stage' = "collect"
  /\ UNCHANGED <<group, edges, sweeping, flagging, superseded, fork>>

ResolveCurrent ==
  /\ stage = "resolve" /\ ~Undecidable /\ CurrentTips # {}
  /\ Settle(IF CurrentTips \intersect belowRetired # {} THEN "REACTIVATED" ELSE "CURRENT",
            CurrentTips)

ResolveRetired ==
  /\ stage = "resolve" /\ ~Undecidable /\ CurrentTips = {} /\ RetiredTips # {}
  /\ Settle("DEPRECATED", RetiredTips)

ResolveNeutral ==
  /\ stage = "resolve" /\ ~Undecidable /\ CurrentTips = {} /\ RetiredTips = {}
  /\ Settle("NEUTRAL", Tips)

-----------------------------------------------------------------------------
(* The ancestors of the winning tips. *)

Collect(c) ==
  /\ stage = "collect" /\ c \in pending
  /\ superseded' = superseded \union {c}
  /\ pending' = (pending \union Predecessors(Successors, c)) \ superseded'
  /\ UNCHANGED <<group, stage, edges, sweeping, flagging, outcome, survivors, fork>>

\* The constructor of SameValueLineage has the last word.
Answer ==
  /\ stage = "collect" /\ pending = {}
  /\ stage' = IF survivors # {} /\ survivors \intersect superseded = {}
              THEN "answered" ELSE "rejected"
  /\ UNCHANGED <<group, edges, sweeping, flagging, answer>>

Next ==
  \/ RejectSelfReference \/ Declare \/ RejectCycle \/ Analyze \/ Flag \/ AllFlagged
  \/ ResolveUnresolved \/ ResolveCurrent \/ ResolveRetired \/ ResolveNeutral \/ Answer
  \/ \E c \in Candidate : Sweep(c) \/ Collect(c)

Spec == Init /\ [][Next]_vars

-----------------------------------------------------------------------------
(* Properties. *)

\* The types of the variables.
TypeOK ==
  /\ claim \in [Candidate -> Claims] /\ declared \subseteq Candidate \X Candidate
  /\ stage \in {"declare", "sweep", "flag", "resolve", "collect", "answered", "rejected"}
  /\ explicit \subseteq Candidate \X Candidate /\ interval \subseteq Candidate \X Candidate
  /\ starts \subseteq Candidate /\ intervals \subseteq Candidate /\ eligible \subseteq Candidate
  /\ order \in Seq(Candidate) /\ flagged \in 0..Len(order)
  /\ belowCurrent \subseteq Candidate /\ belowRetired \subseteq Candidate
  /\ outcome \in Outcomes /\ survivors \subseteq Candidate
  /\ pending \subseteq Candidate /\ superseded \subseteq Candidate /\ fork \subseteq Candidate

\* In a lineage that is decided, no assertion or retirement is left without
\* an answer: every current or retired candidate is superseded, or it stands
\* with the winners, and none stands against them.
NothingIsLost ==
  stage = "answered" /\ outcome # "UNRESOLVED" =>
    \A c \in Candidate :
      /\ IsCurrent(c) => \/ c \in superseded
                         \/ c \in survivors /\ outcome \in {"CURRENT", "REACTIVATED"}
      /\ IsRetired(c) => \/ c \in superseded
                         \/ c \in survivors /\ outcome = "DEPRECATED"

=============================================================================
