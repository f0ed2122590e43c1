# A TLA+ model of Agent Memory OS

Agent Memory OS reconciles what an agent remembers about a project with
what the project is. This directory models it in TLA+: modules that follow the
source, TLC configurations that check them on small instances, and theorems that
the TLA+ proof system checks for every value of the constants.

Paths below are relative to the repository; `rules.py`, `reconciler.py` and
`models.py` are those of `src/agent_memory_os/reconcile/`.

## 1. The system

The evidence collector measures and reads a project without changing it and
writes an `EvidenceSnapshot`. The reconciler takes a snapshot, a list of memory
candidates and a policy, and returns one result: facts with a status (`ACTIVE`,
`SUPERSEDED`, `CONFLICTED`, `PENDING`, `DEPRECATED`), relations between them, and
warnings. The reconciler is sequential and pure; the collector is sequential too,
but it runs beside the owner of the project and beside other collectors, and both
write their artifact into directories that somebody else may change.

| component | state it keeps | operations | interacts with |
|---|---|---|---|
| evidence collector (`evidence/collector.py`) | two integrity measurements, the evidence, a temporary file, the artifact | `collect`, `_write_snapshot_after_pass` | calls the adapters and the policy; shares the output path with other runs |
| integrity guard (`adapters/git_adapter.py`, `adapters/filesystem_adapter.py`) | none (one measurement) | `capture_integrity_state`, `hash_tracked_manifest` | runs Git commands with a time limit, reads files the owner writes |
| evidence adapters (`git_adapter`, `docs_adapter`, `tests_adapter`) | warnings, errors, sources; the files found so far | `collect`, a bounded walk, ... | as above |
| Shadow policy (`safety/shadow_policy.py`) | none | `validate_git_argv`, `validate_collection_request` | called before every command, and twice per run |
| candidate grouping (`rules.py` `group_candidates`) | cohort of a call | partition by subject, predicate, value | issues the first stage authorization |
| classification and temporal gates (`rules.py` `classify_group`, `precedence.py`) | none | witnesses, confidence, intervals, hints | hands decisions to the coordinator |
| same-value lineage (`rules.py` `resolve_same_value_lineage`) | graph of a call | edges, cycles, forks, winners | called by classification |
| predicate coordinator (`rules.py` `resolve_predicate`) | provisional decisions, relation requests, the conflict being raised | explicit replacement, two winner rules, roll back, conflict | its outcome is validated by its constructor |
| relation graph (`reconciler.py` `materialize_relation_graph`, `validate_relation_graph`) | graph of a call | merge, index, validate | may reject what the coordinator decided |
| reconcile pipeline (`reconciler.py` `reconcile`, `assemble_result`) | none | the stages in order | any stage may refuse the whole input |
| stage authority (`models.py` 425-735) | weak tables of members and tokens | issue, validate, discard | every stage |
| result validation and replay (`reconciler.py` 1945-2564) | none | derive the result again and compare | before serialization |
| serialization (`serialization.py`) | a temporary file, the artifact | `result_to_json`, `write_reconciliation_result` | file system |
| records (`models.py`, `evidence/models.py`), providers, demo viewer | none | validation, conversion, display | |

What is hard in it:

- **Coordinator.** Three rules of different authority apply to the same facts; a
  fact may win by one and be contradicted by another. When no single winner is
  left, replacements are *taken back* in a `while True` loop, layer by layer, and
  what is restored may itself have been current. Two later validations derive
  anew what may have been produced; any disagreement refuses a legal input.
- **Collector.** A measurement is not atomic: it is several Git commands and one
  read per tracked file, while the owner goes on working. Each may fail or time
  out. Runs may overlap, share an output path, raise, or be killed at any point.
- **Lineage.** Candidates replace each other by declaration and by the meeting of
  intervals that are half open; the graph may have cycles and forks. Components,
  order, flags and fork participants each come from a worklist of their own, over
  sets of strings whose iteration order changes from process to process.
- **Classification.** Hints, sources, instructions, confidence, times and retirement
  decide together, in gates that each look at some of them only.
- **Writers.** The output is a name, resolved several times; between two resolutions
  the name of its directory may come to lead to another place. A temporary file is
  created, and must be removed on every way out.
- **Discovery.** Directories are listed one after another and files read after that,
  within limits; what is answered as known must not be a part.
- **Pipeline.** Any part may refuse the input, and then it is refused for every
  predicate; each part relies on what the one before hands over.
- **Stage authority.** Records are known by `id()` and held weakly. A result is
  validated through records that nothing but itself keeps alive, and the ids of
  those that were collected are used again.

What makes each part correct:

- coordinator: at most one current fact, none beside a conflict; nothing becomes
  current that classification did not make current; a replacement chain ends in a
  current fact; a conflict is total; contradictions are retained; it ends;
- graph: what the coordinator decides is accepted, except cycles, which the search
  finds; the indexes agree with the relations;
- pipeline: the coordinator is started where its rules hold; a published current fact
  stands; the input is refused for known reasons only; all predicates are published
  or none, each as the coordinator's contract says;
- writers: a reader sees a whole file or none; nothing gets outside artifacts unless
  the directory is changed behind the last check; temporary files stay for a reason;
- discovery: a known list has all that was there throughout and nothing that never was,
  but where the limit or a path that does not resolve cuts it short;
- collector: the artifact is whole and rests on two complete and equal
  measurements, which are the project at one instant; a violation reported is
  one; the exit code tells whether the artifact was replaced; every run ends;
- lineage: no assertion or retirement is left without an answer; a retired value
  is current again only through a candidate that may activate it alone; a fork is
  reported with the candidates it consists of; the answer does not depend on the
  order in which sets are traversed;
- classification: a fact is current only on the word of witnesses that stand, and
  a decision is one the coordinator can work on;
- stage authority: the tables remember exactly the records that are alive; nothing
  the pipeline has built is refused; a result stays valid as long as it is held.

## 2. Modules

| module | models |
|---|---|
| `PredicateCoordinator` | `_resolve_predicate_payload`, `_finalize_predicate_payload`, the constructor of `PredicateOutcome`, the status, conflict and cycle checks of the relation graph |
| `PredicateResolution` | the contract a caller of `reconcile` relies on, for one predicate |
| `RelationGraph` | merging of requests, indexes, the checks of `_validate_graph_fields` one by one, and the search of `_validate_supersedes_acyclic`; extends `PredicateCoordinator` and implements it |
| `PredicateCoordinatorProofs` | theorems about the three |
| `MCPredicateCoordinator`, `MCRelationGraph` | instances for TLC |
| `ShadowCollector` | `EvidenceCollector.collect` with `capture_integrity_state`, for any number of runs, and the owner of the project |
| `ShadowStore` | the contract of the artifact: take the project at one instant, keep it whole or not at all |
| `ShadowCollectorProofs` | theorems about the two |
| `MCShadowCollector` | instances for TLC |
| `ArtifactWriter` | `write_reconciliation_result`, and the writing steps of `collect`, with an owner who changes the directory |
| `ArtifactStore` | the contract of an output path: whole files, in one step, and true reports |
| `ArtifactWriterProofs` | theorems about the two |
| `TestDiscovery` | `ProjectTestsAdapter._walk_files`, and what is read of the files found |
| `TestDiscoveryProofs` | theorems about it |
| `MCArtifactWriter`, `MCTestDiscovery` | instances for TLC |
| `CandidateGraph` | graphs of candidates and what is true of them: descendants, components, topological orders; the reference definitions |
| `LineageAnalysis` | the contract of `_analyze_lineage_graph`: one answer, in one step |
| `LineageGraph` | `_analyze_lineage_graph`: two depth-first searches with explicit stacks and a sort by indegree |
| `LineageGraphProofs` | theorems about the two |
| `Claim` | one candidate as the rules read it: `assess_temporal`, the gates, `precedence.py` |
| `SameValueLineage` | `resolve_same_value_lineage`: edges, sweep over the intervals, flags, outcome, ancestors, fork warning |
| `ClassifiedDecision` | what classification may hand to the coordinator; used by both |
| `Classification` | `classify_group` and the record of values that are not known; extends `SameValueLineage` |
| `ClassificationProofs` | theorems about the two |
| `GroupDecision` | the lineage, the status and the witnesses of a group by reachability alone: operators, no state |
| `Reconcile` | `reconcile()` with `group_candidates`, `_derive_unresolved_candidates` and `assemble_result`, for several predicates |
| `ReconcileProofs` | theorems about it and about `GroupDecision`, from those about the coordinator |
| `StageAuthority` | `_build_stage_authority` and the pipeline of `reconcile()` that asks it |
| `StageAuthorityProofs` | theorems about it |
| `MCLineageGraph`, `MCSameValueLineage`, `MCClassification`, `MCReconcile`, `MCStageAuthority` | instances for TLC |

How they compose. `LineageGraph` implements `LineageAnalysis`; `SameValueLineage`
takes the answer of the analysis in one step, by the same definitions of
`CandidateGraph`; `Classification` continues each behaviour of `SameValueLineage`, and
ends in what `GroupDecision` says of the group (`ImplementsGroupDecision`). `Reconcile`
takes `GroupDecision` as its one step of classification, for every group, and then
instantiates `PredicateCoordinator` on the facts of one predicate after another: `facts`
is a variable of the coordinator which no step of it changes, and the pipeline puts
`FactsOf[at]` in its place. (`Payloads` has the sets of facts that an instance starts from; in the
runs of the coordinator there is one.) The decisions handed over are
initial states of the coordinator (`CoordinatorStartsWell`). The coordinator validates in one step, which `RelationGraph`
implements in many; and it implements `PredicateResolution`, which `Reconcile`
implements once more for each of its predicates. `ShadowCollector` and
`ArtifactWriter` overlap in the writing of a snapshot: the first has what the file
holds and stands for, the second where it gets to.

### PredicateCoordinator

A fact is a model value. Of its classified decision the rules read five things:
the status, whether it is a plausible competitor (`_is_plausible_competing_fact`),
whether one of its activation witnesses is a source of truth or direct current
evidence, and whether all its candidates are historical memory. `BaseDecision` is
the set of combinations classification can produce. `declared` holds the pairs of
facts such that a witness of the first names a candidate of the second.

`phase` is the place in the code: `explicit` (apply the declarations), `winner`
(one of the winner rules or none), `finalize` (settled, or a conflict), `rollback`
(one action per round of the loop, and `RaiseConflicts` after it), `construct`
(`PredicateOutcome.__post_init__`), `validate` (the graph), and `published` or one
of two rejections. `decision` has the status and the method (here `rule`) of each
fact, `requests` the relation requests without their provenance.

`OutcomeIsCanonical` and `GraphIsValid` are translated from the validations, not
from the coordinator: that they accept what it produces is a property.

### RelationGraph

It extends `PredicateCoordinator` and replaces its step `Validate` by those of the
code: `Materialize` merges the requests for one edge (the strongest method stays the
reason), requires conflicts in pairs and gives each fact its indexes; `Check` is the
next of the checks, in the order of the code; `SearchFrom`, `Pop` and `Leave` are
the depth-first search, in which the facts are taken and the children pushed in
any order. An entry of the stack is a fact that was entered, and those of its children
that were pushed and not popped; the code has `(node, True)` in its place. Where the
code finds the cycle when it pushes a gray child, so does `Enter`. `GrayIsAPath`
shows that the other test for gray, when a fact is popped, never succeeds.

### ShadowCollector

The project is divided into parts, in the order in which they are read: `HEAD`,
the index, the output of `git status`, and each tracked file. A part is a version
number; equal content and equal digests are equal versions. `Mutate` is the owner,
who changes any part at any time. `Measure` reads one part, `Collect` reads the
evidence of one part. `pc` is where each run is, and the actions follow `collect`
down to `mkstemp`, write, `os.replace` and return. `Die` may happen at any point
of a run. `mid` is a history variable: the project when the first measurement of
the run was complete.

Failures follow the code. A failed command leaves `None`. A file that cannot be
read is entered in the manifest as `Unreadable`, which makes the measurement
incomplete but is still compared. If `git rev-parse HEAD` fails and `HEAD` is
symbolic, the marker of an unborn branch is recorded and the failure is dropped.

The parts change independently of one another: that includes what Git allows
(a changed file without a changed status output is one whose status was dirty
before) and more. Versions only grow: a change that is undone between the two
measurements is what an end-point comparison cannot see (`docs/limitations.md`).

### LineageGraph

An entry of the stack is a candidate being expanded and those of its pushed
successors that have not been popped. The code pushes `(candidate, True)` and its
successors above it; the entry with nothing left is that item. `StartAt`,
`Descend` and `Finish` are the first search, `OpenComponent`, `Collect` and
`CloseComponent` the second, `StartSort` and `Emit` the sort. Wherever the code
iterates over a set, any order is a behaviour.

### SameValueLineage and Classification

A claim is a record of what the rules compare: hint, source, whether it is an
instruction, whether it is deprecated, confidence as against the threshold of the
policy, whether its value is known, whether its observation lies beyond the clock
skew, and its interval, in instants of a discrete clock. `declared` has the pairs
of `supersedes` inside the group. `stage` is the place in
`resolve_same_value_lineage`: `declare`, `sweep` (one action per round of the sweep),
`flag` (one per candidate of the topological order), `resolve` (one action per
outcome), `collect` (the worklist of the ancestors), then `answered`, or `rejected` by
the constructor of `SameValueLineage`. `Classification` adds the decision (`status`,
`method`, `witnesses`, `review`) and the verdict of `_derive_unresolved_candidates`.

### GroupDecision and Reconcile

`GroupDecision` says in one expression each what the algorithms of `SameValueLineage`
and `Classification` compute step by step: the lineage (`LineageOf`), the status with its
witnesses (`DecisionOf`) and what the coordinator reads of it (`Handover`).

`Reconcile` has candidates with a predicate and a value (`About`); a fact is a group of
`group_candidates`. `classified` is what `classify_group` returns for each fact:
a function of the input, computed when the call begins, for nothing else happens
before the coordinator. `Begin` checks the references of the predicate and hands over,
`Coordinate` is any step of the coordinator on the facts of `at`, `Collect` adds its outcome to those
before, or ends the call; `DeriveUnresolved` and `Assemble` finish. The predicates are taken in any order; the code
sorts them by name. An exception anywhere is `Refuse`: it ends the call for all.

### ArtifactWriter

`at` is where the name of the output's directory leads: to a directory below
artifacts (any of `Directory`, as it may be moved and made anew), to a place `Elsewhere` by a link, or to nothing.
`content` is what is under the output's name in each of these. The owner changes the first (`Redirect`,
at most `MaxRedirects` times) and the second (`Replant`) between any two steps. The labels of `pc` follow
`write_reconciliation_result`; a run of the collector has one check and not three.
`Check` and `LastCheck` resolve the name; so does the operating system in `CreateTemp`,
`Replace` and `Cleanup`. A link to another place below artifacts is refused by the repeated checks
and is not told apart from one that leads elsewhere. `redirects`, `seen` and `stuck` are history variables.

### TestDiscovery

A file or directory is a model value with a parent; `present` is what exists, and the
owner creates or removes one thing at a time, at most `MaxChanges` times. `Visit` lists a directory: `os.walk`
takes it from those its parent had when that was listed, so it may be gone. The
limits, the pruning and the issues are in `Take` and `Unlistable`. An entry whose path fails to resolve is passed over without an issue, in `Listed` and `Entered`;
`skipped` remembers it, and `MayFail` bounds which may. Then configurations
and manifests are read. `RaiseInWalk` and `RaiseInRead` are exceptions the adapter does not catch; the
collector does. `skipped`, `always` and `ever` are history variables. Which of the names in a directory sort
first is left open, and the order of the walk is any.

### StageAuthority

`memory` is the heap: a record has an address, the facts it is about, the addresses
it refers to, and its authorization, which it carries itself. `members` and
`memberTokens` are the two tables of the authority. `local` is what an invocation
refers to, variable by variable. A record that nothing refers to is collected before
the invocation continues (reference counting; the records form no cycles), and its
callback, `Discard`, runs then or later: CPython calls it before the address is free,
which no document promises, so that the model lets it be late, until the next record
is collected.
The allocator hands out some free address, which TLC takes to be the first, so that
addresses are used again at once; nothing proved depends on which. A token is drawn at
random in the code and never drawn twice; here it is one of its address that nothing
mentions any more. When the addresses, or the tokens of one, are used up, nothing more is
built (`Room`); if `Slot` or `Draws` were too small for a run, it would stop in a
deadlock.

Each stage of the pipeline is an action per fact, with all its validations. A
validation of a decision builds its group and the decision anew and compares them
(`RebuildGroup`, `RebuildDecision`, `DropRebuilt`); the coordinator goes on with the
rebuilt ones. Any exception, `Abandon`, may happen between two steps, and the caller may let
go of a result and begin again. `CopyGroup` is a caller of the public functions
`group_candidates` and `classify_group` who passes a copy (`copy.copy`) of a group,
which must be refused (`tests/test_reconciliation_adversarial_invariants.py:721`).

## 3. Runs

| run | instance | what it shows |
|---|---|---|
| `predicate_rules` | three facts, all kinds of decisions, both policies, all sets of declarations | replacements end in current facts, contradictions are retained, a source of truth stands; the coordinator ends and implements `PredicateResolution` |
| `predicate_cycle` | six facts and six possible declarations, with the steps of the relation graph | only cycles are rejected; the colours of the search mean what they should; the graph's steps are together the coordinator's `Validate` |
| `lineage_loops` | every graph on three candidates, loops included, every order of traversal | each search leaves what the next one needs; the three implement `LineageAnalysis`; they end |
| `lineage` | four candidates without times; or three of ten claims around now; or three of seven claims that contest the status; with every set of declarations between them, symmetry | sweep, flags, reactivation, fork, status and witnesses are those of `GroupDecision`; nothing is lost; a fact is current only on the word of witnesses that stand |
| `classify_withheld` | one candidate whose value is not known | **violated**: see findings |
| `reconcile` | two predicates and six candidates: three facts that compete; or a value that is not known, with every hint; or one candidate with every claim it can make | the coordinator is started where its rules hold; refusals have three causes; a published current fact stands; each predicate keeps `PredicateResolution` |
| `stages` | invocations of two facts, one after another, with copies, exceptions, late callbacks and results that are held or let go | the tables are exact; only copies are refused; a held result stays valid |
| `shadow_one` | one run, one tracked file, HEAD and the file change twice, any read may fail | what is written is of one instant; a violation is real; the run ends |
| `shadow_two` | two runs with one output path, the file changes and may be unreadable, symmetry | the artifact is always a whole, proven one; exit codes tell who wrote it; the runs implement `ShadowStore` |
| `writers` | a writer of a result and one of a snapshot with one output, two directories, three redirections | results stay below artifacts; temporary files left behind are explained; the writers implement `ArtifactStore` |
| `discovery` | every project of six directories and seven files, three files at most, two changes during the walk | known lists lie between what was always and what was ever there, but for the limit and for paths that do not resolve |
| `discovery_partial` | the same, one file at most, nothing changes | **violated**: see findings |

Bounds. `Declarable` limits the declarations only in `predicate_cycle`. Three facts
suffice for a winner, its target and a third party; longer chains of replacements,
taken back layer by layer, are what the proofs add; six are needed for the constructor's
rejection, which an exhaustive search over four and five did not reach, and the sixth
declaration makes the search for cycles meet facts it has left. In the
collector, `MaxVersion` limits how often a part changes, `MayChange` and `MayFail`
which parts do or fail, `TrackedFiles` how many files there are. A change needs to
be seen before, between and after the measurements, hence two versions more; a
file and `HEAD` are the two parts that fail in a way of their own. Two runs suffice
for one to replace the file of another. In the lineage, four candidates
make a fork with a common ancestor, a tip on each side and a candidate beside it, and a
diamond; the claims without times are an assertion, one that may not activate
the value (at most one of these) and a retirement. `Moments` 0, 1 and 2 are before, at
and after `Now`, for a start and for an end, which is what half-open intervals tell
apart; groups with times have three candidates that matter and a fourth that
declares nothing or names itself. The graphs of `lineage_loops` on three candidates
have components of every size and a chain of them. `Override` is `TRUE` in
all runs: without it no instruction counts, and an instruction with the hint
`SOURCE_OF_TRUTH` is like one with the hint `PLAN`. In `stages`, two facts make one relation, and the
chain of a record is as long as it gets with one fact; the next invocation
begins when the result of the one before has been let go, or there was none, and uses the
addresses again; a result that is held is validated again, which builds and drops
records beside it. The proofs add any number of invocations and of results held at once. One callback is late at a time, and what is let
go of goes in one order: that is a choice of TLC's cost; the proofs hold for any
order that the state determines. In `reconcile`, three facts of one predicate with
five references make a cycle, a contradiction, a replacement within one fact and one by a candidate that
is no witness; the second predicate has what may refuse the input from outside. In
`writers`, three redirections are there, back and away again, one more than a result
can stand; a writer of each kind meets the other at the output and at the directory. In `discovery`,
the tree has a directory at the depth limit with one below it, a generated one, a link, and more files than
`MaxFiles`; two changes create and remove a file, or a directory and a file in it; the paths that
may fail are of a directory, with what is below it, and of a manifest. The
proofs do away with all of these bounds but one: that a single callback is late at a time.

Symmetry is used in runs without liveness only. `CHECK_DEADLOCK FALSE` is set for
the collector, where all runs may have ended and the versions be used up, and for the
lineage, its analysis, the classification, `reconcile`, the writers and the discovery,
which stop at their answer. The
coordinator has an explicit terminal step and the stage authority a caller who begins
again; both are checked for deadlock.

Fairness. `Terminates` assumes that the coordinator, a sequential function, takes
its next step: `WF_vars(Step)`. `EveryRunEnds` assumes the same of each started
run, `WF_vars(RunStep(c))`: every Git command has a time limit (`GitAdapter.run`),
and a time-out is one of the outcomes `Measure` allows. Starting a run, the owner
and crashes are not fair. `EveryAnalysisEnds` assumes `WF_vars(Next)` of
`LineageGraph`, which is one sequential call. No other module needs fairness.

Every property of a passing run has a mutant: a changed definition of the
model, as a bug in the mapped code would be, under which TLC finds it violated.
The mutants are the definitions marked so beside their originals.

## 4. Proofs

The eight proof modules prove everything for any value of the constants, from the named
assumptions of the modules only: for the collector, at least one file and one
version above 0, and that the markers are no versions; for the analysis, finitely
many candidates; for the writers, that no call is of both kinds and that the names of
places and of files differ; for the discovery, finitely many files, limits above 0
and directories each one deeper than its parent; for the classification, finitely many
candidates and at least one, a candidate whose value is not known alone in its group, declarations
between candidates of the group, and a clock that shows an instant; for the pipeline, that every
candidate is about one of the predicates, and that its claim has a value just where
the candidate has one; for the stage authority,
that an invocation has at least one fact and that `None` is neither an address, an
invocation nor a record.

**Coordinator.** `IInv` describes each phase. After the rules, the requests and
decisions are exactly those of the declarations and of at most one winner rule
(`Provisional`); that makes both validations provable. During roll back only
`Collecting` is kept: requests come from facts that were current, a superseded
fact has a request that says by whom, and no cycle appears that was not declared.
At its end (`ConflictRaised`) nothing is left of the replacements unless there was
a cycle: in an acyclic graph a chain of replacements leads back to a fact that was
current and is now in conflict, and the loop has removed what that fact replaced.
From `Inductive` follow the safety properties the runs check, the
shrinking of the loop, and the refinement of `PredicateResolution`; besides these,
properties that only the proofs establish: at most one current fact and none beside a conflict
(`SingleCurrentFact`), no promotion (`NeverPromoted`), two sides to every conflict
(`ConflictHasTwoSides`), and that a conflict is total (`ConflictIsTotal`).
`SourceOfTruthStands` needs an invariant of its own beside `IInv`, `TruthKept`: where nothing is
declared, the only source of truth is the only current fact as soon as the winner rules are through, and
no conflict is raised after that.

**Relation graph** (the last part of `PredicateCoordinatorProofs`). `GInv` is kept beside the coordinator's invariant and says what the search has done: the
stack is a path in the graph, gray are exactly the facts on it, and black facts
lead to black facts only, among which there is no cycle (every set of them has one to which none
in the set leads). A child met gray therefore closes
a cycle along the stack, and when all are black there is none: the search accepts exactly
what `Acyclic` of the coordinator's module does. With the merging and the indexes (the reasons
change, the edges do not) the steps are together its step `Validate`; so the
theorems about the coordinator hold of the graph too, `SearchRejectsOnlyCycles` among them.

**Collector.** `RunInv` follows each run on its own. Versions only grow, so what
the first measurement found is at most `mid`, and that is at most what the evidence
and the second measurement find (`Taken`, `Bracketed`); when both ends are equal, so is all
in between (`EqualEndsAreASnapshot`). A run's part of the invariant does not
mention other runs, so their steps and the owner's preserve it (`GrowingWorld`).
`ArtifactInv` relates the artifact to the run that wrote it, even after that run has
ended or died. All the safety and action properties of the runs and the refinement
of `ShadowStore` are theorems.

**Lineage analysis.** `IInv` has a part for each of the three searches. `SearchInv` is
about the first: the stack is a path (`PathInv`), and a finished candidate is on a cycle with one on
the stack, or all it leads to has finished and its component last. That is the argument
of Kosaraju's algorithm, for an explicit stack on which a candidate is expanded once
though several push it; `ComponentFinishesLast` follows.
`CollectInv` is about the second: walking back along the edges from
the candidate that finished last of those not assigned gives its component, no more,
because everything else that leads there has been assigned, and no less,
because the frontier is closed. `SortInv` is about the third: an indegree is the number of
predecessors not yet emitted, and when nothing is ready all have been, for otherwise
the rest would have a cycle, which the components have excluded. The three
safety properties and the refinement of `LineageAnalysis` follow. Descendants are defined
as the least closed set, not by recursion, so that the proofs need no induction over
paths.

**Lineage and classification.** Each loop has an invariant, and `LineageInv` says which of them hold
at which stage. `SweepInv`: the edges found are those from the retired intervals that have ended
to the activations the sweep has come to, and no activation still to come
is earlier. `FlagInv`: of the candidates taken from the topological order, the flags tell
whether an ancestor is current and whether one is retired; a predecessor has been
taken before its successor, so one look at the predecessors is enough. `CollectInv`: what is collected
leads to a winner (`Beaten`), and the predecessors of all that is collected are collected or
pending; so, when nothing is pending, all that leads to a winner is there. By then the graph
and the answer are reachability alone, and are compared with `LineageOf` of `GroupDecision`
(`AlwaysReferenceLineage`). The participants of the fork come from two passes over the order, recursive
functions in `SameValueLineage`; that such a function is what reachability tells
follows from the least step at which the two would differ. `ClassifyInv` adds the decision, which is
the one step of `GroupDecision` (`AlwaysGroupDecision`): what `Reconcile` takes for the
classification is what the algorithm computes, for groups of any size. `AlwaysNothingIsLost` and
`AlwaysActiveIsWitnessed` follow: above each candidate of a finite acyclic graph there is a tip, and
above a retirement that is overruled one that may activate the value.
`NonKnownIsNeverActive` is what is left of the assertion that finding 1 refutes.

**Writers.** `WriterInv` follows one writer. Its temporary file is where the name
led when it was created, so while the name leads to another place it has been redirected since
(`Apart`). The last check of a result passes only where the name does not lead
elsewhere: if the file is elsewhere, that was one redirection, and there is a second before the name
leads to the file again (`Guarded`). What is published is whole because the file
was written before. Other writers disturb none of this. All properties of the run
`writers` and the refinement of `ArtifactStore` are theorems.

**Discovery.** The walk keeps no record of where it has been. `WalkedOrNot` says that there is one,
unless an issue was recorded or the limit is met: a set of directories, each of which has given all its
lasting files to `found` and its lasting subdirectories to the record or to `todo`, but for those that were
skipped. When nothing is left to do, take a lasting directory that is not in that set, and the highest such
directory above it: its parent was listed, so it was passed over or skipped. Hence all else is in the set. What is found was listed, so
it was there once; `always` only shrinks and `ever` only grows, so the owner's steps keep both.

**Pipeline.** `RInv` says how far each predicate is: it waits, is with the coordinator, or has been
decided (`Progress`). What classification hands over is an initial state of the coordinator, for any
group, by the cases of `DecisionOf`. While a predicate is with the coordinator, the coordinator's own invariant holds of
it: the theorems about the coordinator are taken through an instance (`Judge`), on the facts of the
predicate at hand (`JudgeIsCoordinator`). What it leaves behind is sound (`Sound`: a fact that
is current or in conflict was classified as current, one that is superseded was plausible, and the
others are as classified), coherent (`Agreed`), and makes a valid graph, unless current facts
declare each other replaced in a cycle (`Cyclic`). `AlwaysStartsWell` and `AlwaysCurrentStands` follow.
`AlwaysExplained` takes the places where a call may be refused: the references are
checked first; the constructor of an outcome rejects nothing but cycles, which is the coordinator's `OnlyCyclesAreRejected`; a
value that is not known has a fact of its own, which nothing supersedes or makes current, so that
it is pending unless it was retired (`UnresolvedIsRetired`); and the graph of each
predicate is valid but for cycles. The contract of each predicate follows from the check of the constructor, the
validation of the graph and the soundness of the statuses.

**Stage authority.** `IInv` relates heap and tables: what a live record or an invocation refers to
is alive (`Held`); a live record is either a copy or what the tables know under its token, and an entry of the
tables is of a live record or its callback is still to run (`Registry`). A token tells the address its
record was built at, so a copy is never taken for its original.
`RegistryIsExact` is what it says of the tables. A validation depends on
the records it reaches and on their entries only, so that what is referred to stays valid (`Stable`) while other
records come and go; hence `ResultStaysValid`. That nothing is refused needs more,
`Pipeline`: at each stage what an invocation works with is valid (`Chain`), and there is one record of
a kind for each fact that has been through the stage, made from the one before it (`Once`).

Every invariant, action property and refinement of a passing run is stated by a theorem.
Only model-checked: `Terminates`, `EveryRunEnds` and `EveryAnalysisEnds` (liveness is
out of the prover's reach), and the two properties that are violated.

## 5. Findings

1. A candidate whose value is not known and that is retired is classified
   `DEPRECATED` before its value is looked at; `_derive_unresolved_candidates` asserts that
   such facts are `PENDING` and refuses the whole input. Run `classify_withheld`.
2. When the limit on files is met exactly by the last file of a directory, the walk of
   the tests adapter ends without an issue, and a part of the files, roots and
   commands is answered as known. Run `discovery_partial`.

Four more departures from what one may expect are part of properties that hold, as
their exceptions:

- A cycle of three explicit declarations among current facts is not retained as
  a conflict (`docs/state-reconciliation.md:29`); the whole input is refused with
  `ReconciliationInvariantError` (`OnlyCyclesAreRejected`, `RefusalIsExplained`).
- A tracked file that cannot be read in the second measurement is reported as a
  safety violation, exit code 4, although nothing changed (`ViolationIsReal`).
- If `git rev-parse HEAD` fails in both measurements, a branch with commits is
  recorded as unborn and the run passes (`Faithful` in `ShadowStore`).
- A file or directory whose path cannot be resolved is passed over by the walk of the
  tests adapter (`except OSError: continue`, `tests_adapter.py:163` and `172`), with neither issue nor
  warning: a part of the tests, a whole subtree perhaps, is missing from lists that are answered
  as known (`skipped` in `KnownIsBetween`). Other read errors of the walk make the lists unknown.

## 6. Not modelled

Texts, hashes, identities, provenance tuples, warnings and their order; parsing of
Git's output, documents and test files; the allow-list
of Git arguments; encoding and decoding of JSON; the demo viewer. They are pure
functions of strings, and no property here depends on them. That two runs with one
output path leave the *newer* snapshot is not promised by the code and does not hold.

Of the lineage and the classification: how timestamps are parsed and compared with the
clock skew (a claim says what came out), references to evidence, and
`policy.allow_explicit_source_of_truth_override = False`. Of the stage authority: the
signature and the fingerprints of a payload (records are frozen; that of a graph, which
names its members, is modelled), that the functions which issue are handed out once
to two modules, invocations that run at the same time, and a result without facts.
Of the reconciler: the checks of identities against their hashes, of provenance and of
activation witnesses in the graph, and the derivation of a result's partitions,
warnings and unresolved records a second time. Of the tests adapter: recorded results, the
reading of one file, and that a configuration which cannot be read is taken for none.

Of the writers: that the operating system may replace a directory between resolving
a name and using it in one call, and file systems on which `os.replace` is not atomic.

## 7. State of the work

Every part that keeps state is modelled, and every safety property and
refinement that the runs check is proved. What the proofs leave to TLC is liveness. What the models
leave out (section 6) is conversion and validation of values; of that, the second
derivation of a result's partitions and warnings would come next.
