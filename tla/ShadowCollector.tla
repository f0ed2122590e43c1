--------------------------- MODULE ShadowCollector ---------------------------
(***************************************************************************)
(* The Shadow evidence collector (evidence/collector.py, EvidenceCollector *)
(* .collect) with the integrity guard of GitAdapter.                       *)
(*                                                                         *)
(* A run measures the project, collects evidence, measures the project     *)
(* again, and writes its snapshot only if both measurements are complete   *)
(* and equal.  Nothing stops the project while it is measured: every       *)
(* measurement reads one part after another, by Git commands that may fail *)
(* or time out and files that may be unreadable, while the owner of the    *)
(* project goes on working.  Several runs may share an output path, and a  *)
(* run may be killed between any two steps.                                *)
(*                                                                         *)
(* The parts are numbered in the order in which they are read: the HEAD    *)
(* commit, the index, the output of git status, and the tracked files.     *)
(* A part is a version number: 0, 1, ...; contents and digests are equal   *)
(* when the versions are.                                                  *)
(***************************************************************************)
EXTENDS Naturals

CONSTANTS
  Run,          \* the invocations of collect(), concurrent or one after another
  TrackedFiles, \* how many files git ls-files lists, at least one
  MaxVersion,   \* bound on the versions of a part
  MayChange,    \* bound on the parts that may change
  MayFail,      \* bound on the parts whose reading may fail
  Attached,     \* HEAD names a branch (it is symbolic)
  None,         \* no measurement: the command or the read failed
  Unreadable,   \* what the manifest records for a file it cannot read
  NoRun

ASSUME TrackedFilesAssumption == TrackedFiles \in Nat \ {0}
ASSUME MaxVersionAssumption == MaxVersion \in Nat \ {0}
ASSUME AttachedAssumption == Attached \in BOOLEAN
ASSUME MarkersAssumption == None \notin Nat /\ Unreadable \notin Nat /\ None # Unreadable
ASSUME NoRunAssumption == NoRun \notin Run

HEAD == 1
INDEX == 2
STATUS == 3
LastPart == 3 + TrackedFiles
Part == 1..LastPart
Files == 4..LastPart

Version == 0..MaxVersion
Unborn == 0   \* HEAD names a branch without commits; other parts start with version 0
Reading == Version \union {None, Unreadable}
Readings == [Part -> Reading]
NoReadings == [i \in Part |-> None]
NoGuards == [g \in {"before", "after"} |-> NoReadings]
NoArtifact == [by |-> NoRun, content |-> "none", guard |-> NoGuards, evidence |-> NoReadings,
               complete |-> FALSE]

VARIABLES
  world,    \* the version of each part of the project
  pc,       \* where each run is
  next,     \* the part a run reads next
  guard,    \* the two integrity measurements of each run
  evidence, \* the evidence of each run, part by part
  broken,   \* collecting the evidence raised an exception
  temp,     \* the temporary file of each run
  artifact, \* the file at the output path
  exit,     \* the exit code of each run, or None
  mid       \* history: the project when the first measurement of a run was
            \* complete, or NoReadings

results == <<temp, artifact>>
vars == <<world, pc, next, guard, evidence, broken, temp, artifact, exit, mid>>

Phases == {"idle", "before", "evidence", "after", "recheck", "create", "fill", "replace",
           "written", "done", "dead"}
Content == {"none", "empty", "whole"}

TypeOK ==
  /\ world \in [Part -> Version]
  /\ pc \in [Run -> Phases]
  /\ next \in [Run -> 1..(LastPart + 1)]
  /\ guard \in [Run -> [{"before", "after"} -> Readings]]
  /\ evidence \in [Run -> Readings]
  /\ broken \in [Run -> BOOLEAN]
  /\ temp \in [Run -> Content]
  /\ artifact \in [by : Run \union {NoRun}, content : Content,
                   guard : [{"before", "after"} -> Readings], evidence : Readings,
                   complete : BOOLEAN]
  /\ exit \in [Run -> {None, 0, 2, 3, 4}]
  /\ mid \in [Run -> [Part -> Version] \union {NoReadings}]

Init ==
  /\ world \in {[i \in Part |-> IF i = HEAD THEN v ELSE 0] : v \in {Unborn, 1}}
  /\ world[HEAD] = Unborn => Attached
  /\ pc = [c \in Run |-> "idle"]
  /\ next = [c \in Run |-> 1]
  /\ guard = [c \in Run |-> NoGuards]
  /\ evidence = [c \in Run |-> NoReadings]
  /\ broken = [c \in Run |-> FALSE]
  /\ temp = [c \in Run |-> "none"]
  /\ artifact = NoArtifact
  /\ exit = [c \in Run |-> None]
  /\ mid = [c \in Run |-> NoReadings]

-----------------------------------------------------------------------------
(* The owner of the project, who knows nothing of the runs *)

\* A version never comes back: a change that is undone between two measurements
\* is what comparing endpoints cannot see (docs/limitations.md).
Mutate ==
  /\ \E i \in Part \intersect MayChange, v \in Version :
       /\ v > world[i]
       /\ world' = [world EXCEPT ![i] = v]
  /\ UNCHANGED <<pc, next, guard, evidence, broken, temp, artifact, exit, mid>>

-----------------------------------------------------------------------------
(* Steps of a run *)

Goto(c, phase) == pc' = [pc EXCEPT ![c] = phase] /\ next' = [next EXCEPT ![c] = 1]

\* What a run has in memory goes with it.
Forget(c) ==
  /\ guard' = [guard EXCEPT ![c] = NoGuards]
  /\ evidence' = [evidence EXCEPT ![c] = NoReadings]
  /\ broken' = [broken EXCEPT ![c] = FALSE]
  /\ mid' = [mid EXCEPT ![c] = NoReadings]

Continue(c, phase) == Goto(c, phase) /\ UNCHANGED <<guard, evidence, broken, exit, mid>>

End(c, code) == Goto(c, "done") /\ exit' = [exit EXCEPT ![c] = code] /\ Forget(c)

\* The request is validated before anything is read.
Start(c) ==
  /\ pc[c] = "idle"
  /\ Continue(c, "before") \/ End(c, 2)
  /\ UNCHANGED <<world, results>>

\* What is recorded when a read fails.  When rev-parse HEAD fails and HEAD is
\* symbolic, the adapter takes the branch for unborn and drops the failure.
FailedReading(i) ==
  IF i \notin MayFail THEN {}
  ELSE IF i \in Files THEN {Unreadable}
  ELSE IF i = HEAD /\ Attached THEN {None, Unborn}
  ELSE {None}

\* One more part of a measurement.
Measure(c, g) ==
  /\ pc[c] = g
  /\ next[c] \in Part
  /\ \E r \in {world[next[c]]} \union FailedReading(next[c]) :
       guard' = [guard EXCEPT ![c][g][next[c]] = r]
  /\ next' = [next EXCEPT ![c] = next[c] + 1]
  /\ UNCHANGED <<world, pc, evidence, broken, results, exit, mid>>

\* The project is not a repository, its configuration is unsafe, the top level
\* cannot be determined, or the second measurement raises: nothing is measured.
MeasureNothing(c, g) ==
  /\ pc[c] = g
  /\ next[c] = 1 \/ (g = "after" /\ next[c] \in Part)
  /\ guard' = [guard EXCEPT ![c][g] = NoReadings]
  /\ next' = [next EXCEPT ![c] = LastPart + 1]
  /\ UNCHANGED <<world, pc, evidence, broken, results, exit, mid>>

\* git ls-files fails: no file is measured.
ListFails(c, g) ==
  /\ pc[c] = g
  /\ next[c] = 4
  /\ next' = [next EXCEPT ![c] = LastPart + 1]
  /\ UNCHANGED <<world, pc, guard, evidence, broken, results, exit, mid>>

ProofCapable(readings) == \A i \in Part : readings[i] \notin {None, Unreadable}

\* Without a complete first measurement no evidence is collected.
CheckBefore(c) ==
  /\ pc[c] = "before"
  /\ next[c] = LastPart + 1
  /\ IF ProofCapable(guard[c]["before"])
       THEN /\ Goto(c, "evidence")
            /\ mid' = [mid EXCEPT ![c] = world]
            /\ UNCHANGED <<guard, evidence, broken, exit>>
       ELSE End(c, 3)
  /\ UNCHANGED <<world, results>>

\* The evidence about a part; without a commit there is none about HEAD, and a
\* failed read is recorded as unavailable.
Collect(c) ==
  /\ pc[c] = "evidence"
  /\ next[c] \in Part
  /\ \E r \in {world[next[c]]} \union {None} :
       /\ next[c] = HEAD => r # Unborn
       /\ r = None => next[c] \in MayFail \union {HEAD}
       /\ evidence' = [evidence EXCEPT ![c][next[c]] = r]
  /\ next' = [next EXCEPT ![c] = next[c] + 1]
  /\ UNCHANGED <<world, pc, guard, broken, results, exit, mid>>

\* Collecting ends, or raises; the second measurement is made all the same.
EndCollect(c) ==
  /\ pc[c] = "evidence"
  /\ \/ next[c] = LastPart + 1 /\ UNCHANGED broken
     \/ next[c] \in Part /\ broken' = [broken EXCEPT ![c] = TRUE]
  /\ Goto(c, "after")
  /\ UNCHANGED <<world, guard, evidence, results, exit, mid>>

-----------------------------------------------------------------------------
(* The verdict *)

\* Mutants: a missing measurement counts as a change; the tracked files are not
\* compared.
DiffersOrMissing(c, i) == guard[c]["before"][i] # guard[c]["after"][i]
DiffersInRepository(c, i) ==
  /\ i \notin Files
  /\ guard[c]["before"][i] # None
  /\ guard[c]["after"][i] # None
  /\ guard[c]["before"][i] # guard[c]["after"][i]

Differs(c, i) ==
  /\ guard[c]["before"][i] # None
  /\ guard[c]["after"][i] # None
  /\ guard[c]["before"][i] # guard[c]["after"][i]

\* Mutant: an incomplete second measurement is good enough.
CompareOnly(c) ==
  /\ pc[c] = "after"
  /\ next[c] = LastPart + 1
  /\ IF \E i \in Part : Differs(c, i) THEN End(c, 4)
     ELSE IF broken[c] THEN End(c, 3)
     ELSE Continue(c, "recheck")
  /\ UNCHANGED <<world, results>>

\* A definite change outweighs an incomplete measurement, and that a failure to
\* collect.
Compare(c) ==
  /\ pc[c] = "after"
  /\ next[c] = LastPart + 1
  /\ IF \E i \in Part : Differs(c, i) THEN End(c, 4)
     ELSE IF ~ProofCapable(guard[c]["after"]) \/ broken[c] THEN End(c, 3)
     ELSE Continue(c, "recheck")
  /\ UNCHANGED <<world, results>>

\* The request is validated again: the output path may have become a link.
Recheck(c) ==
  /\ pc[c] = "recheck"
  /\ Continue(c, "create") \/ End(c, 2)
  /\ UNCHANGED <<world, results>>

-----------------------------------------------------------------------------
(* Writing the snapshot *)

CreateTemp(c) ==
  /\ pc[c] = "create"
  /\ \/ Continue(c, "fill") /\ temp' = [temp EXCEPT ![c] = "empty"]
     \/ End(c, 3) /\ UNCHANGED temp
  /\ UNCHANGED <<world, artifact>>

Fill(c) ==
  /\ pc[c] = "fill"
  /\ Continue(c, "replace")
  /\ temp' = [temp EXCEPT ![c] = "whole"]
  /\ UNCHANGED <<world, artifact>>

\* The file at the output path becomes the temporary file of the run.
Install(c) ==
  /\ artifact' = [by |-> c, content |-> temp[c], guard |-> guard[c],
                  evidence |-> evidence[c], complete |-> ~broken[c]]
  /\ temp' = [temp EXCEPT ![c] = "none"]

\* Mutant: the file is put in place before its content is flushed.
ReplaceEarly(c) ==
  /\ pc[c] \in {"fill", "replace"}
  /\ Continue(c, "written")
  /\ Install(c)
  /\ UNCHANGED world

Replace(c) ==
  /\ pc[c] = "replace"
  /\ Continue(c, "written")
  /\ Install(c)
  /\ UNCHANGED world

\* Mutants: a failed write is tried again from the start; a write whose outcome
\* is uncertain is reported as failed; an exception ends the process with 1.
WriteRaises(c) ==
  /\ pc[c] \in {"fill", "replace"}
  /\ End(c, 1)
  /\ temp' = [temp EXCEPT ![c] = "none"]
  /\ UNCHANGED <<world, artifact>>
WriteIsRetried(c) ==
  /\ pc[c] \in {"fill", "replace"}
  /\ Continue(c, "create")
  /\ temp' = [temp EXCEPT ![c] = "none"]
  /\ UNCHANGED <<world, artifact>>
WriteFailsLate(c) ==
  /\ pc[c] \in {"fill", "replace", "written"}
  /\ End(c, 3)
  /\ temp' = [temp EXCEPT ![c] = "none"]
  /\ UNCHANGED <<world, artifact>>

\* Writing or replacing fails: the temporary file is removed, unless that fails
\* too.  An OSError becomes exit code 3; any other exception reaches the caller.
WriteFails(c) ==
  /\ pc[c] \in {"fill", "replace"}
  /\ \/ End(c, 3)
     \/ pc[c] = "fill" /\ Goto(c, "dead") /\ Forget(c) /\ UNCHANGED exit
  /\ temp' = [temp EXCEPT ![c] = "none"] \/ UNCHANGED temp
  /\ UNCHANGED <<world, artifact>>

Return(c) ==
  /\ pc[c] = "written"
  /\ End(c, 0)
  /\ UNCHANGED <<world, results>>

\* The process is killed, or an exception that nothing catches ends the run.
Die(c) ==
  /\ pc[c] \notin {"idle", "done", "dead"}
  /\ Goto(c, "dead")
  /\ Forget(c)
  /\ UNCHANGED <<world, results, exit>>

-----------------------------------------------------------------------------

RunStep(c) ==
  \/ \E g \in {"before", "after"} : Measure(c, g) \/ MeasureNothing(c, g) \/ ListFails(c, g)
  \/ CheckBefore(c)
  \/ Collect(c)
  \/ EndCollect(c)
  \/ Compare(c)
  \/ Recheck(c)
  \/ CreateTemp(c)
  \/ Fill(c)
  \/ Replace(c)
  \/ WriteFails(c)
  \/ Return(c)

Next == Mutate \/ \E c \in Run : Start(c) \/ RunStep(c) \/ Die(c)

Spec == Init /\ [][Next]_vars

\* A run that was started goes on: every command it waits for has a time limit.
FairSpec == Spec /\ \A c \in Run : WF_vars(RunStep(c))

-----------------------------------------------------------------------------
(* Properties *)

\* The run has compared its measurements and may write, or has written.
Passed(c) == pc[c] \in {"recheck", "create", "fill", "replace", "written"}

\* Whatever became of the run that wrote it, the file at the output path is
\* whole, and rests on two complete, equal measurements and on evidence whose
\* collection did not fail.
ArtifactIsProven ==
  artifact.by # NoRun =>
    /\ artifact.content = "whole"
    /\ artifact.guard["before"] = artifact.guard["after"]
    /\ ProofCapable(artifact.guard["before"])
    /\ artifact.complete

\* A run that reports a failure has not put its file in place, even if another
\* one did, and one that reports success has left a file at the output path.
ExitTellsTheArtifact ==
  /\ artifact.by # NoRun => exit[artifact.by] \in {None, 0}
  /\ \A c \in Run : exit[c] = 0 => artifact.by # NoRun

\* Although every part is read at another moment while the owner goes on
\* working, a run that passes has measured what the project was at one instant,
\* the end of its first measurement, and its evidence is of that same instant.
\* HEAD is the exception: its measurement may be the unborn marker.
PassIsASnapshot ==
  \A c \in Run : Passed(c) =>
    \A i \in Part :
      \/ guard[c]["before"][i] = mid[c][i] /\ evidence[c][i] \in {None, mid[c][i]}
      \/ i = HEAD /\ guard[c]["before"][i] = Unborn

\* Exit code 4 is not given for measurements that are merely missing: a part is
\* no longer what the first measurement found, or a read that failed was recorded
\* as something else than missing (an unreadable file, an unborn HEAD).
ViolationIsReal ==
  [][\A c \in Run : exit'[c] = 4 /\ exit[c] # 4 =>
       \E i \in Part :
         /\ Differs(c, i)
         /\ \/ world[i] # guard[c]["before"][i]
            \/ guard[c]["after"][i] = Unreadable
            \/ i = HEAD /\ guard[c]["after"][i] = Unborn]_vars

\* A run that was started comes to an end: it returns, raises or is killed.
EveryRunEnds == \A c \in Run : pc[c] = "before" ~> pc[c] \in {"done", "dead"}

\* What a reader of the artifact sees of the runs.
Kept ==
  [by |-> artifact.by, guard |-> artifact.guard["before"], evidence |-> artifact.evidence]
OutcomeOf(c) ==
  IF exit[c] = 0 THEN "pass"
  ELSE IF exit[c] # None THEN "fail"
  ELSE IF pc[c] = "written" THEN "kept"
  ELSE IF pc[c] = "dead" THEN "gone"
  ELSE "open"

Store == INSTANCE ShadowStore
           WITH taken <- mid, kept <- Kept, outcome <- [c \in Run |-> OutcomeOf(c)]

\* Every run, however its reads interleave with the owner's changes and with
\* other runs, amounts to taking the project at one instant and keeping it whole.
ImplementsStore == Store!Spec

=============================================================================
