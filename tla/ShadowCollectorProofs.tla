------------------------ MODULE ShadowCollectorProofs ------------------------
(***************************************************************************)
(* Proofs about the Shadow collector, for any number of concurrent runs,   *)
(* of tracked files and of versions, and whichever reads may fail.         *)
(*                                                                         *)
(* The inductive invariant follows each run (RunInv).  Versions only grow, *)
(* so what the first measurement found is at most the project at the end   *)
(* of it, and that is at most what evidence and second measurement find    *)
(* (Bracketed); when the two ends are equal, so is everything in between.  *)
(***************************************************************************)
EXTENDS ShadowCollector, TLAPS

Before(c, i) == guard[c]["before"][i]
After(c, i) == guard[c]["after"][i]

Taken(c) ==
  /\ mid[c] \in [Part -> Version]
  /\ \A i \in Part :
       /\ Before(c, i) \in Version
       /\ Before(c, i) =< mid[c][i]
       /\ mid[c][i] =< world[i]
       /\ evidence[c][i] \in Version \union {None}
       /\ evidence[c][i] # None => mid[c][i] =< evidence[c][i] /\ evidence[c][i] =< world[i]

Bracketed(c) ==
  \A i \in Part : After(c, i) \in Version =>
    \/ i = HEAD /\ After(c, i) = Unborn
    \/ /\ mid[c][i] =< After(c, i)
       /\ After(c, i) =< world[i]
       /\ evidence[c][i] # None => evidence[c][i] =< After(c, i)

Snapshot(c) ==
  /\ \A i \in Part : Before(c, i) = After(c, i)
  /\ ~broken[c]
  /\ \A i \in Part :
       \/ Before(c, i) = mid[c][i] /\ evidence[c][i] \in {None, mid[c][i]}
       \/ i = HEAD /\ Before(c, i) = Unborn

RunInv(c) ==
  /\ \A i \in Part : Before(c, i) \in Version => Before(c, i) =< world[i]
  /\ pc[c] \in {"idle", "before"} => mid[c] = NoReadings /\ evidence[c] = NoReadings
  /\ pc[c] \in {"idle", "before", "evidence"} => guard[c]["after"] = NoReadings
  /\ pc[c] \in {"evidence", "after"} \/ Passed(c) => Taken(c)
  /\ pc[c] = "after" => Bracketed(c)
  /\ Passed(c) => Snapshot(c)
  /\ pc[c] = "replace" => temp[c] = "whole"
  /\ exit[c] # None => pc[c] = "done"

ArtifactInv ==
  artifact.by # NoRun =>
    /\ pc[artifact.by] \in {"written", "dead"} \/ exit[artifact.by] = 0
    /\ ArtifactIsProven

IInv ==
  /\ TypeOK
  /\ \A c \in Run : RunInv(c)
  /\ ArtifactInv
  /\ \A c \in Run : pc[c] = "written" \/ exit[c] = 0 => artifact.by # NoRun
-----------------------------------------------------------------------------
(* Type correctness *)

LEMMA PartFacts ==
  /\ HEAD \in Part /\ LastPart \in Nat /\ 4 \in Part
  /\ Part \subseteq Nat /\ LastPart + 1 \in 1..(LastPart + 1) /\ 1 \in 1..(LastPart + 1)
  /\ \A n \in Part : n + 1 \in 1..(LastPart + 1)
  BY TrackedFilesAssumption DEF HEAD, Part, LastPart

LEMMA ReadingFacts ==
  /\ Unborn \in Version /\ 1 \in Version
  /\ Version \subseteq Nat
  /\ None \notin Version /\ Unreadable \notin Version /\ None # Unreadable
  /\ NoReadings \in Readings /\ NoGuards \in [{"before", "after"} -> Readings]
  BY MaxVersionAssumption, MarkersAssumption
     DEF Unborn, Version, NoReadings, Readings, Reading, NoGuards

LEMMA FailedIsReading == \A i \in Part : FailedReading(i) \subseteq Reading
  BY ReadingFacts DEF FailedReading, Reading

LEMMA InitIsTyped == Init => TypeOK
<1> SUFFICES ASSUME Init PROVE TypeOK
  OBVIOUS
<1>1. world \in [Part -> Version]
  <2>1. 0 \in Version /\ 1 \in Version
    BY ReadingFacts DEF Unborn
  <2> QED
    BY <2>1 DEF Init, Unborn
<1>2. artifact \in [by : Run \union {NoRun}, content : Content,
                    guard : [{"before", "after"} -> Readings], evidence : Readings,
                    complete : BOOLEAN]
  BY ReadingFacts DEF Init, NoArtifact, Content
<1> QED
  BY <1>1, <1>2, ReadingFacts, PartFacts DEF Init, TypeOK, Phases, Content

LEMMA GotoIsTyped ==
  ASSUME TypeOK, NEW c \in Run, NEW phase \in Phases, Goto(c, phase)
  PROVE  pc' \in [Run -> Phases] /\ next' \in [Run -> 1..(LastPart + 1)]
  BY PartFacts DEF Goto, TypeOK

LEMMA ForgetIsTyped ==
  ASSUME TypeOK, NEW c \in Run, Forget(c)
  PROVE  /\ guard' \in [Run -> [{"before", "after"} -> Readings]]
         /\ evidence' \in [Run -> Readings]
         /\ broken' \in [Run -> BOOLEAN]
         /\ mid' \in [Run -> [Part -> Version] \union {NoReadings}]
  BY ReadingFacts DEF Forget, TypeOK

LEMMA EndIsTyped ==
  ASSUME TypeOK, NEW c \in Run, NEW code \in {0, 2, 3, 4}, End(c, code)
  PROVE  /\ pc' \in [Run -> Phases] /\ next' \in [Run -> 1..(LastPart + 1)]
         /\ guard' \in [Run -> [{"before", "after"} -> Readings]]
         /\ evidence' \in [Run -> Readings]
         /\ broken' \in [Run -> BOOLEAN]
         /\ exit' \in [Run -> {None, 0, 2, 3, 4}]
         /\ mid' \in [Run -> [Part -> Version] \union {NoReadings}]
<1>1. Goto(c, "done") /\ "done" \in Phases
  BY DEF End, Phases
<1>2. pc' \in [Run -> Phases] /\ next' \in [Run -> 1..(LastPart + 1)]
  BY <1>1, GotoIsTyped
<1>3. Forget(c)
  BY DEF End
<1> QED
  BY <1>2, <1>3, ForgetIsTyped DEF End, TypeOK

LEMMA ContinueIsTyped ==
  ASSUME TypeOK, NEW c \in Run, NEW phase \in Phases, Continue(c, phase)
  PROVE  /\ pc' \in [Run -> Phases] /\ next' \in [Run -> 1..(LastPart + 1)]
         /\ guard' \in [Run -> [{"before", "after"} -> Readings]]
         /\ evidence' \in [Run -> Readings]
         /\ broken' \in [Run -> BOOLEAN]
         /\ exit' \in [Run -> {None, 0, 2, 3, 4}]
         /\ mid' \in [Run -> [Part -> Version] \union {NoReadings}]
<1>1. pc' \in [Run -> Phases] /\ next' \in [Run -> 1..(LastPart + 1)]
  BY GotoIsTyped DEF Continue
<1> QED
  BY <1>1 DEF Continue, TypeOK

LEMMA ArtifactIsTyped ==
  ASSUME TypeOK, NEW c \in Run, Install(c)
  PROVE  /\ artifact' \in [by : Run \union {NoRun}, content : Content,
                           guard : [{"before", "after"} -> Readings], evidence : Readings,
                           complete : BOOLEAN]
         /\ temp' \in [Run -> Content]
<1>1. /\ temp[c] \in Content /\ evidence[c] \in Readings
      /\ guard[c] \in [{"before", "after"} -> Readings]
  BY DEF TypeOK
<1>2. "none" \in Content
  BY DEF Content
<1>3. temp' \in [Run -> Content]
  BY <1>2 DEF Install, TypeOK
<1>4. (~broken[c]) \in BOOLEAN
  OBVIOUS
<1> QED
  BY <1>1, <1>3, <1>4 DEF Install

LEMMA MeasureIsTyped ==
  ASSUME TypeOK, NEW c \in Run, NEW g \in {"before", "after"}, Measure(c, g)
  PROVE  guard' \in [Run -> [{"before", "after"} -> Readings]]
<1>1. PICK r \in {world[next[c]]} \union FailedReading(next[c]) :
        guard' = [guard EXCEPT ![c][g][next[c]] = r]
  BY DEF Measure
<1>2. next[c] \in Part
  BY DEF Measure
<1>3. world[next[c]] \in Reading
  BY <1>2 DEF TypeOK, Reading
<1>4. r \in Reading
  BY <1>2, <1>3, FailedIsReading
<1>5. guard[c] \in [{"before", "after"} -> Readings] /\ guard[c][g] \in [Part -> Reading]
  BY DEF TypeOK, Readings
<1>6. [guard[c][g] EXCEPT ![next[c]] = r] \in Readings
  BY <1>4, <1>5 DEF Readings
<1>7. [guard[c] EXCEPT ![g] = [guard[c][g] EXCEPT ![next[c]] = r]]
        \in [{"before", "after"} -> Readings]
  BY <1>5, <1>6
<1> QED
  BY <1>1, <1>7 DEF TypeOK

LEMMA MeasureNothingIsTyped ==
  ASSUME TypeOK, NEW c \in Run, NEW g \in {"before", "after"}, MeasureNothing(c, g)
  PROVE  guard' \in [Run -> [{"before", "after"} -> Readings]]
<1>1. [guard[c] EXCEPT ![g] = NoReadings] \in [{"before", "after"} -> Readings]
  BY ReadingFacts DEF TypeOK
<1> QED
  BY <1>1 DEF MeasureNothing, TypeOK

LEMMA CollectIsTyped ==
  ASSUME TypeOK, NEW c \in Run, Collect(c)
  PROVE  evidence' \in [Run -> Readings]
<1>1. PICK r \in {world[next[c]]} \union {None} :
        evidence' = [evidence EXCEPT ![c][next[c]] = r]
  BY DEF Collect
<1>2. next[c] \in Part
  BY DEF Collect
<1>3. r \in Reading
  BY <1>2 DEF TypeOK, Reading
<1>4. [evidence[c] EXCEPT ![next[c]] = r] \in Readings
  BY <1>3 DEF TypeOK, Readings
<1> QED
  BY <1>1, <1>4 DEF TypeOK

LEMMA StepIsTyped == TypeOK /\ [Next]_vars => TypeOK'
<1> SUFFICES ASSUME TypeOK, [Next]_vars PROVE TypeOK'
  OBVIOUS
<1> USE DEF results
<1>1. CASE Mutate
  BY <1>1 DEF Mutate, TypeOK
<1>2. ASSUME NEW c \in Run, Start(c) PROVE TypeOK'
  <2>1. CASE Continue(c, "before")
    BY <1>2, <2>1, ContinueIsTyped DEF Start, TypeOK, Phases
  <2>2. CASE End(c, 2)
    BY <1>2, <2>2, EndIsTyped DEF Start, TypeOK
  <2> QED
    BY <1>2, <2>1, <2>2 DEF Start
<1>3. ASSUME NEW c \in Run, NEW g \in {"before", "after"}, Measure(c, g) PROVE TypeOK'
  <2>1. guard' \in [Run -> [{"before", "after"} -> Readings]]
    BY <1>3, MeasureIsTyped
  <2>2. next' \in [Run -> 1..(LastPart + 1)]
    BY <1>3, PartFacts DEF Measure, TypeOK
  <2> QED
    BY <1>3, <2>1, <2>2 DEF Measure, TypeOK
<1>4. ASSUME NEW c \in Run, NEW g \in {"before", "after"}, MeasureNothing(c, g) PROVE TypeOK'
  <2>1. guard' \in [Run -> [{"before", "after"} -> Readings]]
    BY <1>4, MeasureNothingIsTyped
  <2>2. next' \in [Run -> 1..(LastPart + 1)]
    BY <1>4, PartFacts DEF MeasureNothing, TypeOK
  <2> QED
    BY <1>4, <2>1, <2>2 DEF MeasureNothing, TypeOK
<1>5. ASSUME NEW c \in Run, NEW g \in {"before", "after"}, ListFails(c, g) PROVE TypeOK'
  <2>1. next' \in [Run -> 1..(LastPart + 1)]
    BY <1>5, PartFacts DEF ListFails, TypeOK
  <2> QED
    BY <1>5, <2>1 DEF ListFails, TypeOK
<1>6. ASSUME NEW c \in Run, CheckBefore(c) PROVE TypeOK'
  <2>1. CASE ProofCapable(guard[c]["before"])
    <3>1. pc' \in [Run -> Phases] /\ next' \in [Run -> 1..(LastPart + 1)]
      BY <1>6, <2>1, GotoIsTyped DEF CheckBefore, Phases
    <3>2. mid' \in [Run -> [Part -> Version] \union {NoReadings}]
      BY <1>6, <2>1 DEF CheckBefore, TypeOK
    <3> QED
      BY <1>6, <2>1, <3>1, <3>2 DEF CheckBefore, TypeOK
  <2>2. CASE ~ProofCapable(guard[c]["before"])
    <3>1. End(c, 3)
      BY <1>6, <2>2 DEF CheckBefore
    <3> QED
      BY <1>6, <3>1, EndIsTyped DEF CheckBefore, TypeOK
  <2> QED
    BY <2>1, <2>2
<1>7. ASSUME NEW c \in Run, Collect(c) PROVE TypeOK'
  <2>1. evidence' \in [Run -> Readings]
    BY <1>7, CollectIsTyped
  <2>2. next' \in [Run -> 1..(LastPart + 1)]
    BY <1>7, PartFacts DEF Collect, TypeOK
  <2> QED
    BY <1>7, <2>1, <2>2 DEF Collect, TypeOK
<1>8. ASSUME NEW c \in Run, EndCollect(c) PROVE TypeOK'
  <2>1. pc' \in [Run -> Phases] /\ next' \in [Run -> 1..(LastPart + 1)]
    BY <1>8, GotoIsTyped DEF EndCollect, Phases
  <2>2. broken' \in [Run -> BOOLEAN]
    BY <1>8 DEF EndCollect, TypeOK
  <2> QED
    BY <1>8, <2>1, <2>2 DEF EndCollect, TypeOK
<1>9. ASSUME NEW c \in Run, Compare(c) PROVE TypeOK'
  <2>1. CASE End(c, 4)
    BY <1>9, <2>1, EndIsTyped DEF Compare, TypeOK
  <2>2. CASE End(c, 3)
    BY <1>9, <2>2, EndIsTyped DEF Compare, TypeOK
  <2>3. CASE Continue(c, "recheck")
    BY <1>9, <2>3, ContinueIsTyped DEF Compare, TypeOK, Phases
  <2> QED
    BY <1>9, <2>1, <2>2, <2>3 DEF Compare
<1>10. ASSUME NEW c \in Run, Recheck(c) PROVE TypeOK'
  <2>1. CASE Continue(c, "create")
    BY <1>10, <2>1, ContinueIsTyped DEF Recheck, TypeOK, Phases
  <2>2. CASE End(c, 2)
    BY <1>10, <2>2, EndIsTyped DEF Recheck, TypeOK
  <2> QED
    BY <1>10, <2>1, <2>2 DEF Recheck
<1>11. ASSUME NEW c \in Run, CreateTemp(c) PROVE TypeOK'
  <2>1. temp' \in [Run -> Content]
    BY <1>11 DEF CreateTemp, TypeOK, Content
  <2>2. CASE Continue(c, "fill")
    BY <1>11, <2>1, <2>2, ContinueIsTyped DEF CreateTemp, TypeOK, Phases
  <2>3. CASE End(c, 3)
    BY <1>11, <2>1, <2>3, EndIsTyped DEF CreateTemp, TypeOK
  <2> QED
    BY <1>11, <2>2, <2>3 DEF CreateTemp
<1>12. ASSUME NEW c \in Run, Fill(c) PROVE TypeOK'
  <2>1. temp' \in [Run -> Content]
    BY <1>12 DEF Fill, TypeOK, Content
  <2> QED
    BY <1>12, <2>1, ContinueIsTyped DEF Fill, TypeOK, Phases
<1>13. ASSUME NEW c \in Run, Replace(c) PROVE TypeOK'
  BY <1>13, ContinueIsTyped, ArtifactIsTyped DEF Replace, TypeOK, Phases
<1>14. ASSUME NEW c \in Run, WriteFails(c) PROVE TypeOK'
  <2>1. temp' \in [Run -> Content]
    BY <1>14 DEF WriteFails, TypeOK, Content
  <2>2. CASE End(c, 3)
    BY <1>14, <2>1, <2>2, EndIsTyped DEF WriteFails, TypeOK
  <2>3. CASE Goto(c, "dead") /\ Forget(c) /\ UNCHANGED exit
    BY <1>14, <2>1, <2>3, GotoIsTyped, ForgetIsTyped DEF WriteFails, TypeOK, Phases
  <2> QED
    BY <1>14, <2>2, <2>3 DEF WriteFails
<1>15. ASSUME NEW c \in Run, Return(c) PROVE TypeOK'
  BY <1>15, EndIsTyped DEF Return, TypeOK
<1>16. ASSUME NEW c \in Run, Die(c) PROVE TypeOK'
  BY <1>16, GotoIsTyped, ForgetIsTyped DEF Die, TypeOK, Phases
<1>17. CASE UNCHANGED vars
  BY <1>17 DEF vars, TypeOK
<1> QED
  BY <1>1, <1>2, <1>3, <1>4, <1>5, <1>6, <1>7, <1>8, <1>9, <1>10, <1>11, <1>12, <1>13,
     <1>14, <1>15, <1>16, <1>17 DEF Next, RunStep

\* In every reachable state, every variable of the collector has its type.
THEOREM TypeCorrect == Spec => []TypeOK
<1>1. Init => TypeOK
  BY InitIsTyped
<1>2. TypeOK /\ [Next]_vars => TypeOK'
  BY StepIsTyped
<1> QED
  BY <1>1, <1>2, PTL DEF Spec

-----------------------------------------------------------------------------
(* What a run holds is not disturbed by the owner or by another run *)

SameRun(d) ==
  /\ pc'[d] = pc[d] /\ guard'[d] = guard[d] /\ evidence'[d] = evidence[d]
  /\ broken'[d] = broken[d] /\ temp'[d] = temp[d] /\ exit'[d] = exit[d] /\ mid'[d] = mid[d]

Acts(c) == Start(c) \/ RunStep(c) \/ Die(c)

LEMMA GrowingWorld ==
  ASSUME TypeOK, TypeOK', NEW d \in Run, RunInv(d), SameRun(d),
         \A i \in Part : world[i] =< world'[i]
  PROVE  RunInv(d)'
<1>1. world \in [Part -> Nat] /\ world' \in [Part -> Nat]
  BY ReadingFacts DEF TypeOK
<1>2. \A i \in Part : Before(d, i)' = Before(d, i) /\ After(d, i)' = After(d, i)
  BY DEF SameRun, Before, After
<1>3. \A v \in Version, i \in Part : v =< world[i] => v =< world'[i]
  <2> SUFFICES ASSUME NEW v \in Version, NEW i \in Part, v =< world[i]
               PROVE  v =< world'[i]
    OBVIOUS
  <2>1. v \in Nat /\ world[i] \in Nat /\ world'[i] \in Nat /\ world[i] =< world'[i]
    BY <1>1, ReadingFacts
  <2> QED
    BY <2>1
<1>4. Passed(d)' = Passed(d)
  BY DEF Passed, SameRun
<1>5. Taken(d) => Taken(d)'
  <2> SUFFICES ASSUME Taken(d) PROVE Taken(d)'
    OBVIOUS
  <2>1. mid'[d] = mid[d] /\ evidence'[d] = evidence[d]
    BY DEF SameRun
  <2>2. mid[d] \in [Part -> Version]
    BY DEF Taken
  <2>3. ASSUME NEW i \in Part
        PROVE  /\ Before(d, i)' \in Version
               /\ Before(d, i)' =< mid'[d][i]
               /\ mid'[d][i] =< world'[i]
               /\ evidence'[d][i] \in Version \union {None}
               /\ evidence'[d][i] # None =>
                    mid'[d][i] =< evidence'[d][i] /\ evidence'[d][i] =< world'[i]
    <3>1. /\ Before(d, i) \in Version
          /\ Before(d, i) =< mid[d][i]
          /\ mid[d][i] =< world[i]
          /\ evidence[d][i] \in Version \union {None}
          /\ evidence[d][i] # None =>
               mid[d][i] =< evidence[d][i] /\ evidence[d][i] =< world[i]
      BY DEF Taken
    <3>2. mid[d][i] \in Version
      BY <2>2
    <3> QED
      BY <2>1, <3>1, <3>2, <1>2, <1>3
  <2> QED
    BY <2>1, <2>2, <2>3 DEF Taken
<1>6. Bracketed(d) => Bracketed(d)'
  <2> SUFFICES ASSUME Bracketed(d) PROVE Bracketed(d)'
    OBVIOUS
  <2>1. mid'[d] = mid[d] /\ evidence'[d] = evidence[d]
    BY DEF SameRun
  <2> QED
    BY <2>1, <1>2, <1>3 DEF Bracketed
<1>7. Snapshot(d) => Snapshot(d)'
  BY <1>2 DEF Snapshot, SameRun
<1> QED
  BY <1>2, <1>3, <1>4, <1>5, <1>6, <1>7 DEF RunInv, SameRun

LEMMA ChangeGrows ==
  ASSUME TypeOK, Mutate
  PROVE  /\ \A i \in Part : world[i] =< world'[i]
         /\ \A d \in Run : SameRun(d)
<1>1. PICK j \in Part \intersect MayChange, v \in Version :
        v > world[j] /\ world' = [world EXCEPT ![j] = v]
  BY DEF Mutate
<1>2. world \in [Part -> Nat] /\ v \in Nat
  BY ReadingFacts DEF TypeOK
<1>3. ASSUME NEW i \in Part PROVE world[i] =< world'[i]
  <2>1. CASE i = j
    BY <1>1, <1>2, <2>1
  <2>2. CASE i # j
    BY <1>1, <1>2, <2>2
  <2> QED
    BY <2>1, <2>2
<1> QED
  BY <1>3 DEF Mutate, SameRun

LEMMA WorldStays ==
  ASSUME NEW c \in Run, Acts(c)
  PROVE  world' = world
  BY DEF Acts, Start, RunStep, Measure, MeasureNothing, ListFails, CheckBefore, Collect,
         EndCollect, Compare, Recheck, CreateTemp, Fill, Replace, WriteFails, Return, Die

LEMMA OthersStay ==
  ASSUME TypeOK, NEW c \in Run, Acts(c), NEW d \in Run, d # c
  PROVE  SameRun(d)
<1>1. /\ pc'[d] = pc[d] /\ temp'[d] = temp[d] /\ exit'[d] = exit[d] /\ broken'[d] = broken[d]
  BY DEF Acts, Start, RunStep, Measure, MeasureNothing, ListFails, CheckBefore, Collect,
         EndCollect, Compare, Recheck, CreateTemp, Fill, Replace, WriteFails, Return, Die,
         Continue, End, Goto, Forget, Install, results, TypeOK
<1>2. /\ guard'[d] = guard[d] /\ evidence'[d] = evidence[d] /\ mid'[d] = mid[d]
  BY DEF Acts, Start, RunStep, Measure, MeasureNothing, ListFails, CheckBefore, Collect,
         EndCollect, Compare, Recheck, CreateTemp, Fill, Replace, WriteFails, Return, Die,
         Continue, End, Goto, Forget, Install, results, TypeOK
<1> QED
  BY <1>1, <1>2 DEF SameRun

-----------------------------------------------------------------------------
(* The acting run *)

LEMMA InitEstablishes == Init => IInv
<1> SUFFICES ASSUME Init PROVE IInv
  OBVIOUS
<1>1. TypeOK
  BY InitIsTyped
<1>2. ASSUME NEW c \in Run PROVE RunInv(c)
  <2>1. pc[c] = "idle" /\ guard[c] = NoGuards /\ evidence[c] = NoReadings /\ exit[c] = None
        /\ mid[c] = NoReadings
    BY <1>2 DEF Init
  <2>2. \A i \in Part : Before(c, i) = None
    BY <2>1 DEF Before, NoGuards, NoReadings
  <2>3. guard[c]["after"] = NoReadings
    BY <2>1 DEF NoGuards
  <2> QED
    BY <2>1, <2>2, <2>3, ReadingFacts DEF RunInv, Passed
<1>3. artifact.by = NoRun
  BY DEF Init, NoArtifact
<1>4. ASSUME NEW c \in Run PROVE pc[c] # "written" /\ exit[c] # 0
  BY MarkersAssumption DEF Init
<1> QED
  BY <1>1, <1>2, <1>3, <1>4 DEF IInv, ArtifactInv

LEMMA EndedKeepsInv ==
  ASSUME TypeOK, NEW c \in Run, Forget(c), pc'[c] \in {"done", "dead"},
         exit'[c] # None => pc'[c] = "done"
  PROVE  RunInv(c)'
<1>1. guard'[c] = NoGuards /\ evidence'[c] = NoReadings /\ mid'[c] = NoReadings
  BY DEF Forget, TypeOK
<1>2. \A i \in Part : Before(c, i)' = None
  BY <1>1 DEF Before, NoGuards, NoReadings
<1> QED
  BY <1>1, <1>2, ReadingFacts DEF RunInv, Passed

LEMMA EndKeepsInv ==
  ASSUME TypeOK, NEW c \in Run, NEW code, End(c, code)
  PROVE  RunInv(c)' /\ pc'[c] = "done" /\ exit'[c] = code
<1>1. pc'[c] = "done" /\ exit'[c] = code
  BY DEF End, Goto, TypeOK
<1>2. Forget(c)
  BY DEF End
<1> QED
  BY <1>1, <1>2, EndedKeepsInv

LEMMA PassingKeepsInv ==
  ASSUME TypeOK, NEW c \in Run, NEW phase \in {"create", "fill", "replace", "written"},
         RunInv(c), Passed(c), Continue(c, phase), world' = world,
         phase = "replace" => temp'[c] = "whole"
  PROVE  RunInv(c)'
<1>1. pc'[c] = phase
  BY DEF Continue, Goto, TypeOK
<1>2. guard' = guard /\ evidence' = evidence /\ broken' = broken /\ exit' = exit /\ mid' = mid
  BY DEF Continue
<1>3. \A i \in Part : Before(c, i)' = Before(c, i) /\ After(c, i)' = After(c, i)
  BY <1>2 DEF Before, After
<1>4. Taken(c)' /\ Snapshot(c)'
  <2>1. Taken(c) /\ Snapshot(c)
    BY DEF RunInv
  <2>2. Taken(c)'
    BY <2>1, <1>2, <1>3 DEF Taken
  <2> QED
    BY <2>1, <2>2, <1>2, <1>3 DEF Snapshot
<1>5. exit'[c] = None
  BY <1>2 DEF RunInv, Passed
<1>6. \A i \in Part : Before(c, i)' \in Version => Before(c, i)' =< world'[i]
  BY <1>3 DEF RunInv
<1> QED
  BY <1>1, <1>4, <1>5, <1>6 DEF RunInv

LEMMA MeasureBeforeKeepsInv ==
  ASSUME TypeOK, NEW c \in Run, RunInv(c), Measure(c, "before")
  PROVE  RunInv(c)'
<1>1. PICK r \in {world[next[c]]} \union FailedReading(next[c]) :
        guard' = [guard EXCEPT ![c]["before"][next[c]] = r]
  BY DEF Measure
<1> DEFINE j == next[c]
<1>2. /\ pc' = pc /\ world' = world /\ evidence' = evidence /\ mid' = mid /\ exit' = exit
      /\ j \in Part /\ pc[c] = "before"
  BY DEF Measure
<1>3. guard[c] \in [{"before", "after"} -> Readings] /\ guard[c]["before"] \in [Part -> Reading]
  BY DEF TypeOK, Readings
<1>4. guard'[c]["after"] = guard[c]["after"]
  BY <1>1, <1>3 DEF TypeOK
<1>5. \A i \in Part : Before(c, i)' = IF i = j THEN r ELSE Before(c, i)
  BY <1>1, <1>3 DEF TypeOK, Before
<1>6. r \in Version => r =< world[j]
  <2>1. world[j] \in Nat
    BY <1>2, ReadingFacts DEF TypeOK
  <2>2. r = world[j] \/ r = Unreadable \/ r = None \/ r = Unborn
    BY DEF FailedReading
  <2> QED
    BY <2>1, <2>2, ReadingFacts DEF Unborn
<1>7. \A i \in Part : Before(c, i)' \in Version => Before(c, i)' =< world'[i]
  BY <1>2, <1>5, <1>6 DEF RunInv
<1> QED
  BY <1>2, <1>4, <1>7 DEF RunInv, Passed

LEMMA MeasureAfterKeepsInv ==
  ASSUME TypeOK, NEW c \in Run, RunInv(c), Measure(c, "after")
  PROVE  RunInv(c)'
<1>1. PICK r \in {world[next[c]]} \union FailedReading(next[c]) :
        guard' = [guard EXCEPT ![c]["after"][next[c]] = r]
  BY DEF Measure
<1> DEFINE j == next[c]
<1>2. /\ pc' = pc /\ world' = world /\ evidence' = evidence /\ mid' = mid /\ exit' = exit
      /\ j \in Part /\ pc[c] = "after"
  BY DEF Measure
<1>3. guard[c] \in [{"before", "after"} -> Readings] /\ guard[c]["after"] \in [Part -> Reading]
  BY DEF TypeOK, Readings
<1>4. \A i \in Part : Before(c, i)' = Before(c, i)
  BY <1>1, <1>3 DEF TypeOK, Before
<1>5. \A i \in Part : After(c, i)' = IF i = j THEN r ELSE After(c, i)
  BY <1>1, <1>3 DEF TypeOK, After
<1>6. Taken(c) /\ Bracketed(c)
  BY <1>2 DEF RunInv
<1>7. r = world[j] \/ r \notin Version \/ (j = HEAD /\ r = Unborn)
  BY ReadingFacts DEF FailedReading
<1>8. Taken(c)'
  BY <1>2, <1>4, <1>6 DEF Taken
<1>9. Bracketed(c)'
  <2> SUFFICES ASSUME NEW i \in Part, After(c, i)' \in Version
               PROVE  \/ i = HEAD /\ After(c, i)' = Unborn
                      \/ /\ mid[c][i] =< After(c, i)'
                         /\ After(c, i)' =< world[i]
                         /\ evidence[c][i] # None => evidence[c][i] =< After(c, i)'
    BY <1>2 DEF Bracketed
  <2>1. CASE i # j
    BY <2>1, <1>5, <1>6 DEF Bracketed
  <2>2. CASE i = j
    <3>1. After(c, i)' = r
      BY <2>2, <1>5
    <3>2. CASE r = world[i]
      <4>1. world[i] \in Nat
        BY ReadingFacts DEF TypeOK
      <4> QED
        BY <3>1, <3>2, <4>1, <1>6 DEF Taken
    <3> QED
      BY <2>2, <3>1, <3>2, <1>7
  <2> QED
    BY <2>1, <2>2
<1>10. \A i \in Part : Before(c, i)' \in Version => Before(c, i)' =< world'[i]
  BY <1>2, <1>4 DEF RunInv
<1> QED
  BY <1>2, <1>8, <1>9, <1>10 DEF RunInv, Passed

LEMMA MeasureNothingKeepsInv ==
  ASSUME TypeOK, NEW c \in Run, NEW g \in {"before", "after"}, RunInv(c), MeasureNothing(c, g)
  PROVE  RunInv(c)'
<1>1. /\ pc' = pc /\ world' = world /\ evidence' = evidence /\ mid' = mid /\ exit' = exit
      /\ pc[c] = g /\ guard' = [guard EXCEPT ![c][g] = NoReadings]
  BY DEF MeasureNothing
<1>2. guard[c] \in [{"before", "after"} -> Readings]
  BY DEF TypeOK
<1>3. \A i \in Part : NoReadings[i] = None
  BY DEF NoReadings
<1>4. CASE g = "before"
  <2>1. \A i \in Part : Before(c, i)' = None
    BY <1>1, <1>2, <1>3, <1>4 DEF TypeOK, Before
  <2>2. guard'[c]["after"] = guard[c]["after"]
    BY <1>1, <1>2, <1>4 DEF TypeOK
  <2> QED
    BY <1>1, <1>4, <2>1, <2>2, ReadingFacts DEF RunInv, Passed
<1>5. CASE g = "after"
  <2>1. \A i \in Part : After(c, i)' = None
    BY <1>1, <1>2, <1>3, <1>5 DEF TypeOK, After
  <2>2. \A i \in Part : Before(c, i)' = Before(c, i)
    BY <1>1, <1>2, <1>5 DEF TypeOK, Before
  <2>3. Taken(c)'
    BY <1>1, <1>5, <2>2 DEF RunInv, Taken
  <2>4. Bracketed(c)'
    BY <2>1, ReadingFacts DEF Bracketed
  <2> QED
    BY <1>1, <1>5, <2>2, <2>3, <2>4 DEF RunInv, Passed
<1> QED
  BY <1>4, <1>5

LEMMA ListFailsKeepsInv ==
  ASSUME TypeOK, TypeOK', NEW c \in Run, NEW g \in {"before", "after"}, RunInv(c),
         ListFails(c, g)
  PROVE  RunInv(c)'
<1>1. SameRun(c) /\ world' = world
  BY DEF ListFails, results, SameRun
<1>2. \A i \in Part : world[i] =< world'[i]
  <2>1. world \in [Part -> Nat]
    BY ReadingFacts DEF TypeOK
  <2> QED
    BY <1>1, <2>1
<1> QED
  BY <1>1, <1>2, GrowingWorld

LEMMA CheckBeforeKeepsInv ==
  ASSUME TypeOK, NEW c \in Run, RunInv(c), CheckBefore(c)
  PROVE  RunInv(c)'
<1>1. CASE ProofCapable(guard[c]["before"])
  <2>1. /\ pc'[c] = "evidence" /\ mid'[c] = world /\ world' = world
        /\ guard' = guard /\ evidence' = evidence /\ exit' = exit /\ pc[c] = "before"
    BY <1>1 DEF CheckBefore, Goto, TypeOK
  <2>2. \A i \in Part : Before(c, i)' = Before(c, i)
    BY <2>1 DEF Before
  <2>3. guard'[c]["after"] = NoReadings
    BY <2>1 DEF RunInv
  <2>4. Taken(c)'
    <3>1. mid'[c] \in [Part -> Version]
      BY <2>1 DEF TypeOK
    <3>2. ASSUME NEW i \in Part
          PROVE  /\ Before(c, i)' \in Version
                 /\ Before(c, i)' =< mid'[c][i]
                 /\ mid'[c][i] =< world'[i]
                 /\ evidence'[c][i] = None
      <4>1. Before(c, i) \in Reading
        BY DEF Before, TypeOK, Readings
      <4>2. Before(c, i) \in Version
        BY <1>1, <4>1 DEF ProofCapable, Before, Reading
      <4>3. Before(c, i) =< world[i]
        BY <4>2 DEF RunInv
      <4>4. world[i] \in Nat
        BY ReadingFacts DEF TypeOK
      <4>5. evidence[c][i] = None
        BY <2>1 DEF RunInv, NoReadings
      <4> QED
        BY <2>1, <2>2, <4>2, <4>3, <4>4, <4>5
    <3> QED
      BY <3>1, <3>2 DEF Taken
  <2>5. \A i \in Part : Before(c, i)' \in Version => Before(c, i)' =< world'[i]
    BY <2>1, <2>2 DEF RunInv
  <2>6. exit'[c] = None
    BY <2>1 DEF RunInv
  <2> QED
    BY <2>1, <2>3, <2>4, <2>5, <2>6 DEF RunInv, Passed
<1>2. CASE ~ProofCapable(guard[c]["before"])
  BY <1>2, EndKeepsInv DEF CheckBefore
<1> QED
  BY <1>1, <1>2

LEMMA CollectKeepsInv ==
  ASSUME TypeOK, NEW c \in Run, RunInv(c), Collect(c)
  PROVE  RunInv(c)'
<1>1. PICK r \in {world[next[c]]} \union {None} :
        evidence' = [evidence EXCEPT ![c][next[c]] = r]
  BY DEF Collect
<1> DEFINE j == next[c]
<1>2. /\ pc' = pc /\ world' = world /\ guard' = guard /\ mid' = mid /\ exit' = exit
      /\ j \in Part /\ pc[c] = "evidence"
  BY DEF Collect
<1>3. evidence[c] \in [Part -> Reading]
  BY DEF TypeOK, Readings
<1>4. \A i \in Part : evidence'[c][i] = IF i = j THEN r ELSE evidence[c][i]
  BY <1>1, <1>3 DEF TypeOK
<1>5. \A i \in Part : Before(c, i)' = Before(c, i)
  BY <1>2 DEF Before
<1>6. Taken(c)
  BY <1>2 DEF RunInv
<1>7. Taken(c)'
  <2>1. mid'[c] \in [Part -> Version]
    BY <1>2, <1>6 DEF Taken
  <2>2. ASSUME NEW i \in Part
        PROVE  /\ Before(c, i)' \in Version
               /\ Before(c, i)' =< mid'[c][i]
               /\ mid'[c][i] =< world'[i]
    BY <1>2, <1>5, <1>6 DEF Taken
  <2>3. ASSUME NEW i \in Part
        PROVE  /\ evidence'[c][i] \in Version \union {None}
               /\ evidence'[c][i] # None =>
                    mid'[c][i] =< evidence'[c][i] /\ evidence'[c][i] =< world'[i]
    <3>1. CASE i # j
      BY <3>1, <1>2, <1>4, <1>6 DEF Taken
    <3>2. CASE i = j
      <4>1. world[i] \in Version /\ world[i] \in Nat
        BY ReadingFacts DEF TypeOK
      <4>2. evidence'[c][i] = r /\ r \in {world[i], None}
        BY <3>2, <1>4
      <4>3. mid[c][i] =< world[i]
        BY <1>6 DEF Taken
      <4> QED
        BY <4>1, <4>2, <4>3, <1>2
    <3> QED
      BY <3>1, <3>2
  <2> QED
    BY <2>1, <2>2, <2>3 DEF Taken
<1>8. \A i \in Part : Before(c, i)' \in Version => Before(c, i)' =< world'[i]
  BY <1>2, <1>5 DEF RunInv
<1>9. exit'[c] = None /\ guard'[c]["after"] = NoReadings
  BY <1>2 DEF RunInv
<1> QED
  BY <1>2, <1>7, <1>8, <1>9 DEF RunInv, Passed

LEMMA EndCollectKeepsInv ==
  ASSUME TypeOK, NEW c \in Run, RunInv(c), EndCollect(c)
  PROVE  RunInv(c)'
<1>1. /\ pc'[c] = "after" /\ world' = world /\ guard' = guard /\ evidence' = evidence
      /\ mid' = mid /\ exit' = exit /\ pc[c] = "evidence"
  BY DEF EndCollect, Goto, TypeOK
<1>2. \A i \in Part : Before(c, i)' = Before(c, i)
  BY <1>1 DEF Before
<1>3. guard[c]["after"] = NoReadings
  BY <1>1 DEF RunInv
<1>4. \A i \in Part : After(c, i)' = None
  BY <1>1, <1>3 DEF After, NoReadings
<1>5. Bracketed(c)'
  BY <1>4, ReadingFacts DEF Bracketed
<1>6. Taken(c)'
  BY <1>1, <1>2 DEF RunInv, Taken
<1>7. \A i \in Part : Before(c, i)' \in Version => Before(c, i)' =< world'[i]
  BY <1>1, <1>2 DEF RunInv
<1>8. exit'[c] = None
  BY <1>1 DEF RunInv
<1> QED
  BY <1>1, <1>5, <1>6, <1>7, <1>8 DEF RunInv, Passed

\* Equal ends leave no room in between.
LEMMA EqualEndsAreASnapshot ==
  ASSUME TypeOK, NEW c \in Run, Taken(c), Bracketed(c), ~broken[c],
         ProofCapable(guard[c]["after"]), ~ \E i \in Part : Differs(c, i)
  PROVE  Snapshot(c)
<1>1. ASSUME NEW i \in Part
      PROVE  /\ Before(c, i) = After(c, i)
             /\ \/ Before(c, i) = mid[c][i] /\ evidence[c][i] \in {None, mid[c][i]}
                \/ i = HEAD /\ Before(c, i) = Unborn
  <2>1. After(c, i) \in Version
    <3>1. After(c, i) \in Reading
      BY DEF After, TypeOK, Readings
    <3> QED
      BY <3>1 DEF ProofCapable, After, Reading
  <2>2. Before(c, i) \in Version /\ mid[c][i] \in Version
    BY DEF Taken
  <2>3. Before(c, i) = After(c, i)
    BY <2>1, <2>2, ReadingFacts DEF Differs, Before, After
  <2>4. \/ i = HEAD /\ After(c, i) = Unborn
        \/ /\ mid[c][i] =< After(c, i)
           /\ evidence[c][i] # None => evidence[c][i] =< After(c, i)
    BY <2>1 DEF Bracketed
  <2>5. CASE /\ mid[c][i] =< After(c, i)
             /\ evidence[c][i] # None => evidence[c][i] =< After(c, i)
    <3>1. Before(c, i) =< mid[c][i]
      BY DEF Taken
    <3>2. Before(c, i) = mid[c][i]
      <4>1. Before(c, i) \in Nat /\ mid[c][i] \in Nat
        BY <2>2, ReadingFacts
      <4>2. mid[c][i] =< Before(c, i)
        BY <2>3, <2>5
      <4> QED
        BY <3>1, <4>1, <4>2
    <3>3. evidence[c][i] # None => evidence[c][i] = mid[c][i]
      <4> SUFFICES ASSUME evidence[c][i] # None PROVE evidence[c][i] = mid[c][i]
        OBVIOUS
      <4>1. evidence[c][i] \in Version /\ mid[c][i] =< evidence[c][i]
        BY DEF Taken
      <4>2. evidence[c][i] =< mid[c][i]
        BY <2>3, <2>5, <3>2
      <4>3. evidence[c][i] \in Nat /\ mid[c][i] \in Nat
        BY <4>1, <2>2, ReadingFacts
      <4> QED
        BY <4>1, <4>2, <4>3
    <3> QED
      BY <2>3, <3>2, <3>3
  <2> QED
    BY <2>3, <2>4, <2>5
<1> QED
  BY <1>1 DEF Snapshot

LEMMA CompareKeepsInv ==
  ASSUME TypeOK, NEW c \in Run, RunInv(c), Compare(c)
  PROVE  RunInv(c)'
<1>1. CASE Continue(c, "recheck") /\ ~(\E i \in Part : Differs(c, i))
           /\ ProofCapable(guard[c]["after"]) /\ ~broken[c]
  <2>1. pc[c] = "after" /\ pc'[c] = "recheck" /\ world' = world
    BY <1>1 DEF Compare, Continue, Goto, TypeOK
  <2>2. guard' = guard /\ evidence' = evidence /\ broken' = broken /\ exit' = exit /\ mid' = mid
    BY <1>1 DEF Continue
  <2>3. \A i \in Part : Before(c, i)' = Before(c, i) /\ After(c, i)' = After(c, i)
    BY <2>2 DEF Before, After
  <2>4. Taken(c) /\ Bracketed(c)
    BY <2>1 DEF RunInv
  <2>5. Snapshot(c)
    BY <1>1, <2>4, EqualEndsAreASnapshot
  <2>6. Taken(c)'
    BY <2>1, <2>2, <2>3, <2>4 DEF Taken
  <2>7. Snapshot(c)'
    BY <2>2, <2>3, <2>5 DEF Snapshot
  <2>8. \A i \in Part : Before(c, i)' \in Version => Before(c, i)' =< world'[i]
    BY <2>1, <2>3 DEF RunInv
  <2>9. exit'[c] = None
    BY <2>1, <2>2 DEF RunInv
  <2> QED
    BY <2>1, <2>6, <2>7, <2>8, <2>9 DEF RunInv
<1>2. CASE End(c, 4) \/ End(c, 3)
  BY <1>2, EndKeepsInv
<1> QED
  BY <1>1, <1>2 DEF Compare

LEMMA ActingKeepsInv ==
  ASSUME TypeOK, TypeOK', NEW c \in Run, RunInv(c), Acts(c)
  PROVE  RunInv(c)'
<1>1. CASE Start(c)
  <2>1. CASE End(c, 2)
    BY <2>1, EndKeepsInv
  <2>2. CASE Continue(c, "before")
    <3>1. /\ pc'[c] = "before" /\ pc[c] = "idle" /\ world' = world /\ guard' = guard
          /\ evidence' = evidence /\ exit' = exit /\ mid' = mid
      BY <1>1, <2>2 DEF Start, Continue, Goto, TypeOK
    <3>2. \A i \in Part : Before(c, i)' = Before(c, i)
      BY <3>1 DEF Before
    <3> QED
      BY <3>1, <3>2 DEF RunInv, Passed
  <2> QED
    BY <1>1, <2>1, <2>2 DEF Start
<1>2. ASSUME NEW g \in {"before", "after"}, Measure(c, g) PROVE RunInv(c)'
  BY <1>2, MeasureBeforeKeepsInv, MeasureAfterKeepsInv
<1>3. ASSUME NEW g \in {"before", "after"}, MeasureNothing(c, g) PROVE RunInv(c)'
  BY <1>3, MeasureNothingKeepsInv
<1>4. ASSUME NEW g \in {"before", "after"}, ListFails(c, g) PROVE RunInv(c)'
  BY <1>4, ListFailsKeepsInv
<1>5. CASE CheckBefore(c)
  BY <1>5, CheckBeforeKeepsInv
<1>6. CASE Collect(c)
  BY <1>6, CollectKeepsInv
<1>7. CASE EndCollect(c)
  BY <1>7, EndCollectKeepsInv
<1>8. CASE Compare(c)
  BY <1>8, CompareKeepsInv
<1>9. CASE Recheck(c)
  <2>1. CASE End(c, 2)
    BY <2>1, EndKeepsInv
  <2>2. CASE Continue(c, "create")
    BY <1>9, <2>2, PassingKeepsInv DEF Recheck, Passed
  <2> QED
    BY <1>9, <2>1, <2>2 DEF Recheck
<1>10. CASE CreateTemp(c)
  <2>1. CASE End(c, 3)
    BY <2>1, EndKeepsInv
  <2>2. CASE Continue(c, "fill")
    BY <1>10, <2>2, PassingKeepsInv DEF CreateTemp, Passed
  <2> QED
    BY <1>10, <2>1, <2>2 DEF CreateTemp
<1>11. CASE Fill(c)
  <2>1. temp'[c] = "whole"
    BY <1>11 DEF Fill, TypeOK
  <2> QED
    BY <1>11, <2>1, PassingKeepsInv DEF Fill, Passed
<1>12. CASE Replace(c)
  BY <1>12, PassingKeepsInv DEF Replace, Passed
<1>13. CASE WriteFails(c)
  <2>1. CASE End(c, 3)
    BY <2>1, EndKeepsInv
  <2>2. CASE pc[c] = "fill" /\ Goto(c, "dead") /\ Forget(c) /\ UNCHANGED exit
    <3>1. pc'[c] = "dead" /\ exit'[c] = None
      BY <2>2 DEF Goto, TypeOK, RunInv
    <3> QED
      BY <2>2, <3>1, EndedKeepsInv
  <2> QED
    BY <1>13, <2>1, <2>2 DEF WriteFails
<1>14. CASE Return(c)
  BY <1>14, EndKeepsInv DEF Return
<1>15. CASE Die(c)
  <2>1. pc'[c] = "dead" /\ Forget(c) /\ exit' = exit /\ pc[c] # "done"
    BY <1>15 DEF Die, Goto, TypeOK
  <2>2. exit'[c] = None
    BY <2>1 DEF RunInv
  <2> QED
    BY <2>1, <2>2, EndedKeepsInv
<1> QED
  BY <1>1, <1>2, <1>3, <1>4, <1>5, <1>6, <1>7, <1>8, <1>9, <1>10, <1>11, <1>12, <1>13,
     <1>14, <1>15 DEF Acts, RunStep

-----------------------------------------------------------------------------
(* The artifact *)

LEMMA OnlyReplaceWrites ==
  ASSUME TypeOK, NEW c \in Run, RunInv(c), Acts(c), ~Replace(c)
  PROVE  /\ artifact' = artifact
         /\ pc'[c] = "written" \/ exit'[c] = 0 => pc[c] = "written"
         /\ pc[c] \in {"written", "dead"} \/ exit[c] = 0 =>
              pc'[c] = "dead" \/ exit'[c] = 0
<1>1. artifact' = artifact
  BY DEF Acts, Start, RunStep, Measure, MeasureNothing, ListFails, CheckBefore, Collect,
         EndCollect, Compare, Recheck, CreateTemp, Fill, WriteFails, Return, Die, results
<1>2. pc[c] \notin {"done", "dead"}
  BY DEF Acts, Start, RunStep, Measure, MeasureNothing, ListFails, CheckBefore, Collect,
         EndCollect, Compare, Recheck, CreateTemp, Fill, WriteFails, Return, Die
<1>3. exit[c] = None /\ None # 0
  BY <1>2, MarkersAssumption DEF RunInv
<1>4. pc[c] = "written" => Return(c) \/ Die(c)
  BY DEF Acts, Start, RunStep, Measure, MeasureNothing, ListFails, CheckBefore, Collect,
         EndCollect, Compare, Recheck, CreateTemp, Fill, WriteFails
<1>5. Return(c) => exit'[c] = 0 /\ pc[c] = "written"
  BY DEF Return, End, TypeOK
<1>6. Die(c) => pc'[c] = "dead" /\ exit'[c] = None
  BY <1>3 DEF Die, Goto, TypeOK
<1>7. ~Return(c) => pc'[c] # "written" /\ exit'[c] # 0
  BY <1>3, <1>4, <1>6
     DEF Acts, Start, RunStep, Measure, MeasureNothing, ListFails, CheckBefore, Collect,
         EndCollect, Compare, Recheck, CreateTemp, Fill, WriteFails, Die, Goto, Continue, End,
         TypeOK
<1> QED
  BY <1>1, <1>2, <1>3, <1>4, <1>5, <1>6, <1>7

LEMMA ReplaceWritesProven ==
  ASSUME TypeOK, NEW c \in Run, RunInv(c), Replace(c)
  PROVE  artifact'.by = c /\ pc'[c] = "written" /\ ArtifactIsProven'
<1>1. /\ artifact'.by = c /\ artifact'.content = temp[c] /\ artifact'.guard = guard[c]
      /\ artifact'.complete = ~broken[c]
  BY DEF Replace, Install
<1>2. pc'[c] = "written" /\ pc[c] = "replace"
  BY DEF Replace, Continue, Goto, TypeOK
<1>3. temp[c] = "whole" /\ Taken(c) /\ Snapshot(c)
  BY <1>2 DEF RunInv, Passed
<1>4. guard[c]["before"] = guard[c]["after"]
  <2>1. guard[c]["before"] \in [Part -> Reading] /\ guard[c]["after"] \in [Part -> Reading]
    BY DEF TypeOK, Readings
  <2>2. \A i \in Part : guard[c]["before"][i] = guard[c]["after"][i]
    BY <1>3 DEF Snapshot, Before, After
  <2> QED
    BY <2>1, <2>2
<1>5. ProofCapable(guard[c]["before"])
  BY <1>3, ReadingFacts DEF Taken, Before, ProofCapable
<1> QED
  BY <1>1, <1>2, <1>3, <1>4, <1>5 DEF ArtifactIsProven, Snapshot, ProofCapable

LEMMA ActingKeepsArtifact ==
  ASSUME IInv, TypeOK', NEW c \in Run, Acts(c)
  PROVE  /\ ArtifactInv'
         /\ \A d \in Run : pc'[d] = "written" \/ exit'[d] = 0 => artifact'.by # NoRun
<1>1. TypeOK /\ RunInv(c)
  BY DEF IInv
<1>2. \A d \in Run : d # c => pc'[d] = pc[d] /\ exit'[d] = exit[d]
  BY <1>1, OthersStay DEF SameRun
<1>3. CASE Replace(c)
  <2>1. artifact'.by = c /\ pc'[c] = "written" /\ ArtifactIsProven'
    BY <1>1, <1>3, ReplaceWritesProven
  <2> QED
    BY <2>1, NoRunAssumption DEF ArtifactInv
<1>4. CASE ~Replace(c)
  <2>1. /\ artifact' = artifact
        /\ pc'[c] = "written" \/ exit'[c] = 0 => pc[c] = "written"
        /\ pc[c] \in {"written", "dead"} \/ exit[c] = 0 =>
             pc'[c] = "dead" \/ exit'[c] = 0
    BY <1>1, <1>4, OnlyReplaceWrites
  <2>2. ArtifactIsProven' = ArtifactIsProven
    BY <2>1 DEF ArtifactIsProven, ProofCapable
  <2>3. artifact.by \in Run \union {NoRun}
    BY <1>1 DEF TypeOK
  <2>4. ArtifactInv'
    BY <1>2, <2>1, <2>2, <2>3 DEF IInv, ArtifactInv
  <2> QED
    BY <1>2, <2>1, <2>4 DEF IInv
<1> QED
  BY <1>3, <1>4

LEMMA StepKeepsInv == IInv /\ [Next]_vars => IInv'
<1> SUFFICES ASSUME IInv, [Next]_vars PROVE IInv'
  OBVIOUS
<1>1. TypeOK /\ TypeOK'
  BY StepIsTyped DEF IInv
<1>2. CASE Mutate
  <2>1. \A d \in Run : RunInv(d)'
    BY <1>1, <1>2, ChangeGrows, GrowingWorld DEF IInv
  <2>2. artifact' = artifact /\ pc' = pc /\ exit' = exit
    BY <1>2 DEF Mutate
  <2> QED
    BY <1>1, <2>1, <2>2 DEF IInv, ArtifactInv, ArtifactIsProven, ProofCapable
<1>3. ASSUME NEW c \in Run, Acts(c) PROVE IInv'
  <2>1. \A i \in Part : world[i] =< world'[i]
    <3>1. world' = world /\ world \in [Part -> Nat]
      BY <1>1, <1>3, WorldStays, ReadingFacts DEF TypeOK
    <3> QED
      BY <3>1
  <2>2. ASSUME NEW d \in Run PROVE RunInv(d)'
    <3>1. RunInv(d)
      BY DEF IInv
    <3>2. CASE d = c
      BY <1>1, <1>3, <3>1, <3>2, ActingKeepsInv
    <3>3. CASE d # c
      <4>1. SameRun(d)
        BY <1>1, <1>3, <3>3, OthersStay
      <4> QED
        BY <1>1, <2>1, <3>1, <4>1, GrowingWorld
    <3> QED
      BY <3>2, <3>3
  <2>3. /\ ArtifactInv'
        /\ \A d \in Run : pc'[d] = "written" \/ exit'[d] = 0 => artifact'.by # NoRun
    BY <1>1, <1>3, ActingKeepsArtifact
  <2> QED
    BY <1>1, <2>2, <2>3 DEF IInv
<1>4. CASE UNCHANGED vars
  <2>1. \A d \in Run : SameRun(d)
    BY <1>4 DEF vars, SameRun
  <2>2. \A i \in Part : world[i] =< world'[i]
    <3>1. world' = world /\ world \in [Part -> Nat]
      BY <1>1, <1>4, ReadingFacts DEF TypeOK, vars
    <3> QED
      BY <3>1
  <2>3. \A d \in Run : RunInv(d)'
    BY <1>1, <2>1, <2>2, GrowingWorld DEF IInv
  <2>4. artifact' = artifact /\ pc' = pc /\ exit' = exit
    BY <1>4 DEF vars
  <2> QED
    BY <1>1, <2>3, <2>4 DEF IInv, ArtifactInv, ArtifactIsProven, ProofCapable
<1> QED
  BY <1>2, <1>3, <1>4 DEF Next, Acts

\* IInv holds in every reachable state: it is what the theorems below rest on.
THEOREM Inductive == Spec => []IInv
<1>1. Init => IInv
  BY InitEstablishes
<1>2. IInv /\ [Next]_vars => IInv'
  BY StepKeepsInv
<1> QED
  BY <1>1, <1>2, PTL DEF Spec

-----------------------------------------------------------------------------
(* The safety properties *)

\* The file at the output path is whole and rests on two complete, equal
\* measurements, whichever runs failed or were killed: what _write_snapshot_after_pass
\* is called with, and os.replace puts in place.
THEOREM AlwaysArtifactIsProven == Spec => []ArtifactIsProven
<1>1. IInv => ArtifactIsProven
  BY DEF IInv, ArtifactInv, ArtifactIsProven
<1> QED
  BY <1>1, Inductive, PTL

\* A run whose exit code is not 0 has not put its file in place: no step of
\* collect() after os.replace fails.
THEOREM AlwaysExitTellsTheArtifact == Spec => []ExitTellsTheArtifact
<1>1. IInv => ExitTellsTheArtifact
  <2> SUFFICES ASSUME IInv PROVE ExitTellsTheArtifact
    OBVIOUS
  <2>1. ASSUME artifact.by # NoRun PROVE exit[artifact.by] \in {None, 0}
    <3>1. artifact.by \in Run
      BY <2>1 DEF IInv, TypeOK
    <3>2. pc[artifact.by] \in {"written", "dead"} \/ exit[artifact.by] = 0
      BY <2>1 DEF IInv, ArtifactInv
    <3>3. exit[artifact.by] # None => pc[artifact.by] = "done"
      BY <3>1 DEF IInv, RunInv
    <3> QED
      BY <3>2, <3>3
  <2>2. \A c \in Run : exit[c] = 0 => artifact.by # NoRun
    BY DEF IInv
  <2> QED
    BY <2>1, <2>2 DEF ExitTellsTheArtifact
<1> QED
  BY <1>1, Inductive, PTL

\* A run that passes the comparison has measured the project, and has collected
\* its evidence, as of one instant, with any number of files and of changes.
THEOREM AlwaysPassIsASnapshot == Spec => []PassIsASnapshot
<1>1. IInv => PassIsASnapshot
  <2> SUFFICES ASSUME IInv, NEW c \in Run, Passed(c), NEW i \in Part
               PROVE  \/ guard[c]["before"][i] = mid[c][i]
                         /\ evidence[c][i] \in {None, mid[c][i]}
                      \/ i = HEAD /\ guard[c]["before"][i] = Unborn
    BY DEF PassIsASnapshot
  <2>1. Snapshot(c)
    BY DEF IInv, RunInv
  <2> QED
    BY <2>1 DEF Snapshot, Before
<1> QED
  BY <1>1, Inductive, PTL


LEMMA ActsWhileOpen ==
  ASSUME NEW c \in Run, RunInv(c), Acts(c)
  PROVE  pc[c] \notin {"done", "dead"} /\ exit[c] = None
<1>1. pc[c] \notin {"done", "dead"}
  BY DEF Acts, Start, RunStep, Measure, MeasureNothing, ListFails, CheckBefore, Collect,
         EndCollect, Compare, Recheck, CreateTemp, Fill, Replace, WriteFails, Return, Die
<1> QED
  BY <1>1 DEF RunInv

LEMMA OnlyCompareFindsViolation ==
  ASSUME TypeOK, NEW c \in Run, RunInv(c), Acts(c), exit'[c] = 4
  PROVE  Compare(c) /\ \E i \in Part : Differs(c, i)
<1>1. exit[c] = None /\ None # 4
  BY ActsWhileOpen, MarkersAssumption
<1>2. ASSUME NEW code, End(c, code) PROVE code = 4
  BY <1>2 DEF End, TypeOK
<1>3. exit' # exit
  BY <1>1
<1>4. Compare(c)
  BY <1>1, <1>2, <1>3
     DEF Acts, Start, RunStep, Measure, MeasureNothing, ListFails, CheckBefore, Collect,
         EndCollect, Recheck, CreateTemp, Fill, Replace, WriteFails, Return, Die, Continue
<1> QED
  BY <1>1, <1>2, <1>3, <1>4 DEF Compare, Continue

\* A run that gives exit code 4 has found a part that is not what the first
\* measurement found, unless a failed read was recorded as a content.
THEOREM AlwaysViolationIsReal == Spec => ViolationIsReal
<1> DEFINE Real(c) == \E i \in Part :
                        /\ Differs(c, i)
                        /\ \/ world[i] # guard[c]["before"][i]
                           \/ guard[c]["after"][i] = Unreadable
                           \/ i = HEAD /\ guard[c]["after"][i] = Unborn
<1>1. ASSUME IInv, NEW c \in Run, Compare(c), \E i \in Part : Differs(c, i)
      PROVE  Real(c)
  <2>1. PICK i \in Part : Differs(c, i)
    BY <1>1
  <2>2. TypeOK /\ Taken(c) /\ Bracketed(c)
    BY <1>1 DEF IInv, RunInv, Compare
  <2>3. Before(c, i) \in Version /\ mid[c][i] \in Version /\ Before(c, i) =< mid[c][i]
    BY <2>2 DEF Taken
  <2>4. After(c, i) \in Version \union {Unreadable}
    <3>1. After(c, i) \in Reading /\ After(c, i) # None
      BY <2>1, <2>2 DEF After, Differs, TypeOK, Readings
    <3> QED
      BY <3>1 DEF Reading
  <2>5. CASE After(c, i) = Unreadable
    BY <2>1, <2>5 DEF After
  <2>6. CASE i = HEAD /\ After(c, i) = Unborn
    BY <2>1, <2>6 DEF After
  <2>7. CASE mid[c][i] =< After(c, i) /\ After(c, i) =< world[i] /\ After(c, i) \in Version
    <3>1. Before(c, i) \in Nat /\ mid[c][i] \in Nat /\ After(c, i) \in Nat /\ world[i] \in Nat
      BY <2>2, <2>3, <2>7, ReadingFacts DEF TypeOK
    <3>2. Before(c, i) # After(c, i)
      BY <2>1 DEF Differs, Before, After
    <3>3. world[i] # Before(c, i)
      BY <2>3, <2>7, <3>1, <3>2
    <3> QED
      BY <2>1, <3>3 DEF Before
  <2> QED
    BY <2>2, <2>4, <2>5, <2>6, <2>7 DEF Bracketed
<1>2. ASSUME IInv, [Next]_vars, NEW c \in Run, exit'[c] = 4, exit[c] # 4
      PROVE  Real(c)
  <2>1. TypeOK /\ RunInv(c)
    BY <1>2 DEF IInv
  <2>2. exit' # exit
    BY <1>2
  <2>3. PICK d \in Run : Acts(d)
    BY <1>2, <2>2 DEF Next, Acts, Mutate, vars
  <2>4. d = c
    BY <1>2, <2>1, <2>3, OthersStay DEF SameRun
  <2> QED
    BY <1>1, <1>2, <2>1, <2>3, <2>4, OnlyCompareFindsViolation
<1>3. IInv /\ [Next]_vars =>
        [\A c \in Run : exit'[c] = 4 /\ exit[c] # 4 => Real(c)]_vars
  BY <1>2
<1> QED
  BY <1>3, Inductive, PTL DEF Spec, ViolationIsReal

-----------------------------------------------------------------------------
(* The collector implements the store *)

outcomes == [c \in Run |-> OutcomeOf(c)]

Quiet(c) ==
  /\ UNCHANGED <<world, mid, artifact, exit>>
  /\ pc[c] \notin {"written", "dead"} /\ pc'[c] \notin {"written", "dead"}

Fails(c) ==
  /\ \E code \in {2, 3, 4} : End(c, code)
  /\ pc[c] # "written"
  /\ UNCHANGED <<world, artifact>>

Takes(c) ==
  /\ pc[c] = "before" /\ pc'[c] = "evidence"
  /\ mid' = [mid EXCEPT ![c] = world]
  /\ UNCHANGED <<world, artifact, exit>>

Goes(c) ==
  /\ Goto(c, "dead") /\ Forget(c)
  /\ UNCHANGED <<world, artifact, exit>>

LEMMA FiveKinds ==
  ASSUME TypeOK, NEW c \in Run, Acts(c)
  PROVE  Quiet(c) \/ Fails(c) \/ Takes(c) \/ Replace(c) \/ Return(c) \/ Goes(c)
<1> USE DEF results
<1>1. CASE Start(c)
  BY <1>1 DEF Start, Continue, Goto, Quiet, Fails, TypeOK
<1>2. CASE \E g \in {"before", "after"} : Measure(c, g) \/ MeasureNothing(c, g) \/ ListFails(c, g)
  BY <1>2 DEF Measure, MeasureNothing, ListFails, Quiet
<1>3. CASE CheckBefore(c)
  <2>1. CASE ProofCapable(guard[c]["before"])
    BY <1>3, <2>1 DEF CheckBefore, Goto, Takes, TypeOK
  <2>2. CASE ~ProofCapable(guard[c]["before"])
    BY <1>3, <2>2 DEF CheckBefore, Fails
  <2> QED
    BY <2>1, <2>2
<1>4. CASE Collect(c)
  BY <1>4 DEF Collect, Quiet
<1>5. CASE EndCollect(c)
  BY <1>5 DEF EndCollect, Goto, Quiet, TypeOK
<1>6. CASE Compare(c)
  BY <1>6 DEF Compare, Continue, Goto, Quiet, Fails, TypeOK
<1>7. CASE Recheck(c)
  BY <1>7 DEF Recheck, Continue, Goto, Quiet, Fails, TypeOK
<1>8. CASE CreateTemp(c)
  BY <1>8 DEF CreateTemp, Continue, Goto, Quiet, Fails, TypeOK
<1>9. CASE Fill(c)
  BY <1>9 DEF Fill, Continue, Goto, Quiet, TypeOK
<1>10. CASE WriteFails(c)
  BY <1>10 DEF WriteFails, Fails, Goes
<1>11. CASE Die(c)
  BY <1>11 DEF Die, Goes
<1> QED
  BY <1>1, <1>2, <1>3, <1>4, <1>5, <1>6, <1>7, <1>8, <1>9, <1>10, <1>11 DEF Acts, RunStep

LEMMA OutcomeFacts ==
  /\ None # 0
  /\ \A c \in Run : /\ exit[c] = 0 => OutcomeOf(c) = "pass"
                    /\ exit[c] \notin {0, None} => OutcomeOf(c) = "fail"
                    /\ exit[c] = None /\ pc[c] = "written" => OutcomeOf(c) = "kept"
                    /\ exit[c] = None /\ pc[c] = "dead" => OutcomeOf(c) = "gone"
                    /\ exit[c] = None /\ pc[c] \notin {"written", "dead"} => OutcomeOf(c) = "open"
  BY MarkersAssumption DEF OutcomeOf

LEMMA OutcomeFactsPrime ==
  \A c \in Run : /\ exit'[c] = 0 => OutcomeOf(c)' = "pass"
                 /\ exit'[c] \notin {0, None} => OutcomeOf(c)' = "fail"
                 /\ exit'[c] = None /\ pc'[c] = "written" => OutcomeOf(c)' = "kept"
                 /\ exit'[c] = None /\ pc'[c] = "dead" => OutcomeOf(c)' = "gone"
                 /\ exit'[c] = None /\ pc'[c] \notin {"written", "dead"} => OutcomeOf(c)' = "open"
  BY MarkersAssumption DEF OutcomeOf

\* Only the acting run changes its outcome.
LEMMA OutcomesChange ==
  ASSUME TypeOK, NEW c \in Run, Acts(c)
  PROVE  outcomes' = [outcomes EXCEPT ![c] = OutcomeOf(c)']
<1>1. ASSUME NEW d \in Run, d # c PROVE OutcomeOf(d)' = OutcomeOf(d)
  BY <1>1, OthersStay DEF SameRun, OutcomeOf
<1> QED
  BY <1>1 DEF outcomes

LEMMA ActingImplements ==
  ASSUME IInv, NEW c \in Run, Acts(c)
  PROVE  \/ Store!Take(c) \/ Store!Keep(c) \/ Store!Report(c)
         \/ UNCHANGED <<world, mid, Kept, outcomes>>
<1>1. TypeOK /\ RunInv(c)
  BY DEF IInv
<1>2. exit[c] = None /\ pc[c] # "dead" /\ pc[c] # "done"
  BY <1>1, ActsWhileOpen
<1>3. outcomes' = [outcomes EXCEPT ![c] = OutcomeOf(c)'] /\ outcomes[c] = OutcomeOf(c)
  BY <1>1, OutcomesChange DEF outcomes
<1>4. world' = world
  BY WorldStays
<1>5. artifact' = artifact => Kept' = Kept
  BY DEF Kept
<1>6. CASE Quiet(c)
  <2>1. OutcomeOf(c)' = OutcomeOf(c)
    BY <1>2, <1>6, OutcomeFacts, OutcomeFactsPrime DEF Quiet
  <2>2. outcomes' = outcomes
    BY <1>3, <2>1 DEF outcomes
  <2> QED
    BY <1>5, <1>6, <2>2 DEF Quiet
<1>7. CASE Fails(c)
  <2>1. PICK code \in {2, 3, 4} : End(c, code)
    BY <1>7 DEF Fails
  <2>2. exit'[c] = code /\ code \notin {0, None}
    BY <1>1, <2>1, MarkersAssumption DEF End, TypeOK
  <2>3. OutcomeOf(c)' = "fail" /\ OutcomeOf(c) = "open"
    BY <1>2, <1>7, <2>2, OutcomeFacts, OutcomeFactsPrime DEF Fails
  <2>4. mid' = [mid EXCEPT ![c] = NoReadings] /\ Kept' = Kept
    BY <1>5, <1>7, <2>1 DEF End, Forget, Fails
  <2>5. Store!Report(c)
    BY <1>3, <1>4, <2>3, <2>4 DEF Store!Report, outcomes
  <2> QED
    BY <2>5
<1>8. CASE Takes(c)
  <2>1. OutcomeOf(c)' = "open" /\ OutcomeOf(c) = "open"
    BY <1>2, <1>8, OutcomeFacts, OutcomeFactsPrime DEF Takes
  <2>2. outcomes' = outcomes
    BY <1>3, <2>1 DEF outcomes
  <2>3. mid[c] = NoReadings
    BY <1>1, <1>8 DEF Takes, RunInv
  <2>4. mid' = [mid EXCEPT ![c] = world] /\ Kept' = Kept
    BY <1>5, <1>8 DEF Takes
  <2>5. Store!Take(c)
    BY <1>3, <1>4, <2>1, <2>2, <2>3, <2>4 DEF Store!Take, outcomes
  <2> QED
    BY <2>5
<1>9. CASE Replace(c)
  <2>1. pc[c] = "replace" /\ pc'[c] = "written" /\ exit' = exit /\ mid' = mid
    BY <1>1, <1>9 DEF Replace, Continue, Goto, TypeOK
  <2>2. OutcomeOf(c)' = "kept" /\ OutcomeOf(c) = "open"
    BY <1>2, <2>1, OutcomeFacts, OutcomeFactsPrime
  <2>3. Taken(c) /\ Snapshot(c)
    BY <1>1, <2>1 DEF RunInv, Passed
  <2>4. mid[c] # NoReadings
    <3>1. mid[c][HEAD] \in Version /\ NoReadings[HEAD] = None
      BY <2>3, PartFacts DEF Taken, NoReadings
    <3> QED
      BY <3>1, ReadingFacts
  <2>5. Kept'.by = c /\ Kept'.guard = guard[c]["before"] /\ Kept'.evidence = evidence[c]
    BY <1>9 DEF Replace, Install, Kept
  <2>6. Store!Faithful(Kept', mid[c])
    BY <2>3, <2>5 DEF Store!Faithful, Snapshot, Before
  <2>7. Store!Keep(c)
    BY <1>3, <1>4, <2>1, <2>2, <2>4, <2>5, <2>6 DEF Store!Keep, outcomes
  <2> QED
    BY <2>7
<1>10. CASE Return(c)
  <2>1. pc[c] = "written" /\ exit'[c] = 0 /\ End(c, 0) /\ artifact' = artifact
    BY <1>1, <1>10 DEF Return, End, TypeOK, results
  <2>2. OutcomeOf(c)' = "pass" /\ OutcomeOf(c) = "kept"
    BY <1>2, <2>1, OutcomeFacts, OutcomeFactsPrime
  <2>3. mid' = [mid EXCEPT ![c] = NoReadings] /\ Kept' = Kept
    BY <1>5, <2>1 DEF End, Forget
  <2>4. Store!Report(c)
    BY <1>3, <1>4, <2>2, <2>3 DEF Store!Report, outcomes
  <2> QED
    BY <2>4
<1>11. CASE Goes(c)
  <2>1. pc'[c] = "dead" /\ exit' = exit
    BY <1>1, <1>11 DEF Goes, Goto, TypeOK
  <2>2. OutcomeOf(c)' = "gone" /\ OutcomeOf(c) \in {"open", "kept"}
    BY <1>2, <2>1, OutcomeFacts, OutcomeFactsPrime
  <2>3. mid' = [mid EXCEPT ![c] = NoReadings] /\ Kept' = Kept
    BY <1>5, <1>11 DEF Goes, Forget
  <2>4. Store!Report(c)
    BY <1>3, <1>4, <2>2, <2>3 DEF Store!Report, outcomes
  <2> QED
    BY <2>4
<1> QED
  BY <1>1, <1>6, <1>7, <1>8, <1>9, <1>10, <1>11, FiveKinds

\* Every step of the owner and of the runs is a step of the store or leaves it
\* as it is: a run takes the project at one instant and keeps it whole, or not
\* at all.
THEOREM Implements == Spec => ImplementsStore
<1>1. Init => Store!Empty
  <2> SUFFICES ASSUME Init PROVE Store!Empty
    OBVIOUS
  <2>1. \A c \in Run : OutcomeOf(c) = "open"
    BY OutcomeFacts DEF Init
  <2>2. Kept.by = NoRun
    BY DEF Init, Kept, NoArtifact
  <2> QED
    BY <2>1, <2>2 DEF Init, Store!Empty
<1>2. IInv /\ [Next]_vars =>
        [Store!Change \/ \E c \in Run : Store!Take(c) \/ Store!Keep(c) \/ Store!Report(c)]_(Store!svars)
  <2> SUFFICES ASSUME IInv, [Next]_vars
               PROVE  \/ Store!Change
                      \/ \E c \in Run : Store!Take(c) \/ Store!Keep(c) \/ Store!Report(c)
                      \/ UNCHANGED <<world, mid, Kept, outcomes>>
    BY DEF Store!svars, outcomes
  <2>1. CASE Mutate
    <3>1. PICK j \in Part \intersect MayChange, v \in Version :
            v > world[j] /\ world' = [world EXCEPT ![j] = v]
      BY <2>1 DEF Mutate
    <3>2. world' # world
      <4>1. world \in [Part -> Nat] /\ v \in Nat
        BY ReadingFacts DEF IInv, TypeOK
      <4>2. world'[j] = v
        BY <3>1, <4>1
      <4>3. v # world[j]
        BY <3>1, <4>1
      <4> QED
        BY <4>2, <4>3
    <3>3. mid' = mid /\ Kept' = Kept /\ outcomes' = outcomes
      BY <2>1 DEF Mutate, Kept, outcomes, OutcomeOf
    <3> QED
      BY <3>2, <3>3 DEF Store!Change, outcomes
  <2>2. ASSUME NEW c \in Run, Acts(c)
        PROVE  \/ Store!Take(c) \/ Store!Keep(c) \/ Store!Report(c)
               \/ UNCHANGED <<world, mid, Kept, outcomes>>
    BY <2>2, ActingImplements
  <2>3. CASE UNCHANGED vars
    BY <2>3 DEF vars, Kept, outcomes, OutcomeOf
  <2> QED
    BY <2>1, <2>2, <2>3 DEF Next, Acts
<1> QED
  BY <1>1, <1>2, Inductive, PTL DEF Spec, ImplementsStore, Store!Spec

=============================================================================
