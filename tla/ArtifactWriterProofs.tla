------------------------- MODULE ArtifactWriterProofs -------------------------
(***************************************************************************)
(* Proofs about the artifact writers, for any number of writers and of     *)
(* directories, and however often the name is redirected.                  *)
(*                                                                         *)
(* The inductive invariant follows each writer (WriterInv).  Its temporary *)
(* file stays in the place where it was created, and at that moment the    *)
(* name leads there; so while the name leads to another place it has been  *)
(* redirected since (Apart).  The last check passes only where the name    *)
(* does not lead elsewhere, so a result whose file is elsewhere was        *)
(* redirected once when it passes, and a second time before the name leads *)
(* to its file again (Guarded).                                            *)
(***************************************************************************)
EXTENDS ArtifactWriter, TLAPS

Early == {"check", "mkdir", "recheck", "create"}
Busy == {"write", "lastcheck", "replace", "cleanup"}

\* Where the temporary file is, and whether it is the whole.
Apart(w) ==
  /\ pc[w] \in Early => temp[w].in = Missing
  /\ pc[w] \in Busy => /\ temp[w].in # Missing
                       /\ temp[w].in # at => seen[w] < redirects
  /\ pc[w] \in {"lastcheck", "replace"} => temp[w].whole

\* What the checks leave open, for a result and for a snapshot.
Guarded(w) ==
  /\ w \in Result /\ pc[w] = "replace" /\ temp[w].in = Elsewhere =>
       /\ seen[w] < redirects
       /\ at = Elsewhere => seen[w] + 1 < redirects
  /\ w \in Snapshot /\ pc[w] \in {"mkdir", "create"} /\ at = Elsewhere => seen[w] < redirects
  /\ w \in Snapshot /\ pc[w] \in Busy /\ temp[w].in = Elsewhere => seen[w] < redirects

Published(w) ==
  \A part \in {"whole", "part"} :
    /\ \A d \in Place : content[d] = <<w, part>> => pc[w] = "done"
    /\ content[Elsewhere] = <<w, part>> =>
         seen[w] + (IF w \in Result THEN 2 ELSE 1) <= redirects

WriterInv(w) ==
  /\ seen[w] <= redirects
  /\ outcome[w] = "open" <=> pc[w] # "done"
  /\ Apart(w)
  /\ Guarded(w)
  /\ Published(w)
  /\ outcome[w] \in {"written", "failed"} /\ temp[w].in # Missing =>
       w \in stuck \/ seen[w] < redirects

IInv == TypeOK /\ \A w \in Writer : WriterInv(w)
-----------------------------------------------------------------------------
(* The inductive invariant holds in every reachable state. *)

LEMMA InitInv == Init => IInv
<1> SUFFICES ASSUME Init PROVE IInv
    OBVIOUS
<1> USE MaxRedirectsAssumption, PlaceAssumption DEF Init
<1>1. TypeOK
      BY DEF TypeOK, Place, NoFile
<1>2. ASSUME NEW w \in Writer PROVE WriterInv(w)
  <2>1. Apart(w) /\ Guarded(w)
        BY <1>2, WriterAssumption DEF Apart, Guarded, Early, Busy, NoFile, Writer
  <2>2. Published(w)
        BY <1>2, ThingsAssumption DEF Published, Place
  <2> QED
      BY <1>2, <2>1, <2>2 DEF WriterInv, NoFile
<1> QED
    BY <1>1, <1>2 DEF IInv

LEMMA RedirectInv == IInv /\ Redirect => IInv'
<1> SUFFICES ASSUME IInv, Redirect PROVE IInv'
    OBVIOUS
<1> USE MaxRedirectsAssumption, PlaceAssumption DEF Redirect, control, ghost
<1>1. TypeOK'
      BY DEF IInv, TypeOK
<1>2. ASSUME NEW v \in Writer PROVE WriterInv(v)'
  <2> USE <1>2 DEF IInv, WriterInv
  <2>1. Apart(v)'
        BY DEF TypeOK, Apart, Early, Busy
  <2>2. Guarded(v)'
        BY DEF TypeOK, Apart, Guarded, Busy
  <2>3. Published(v)'
        BY ThingsAssumption DEF TypeOK, Published, Place
  <2> QED
      BY <2>1, <2>2, <2>3 DEF TypeOK
<1> QED
    BY <1>1, <1>2 DEF IInv

LEMMA ReplantInv == IInv /\ Replant => IInv'
<1> SUFFICES ASSUME IInv, Replant PROVE IInv'
    OBVIOUS
<1> USE MaxRedirectsAssumption, PlaceAssumption DEF Replant, control, ghost
<1>1. TypeOK'
      BY DEF IInv, TypeOK
<1>2. ASSUME NEW v \in Writer PROVE WriterInv(v)'
  <2> USE <1>2 DEF IInv, WriterInv
  <2>1. Apart(v)'
        BY DEF TypeOK, Apart, Early, Busy
  <2>2. Guarded(v)'
        BY DEF TypeOK, Apart, Guarded, Busy
  <2>3. Published(v)'
        BY ThingsAssumption DEF TypeOK, Published, Place
  <2> QED
      BY <2>1, <2>2, <2>3 DEF TypeOK
<1> QED
    BY <1>1, <1>2 DEF IInv

LEMMA CheckInv == ASSUME NEW w \in Writer, IInv, Check(w) PROVE IInv'
<1> USE MaxRedirectsAssumption, PlaceAssumption, WriterAssumption
    DEF Check, Accepts, LeadsBelow, Goto, End, files, control, ghost
<1>1. TypeOK'
      BY DEF IInv, TypeOK, Place
<1>2. ASSUME NEW v \in Writer PROVE WriterInv(v)'
  <2> USE <1>2 DEF IInv, WriterInv
  <2>1. Apart(v)'
        BY DEF TypeOK, Apart, Early, Busy, Place
  <2>2. Guarded(v)'
        BY DEF TypeOK, Apart, Guarded, Busy, Place, Writer
  <2>3. Published(v)'
        BY DEF TypeOK, Apart, Guarded, Published, Place, Busy, Writer
  <2> QED
      BY <2>1, <2>2, <2>3 DEF TypeOK, Apart, Early, Busy
<1> QED
    BY <1>1, <1>2 DEF IInv

LEMMA MakeDirectoryInv == ASSUME NEW w \in Writer, IInv, MakeDirectory(w) PROVE IInv'
<1> USE MaxRedirectsAssumption, PlaceAssumption, WriterAssumption
    DEF MakeDirectory, Goto, End, files, control, ghost
<1>1. TypeOK'
  <2> USE DEF IInv, TypeOK
  <2>1. /\ at' \in Place \union {Missing}
        /\ redirects' \in 0..MaxRedirects /\ seen' \in [Writer -> 0..MaxRedirects]
        /\ stuck' \subseteq Writer
        BY DEF Place
  <2>2. /\ pc' \in [Writer -> {"check", "mkdir", "recheck", "create", "write", "lastcheck",
                              "replace", "cleanup", "done"}]
        /\ outcome' \in [Writer -> {"open", "written", "failed", "killed"}]
        OBVIOUS
  <2>3. content' \in [Place -> {Nothing, Folder} \union (Writer \X {"whole", "part"})]
        OBVIOUS
  <2>4. temp' \in [Writer -> [in : Place \union {Missing}, whole : BOOLEAN]]
        OBVIOUS
  <2> QED
      BY <2>1, <2>2, <2>3, <2>4
<1>2. ASSUME NEW v \in Writer PROVE WriterInv(v)'
  <2> USE <1>2 DEF IInv, WriterInv
  <2>1. Apart(v)'
        BY DEF TypeOK, Apart, Early, Busy, Place
  <2>2. Guarded(v)'
        BY DEF TypeOK, Apart, Guarded, Busy, Place, Writer
  <2>3. Published(v)'
        BY DEF TypeOK, Apart, Guarded, Published, Place, Busy, Writer
  <2> QED
      BY <2>1, <2>2, <2>3 DEF TypeOK, Apart, Early, Busy
<1> QED
    BY <1>1, <1>2 DEF IInv

LEMMA CreateTempInv == ASSUME NEW w \in Writer, IInv, CreateTemp(w) PROVE IInv'
<1> USE MaxRedirectsAssumption, PlaceAssumption, WriterAssumption
    DEF CreateTemp, Goto, End, files, control, ghost
<1>1. TypeOK'
  <2> USE DEF IInv, TypeOK
  <2>1. /\ at' \in Place \union {Missing}
        /\ redirects' \in 0..MaxRedirects /\ seen' \in [Writer -> 0..MaxRedirects]
        /\ stuck' \subseteq Writer
        BY DEF Place
  <2>2. /\ pc' \in [Writer -> {"check", "mkdir", "recheck", "create", "write", "lastcheck",
                              "replace", "cleanup", "done"}]
        /\ outcome' \in [Writer -> {"open", "written", "failed", "killed"}]
    <3>1. CASE at # Missing /\ Goto(w, "write")
          BY <3>1
    <3>2. CASE End(w, "failed")
          BY <3>2
    <3> QED
        BY <3>1, <3>2
  <2>3. content' \in [Place -> {Nothing, Folder} \union (Writer \X {"whole", "part"})]
        OBVIOUS
  <2>4. temp' \in [Writer -> [in : Place \union {Missing}, whole : BOOLEAN]]
    <3> DEFINE Temp == [in : Place \union {Missing}, whole : BOOLEAN]
               file == [in |-> at, whole |-> FALSE]
    <3>1. temp \in [Writer -> Temp] /\ file \in Temp
          BY DEF Place
    <3>2. temp' = temp \/ temp' = [temp EXCEPT ![w] = file]
          OBVIOUS
    <3> HIDE DEF Temp, file, CreateTemp, IInv, TypeOK
    <3>3. temp' \in [Writer -> Temp]
          BY <3>1, <3>2
    <3> QED
        BY <3>3 DEF Temp
  <2> QED
      BY <2>1, <2>2, <2>3, <2>4
<1>2. ASSUME NEW v \in Writer PROVE WriterInv(v)'
  <2> USE <1>2 DEF IInv, WriterInv
  <2>1. Apart(v)'
        BY DEF TypeOK, Apart, Early, Busy, Place
  <2>2. Guarded(v)'
        BY DEF TypeOK, Apart, Guarded, Busy, Place, Writer
  <2>3. Published(v)'
        BY DEF TypeOK, Apart, Guarded, Published, Place, Busy, Writer
  <2> QED
      BY <2>1, <2>2, <2>3 DEF TypeOK, Apart, Early, Busy
<1> QED
    BY <1>1, <1>2 DEF IInv

LEMMA WriteInv == ASSUME NEW w \in Writer, IInv, Write(w) PROVE IInv'
<1> USE MaxRedirectsAssumption, PlaceAssumption, WriterAssumption
    DEF Write, Goto, files, control, ghost
<1>1. TypeOK'
  <2> USE DEF IInv, TypeOK
  <2>1. /\ at' \in Place \union {Missing}
        /\ redirects' \in 0..MaxRedirects /\ seen' \in [Writer -> 0..MaxRedirects]
        /\ stuck' \subseteq Writer
        BY DEF Place
  <2>2. /\ pc' \in [Writer -> {"check", "mkdir", "recheck", "create", "write", "lastcheck",
                              "replace", "cleanup", "done"}]
        /\ outcome' \in [Writer -> {"open", "written", "failed", "killed"}]
        OBVIOUS
  <2>3. content' \in [Place -> {Nothing, Folder} \union (Writer \X {"whole", "part"})]
        OBVIOUS
  <2>4. temp' \in [Writer -> [in : Place \union {Missing}, whole : BOOLEAN]]
    <3> DEFINE Temp == [in : Place \union {Missing}, whole : BOOLEAN]
               file == [in |-> temp[w].in, whole |-> TRUE]
    <3>1. temp \in [Writer -> Temp] /\ file \in Temp
          BY DEF Place
    <3>2. temp' = temp \/ temp' = [temp EXCEPT ![w] = file]
          OBVIOUS
    <3> HIDE DEF Temp, file, Write, IInv, TypeOK
    <3>3. temp' \in [Writer -> Temp]
          BY <3>1, <3>2
    <3> QED
        BY <3>3 DEF Temp
  <2> QED
      BY <2>1, <2>2, <2>3, <2>4
<1>2. ASSUME NEW v \in Writer PROVE WriterInv(v)'
  <2> USE <1>2 DEF IInv, WriterInv
  <2>1. Apart(v)'
        BY DEF TypeOK, Apart, Early, Busy, Place
  <2>2. Guarded(v)'
        BY DEF TypeOK, Apart, Guarded, Busy, Place, Writer
  <2>3. Published(v)'
        BY DEF TypeOK, Apart, Guarded, Published, Place, Busy, Writer
  <2> QED
      BY <2>1, <2>2, <2>3 DEF TypeOK, Apart, Early, Busy
<1> QED
    BY <1>1, <1>2 DEF IInv

LEMMA LastCheckInv == ASSUME NEW w \in Writer, IInv, LastCheck(w) PROVE IInv'
<1> USE MaxRedirectsAssumption, PlaceAssumption, WriterAssumption
    DEF LastCheck, Accepts, LeadsBelow, Goto, files, control, ghost
<1>1. TypeOK'
      BY DEF IInv, TypeOK, Place
<1>2. ASSUME NEW v \in Writer PROVE WriterInv(v)'
  <2> USE <1>2 DEF IInv, WriterInv
  <2>1. Apart(v)'
        BY DEF TypeOK, Apart, Early, Busy, Place
  <2>2. Guarded(v)'
        BY DEF TypeOK, Apart, Guarded, Busy, Place, Writer
  <2>3. Published(v)'
        BY DEF TypeOK, Apart, Guarded, Published, Place, Busy, Writer
  <2> QED
      BY <2>1, <2>2, <2>3 DEF TypeOK, Apart, Early, Busy
<1> QED
    BY <1>1, <1>2 DEF IInv

LEMMA ReplaceInv == ASSUME NEW w \in Writer, IInv, Replace(w) PROVE IInv'
<1> USE MaxRedirectsAssumption, PlaceAssumption, WriterAssumption
<1>1. TypeOK'
  <2> DEFINE file == <<w, IF temp[w].whole THEN "whole" ELSE "part">>
             Thing == {Nothing, Folder} \union (Writer \X {"whole", "part"})
             Label == {"check", "mkdir", "recheck", "create", "write", "lastcheck",
                       "replace", "cleanup", "done"}
  <2>0. /\ content \in [Place -> Thing]
        /\ pc \in [Writer -> Label]
        /\ outcome \in [Writer -> {"open", "written", "failed", "killed"}]
        BY DEF IInv, TypeOK
  <2>1. /\ at \in Place \union {Missing}
        /\ redirects \in 0..MaxRedirects /\ seen \in [Writer -> 0..MaxRedirects]
        /\ stuck \subseteq Writer
        /\ UNCHANGED <<at, redirects, seen, stuck>>
        BY DEF IInv, TypeOK, Replace, ghost
  <2>2. temp[w].in # Missing /\ NoFile \in [in : Place \union {Missing}, whole : BOOLEAN]
        BY DEF IInv, WriterInv, Apart, Busy, Replace, NoFile
  <2>3. file \in Thing /\ "done" \in Label /\ "cleanup" \in Label
        OBVIOUS
  <2>4. \/ /\ temp[w].in = at /\ content' = [content EXCEPT ![at] = file]
           /\ temp' = [temp EXCEPT ![w] = NoFile]
           /\ pc' = [pc EXCEPT ![w] = "done"] /\ outcome' = [outcome EXCEPT ![w] = "written"]
        \/ /\ pc' = [pc EXCEPT ![w] = "cleanup"] /\ UNCHANGED <<content, temp, outcome>>
        BY DEF Replace, Goto, End
  <2> HIDE DEF file, Thing, Label
  <2>5. pc' \in [Writer -> Label] /\ outcome' \in [Writer -> {"open", "written", "failed", "killed"}]
        BY <2>0, <2>3, <2>4
  <2>6. content' \in [Place -> Thing]
        BY <2>0, <2>1, <2>2, <2>3, <2>4
  <2>7. temp' \in [Writer -> [in : Place \union {Missing}, whole : BOOLEAN]]
        BY <2>2, <2>4 DEF IInv, TypeOK
  <2> QED
      BY <2>1, <2>5, <2>6, <2>7 DEF TypeOK, Thing, Label
<1> USE DEF Replace, Goto, End, NoFile, files, control, ghost
<1>2. ASSUME NEW v \in Writer PROVE WriterInv(v)'
  <2> USE <1>2 DEF IInv, WriterInv
  <2>1. Apart(v)'
        BY DEF TypeOK, Apart, Early, Busy, Place
  <2>2. Guarded(v)'
        BY DEF TypeOK, Apart, Guarded, Busy, Place, Writer
  <2>3. Published(v)'
        BY DEF TypeOK, Apart, Guarded, Published, Place, Busy, Writer
  <2> QED
      BY <2>1, <2>2, <2>3 DEF TypeOK, Apart, Early, Busy
<1> QED
    BY <1>1, <1>2 DEF IInv

LEMMA CleanupInv == ASSUME NEW w \in Writer, IInv, Cleanup(w) PROVE IInv'
<1> USE MaxRedirectsAssumption, PlaceAssumption, WriterAssumption
    DEF Cleanup, End, NoFile, files, control, ghost
<1>1. TypeOK'
  <2> USE DEF IInv, TypeOK
  <2>1. /\ at' \in Place \union {Missing}
        /\ redirects' \in 0..MaxRedirects /\ seen' \in [Writer -> 0..MaxRedirects]
        /\ stuck' \subseteq Writer
        BY DEF Place
  <2>2. /\ pc' \in [Writer -> {"check", "mkdir", "recheck", "create", "write", "lastcheck",
                              "replace", "cleanup", "done"}]
        /\ outcome' \in [Writer -> {"open", "written", "failed", "killed"}]
        OBVIOUS
  <2>3. content' \in [Place -> {Nothing, Folder} \union (Writer \X {"whole", "part"})]
        OBVIOUS
  <2>4. temp' \in [Writer -> [in : Place \union {Missing}, whole : BOOLEAN]]
    <3> DEFINE Temp == [in : Place \union {Missing}, whole : BOOLEAN]
               file == IF temp[w].in = at THEN NoFile ELSE temp[w]
    <3>1. temp \in [Writer -> Temp] /\ file \in Temp
          BY DEF Place
    <3>2. temp' = temp \/ temp' = [temp EXCEPT ![w] = file]
          OBVIOUS
    <3> HIDE DEF Temp, file, Cleanup, IInv, TypeOK
    <3>3. temp' \in [Writer -> Temp]
          BY <3>1, <3>2
    <3> QED
        BY <3>3 DEF Temp
  <2> QED
      BY <2>1, <2>2, <2>3, <2>4
<1>2. ASSUME NEW v \in Writer PROVE WriterInv(v)'
  <2> USE <1>2 DEF IInv, WriterInv
  <2>1. Apart(v)'
        BY DEF TypeOK, Apart, Early, Busy, Place
  <2>2. Guarded(v)'
        BY DEF TypeOK, Apart, Guarded, Busy, Place, Writer
  <2>3. Published(v)'
        BY DEF TypeOK, Apart, Guarded, Published, Place, Busy, Writer
  <2> QED
      BY <2>1, <2>2, <2>3 DEF TypeOK, Apart, Early, Busy
<1> QED
    BY <1>1, <1>2 DEF IInv

LEMMA KillInv == ASSUME NEW w \in Writer, IInv, Kill(w) PROVE IInv'
<1> USE MaxRedirectsAssumption, PlaceAssumption, WriterAssumption
    DEF Kill, End, files, control, ghost
<1>1. TypeOK'
      BY DEF IInv, TypeOK, Place
<1>2. ASSUME NEW v \in Writer PROVE WriterInv(v)'
  <2> USE <1>2 DEF IInv, WriterInv
  <2>1. Apart(v)'
        BY DEF TypeOK, Apart, Early, Busy, Place
  <2>2. Guarded(v)'
        BY DEF TypeOK, Apart, Guarded, Busy, Place, Writer
  <2>3. Published(v)'
        BY DEF TypeOK, Apart, Guarded, Published, Place, Busy, Writer
  <2> QED
      BY <2>1, <2>2, <2>3 DEF TypeOK, Apart, Early, Busy
<1> QED
    BY <1>1, <1>2 DEF IInv

LEMMA NextInv == IInv /\ [Next]_vars => IInv'
<1> SUFFICES ASSUME IInv, [Next]_vars PROVE IInv'
    OBVIOUS
<1>1. CASE UNCHANGED vars
      BY <1>1 DEF IInv, TypeOK, WriterInv, Apart, Guarded, Published, vars, files, control, ghost
<1>2. CASE Redirect \/ Replant
      BY <1>2, RedirectInv, ReplantInv
<1>3. ASSUME NEW w \in Writer,
             \/ Check(w) \/ MakeDirectory(w) \/ CreateTemp(w) \/ Write(w)
             \/ LastCheck(w) \/ Replace(w) \/ Cleanup(w) \/ Kill(w)
      PROVE  IInv'
      BY <1>3, CheckInv, MakeDirectoryInv, CreateTempInv, WriteInv, LastCheckInv, ReplaceInv,
         CleanupInv, KillInv
<1> QED
    BY <1>1, <1>2, <1>3 DEF Next

\* The inductive invariant holds in every reachable state.
THEOREM AlwaysInductive == Spec => []IInv
    BY InitInv, NextInv, PTL DEF Spec

\* Every variable keeps its type.
THEOREM TypeCorrect == Spec => []TypeOK
<1>1. IInv => TypeOK
      BY DEF IInv
<1> QED
    BY <1>1, AlwaysInductive, PTL

\* A result is elsewhere only when the name was redirected twice after its
\* temporary file was created, a snapshot only when it was after the last check.
THEOREM AlwaysResultsStayBelow == Spec => []ResultsStayBelow
<1>1. IInv => ResultsStayBelow
      BY DEF IInv, TypeOK, WriterInv, Published, ResultsStayBelow
<1> QED
    BY <1>1, AlwaysInductive, PTL

\* No temporary file is left behind without a reason.
THEOREM AlwaysLitterIsExplained == Spec => []LitterIsExplained
<1>1. IInv => LitterIsExplained
      BY DEF IInv, TypeOK, WriterInv, LitterIsExplained
<1> QED
    BY <1>1, AlwaysInductive, PTL

-----------------------------------------------------------------------------
(* The writers implement the store. *)

LEMMA StoreInit == Init => Store!Empty
    BY DEF Init, Store!Empty

LEMMA StoreStep ==
  IInv /\ [Next]_vars =>
    [Store!Change \/ \E w \in Writer : Store!Publish(w) \/ Store!Give(w)]_Store!astore
<1> SUFFICES ASSUME IInv, [Next]_vars
             PROVE  \/ Store!Change \/ \E w \in Writer : Store!Publish(w) \/ Store!Give(w)
                    \/ UNCHANGED Store!astore
    OBVIOUS
<1> USE DEF Store!astore, Store!Change, files, control, ghost, Goto
<1>1. CASE UNCHANGED vars
      BY <1>1 DEF vars
<1>2. CASE Redirect
      BY <1>2 DEF Redirect
<1>3. CASE Replant
      BY <1>3 DEF Replant
<1>4. ASSUME NEW w \in Writer, End(w, "failed") \/ End(w, "killed"), pc[w] # "done",
             UNCHANGED content
      PROVE  Store!Give(w)
      BY <1>4 DEF End, Store!Give, IInv, WriterInv
<1>5. ASSUME NEW w \in Writer, Replace(w)
      PROVE  Store!Publish(w) \/ UNCHANGED Store!astore
  <2>1. CASE /\ temp[w].in = at /\ content[at] # Folder
             /\ content' = [content EXCEPT ![at] = <<w, IF temp[w].whole THEN "whole" ELSE "part">>]
             /\ End(w, "written")
    <3>1. temp[w].whole /\ at \in Place /\ outcome[w] = "open"
          BY <1>5, <2>1 DEF Replace, IInv, TypeOK, WriterInv, Apart, Busy
    <3> QED
        BY <2>1, <3>1 DEF End, Store!Publish
  <2> QED
      BY <1>5, <2>1 DEF Replace
<1>6. ASSUME NEW w \in Writer,
             \/ Check(w) \/ MakeDirectory(w) \/ CreateTemp(w) \/ Write(w)
             \/ LastCheck(w) \/ Cleanup(w) \/ Kill(w)
      PROVE  Store!Give(w) \/ UNCHANGED Store!astore
      BY <1>4, <1>6 DEF Check, MakeDirectory, CreateTemp, Write, LastCheck, Cleanup, Kill
<1> QED
    BY <1>1, <1>2, <1>3, <1>5, <1>6 DEF Next

\* Whatever the owner does to the directory, a file at the output's name is
\* the whole of what one writer wrote, and each writer's report is true.
THEOREM Implements == Spec => ImplementsArtifactStore
    BY StoreInit, StoreStep, AlwaysInductive, PTL DEF Spec, ImplementsArtifactStore, Store!Spec
=============================================================================
