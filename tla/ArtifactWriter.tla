---------------------------- MODULE ArtifactWriter ----------------------------
(***************************************************************************)
(* Writing an artifact: write_reconciliation_result (reconcile/            *)
(* serialization.py) and the last steps of EvidenceCollector.collect with  *)
(* _write_snapshot_after_pass (evidence/collector.py).                     *)
(*                                                                         *)
(* Both write the bytes into a temporary file beside the output and put it *)
(* in the output's place.  The output is a name: they hold nothing open    *)
(* between two steps, and the owner of the product may meanwhile make the  *)
(* name of its directory lead to another directory below artifacts, to a   *)
(* place elsewhere by a link, or to nothing.  A writer of results resolves *)
(* the name again before and after it has created the file; the collector  *)
(* does it only before.                                                    *)
(*                                                                         *)
(* The temporary file stays in the directory in which it was created; its  *)
(* name, too, leads to it only while the directory's does.                 *)
(***************************************************************************)
EXTENDS Naturals

CONSTANTS
  Result,     \* the calls of write_reconciliation_result with this output
  Snapshot,   \* the runs of the collector with this output
  Directory,  \* directories the name may lead to below artifacts
  Elsewhere,  \* a directory not below artifacts
  Missing,    \* the name leads nowhere
  Nothing, Folder,  \* no file, or a directory, where the output should be
  MaxRedirects  \* bound on how often the owner makes the name lead elsewhere

Writer == Result \union Snapshot
Place == Directory \union {Elsewhere}

ASSUME WriterAssumption == Result \intersect Snapshot = {}
ASSUME MaxRedirectsAssumption == MaxRedirects \in Nat
ASSUME ThingsAssumption ==
  \A w \in Writer, part \in {"whole", "part"} : <<w, part>> \notin {Nothing, Folder}
ASSUME PlaceAssumption == Missing \notin Place /\ Elsewhere \notin Directory

VARIABLES
  at,        \* where the name of the output's directory leads
  content,   \* what is under the output's name in each directory
  temp,      \* the temporary file of each writer: where it is, and whether it is whole
  pc,        \* where each writer is
  outcome,   \* "open", "written", "failed" or "killed"
  redirects, \* how often the owner has made the name lead to another place
  seen,      \* redirects when the writer last validated the output and, of a
             \* writer of results, when it created its temporary file
  stuck      \* the writers that failed to remove their temporary file

files == <<at, content, temp>>
control == <<pc, outcome>>
ghost == <<redirects, seen, stuck>>
vars == <<files, control, ghost>>

NoFile == [in |-> Missing, whole |-> FALSE]

Init ==
  /\ at \in Directory \union {Missing}
  /\ content \in [Place -> {Nothing, Folder}]
  /\ temp = [w \in Writer |-> NoFile]
  /\ pc = [w \in Writer |-> "check"]
  /\ outcome = [w \in Writer |-> "open"]
  /\ redirects = 0
  /\ seen = [w \in Writer |-> 0]
  /\ stuck = {}

-----------------------------------------------------------------------------
(* The owner. *)

Redirect ==
  /\ redirects < MaxRedirects /\ redirects' = redirects + 1
  /\ at' \in (Place \union {Missing}) \ {at}
  /\ UNCHANGED <<content, temp, control, seen, stuck>>

Replant ==
  /\ \E d \in Place, thing \in {Nothing, Folder} :
       content[d] # thing /\ content' = [content EXCEPT ![d] = thing]
  /\ UNCHANGED <<at, temp, control, ghost>>

-----------------------------------------------------------------------------
(* The writers. *)

Goto(w, label) == pc' = [pc EXCEPT ![w] = label] /\ UNCHANGED outcome
End(w, end) == pc' = [pc EXCEPT ![w] = "done"] /\ outcome' = [outcome EXCEPT ![w] = end]

\* The name leads where it led when it was first resolved: the same path, below
\* artifacts, though not necessarily the same directory.
LeadsBelow == at # Elsewhere

\* _validate_output_path also refuses an output that is a directory;
\* validate_collection_request does not look.
Accepts(w) == LeadsBelow /\ (w \in Result /\ at # Missing => content[at] # Folder)

\* The output is validated; a writer of results does it again once the
\* directory exists.
Check(w) ==
  /\ pc[w] \in {"check", "recheck"}
  /\ IF Accepts(w)
       THEN Goto(w, IF pc[w] = "check" THEN "mkdir" ELSE "create")
       ELSE End(w, "failed")
  /\ seen' = [seen EXCEPT ![w] = redirects]
  /\ UNCHANGED <<files, redirects, stuck>>

Fresh(d) == content[d] = Nothing /\ \A w \in Writer : temp[w].in # d

MakeDirectory(w) ==
  /\ pc[w] = "mkdir"
  /\ \/ /\ IF at = Missing THEN \E d \in Directory : Fresh(d) /\ at' = d ELSE UNCHANGED at
        /\ Goto(w, IF w \in Result THEN "recheck" ELSE "create")
     \/ at = Missing /\ UNCHANGED at /\ End(w, "failed")
  /\ UNCHANGED <<content, temp, ghost>>

CreateTemp(w) ==
  /\ pc[w] = "create"
  /\ \/ /\ at # Missing
        /\ temp' = [temp EXCEPT ![w] = [in |-> at, whole |-> FALSE]]
        /\ seen' = IF w \in Result THEN [seen EXCEPT ![w] = redirects] ELSE seen
        /\ Goto(w, "write")
     \/ End(w, "failed") /\ UNCHANGED <<temp, seen>>
  /\ UNCHANGED <<at, content, redirects, stuck>>

\* Mutant: an error while writing is not noticed.
WriteOrNot(w) ==
  /\ pc[w] = "write"
  /\ \E whole \in BOOLEAN : temp' = [temp EXCEPT ![w] = [in |-> temp[w].in, whole |-> whole]]
  /\ Goto(w, IF w \in Result THEN "lastcheck" ELSE "replace")
  /\ UNCHANGED <<at, content, ghost>>

\* Write, flush and fsync, through the open descriptor; or the disk is full.
Write(w) ==
  /\ pc[w] = "write"
  /\ \/ /\ temp' = [temp EXCEPT ![w] = [in |-> temp[w].in, whole |-> TRUE]]
        /\ Goto(w, IF w \in Result THEN "lastcheck" ELSE "replace")
     \/ Goto(w, "cleanup") /\ UNCHANGED temp
  /\ UNCHANGED <<at, content, ghost>>

\* Mutant: the output is not validated a last time.
NoLastCheck(w) ==
  /\ pc[w] = "lastcheck" /\ Goto(w, "replace")
  /\ UNCHANGED <<files, ghost>>

LastCheck(w) ==
  /\ pc[w] = "lastcheck"
  /\ Goto(w, IF Accepts(w) THEN "replace" ELSE "cleanup")
  /\ UNCHANGED <<files, ghost>>

\* Mutant: a replacement that fails is not followed by the removal.
ReplaceOrGiveUp(w) ==
  /\ pc[w] = "replace"
  /\ IF temp[w].in = at /\ content[at] # Folder
       THEN /\ content' = [content EXCEPT ![at] = <<w, "whole">>]
            /\ temp' = [temp EXCEPT ![w] = NoFile]
            /\ End(w, "written")
       ELSE End(w, "failed") /\ UNCHANGED <<content, temp>>
  /\ UNCHANGED <<at, ghost>>

\* os.replace: both names are resolved once more, by the operating system.
Replace(w) ==
  /\ pc[w] = "replace"
  /\ \/ /\ temp[w].in = at /\ content[at] # Folder
        /\ content' = [content EXCEPT ![at] = <<w, IF temp[w].whole THEN "whole" ELSE "part">>]
        /\ temp' = [temp EXCEPT ![w] = NoFile]
        /\ End(w, "written")
     \/ Goto(w, "cleanup") /\ UNCHANGED <<content, temp>>
  /\ UNCHANGED <<at, ghost>>

\* Mutant: after a failed removal the file is not accounted for.
CleanupForgets(w) ==
  /\ pc[w] = "cleanup"
  /\ temp' = [temp EXCEPT ![w].in = IF temp[w].in = at THEN Missing ELSE Nothing]
  /\ End(w, "failed")
  /\ UNCHANGED <<at, content, redirects, seen, stuck>>

\* The finally block removes the file its name leads to, if any, or fails; the
\* caller gets an exception in every case.
Cleanup(w) ==
  /\ pc[w] = "cleanup"
  /\ \/ temp' = [temp EXCEPT ![w] = IF temp[w].in = at THEN NoFile ELSE temp[w]] /\ UNCHANGED stuck
     \/ temp[w].in = at /\ stuck' = stuck \union {w} /\ UNCHANGED temp
  /\ End(w, "failed")
  /\ UNCHANGED <<at, content, redirects, seen>>

Kill(w) ==
  /\ pc[w] # "done"
  /\ End(w, "killed")
  /\ UNCHANGED <<files, ghost>>

Next ==
  \/ Redirect \/ Replant
  \/ \E w \in Writer :
       \/ Check(w) \/ MakeDirectory(w) \/ CreateTemp(w) \/ Write(w)
       \/ LastCheck(w) \/ Replace(w) \/ Cleanup(w) \/ Kill(w)

Spec == Init /\ [][Next]_vars

-----------------------------------------------------------------------------
(* Properties. *)

\* The types of the variables.
TypeOK ==
  /\ at \in Place \union {Missing}
  /\ content \in [Place -> {Nothing, Folder} \union (Writer \X {"whole", "part"})]
  /\ temp \in [Writer -> [in : Place \union {Missing}, whole : BOOLEAN]]
  /\ pc \in [Writer -> {"check", "mkdir", "recheck", "create", "write", "lastcheck",
                        "replace", "cleanup", "done"}]
  /\ outcome \in [Writer -> {"open", "written", "failed", "killed"}]
  /\ redirects \in 0..MaxRedirects /\ seen \in [Writer -> 0..MaxRedirects]
  /\ stuck \subseteq Writer

\* The repeated resolutions are there so that a link cannot become an unchecked
\* destination.  What they leave open: a result gets elsewhere only if the name
\* leads to another place twice after its temporary file was created, back for
\* the last check and away again; a snapshot only if it does once after the check.
ResultsStayBelow ==
  \A w \in Writer, part \in {"whole", "part"} :
    content[Elsewhere] = <<w, part>> =>
      redirects - seen[w] >= IF w \in Result THEN 2 ELSE 1

\* A writer that is not killed leaves its temporary file behind only when the
\* file could not be removed, or the name of its directory led elsewhere; while
\* nothing changes, it never does.
LitterIsExplained ==
  \A w \in Writer :
    outcome[w] \in {"written", "failed"} /\ temp[w].in # Missing =>
      w \in stuck \/ redirects > seen[w]

\* Two writers and an owner that changes the directory under them: a reader
\* sees what the store promises.
Store == INSTANCE ArtifactStore
ImplementsArtifactStore == Store!Spec
=============================================================================
