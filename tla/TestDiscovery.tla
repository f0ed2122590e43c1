---------------------------- MODULE TestDiscovery -----------------------------
(***************************************************************************)
(* The discovery of tests (adapters/tests_adapter.py): a walk through the  *)
(* project, bounded in depth and in files, then the reading of what it has *)
(* found that configures or runs tests.                                    *)
(*                                                                         *)
(* A directory is listed when the walk gets to it and its files are read   *)
(* after the walk, while the owner goes on creating and removing both.  A  *)
(* file here is a path; names that sort before others and the order of the *)
(* walk are left open.                                                     *)
(***************************************************************************)
EXTENDS FiniteSets, Naturals

CONSTANTS
  Directory, Root,
  Parent,     \* the directory of every file, and of every directory but Root
  Depth,      \* how far each directory is from Root
  Pruned,     \* the directories passed over: generated, a link, or leading outside the project
  Foreign,    \* the files that lead outside the project
  Test, Config, Manifest,  \* the files by name: tests, pytest configurations, package.json
  MayFail,    \* the files and directories whose path may fail to resolve
  MaxFiles, MaxDepth,
  MaxChanges  \* bound on what the owner creates and removes

File == Test \union Config \union Manifest
Path == File \union Directory

ASSUME FilesAssumption == IsFiniteSet(File)
ASSUME LimitsAssumption == MaxFiles \in Nat \ {0} /\ MaxDepth \in Nat \ {0}
ASSUME BoundAssumption == MaxChanges \in Nat
ASSUME TreeAssumption ==
  /\ Root \in Directory \ (Pruned \union File)
  /\ Depth \in [Directory -> Nat] /\ Depth[Root] = 0
  /\ Parent \in [Path \ {Root} -> Directory]
  /\ \A d \in Directory \ {Root} : Depth[d] = Depth[Parent[d]] + 1

VARIABLES
  present,   \* what exists
  pc,        \* "walk", "configs", "manifests", "done" or "raised"
  todo,      \* the directories the walk has listed and not entered
  found,     \* the files discovered
  unread,    \* the files found that are still to be read
  issues,    \* what makes the lists of files unknown
  failed,    \* the manifests that could not be read: commands are unknown
  read,      \* the configurations and manifests that have been read
  skipped,   \* what a directory had and was passed over, as its path failed to resolve
  always,    \* what has existed at all times
  ever,      \* what has existed at some time
  changes    \* how often the owner has changed something

project == <<present, always, ever, changes>>
walk == <<pc, todo, found, issues, skipped>>
reads == <<unread, failed, read>>
vars == <<project, walk, reads>>

\* Whatever exists is in a directory that exists.
Projects ==
  {P \in SUBSET Path : Root \in P /\ \A p \in P \ {Root} : Parent[p] \in P}

Init ==
  /\ present \in Projects
  /\ always = present /\ ever = present /\ changes = 0
  /\ pc = "walk" /\ todo = {Root} /\ found = {} /\ issues = {} /\ skipped = {}
  /\ unread = {} /\ failed = {} /\ read = {}

\* The owner creates or removes a file, or a directory with nothing in it.
Change ==
  /\ changes < MaxChanges /\ changes' = changes + 1
  /\ \E p \in Path : present' = IF p \in present THEN present \ {p} ELSE present \union {p}
  /\ present' \in Projects
  /\ always' = always \intersect present' /\ ever' = ever \union present'
  /\ UNCHANGED <<walk, reads>>

-----------------------------------------------------------------------------
(* _walk_files *)

\* What a directory gives when the paths of lost fail to resolve: those are passed
\* over, and neither an issue nor a warning tells.
Listed(d, lost) == {f \in present \intersect File : Parent[f] = d} \ (Foreign \union lost)
Entered(d, lost) ==
  {c \in (present \intersect Directory) \ {Root} : Parent[c] = d} \ (Pruned \union lost)

\* Mutant: errors of os.walk are passed over, as it does when not told otherwise.
UnlistableQuietly(d) ==
  /\ todo' = todo \ {d}
  /\ UNCHANGED <<found, issues, skipped>>

Unlistable(d) ==
  /\ todo' = todo \ {d}
  /\ issues' = issues \union {"read"}
  /\ UNCHANGED <<found, skipped>>

\* Mutant: the limit is looked at after the files of a directory are taken.
TakeAll(d, lost) ==
  /\ found' = found \union Listed(d, lost)
  /\ issues' = issues \union (IF Depth[d] >= MaxDepth THEN {"depth"} ELSE {})
  /\ todo' = IF Cardinality(found') >= MaxFiles THEN {}
             ELSE (todo \ {d}) \union (IF Depth[d] >= MaxDepth THEN {} ELSE Entered(d, lost))
  /\ skipped' = skipped \union lost

\* The files of a directory, in the order of their names, as far as the limit
\* allows.  A file too many is an issue; when the limit is met exactly, the walk
\* stops there and none is recorded.
Take(d, lost) ==
  \E taken \in SUBSET Listed(d, lost) :
    /\ Cardinality(taken) <= MaxFiles - Cardinality(found)
    /\ taken # Listed(d, lost) => Cardinality(taken) = MaxFiles - Cardinality(found)
    /\ found' = found \union taken
    /\ issues' = issues \union (IF Depth[d] >= MaxDepth THEN {"depth"} ELSE {})
                        \union (IF taken # Listed(d, lost) THEN {"files"} ELSE {})
    /\ todo' = IF Cardinality(found') >= MaxFiles THEN {}
               ELSE (todo \ {d}) \union (IF Depth[d] >= MaxDepth THEN {} ELSE Entered(d, lost))
    /\ skipped' = skipped \union lost

Unresolved(d) == {p \in (present \intersect MayFail) \ {Root} : Parent[p] = d}

\* A directory that cannot be listed, or is gone, is an issue.
Visit(d) ==
  /\ pc = "walk" /\ d \in todo
  /\ \/ Unlistable(d)
     \/ d \in present /\ \E lost \in SUBSET Unresolved(d) : Take(d, lost)
  /\ UNCHANGED <<pc, project, reads>>

\* A link that leads to itself ends the call: resolve() raises RuntimeError of it
\* (before Python 3.13), which is no OSError.
RaiseInWalk ==
  /\ pc = "walk" /\ \E f \in present \intersect File : Parent[f] \in todo
  /\ pc' = "raised"
  /\ UNCHANGED <<todo, found, issues, skipped, project, reads>>

EndWalk ==
  /\ pc = "walk" /\ todo = {}
  /\ pc' = "configs"
  /\ unread' = found \intersect Config
  /\ UNCHANGED <<todo, found, issues, skipped, project, failed, read>>

-----------------------------------------------------------------------------
(* _is_pytest_config and _discover_commands *)

\* A configuration that cannot be read is taken for none, and nothing is
\* recorded.
ReadConfig(f) ==
  /\ pc = "configs" /\ f \in unread
  /\ unread' = unread \ {f}
  /\ (f \in present /\ read' = read \union {f}) \/ UNCHANGED read
  /\ UNCHANGED <<walk, project, failed>>

EndConfigs ==
  /\ pc = "configs" /\ unread = {}
  /\ pc' = "manifests"
  /\ unread' = found \intersect Manifest
  /\ UNCHANGED <<todo, found, issues, skipped, project, failed, read>>

\* Mutant: a manifest that cannot be parsed has no scripts.
ReadManifestOrNot(f) ==
  /\ pc = "manifests" /\ f \in unread
  /\ unread' = unread \ {f}
  /\ (f \in present /\ read' = read \union {f}) \/ UNCHANGED read
  /\ UNCHANGED <<walk, project, failed>>

\* A manifest that is gone, too long or malformed makes the commands unknown.
ReadManifest(f) ==
  /\ pc = "manifests" /\ f \in unread
  /\ unread' = unread \ {f}
  /\ \/ f \in present /\ read' = read \union {f} /\ UNCHANGED failed
     \/ failed' = failed \union {f} /\ UNCHANGED read
  /\ UNCHANGED <<walk, project>>

\* A package.json that is not an object, or a link that leads to itself, ends the
\* call with an exception that nothing here catches.
RaiseInRead ==
  /\ pc \in {"configs", "manifests"} /\ unread \intersect present # {}
  /\ pc' = "raised"
  /\ UNCHANGED <<todo, found, issues, skipped, project, reads>>

Answer ==
  /\ pc = "manifests" /\ unread = {}
  /\ pc' = "done"
  /\ UNCHANGED <<todo, found, issues, skipped, project, reads>>

Next ==
  \/ Change \/ EndWalk \/ EndConfigs \/ Answer \/ RaiseInWalk \/ RaiseInRead
  \/ \E d \in Directory : Visit(d)
  \/ \E f \in File : ReadConfig(f) \/ ReadManifest(f)

Spec == Init /\ [][Next]_vars

-----------------------------------------------------------------------------
(* Properties. *)

\* The types of the variables, and the limit on files.
TypeOK ==
  /\ present \in Projects /\ always \subseteq present /\ present \subseteq ever
  /\ pc \in {"walk", "configs", "manifests", "done", "raised"}
  /\ todo \subseteq Directory /\ found \subseteq File
  /\ Cardinality(found) <= MaxFiles
  /\ issues \subseteq {"read", "depth", "files"} /\ skipped \subseteq Path \ {Root}
  /\ unread \subseteq found /\ failed \subseteq Manifest /\ read \subseteq found
  /\ changes \in 0..MaxChanges

\* A directory and those above it.
Above ==
  [d \in Directory |->
     {e \in Directory : \A S \in SUBSET Directory :
        d \in S /\ (\A c \in S \ {Root} : Parent[c] \in S) => e \in S}]

\* What the walk should not miss: files that have been there at all times, unless
\* they or a directory above them are of those passed over, or their paths failed
\* to resolve.
Certain ==
  {f \in (always \intersect File) \ (Foreign \union skipped) :
     Above[Parent[f]] \intersect (Pruned \union skipped) = {}}

Answered == pc = "done" /\ issues = {}
Full == Cardinality(found) >= MaxFiles

\* A known list of files lies between what was there at all times and what was
\* there at some time, however the project changed under the walk, and known
\* commands are those of every manifest there was at all times.  Two ways to lose
\* a part quietly are excepted, which _walk_files has: the walk ended because the
\* limit was met, and a path failed to resolve; nothing else is lost.
KnownIsBetween ==
  Answered =>
    /\ found \subseteq ever
    /\ ~Full => Certain \subseteq found
    /\ ~Full /\ failed = {} => Certain \intersect Manifest \subseteq read

\* Bounded discovery is unknown instead of partial: a limit loses nothing quietly.
BoundedDiscoveryIsUnknown == Answered => Certain \subseteq found
=============================================================================
