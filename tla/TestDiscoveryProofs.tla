------------------------- MODULE TestDiscoveryProofs -------------------------
(***************************************************************************)
(* Proofs that a known list of tests lies between what was there all the   *)
(* time and what was there at some time, for every project and every       *)
(* change of it, but for what the limit and unresolved paths leave out.    *)
(*                                                                         *)
(* The walk keeps no record of where it has been.  The invariant says that *)
(* there is such a record: a set of directories, each of which has given   *)
(* all its lasting files to found and its lasting subdirectories to the    *)
(* record or to todo, or has skipped them.  When nothing is left to do, a  *)
(* lasting directory outside that set has one above it that was passed     *)
(* over.                                                                   *)
(***************************************************************************)
EXTENDS TestDiscovery, FiniteSetTheorems, WellFoundedInduction, TLAPS

\* The files of a directory that have lasted, and its subdirectories, but for those
\* that were skipped.
LastingFiles(d) == {f \in (always \intersect File) \ (Foreign \union skipped) : Parent[f] = d}
LastingDirectories(d) ==
  {c \in (always \intersect Directory) \ (Pruned \union skipped \union {Root}) : Parent[c] = d}

\* V has been walked through, but for what is still to do.
Walked(V) ==
  /\ Root \in V \union todo
  /\ \A d \in V : LastingFiles(d) \subseteq found /\ LastingDirectories(d) \subseteq V \union todo

WalkedOrNot == issues = {} /\ ~Full => \E V \in SUBSET Directory : Walked(V)

\* Nothing is to be done after the walk, and what has to be read is or will be.
Stages ==
  /\ pc \in {"configs", "manifests", "done"} => todo = {}
  /\ pc = "manifests" =>
       unread \subseteq Manifest /\ found \intersect Manifest \subseteq read \union failed \union unread
  /\ pc = "done" => found \intersect Manifest \subseteq read \union failed

IInv ==
  /\ TypeOK /\ always \in Projects /\ found \subseteq ever
  /\ Stages /\ WalkedOrNot
-----------------------------------------------------------------------------
(* Sets of files, and projects. *)

\* Every set of files is finite, so a larger one has no smaller number.
LEMMA FilesAreFinite ==
  ASSUME NEW F \in SUBSET File, NEW G \in SUBSET F
  PROVE  /\ IsFiniteSet(F) /\ Cardinality(F) \in Nat
         /\ Cardinality(G) <= Cardinality(F)
<1>1. IsFiniteSet(F)
  BY FilesAssumption, FS_Subset
<1> QED
  BY <1>1, FS_Subset, FS_CardinalityType

\* What is taken after some files are found is no more than the limit allows.
LEMMA TakenFiles ==
  ASSUME NEW F \in SUBSET File, NEW G \in SUBSET File,
         Cardinality(G) <= MaxFiles - Cardinality(F)
  PROVE  Cardinality(F \union G) <= MaxFiles
<1>1. /\ IsFiniteSet(F) /\ IsFiniteSet(G) /\ Cardinality(F) \in Nat /\ Cardinality(G) \in Nat
      /\ Cardinality(F \intersect G) \in Nat
  BY FilesAreFinite
<1>2. Cardinality(F \union G) = Cardinality(F) + Cardinality(G) - Cardinality(F \intersect G)
  BY <1>1, FS_Union
<1> QED
  BY <1>1, <1>2, LimitsAssumption

\* What two projects have in common is a project.
LEMMA CommonProject ==
  ASSUME NEW P \in Projects, NEW Q \in Projects
  PROVE  P \intersect Q \in Projects
BY DEF Projects

-----------------------------------------------------------------------------
(* Every step preserves the invariant. *)

LEMMA InitIInv == Init => IInv
<1> SUFFICES ASSUME Init PROVE IInv
  OBVIOUS
<1>1. TypeOK
  BY FS_EmptySet, LimitsAssumption, TreeAssumption, BoundAssumption DEF Init, TypeOK
<1>2. Walked({})
  BY DEF Init, Walked
<1> QED
  BY <1>1, <1>2 DEF Init, IInv, Stages, WalkedOrNot

\* The owner can only take from what has lasted.
LEMMA ChangeIInv == IInv /\ Change => IInv'
<1> SUFFICES ASSUME IInv, Change PROVE IInv'
  OBVIOUS
<1>1. always' \in Projects
  BY CommonProject DEF IInv, Change
<1>2. TypeOK'
  <2>1. always' \subseteq present' /\ present' \subseteq ever' /\ present' \in Projects
    BY DEF Change
  <2>2. changes' \in 0..MaxChanges
    BY BoundAssumption DEF IInv, TypeOK, Change
  <2> QED
    BY <2>1, <2>2 DEF IInv, TypeOK, Change, walk, reads
<1>3. WalkedOrNot'
  <2> SUFFICES ASSUME issues = {}, ~Full PROVE \E V \in SUBSET Directory : Walked(V)'
    BY DEF WalkedOrNot, Full, Change, walk
  <2>1. PICK V \in SUBSET Directory : Walked(V)
    BY DEF IInv, WalkedOrNot
  <2>2. always' \subseteq always
    BY DEF Change
  <2>3. \A d : LastingFiles(d)' \subseteq LastingFiles(d) /\ LastingDirectories(d)' \subseteq LastingDirectories(d)
    BY <2>2 DEF LastingFiles, LastingDirectories, Change, walk
  <2> QED
    BY <2>1, <2>3 DEF Walked, Change, walk
<1>4. found' \subseteq ever' /\ Stages'
  BY DEF IInv, Stages, Change, walk, reads
<1> QED
  BY <1>1, <1>2, <1>3, <1>4 DEF IInv

\* A directory that cannot be listed leaves the walk with an issue.
LEMMA UnlistableIInv ==
  ASSUME IInv, NEW d \in Directory, pc = "walk", Unlistable(d), UNCHANGED <<pc, project, reads>>
  PROVE  IInv'
<1>1. TypeOK'
  BY DEF IInv, TypeOK, Unlistable, project, reads
<1>2. WalkedOrNot'
  BY DEF WalkedOrNot, Unlistable
<1> QED
  BY <1>1, <1>2 DEF IInv, Stages, Unlistable, project, reads

\* A directory from which files are taken gives all of them, or the walk ends at
\* the limit or with an issue; its subdirectories are to be done.
LEMMA TakeIInv ==
  ASSUME IInv, NEW d \in Directory, pc = "walk", d \in todo, d \in present,
         NEW lost \in SUBSET Unresolved(d), Take(d, lost), UNCHANGED <<pc, project, reads>>
  PROVE  IInv'
<1> PICK taken \in SUBSET Listed(d, lost) :
      /\ Cardinality(taken) <= MaxFiles - Cardinality(found)
      /\ found' = found \union taken
      /\ issues' = issues \union (IF Depth[d] >= MaxDepth THEN {"depth"} ELSE {})
                          \union (IF taken # Listed(d, lost) THEN {"files"} ELSE {})
      /\ todo' = IF Cardinality(found') >= MaxFiles THEN {}
                 ELSE (todo \ {d}) \union (IF Depth[d] >= MaxDepth THEN {} ELSE Entered(d, lost))
      /\ skipped' = skipped \union lost
  BY DEF Take
<1>1. taken \subseteq File /\ taken \subseteq present /\ lost \subseteq Path \ {Root}
  BY DEF Listed, Unresolved, IInv, TypeOK, Projects
<1>2. TypeOK'
  <2>1. Cardinality(found') <= MaxFiles
    BY <1>1, TakenFiles DEF IInv, TypeOK
  <2>2. todo' \subseteq Directory
    BY DEF IInv, TypeOK, Entered
  <2>3. issues' \subseteq {"read", "depth", "files"}
    BY DEF IInv, TypeOK
  <2> QED
    BY <1>1, <2>1, <2>2, <2>3 DEF IInv, TypeOK, project, reads
<1>3. found' \subseteq ever'
  BY <1>1 DEF IInv, TypeOK, project
<1>4. WalkedOrNot'
  <2> SUFFICES ASSUME issues' = {}, ~Full' PROVE \E V \in SUBSET Directory : Walked(V)'
    BY DEF WalkedOrNot
  <2>1. issues = {} /\ taken = Listed(d, lost) /\ ~(Depth[d] >= MaxDepth)
    OBVIOUS
  <2>2. ~Full
    <3>1. found \in SUBSET found' /\ found' \in SUBSET File
      BY <1>1 DEF IInv, TypeOK
    <3> QED
      BY <3>1, FilesAreFinite, LimitsAssumption DEF Full
  <2>3. todo' = (todo \ {d}) \union Entered(d, lost)
    BY <2>1 DEF Full
  <2>4. PICK V \in SUBSET Directory : Walked(V)
    BY <2>1, <2>2 DEF IInv, WalkedOrNot
  <2>5. LastingFiles(d)' \subseteq taken /\ LastingDirectories(d)' \subseteq Entered(d, lost)
    BY <2>1 DEF LastingFiles, LastingDirectories, Listed, Entered, IInv, TypeOK, project
  <2>6. \A e : /\ LastingFiles(e)' \subseteq LastingFiles(e)
               /\ LastingDirectories(e)' \subseteq LastingDirectories(e)
    BY DEF LastingFiles, LastingDirectories, project
  <2> DEFINE W == V \union {d}
  <2>7. W \union todo' = (V \union todo) \union Entered(d, lost)
    BY <2>3
  <2>8. Walked(W)'
    BY <2>4, <2>5, <2>6, <2>7 DEF Walked
  <2> QED
    BY <2>8
<1> QED
  BY <1>2, <1>3, <1>4 DEF IInv, Stages, project, reads

LEMMA VisitIInv == ASSUME NEW d \in Directory, IInv, Visit(d) PROVE IInv'
BY UnlistableIInv, TakeIInv DEF Visit

\* Past the walk, what has been walked through stays so.
LEMMA AfterTheWalk == IInv /\ UNCHANGED <<todo, found, issues, skipped, project>> => WalkedOrNot'
<1> SUFFICES ASSUME IInv, UNCHANGED <<todo, found, issues, skipped, project>>, issues = {}, ~Full
             PROVE  \E V \in SUBSET Directory : Walked(V)'
  BY DEF WalkedOrNot, Full
<1>1. PICK V \in SUBSET Directory : Walked(V)
  BY DEF IInv, WalkedOrNot
<1> QED
  BY <1>1 DEF Walked, LastingFiles, LastingDirectories, project

LEMMA EndIInv == IInv /\ (EndWalk \/ EndConfigs \/ Answer) => IInv'
<1> SUFFICES ASSUME IInv, EndWalk \/ EndConfigs \/ Answer PROVE IInv'
  OBVIOUS
<1>1. UNCHANGED <<todo, found, issues, skipped, project>>
  BY DEF EndWalk, EndConfigs, Answer
<1>2. WalkedOrNot'
  BY <1>1, AfterTheWalk
<1>3. TypeOK'
  BY <1>1 DEF IInv, TypeOK, project, reads, EndWalk, EndConfigs, Answer
<1>4. Stages'
  BY <1>1 DEF IInv, Stages, EndWalk, EndConfigs, Answer, reads
<1> QED
  BY <1>1, <1>2, <1>3, <1>4 DEF IInv, project

\* An exception that ends the call may come during the walk: nothing is answered.
LEMMA RaiseIInv == IInv /\ (RaiseInWalk \/ RaiseInRead) => IInv'
<1> SUFFICES ASSUME IInv, RaiseInWalk \/ RaiseInRead PROVE IInv'
  OBVIOUS
<1>1. UNCHANGED <<todo, found, issues, skipped, project>>
  BY DEF RaiseInWalk, RaiseInRead
<1>2. WalkedOrNot'
  BY <1>1, AfterTheWalk
<1> QED
  BY <1>1, <1>2 DEF IInv, TypeOK, Stages, RaiseInWalk, RaiseInRead, project, reads

LEMMA ReadIInv ==
  ASSUME IInv, NEW f \in File, ReadConfig(f) \/ ReadManifest(f)
  PROVE  IInv'
<1>1. UNCHANGED <<pc, todo, found, issues, skipped, project>> /\ pc \in {"configs", "manifests"}
  BY DEF ReadConfig, ReadManifest, walk
<1>2. WalkedOrNot'
  BY <1>1, AfterTheWalk
<1>3. f \in unread /\ unread' = unread \ {f}
  BY DEF ReadConfig, ReadManifest
<1>4. read \subseteq read' /\ read' \subseteq read \union {f} /\ failed \subseteq failed'
  BY DEF ReadConfig, ReadManifest
<1>5. failed' = failed \/ (failed' = failed \union {f} /\ f \in Manifest)
  BY DEF ReadConfig, ReadManifest, IInv, Stages
<1>6. TypeOK'
  BY <1>1, <1>3, <1>4, <1>5 DEF IInv, TypeOK, project
<1>7. Stages'
  <2>1. pc = "manifests" => f \in read' \union failed'
    BY DEF ReadConfig, ReadManifest
  <2> QED
    BY <1>1, <1>3, <1>4, <2>1 DEF IInv, Stages
<1> QED
  BY <1>1, <1>2, <1>6, <1>7 DEF IInv, project

LEMMA NextIInv == IInv /\ [Next]_vars => IInv'
<1> SUFFICES ASSUME IInv, [Next]_vars PROVE IInv'
  OBVIOUS
<1>1. CASE Change
  BY <1>1, ChangeIInv
<1>2. CASE EndWalk \/ EndConfigs \/ Answer
  BY <1>2, EndIInv
<1>3. ASSUME NEW d \in Directory, Visit(d) PROVE IInv'
  BY <1>3, VisitIInv
<1>4. ASSUME NEW f \in File, ReadConfig(f) \/ ReadManifest(f) PROVE IInv'
  BY <1>4, ReadIInv
<1>6. CASE RaiseInWalk \/ RaiseInRead
  BY <1>6, RaiseIInv
<1>5. CASE UNCHANGED vars
  BY <1>5 DEF IInv, TypeOK, Stages, WalkedOrNot, Walked, LastingFiles, LastingDirectories,
              Full, vars, project, walk, reads
<1> QED
  BY <1>1, <1>2, <1>3, <1>4, <1>5, <1>6 DEF Next

-----------------------------------------------------------------------------
(* What a known list holds. *)

LEMMA LeastDepth ==
  ASSUME NEW S \in SUBSET Directory, S # {}
  PROVE  \E e \in S : \A c \in S : Depth[e] <= Depth[c]
<1> DEFINE T == {Depth[e] : e \in S}
<1>1. T \in SUBSET Nat /\ T # {}
  BY TreeAssumption
<1>2. IsWellFoundedOn(OpToRel(<, Nat), Nat)
  BY NatLessThanWellFounded
<1>3. PICK n \in T : \A k \in T : <<k, n>> \notin OpToRel(<, Nat)
  BY <1>1, <1>2, WFMin
<1>4. \A k \in T : ~(k < n)
  BY <1>1, <1>3 DEF OpToRel
<1>5. PICK e \in S : Depth[e] = n
  OBVIOUS
<1>6. ASSUME NEW c \in S PROVE n <= Depth[c]
  <2>1. Depth[c] \in T /\ Depth[c] \in Nat /\ n \in Nat
    BY <1>1
  <2> HIDE DEF T
  <2> QED
    BY <1>4, <2>1
<1> QED
  BY <1>5, <1>6

LEMMA AboveIsClosed ==
  ASSUME NEW d \in Directory
  PROVE  /\ d \in Above[d] /\ Above[d] \subseteq Directory
         /\ \A e \in Above[d] \ {Root} : Parent[e] \in Above[d]
<1>1. \A e \in Directory \ {Root} : Parent[e] \in Directory
  BY TreeAssumption DEF Path
<1> QED
  BY <1>1 DEF Above

\* With nothing left to do, a directory that has lasted has been walked through,
\* unless one on the way to it was passed over: of those on the way that were not
\* walked through, the highest was listed in its parent.
LEMMA ReachableIsWalked ==
  ASSUME IInv, NEW V \in SUBSET Directory, Walked(V), todo = {},
         NEW d \in always \intersect Directory,
         Above[d] \intersect (Pruned \union skipped) = {}
  PROVE  d \in V
<1> DEFINE S == {e \in Above[d] \intersect always : e \notin V}
<1>1. /\ d \in Above[d] /\ Above[d] \subseteq Directory
      /\ \A e \in Above[d] \ {Root} : Parent[e] \in Above[d]
  BY AboveIsClosed
<1>2. ASSUME NEW e \in S
      PROVE  e # Root /\ Parent[e] \in S /\ Depth[Parent[e]] < Depth[e]
  <2>1. e # Root
    BY <1>2 DEF Walked
  <2>2. Parent[e] \in Above[d] /\ Parent[e] \in always
    BY <1>1, <1>2, <2>1 DEF IInv, Projects
  <2>3. Parent[e] \notin V
    <3>1. e \in LastingDirectories(Parent[e])
      BY <1>1, <1>2, <2>1 DEF LastingDirectories
    <3> QED
      BY <1>2, <3>1 DEF Walked
  <2>4. Depth[e] = Depth[Parent[e]] + 1 /\ Depth[Parent[e]] \in Nat
    BY <1>1, <1>2, <2>1, <2>2, TreeAssumption
  <2> QED
    BY <2>1, <2>2, <2>3, <2>4
<1>3. S = {}
  <2> SUFFICES ASSUME S # {} PROVE FALSE
    OBVIOUS
  <2>1. S \in SUBSET Directory
    BY <1>1
  <2>2. PICK e \in S : \A c \in S : Depth[e] <= Depth[c]
    <3> HIDE DEF S
    <3> QED
      BY <2>1, LeastDepth
  <2>3. Parent[e] \in S /\ Depth[Parent[e]] < Depth[e]
    BY <1>2
  <2>4. Depth[e] <= Depth[Parent[e]] /\ Depth[e] \in Nat /\ Depth[Parent[e]] \in Nat
    BY <2>1, <2>2, <2>3, TreeAssumption
  <2> QED
    BY <2>3, <2>4
<1> QED
  BY <1>1, <1>3

LEMMA IInvKnownIsBetween == IInv => KnownIsBetween
<1> SUFFICES ASSUME IInv, Answered PROVE KnownIsBetween!2
  BY DEF KnownIsBetween
<1>1. todo = {} /\ issues = {} /\ found \intersect Manifest \subseteq read \union failed
  BY DEF Answered, IInv, Stages
<1>2. ASSUME ~Full PROVE Certain \subseteq found
  <2>1. PICK V \in SUBSET Directory : Walked(V)
    BY <1>1, <1>2 DEF IInv, WalkedOrNot
  <2> SUFFICES ASSUME NEW f \in Certain PROVE f \in found
    OBVIOUS
  <2>2. /\ f \in always /\ f \in File /\ f \notin Foreign \union skipped
        /\ Above[Parent[f]] \intersect (Pruned \union skipped) = {}
    BY DEF Certain
  <2>3. Parent[f] \in always /\ Parent[f] \in Directory
    BY <2>2, TreeAssumption DEF IInv, Projects, Path
  <2>4. Parent[f] \in V
    BY <1>1, <2>1, <2>2, <2>3, ReachableIsWalked
  <2>5. f \in LastingFiles(Parent[f])
    BY <2>2 DEF LastingFiles
  <2> QED
    BY <2>1, <2>4, <2>5 DEF Walked
<1> QED
  BY <1>1, <1>2 DEF IInv

LEMMA SpecIInv == Spec => []IInv
<1> QED
  BY InitIInv, NextIInv, PTL DEF Spec

\* The variables have their types, what exists is a project, and no more files are
\* found than the limit allows.
THEOREM DiscoveryTypeCorrect == Spec => []TypeOK
<1>1. IInv => TypeOK
  BY DEF IInv
<1> QED
  BY <1>1, SpecIInv, PTL

\* However the owner changes the project under the walk: a known list of tests
\* has only files that were there at some time, and every file that was there all
\* the time, unless the walk ended because the limit was met, or the file or a
\* directory above it is passed over, as generated ones and links are, or was
\* skipped because its path did not resolve (_walk_files); known commands are
\* those of every manifest among them.
THEOREM KnownListIsBetween == Spec => []KnownIsBetween
<1> QED
  BY IInvKnownIsBetween, SpecIInv, PTL
=============================================================================
