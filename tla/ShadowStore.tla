----------------------------- MODULE ShadowStore -----------------------------
(***************************************************************************)
(* What the Shadow collector promises to whoever reads its artifact.       *)
(*                                                                         *)
(* The project changes at any time.  A run takes the project as it is at   *)
(* one instant; later it may keep what it took, by one atomic replacement  *)
(* of the file at the output path, and then report success.  Or it ends    *)
(* without having kept anything.  Evidence may be missing, never from      *)
(* another instant.  Of HEAD alone the marker of an unborn branch may be   *)
(* kept in place of the commit.                                            *)
(***************************************************************************)
CONSTANTS Run, Part, HEAD, Unborn, None, NoReadings, NoRun

VARIABLES
  world,   \* the project
  taken,   \* what each run has taken, or NoReadings
  kept,    \* what is at the output path, and the run that kept it
  outcome  \* "open", "kept", "pass", "fail" or "gone"

svars == <<world, taken, kept, outcome>>

Faithful(content, instant) ==
  \A i \in Part :
    \/ content.guard[i] = instant[i] /\ content.evidence[i] \in {None, instant[i]}
    \/ i = HEAD /\ content.guard[i] = Unborn

Empty ==
  /\ taken = [c \in Run |-> NoReadings]
  /\ kept.by = NoRun
  /\ outcome = [c \in Run |-> "open"]

Change == world' # world /\ UNCHANGED <<taken, kept, outcome>>

Take(c) ==
  /\ outcome[c] = "open"
  /\ taken[c] = NoReadings
  /\ taken' = [taken EXCEPT ![c] = world]
  /\ UNCHANGED <<world, kept, outcome>>

Keep(c) ==
  /\ outcome[c] = "open"
  /\ taken[c] # NoReadings
  /\ kept'.by = c
  /\ Faithful(kept', taken[c])
  /\ outcome' = [outcome EXCEPT ![c] = "kept"]
  /\ UNCHANGED <<world, taken>>

\* Success is reported only for what was kept, failure only for what was not;
\* a run that is killed reports nothing.
Report(c) ==
  /\ \/ outcome[c] = "kept" /\ outcome' = [outcome EXCEPT ![c] = "pass"]
     \/ outcome[c] = "open" /\ outcome' = [outcome EXCEPT ![c] = "fail"]
     \/ outcome[c] \in {"open", "kept"} /\ outcome' = [outcome EXCEPT ![c] = "gone"]
  /\ taken' = [taken EXCEPT ![c] = NoReadings]
  /\ UNCHANGED <<world, kept>>

Spec == Empty /\ [][Change \/ \E c \in Run : Take(c) \/ Keep(c) \/ Report(c)]_svars
=============================================================================
