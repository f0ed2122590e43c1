---------------------------- MODULE ArtifactStore -----------------------------
(***************************************************************************)
(* What a reader of an output path, and the caller of a writer, may rely   *)
(* on: a file at that name is the whole of what one writer was asked to    *)
(* write, it gets there in one step, and the writer that reports success   *)
(* is the one that put it there.  A writer that reports failure, or dies,  *)
(* has put nothing there.                                                  *)
(***************************************************************************)
CONSTANTS Writer, Place, Nothing, Folder

VARIABLES
  content,  \* what is under the output's name in each directory it may lead to
  outcome   \* "open", "written", "failed" or "killed"

astore == <<content, outcome>>

Empty ==
  /\ content \in [Place -> {Nothing, Folder}]
  /\ outcome = [w \in Writer |-> "open"]

\* A file takes the place of a file or of nothing.
Publish(w) ==
  /\ outcome[w] = "open" /\ outcome' = [outcome EXCEPT ![w] = "written"]
  /\ \E d \in Place : content[d] # Folder /\ content' = [content EXCEPT ![d] = <<w, "whole">>]

Give(w) ==
  /\ outcome[w] = "open"
  /\ \E end \in {"failed", "killed"} : outcome' = [outcome EXCEPT ![w] = end]
  /\ UNCHANGED content

\* The owner may put a directory there, or take away what is there.
Change ==
  /\ \E d \in Place, thing \in {Nothing, Folder} : content' = [content EXCEPT ![d] = thing]
  /\ UNCHANGED outcome

Spec == Empty /\ [][Change \/ \E w \in Writer : Publish(w) \/ Give(w)]_astore
=============================================================================
