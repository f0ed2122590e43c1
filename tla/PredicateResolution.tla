------------------------ MODULE PredicateResolution -------------------------
(***************************************************************************)
(* What a caller of reconcile() may rely on for the facts of one subject   *)
(* and predicate, without the rules that bring it about.                   *)
(*                                                                         *)
(* The facts were classified; some of them are current (ACTIVE).  Either   *)
(* one current fact wins, and every other current fact, with any number of *)
(* plausible older ones, is superseded; or at least two facts are current  *)
(* and all of them, and nothing else, change to CONFLICTED; or nothing is  *)
(* current and nothing changes.  The facts are published once.  The whole  *)
(* input may be refused instead, but only when the declarations that are   *)
(* not taken back by their own opposite form a cycle.                      *)
(***************************************************************************)
VARIABLES
  facts,     \* the facts
  base,      \* the classified decision of each fact
  declared,  \* the replacements the facts declare
  outcome,   \* "open", "published" or "refused"
  status     \* the status of each fact, as far as the caller can see it

rvars == <<facts, base, declared, outcome, status>>

Classified == [f \in facts |-> base[f].status]
Current == {f \in facts : base[f].status = "ACTIVE"}
Plausible == {f \in facts : base[f].plausible}

Acyclic(edges) ==
  \A S \in (SUBSET facts) \ {{}} : \E x \in S : \A y \in S : <<y, x>> \notin edges

OneDirectional == {e \in declared : <<e[2], e[1]>> \notin declared}

Open == outcome = "open" /\ status = Classified

\* One current fact supersedes every other one.
Wins(w, replaced) ==
  /\ w \in Current \ replaced
  /\ Current \ {w} \subseteq replaced
  /\ status' = [f \in facts |-> IF f \in replaced THEN "SUPERSEDED" ELSE base[f].status]

\* Two or more current facts contradict each other: nothing is superseded.
Conflict ==
  /\ \E f, g \in Current : f # g
  /\ status' = [f \in facts |-> IF f \in Current THEN "CONFLICTED" ELSE base[f].status]

NothingCurrent == Current = {} /\ UNCHANGED status

Publish ==
  /\ outcome = "open"
  /\ outcome' = "published"
  /\ \/ \E w \in Current, replaced \in SUBSET Plausible : Wins(w, replaced)
     \/ Conflict
     \/ NothingCurrent
  /\ UNCHANGED <<facts, base, declared>>

Refuse ==
  /\ outcome = "open"
  /\ ~Acyclic(OneDirectional)
  /\ outcome' = "refused"
  /\ UNCHANGED <<facts, base, declared, status>>

Spec == Open /\ [][Publish \/ Refuse]_rvars
=============================================================================
