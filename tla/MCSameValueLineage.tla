------------------------- MODULE MCSameValueLineage -------------------------
(* Instances of same-value lineage for TLC. *)
EXTENDS SameValueLineage, TLC

Plain ==
  [hint |-> "CURRENT_FACT", source |-> "other", instruction |-> "false",
   deprecated |-> FALSE, confidence |-> "enough", valued |-> TRUE, skewed |-> FALSE,
   from |-> NoTime, until |-> NoTime]
From(m, time) == [m EXCEPT !.from = time]
Until(m, time) == [m EXCEPT !.until = time]

Doubtful == [Plain EXCEPT !.confidence = "low"]
Retirement == [Plain EXCEPT !.hint = "DEPRECATED"]
Withdrawn == [Plain EXCEPT !.deprecated = TRUE]
Memory == [Plain EXCEPT !.hint = "HISTORICAL", !.source = "HISTORICAL_MEMORY"]

Others == {e \in Candidate \X Candidate : e[1] # e[2]}

\* Without times: assertions, of which one may not activate the value, and retirements.
TimelessGroups ==
  [claim : {m \in [Candidate -> {Plain, Doubtful, Retirement}] :
              Cardinality({c \in Candidate : m[c] = Doubtful}) =< 1},
   declared : SUBSET Others]

\* Assertions and retirements whose intervals start or end before, at and after now.
TimedClaims ==
  {From(Plain, 0), From(Plain, 1), From(Plain, 2), From(Doubtful, 1),
   Until(Retirement, 0), Until(Retirement, 1), Until(From(Withdrawn, 1), 2),
   Until(From(Retirement, 1), 0), Until(From(Plain, 1), 0), Memory}

\* Every set of declarations between the others, or one of a candidate about itself.
Beside(aside) ==
  {{<<aside, aside>>}} \union SUBSET {e \in Others : aside \notin {e[1], e[2]}}

\* Three candidates with intervals, beside one that declares nothing, or itself.
\* No property names a candidate: to the symmetry it does not matter which one it is.
TimedGroups ==
  LET aside == CHOOSE c \in Candidate : TRUE
  IN  [claim : {m \in [Candidate -> TimedClaims] : m[aside] = Memory}, declared : Beside(aside)]

AllGroups == TimelessGroups \union TimedGroups

CandidateSymmetry == Permutations(Candidate)
=============================================================================
