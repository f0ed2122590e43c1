---------------------------- MODULE MCReconcile -----------------------------
(***************************************************************************)
(* Instances of reconcile() for TLC: one predicate with a fact of two      *)
(* candidates and two facts of one, another with a value that is not known *)
(* and a fact of one candidate.                                            *)
(***************************************************************************)
EXTENDS Reconcile, TLC

CONSTANTS p, q, v1, v2, v3, a, again, b, c, hidden, alone

Pairs == {p, q}
Six == {a, again, b, c, hidden, alone}
Assertions ==
  a :> [predicate |-> p, value |-> v1] @@ again :> [predicate |-> p, value |-> v1] @@
  b :> [predicate |-> p, value |-> v2] @@ c :> [predicate |-> p, value |-> v3] @@
  hidden :> [predicate |-> q, value |-> Withheld] @@ alone :> [predicate |-> q, value |-> v1]

Plain ==
  [hint |-> "CURRENT_FACT", source |-> "other", instruction |-> "false",
   deprecated |-> FALSE, confidence |-> "enough", valued |-> TRUE, skewed |-> FALSE,
   from |-> NoTime, until |-> NoTime]
Retirement == [Plain EXCEPT !.hint = "DEPRECATED"]
Memory == [Plain EXCEPT !.hint = "HISTORICAL", !.source = "HISTORICAL_MEMORY"]
Evidence == [Plain EXCEPT !.source = "CURRENT_EVIDENCE"]
Truth == [Plain EXCEPT !.hint = "SOURCE_OF_TRUTH", !.source = "USER_EXPLICIT",
                       !.instruction = "true"]
Doubtful == [Plain EXCEPT !.confidence = "low"]
Unknown == [Plain EXCEPT !.valued = FALSE]

Claiming(ma, mo, mb, mc, mh, ml) ==
  a :> ma @@ again :> mo @@ b :> mb @@ c :> mc @@ hidden :> mh @@ alone :> ml

Kinds == {Plain, Retirement, Memory, Evidence, Truth}

\* Three facts that compete, and a cycle, a contradiction, a replacement within
\* one fact and one of a candidate that is not a witness.
Competing ==
  [claim : {Claiming(ma, mo, mb, mc, Unknown, Plain) :
              ma \in Kinds, mo \in {Plain, Retirement, Memory, Doubtful},
              mb \in Kinds, mc \in {Plain, Memory}},
   references : SUBSET {<<a, b>>, <<b, c>>, <<c, again>>, <<b, a>>, <<again, a>>}]

\* A value that is not known, with every hint, and references across predicates.
Moments == {0, 1, 2, NoTime}
Hidden ==
  [claim : {Claiming(Plain, Memory, Memory, Memory, mh, Truth) :
              mh \in {[Unknown EXCEPT !.hint = hint, !.deprecated = deprecated, !.until = until] :
                        hint \in Hints, deprecated \in BOOLEAN, until \in Moments}},
   references : SUBSET {<<hidden, a>>, <<hidden, alone>>, <<alone, hidden>>}]

\* One candidate with every claim it can make.
Single ==
  [claim : {Claiming(Plain, Memory, Memory, Memory, Unknown, ml) :
     ml \in {m \in [hint : Hints, source : Sources, instruction : {"true", "false", "nonknown"},
                    deprecated : BOOLEAN, confidence : {"enough", "low", "nonknown"},
                    valued : {TRUE}, skewed : BOOLEAN, from : {1, 2, NoTime},
                    until : {0, 1, 2, NoTime}] :
               m.instruction = "false" \/ m.source = "USER_EXPLICIT"}},
   references : {{}}]

AllInputs == Competing \union Hidden \union Single
=============================================================================
