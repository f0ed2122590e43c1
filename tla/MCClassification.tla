-------------------------- MODULE MCClassification --------------------------
(* Instances of classification for TLC. *)
EXTENDS Classification, MCSameValueLineage

\* Every claim, with times around now.
Moments == {0, 1, 2, NoTime}
\* The claims whose meeting decides the status.
Contradictory == [Plain EXCEPT !.source = "CURRENT_EVIDENCE", !.deprecated = TRUE]
Evidence == [From(Plain, 1) EXCEPT !.source = "CURRENT_EVIDENCE"]
Truth == [Plain EXCEPT !.hint = "SOURCE_OF_TRUTH", !.source = "USER_EXPLICIT",
                       !.instruction = "true"]
Planned == [From(Plain, 2) EXCEPT !.hint = "PLAN"]
MeetingClaims ==
  {Until(Retirement, 1), Contradictory, Evidence, Truth, Memory, Planned, Doubtful}

Withheld == [Plain EXCEPT !.valued = FALSE]
WithheldClaims ==
  {[Withheld EXCEPT !.hint = hint, !.deprecated = deprecated, !.until = until] :
     hint \in Hints, deprecated \in BOOLEAN, until \in Moments}

\* Three candidates of these kinds, beside one that declares nothing, or itself.
Meetings ==
  LET aside == CHOOSE c \in Candidate : TRUE
  IN  [claim : {m \in [Candidate -> MeetingClaims] : m[aside] = Memory}, declared : Beside(aside)]

LineageAndStatus == AllGroups \union Meetings

WithheldCandidate == [claim : [Candidate -> WithheldClaims], declared : {{}}]
=============================================================================
