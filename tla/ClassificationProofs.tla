------------------------ MODULE ClassificationProofs ------------------------
(***************************************************************************)
(* Proofs about the classification of a same-value group, for any finite   *)
(* group, any claims and any declarations between its candidates, cycles   *)
(* and self-references included.                                           *)
(*                                                                         *)
(* Each loop of the lineage has an invariant that says what its variables  *)
(* mean for what it has been through: the sweep has found the intervals    *)
(* that ended before the activations it has come to (SweepInv), the flags  *)
(* of a candidate tell what its ancestors are (FlagInv), and what has been *)
(* collected leads to a winner, and so does whatever leads there           *)
(* (CollectInv).  Once a loop is through, that is reachability alone.      *)
(***************************************************************************)
EXTENDS Classification, FiniteSetTheorems, WellFoundedInduction, TLAPS

-----------------------------------------------------------------------------
(* Graphs. *)

LEMMA DescentIsClosed ==
  ASSUME NEW g \in Graphs, NEW x \in Candidate
  PROVE  /\ Descendants(g, x) \subseteq Candidate
         /\ g[x] \subseteq Descendants(g, x)
         /\ \A y \in Descendants(g, x) : g[y] \subseteq Descendants(g, x)
<1>1. g[x] \subseteq Descendants(g, x)
  BY DEF Descendants, Graphs
<1>2. SUFFICES ASSUME NEW y \in Descendants(g, x), NEW z \in g[y]
               PROVE  z \in Descendants(g, x)
  BY <1>1 DEF Descendants
<1>3. y \in Candidate /\ z \in Candidate
  BY DEF Descendants, Graphs
<1>4. ASSUME NEW S \in SUBSET Candidate, g[x] \subseteq S, \A v \in S : g[v] \subseteq S
      PROVE  z \in S
  BY <1>4 DEF Descendants
<1> QED
  BY <1>3, <1>4 DEF Descendants

LEMMA DescentIsLeast ==
  ASSUME NEW g \in Graphs, NEW x \in Candidate, NEW S \in SUBSET Candidate,
         g[x] \subseteq S, \A y \in S : g[y] \subseteq S
  PROVE  Descendants(g, x) \subseteq S
  BY DEF Descendants

LEMMA DescentIsTransitive ==
  ASSUME NEW g \in Graphs, NEW x \in Candidate, NEW y \in Descendants(g, x)
  PROVE  Descendants(g, y) \subseteq Descendants(g, x)
<1>1. Descendants(g, x) \in SUBSET Candidate /\ y \in Candidate
  BY DescentIsClosed
<1>2. g[y] \subseteq Descendants(g, x) /\ \A z \in Descendants(g, x) : g[z] \subseteq Descendants(g, x)
  BY DescentIsClosed
<1> QED
  BY <1>1, <1>2, DescentIsLeast

\* A descendant is a successor or descends from one.
LEMMA FirstStep ==
  ASSUME NEW g \in Graphs, NEW x \in Candidate, NEW d \in Descendants(g, x)
  PROVE  \E s \in g[x] : d = s \/ d \in Descendants(g, s)
<1> DEFINE S == {y \in Candidate : \E s \in g[x] : y = s \/ y \in Descendants(g, s)}
<1>1. g[x] \subseteq S
  BY DEF Graphs
<1>2. ASSUME NEW y \in S, NEW z \in g[y]
      PROVE  z \in S
  <2>1. PICK s \in g[x] : y = s \/ y \in Descendants(g, s)
    OBVIOUS
  <2>2. s \in Candidate /\ z \in Candidate
    BY DEF Graphs
  <2>3. z \in Descendants(g, s)
    BY <2>1, <2>2, DescentIsClosed
  <2> QED
    BY <2>2, <2>3
<1>3. Descendants(g, x) \subseteq S
  BY <1>1, <1>2, DescentIsLeast
<1> QED
  BY <1>3

\* A descendant is a successor, or the successor of a descendant.
LEMMA LastStep ==
  ASSUME NEW g \in Graphs, NEW x \in Candidate, NEW d \in Descendants(g, x)
  PROVE  \E p \in Predecessors(g, d) : p = x \/ p \in Descendants(g, x)
<1> DEFINE S == {y \in Candidate : \E p \in Predecessors(g, y) : p = x \/ p \in Descendants(g, x)}
<1>1. g[x] \subseteq S
  BY DEF Graphs, Predecessors
<1>2. ASSUME NEW y \in S, NEW z \in g[y]
      PROVE  z \in S
  <2>1. PICK p \in Candidate : y \in g[p] /\ (p = x \/ p \in Descendants(g, x))
    BY DEF Predecessors
  <2>2. y \in Descendants(g, x)
    BY <2>1, DescentIsClosed
  <2> QED
    BY <2>2 DEF Graphs, Predecessors
<1>3. Descendants(g, x) \subseteq S
  BY <1>1, <1>2, DescentIsLeast
<1> QED
  BY <1>3

LEMMA AncestorStep ==
  ASSUME NEW g \in Graphs, NEW c \in Candidate, NEW a \in Candidate
  PROVE  a \in Ancestors(g, c) <=> \E p \in Predecessors(g, c) : a = p \/ a \in Ancestors(g, p)
<1>1. ASSUME a \in Ancestors(g, c)
      PROVE  \E p \in Predecessors(g, c) : a = p \/ a \in Ancestors(g, p)
  <2>1. PICK p \in Predecessors(g, c) : p = a \/ p \in Descendants(g, a)
    BY <1>1, LastStep DEF Ancestors
  <2> QED
    BY <2>1 DEF Ancestors
<1>2. ASSUME NEW p \in Predecessors(g, c), a = p \/ a \in Ancestors(g, p)
      PROVE  a \in Ancestors(g, c)
  <2>1. p \in Candidate /\ c \in g[p] /\ (p = a \/ p \in Descendants(g, a))
    BY <1>2 DEF Ancestors, Predecessors
  <2> QED
    BY <2>1, DescentIsClosed DEF Ancestors
<1> QED
  BY <1>1, <1>2

\* What leads into a set that contains its predecessors is in the set.
LEMMA DescentBackward ==
  ASSUME NEW g \in Graphs, NEW S \in SUBSET Candidate,
         \A y \in S : Predecessors(g, y) \subseteq S,
         NEW x \in Candidate, NEW y \in S, y \in Descendants(g, x)
  PROVE  x \in S
<1> DEFINE Out == Candidate \ S
<1>1. \A z \in Out : g[z] \subseteq Out
  BY DEF Predecessors, Graphs
<1>2. x \in Out => Descendants(g, x) \subseteq Out
  BY <1>1, DescentIsLeast
<1> QED
  BY <1>2

-----------------------------------------------------------------------------
(* Topological orders. *)

LEMMA LeastNumber ==
  ASSUME NEW T \in SUBSET Nat, T # {}
  PROVE  \E n \in T : \A k \in T : n <= k
<1>1. IsWellFoundedOn(OpToRel(<, Nat), Nat)
  BY NatLessThanWellFounded
<1>2. PICK n \in T : \A k \in T : <<k, n>> \notin OpToRel(<, Nat)
  BY <1>1, WFMin
<1>3. \A k \in T : ~(k < n)
  BY <1>2 DEF OpToRel
<1> QED
  BY <1>3

LEMMA OrderHasIndices ==
  ASSUME NEW g \in Graphs, NEW seq, IsTopological(g, seq), NEW c \in Candidate
  PROVE  /\ Len(seq) \in Nat /\ DOMAIN seq = 1..Len(seq)
         /\ \E i \in 1..Len(seq) : seq[i] = c
  BY DEF IsTopological

LEMMA DescendantsComeLater ==
  ASSUME NEW g \in Graphs, NEW seq, IsTopological(g, seq),
         NEW i \in 1..Len(seq), NEW d \in Descendants(g, seq[i])
  PROVE  \E j \in 1..Len(seq) : i < j /\ seq[j] = d
<1> DEFINE Later == {c \in Candidate : \E j \in 1..Len(seq) : i < j /\ seq[j] = c}
<1>1. /\ seq \in Seq(Candidate) /\ DOMAIN seq = 1..Len(seq) /\ Len(seq) \in Nat
      /\ \A c \in Candidate : \E k \in 1..Len(seq) : seq[k] = c
      /\ \A k, l \in 1..Len(seq) : seq[l] \in g[seq[k]] => k < l
  BY DEF IsTopological
<1>2. seq[i] \in Candidate
  BY <1>1
<1>3. ASSUME NEW k \in 1..Len(seq), i <= k, NEW z \in g[seq[k]]
      PROVE  z \in Later
  <2>1. z \in Candidate
    BY <1>1 DEF Graphs
  <2>2. PICK l \in 1..Len(seq) : seq[l] = z
    BY <1>1, <2>1
  <2>3. k < l
    BY <1>1, <2>2
  <2> QED
    BY <1>1, <1>3, <2>1, <2>2, <2>3
<1>4. \A y \in Later : g[y] \subseteq Later
  BY <1>1, <1>3
<1>5. g[seq[i]] \subseteq Later
  BY <1>1, <1>3
<1>6. Descendants(g, seq[i]) \subseteq Later
  BY <1>2, <1>4, <1>5, DescentIsLeast
<1> QED
  BY <1>6

\* Along a topological order every path ends, in a candidate nobody replaces.
LEMMA PathsEnd ==
  ASSUME NEW g \in Graphs, NEW seq, IsTopological(g, seq), NEW c \in Candidate
  PROVE  g[c] = {} \/ \E t \in Descendants(g, c) : g[t] = {}
<1> DEFINE Ends(x) == g[x] = {} \/ \E t \in Descendants(g, x) : g[t] = {}
           T == {k \in Nat : \E i \in 1..Len(seq) : k = Len(seq) - i /\ ~Ends(seq[i])}
<1>1. /\ seq \in Seq(Candidate) /\ DOMAIN seq = 1..Len(seq) /\ Len(seq) \in Nat
      /\ \A k \in 1..Len(seq) : seq[k] \in Candidate
      /\ \A x \in Candidate : \E k \in 1..Len(seq) : seq[k] = x
      /\ \A k, l \in 1..Len(seq) : seq[l] \in g[seq[k]] => k < l
  BY DEF IsTopological
<1>2. SUFFICES ASSUME ~Ends(c)
               PROVE  FALSE
  OBVIOUS
<1>3. PICK i \in 1..Len(seq) : seq[i] = c
  BY <1>1
<1> HIDE DEF Ends
<1>4. Len(seq) - i \in Nat /\ ~Ends(seq[i])
  BY <1>1, <1>2, <1>3
<1>5. T # {} /\ T \in SUBSET Nat
  BY <1>4
<1>6. PICK n \in T : \A k \in T : n <= k
  BY <1>5, LeastNumber
<1>7. PICK j \in 1..Len(seq) : n = Len(seq) - j /\ ~Ends(seq[j])
  BY <1>6
<1>8. seq[j] \in Candidate
  BY <1>1
<1>9. g[seq[j]] # {}
  BY <1>7 DEF Ends
<1>10. PICK s \in g[seq[j]] : s \in Candidate
  BY <1>8, <1>9 DEF Graphs
<1>11. PICK l \in 1..Len(seq) : seq[l] = s
  BY <1>1, <1>10
<1>12. j < l
  BY <1>1, <1>10, <1>11
<1>13. Len(seq) - l \in Nat /\ Len(seq) - l < n
  BY <1>1, <1>7, <1>12
<1>14. Ends(s)
  <2>1. Len(seq) - l \notin T
    <3>1. n \in Nat /\ ~(n <= Len(seq) - l)
      BY <1>1, <1>7, <1>13
    <3> HIDE DEF T
    <3> QED
      BY <1>6, <3>1
  <2> QED
    BY <1>11, <1>13, <2>1
<1>15. s \in Descendants(g, seq[j]) /\ Descendants(g, s) \subseteq Descendants(g, seq[j])
  BY <1>8, <1>10, DescentIsClosed, DescentIsTransitive
<1> QED
  BY <1>7, <1>14, <1>15 DEF Ends

-----------------------------------------------------------------------------
(* The two passes for the fork.  A recursive function is some function that *)
(* satisfies its equation: there is one, given by reachability, and by      *)
(* least counterexample there is no other.                                  *)

DeclaredSuccessors == [c \in Candidate |-> {d \in Candidate : <<c, d>> \in explicit}]

LeadsTo(targets, c) == targets \intersect Descendants(DeclaredSuccessors, c) # {}

\* The pass against the order, once it has come down to position i.
ReachedSoFar(targets, i) ==
  targets \union {c \in Candidate : \E j \in i..Len(order) : order[j] = c /\ LeadsTo(targets, c)}

LEMMA ReachedStep ==
  ASSUME IsTopological(DeclaredSuccessors, order), DeclaredSuccessors \in Graphs,
         explicit \subseteq Candidate \X Candidate,
         NEW targets \in SUBSET Candidate, NEW i \in 1..Len(order)
  PROVE  ReachedSoFar(targets, i) =
           IF \E d \in ReachedSoFar(targets, i + 1) : <<order[i], d>> \in explicit
           THEN ReachedSoFar(targets, i + 1) \union {order[i]} ELSE ReachedSoFar(targets, i + 1)
<1> DEFINE later == ReachedSoFar(targets, i + 1)
<1>1. Len(order) \in Nat /\ order[i] \in Candidate
  BY DEF IsTopological
<1>2. \A d : <<order[i], d>> \in explicit <=> d \in DeclaredSuccessors[order[i]]
  BY <1>1 DEF DeclaredSuccessors
<1>3. ASSUME NEW d \in later, d \in DeclaredSuccessors[order[i]]
      PROVE  LeadsTo(targets, order[i])
  <2>1. d \in Descendants(DeclaredSuccessors, order[i])
    BY <1>1, <1>3, DescentIsClosed
  <2>2. Descendants(DeclaredSuccessors, d) \subseteq Descendants(DeclaredSuccessors, order[i])
    BY <1>1, <2>1, DescentIsTransitive
  <2>3. d \in targets \/ LeadsTo(targets, d)
    BY <1>3 DEF ReachedSoFar
  <2> QED
    BY <2>1, <2>2, <2>3 DEF LeadsTo
<1>4. ASSUME LeadsTo(targets, order[i])
      PROVE  \E d \in later : d \in DeclaredSuccessors[order[i]]
  <2>1. PICK t \in Descendants(DeclaredSuccessors, order[i]) : t \in targets
    BY <1>4 DEF LeadsTo
  <2>2. PICK d \in DeclaredSuccessors[order[i]] : t = d \/ t \in Descendants(DeclaredSuccessors, d)
    BY <1>1, <2>1, FirstStep
  <2>3. d \in Descendants(DeclaredSuccessors, order[i])
    BY <1>1, <2>2, DescentIsClosed
  <2>4. PICK j \in 1..Len(order) : i < j /\ order[j] = d
    BY <2>3, DescendantsComeLater
  <2>5. d \in Candidate /\ j \in (i + 1)..Len(order)
    BY <1>1, <2>2, <2>4 DEF DeclaredSuccessors
  <2>6. d \in targets \/ LeadsTo(targets, d)
    BY <2>1, <2>2 DEF LeadsTo
  <2>7. d \in later
    BY <2>4, <2>5, <2>6 DEF ReachedSoFar
  <2> QED
    BY <2>2, <2>7
<1>5. \A j : j \in i..Len(order) <=> j = i \/ j \in (i + 1)..Len(order)
  BY <1>1
<1>6. ReachedSoFar(targets, i)
        = IF LeadsTo(targets, order[i]) THEN later \union {order[i]} ELSE later
  BY <1>1, <1>5 DEF ReachedSoFar
<1> QED
  BY <1>2, <1>3, <1>4, <1>6

LEMMA ReachedFromIsReach ==
  ASSUME IsTopological(DeclaredSuccessors, order), DeclaredSuccessors \in Graphs,
         explicit \subseteq Candidate \X Candidate, NEW targets \in SUBSET Candidate
  PROVE  ReachedFrom(targets) = targets \union {c \in Candidate : LeadsTo(targets, c)}
<1> DEFINE D == 1..(Len(order) + 1)
           Body(f, i) == IF i > Len(order) THEN targets
                          ELSE IF \E d \in f[i + 1] : <<order[i], d>> \in explicit
                               THEN f[i + 1] \union {order[i]} ELSE f[i + 1]
           F == CHOOSE f : f = [i \in D |-> Body(f, i)]
           W == [i \in D |-> ReachedSoFar(targets, i)]
<1>1. ReachedFrom(targets) = F[1]
  BY DEF ReachedFrom
<1>2. Len(order) \in Nat
  BY DEF IsTopological
<1>3. W = [i \in D |-> Body(W, i)]
  <2>1. ASSUME NEW i \in D
        PROVE  W[i] = Body(W, i)
    <3>1. CASE i > Len(order)
      <4>1. i..Len(order) = {}
        BY <1>2, <3>1
      <4> QED
        BY <3>1, <4>1 DEF ReachedSoFar
    <3>2. CASE i \in 1..Len(order)
      <4>1. W[i] = ReachedSoFar(targets, i) /\ W[i + 1] = ReachedSoFar(targets, i + 1)
        BY <1>2, <3>2
      <4>2. ~(i > Len(order))
        BY <1>2, <3>2
      <4> QED
        BY <3>2, <4>1, <4>2, ReachedStep
    <3>3. i > Len(order) \/ i \in 1..Len(order)
      BY <1>2
    <3> HIDE DEF W, Body
    <3> QED
      BY <3>1, <3>2, <3>3
  <2> HIDE DEF Body
  <2> QED
    BY <2>1
<1>4. F = [i \in D |-> Body(F, i)]
  BY <1>3
<1> HIDE DEF F, W
<1>5. ASSUME NEW i \in D, F[i] # W[i]
      PROVE  i + 1 \in D /\ F[i + 1] # W[i + 1]
  <2>1. F[i] = Body(F, i) /\ W[i] = Body(W, i)
    <3> HIDE DEF Body
    <3> QED
      BY <1>3, <1>4
  <2>2. i > Len(order) => Body(F, i) = Body(W, i)
    OBVIOUS
  <2>3. F[i + 1] = W[i + 1] => Body(F, i) = Body(W, i)
    OBVIOUS
  <2>4. F[i + 1] # W[i + 1] /\ ~(i > Len(order))
    <3> HIDE DEF Body
    <3> QED
      BY <1>5, <2>1, <2>2, <2>3
  <2> QED
    BY <1>2, <2>4
<1> HIDE DEF Body
<1>6. \A i \in D : F[i] = W[i]
  <2> DEFINE T == {k \in Nat : Len(order) + 1 - k \in D /\ F[Len(order) + 1 - k] # W[Len(order) + 1 - k]}
  <2>1. SUFFICES ASSUME NEW i \in D, F[i] # W[i]
                 PROVE  FALSE
    OBVIOUS
  <2>2. Len(order) + 1 - i \in Nat /\ Len(order) + 1 - (Len(order) + 1 - i) = i
    BY <1>2
  <2>3. Len(order) + 1 - i \in T
    BY <2>1, <2>2
  <2>4. PICK n \in T : \A k \in T : n <= k
    BY <2>3, LeastNumber
  <2> DEFINE j == Len(order) + 1 - n
  <2>5. n \in Nat /\ j \in D /\ F[j] # W[j]
    BY <2>4
  <2>6. j + 1 \in D /\ F[j + 1] # W[j + 1]
    <3> HIDE DEF j
    <3> QED
      BY <1>5, <2>5
  <2>7. n - 1 \in Nat /\ Len(order) + 1 - (n - 1) = j + 1
    BY <1>2, <2>5, <2>6
  <2>8. n - 1 \in T
    <3> HIDE DEF j
    <3> QED
      BY <2>6, <2>7
  <2> HIDE DEF T
  <2> QED
    BY <2>4, <2>5, <2>8
<1>7. F[1] = ReachedSoFar(targets, 1)
  <2>1. 1 \in D
    BY <1>2
  <2>2. W[1] = ReachedSoFar(targets, 1)
    BY <2>1 DEF W
  <2> QED
    BY <1>6, <2>1, <2>2
<1>8. \A c \in Candidate : \E j \in 1..Len(order) : order[j] = c
  BY OrderHasIndices
<1> QED
  BY <1>1, <1>7, <1>8 DEF ReachedSoFar

ComesFrom(sources, c) == \E a \in sources : c \in Descendants(DeclaredSuccessors, a)

\* The pass along the order, once it has been through position i.
DescendedSoFar(sources, i) ==
  sources \union
    {d \in Candidate : \E j \in 1..i : /\ <<order[j], d>> \in explicit
                                       /\ order[j] \in sources \/ ComesFrom(sources, order[j])}

LEMMA ComesThroughPredecessor ==
  ASSUME DeclaredSuccessors \in Graphs, explicit \subseteq Candidate \X Candidate,
         NEW sources \in SUBSET Candidate, NEW c \in Candidate
  PROVE  ComesFrom(sources, c) <=>
           \E p \in Candidate : <<p, c>> \in explicit /\ (p \in sources \/ ComesFrom(sources, p))
<1>1. \A p \in Candidate : <<p, c>> \in explicit <=> c \in DeclaredSuccessors[p]
  BY DEF DeclaredSuccessors
<1>2. ASSUME NEW a \in sources, c \in Descendants(DeclaredSuccessors, a)
      PROVE  \E p \in Candidate : c \in DeclaredSuccessors[p] /\ (p \in sources \/ ComesFrom(sources, p))
  <2>1. PICK p \in Predecessors(DeclaredSuccessors, c) : p = a \/ p \in Descendants(DeclaredSuccessors, a)
    BY <1>2, LastStep
  <2> QED
    BY <2>1 DEF Predecessors, ComesFrom
<1>3. ASSUME NEW p \in Candidate, c \in DeclaredSuccessors[p], p \in sources \/ ComesFrom(sources, p)
      PROVE  ComesFrom(sources, c)
  <2>1. PICK a \in sources : p = a \/ p \in Descendants(DeclaredSuccessors, a)
    BY <1>3 DEF ComesFrom
  <2>2. c \in Descendants(DeclaredSuccessors, a)
    BY <1>3, <2>1, DescentIsClosed
  <2> QED
    BY <2>2 DEF ComesFrom
<1> QED
  BY <1>1, <1>2, <1>3 DEF ComesFrom

LEMMA DescendedStep ==
  ASSUME IsTopological(DeclaredSuccessors, order), DeclaredSuccessors \in Graphs,
         explicit \subseteq Candidate \X Candidate,
         NEW sources \in SUBSET Candidate, NEW i \in 1..Len(order)
  PROVE  DescendedSoFar(sources, i) =
           IF order[i] \in DescendedSoFar(sources, i - 1)
           THEN DescendedSoFar(sources, i - 1) \union {d \in Candidate : <<order[i], d>> \in explicit}
           ELSE DescendedSoFar(sources, i - 1)
<1> DEFINE earlier == DescendedSoFar(sources, i - 1)
           Comes(c) == c \in sources \/ ComesFrom(sources, c)
<1>1. /\ Len(order) \in Nat /\ \A k \in 1..Len(order) : order[k] \in Candidate
      /\ \A c \in Candidate : \E k \in 1..Len(order) : order[k] = c
      /\ \A k, l \in 1..Len(order) : order[l] \in DeclaredSuccessors[order[k]] => k < l
  BY DEF IsTopological
<1>2. ASSUME order[i] \in earlier
      PROVE  Comes(order[i])
  <2>1. CASE order[i] \in sources
    BY <2>1
  <2>2. CASE \E j \in 1..(i - 1) : <<order[j], order[i]>> \in explicit /\ Comes(order[j])
    <3>1. PICK j \in 1..(i - 1) : <<order[j], order[i]>> \in explicit /\ Comes(order[j])
      BY <2>2
    <3>2. order[i] \in Candidate /\ order[j] \in Candidate
      BY <3>1
    <3> QED
      BY <3>1, <3>2, ComesThroughPredecessor
  <2> QED
    BY <1>2, <2>1, <2>2 DEF DescendedSoFar
<1>3. ASSUME ComesFrom(sources, order[i])
      PROVE  order[i] \in earlier
  <2>1. order[i] \in Candidate
    BY <1>1
  <2>2. PICK p \in Candidate : <<p, order[i]>> \in explicit /\ Comes(p)
    BY <1>3, <2>1, ComesThroughPredecessor
  <2>3. PICK j \in 1..Len(order) : order[j] = p
    BY <1>1, <2>2
  <2>4. order[i] \in DeclaredSuccessors[order[j]]
    BY <2>1, <2>2, <2>3 DEF DeclaredSuccessors
  <2>5. j \in 1..(i - 1)
    BY <1>1, <2>4
  <2> QED
    BY <2>1, <2>2, <2>3, <2>5 DEF DescendedSoFar
<1>4. order[i] \in earlier <=> Comes(order[i])
  BY <1>2, <1>3 DEF DescendedSoFar
<1>5. \A j : j \in 1..i <=> j = i \/ j \in 1..(i - 1)
  BY <1>1
<1>6. DescendedSoFar(sources, i)
        = IF Comes(order[i]) THEN earlier \union {d \in Candidate : <<order[i], d>> \in explicit}
          ELSE earlier
  BY <1>5 DEF DescendedSoFar
<1> QED
  BY <1>4, <1>6

LEMMA DescendsFromIsDescent ==
  ASSUME IsTopological(DeclaredSuccessors, order), DeclaredSuccessors \in Graphs,
         explicit \subseteq Candidate \X Candidate, NEW sources \in SUBSET Candidate
  PROVE  DescendsFrom(sources) = sources \union {c \in Candidate : ComesFrom(sources, c)}
<1> DEFINE D == 0..Len(order)
           Body(f, i) == IF i = 0 THEN sources
                         ELSE IF order[i] \in f[i - 1]
                              THEN f[i - 1] \union {d \in Candidate : <<order[i], d>> \in explicit}
                              ELSE f[i - 1]
           F == CHOOSE f : f = [i \in D |-> Body(f, i)]
           W == [i \in D |-> DescendedSoFar(sources, i)]
<1>1. DescendsFrom(sources) = F[Len(order)]
  BY DEF DescendsFrom
<1>2. Len(order) \in Nat
  BY DEF IsTopological
<1>3. W = [i \in D |-> Body(W, i)]
  <2>1. ASSUME NEW i \in D
        PROVE  W[i] = Body(W, i)
    <3>1. CASE i = 0
      <4>1. 1..i = {}
        BY <3>1
      <4> QED
        BY <3>1, <4>1 DEF DescendedSoFar
    <3>2. CASE i \in 1..Len(order)
      <4>1. W[i] = DescendedSoFar(sources, i) /\ W[i - 1] = DescendedSoFar(sources, i - 1)
        BY <1>2, <3>2
      <4>2. i # 0
        BY <1>2, <3>2
      <4> QED
        BY <3>2, <4>1, <4>2, DescendedStep
    <3>3. i = 0 \/ i \in 1..Len(order)
      BY <1>2
    <3> HIDE DEF W, Body
    <3> QED
      BY <3>1, <3>2, <3>3
  <2> HIDE DEF Body
  <2> QED
    BY <2>1
<1>4. F = [i \in D |-> Body(F, i)]
  BY <1>3
<1> HIDE DEF F, W
<1>5. ASSUME NEW i \in D, F[i] # W[i]
      PROVE  i - 1 \in D /\ F[i - 1] # W[i - 1]
  <2>1. F[i] = Body(F, i) /\ W[i] = Body(W, i)
    <3> HIDE DEF Body
    <3> QED
      BY <1>3, <1>4
  <2>2. i = 0 => Body(F, i) = Body(W, i)
    OBVIOUS
  <2>3. F[i - 1] = W[i - 1] => Body(F, i) = Body(W, i)
    OBVIOUS
  <2>4. F[i - 1] # W[i - 1] /\ i # 0
    <3> HIDE DEF Body
    <3> QED
      BY <1>5, <2>1, <2>2, <2>3
  <2> QED
    BY <1>2, <2>4
<1> HIDE DEF Body
<1>6. \A i \in D : F[i] = W[i]
  <2> DEFINE T == {k \in Nat : k \in D /\ F[k] # W[k]}
  <2>1. SUFFICES ASSUME NEW i \in D, F[i] # W[i]
                 PROVE  FALSE
    OBVIOUS
  <2>2. i \in T
    BY <1>2, <2>1
  <2>3. PICK n \in T : \A k \in T : n <= k
    BY <2>2, LeastNumber
  <2>4. n \in D /\ F[n] # W[n]
    BY <2>3
  <2>5. n - 1 \in D /\ F[n - 1] # W[n - 1]
    BY <1>5, <2>4
  <2>6. n - 1 \in T /\ ~(n <= n - 1)
    BY <1>2, <2>4, <2>5
  <2> HIDE DEF T
  <2> QED
    BY <2>3, <2>6
<1>7. F[Len(order)] = DescendedSoFar(sources, Len(order))
  <2>1. Len(order) \in D
    BY <1>2
  <2>2. W[Len(order)] = DescendedSoFar(sources, Len(order))
    BY <2>1 DEF W
  <2> QED
    BY <1>6, <2>1, <2>2
<1>8. \A c \in Candidate :
        ComesFrom(sources, c) <=>
          \E j \in 1..Len(order) : /\ <<order[j], c>> \in explicit
                                   /\ order[j] \in sources \/ ComesFrom(sources, order[j])
  <2> SUFFICES ASSUME NEW c \in Candidate
               PROVE  ComesFrom(sources, c) <=>
                        \E j \in 1..Len(order) :
                          /\ <<order[j], c>> \in explicit
                          /\ order[j] \in sources \/ ComesFrom(sources, order[j])
    OBVIOUS
  <2>1. /\ \A j \in 1..Len(order) : order[j] \in Candidate
        /\ \A p \in Candidate : \E j \in 1..Len(order) : order[j] = p
    BY DEF IsTopological
  <2>2. ComesFrom(sources, c) <=>
          \E p \in Candidate : <<p, c>> \in explicit /\ (p \in sources \/ ComesFrom(sources, p))
    BY ComesThroughPredecessor
  <2> QED
    BY <2>1, <2>2
<1> QED
  BY <1>1, <1>7, <1>8 DEF DescendedSoFar

-----------------------------------------------------------------------------
(* The one-step decision, in the words of the algorithm. *)

LEMMA SameDescendants ==
  \A g, c : Reference!Descendants(g, c) = Descendants(g, c)
  BY DEF Reference!Descendants, Descendants

LEMMA SameCardinality ==
  \A S : Reference!Cardinality(S) = Cardinality(S)
  BY DEF Reference!Cardinality, Cardinality

LEMMA SameReadings ==
  \A m : /\ Reference!Current(m) <=> Current(m)
         /\ Reference!Retired(m) <=> Retired(m)
         /\ Reference!InvalidOrder(m) <=> InvalidOrder(m)
         /\ Reference!PassesGates(m) <=> PassesGates(m)
         /\ Reference!ActivationCapable(m) <=> ActivationCapable(m)
<1>1. \A m : /\ Reference!Retired(m) <=> Retired(m)
             /\ Reference!DeclaresCurrent(m) <=> DeclaresCurrent(m)
  BY DEF Reference!Retired, Retired, Reference!DeclaresCurrent, DeclaresCurrent,
         Reference!SourceOfTruth, SourceOfTruth, Reference!Instructed, Instructed
<1>2. \A m : /\ Reference!InvalidOrder(m) <=> InvalidOrder(m)
             /\ Reference!Eligible(m) <=> Eligible(m)
  BY DEF Reference!InvalidOrder, InvalidOrder, Reference!Eligible, Eligible, Reference!Known, Known,
         Reference!FutureValidity, FutureValidity, Reference!Expired, Expired
<1>3. \A m : Reference!PassesGates(m) <=> PassesGates(m)
  BY <1>1, <1>2 DEF Reference!PassesGates, PassesGates
<1>4. \A m : Reference!Current(m) <=> Current(m)
  BY <1>1 DEF Reference!Current, Current
<1>5. \A m : Reference!ActivationCapable(m) <=> ActivationCapable(m)
  BY <1>1, <1>3 DEF Reference!ActivationCapable, ActivationCapable
<1> QED
  BY <1>1, <1>2, <1>3, <1>4, <1>5

LEMMA SameReviews ==
  \A m : /\ Reference!TemporalReview(m) <=> TemporalReview(m)
         /\ Reference!SemanticReview(m) <=> SemanticReview(m)
         /\ Reference!Eligible(m) <=> Eligible(m)
         /\ Reference!DeclaresCurrent(m) <=> DeclaresCurrent(m)
<1>1. \A m : /\ Reference!Instructed(m) <=> Instructed(m)
             /\ Reference!DeclaresCurrent(m) <=> DeclaresCurrent(m)
  BY DEF Reference!DeclaresCurrent, DeclaresCurrent,
         Reference!SourceOfTruth, SourceOfTruth, Reference!Instructed, Instructed
<1>2. \A m : /\ Reference!InvalidOrder(m) <=> InvalidOrder(m)
             /\ Reference!FutureValidity(m) <=> FutureValidity(m)
             /\ Reference!Expired(m) <=> Expired(m)
  BY DEF Reference!InvalidOrder, InvalidOrder, Reference!Known, Known,
         Reference!FutureValidity, FutureValidity, Reference!Expired, Expired
<1>3. \A m : Reference!TemporalReview(m) <=> TemporalReview(m)
  BY <1>2 DEF Reference!TemporalReview, TemporalReview
<1>4. \A m : Reference!SemanticReview(m) <=> SemanticReview(m)
  BY <1>1 DEF Reference!SemanticReview, SemanticReview
<1>5. \A m : Reference!Eligible(m) <=> Eligible(m)
  BY <1>2 DEF Reference!Eligible, Eligible
<1> QED
  BY <1>1, <1>3, <1>4, <1>5

LEMMA PairsOfReach ==
  ASSUME NEW g \in Graphs, NEW S
  PROVE  /\ {e[1] : e \in {p \in Reference!Reaches(g, Candidate) : p[2] \in S}}
              = {a \in Candidate : S \intersect Descendants(g, a) # {}}
         /\ {e[2] : e \in {p \in Reference!Reaches(g, Candidate) : p[1] \in S}}
              = {d \in Candidate : \E a \in Candidate : a \in S /\ d \in Descendants(g, a)}
<1> DEFINE pairs == Reference!Reaches(g, Candidate)
<1>1. \A a \in Candidate : \A d \in Descendants(g, a) :
        <<a, d>> \in pairs /\ <<a, d>>[1] = a /\ <<a, d>>[2] = d
  BY SameDescendants DEF Reference!Reaches
<1>2. \A e \in pairs : e[1] \in Candidate /\ e[2] \in Descendants(g, e[1])
  BY SameDescendants DEF Reference!Reaches
<1>3. \A a \in Candidate : Descendants(g, a) \subseteq Candidate
  BY DescentIsClosed
<1> HIDE DEF pairs
<1>4. {e[1] : e \in {p \in pairs : p[2] \in S}}
        = {a \in Candidate : S \intersect Descendants(g, a) # {}}
  <2>1. ASSUME NEW e \in pairs, e[2] \in S
        PROVE  e[1] \in {a \in Candidate : S \intersect Descendants(g, a) # {}}
    BY <1>2, <2>1
  <2>2. ASSUME NEW a \in Candidate, NEW d \in Descendants(g, a), d \in S
        PROVE  a \in {e[1] : e \in {p \in pairs : p[2] \in S}}
    <3>1. <<a, d>> \in {p \in pairs : p[2] \in S}
      BY <1>1, <2>2
    <3>2. a = <<a, d>>[1]
      OBVIOUS
    <3> QED
      BY <3>1, <3>2
  <2> QED
    BY <2>1, <2>2
<1>5. {e[2] : e \in {p \in pairs : p[1] \in S}}
        = {d \in Candidate : \E a \in Candidate : a \in S /\ d \in Descendants(g, a)}
  <2>1. ASSUME NEW e \in pairs, e[1] \in S
        PROVE  e[2] \in {d \in Candidate : \E a \in Candidate : a \in S /\ d \in Descendants(g, a)}
    BY <1>2, <1>3, <2>1
  <2>2. ASSUME NEW a \in Candidate, NEW d \in Descendants(g, a), a \in S
        PROVE  d \in {e[2] : e \in {p \in pairs : p[1] \in S}}
    <3>1. <<a, d>> \in {p \in pairs : p[1] \in S}
      BY <1>1, <2>2
    <3>2. d = <<a, d>>[2]
      OBVIOUS
    <3> QED
      BY <3>1, <3>2
  <2> QED
    BY <2>1, <2>2
<1> QED
  BY <1>4, <1>5 DEF pairs

\* With the pairs of a candidate and itself.
LEMMA PairsOfReachOrSame ==
  ASSUME NEW g \in Graphs, NEW S \in SUBSET Candidate,
         NEW pairs, pairs = {<<c, c>> : c \in Candidate} \union Reference!Reaches(g, Candidate)
  PROVE  /\ {e[1] : e \in {p \in pairs : p[2] \in S}}
              = S \union {a \in Candidate : S \intersect Descendants(g, a) # {}}
         /\ {e[2] : e \in {p \in pairs : p[1] \in S}}
              = S \union {d \in Candidate : \E a \in S : d \in Descendants(g, a)}
<1> DEFINE same == {<<c, c>> : c \in Candidate}
           reach == Reference!Reaches(g, Candidate)
<1>1. /\ {e[1] : e \in {p \in same : p[2] \in S}} = S
      /\ {e[2] : e \in {p \in same : p[1] \in S}} = S
  <2>1. \A c \in Candidate : <<c, c>> \in same /\ <<c, c>>[1] = c /\ <<c, c>>[2] = c
    OBVIOUS
  <2>2. \A e \in same : e[1] = e[2]
    OBVIOUS
  <2>3. \A c \in S : <<c, c>> \in {p \in same : p[2] \in S} /\ <<c, c>> \in {p \in same : p[1] \in S}
    BY <2>1
  <2>4. \A c \in S : \E e \in same : e[1] = c /\ e[2] = c
    BY <2>1
  <2> HIDE DEF same
  <2> QED
    BY <2>2, <2>4
<1>2. /\ {e[1] : e \in {p \in reach : p[2] \in S}}
           = {a \in Candidate : S \intersect Descendants(g, a) # {}}
      /\ {e[2] : e \in {p \in reach : p[1] \in S}}
           = {d \in Candidate : \E a \in Candidate : a \in S /\ d \in Descendants(g, a)}
  BY PairsOfReach
<1>3. {d \in Candidate : \E a \in Candidate : a \in S /\ d \in Descendants(g, a)}
        = {d \in Candidate : \E a \in S : d \in Descendants(g, a)}
  OBVIOUS
<1>4. pairs = same \union reach
  OBVIOUS
<1> HIDE DEF same, reach
<1>5. {e[1] : e \in {p \in pairs : p[2] \in S}}
        = {e[1] : e \in {p \in same : p[2] \in S}} \union {e[1] : e \in {p \in reach : p[2] \in S}}
  BY <1>4
<1>6. {e[2] : e \in {p \in pairs : p[1] \in S}}
        = {e[2] : e \in {p \in same : p[1] \in S}} \union {e[2] : e \in {p \in reach : p[1] \in S}}
  BY <1>4
<1>7. {e[1] : e \in {p \in pairs : p[2] \in S}}
        = S \union {a \in Candidate : S \intersect Descendants(g, a) # {}}
  BY <1>1, <1>2, <1>5
<1>8. {e[2] : e \in {p \in pairs : p[1] \in S}}
        = S \union {d \in Candidate : \E a \in S : d \in Descendants(g, a)}
  BY <1>1, <1>2, <1>3, <1>6
<1> QED
  BY <1>7, <1>8

\* The passes find the fork.
LEMMA ForkIsFound ==
  ASSUME IsTopological(DeclaredSuccessors, order), DeclaredSuccessors \in Graphs,
         explicit \subseteq Candidate \X Candidate,
         NEW left \in SUBSET Candidate, NEW right \in SUBSET Candidate
  PROVE  DescendsFrom(ReachedFrom(left) \intersect ReachedFrom(right))
             \intersect (ReachedFrom(left) \union ReachedFrom(right))
           = Reference!Forked(DeclaredSuccessors, Candidate, left, right)
<1> DEFINE reaches == {<<c, c>> : c \in Candidate} \union Reference!Reaches(DeclaredSuccessors, Candidate)
           lead(S) == {e[1] : e \in {p \in reaches : p[2] \in S}}
           descend(S) == {e[2] : e \in {p \in reaches : p[1] \in S}}
<1>1. ASSUME NEW S \in SUBSET Candidate
      PROVE  /\ lead(S) = S \union {a \in Candidate : LeadsTo(S, a)}
             /\ descend(S) = S \union {d \in Candidate : ComesFrom(S, d)}
  <2>1. \A pairs :
          pairs = {<<c, c>> : c \in Candidate} \union Reference!Reaches(DeclaredSuccessors, Candidate) =>
            /\ {e[1] : e \in {p \in pairs : p[2] \in S}}
                 = S \union {a \in Candidate : S \intersect Descendants(DeclaredSuccessors, a) # {}}
            /\ {e[2] : e \in {p \in pairs : p[1] \in S}}
                 = S \union {d \in Candidate : \E a \in S : d \in Descendants(DeclaredSuccessors, a)}
    BY <1>1, PairsOfReachOrSame
  <2>2. /\ lead(S) = S \union {a \in Candidate : S \intersect Descendants(DeclaredSuccessors, a) # {}}
        /\ descend(S)
             = S \union {d \in Candidate : \E a \in S : d \in Descendants(DeclaredSuccessors, a)}
    BY <2>1
  <2> HIDE DEF lead, descend
  <2>3. {a \in Candidate : S \intersect Descendants(DeclaredSuccessors, a) # {}}
          = {a \in Candidate : LeadsTo(S, a)}
    BY DEF LeadsTo
  <2>4. {d \in Candidate : \E a \in S : d \in Descendants(DeclaredSuccessors, a)}
          = {d \in Candidate : ComesFrom(S, d)}
    BY DEF ComesFrom
  <2> QED
    BY <2>2, <2>3, <2>4
<1>2. Reference!Forked(DeclaredSuccessors, Candidate, left, right)
        = descend(lead(left) \intersect lead(right)) \intersect lead(left \union right)
  BY DEF Reference!Forked
<1> HIDE DEF lead, descend
<1>3. lead(left) = ReachedFrom(left) /\ lead(right) = ReachedFrom(right)
  BY <1>1, ReachedFromIsReach
<1>4. lead(left \union right) = ReachedFrom(left) \union ReachedFrom(right)
  <2>1. \A a : LeadsTo(left \union right, a) <=> LeadsTo(left, a) \/ LeadsTo(right, a)
    BY DEF LeadsTo
  <2>2. left \union right \in SUBSET Candidate
    OBVIOUS
  <2>3. lead(left \union right) = (left \union right) \union {a \in Candidate : LeadsTo(left \union right, a)}
    BY <1>1, <2>2
  <2>4. /\ ReachedFrom(left) = left \union {a \in Candidate : LeadsTo(left, a)}
        /\ ReachedFrom(right) = right \union {a \in Candidate : LeadsTo(right, a)}
    BY ReachedFromIsReach
  <2> QED
    BY <2>1, <2>3, <2>4
<1>5. PICK S \in SUBSET Candidate : S = ReachedFrom(left) \intersect ReachedFrom(right)
  BY ReachedFromIsReach
<1>6. descend(S) = DescendsFrom(S)
  BY <1>1, DescendsFromIsDescent
<1> QED
  BY <1>2, <1>3, <1>4, <1>5, <1>6

-----------------------------------------------------------------------------
(* The inductive invariant. *)

\* The activations the sweep has come to.
Swept == ActivationStarts \ starts

DeclareInv ==
  /\ \A c \in Candidate : <<c, c>> \notin declared
  /\ explicit = {<<d[2], d[1]>> : d \in declared}

SweepInv ==
  /\ starts \subseteq ActivationStarts
  /\ \A p \in Swept, s \in starts : claim[p].from <= claim[s].from
  /\ intervals = RetiredIntervals \ eligible
  /\ eligible = {d \in RetiredIntervals : \E p \in Swept : claim[d].until <= claim[p].from}
  /\ interval = {e \in RetiredIntervals \X Swept :
                   e[1] # e[2] /\ claim[e[1]].until <= claim[e[2]].from}

\* The candidates that replace a current one, and a retired one.
BelowCurrent == {c \in Candidate : \E a \in Ancestors(Successors, c) : IsCurrent(a)}
BelowRetired == {c \in Candidate : \E a \in Ancestors(Successors, c) : IsRetired(a)}

Processed == {order[i] : i \in 1..flagged}

FlagInv ==
  /\ OnCycle(Successors) = {} /\ IsTopological(Successors, order)
  /\ belowCurrent = BelowCurrent \intersect Processed
  /\ belowRetired = BelowRetired \intersect Processed

Winners ==
  IF CurrentTips # {} THEN CurrentTips ELSE IF RetiredTips # {} THEN RetiredTips ELSE Tips

Beaten == {a \in Candidate : Winners \intersect Descendants(Successors, a) # {}}

CollectInv ==
  /\ ~Undecidable /\ survivors = Tips /\ fork = {}
  /\ outcome = IF CurrentTips # {}
               THEN IF CurrentTips \intersect belowRetired # {} THEN "REACTIVATED" ELSE "CURRENT"
               ELSE IF RetiredTips # {} THEN "DEPRECATED" ELSE "NEUTRAL"
  /\ superseded \union pending \subseteq Beaten
  /\ \A c \in Winners \union superseded :
       Predecessors(Successors, c) \subseteq superseded \union pending

\* The graph is complete; and what is below a current or retired candidate known.
GraphIsComplete == DeclareInv /\ SweepInv /\ starts = {}
Flagged == GraphIsComplete /\ FlagInv /\ flagged = Len(order)

Lineage ==
  [outcome |-> outcome, survivors |-> survivors, superseded |-> superseded, fork |-> fork]
ReferenceLineage == Reference!LineageOf(claim, declared, Candidate)

LineageInv ==
  /\ TypeOK /\ stage # "rejected"
  /\ stage \in {"declare", "sweep", "flag", "resolve"} => superseded = {} /\ pending = {} /\ fork = {}
  /\ stage \in {"declare", "sweep"} => flagged = 0 /\ belowCurrent = {} /\ belowRetired = {}
  /\ stage = "declare" => interval = {} /\ eligible = {}
  /\ stage = "sweep" => DeclareInv /\ SweepInv
  /\ stage = "flag" => GraphIsComplete /\ FlagInv
  /\ stage = "resolve" => Flagged
  /\ stage = "collect" => Flagged /\ CollectInv
  /\ stage = "answered" => \/ outcome = "UNRESOLVED" /\ Lineage = ReferenceLineage
                           \/ Flagged /\ CollectInv /\ pending = {}

Decision == [status |-> status, method |-> method, witnesses |-> witnesses, review |-> review]

ClassifyInv ==
  /\ ClassifyTypeOK
  /\ status = "none" => method = "none" /\ witnesses = {} /\ review = FALSE /\ verdict = "open"
  /\ status # "none" =>
       /\ stage = "answered"
       /\ Reference!DecisionOf(claim, Candidate, Lineage) = Decision

-----------------------------------------------------------------------------
(* What the finished graph says. *)

LEMMA GraphsAreGraphs ==
  ASSUME TypeOK
  PROVE  Successors \in Graphs /\ DeclaredSuccessors \in Graphs
  BY DEF TypeOK, Successors, DeclaredSuccessors, Graphs

LEMMA SweepIsReinstatement ==
  ASSUME TypeOK, GraphIsComplete, NEW c \in Candidate, NEW d \in Candidate
  PROVE  <<c, d>> \in interval <=> d # c /\ Reference!Reinstates(claim, d, c)
<1>1. Swept = ActivationStarts
  BY DEF GraphIsComplete, Swept
<1>2. <<c, d>> \in interval <=>
        c \in RetiredIntervals /\ d \in ActivationStarts /\ c # d /\ claim[c].until <= claim[d].from
  BY <1>1 DEF GraphIsComplete, SweepInv
<1>3. \A t : Reference!Known(t) <=> Known(t)
  BY DEF Reference!Known, Known
<1> QED
  BY <1>2, <1>3, SameReadings
  DEF Reference!Reinstates, RetiredIntervals, ActivationStarts, IsRetired

LEMMA GraphIsReplacement ==
  ASSUME TypeOK, GraphIsComplete
  PROVE  /\ Reference!Replacements(claim, declared, Candidate) = Successors
         /\ Reference!Declarations(declared, Candidate) = DeclaredSuccessors
<1>1. \A c, d \in Candidate : <<c, d>> \in explicit <=> <<d, c>> \in declared
  <2>1. explicit = {<<d[2], d[1]>> : d \in declared} /\ declared \subseteq Candidate \X Candidate
    BY DEF GraphIsComplete, DeclareInv, TypeOK
  <2> SUFFICES ASSUME NEW c \in Candidate, NEW d \in Candidate
               PROVE  <<c, d>> \in explicit <=> <<d, c>> \in declared
    OBVIOUS
  <2>2. \A e \in declared : e = <<e[1], e[2]>>
    BY <2>1
  <2>3. ASSUME <<d, c>> \in declared
        PROVE  <<c, d>> \in explicit
    <3>1. <<d, c>>[1] = d /\ <<d, c>>[2] = c
      OBVIOUS
    <3> QED
      BY <2>1, <2>3, <3>1
  <2>4. ASSUME <<c, d>> \in explicit
        PROVE  <<d, c>> \in declared
    <3>1. PICK e \in declared : <<c, d>> = <<e[2], e[1]>>
      BY <2>1, <2>4
    <3> QED
      BY <2>2, <3>1
  <2> QED
    BY <2>3, <2>4
<1>2. \A c, d \in Candidate :
        <<c, d>> \in interval <=> d # c /\ Reference!Reinstates(claim, d, c)
  BY SweepIsReinstatement
<1>3. \A c \in Candidate :
        {d \in Candidate : <<d, c>> \in declared \/ (d # c /\ Reference!Reinstates(claim, d, c))}
          = {d \in Candidate : <<c, d>> \in explicit \union interval}
  BY <1>1, <1>2
<1>4. \A c \in Candidate :
        {d \in Candidate : <<d, c>> \in declared} = {d \in Candidate : <<c, d>> \in explicit}
  BY <1>1
<1>5. Reference!Replacements(claim, declared, Candidate) = Successors
  BY <1>3 DEF Reference!Replacements, Successors
<1>6. Reference!Declarations(declared, Candidate) = DeclaredSuccessors
  BY <1>4 DEF Reference!Declarations, DeclaredSuccessors
<1> QED
  BY <1>5, <1>6

UnresolvedLineage(left, participants) ==
  [outcome |-> "UNRESOLVED", survivors |-> left, superseded |-> {}, fork |-> participants]

SettledLineage(result, winners) ==
  [outcome |-> result, survivors |-> Tips,
   superseded |-> {a \in Candidate : winners \intersect Descendants(Successors, a) # {}},
   fork |-> {}]

LEMMA LineageByCases ==
  ASSUME TypeOK, GraphIsComplete
  PROVE  ReferenceLineage =
           IF OnCycle(Successors) # {} THEN UnresolvedLineage({}, {})
           ELSE IF IncompatibleTips
             THEN UnresolvedLineage(Tips, Reference!Forked(DeclaredSuccessors, Candidate,
                                                           CurrentTips, RetiredTips))
           ELSE IF \/ NeutralTips \intersect (BelowCurrent \union BelowRetired) # {}
                   \/ InvalidIntervalMatters
                   \/ \E c \in CurrentTips \intersect BelowRetired : ~ActivationCapable(claim[c])
             THEN UnresolvedLineage(Tips, {})
           ELSE IF CurrentTips # {}
             THEN SettledLineage(IF CurrentTips \intersect BelowRetired # {}
                                 THEN "REACTIVATED" ELSE "CURRENT", CurrentTips)
           ELSE IF RetiredTips # {} THEN SettledLineage("DEPRECATED", RetiredTips)
           ELSE SettledLineage("NEUTRAL", Tips)
<1> DEFINE graph == Reference!Replacements(claim, declared, Candidate)
           tips == Reference!Tips(graph, Candidate)
           current == {c \in tips : Reference!Current(claim[c])}
           retired == {c \in tips : Reference!Retired(claim[c])}
           neutral == tips \ (current \union retired)
           above == Reference!Reaches(graph, Candidate)
           below1 == {e[2] : e \in {p \in above : Reference!Current(claim[p[1]])}}
           below2 == {e[2] : e \in {p \in above : Reference!Retired(claim[p[1]])}}
           reactivating == current \intersect below2
           forked == Reference!Forked(Reference!Declarations(declared, Candidate), Candidate,
                                      current, retired)
           itself == \E c \in Candidate : <<c, c>> \in declared
           cycle == \E e \in above : e[1] = e[2]
           invalid == \E c \in Candidate : Reference!InvalidOrder(claim[c])
           incapable == \E c \in reactivating : ~Reference!ActivationCapable(claim[c])
           Beats(winners) == {e[1] : e \in {p \in above : p[2] \in winners}}
           Unres(left, f) ==
             [outcome |-> "UNRESOLVED", survivors |-> left, superseded |-> {}, fork |-> f]
           Settled(result, winners) ==
             [outcome |-> result, survivors |-> tips, superseded |-> Beats(winners), fork |-> {}]
<1>1. ReferenceLineage =
        IF itself THEN Unres(Candidate, {})
        ELSE IF cycle THEN Unres({}, {})
        ELSE IF current # {} /\ retired # {} THEN Unres(tips, forked)
        ELSE IF \/ neutral \intersect (below1 \union below2) # {}
                \/ invalid /\ (current # {} \/ retired = {})
                \/ incapable
          THEN Unres(tips, {})
        ELSE IF current # {}
          THEN Settled(IF reactivating # {} THEN "REACTIVATED" ELSE "CURRENT", current)
        ELSE IF retired # {} THEN Settled("DEPRECATED", retired)
        ELSE Settled("NEUTRAL", tips)
  BY DEF ReferenceLineage, Reference!LineageOf
<1>2. ~itself
  BY DEF GraphIsComplete, DeclareInv
<1>3. graph = Successors /\ Successors \in Graphs
  BY GraphIsReplacement, GraphsAreGraphs
<1> HIDE DEF graph
<1>4. tips = Tips
  BY <1>3 DEF Reference!Tips, Tips
<1>5. current = CurrentTips /\ retired = RetiredTips
  BY <1>4, SameReadings DEF CurrentTips, RetiredTips, IsCurrent, IsRetired
<1>6. neutral = NeutralTips
  BY <1>4, <1>5 DEF NeutralTips
<1>7. above = Reference!Reaches(Successors, Candidate)
  BY <1>3
<1>8. \A e \in above : e[1] \in Candidate /\ e[2] \in Descendants(Successors, e[1])
  BY <1>7, SameDescendants DEF Reference!Reaches
<1>9. below1 = BelowCurrent
  <2>1. PICK S : S = {c \in Candidate : IsCurrent(c)}
    OBVIOUS
  <2>2. {p \in above : Reference!Current(claim[p[1]])} = {p \in above : p[1] \in S}
    BY <1>8, <2>1, SameReadings DEF IsCurrent
  <2>3. below1 = {d \in Candidate : \E a \in Candidate : a \in S /\ d \in Descendants(Successors, a)}
    BY <1>3, <1>7, <2>2, PairsOfReach
  <2> QED
    BY <2>1, <2>3 DEF BelowCurrent, Ancestors
<1>10. below2 = BelowRetired
  <2>1. PICK S : S = {c \in Candidate : IsRetired(c)}
    OBVIOUS
  <2>2. {p \in above : Reference!Retired(claim[p[1]])} = {p \in above : p[1] \in S}
    BY <1>8, <2>1, SameReadings DEF IsRetired
  <2>3. below2 = {d \in Candidate : \E a \in Candidate : a \in S /\ d \in Descendants(Successors, a)}
    BY <1>3, <1>7, <2>2, PairsOfReach
  <2> QED
    BY <2>1, <2>3 DEF BelowRetired, Ancestors
<1>11. cycle <=> OnCycle(Successors) # {}
  <2>1. \A c \in Candidate : c \in Descendants(Successors, c) => <<c, c>> \in above
    BY <1>7, SameDescendants DEF Reference!Reaches
  <2>2. \A c \in Candidate : <<c, c>>[1] = <<c, c>>[2]
    OBVIOUS
  <2> HIDE DEF above
  <2> QED
    BY <1>8, <2>1, <2>2 DEF OnCycle
<1>12. ASSUME NEW S
       PROVE  Beats(S) = {a \in Candidate : S \intersect Descendants(Successors, a) # {}}
  BY <1>3, <1>7, PairsOfReach
<1> HIDE DEF above, tips, Beats
<1>13. forked = Reference!Forked(DeclaredSuccessors, Candidate, CurrentTips, RetiredTips)
  BY <1>5, GraphIsReplacement
<1>14. (current # {} /\ retired # {}) <=> IncompatibleTips
  BY <1>5 DEF IncompatibleTips
<1>15. (invalid /\ (current # {} \/ retired = {})) <=> InvalidIntervalMatters
  BY <1>5, SameReadings DEF InvalidIntervalMatters
<1>16. incapable <=> \E c \in CurrentTips \intersect BelowRetired : ~ActivationCapable(claim[c])
  BY <1>5, <1>10, SameReadings
<1>17. \A left, f : Unres(left, f) = UnresolvedLineage(left, f)
  BY DEF UnresolvedLineage
<1>18. /\ \A r : Settled(r, current) = SettledLineage(r, CurrentTips)
       /\ \A r : Settled(r, retired) = SettledLineage(r, RetiredTips)
       /\ \A r : Settled(r, tips) = SettledLineage(r, Tips)
  BY <1>4, <1>5, <1>12 DEF SettledLineage
<1> HIDE DEF itself, cycle, current, retired, neutral, below1, below2, reactivating, forked, invalid,
             incapable, Unres, Settled
<1>19. reactivating = CurrentTips \intersect BelowRetired
  BY <1>5, <1>10 DEF reactivating
<1> QED
  BY <1>1, <1>2, <1>4, <1>5, <1>6, <1>9, <1>10, <1>11, <1>13, <1>14, <1>15, <1>16, <1>17, <1>18, <1>19

LEMMA ForkParticipantsAreForked ==
  ASSUME TypeOK, FlagInv
  PROVE  /\ ForkParticipants =
              Reference!Forked(DeclaredSuccessors, Candidate, CurrentTips, RetiredTips)
         /\ ForkParticipants \subseteq Candidate
<1>1. CurrentTips \in SUBSET Candidate /\ RetiredTips \in SUBSET Candidate
  BY DEF CurrentTips, RetiredTips, Tips
<1>2. DeclaredSuccessors \in Graphs /\ explicit \subseteq Candidate \X Candidate
  BY GraphsAreGraphs DEF TypeOK
<1>3. \A c \in Candidate : DeclaredSuccessors[c] \subseteq Successors[c]
  BY DEF DeclaredSuccessors, Successors
<1>4. IsTopological(DeclaredSuccessors, order)
  <2>1. IsTopological(Successors, order)
    BY DEF FlagInv
  <2>2. \A i \in DOMAIN order : order[i] \in Candidate
    BY <2>1 DEF IsTopological
  <2> QED
    BY <1>3, <2>1, <2>2 DEF IsTopological
<1>5. PICK left \in SUBSET Candidate, right \in SUBSET Candidate :
        left = CurrentTips /\ right = RetiredTips
  BY <1>1
<1>6. DescendsFrom(ReachedFrom(left) \intersect ReachedFrom(right))
          \intersect (ReachedFrom(left) \union ReachedFrom(right))
        = Reference!Forked(DeclaredSuccessors, Candidate, left, right)
  BY <1>2, <1>4, ForkIsFound
<1>7. /\ ReachedFrom(left) = left \union {c \in Candidate : LeadsTo(left, c)}
      /\ ReachedFrom(right) = right \union {c \in Candidate : LeadsTo(right, c)}
  BY <1>2, <1>4, ReachedFromIsReach
<1>8. ReachedFrom(left) \subseteq Candidate /\ ReachedFrom(right) \subseteq Candidate
  BY <1>7
<1>9. ForkParticipants = DescendsFrom(ReachedFrom(left) \intersect ReachedFrom(right))
                           \intersect (ReachedFrom(left) \union ReachedFrom(right))
  BY <1>5 DEF ForkParticipants
<1> QED
  BY <1>5, <1>6, <1>8, <1>9

LEMMA FlagsAreBelow ==
  ASSUME TypeOK, Flagged
  PROVE  /\ belowCurrent = BelowCurrent /\ belowRetired = BelowRetired
         /\ NeutralReplacesSemantic <=>
              NeutralTips \intersect (BelowCurrent \union BelowRetired) # {}
         /\ UnsupportedReactivation <=>
              \E c \in CurrentTips \intersect BelowRetired : ~ActivationCapable(claim[c])
<1>1. Candidate \subseteq Processed
  BY OrderHasIndices, GraphsAreGraphs DEF Flagged, FlagInv, Processed
<1>2. belowCurrent = BelowCurrent /\ belowRetired = BelowRetired
  BY <1>1 DEF Flagged, FlagInv, BelowCurrent, BelowRetired
<1>3. NeutralReplacesSemantic <=> NeutralTips \intersect (BelowCurrent \union BelowRetired) # {}
  BY <1>2 DEF NeutralReplacesSemantic
<1>4. UnsupportedReactivation <=>
        \E c \in CurrentTips \intersect BelowRetired : ~ActivationCapable(claim[c])
  BY <1>2 DEF UnsupportedReactivation
<1> QED
  BY <1>2, <1>3, <1>4

\* The tips are the candidates without descendants, and there are some.
LEMMA TipsAreEnds ==
  ASSUME TypeOK, FlagInv
  PROVE  /\ Tips # {}
         /\ \A t \in Tips : t \in Candidate /\ Descendants(Successors, t) = {}
         /\ \A c \in Candidate : c \notin Tips => Tips \intersect Descendants(Successors, c) # {}
<1>1. Successors \in Graphs /\ IsTopological(Successors, order)
  BY GraphsAreGraphs DEF FlagInv
<1>2. ASSUME NEW t \in Tips
      PROVE  t \in Candidate /\ Descendants(Successors, t) = {}
  BY <1>1, FirstStep DEF Tips
<1>3. ASSUME NEW c \in Candidate, c \notin Tips
      PROVE  Tips \intersect Descendants(Successors, c) # {}
  <2>1. PICK t \in Descendants(Successors, c) : Successors[t] = {}
    BY <1>1, <1>3, PathsEnd DEF Tips
  <2>2. t \in Candidate
    BY <1>1, DescentIsClosed
  <2> QED
    BY <2>1, <2>2 DEF Tips
<1>4. PICK c \in Candidate : TRUE
  BY GroupAssumption
<1> QED
  BY <1>2, <1>3, <1>4

\* What has been collected once nothing is pending.
LEMMA CollectedIsBeaten ==
  ASSUME TypeOK, CollectInv, pending = {}
  PROVE  superseded = Beaten
<1> DEFINE S == Winners \union superseded
<1>1. Successors \in Graphs
  BY GraphsAreGraphs
<1>2. /\ superseded \subseteq Beaten
      /\ \A y \in S : Predecessors(Successors, y) \subseteq superseded
  BY DEF CollectInv
<1>3. S \in SUBSET Candidate
  BY DEF Winners, CurrentTips, RetiredTips, Tips, TypeOK
<1>4. ASSUME NEW a \in Candidate, NEW w \in Winners, w \in Descendants(Successors, a)
      PROVE  a \in superseded
  <2>1. PICK s \in Successors[a] : w = s \/ w \in Descendants(Successors, s)
    BY <1>1, <1>4, FirstStep
  <2>2. s \in Candidate
    BY <1>1 DEF Graphs
  <2>3. s \in S
    <3>1. CASE w = s
      BY <3>1
    <3>2. CASE w \in Descendants(Successors, s)
      <4>1. PICK X \in SUBSET Candidate : X = S
        BY <1>3
      <4>2. \A y \in X : Predecessors(Successors, y) \subseteq X
        BY <1>2, <4>1
      <4> HIDE DEF S
      <4>3. w \in X
        BY <4>1 DEF S
      <4>4. s \in X
        BY <1>1, <2>2, <3>2, <4>2, <4>3, DescentBackward
      <4> QED
        BY <4>1, <4>4
    <3> QED
      BY <2>1, <3>1, <3>2
  <2>4. a \in Predecessors(Successors, s)
    BY <2>1, <2>2 DEF Predecessors
  <2> QED
    BY <1>2, <2>3, <2>4
<1> QED
  BY <1>2, <1>4 DEF Beaten

LEMMA SettledIsRight ==
  ASSUME TypeOK, Flagged, CollectInv, pending = {}
  PROVE  Lineage = ReferenceLineage
<1>1. superseded = Beaten
  BY CollectedIsBeaten
<1>2. /\ OnCycle(Successors) = {}
      /\ ~IncompatibleTips
      /\ ~(NeutralTips \intersect (BelowCurrent \union BelowRetired) # {})
      /\ ~InvalidIntervalMatters
      /\ ~(\E c \in CurrentTips \intersect BelowRetired : ~ActivationCapable(claim[c]))
      /\ belowRetired = BelowRetired
  BY FlagsAreBelow DEF CollectInv, Flagged, FlagInv, Undecidable
<1>3. ReferenceLineage =
        IF CurrentTips # {}
          THEN SettledLineage(IF CurrentTips \intersect BelowRetired # {}
                              THEN "REACTIVATED" ELSE "CURRENT", CurrentTips)
        ELSE IF RetiredTips # {} THEN SettledLineage("DEPRECATED", RetiredTips)
        ELSE SettledLineage("NEUTRAL", Tips)
  BY <1>2, LineageByCases DEF Flagged
<1>4. /\ survivors = Tips /\ fork = {}
      /\ outcome = IF CurrentTips # {}
                   THEN IF CurrentTips \intersect BelowRetired # {} THEN "REACTIVATED" ELSE "CURRENT"
                   ELSE IF RetiredTips # {} THEN "DEPRECATED" ELSE "NEUTRAL"
  BY <1>2 DEF CollectInv
<1>5. ReferenceLineage = SettledLineage(outcome, Winners)
  BY <1>3, <1>4 DEF Winners
<1> QED
  BY <1>1, <1>4, <1>5 DEF SettledLineage, Lineage, Beaten

-----------------------------------------------------------------------------
(* The steps of the lineage. *)

LEMMA TypesAreKept ==
  ASSUME LineageInv, Next
  PROVE  TypeOK'
<1> TypeOK
  BY DEF LineageInv
<1>1. CASE RejectSelfReference
  BY <1>1 DEF TypeOK, RejectSelfReference, Unresolved, group, edges, sweeping, flagging, Outcomes
<1>2. CASE Declare
  <2>1. {<<d[2], d[1]>> : d \in declared} \subseteq Candidate \X Candidate
    BY DEF TypeOK
  <2>2. RetiredIntervals \subseteq Candidate /\ ActivationStarts \subseteq Candidate
    BY DEF RetiredIntervals, ActivationStarts
  <2> QED
    BY <1>2, <2>1, <2>2 DEF TypeOK, Declare, group, flagging, answer
<1>3. CASE RejectCycle
  BY <1>3 DEF TypeOK, RejectCycle, Unresolved, group, edges, sweeping, flagging, Outcomes
<1>4. CASE Analyze
  <2>1. order' \in Seq(Candidate) /\ stage' = "flag" /\ flagged' = 0
    BY <1>4 DEF LineageInv, Analyze, IsTopological
  <2>2. flagged' \in 0..Len(order')
    BY <2>1
  <2> QED
    BY <1>4, <2>1, <2>2 DEF TypeOK, Analyze, group, edges, sweeping, answer
<1>5. CASE Flag
  <2>1. order' = order /\ flagged' \in 0..Len(order')
    BY <1>5 DEF TypeOK, Flag
  <2>2. order[flagged + 1] \in Candidate
    BY <1>5 DEF TypeOK, Flag
  <2>3. belowCurrent' \subseteq Candidate /\ belowRetired' \subseteq Candidate
    BY <1>5, <2>2 DEF TypeOK, Flag
  <2> QED
    BY <1>5, <2>1, <2>3 DEF TypeOK, Flag, group, edges, sweeping, answer
<1>6. CASE AllFlagged
  BY <1>6 DEF TypeOK, AllFlagged, group, edges, sweeping, flagging, answer
<1>7. CASE ResolveUnresolved
  <2>1. Tips \subseteq Candidate
    BY DEF Tips
  <2>2. fork' \subseteq Candidate
    <3>1. ForkParticipants \subseteq Candidate
      BY <1>7, ForkParticipantsAreForked DEF LineageInv, Flagged, ResolveUnresolved
    <3> QED
      BY <1>7, <3>1 DEF ResolveUnresolved
  <2> QED
    BY <1>7, <2>1, <2>2
    DEF TypeOK, ResolveUnresolved, Unresolved, group, edges, sweeping, flagging, Outcomes
<1>8. ASSUME NEW result \in Outcomes, NEW winners, Settle(result, winners)
      PROVE  TypeOK'
  <2>1. Tips \subseteq Candidate /\ UNION {Predecessors(Successors, c) : c \in winners} \subseteq Candidate
    BY DEF Tips, Predecessors
  <2> QED
    BY <1>8, <2>1 DEF TypeOK, Settle, group, edges, sweeping, flagging
<1>9. CASE ResolveCurrent
  BY <1>8, <1>9 DEF ResolveCurrent, Outcomes
<1>10. CASE ResolveRetired
  BY <1>8, <1>10 DEF ResolveRetired, Outcomes
<1>11. CASE ResolveNeutral
  BY <1>8, <1>11 DEF ResolveNeutral, Outcomes
<1>12. CASE Answer
  BY <1>12 DEF TypeOK, Answer, group, edges, sweeping, flagging, answer
<1>13. ASSUME NEW c \in Candidate, Sweep(c)
       PROVE  TypeOK'
  <2>1. EndedBy(c) \subseteq Candidate
    BY DEF EndedBy, TypeOK
  <2>2. eligible' \subseteq Candidate /\ intervals' \subseteq Candidate /\ starts' \subseteq Candidate
    BY <1>13, <2>1 DEF Sweep, TypeOK
  <2>3. interval' \subseteq Candidate \X Candidate
    BY <1>13, <2>2 DEF Sweep, TypeOK
  <2> QED
    BY <1>13, <2>2, <2>3 DEF TypeOK, Sweep, group, flagging, answer
<1>14. ASSUME NEW c \in Candidate, Collect(c)
       PROVE  TypeOK'
  <2>1. Predecessors(Successors, c) \subseteq Candidate
    BY DEF Predecessors
  <2> QED
    BY <1>14, <2>1 DEF TypeOK, Collect, group, edges, sweeping, flagging
<1> QED
  BY <1>1, <1>2, <1>3, <1>4, <1>5, <1>6, <1>7, <1>9, <1>10, <1>11, <1>12, <1>13, <1>14 DEF Next

\* What is said of the group and its graph goes on being true of them.
LEMMA GraphIsKept ==
  ASSUME UNCHANGED <<group, edges>>
  PROVE  /\ UNCHANGED <<Successors, DeclaredSuccessors, Tips, CurrentTips, RetiredTips,
                        NeutralTips, BelowCurrent, BelowRetired, Winners, Beaten>>
         /\ UNCHANGED <<RetiredIntervals, ActivationStarts, ReferenceLineage>>
         /\ InvalidIntervalMatters' = InvalidIntervalMatters /\ IncompatibleTips' = IncompatibleTips
         /\ DeclareInv' = DeclareInv
         /\ \A c : IsCurrent(c)' = IsCurrent(c) /\ IsRetired(c)' = IsRetired(c)
<1>1. claim' = claim /\ declared' = declared /\ explicit' = explicit /\ interval' = interval
  BY DEF group, edges
<1>2. Successors' = Successors /\ DeclaredSuccessors' = DeclaredSuccessors
  BY <1>1 DEF Successors, DeclaredSuccessors
<1>3. \A c : IsCurrent(c)' = IsCurrent(c) /\ IsRetired(c)' = IsRetired(c)
  BY <1>1 DEF IsCurrent, IsRetired
<1>4. Tips' = Tips
  BY <1>2 DEF Tips
<1>5. CurrentTips' = CurrentTips /\ RetiredTips' = RetiredTips
  BY <1>3, <1>4 DEF CurrentTips, RetiredTips
<1>6. NeutralTips' = NeutralTips /\ IncompatibleTips' = IncompatibleTips
  BY <1>4, <1>5 DEF NeutralTips, IncompatibleTips
<1>7. BelowCurrent' = BelowCurrent /\ BelowRetired' = BelowRetired
  BY <1>2, <1>3 DEF BelowCurrent, BelowRetired
<1>8. Winners' = Winners
  BY <1>4, <1>5 DEF Winners
<1>9. Beaten' = Beaten
  BY <1>2, <1>8 DEF Beaten
<1>10. RetiredIntervals' = RetiredIntervals /\ ActivationStarts' = ActivationStarts
  BY <1>1, <1>3 DEF RetiredIntervals, ActivationStarts
<1>11. ReferenceLineage' = ReferenceLineage
  BY <1>1 DEF ReferenceLineage
<1>12. InvalidIntervalMatters' = InvalidIntervalMatters
  BY <1>1, <1>5 DEF InvalidIntervalMatters
<1>13. DeclareInv' = DeclareInv
  BY <1>1 DEF DeclareInv
<1> QED
  BY <1>2, <1>3, <1>4, <1>5, <1>6, <1>7, <1>8, <1>9, <1>10, <1>11, <1>12, <1>13

LEMMA CompleteGraphIsKept ==
  ASSUME UNCHANGED <<group, edges, sweeping>>
  PROVE  GraphIsComplete' = GraphIsComplete /\ SweepInv' = SweepInv
<1>1. /\ UNCHANGED <<RetiredIntervals, ActivationStarts>> /\ DeclareInv' = DeclareInv
      /\ claim' = claim /\ interval' = interval
      /\ starts' = starts /\ intervals' = intervals /\ eligible' = eligible
  BY GraphIsKept DEF group, edges, sweeping
<1>2. Swept' = Swept
  BY <1>1 DEF Swept
<1>3. SweepInv' = SweepInv
  BY <1>1, <1>2 DEF SweepInv
<1> QED
  BY <1>1, <1>3 DEF GraphIsComplete

LEMMA FlagsAreKept ==
  ASSUME UNCHANGED <<group, edges, sweeping, flagging>>
  PROVE  Flagged' = Flagged /\ FlagInv' = FlagInv /\ Undecidable' = Undecidable
<1>1. /\ UNCHANGED <<Successors, Tips, CurrentTips, NeutralTips, BelowCurrent, BelowRetired>>
      /\ InvalidIntervalMatters' = InvalidIntervalMatters /\ IncompatibleTips' = IncompatibleTips
      /\ claim' = claim
      /\ order' = order /\ flagged' = flagged
      /\ belowCurrent' = belowCurrent /\ belowRetired' = belowRetired
  BY GraphIsKept DEF group, edges, flagging
<1>2. Processed' = Processed
  BY <1>1 DEF Processed
<1>3. FlagInv' = FlagInv
  BY <1>1, <1>2 DEF FlagInv
<1>4. NeutralReplacesSemantic' = NeutralReplacesSemantic
  BY <1>1 DEF NeutralReplacesSemantic
<1>5. UnsupportedReactivation' = UnsupportedReactivation
  BY <1>1 DEF UnsupportedReactivation
<1>6. Undecidable' = Undecidable
  BY <1>1, <1>4, <1>5 DEF Undecidable
<1> QED
  BY <1>1, <1>3, <1>6, CompleteGraphIsKept DEF Flagged

\* A group that is unresolved before its flags: a declaration of a candidate
\* about itself, or a cycle.
LEMMA RejectStep ==
  ASSUME LineageInv, RejectSelfReference \/ RejectCycle
  PROVE  LineageInv'
<1>1. TypeOK /\ TypeOK'
  BY TypesAreKept DEF LineageInv, Next
<1>2. ReferenceLineage' = ReferenceLineage
  BY GraphIsKept DEF RejectSelfReference, RejectCycle
<1>3. stage' = "answered" /\ outcome' = "UNRESOLVED" /\ superseded' = {} /\ fork' = {}
  BY DEF LineageInv, RejectSelfReference, RejectCycle, Unresolved
<1>4. CASE RejectSelfReference
  <2>1. survivors' = Candidate
    BY <1>4 DEF RejectSelfReference, Unresolved
  <2>2. \E c \in Candidate : <<c, c>> \in declared
    BY <1>4 DEF RejectSelfReference
  <2>3. ReferenceLineage = UnresolvedLineage(Candidate, {})
    BY <2>2 DEF ReferenceLineage, Reference!LineageOf, UnresolvedLineage
  <2>4. Lineage' = ReferenceLineage
    BY <1>3, <2>1, <2>3 DEF Lineage, UnresolvedLineage
  <2> QED
    BY <1>1, <1>2, <1>3, <2>4 DEF LineageInv
<1>5. CASE RejectCycle
  <2>1. survivors' = {}
    BY <1>5 DEF RejectCycle, Unresolved
  <2>2. GraphIsComplete /\ OnCycle(Successors) # {}
    BY <1>5 DEF LineageInv, RejectCycle, GraphIsComplete
  <2>3. ReferenceLineage = UnresolvedLineage({}, {})
    BY <1>1, <2>2, LineageByCases
  <2>4. Lineage' = ReferenceLineage
    BY <1>3, <2>1, <2>3 DEF Lineage, UnresolvedLineage
  <2> QED
    BY <1>1, <1>2, <1>3, <2>4 DEF LineageInv
<1> QED
  BY <1>4, <1>5

LEMMA DeclareStep ==
  ASSUME LineageInv, Declare
  PROVE  LineageInv'
<1>1. TypeOK'
  BY TypesAreKept DEF Next
<1>2. /\ claim' = claim /\ declared' = declared
      /\ flagged' = flagged /\ belowCurrent' = belowCurrent /\ belowRetired' = belowRetired
      /\ superseded' = superseded /\ pending' = pending /\ fork' = fork
      /\ interval' = interval /\ eligible' = eligible /\ stage' = "sweep"
      /\ intervals' = RetiredIntervals /\ starts' = ActivationStarts
      /\ explicit' = {<<d[2], d[1]>> : d \in declared}
      /\ \A c \in Candidate : <<c, c>> \notin declared
  BY DEF Declare, group, flagging, answer
<1>3. interval = {} /\ eligible = {} /\ superseded = {} /\ pending = {} /\ fork = {}
      /\ flagged = 0 /\ belowCurrent = {} /\ belowRetired = {}
  BY DEF LineageInv, Declare
<1>4. RetiredIntervals' = RetiredIntervals /\ ActivationStarts' = ActivationStarts
  BY <1>2 DEF RetiredIntervals, ActivationStarts, IsRetired
<1>5. Swept' = {}
  BY <1>2, <1>4 DEF Swept
<1>6. DeclareInv'
  BY <1>2 DEF DeclareInv
<1>7. SweepInv'
  BY <1>2, <1>3, <1>4, <1>5 DEF SweepInv
<1> QED
  BY <1>1, <1>2, <1>3, <1>6, <1>7 DEF LineageInv

\* What the sweep compares are times.
LEMMA TimesAreNumbers ==
  ASSUME TypeOK
  PROVE  /\ \A d \in RetiredIntervals : claim[d].until \in Nat
         /\ \A p \in ActivationStarts : claim[p].from \in Nat
  BY DEF TypeOK, Claims, Time, RetiredIntervals, ActivationStarts, Known

LEMMA SweepStep ==
  ASSUME LineageInv, NEW c \in Candidate, Sweep(c)
  PROVE  LineageInv'
<1>1. TypeOK /\ TypeOK'
  BY TypesAreKept DEF LineageInv, Next
<1>2. /\ claim' = claim /\ declared' = declared /\ explicit' = explicit
      /\ flagged' = flagged /\ belowCurrent' = belowCurrent /\ belowRetired' = belowRetired
      /\ superseded' = superseded /\ pending' = pending /\ fork' = fork
      /\ stage = "sweep" /\ stage' = "sweep"
  BY DEF Sweep, group, flagging, answer
<1>3. DeclareInv /\ SweepInv
  BY <1>2 DEF LineageInv
<1>4. /\ c \in starts /\ \A s \in starts : claim[c].from <= claim[s].from
      /\ eligible' = eligible \union {d \in intervals : claim[d].until <= claim[c].from}
      /\ intervals' = intervals \ {d \in intervals : claim[d].until <= claim[c].from}
      /\ starts' = starts \ {c}
      /\ interval' = interval \union {<<d, c>> : d \in eligible' \ {c}}
  BY DEF Sweep, NextStart, EndedBy
<1>5. RetiredIntervals' = RetiredIntervals /\ ActivationStarts' = ActivationStarts
  BY <1>2 DEF RetiredIntervals, ActivationStarts, IsRetired
<1>6. c \in ActivationStarts /\ Swept' = Swept \union {c}
  BY <1>3, <1>4, <1>5 DEF Swept, SweepInv
<1>7. DeclareInv'
  BY <1>2, <1>3 DEF DeclareInv
<1>8. starts' \subseteq ActivationStarts' /\ \A p \in Swept', s \in starts' : claim'[p].from <= claim'[s].from
  BY <1>2, <1>3, <1>4, <1>5, <1>6 DEF SweepInv
<1>9. intervals' = RetiredIntervals' \ eligible'
  BY <1>3, <1>4, <1>5 DEF SweepInv
<1>10. eligible' = {d \in RetiredIntervals : \E p \in Swept' : claim[d].until <= claim[p].from}
  <2>1. /\ intervals = RetiredIntervals \ eligible
        /\ eligible = {d \in RetiredIntervals : \E p \in Swept : claim[d].until <= claim[p].from}
    BY <1>3 DEF SweepInv
  <2> QED
    BY <1>4, <1>6, <2>1
<1>11. interval' = {e \in RetiredIntervals \X Swept' :
                      e[1] # e[2] /\ claim[e[1]].until <= claim[e[2]].from}
  <2>1. interval = {e \in RetiredIntervals \X Swept :
                      e[1] # e[2] /\ claim[e[1]].until <= claim[e[2]].from}
    BY <1>3 DEF SweepInv
  <2>2. \A d \in eligible' : d \in RetiredIntervals /\ claim[d].until <= claim[c].from
    <3> SUFFICES ASSUME NEW d \in eligible'
                 PROVE  d \in RetiredIntervals /\ claim[d].until <= claim[c].from
      OBVIOUS
    <3>1. PICK p \in Swept' : claim[d].until <= claim[p].from
      BY <1>10
    <3>2. d \in RetiredIntervals /\ p \in ActivationStarts
      BY <1>6, <1>10, <3>1 DEF Swept
    <3>3. claim[d].until \in Nat /\ claim[p].from \in Nat /\ claim[c].from \in Nat
      BY <1>1, <1>6, <3>2, TimesAreNumbers
    <3>4. claim[p].from <= claim[c].from
      BY <1>3, <1>4, <1>6, <3>1 DEF SweepInv
    <3> QED
      BY <3>1, <3>2, <3>3, <3>4
  <2>3. \A d \in RetiredIntervals : claim[d].until <= claim[c].from => d \in eligible'
    BY <1>6, <1>10
  <2>4. {<<d, c>> : d \in eligible' \ {c}} =
          {e \in RetiredIntervals \X {c} : e[1] # e[2] /\ claim[e[1]].until <= claim[e[2]].from}
    <3>1. \A d \in eligible' \ {c} :
            <<d, c>> \in {e \in RetiredIntervals \X {c} :
                            e[1] # e[2] /\ claim[e[1]].until <= claim[e[2]].from}
      BY <2>2
    <3>2. \A e \in RetiredIntervals \X {c} :
            e[1] # e[2] /\ claim[e[1]].until <= claim[e[2]].from =>
              e = <<e[1], c>> /\ e[1] \in eligible' \ {c}
      BY <2>3
    <3> QED
      BY <3>1, <3>2
  <2> QED
    BY <1>4, <1>6, <2>1, <2>4
<1>12. SweepInv'
  BY <1>2, <1>5, <1>8, <1>9, <1>10, <1>11 DEF SweepInv
<1> QED
  BY <1>1, <1>2, <1>7, <1>12 DEF LineageInv

LEMMA AnalyzeStep ==
  ASSUME LineageInv, Analyze
  PROVE  LineageInv'
<1>1. TypeOK'
  BY TypesAreKept DEF Next
<1>2. UNCHANGED <<group, edges, sweeping>>
  BY DEF Analyze
<1>3. GraphIsComplete'
  BY <1>2, CompleteGraphIsKept DEF LineageInv, Analyze, GraphIsComplete
<1>4. Successors' = Successors
  BY <1>2, GraphIsKept
<1>5. /\ flagged' = flagged /\ belowCurrent' = belowCurrent /\ belowRetired' = belowRetired
      /\ superseded' = superseded /\ pending' = pending /\ fork' = fork /\ stage' = "flag"
  BY DEF Analyze, answer
<1>6. OnCycle(Successors) = {} /\ IsTopological(Successors, order')
  BY DEF Analyze
<1>7. /\ flagged = 0 /\ belowCurrent = {} /\ belowRetired = {}
      /\ superseded = {} /\ pending = {} /\ fork = {}
  BY DEF Analyze, LineageInv
<1>8. Processed' = {}
  BY <1>5, <1>7 DEF Processed
<1>9. FlagInv'
  BY <1>4, <1>5, <1>6, <1>7, <1>8 DEF FlagInv
<1> QED
  BY <1>1, <1>3, <1>5, <1>7, <1>9 DEF LineageInv

\* One candidate replaces what its predecessors are and what they replace.
LEMMA FlagStep ==
  ASSUME LineageInv, Flag
  PROVE  LineageInv'
<1> DEFINE c == order[flagged + 1]
           above == Predecessors(Successors, c)
<1>1. TypeOK /\ TypeOK'
  BY TypesAreKept DEF LineageInv, Next
<1>2. /\ UNCHANGED <<group, edges, sweeping>>
      /\ order' = order /\ flagged' = flagged + 1 /\ stage' = stage
      /\ superseded' = superseded /\ pending' = pending /\ fork' = fork
      /\ stage = "flag" /\ flagged < Len(order)
      /\ belowCurrent' = IF \E p \in above : IsCurrent(p) \/ p \in belowCurrent
                         THEN belowCurrent \union {c} ELSE belowCurrent
      /\ belowRetired' = IF \E p \in above : IsRetired(p) \/ p \in belowRetired
                         THEN belowRetired \union {c} ELSE belowRetired
  BY DEF Flag, answer
<1>3. GraphIsComplete /\ FlagInv
  BY <1>2 DEF LineageInv
<1>4. GraphIsComplete'
  BY <1>2, <1>3, CompleteGraphIsKept
<1>5. /\ Successors' = Successors /\ BelowCurrent' = BelowCurrent /\ BelowRetired' = BelowRetired
  BY <1>2, GraphIsKept
<1>6. /\ Successors \in Graphs /\ IsTopological(Successors, order)
      /\ belowCurrent = BelowCurrent \intersect Processed
      /\ belowRetired = BelowRetired \intersect Processed
  BY <1>1, <1>3, GraphsAreGraphs DEF FlagInv
<1>7. /\ Len(order) \in Nat /\ flagged \in Nat /\ flagged + 1 \in 1..Len(order)
      /\ c \in Candidate
  BY <1>1, <1>2 DEF TypeOK
<1>8. Processed' = Processed \union {c}
  <2>1. \A i : i \in 1..(flagged + 1) <=> i \in 1..flagged \/ i = flagged + 1
    BY <1>7
  <2> QED
    BY <1>2, <2>1 DEF Processed
<1>9. above \subseteq Candidate /\ above \subseteq Processed
  <2> SUFFICES ASSUME NEW p \in above
               PROVE  p \in Candidate /\ p \in Processed
    OBVIOUS
  <2>1. p \in Candidate /\ c \in Successors[p]
    BY DEF Predecessors
  <2>2. PICK i \in 1..Len(order) : order[i] = p
    BY <1>6, <2>1, OrderHasIndices
  <2>3. i < flagged + 1
    BY <1>6, <1>7, <2>1, <2>2 DEF IsTopological
  <2>4. i \in 1..flagged
    BY <1>7, <2>2, <2>3
  <2> QED
    BY <2>1, <2>2, <2>4 DEF Processed
<1>10. \A a \in Candidate :
         a \in Ancestors(Successors, c) <=> \E p \in above : a = p \/ a \in Ancestors(Successors, p)
  BY <1>6, <1>7, AncestorStep
<1>11. c \in BelowCurrent <=> \E p \in above : IsCurrent(p) \/ p \in belowCurrent
  <2>1. \A p \in above : p \in belowCurrent <=> \E a \in Ancestors(Successors, p) : IsCurrent(a)
    BY <1>6, <1>9 DEF BelowCurrent
  <2>2. c \in BelowCurrent <=> \E a \in Ancestors(Successors, c) : IsCurrent(a)
    BY <1>7 DEF BelowCurrent
  <2>3. \A p : Ancestors(Successors, p) \subseteq Candidate
    BY DEF Ancestors
  <2> HIDE DEF c, above
  <2> QED
    BY <1>9, <1>10, <2>1, <2>2, <2>3
<1>12. c \in BelowRetired <=> \E p \in above : IsRetired(p) \/ p \in belowRetired
  <2>1. \A p \in above : p \in belowRetired <=> \E a \in Ancestors(Successors, p) : IsRetired(a)
    BY <1>6, <1>9 DEF BelowRetired
  <2>2. c \in BelowRetired <=> \E a \in Ancestors(Successors, c) : IsRetired(a)
    BY <1>7 DEF BelowRetired
  <2>3. \A p : Ancestors(Successors, p) \subseteq Candidate
    BY DEF Ancestors
  <2> HIDE DEF c, above
  <2> QED
    BY <1>9, <1>10, <2>1, <2>2, <2>3
<1> HIDE DEF c, above
<1>13. /\ belowCurrent' = BelowCurrent \intersect (Processed \union {c})
       /\ belowRetired' = BelowRetired \intersect (Processed \union {c})
  BY <1>2, <1>6, <1>11, <1>12 DEF c, above
<1>14. FlagInv'
  BY <1>2, <1>3, <1>5, <1>8, <1>13 DEF FlagInv
<1> QED
  BY <1>1, <1>2, <1>4, <1>14 DEF LineageInv

LEMMA AllFlaggedStep ==
  ASSUME LineageInv, AllFlagged
  PROVE  LineageInv'
<1>1. TypeOK'
  BY TypesAreKept DEF Next
<1>2. /\ UNCHANGED <<group, edges, sweeping, flagging>>
      /\ superseded' = superseded /\ pending' = pending /\ fork' = fork
      /\ stage = "flag" /\ stage' = "resolve" /\ flagged = Len(order)
  BY DEF AllFlagged, answer
<1>3. Flagged
  BY <1>2 DEF LineageInv, Flagged
<1>4. Flagged'
  BY <1>2, <1>3, FlagsAreKept
<1> QED
  BY <1>1, <1>2, <1>4 DEF LineageInv

LEMMA UnresolvedStep ==
  ASSUME LineageInv, ResolveUnresolved
  PROVE  LineageInv'
<1>1. TypeOK /\ TypeOK'
  BY TypesAreKept DEF LineageInv, Next
<1>2. /\ UNCHANGED <<group, edges>>
      /\ superseded' = {} /\ outcome' = "UNRESOLVED" /\ survivors' = Tips /\ stage' = "answered"
      /\ fork' = IF IncompatibleTips THEN ForkParticipants ELSE {}
      /\ Flagged /\ Undecidable
  BY DEF LineageInv, ResolveUnresolved, Unresolved
<1>3. ReferenceLineage' = ReferenceLineage
  BY <1>2, GraphIsKept
<1>4. GraphIsComplete /\ FlagInv /\ OnCycle(Successors) = {}
  BY <1>2 DEF Flagged, FlagInv
<1>5. ReferenceLineage = UnresolvedLineage(Tips, fork')
  <2>1. CASE IncompatibleTips
    BY <1>1, <1>2, <1>4, <2>1, LineageByCases, ForkParticipantsAreForked
  <2>2. CASE ~IncompatibleTips
    <3>1. \/ NeutralTips \intersect (BelowCurrent \union BelowRetired) # {}
          \/ InvalidIntervalMatters
          \/ \E c \in CurrentTips \intersect BelowRetired : ~ActivationCapable(claim[c])
      BY <1>1, <1>2, <2>2, FlagsAreBelow DEF Undecidable
    <3> QED
      BY <1>1, <1>2, <1>4, <2>2, <3>1, LineageByCases
  <2> QED
    BY <2>1, <2>2
<1>6. Lineage' = ReferenceLineage
  BY <1>2, <1>5 DEF Lineage, UnresolvedLineage
<1> QED
  BY <1>1, <1>2, <1>3, <1>6 DEF LineageInv

LEMMA SettleStep ==
  ASSUME LineageInv, ResolveCurrent \/ ResolveRetired \/ ResolveNeutral
  PROVE  LineageInv'
<1>1. TypeOK /\ TypeOK'
  BY TypesAreKept DEF LineageInv, Next
<1>2. /\ UNCHANGED <<group, edges, sweeping, flagging>>
      /\ superseded' = {} /\ fork' = {} /\ survivors' = Tips /\ stage' = "collect"
      /\ pending' = UNION {Predecessors(Successors, c) : c \in Winners}
      /\ outcome' = IF CurrentTips # {}
                    THEN IF CurrentTips \intersect belowRetired # {} THEN "REACTIVATED" ELSE "CURRENT"
                    ELSE IF RetiredTips # {} THEN "DEPRECATED" ELSE "NEUTRAL"
      /\ Flagged /\ ~Undecidable
  BY DEF LineageInv, ResolveCurrent, ResolveRetired, ResolveNeutral, Settle, Winners
<1>3. Flagged' /\ ~Undecidable'
  BY <1>2, FlagsAreKept
<1>4. /\ UNCHANGED <<Successors, Tips, CurrentTips, RetiredTips, Winners, Beaten>>
      /\ belowRetired' = belowRetired
  BY <1>2, GraphIsKept DEF flagging
<1>5. pending' \subseteq Beaten
  <2> SUFFICES ASSUME NEW w \in Winners, NEW a \in Predecessors(Successors, w)
               PROVE  a \in Beaten
    BY <1>2
  <2>1. a \in Candidate /\ w \in Successors[a]
    BY DEF Predecessors
  <2>2. w \in Descendants(Successors, a)
    BY <1>1, <2>1, GraphsAreGraphs, DescentIsClosed
  <2> QED
    BY <2>1, <2>2 DEF Beaten
<1>6. \A c \in Winners : Predecessors(Successors, c) \subseteq pending'
  BY <1>2
<1>7. CollectInv'
  BY <1>2, <1>3, <1>4, <1>5, <1>6 DEF CollectInv
<1> QED
  BY <1>1, <1>2, <1>3, <1>7 DEF LineageInv

LEMMA CollectStep ==
  ASSUME LineageInv, NEW c \in Candidate, Collect(c)
  PROVE  LineageInv'
<1>1. TypeOK /\ TypeOK'
  BY TypesAreKept DEF LineageInv, Next
<1>2. /\ UNCHANGED <<group, edges, sweeping, flagging>>
      /\ fork' = fork /\ survivors' = survivors /\ outcome' = outcome
      /\ stage = "collect" /\ stage' = "collect" /\ c \in pending
      /\ superseded' = superseded \union {c}
      /\ pending' = (pending \union Predecessors(Successors, c)) \ superseded'
  BY DEF Collect
<1>3. Flagged /\ CollectInv
  BY <1>2 DEF LineageInv
<1>4. Flagged' /\ ~Undecidable'
  BY <1>2, <1>3, FlagsAreKept DEF CollectInv
<1>5. /\ UNCHANGED <<Successors, Tips, CurrentTips, RetiredTips, Winners, Beaten>>
      /\ belowRetired' = belowRetired
  BY <1>2, GraphIsKept DEF flagging
<1>6. c \in Beaten
  BY <1>2, <1>3 DEF CollectInv
<1>7. Predecessors(Successors, c) \subseteq Beaten
  <2> SUFFICES ASSUME NEW a \in Predecessors(Successors, c)
               PROVE  a \in Beaten
    OBVIOUS
  <2>1. PICK w \in Winners : w \in Descendants(Successors, c)
    BY <1>6 DEF Beaten
  <2>2. a \in Candidate /\ c \in Successors[a] /\ Successors \in Graphs
    BY <1>1, GraphsAreGraphs DEF Predecessors
  <2>3. c \in Descendants(Successors, a)
    BY <2>2, DescentIsClosed
  <2>4. w \in Descendants(Successors, a)
    BY <2>1, <2>2, <2>3, DescentIsTransitive
  <2> QED
    BY <2>1, <2>2, <2>4 DEF Beaten
<1>8. superseded' \union pending' = superseded \union pending \union Predecessors(Successors, c)
  BY <1>2
<1>9. superseded' \union pending' \subseteq Beaten
  BY <1>3, <1>7, <1>8 DEF CollectInv
<1>10. \A d \in Winners \union superseded' :
         Predecessors(Successors, d) \subseteq superseded' \union pending'
  BY <1>2, <1>3, <1>8 DEF CollectInv
<1>11. CollectInv'
  BY <1>2, <1>3, <1>4, <1>5, <1>9, <1>10 DEF CollectInv
<1> QED
  BY <1>1, <1>2, <1>4, <1>11 DEF LineageInv

LEMMA AnswerStep ==
  ASSUME LineageInv, Answer
  PROVE  LineageInv'
<1>1. TypeOK /\ TypeOK'
  BY TypesAreKept DEF LineageInv, Next
<1>2. /\ UNCHANGED <<group, edges, sweeping, flagging, answer>>
      /\ stage = "collect" /\ pending = {}
      /\ stage' = IF survivors # {} /\ survivors \intersect superseded = {}
                  THEN "answered" ELSE "rejected"
  BY DEF Answer
<1>3. Flagged /\ CollectInv
  BY <1>2 DEF LineageInv
<1>4. Flagged' /\ ~Undecidable'
  BY <1>2, <1>3, FlagsAreKept DEF CollectInv
<1>5. /\ UNCHANGED <<Successors, Tips, CurrentTips, RetiredTips, Winners, Beaten>>
      /\ belowRetired' = belowRetired /\ pending' = pending /\ superseded' = superseded
      /\ survivors' = survivors /\ outcome' = outcome /\ fork' = fork
  BY <1>2, GraphIsKept DEF flagging, answer
<1>6. CollectInv'
  BY <1>3, <1>4, <1>5 DEF CollectInv
<1>7. survivors # {} /\ survivors \intersect superseded = {}
  <2>1. Tips # {} /\ \A t \in Tips : Descendants(Successors, t) = {}
    BY <1>1, <1>3, TipsAreEnds DEF Flagged
  <2>2. survivors = Tips /\ superseded \subseteq Beaten
    BY <1>3 DEF CollectInv
  <2> QED
    BY <2>1, <2>2 DEF Beaten
<1> QED
  BY <1>1, <1>2, <1>4, <1>5, <1>6, <1>7 DEF LineageInv

LEMMA LineageStep ==
  ASSUME LineageInv, [Next]_vars
  PROVE  LineageInv'
<1>1. CASE Next
  BY <1>1, RejectStep, DeclareStep, SweepStep, AnalyzeStep, FlagStep, AllFlaggedStep, UnresolvedStep,
     SettleStep, CollectStep, AnswerStep
  DEF Next
<1>2. CASE UNCHANGED vars
  <2>1. /\ UNCHANGED <<group, edges, sweeping, flagging, answer>> /\ stage' = stage
    BY <1>2 DEF vars, group, edges, sweeping, flagging, answer
  <2>2. /\ UNCHANGED <<claim, declared, stage, explicit, interval, starts, intervals, eligible, order>>
        /\ UNCHANGED <<flagged, belowCurrent, belowRetired, outcome, survivors, pending, superseded>>
        /\ fork' = fork
    BY <1>2 DEF vars
  <2>3. /\ UNCHANGED <<Successors, Tips, CurrentTips, RetiredTips, Winners, Beaten, ReferenceLineage>>
        /\ DeclareInv' = DeclareInv
    BY <2>1, GraphIsKept
  <2>4. /\ GraphIsComplete' = GraphIsComplete /\ SweepInv' = SweepInv
        /\ Flagged' = Flagged /\ FlagInv' = FlagInv /\ Undecidable' = Undecidable
    BY <2>1, CompleteGraphIsKept, FlagsAreKept
  <2>5. CollectInv' = CollectInv
    BY <2>2, <2>3, <2>4 DEF CollectInv
  <2>6. Lineage' = Lineage
    BY <2>2 DEF Lineage
  <2>7. TypeOK' = TypeOK
    BY <2>2 DEF TypeOK
  <2> QED
    BY <2>2, <2>3, <2>4, <2>5, <2>6, <2>7 DEF LineageInv
<1> QED
  BY <1>1, <1>2

LEMMA LineageStart ==
  ASSUME Init
  PROVE  LineageInv
<1>1. PICK g \in Groups : claim = g.claim /\ declared = g.declared
  BY DEF Init
<1>2. claim \in [Candidate -> Claims] /\ declared \subseteq Candidate \X Candidate
  BY <1>1, GroupsAssumption DEF IsGroup
<1>3. order = <<>> /\ flagged = 0 /\ <<>> \in Seq(Candidate) /\ 0 \in 0..Len(<<>>)
  BY DEF Init
<1>4. TypeOK
  BY <1>2, <1>3 DEF Init, TypeOK, Outcomes
<1> QED
  BY <1>4 DEF Init, LineageInv

\* The invariants of the loops hold of every group.
THEOREM LineageInvariant == Spec => []LineageInv
<1>1. Init => LineageInv
  BY LineageStart
<1>2. LineageInv /\ [Next]_vars => LineageInv'
  BY LineageStep
<1> QED
  BY <1>1, <1>2, PTL DEF Spec

-----------------------------------------------------------------------------
(* The answer of the lineage. *)

\* The lineage that is answered is that of the one-step decision.
LineageIsReference == stage = "answered" => Lineage = ReferenceLineage

LEMMA AnswerIsRight ==
  ASSUME LineageInv
  PROVE  LineageIsReference
  BY SettledIsRight DEF LineageInv, LineageIsReference

\* Whatever is current or retired is a winner, or is replaced by one.
LEMMA WinnersAnswer ==
  ASSUME TypeOK, Flagged, CollectInv, NEW c \in Candidate, IsCurrent(c) \/ IsRetired(c)
  PROVE  c \in Winners \/ \E t \in Winners : t \in Descendants(Successors, c)
<1>1. /\ ~IncompatibleTips
      /\ NeutralTips \intersect (BelowCurrent \union BelowRetired) = {}
  BY FlagsAreBelow DEF CollectInv, Undecidable
<1>2. CurrentTips \union RetiredTips \subseteq Winners
  BY <1>1 DEF IncompatibleTips, Winners
<1>3. CASE c \in Tips
  BY <1>2, <1>3 DEF CurrentTips, RetiredTips
<1>4. CASE c \notin Tips
  <2>1. PICK t \in Tips : t \in Descendants(Successors, c)
    BY <1>4, TipsAreEnds DEF Flagged
  <2>2. t \in Candidate /\ c \in Ancestors(Successors, t)
    BY <2>1 DEF Tips, Ancestors
  <2>3. t \in BelowCurrent \union BelowRetired
    BY <2>2 DEF BelowCurrent, BelowRetired
  <2>4. t \in CurrentTips \union RetiredTips
    BY <1>1, <2>1, <2>3 DEF NeutralTips
  <2> QED
    BY <1>2, <2>1, <2>4
<1> QED
  BY <1>3, <1>4

LEMMA NothingIsLostInvariant ==
  ASSUME LineageInv
  PROVE  NothingIsLost
<1>1. SUFFICES ASSUME stage = "answered", outcome # "UNRESOLVED", NEW c \in Candidate
               PROVE  /\ IsCurrent(c) => \/ c \in superseded
                                         \/ c \in survivors /\ outcome \in {"CURRENT", "REACTIVATED"}
                      /\ IsRetired(c) => \/ c \in superseded
                                         \/ c \in survivors /\ outcome = "DEPRECATED"
  BY DEF NothingIsLost
<1>2. TypeOK /\ Flagged /\ CollectInv /\ pending = {}
  BY <1>1 DEF LineageInv
<1>3. superseded = Beaten
  BY <1>2, CollectedIsBeaten
<1>4. /\ survivors = Tips
      /\ outcome = IF CurrentTips # {}
                   THEN IF CurrentTips \intersect belowRetired # {} THEN "REACTIVATED" ELSE "CURRENT"
                   ELSE IF RetiredTips # {} THEN "DEPRECATED" ELSE "NEUTRAL"
      /\ CurrentTips = {} \/ RetiredTips = {}
  BY <1>2 DEF CollectInv, Undecidable, IncompatibleTips
<1>5. ASSUME IsCurrent(c) \/ IsRetired(c), c \notin Winners
      PROVE  c \in superseded
  BY <1>2, <1>3, <1>5, WinnersAnswer DEF Beaten
<1>6. ASSUME IsCurrent(c), c \in Winners
      PROVE  c \in survivors /\ outcome \in {"CURRENT", "REACTIVATED"}
  <2>1. c \in Tips
    BY <1>6 DEF Winners, CurrentTips, RetiredTips
  <2>2. c \in CurrentTips
    BY <1>6, <2>1 DEF CurrentTips
  <2> QED
    BY <1>4, <2>1, <2>2
<1>7. ASSUME IsRetired(c), c \in Winners
      PROVE  c \in survivors /\ outcome = "DEPRECATED"
  <2>1. c \in Tips
    BY <1>7 DEF Winners, CurrentTips, RetiredTips
  <2>2. c \in RetiredTips
    BY <1>7, <2>1 DEF RetiredTips
  <2> QED
    BY <1>4, <2>1, <2>2
<1> QED
  BY <1>5, <1>6, <1>7

-----------------------------------------------------------------------------
(* The steps of the classification. *)

LEMMA ClassifyStart ==
  ASSUME ClassifyInit
  PROVE  LineageInv /\ ClassifyInv
<1>1. LineageInv
  BY LineageStart DEF ClassifyInit
<1> QED
  BY <1>1 DEF ClassifyInit, ClassifyInv, ClassifyTypeOK, LineageInv

ReferenceDecision == Reference!DecisionOf(claim, Candidate, Lineage)

LEMMA DecisionByCases ==
  ReferenceDecision =
    IF ActiveApplies
      THEN [status |-> "ACTIVE", witnesses |-> LocalWitnesses, review |-> FALSE,
            method |-> IF outcome = "REACTIVATED" THEN "SAME_VALUE_REACTIVATION"
                       ELSE IF Cardinality(Candidate) > 1 THEN "SAME_VALUE_MERGE"
                       ELSE "DIRECT_CURRENT"]
    ELSE IF DeprecatedApplies
      THEN [status |-> "DEPRECATED", witnesses |-> {}, review |-> AnyTemporalReview,
            method |-> "EXPLICIT_DEPRECATION"]
    ELSE [status |-> "PENDING", witnesses |-> {}, method |-> PendingMethod,
          review |-> (AnyTemporalReview \/ \E c \in Candidate : SemanticReview(claim[c]))]
<1> DEFINE word == {c \in Lineage.survivors : Reference!PassesGates(claim[c])}
           active == word # {} /\ Lineage.outcome \notin {"DEPRECATED", "UNRESOLVED"}
           deprecated == \/ Lineage.outcome = "DEPRECATED"
                         \/ /\ Lineage.outcome # "UNRESOLVED"
                            /\ \E c \in Lineage.survivors : Reference!Retired(claim[c])
           needed == Reference!Needed(claim, Candidate, Lineage)
           semantic == \E c \in Candidate : Reference!SemanticReview(claim[c])
           rule == Reference!PendingRule(claim, Candidate)
<1>1. ReferenceDecision =
        IF active
          THEN [status |-> "ACTIVE", witnesses |-> word, review |-> FALSE,
                method |-> IF Lineage.outcome = "REACTIVATED" THEN "SAME_VALUE_REACTIVATION"
                           ELSE IF Cardinality(Candidate) > 1 THEN "SAME_VALUE_MERGE"
                           ELSE "DIRECT_CURRENT"]
        ELSE IF deprecated
          THEN [status |-> "DEPRECATED", witnesses |-> {}, review |-> needed,
                method |-> "EXPLICIT_DEPRECATION"]
        ELSE [status |-> "PENDING", witnesses |-> {}, method |-> rule,
              review |-> needed \/ semantic]
  BY SameCardinality DEF ReferenceDecision, Reference!DecisionOf
<1>2. Lineage.survivors = survivors /\ Lineage.outcome = outcome
  BY DEF Lineage
<1>3. word = LocalWitnesses
  BY <1>2, SameReadings DEF LocalWitnesses
<1>4. active = ActiveApplies
  BY <1>2, <1>3 DEF ActiveApplies
<1>5. deprecated = DeprecatedApplies
  BY <1>2, SameReadings DEF DeprecatedApplies, IsRetired
<1>6. needed = AnyTemporalReview
  BY <1>2, SameReviews DEF Reference!Needed, AnyTemporalReview
<1>7. semantic = \E c \in Candidate : SemanticReview(claim[c])
  BY SameReviews
<1>8. rule = PendingMethod
  BY SameReviews DEF Reference!PendingRule, PendingMethod
<1> HIDE DEF word, active, deprecated, needed, semantic, rule
<1> QED
  BY <1>1, <1>2, <1>3, <1>4, <1>5, <1>6, <1>7, <1>8

LEMMA AnsweredIsFinal ==
  ASSUME Next
  PROVE  stage # "answered"
  BY DEF Next, RejectSelfReference, Declare, RejectCycle, Analyze, Flag, AllFlagged, ResolveUnresolved,
         ResolveCurrent, ResolveRetired, ResolveNeutral, Answer, Sweep, Collect

\* One of the three classifications: the record of the one-step decision.
LEMMA ClassifyStep ==
  ASSUME LineageInv, ClassifyInv, ClassifyActive \/ ClassifyDeprecated \/ ClassifyPending
  PROVE  ClassifyInv'
<1>1. UNCHANGED vars /\ stage = "answered" /\ verdict' = verdict
  BY DEF ClassifyActive, ClassifyDeprecated, ClassifyPending, Ready
<1>2. status = "none" /\ witnesses = {} /\ review = FALSE /\ verdict = "open"
  BY DEF ClassifyInv, ClassifyActive, ClassifyDeprecated, ClassifyPending, Ready
<1>3. TypeOK'
  BY <1>1, LineageStep DEF LineageInv
<1>4. claim' = claim /\ Lineage' = Lineage /\ stage' = stage
  BY <1>1 DEF vars, Lineage
<1>5. ReferenceDecision' = ReferenceDecision
  BY <1>4 DEF ReferenceDecision
<1>6. LocalWitnesses \subseteq Candidate
  BY DEF LineageInv, TypeOK, LocalWitnesses
<1>7. CASE ClassifyActive
  <2>1. ReferenceDecision = Decision'
    BY <1>7, DecisionByCases DEF ClassifyActive, Decision
  <2>2. ClassifyTypeOK' /\ status' # "none"
    BY <1>1, <1>2, <1>3, <1>6, <1>7 DEF ClassifyActive, ClassifyTypeOK
  <2> QED
    BY <1>1, <1>4, <1>5, <2>1, <2>2 DEF ClassifyInv, ReferenceDecision
<1>8. CASE ClassifyDeprecated
  <2>1. ReferenceDecision = Decision'
    BY <1>2, <1>8, DecisionByCases DEF ClassifyDeprecated, Decision
  <2>2. ClassifyTypeOK' /\ status' # "none"
    BY <1>1, <1>2, <1>3, <1>8 DEF ClassifyDeprecated, ClassifyTypeOK, AnyTemporalReview
  <2> QED
    BY <1>1, <1>4, <1>5, <2>1, <2>2 DEF ClassifyInv, ReferenceDecision
<1>9. CASE ClassifyPending
  <2>1. ReferenceDecision = Decision'
    BY <1>2, <1>9, DecisionByCases DEF ClassifyPending, Decision
  <2>2. PendingMethod \in {"TEMPORAL_PENDING", "INSUFFICIENT_EVIDENCE", "PENDING_SEMANTICS"}
    BY DEF PendingMethod
  <2>3. ClassifyTypeOK' /\ status' # "none"
    BY <1>1, <1>2, <1>3, <1>9, <2>2 DEF ClassifyPending, ClassifyTypeOK, AnyTemporalReview
  <2> QED
    BY <1>1, <1>4, <1>5, <2>1, <2>3 DEF ClassifyInv, ReferenceDecision
<1> QED
  BY <1>7, <1>8, <1>9

LEMMA ClassificationStep ==
  ASSUME LineageInv, ClassifyInv, [ClassifyNext]_cvars
  PROVE  LineageInv' /\ ClassifyInv'
<1>1. [Next]_vars
  BY DEF ClassifyNext, Resolve, ClassifyActive, ClassifyDeprecated, ClassifyPending, RecordUnresolved,
         cvars
<1>2. LineageInv'
  BY <1>1, LineageStep
<1>3. TypeOK'
  BY <1>2 DEF LineageInv
<1>4. CASE Resolve
  <2>1. status' = status /\ method' = method /\ witnesses' = witnesses /\ review' = review
        /\ verdict' = verdict
    BY <1>4 DEF Resolve, decision
  <2>2. status = "none"
    BY <1>4, AnsweredIsFinal DEF Resolve, ClassifyInv
  <2> QED
    BY <1>2, <1>3, <2>1, <2>2 DEF ClassifyInv, ClassifyTypeOK
<1>5. CASE ClassifyActive \/ ClassifyDeprecated \/ ClassifyPending
  BY <1>2, <1>5, ClassifyStep
<1>6. CASE RecordUnresolved \/ UNCHANGED cvars
  <2>1. /\ UNCHANGED vars
        /\ status' = status /\ method' = method /\ witnesses' = witnesses /\ review' = review
        /\ verdict' = verdict \/ (status # "none" /\ verdict' \in {"refused", "recorded"})
    BY <1>6 DEF RecordUnresolved, cvars, decision
  <2>2. claim' = claim /\ Lineage' = Lineage /\ stage' = stage /\ Decision' = Decision
    BY <2>1 DEF vars, Lineage, Decision
  <2>3. ClassifyTypeOK'
    BY <1>3, <2>1 DEF ClassifyInv, ClassifyTypeOK
  <2> QED
    BY <1>2, <2>1, <2>2, <2>3 DEF ClassifyInv
<1> QED
  BY <1>4, <1>5, <1>6 DEF ClassifyNext

-----------------------------------------------------------------------------
(* The theorems. *)

\* The invariants of the loops, and the record of the one-step decision, hold
\* of every group while it is classified.
THEOREM ClassificationInvariant == ClassifySpec => [](LineageInv /\ ClassifyInv)
<1>1. ClassifyInit => LineageInv /\ ClassifyInv
  BY ClassifyStart
<1>2. (LineageInv /\ ClassifyInv) /\ [ClassifyNext]_cvars => (LineageInv /\ ClassifyInv)'
  BY ClassificationStep
<1> QED
  BY <1>1, <1>2, PTL DEF ClassifySpec

\* The types of the variables of the lineage and the classification.
THEOREM ClassifyTypeCorrect == ClassifySpec => []ClassifyTypeOK
<1>1. ClassifyInv => ClassifyTypeOK
  BY DEF ClassifyInv
<1> QED
  BY <1>1, ClassificationInvariant, PTL

\* However the ancestors are collected, a lineage that is decided leaves no
\* assertion and no retirement without an answer: it is superseded, or it stands
\* with the winners (resolve_same_value_lineage).
THEOREM AlwaysNothingIsLost == ClassifySpec => []NothingIsLost
<1>1. LineageInv => NothingIsLost
  BY NothingIsLostInvariant
<1> QED
  BY <1>1, ClassificationInvariant, PTL

\* The lineage that is answered is the one that reachability alone tells: the
\* sorted sweep, the flags, the two passes for the fork and the collection are
\* right for every group, every declaration and every topological order.
THEOREM AlwaysReferenceLineage == ClassifySpec => []LineageIsReference
<1>1. LineageInv => LineageIsReference
  BY AnswerIsRight
<1> QED
  BY <1>1, ClassificationInvariant, PTL

LEMMA ActiveIsWitnessedInvariant ==
  ASSUME LineageInv, ClassifyInv
  PROVE  ActiveIsWitnessed
<1>1. SUFFICES ASSUME status = "ACTIVE"
               PROVE  /\ witnesses # {} /\ witnesses \intersect superseded = {}
                      /\ \A c \in witnesses : ActivationCapable(claim[c])
                      /\ \A r \in Candidate : IsRetired(r) =>
                           \E c \in witnesses : r \in Ancestors(Successors, c)
  BY DEF ActiveIsWitnessed
<1>2. stage = "answered" /\ ReferenceDecision = Decision
  BY <1>1 DEF ClassifyInv, ReferenceDecision
<1>3. ActiveApplies /\ witnesses = LocalWitnesses
  <2>1. Decision.status = "ACTIVE" /\ Decision.witnesses = witnesses
    BY <1>1 DEF Decision
  <2> QED
    BY <1>2, <2>1, DecisionByCases
<1>4. outcome \notin {"DEPRECATED", "UNRESOLVED"} /\ witnesses # {}
  BY <1>3 DEF ActiveApplies
<1>5. TypeOK /\ Flagged /\ CollectInv /\ pending = {}
  BY <1>2, <1>4 DEF LineageInv
<1>6. /\ survivors = Tips
      /\ outcome = IF CurrentTips # {}
                   THEN IF CurrentTips \intersect belowRetired # {} THEN "REACTIVATED" ELSE "CURRENT"
                   ELSE IF RetiredTips # {} THEN "DEPRECATED" ELSE "NEUTRAL"
      /\ CurrentTips = {} \/ RetiredTips = {}
      /\ superseded \subseteq Beaten
  BY <1>5 DEF CollectInv, Undecidable, IncompatibleTips
<1>7. RetiredTips = {}
  BY <1>4, <1>6
<1>8. \A c \in witnesses : c \in Tips /\ PassesGates(claim[c]) /\ ~IsRetired(c)
  BY <1>3, <1>6, <1>7 DEF LocalWitnesses, RetiredTips
<1>9. \A c \in witnesses : ActivationCapable(claim[c]) /\ c \in CurrentTips
  BY <1>8 DEF ActivationCapable, PassesGates, CurrentTips, IsCurrent, IsRetired, Current
<1>10. CurrentTips # {} /\ Winners = CurrentTips
  BY <1>4, <1>9 DEF Winners
<1>11. witnesses \intersect superseded = {}
  <2>1. \A t \in Tips : Descendants(Successors, t) = {}
    BY <1>5, TipsAreEnds DEF Flagged
  <2> QED
    BY <1>6, <1>8, <2>1 DEF Beaten
<1>12. ASSUME NEW r \in Candidate, IsRetired(r)
       PROVE  \E c \in witnesses : r \in Ancestors(Successors, c)
  <2>1. r \notin Winners
    BY <1>7, <1>10, <1>12 DEF CurrentTips, RetiredTips
  <2>2. PICK t \in Winners : t \in Descendants(Successors, r)
    BY <1>5, <1>12, <2>1, WinnersAnswer
  <2>3. t \in CurrentTips /\ t \in Tips /\ r \in Ancestors(Successors, t)
    BY <1>10, <1>12, <2>2 DEF Ancestors, CurrentTips
  <2>4. t \in BelowRetired
    BY <1>12, <2>3 DEF BelowRetired, Tips
  <2>5. ActivationCapable(claim[t])
    BY <1>5, <2>3, <2>4, FlagsAreBelow DEF CollectInv, Undecidable
  <2>6. t \in witnesses
    BY <1>3, <1>6, <2>3, <2>5 DEF LocalWitnesses, ActivationCapable
  <2> QED
    BY <2>3, <2>6
<1> QED
  BY <1>4, <1>9, <1>11, <1>12

\* A fact is current only on the word of candidates that are not replaced and not
\* retired, and one of them is above every retirement in the group.
THEOREM AlwaysActiveIsWitnessed == ClassifySpec => []ActiveIsWitnessed
<1>1. LineageInv /\ ClassifyInv => ActiveIsWitnessed
  BY ActiveIsWitnessedInvariant
<1> QED
  BY <1>1, ClassificationInvariant, PTL

\* The constructor of SameValueLineage accepts every lineage, and what is recorded
\* is the lineage and the decision of GroupDecision: the algorithm implements it.
THEOREM AlwaysGroupDecision == ClassifySpec => []ImplementsGroupDecision
<1>1. LineageInv /\ ClassifyInv => ImplementsGroupDecision
  <2> SUFFICES ASSUME LineageInv, ClassifyInv
               PROVE  ImplementsGroupDecision
    OBVIOUS
  <2>1. stage # "rejected"
    BY DEF LineageInv
  <2>2. ASSUME verdict # "open"
        PROVE  Lineage = ReferenceLineage /\ Reference!DecisionOf(claim, Candidate, Lineage) = Decision
    <3>1. stage = "answered" /\ Reference!DecisionOf(claim, Candidate, Lineage) = Decision
      BY <2>2 DEF ClassifyInv
    <3> QED
      BY <3>1, AnswerIsRight DEF LineageIsReference
  <2> QED
    BY <2>1, <2>2 DEF ImplementsGroupDecision, Lineage, ReferenceLineage, Decision
<1> QED
  BY <1>1, ClassificationInvariant, PTL

\* What the assertion of _derive_unresolved_candidates says of a candidate whose
\* value is not known (NonKnownIsPending) fails only where it is retired: its
\* fact is never ACTIVE.
NonKnownIsNotActive == NonKnown # {} => status # "ACTIVE"

\* A value that is not known is never made current, whatever else its group says
\* (classify_group): what is left of the assertion.
THEOREM NonKnownIsNeverActive == ClassifySpec => []NonKnownIsNotActive
<1>1. ClassifyInit => IsGroup(claim)
  BY GroupsAssumption DEF ClassifyInit, Init
<1>2. IsGroup(claim) /\ [ClassifyNext]_cvars => IsGroup(claim)'
  <2> SUFFICES ASSUME [ClassifyNext]_cvars
               PROVE  claim' = claim
    BY DEF IsGroup
  <2>1. Next => claim' = claim
    BY DEF Next, RejectSelfReference, Declare, RejectCycle, Analyze, Flag, AllFlagged,
           ResolveUnresolved, ResolveCurrent, ResolveRetired, ResolveNeutral, Settle, Answer, Sweep,
           Collect, group
  <2> QED
    BY <2>1 DEF ClassifyNext, Resolve, ClassifyActive, ClassifyDeprecated, ClassifyPending,
                RecordUnresolved, cvars, vars
<1>3. IsGroup(claim) /\ LineageInv /\ ClassifyInv => NonKnownIsNotActive
  <2> SUFFICES ASSUME IsGroup(claim), LineageInv, ClassifyInv, NEW c \in Candidate,
                      ~claim[c].valued, status = "ACTIVE"
               PROVE  FALSE
    BY DEF NonKnownIsNotActive, NonKnown
  <2>1. \A d \in Candidate : d = c
    BY DEF IsGroup
  <2>2. ReferenceDecision = Decision /\ Decision.status = "ACTIVE"
    BY DEF ClassifyInv, ReferenceDecision, Decision
  <2>3. ActiveApplies
    BY <2>2, DecisionByCases
  <2> QED
    BY <2>1, <2>3 DEF ActiveApplies, LocalWitnesses, PassesGates, LineageInv, TypeOK
<1> QED
  BY <1>1, <1>2, <1>3, ClassificationInvariant, PTL DEF ClassifySpec

=============================================================================
