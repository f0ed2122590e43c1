--------------------------- MODULE CandidateGraph ---------------------------
(***************************************************************************)
(* The graphs of same-value lineage and what is true of them, without any  *)
(* algorithm.  A graph gives each candidate of a group the candidates that *)
(* replace it (_LineageGraph.successors in reconcile/rules.py).            *)
(***************************************************************************)
EXTENDS Naturals, Sequences, FiniteSets

CONSTANT Candidate

Graphs == [Candidate -> SUBSET Candidate]

Predecessors(graph, c) == {p \in Candidate : c \in graph[p]}

\* Everything a path of one or more edges leads to from c.
Descendants(graph, c) ==
  {d \in Candidate :
     \A S \in SUBSET Candidate :
       graph[c] \subseteq S /\ (\A x \in S : graph[x] \subseteq S) => d \in S}

Ancestors(graph, c) == {a \in Candidate : c \in Descendants(graph, a)}

OnCycle(graph) == {c \in Candidate : c \in Descendants(graph, c)}

Component(graph, c) ==
  {c} \union (Descendants(graph, c) \intersect Ancestors(graph, c))

StrongComponents(graph) == {Component(graph, c) : c \in Candidate}

\* Every candidate once, and no candidate before one it replaces.
IsTopological(graph, seq) ==
  /\ seq \in Seq(Candidate)
  /\ \A c \in Candidate : \E i \in DOMAIN seq : seq[i] = c
  /\ \A i, j \in DOMAIN seq : seq[i] = seq[j] => i = j
  /\ \A i, j \in DOMAIN seq : seq[j] \in graph[seq[i]] => i < j
=============================================================================
