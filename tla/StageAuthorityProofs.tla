----------------------- MODULE StageAuthorityProofs -------------------------
(***************************************************************************)
(* Proofs about the stage authority, for any invocations, facts and        *)
(* addresses, and any allocator that answers from what is in memory.       *)
(***************************************************************************)
EXTENDS StageAuthority, TLAPS

-----------------------------------------------------------------------------
(* The inductive invariant. *)

\* What is referred to is alive.
Held ==
  /\ \A a \in Slot : Live(a) => \A b \in Refs(a) : Live(b)
  /\ \A c \in Call, n \in Names : \A a \in local[c][n] : Live(a)

\* There is always a next fact.
Taking == \A c \in Call : todo[c] # {} /\ todo[c] \subseteq Facts[c]

\* A token says at which address its record was built, and a record that is
\* still there, and no copy, is the one the tables know under its token.
Registry ==
  /\ \A a \in Slot : Live(a) => (memory[a].copied <=> Auth(a).token[1] # a)
  /\ \A t \in Token : members[t] \in {None, t[1]}
  /\ \A a \in Slot : Live(a) /\ ~memory[a].copied =>
       members[Auth(a).token] = a /\ Auth(a).token \notin late /\ memberTokens[a] = Auth(a).token
  /\ \A t \in Token \ late : members[t] # None =>
       Live(members[t]) /\ Auth(members[t]).token = t
  /\ \A a \in Slot : memberTokens[a] # None =>
       \/ memberTokens[a] \in late
       \/ Live(a) /\ Auth(a).token = memberTokens[a] /\ ~memory[a].copied
  /\ \A t \in late : members[t] # None
  /\ \A t, u \in late : t = u

IInv == TypeOK /\ Held /\ Taking /\ Registry

-----------------------------------------------------------------------------
(* What an invocation takes next, and what is built. *)

LEMMA TurnIsAFact ==
  ASSUME Taking, NEW c \in Call
  PROVE  Turn(c) \in todo[c] /\ Turn(c) \in Facts[c] /\ Turn(c) \in Fact
<1>1. Turn(c) \in todo[c]
  BY DEF Taking, Turn
<1> QED
  BY <1>1 DEF Taking, Fact

LEMMA FactsOfCall ==
  ASSUME NEW c \in Call
  PROVE  Facts[c] \subseteq Fact /\ Facts[c] # {}
  BY StageAssumption DEF Fact

\* There is room: the address is free and the token is not mentioned.
LEMMA RoomIsFree ==
  ASSUME Room
  PROVE  /\ NewAddress \in Slot /\ memory[NewAddress] = None
         /\ NewToken \in Token /\ NewToken[1] = NewAddress /\ NewToken \notin Mentioned
<1>1. NewAddress \in Slot /\ memory[NewAddress] = None
  BY DEF Room, NewAddress
<1> DEFINE n == CHOOSE k \in Draws : <<NewAddress, k>> \notin Mentioned
<1>2. n \in Draws /\ <<NewAddress, n>> \notin Mentioned
  BY DEF Room
<1>3. NewToken = <<NewAddress, n>>
  BY DEF NewToken
<1> HIDE DEF n
<1> QED
  BY <1>1, <1>2, <1>3 DEF Token

\* Every record and every token is told from None.
LEMMA NoneIsNoRecord ==
  /\ \A a \in Slot : a # None
  /\ TypeOK => \A a \in Slot : Live(a) => memory[a] \in Record
  BY StageAssumption DEF TypeOK, Live

\* What is said of a live record.
LEMMA RecordFacts ==
  ASSUME TypeOK, NEW a \in Slot, Live(a)
  PROVE  /\ Refs(a) \subseteq Slot /\ Auth(a).token \in Token
         /\ Auth(a).parents \subseteq Token /\ Auth(a).stage \in Stages
         /\ memory[a].copied \in BOOLEAN /\ memory[a].about \subseteq Fact
         /\ memory[a].cohort \in Call
         /\ memory[a] \in Record
<1>1. memory[a] \in Record
  BY NoneIsNoRecord
<1>2. memory[a].auth \in Authorization
  BY <1>1 DEF Record
<1> QED
  BY <1>1, <1>2 DEF Record, Authorization, Refs, Auth

LEMMA TokensAreTokens ==
  ASSUME TypeOK, NEW S \in SUBSET Slot, \A a \in S : Live(a)
  PROVE  Tokens(S) \subseteq Token
  BY RecordFacts DEF Tokens

LEMMA TransitionStages ==
  ASSUME NEW stage, NEW previous, <<previous, stage>> \in Transitions
  PROVE  stage \in Stages /\ previous \in Stages \union {"none"}
  BY DEF Transitions, Stages

\* The record at an address that was free is built, and all else is as it was.
Built(n, t, record) ==
  /\ n \in Slot /\ memory[n] = None /\ t \in Token /\ t[1] = n /\ t \notin Mentioned
  /\ record \in Record /\ record.auth.token = t /\ ~record.copied
  /\ memory' = [memory EXCEPT ![n] = record]
  /\ members' = [members EXCEPT ![t] = n]
  /\ memberTokens' = [memberTokens EXCEPT ![n] = t]
  /\ late' = late

\* The record that is issued with a token.
NewRecord(c, about, refs, stage, previous, parents, t) ==
  [cohort |-> c, about |-> about, refs |-> refs, copied |-> FALSE,
   auth |-> [stage |-> stage, previous |-> previous, cohort |-> c,
             build |-> IF stage \in Unbuilt THEN None ELSE c, parents |-> parents, token |-> t]]

\* What is issued is of its type.
LEMMA NewRecordFacts ==
  ASSUME NEW c \in Call, NEW about \in SUBSET Fact, NEW refs \in SUBSET Slot,
         NEW stage, NEW previous, <<previous, stage>> \in Transitions,
         NEW parents \in SUBSET Token, NEW t \in Token, NEW record,
         record = NewRecord(c, about, refs, stage, previous, parents, t)
  PROVE  /\ record \in Record /\ ~record.copied
         /\ record.refs = refs /\ record.cohort = c /\ record.about = about
         /\ record.auth.stage = stage /\ record.auth.previous = previous
         /\ record.auth.cohort = c /\ record.auth.parents = parents /\ record.auth.token = t
         /\ record.auth.build = IF stage \in Unbuilt THEN None ELSE c
<1> DEFINE build == IF stage \in Unbuilt THEN None ELSE c
           auth == [stage |-> stage, previous |-> previous, cohort |-> c, build |-> build,
                    parents |-> parents, token |-> t]
<1>1. stage \in Stages /\ previous \in Stages \union {"none"}
  BY TransitionStages
<1>2. build \in Call \union {None}
  OBVIOUS
<1>3. record = [cohort |-> c, about |-> about, refs |-> refs, copied |-> FALSE, auth |-> auth]
  BY DEF NewRecord
<1> HIDE DEF build
<1>4. /\ auth \in Authorization
      /\ auth.stage = stage /\ auth.previous = previous /\ auth.cohort = c
      /\ auth.parents = parents /\ auth.token = t /\ auth.build = build
  BY <1>1, <1>2 DEF Authorization
<1> HIDE DEF auth
<1>5. record.auth = auth
  BY <1>3
<1>6. /\ record \in Record /\ record.refs = refs /\ record.cohort = c /\ record.about = about
      /\ ~record.copied
  BY <1>3, <1>4 DEF Record
<1> QED
  BY <1>4, <1>5, <1>6 DEF build

\* What is issued is built at an address that was free.
LEMMA IssueBuilds ==
  ASSUME NEW c \in Call, NEW about \in SUBSET Fact, NEW refs \in SUBSET Slot,
         NEW stage, NEW previous, NEW parents \in SUBSET Token,
         Issue(c, about, refs, stage, previous, parents)
  PROVE  /\ <<previous, stage>> \in Transitions
         /\ \E n, t : /\ n = NewAddress
                      /\ Built(n, t, NewRecord(c, about, refs, stage, previous, parents, t))
<1>1. PICK n \in Slot, t \in Token :
        n = NewAddress /\ t = NewToken /\ memory[n] = None /\ t[1] = n /\ t \notin Mentioned
  BY RoomIsFree DEF Issue
<1>2. PICK record : record = NewRecord(c, about, refs, stage, previous, parents, t)
  OBVIOUS
<1>3. <<previous, stage>> \in Transitions
  BY DEF Issue
<1>4. record \in Record /\ ~record.copied /\ record.auth.token = t
  BY <1>2, <1>3, NewRecordFacts
<1>5. /\ memory' = [memory EXCEPT ![n] = record] /\ members' = [members EXCEPT ![t] = n]
      /\ memberTokens' = [memberTokens EXCEPT ![n] = t] /\ late' = late
  BY <1>1, <1>2 DEF Issue, NewRecord
<1>6. Built(n, t, record)
  BY <1>1, <1>4, <1>5 DEF Built
<1> QED
  BY <1>1, <1>2, <1>3, <1>6

\* Whatever was alive is as it was, and the new record is alive.
LEMMA BuiltMemory ==
  ASSUME TypeOK, NEW n, NEW t, NEW record, Built(n, t, record)
  PROVE  /\ memory' \in [Slot -> Record \union {None}]
         /\ members' \in [Token -> Slot \union {None}]
         /\ memberTokens' \in [Slot -> Token \union {None}]
         /\ late' \subseteq Token
         /\ n \in Slot /\ memory'[n] = record /\ Live(n)' /\ ~Live(n)
         /\ \A a \in Slot : Live(a) => memory'[a] = memory[a] /\ Live(a)'
         /\ \A a \in Slot : Live(a)' => a = n \/ (Live(a) /\ memory'[a] = memory[a])
         /\ members'[t] = n /\ \A u \in Token \ {t} : members'[u] = members[u]
         /\ memberTokens'[n] = t /\ \A a \in Slot \ {n} : memberTokens'[a] = memberTokens[a]
<1>1. n \in Slot /\ t \in Token /\ record \in Record /\ record # None
  BY RecordAssumption DEF Built
<1>2. /\ memory' \in [Slot -> Record \union {None}] /\ memory'[n] = record
      /\ \A a \in Slot \ {n} : memory'[a] = memory[a]
  BY <1>1 DEF Built, TypeOK
<1>3. /\ members' \in [Token -> Slot \union {None}] /\ members'[t] = n
      /\ \A u \in Token \ {t} : members'[u] = members[u]
  BY <1>1 DEF Built, TypeOK
<1>4. /\ memberTokens' \in [Slot -> Token \union {None}] /\ memberTokens'[n] = t
      /\ \A a \in Slot \ {n} : memberTokens'[a] = memberTokens[a]
  BY <1>1 DEF Built, TypeOK
<1>5. late' \subseteq Token
  BY DEF Built, TypeOK
<1>6. Live(n)' /\ ~Live(n)
  BY <1>1, <1>2 DEF Live, Built
<1>7. \A a \in Slot : Live(a) => memory'[a] = memory[a] /\ Live(a)'
  BY <1>2, <1>6 DEF Live
<1>8. \A a \in Slot : Live(a)' => a = n \/ (Live(a) /\ memory'[a] = memory[a])
  BY <1>2 DEF Live
<1> QED
  BY <1>1, <1>2, <1>3, <1>4, <1>5, <1>6, <1>7, <1>8

\* The tables stay exact when a record is built.
LEMMA BuiltRegistry ==
  ASSUME TypeOK, Registry, NEW n, NEW t, NEW record, Built(n, t, record)
  PROVE  Registry'
<1>1. /\ n \in Slot /\ t \in Token /\ t[1] = n /\ memory'[n] = record /\ Live(n)' /\ ~Live(n)
      /\ record.auth.token = t /\ ~record.copied /\ late' = late
      /\ \A a \in Slot : Live(a)' => a = n \/ (Live(a) /\ memory'[a] = memory[a])
      /\ \A a \in Slot : Live(a) => memory'[a] = memory[a] /\ Live(a)'
      /\ members'[t] = n /\ \A u \in Token \ {t} : members'[u] = members[u]
      /\ memberTokens'[n] = t /\ \A a \in Slot \ {n} : memberTokens'[a] = memberTokens[a]
  <2>1. /\ n \in Slot /\ t \in Token /\ t[1] = n
        /\ record.auth.token = t /\ ~record.copied /\ late' = late
    BY DEF Built
  <2>2. members' = [members EXCEPT ![t] = n] /\ memberTokens' = [memberTokens EXCEPT ![n] = t]
    BY DEF Built
  <2>3. /\ members'[t] = n /\ \A u \in Token \ {t} : members'[u] = members[u]
        /\ memberTokens'[n] = t /\ \A a \in Slot \ {n} : memberTokens'[a] = memberTokens[a]
    BY <2>1, <2>2 DEF TypeOK
  <2>4. /\ memory'[n] = record /\ Live(n)' /\ ~Live(n)
        /\ \A a \in Slot : Live(a)' => a = n \/ (Live(a) /\ memory'[a] = memory[a])
        /\ \A a \in Slot : Live(a) => memory'[a] = memory[a] /\ Live(a)'
    BY BuiltMemory
  <2> QED
    BY <2>1, <2>3, <2>4
<1>2. members[t] = None /\ \A a \in Slot : Live(a) => Auth(a).token # t
  <2>1. t \notin Mentioned
    BY DEF Built
  <2> QED
    BY <1>1, <2>1 DEF Mentioned
<1>3. t \notin late
  BY <1>2 DEF Registry
<1>4. \A a \in Slot : Live(a) => Auth(a).token \in Token
  BY RecordFacts
<1>5. Auth(n)' = record.auth /\ \A a \in Slot : Live(a) => Auth(a)' = Auth(a)
  BY <1>1 DEF Auth
<1>6. \A a \in Slot : Live(a)' => (memory'[a].copied <=> (Auth(a)').token[1] # a)
  BY <1>1, <1>5 DEF Registry
<1>7. \A u \in Token : members'[u] \in {None, u[1]}
  BY <1>1 DEF Registry
<1>8. \A a \in Slot : Live(a)' /\ ~memory'[a].copied =>
        /\ members'[(Auth(a)').token] = a /\ (Auth(a)').token \notin late'
        /\ memberTokens'[a] = (Auth(a)').token
  BY <1>1, <1>2, <1>3, <1>4, <1>5 DEF Registry
<1>9. ASSUME NEW u \in Token \ late', members'[u] # None
      PROVE  Live(members[u])' /\ (Auth(members[u])').token = u
  <2>1. CASE u = t
    BY <1>1, <1>5, <2>1
  <2>2. CASE u # t
    <3>1. members'[u] = members[u] /\ members[u] \in Slot
      BY <1>1, <1>9, <2>2 DEF TypeOK
    <3>2. Live(members[u]) /\ Auth(members[u]).token = u
      BY <1>1, <1>9, <3>1 DEF Registry
    <3>3. memory'[members[u]] = memory[members[u]]
      BY <1>1, <3>1, <3>2
    <3> QED
      BY <3>1, <3>2, <3>3 DEF Live, Auth
  <2> QED
    BY <2>1, <2>2
<1>10. \A a \in Slot : memberTokens'[a] # None =>
         \/ memberTokens'[a] \in late'
         \/ Live(a)' /\ (Auth(a)').token = memberTokens'[a] /\ ~memory'[a].copied
  <2>1. Live(n)' /\ (Auth(n)').token = memberTokens'[n] /\ ~memory'[n].copied
    BY <1>1, <1>5
  <2>2. \A a \in Slot \ {n} : memberTokens'[a] # None =>
          \/ memberTokens'[a] \in late'
          \/ Live(a)' /\ (Auth(a)').token = memberTokens'[a] /\ ~memory'[a].copied
    BY <1>1, <1>5 DEF Registry
  <2> QED
    BY <2>1, <2>2
<1>11. \A u \in late' : members'[u] # None
  BY <1>1, <1>3 DEF Registry, TypeOK
<1>12. \A u, v \in late' : u = v
  BY <1>1 DEF Registry
<1> QED
  BY <1>6, <1>7, <1>8, <1>9, <1>10, <1>11, <1>12 DEF Registry

-----------------------------------------------------------------------------
(* What the parts of the actions keep. *)

Locals == [Names -> SUBSET Slot]

\* One invocation changes what it refers to.
LEMMA LocalChanges ==
  ASSUME TypeOK, NEW c \in Call, NEW L \in Locals, local' = [local EXCEPT ![c] = L]
  PROVE  /\ local' \in [Call -> Locals] /\ local'[c] = L
         /\ \A k \in Call \ {c} : local'[k] = local[k]
  BY DEF TypeOK, Locals

LEMMA NothingIsLocal == Nothing \in Locals /\ \A k \in Names : Nothing[k] = {}
  BY DEF Nothing, Locals

\* A record is built from live ones, and kept.
LEMMA BuiltKeeps ==
  ASSUME TypeOK, Held, Registry, NEW n, NEW t, NEW record, Built(n, t, record),
         \A b \in record.refs : Live(b),
         NEW c \in Call, NEW L \in Locals, local' = [local EXCEPT ![c] = L],
         \A k \in Names : \A a \in L[k] : a = n \/ Live(a)
  PROVE  /\ Held' /\ Registry'
         /\ memory' \in [Slot -> Record \union {None}]
         /\ members' \in [Token -> Slot \union {None}]
         /\ memberTokens' \in [Slot -> Token \union {None}]
         /\ late' \subseteq Token
         /\ local' \in [Call -> Locals]
<1>1. /\ n \in Slot /\ memory'[n] = record /\ Live(n)' /\ record \in Record
      /\ \A a \in Slot : Live(a) => memory'[a] = memory[a] /\ Live(a)'
      /\ \A a \in Slot : Live(a)' => a = n \/ (Live(a) /\ memory'[a] = memory[a])
  BY BuiltMemory DEF Built
<1>2. /\ local' \in [Call -> Locals] /\ local'[c] = L
      /\ \A k \in Call \ {c} : local'[k] = local[k]
  BY LocalChanges
<1>3. ASSUME NEW k \in Call, NEW i \in Names, NEW a \in local'[k][i]
      PROVE  Live(a)'
  <2>1. a \in Slot
    BY <1>2 DEF Locals
  <2>2. a = n \/ Live(a)
    BY <1>2 DEF Held
  <2> QED
    BY <1>1, <2>1, <2>2
<1>4. ASSUME NEW a \in Slot, Live(a)', NEW b \in memory'[a].refs
      PROVE  Live(b)'
  <2>1. b \in Slot /\ Live(b)
    <3>1. CASE a = n
      BY <1>1, <3>1 DEF Record
    <3>2. CASE a # n
      BY <1>1, <1>4, <3>2, RecordFacts DEF Held, Refs
    <3> QED
      BY <3>1, <3>2
  <2> QED
    BY <1>1, <2>1
<1>5. Held'
  BY <1>3, <1>4 DEF Held, Refs
<1>6. Registry'
  BY BuiltRegistry
<1> QED
  BY <1>2, <1>5, <1>6, BuiltMemory

\* A record is issued for live ones, and kept.
LEMMA IssueKeeps ==
  ASSUME TypeOK, Held, Registry, NEW c \in Call, NEW about \in SUBSET Fact,
         NEW refs \in SUBSET Slot, \A a \in refs : Live(a), NEW parents \in SUBSET Token,
         NEW stage, NEW previous, Issue(c, about, refs, stage, previous, parents),
         NEW L \in Locals, local' = [local EXCEPT ![c] = L],
         \A k \in Names : \A a \in L[k] : a = NewAddress \/ Live(a)
  PROVE  /\ Held' /\ Registry'
         /\ memory' \in [Slot -> Record \union {None}]
         /\ members' \in [Token -> Slot \union {None}]
         /\ memberTokens' \in [Slot -> Token \union {None}]
         /\ late' \subseteq Token
         /\ local' \in [Call -> Locals]
<1>1. PICK n, t : n = NewAddress /\ Built(n, t, NewRecord(c, about, refs, stage, previous, parents, t))
  BY IssueBuilds
<1>2. PICK record : record = NewRecord(c, about, refs, stage, previous, parents, t)
  OBVIOUS
<1>3. Built(n, t, record)
  BY <1>1, <1>2
<1>4. record.refs = refs
  <2>1. t \in Token /\ <<previous, stage>> \in Transitions
    BY <1>3 DEF Built, Issue
  <2> QED
    BY <1>2, <2>1, NewRecordFacts
<1> QED
  BY <1>1, <1>3, <1>4, BuiltKeeps

\* The next fact, or the next phase.
LEMMA AdvanceKeeps ==
  ASSUME TypeOK, Taking, NEW c \in Call, NEW next \in Running \union Ended, Advance(c, next)
  PROVE  /\ todo' \in [Call -> SUBSET Fact] /\ phase' \in [Call -> Running \union Ended] /\ Taking'
         /\ \A k \in Call \ {c} : todo'[k] = todo[k] /\ phase'[k] = phase[k]
         /\ todo'[c] = IF todo[c] = {Turn(c)} THEN Facts[c] ELSE todo[c] \ {Turn(c)}
         /\ phase'[c] = IF todo[c] = {Turn(c)} THEN next ELSE phase[c]
<1> DEFINE rest == IF todo[c] = {Turn(c)} THEN Facts[c] ELSE todo[c] \ {Turn(c)}
           after == IF todo[c] = {Turn(c)} THEN next ELSE phase[c]
<1>1. todo' = [todo EXCEPT ![c] = rest] /\ phase' = [phase EXCEPT ![c] = after]
  BY DEF Advance
<1>2. rest # {} /\ rest \subseteq Facts[c] /\ rest \subseteq Fact
  BY TurnIsAFact, FactsOfCall DEF Taking
<1>3. after \in Running \union Ended
  BY DEF TypeOK
<1> HIDE DEF rest, after
<1>4. /\ todo' \in [Call -> SUBSET Fact] /\ phase' \in [Call -> Running \union Ended]
      /\ \A k \in Call \ {c} : todo'[k] = todo[k] /\ phase'[k] = phase[k]
      /\ todo'[c] = rest /\ phase'[c] = after
  BY <1>1, <1>2, <1>3 DEF TypeOK
<1>5. Taking'
  BY <1>2, <1>4 DEF Taking
<1> QED
  BY <1>4, <1>5 DEF rest, after

-----------------------------------------------------------------------------
(* Each action keeps the invariant. *)

\* What an invocation refers to is alive, and of the types of addresses.
LEMMA LocalFacts ==
  ASSUME TypeOK, Held, NEW c \in Call
  PROVE  /\ local[c] \in Locals
         /\ \A k \in Names : local[c][k] \in SUBSET Slot /\ \A a \in local[c][k] : Live(a)
  BY DEF TypeOK, Held, Locals

\* Keep, as a change of what one invocation refers to.
LEMMA KeepIsLocal ==
  ASSUME TypeOK, Held, NEW c \in Call, NEW name \in Names, Keep(c, name, NewAddress),
         NewAddress \in Slot
  PROVE  \E L \in Locals :
           /\ local' = [local EXCEPT ![c] = L]
           /\ L[name] = local[c][name] \union {NewAddress}
           /\ \A k \in Names \ {name} : L[k] = local[c][k]
           /\ \A k \in Names : \A a \in L[k] : a = NewAddress \/ Live(a)
<1> DEFINE L == [local[c] EXCEPT ![name] = local[c][name] \union {NewAddress}]
<1>1. local[c] \in Locals /\ \A k \in Names : \A a \in local[c][k] : Live(a)
  BY LocalFacts
<1>2. /\ L \in Locals /\ L[name] = local[c][name] \union {NewAddress}
      /\ \A k \in Names \ {name} : L[k] = local[c][k]
  BY <1>1 DEF Locals
<1>3. local' = [local EXCEPT ![c] = L]
  BY DEF Keep
<1> HIDE DEF L
<1>4. \A k \in Names : \A a \in L[k] : a = NewAddress \/ Live(a)
  BY <1>1, <1>2
<1> QED
  BY <1>2, <1>3, <1>4

\* An action that issues a record and keeps it.
LEMMA IssueAndKeep ==
  ASSUME TypeOK, Held, Registry, NEW c \in Call, NEW about \in SUBSET Fact,
         NEW refs \in SUBSET Slot, \A a \in refs : Live(a), NEW parents \in SUBSET Token,
         NEW stage, NEW previous, Issue(c, about, refs, stage, previous, parents),
         NEW name \in Names, Keep(c, name, NewAddress)
  PROVE  /\ Held' /\ Registry'
         /\ memory' \in [Slot -> Record \union {None}]
         /\ members' \in [Token -> Slot \union {None}]
         /\ memberTokens' \in [Slot -> Token \union {None}]
         /\ late' \subseteq Token
         /\ local' \in [Call -> Locals]
<1>1. NewAddress \in Slot
  BY RoomIsFree DEF Issue
<1>2. PICK L \in Locals :
        /\ local' = [local EXCEPT ![c] = L]
        /\ \A k \in Names : \A a \in L[k] : a = NewAddress \/ Live(a)
  BY <1>1, KeepIsLocal
<1> QED
  BY <1>2, IssueKeeps

\* The two halves of the invariant: of the records, and of the phases.
Recorded ==
  /\ Held /\ Registry
  /\ memory \in [Slot -> Record \union {None}]
  /\ members \in [Token -> Slot \union {None}]
  /\ memberTokens \in [Slot -> Token \union {None}]
  /\ late \subseteq Token
  /\ local \in [Call -> Locals]

Scheduled ==
  /\ todo \in [Call -> SUBSET Fact] /\ phase \in [Call -> Running \union Ended] /\ Taking

LEMMA Halves ==
  /\ IInv <=> Recorded /\ Scheduled
  /\ IInv' <=> Recorded' /\ Scheduled'
  BY DEF IInv, TypeOK, Recorded, Scheduled, Locals

\* An action that leaves the records as they are, and refers to fewer.
LEMMA LettingGoKeeps ==
  ASSUME Recorded, NEW c \in Call, NEW L \in Locals, local' = [local EXCEPT ![c] = L],
         \A k \in Names : \A a \in L[k] : Live(a),
         UNCHANGED <<memory, tables>>
  PROVE  Recorded'
<1>1. UNCHANGED <<memory, members, memberTokens, late>>
  BY DEF tables
<1>2. /\ local' \in [Call -> Locals] /\ local'[c] = L
      /\ \A k \in Call \ {c} : local'[k] = local[k]
  BY DEF Recorded
<1>3. \A k \in Call, i \in Names : \A a \in local'[k][i] : Live(a)'
  BY <1>1, <1>2 DEF Recorded, Held, Live
<1>4. Held'
  BY <1>1, <1>3 DEF Recorded, Held, Live, Refs
<1>5. Registry'
  BY <1>1 DEF Recorded, Registry, Live, Auth
<1> QED
  BY <1>1, <1>2, <1>4, <1>5 DEF Recorded

\* An invocation lets go of all it referred to.
LEMMA FailKeeps ==
  ASSUME IInv, NEW c \in Call, NEW end \in Ended, Fail(c, end)
  PROVE  IInv'
<1>1. Recorded /\ Scheduled
  BY Halves
<1>2. Recorded'
  <2>1. local' = [local EXCEPT ![c] = Nothing] /\ UNCHANGED <<memory, tables>>
    BY DEF Fail
  <2> QED
    BY <1>1, <2>1, NothingIsLocal, LettingGoKeeps
<1>3. Scheduled'
  BY <1>1 DEF Fail, Scheduled, Taking
<1> QED
  BY <1>2, <1>3, Halves

\* An action that only changes the phase, or begins with all facts.
LEMMA PhaseKeeps ==
  ASSUME IInv, NEW c \in Call, NEW next \in Running, phase' = [phase EXCEPT ![c] = next],
         todo' = todo \/ todo' = [todo EXCEPT ![c] = Facts[c]],
         UNCHANGED <<memory, tables, local>>
  PROVE  IInv'
<1>1. Recorded /\ Scheduled
  BY Halves
<1>2. Recorded'
  BY <1>1 DEF Recorded, Held, Registry, Live, Refs, Auth, tables
<1>3. todo' \in [Call -> SUBSET Fact] /\ \A k \in Call : todo'[k] = todo[k] \/ todo'[k] = Facts[k]
  BY <1>1, FactsOfCall DEF Scheduled
<1>4. Taking'
  BY <1>1, <1>3, FactsOfCall DEF Scheduled, Taking
<1>5. phase' \in [Call -> Running \union Ended]
  BY <1>1 DEF Scheduled
<1> QED
  BY <1>2, <1>3, <1>4, <1>5, Halves DEF Scheduled

\* An action that is through with one fact.
LEMMA AdvanceSchedules ==
  ASSUME IInv, NEW c \in Call, NEW next \in Running \union Ended, Advance(c, next)
  PROVE  Scheduled'
<1>1. TypeOK /\ Taking
  BY DEF IInv
<1> QED
  BY <1>1, AdvanceKeeps DEF Scheduled

\* An action that builds a record, keeps it under a name, and refers to all else
\* as before.
LEMMA KeepingKeeps ==
  ASSUME IInv, NEW c \in Call, NEW about \in SUBSET Fact,
         NEW refs \in SUBSET Slot, \A a \in refs : Live(a), NEW parents \in SUBSET Token,
         NEW stage, NEW previous, Issue(c, about, refs, stage, previous, parents),
         NEW name \in Names, Keep(c, name, NewAddress)
  PROVE  Recorded'
<1>1. TypeOK /\ Held /\ Registry
  BY DEF IInv
<1> QED
  BY <1>1, IssueAndKeep DEF Recorded

\* An action that builds a record of one fact, from one live record, and is through
\* with the fact.
LEMMA StepKeeps ==
  ASSUME IInv, NEW c \in Call, NEW f \in Fact, NEW g \in Slot, Live(g), NEW refs \in SUBSET {g},
         NEW parents, parents = {} \/ parents = Tokens({g}),
         NEW stage, NEW previous, Issue(c, {f}, refs, stage, previous, parents),
         NEW name \in Names, Keep(c, name, NewAddress),
         NEW next \in Running \union Ended, Advance(c, next)
  PROVE  IInv'
<1>1. TypeOK
  BY DEF IInv
<1>2. Tokens({g}) \in SUBSET Token
  BY <1>1, TokensAreTokens
<1>3. parents \in SUBSET Token
  BY <1>2
<1>4. Recorded'
  BY <1>3, KeepingKeeps
<1>5. Scheduled'
  BY AdvanceSchedules
<1> QED
  BY <1>4, <1>5, Halves

LEMMA GroupKeeps ==
  ASSUME IInv, NEW c \in Call, Group(c)
  PROVE  IInv'
<1>1. PICK f \in Fact : f = Turn(c)
  BY TurnIsAFact DEF IInv
<1>2. Issue(c, {f}, {}, "GROUPED", "none", {})
  BY <1>1 DEF Group, Issue
<1>3. Recorded'
  BY <1>2, KeepingKeeps DEF Group, Names
<1>4. Scheduled'
  BY AdvanceSchedules DEF Group, Running
<1> QED
  BY <1>3, <1>4, Halves

\* What an invocation has of the fact it takes is alive.
LEMMA NowIsLive ==
  ASSUME IInv, NEW c \in Call, NEW name \in Names, NEW a \in local[c][name]
  PROVE  a \in Slot /\ Live(a)
  BY LocalFacts DEF IInv

LEMMA ClassifyKeeps ==
  ASSUME IInv, NEW c \in Call, Classify(c)
  PROVE  IInv'
<1>1. PICK f \in Fact : f = Turn(c)
  BY TurnIsAFact DEF IInv
<1>2. PICK g, P :
        /\ g \in local[c]["groups"]
        /\ P = Tokens({g}) /\ Issue(c, {f}, {g}, "CLASSIFIED", "GROUPED", P)
  BY <1>1 DEF Classify, Issue, Now
<1>3. g \in Slot /\ Live(g)
  BY <1>2, NowIsLive DEF Names
<1>4. Keep(c, "classified", NewAddress) /\ Advance(c, "resolve")
  BY DEF Classify
<1> QED
  BY <1>2, <1>3, <1>4, StepKeeps DEF Names, Running

LEMMA BuildBaseKeeps ==
  ASSUME IInv, NEW c \in Call, BuildBase(c)
  PROVE  IInv'
<1>1. PICK f \in Fact : f = Turn(c)
  BY TurnIsAFact DEF IInv
<1>2. PICK d, P, s :
        /\ d \in local[c]["decisions"]
        /\ P = Tokens({d}) /\ s = Auth(d).stage /\ Issue(c, {f}, {d}, "BASE_FACT", s, P)
  BY <1>1 DEF BuildBase, Issue, Now
<1>3. d \in Slot /\ Live(d)
  BY <1>2, NowIsLive DEF Names
<1>4. Keep(c, "bases", NewAddress) /\ Advance(c, "relate")
  BY DEF BuildBase
<1> QED
  BY <1>2, <1>3, <1>4, StepKeeps DEF Names, Running

LEMMA MaterializeKeeps ==
  ASSUME IInv, NEW c \in Call, Materialize(c)
  PROVE  IInv'
<1>1. PICK f \in Fact : f = Turn(c)
  BY TurnIsAFact DEF IInv
<1>2. PICK b, P :
        /\ b \in local[c]["bases"]
        /\ P = Tokens({b}) /\ Issue(c, {f}, {b}, "MATERIALIZED_FACT", "BASE_FACT", P)
  BY <1>1 DEF Materialize, Issue, Now
<1>3. b \in Slot /\ Live(b)
  BY <1>2, NowIsLive DEF Names
<1>4. Keep(c, "facts", NewAddress) /\ Advance(c, "graph")
  BY DEF Materialize
<1> QED
  BY <1>2, <1>3, <1>4, StepKeeps DEF Names, Running

\* The phase and the facts are as they were.
LEMMA UnscheduledKeeps ==
  ASSUME IInv, UNCHANGED <<phase, todo>>
  PROVE  Scheduled'
  BY DEF IInv, TypeOK, Scheduled, Taking

LEMMA RevalidatedIsLive ==
  ASSUME IInv, NEW c \in Call, NEW d \in Revalidated(c)
  PROVE  d \in Slot /\ Live(d)
<1>1. \E name \in Names : d \in local[c][name]
  <2>1. CASE phase[c] = "resolve"
    BY <2>1 DEF Revalidated, Now, Names
  <2>2. CASE phase[c] = "coordinate"
    BY <2>2 DEF Revalidated, Now, Names
  <2>3. CASE phase[c] \in {"base", "check", "published"}
    BY <2>3 DEF Revalidated, Names
  <2> QED
    BY <2>1, <2>2, <2>3 DEF Revalidated
<1> QED
  BY <1>1, NowIsLive

LEMMA RebuildGroupKeeps ==
  ASSUME IInv, NEW c \in Call, RebuildGroup(c)
  PROVE  IInv'
<1>1. PICK d, F :
        /\ d \in Revalidated(c)
        /\ F = memory[d].about /\ Issue(c, F, {}, "GROUPED", "none", {})
  BY DEF RebuildGroup, Issue
<1>2. d \in Slot /\ Live(d)
  BY <1>1, RevalidatedIsLive
<1>3. F \in SUBSET Fact
  BY <1>1, <1>2, RecordFacts DEF IInv
<1>4. Recorded'
  BY <1>1, <1>3, KeepingKeeps DEF RebuildGroup, Names
<1>5. Scheduled'
  BY UnscheduledKeeps DEF RebuildGroup
<1> QED
  BY <1>4, <1>5, Halves

LEMMA RelateKeeps ==
  ASSUME IInv, NEW c \in Call, Relate(c)
  PROVE  IInv'
<1>1. PICK f, g, S, P :
        /\ f \in Facts[c] /\ g \in Facts[c]
        /\ S = {b \in local[c]["bases"] : memory[b].about \subseteq {f, g}} /\ P = Tokens(S)
        /\ Issue(c, {f, g}, {}, "MATERIALIZED_RELATION", "BASE_FACT", P)
  BY DEF Relate, Issue
<1>2. {f, g} \in SUBSET Fact
  BY <1>1, FactsOfCall
<1>3. S \in SUBSET Slot /\ \A b \in S : Live(b)
  BY <1>1, NowIsLive DEF Names
<1>4. P \in SUBSET Token
  BY <1>1, <1>3, TokensAreTokens DEF IInv
<1>5. Recorded'
  BY <1>1, <1>2, <1>4, KeepingKeeps DEF Relate, Names
<1>6. Scheduled'
  BY UnscheduledKeeps DEF Relate
<1> QED
  BY <1>5, <1>6, Halves

\* An action that builds a record and changes what the invocation refers to.
LEMMA IssuingKeeps ==
  ASSUME IInv, NEW c \in Call, NEW about \in SUBSET Fact,
         NEW refs \in SUBSET Slot, \A a \in refs : Live(a), NEW parents \in SUBSET Token,
         NEW stage, NEW previous, Issue(c, about, refs, stage, previous, parents),
         NEW L \in Locals, local' = [local EXCEPT ![c] = L],
         \A k \in Names : L[k] \subseteq {NewAddress} \union local[c][k]
  PROVE  Recorded'
<1>1. TypeOK /\ Held /\ Registry
  BY DEF IInv
<1>2. \A k \in Names : \A a \in L[k] : a = NewAddress \/ Live(a)
  BY <1>1, LocalFacts
<1> QED
  BY <1>1, <1>2, IssueKeeps DEF Recorded

LEMMA RebuildDecisionKeeps ==
  ASSUME IInv, NEW c \in Call, RebuildDecision(c)
  PROVE  IInv'
<1>1. PICK g, F, P :
        /\ g \in local[c]["rebuilt"]
        /\ F = memory[g].about /\ P = Tokens({g})
        /\ Issue(c, F, {g}, "CLASSIFIED", "GROUPED", P)
  BY DEF RebuildDecision, Issue, OfStage
<1>2. g \in Slot /\ Live(g)
  BY <1>1, NowIsLive DEF Names
<1>3. F \in SUBSET Fact /\ P \in SUBSET Token
  BY <1>1, <1>2, RecordFacts, TokensAreTokens DEF IInv
<1>4. PICK n \in Slot : n = NewAddress
  BY <1>1, RoomIsFree DEF Issue
<1> DEFINE L == [local[c] EXCEPT !["rebuilt"] = {n}]
<1>5. /\ L \in Locals /\ \A k \in Names : L[k] \subseteq {n} \union local[c][k]
  BY LocalFacts DEF IInv, Locals, Names
<1>6. local' = [local EXCEPT ![c] = L]
  BY <1>4 DEF RebuildDecision
<1> HIDE DEF L
<1>7. Recorded'
  BY <1>1, <1>2, <1>3, <1>4, <1>5, <1>6, IssuingKeeps
<1>8. Scheduled'
  BY UnscheduledKeeps DEF RebuildDecision
<1> QED
  BY <1>7, <1>8, Halves

LEMMA CoordinateKeeps ==
  ASSUME IInv, NEW c \in Call, Coordinate(c)
  PROVE  IInv'
<1>1. PICK f \in Fact : f = Turn(c)
  BY TurnIsAFact DEF IInv
<1>2. PICK p, R, P :
        /\ p \in local[c]["rebuilt"]
        /\ R = Refs(p) /\ P = Tokens({p})
        /\ Issue(c, {f}, R, "COORDINATED", "CLASSIFIED", P)
  BY <1>1 DEF Coordinate, Issue, Rebuilt, OfStage
<1>3. p \in Slot /\ Live(p)
  BY <1>2, NowIsLive DEF Names
<1>4. R \in SUBSET Slot /\ (\A a \in R : Live(a)) /\ P \in SUBSET Token
  BY <1>2, <1>3, RecordFacts, TokensAreTokens DEF IInv, Held
<1>5. PICK n \in Slot : n = NewAddress
  BY <1>2, RoomIsFree DEF Issue
<1>6. PICK C \in {{}, local[c]["canonical"]} :
        C = IF todo[c] = {Turn(c)} THEN {} ELSE local[c]["canonical"]
  OBVIOUS
<1> DEFINE L == [local[c] EXCEPT !["decisions"] = local[c]["decisions"] \union {n},
                                 !["rebuilt"] = {}, !["canonical"] = C]
<1>7. /\ L \in Locals /\ \A k \in Names : L[k] \subseteq {n} \union local[c][k]
  BY LocalFacts DEF IInv, Locals, Names
<1>8. local' = [local EXCEPT ![c] = L]
  BY <1>5, <1>6 DEF Coordinate, Decided
<1> HIDE DEF L
<1>9. Recorded'
  BY <1>1, <1>2, <1>4, <1>5, <1>7, <1>8, IssuingKeeps
<1>10. Scheduled'
  BY AdvanceSchedules DEF Coordinate, Running
<1> QED
  BY <1>9, <1>10, Halves

LEMMA BuildGraphKeeps ==
  ASSUME IInv, NEW c \in Call, BuildGraph(c)
  PROVE  IInv'
<1>1. PICK S, s, P :
        /\ S = local[c]["facts"] \union local[c]["relations"] /\ P = Tokens(S)
        /\ s = LastStage(local[c]["relations"])
        /\ Issue(c, Facts[c], S, "MATERIALIZED_GRAPH", s, P)
  BY DEF BuildGraph, Issue
<1>2. S \in SUBSET Slot /\ \A a \in S : Live(a)
  BY <1>1, NowIsLive DEF Names
<1>3. P \in SUBSET Token /\ Facts[c] \in SUBSET Fact
  BY <1>1, <1>2, TokensAreTokens, FactsOfCall DEF IInv
<1>4. PICK n \in Slot : n = NewAddress
  BY <1>1, RoomIsFree DEF Issue
<1> DEFINE L == [local[c] EXCEPT !["graph"] = {n}, !["bases"] = {}, !["relations"] = {},
                                 !["facts"] = {}]
<1>5. /\ L \in Locals /\ \A k \in Names : L[k] \subseteq {n} \union local[c][k]
  BY LocalFacts DEF IInv, Locals, Names
<1>6. local' = [local EXCEPT ![c] = L]
  BY <1>4 DEF BuildGraph
<1> HIDE DEF L
<1>7. Recorded'
  BY <1>1, <1>2, <1>3, <1>4, <1>5, <1>6, IssuingKeeps
<1>8. Scheduled'
  BY DEF BuildGraph, IInv, TypeOK, Scheduled, Taking, Running
<1> QED
  BY <1>7, <1>8, Halves

\* A copy is at an address of its own, and its token says another.
LEMMA CopyGroupKeeps ==
  ASSUME IInv, NEW c \in Call, CopyGroup(c)
  PROVE  IInv'
<1>1. TypeOK /\ Held /\ Registry
  BY DEF IInv
<1>2. PICK n \in Slot : n = NewAddress /\ memory[n] = None
  BY RoomIsFree DEF CopyGroup
<1>3. PICK g \in local[c]["groups"] :
        /\ ~memory[g].copied
        /\ memory' = [memory EXCEPT ![n] = [memory[g] EXCEPT !.copied = TRUE]]
        /\ local' = [local EXCEPT ![c].groups = (@ \ {g}) \union {n}]
  BY <1>2 DEF CopyGroup, Now
<1>4. g \in Slot /\ Live(g) /\ memory[g] \in Record
  BY NowIsLive, <1>1, RecordFacts DEF Names
<1>5. PICK copy \in Record :
        /\ copy = [memory[g] EXCEPT !.copied = TRUE]
        /\ copy.copied /\ copy.auth = memory[g].auth /\ copy.refs = memory[g].refs
  <2>1. PICK r \in Record : r = memory[g]
    BY <1>4
  <2> DEFINE copy == [r EXCEPT !.copied = TRUE]
  <2>2. copy \in Record
    BY DEF Record
  <2>3. copy.copied = TRUE
    BY DEF Record
  <2>4. copy.auth = r.auth /\ copy.refs = r.refs
    BY DEF Record
  <2> HIDE DEF copy
  <2>5. copy = [memory[g] EXCEPT !.copied = TRUE]
    BY <2>1 DEF copy
  <2> QED
    BY <2>1, <2>2, <2>3, <2>4, <2>5
<1>6. /\ memory' \in [Slot -> Record \union {None}] /\ memory'[n] = copy
      /\ \A a \in Slot \ {n} : memory'[a] = memory[a]
  BY <1>1, <1>3, <1>5 DEF TypeOK
<1>7. UNCHANGED <<members, memberTokens, late, phase, todo>>
  BY DEF CopyGroup, tables
<1>8. ~Live(n) /\ Live(n)' /\ \A a \in Slot \ {n} : Live(a)' <=> Live(a)
  BY <1>2, <1>5, <1>6, RecordAssumption DEF Live
<1>9. \A a \in Slot : Live(a) => a # n /\ memory'[a] = memory[a] /\ Live(a)'
  BY <1>6, <1>8
<1> DEFINE L == [local[c] EXCEPT !["groups"] = (local[c]["groups"] \ {g}) \union {n}]
<1>10. L \in Locals /\ \A k \in Names : L[k] \subseteq {n} \union local[c][k]
  BY <1>1, LocalFacts DEF Locals, Names
<1>11. local' = [local EXCEPT ![c] = L]
  BY <1>3
<1> HIDE DEF L
<1>12. /\ local' \in [Call -> Locals] /\ local'[c] = L
       /\ \A k \in Call \ {c} : local'[k] = local[k]
  BY <1>1, <1>10, <1>11, LocalChanges
<1>13. Held'
  <2>1. ASSUME NEW k \in Call, NEW i \in Names, NEW a \in local'[k][i]
        PROVE  Live(a)'
    <3>1. a \in Slot
      BY <1>12 DEF Locals
    <3>2. a = n \/ Live(a)
      BY <1>1, <1>10, <1>12 DEF Held
    <3> QED
      BY <1>8, <1>9, <3>1, <3>2
  <2>2. ASSUME NEW a \in Slot, Live(a)', NEW b \in memory'[a].refs
        PROVE  Live(b)'
    <3>1. b \in Slot /\ Live(b)
      <4>1. CASE a = n
        BY <1>1, <1>4, <1>5, <1>6, <2>2, <4>1, RecordFacts DEF Held, Refs
      <4>2. CASE a # n
        <5>1. Live(a) /\ memory'[a] = memory[a]
          <6>1. a \in Slot \ {n}
            BY <2>2, <4>2
          <6> QED
            BY <1>6, <1>8, <2>2, <6>1
        <5>2. b \in Refs(a)
          BY <2>2, <5>1 DEF Refs
        <5> QED
          BY <1>1, <5>1, <5>2, RecordFacts DEF Held, Refs
      <4> QED
        BY <4>1, <4>2
    <3> QED
      BY <1>9, <3>1
  <2> QED
    BY <2>1, <2>2 DEF Held, Refs
<1>14. Registry'
  <2>1. Auth(n)' = Auth(g) /\ \A a \in Slot : Live(a) => Auth(a)' = Auth(a)
    BY <1>5, <1>6, <1>9 DEF Auth
  <2>2. Auth(g).token[1] = g /\ g # n
    BY <1>1, <1>3, <1>4, <1>8 DEF Registry
  <2>3. ASSUME NEW a \in Slot, Live(a)'
        PROVE  memory'[a].copied <=> (Auth(a)').token[1] # a
    <3>1. CASE a = n
      <4>1. memory'[a].copied
        BY <1>5, <1>6, <3>1
      <4>2. (Auth(a)').token[1] # a
        BY <2>1, <2>2, <3>1
      <4> QED
        BY <4>1, <4>2
    <3>2. CASE a # n
      BY <1>1, <1>6, <1>8, <2>1, <2>3, <3>2 DEF Registry
    <3> QED
      BY <3>1, <3>2
  <2>4. ASSUME NEW a \in Slot, Live(a)', ~memory'[a].copied
        PROVE  /\ members'[(Auth(a)').token] = a /\ (Auth(a)').token \notin late'
               /\ memberTokens'[a] = (Auth(a)').token
    <3>1. a # n
      BY <1>5, <1>6, <2>4
    <3>2. Live(a) /\ ~memory[a].copied /\ Auth(a)' = Auth(a)
      BY <1>6, <1>8, <2>1, <2>4, <3>1
    <3> QED
      BY <1>1, <1>7, <3>2 DEF Registry
  <2>5. ASSUME NEW t \in Token \ late', members'[t] # None
        PROVE  Live(members[t])' /\ (Auth(members[t])').token = t
    <3>1. members[t] \in Slot /\ Live(members[t]) /\ Auth(members[t]).token = t
      BY <1>1, <1>7, <2>5 DEF Registry, TypeOK
    <3> QED
      BY <1>7, <1>9, <3>1 DEF Auth, Live
  <2>6. \A a \in Slot : memberTokens'[a] # None =>
          \/ memberTokens'[a] \in late'
          \/ Live(a)' /\ (Auth(a)').token = memberTokens'[a] /\ ~memory'[a].copied
    BY <1>1, <1>7, <1>9, <2>1 DEF Registry
  <2>7. /\ \A t \in Token : members'[t] \in {None, t[1]}
        /\ \A t \in late' : members'[t] # None
        /\ \A t, u \in late' : t = u
    BY <1>1, <1>7 DEF Registry
  <2> QED
    BY <2>3, <2>4, <2>5, <2>6, <2>7 DEF Registry
<1>15. Recorded'
  BY <1>1, <1>6, <1>7, <1>12, <1>13, <1>14 DEF Recorded, TypeOK
<1>16. Scheduled'
  BY <1>7, UnscheduledKeeps
<1> QED
  BY <1>15, <1>16, Halves

LEMMA NotReferred ==
  ASSUME NEW g, g \notin Referred
  PROVE  /\ \A c \in Call, n \in Names : g \notin local[c][n]
         /\ \A a \in Slot : Live(a) => g \notin Refs(a)
<1>1. ASSUME NEW c \in Call, NEW n \in Names, g \in local[c][n]
      PROVE  FALSE
  <2>1. g \in UNION {local[c][m] : m \in Names}
    BY <1>1
  <2>2. g \in UNION {UNION {local[k][m] : m \in Names} : k \in Call}
    BY <2>1
  <2> QED
    BY <2>2 DEF Referred
<1>2. ASSUME NEW a \in Slot, Live(a), g \in Refs(a)
      PROVE  FALSE
  <2>1. a \in {b \in Slot : Live(b)}
    BY <1>2
  <2>2. g \in UNION {Refs(b) : b \in {x \in Slot : Live(x)}}
    BY <1>2, <2>1
  <2> QED
    BY <2>2 DEF Referred
<1> QED
  BY <1>1, <1>2

\* What nothing refers to can go: nothing else is let down by it.
LEMMA CollectKeeps ==
  ASSUME IInv, Collect
  PROVE  IInv'
<1>1. TypeOK /\ Held /\ Registry
  BY DEF IInv
<1>2. PICK g \in Unreferred :
        /\ memory' = [memory EXCEPT ![g] = None]
        /\ late' = IF memory[g].copied THEN {} ELSE {Auth(g).token}
  BY DEF Collect
<1>3. g \in Slot /\ Live(g) /\ g \notin Referred
  BY DEF Unreferred
<1>4. late = {} /\ UNCHANGED <<members, memberTokens, phase, todo, local>>
  BY DEF Collect
<1>5. /\ memory' \in [Slot -> Record \union {None}] /\ memory'[g] = None
      /\ \A a \in Slot \ {g} : memory'[a] = memory[a]
  BY <1>1, <1>2, <1>3 DEF TypeOK
<1>6. ~Live(g)' /\ \A a \in Slot \ {g} : (Live(a)' <=> Live(a)) /\ Auth(a)' = Auth(a)
  BY <1>5 DEF Live, Auth
<1>7. Auth(g).token \in Token /\ late' \subseteq Token
  BY <1>1, <1>2, <1>3, RecordFacts
<1>8. Held'
  <2>1. \A c \in Call, n \in Names : \A a \in local[c][n] : a \in Slot /\ Live(a) /\ a # g
    BY <1>3, NowIsLive, NotReferred
  <2>2. \A a \in Slot : Live(a) => \A b \in Refs(a) : b \in Slot /\ Live(b) /\ b # g
    BY <1>1, <1>3, RecordFacts, NotReferred DEF Held
  <2>3. \A c \in Call, n \in Names : \A a \in local'[c][n] : Live(a)'
    BY <1>4, <1>6, <2>1
  <2>4. \A a \in Slot : Live(a)' => \A b \in memory'[a].refs : Live(b)'
    BY <1>5, <1>6, <2>2 DEF Refs
  <2> QED
    BY <2>3, <2>4 DEF Held, Refs
<1>9. Registry'
  <2>1. \A a \in Slot : Live(a)' => a # g /\ Live(a) /\ memory'[a] = memory[a] /\ Auth(a)' = Auth(a)
    BY <1>5, <1>6
  <2>2. \A a \in Slot : Live(a)' => (memory'[a].copied <=> (Auth(a)').token[1] # a)
    BY <1>1, <2>1 DEF Registry
  <2>3. ~memory[g].copied => members[Auth(g).token] = g /\ late' = {Auth(g).token}
    BY <1>1, <1>2, <1>3 DEF Registry
  <2>4. ASSUME NEW a \in Slot, Live(a)', ~memory'[a].copied
        PROVE  /\ members'[(Auth(a)').token] = a /\ (Auth(a)').token \notin late'
               /\ memberTokens'[a] = (Auth(a)').token
    <3>1. Live(a) /\ ~memory[a].copied /\ a # g /\ Auth(a)' = Auth(a)
      BY <2>1, <2>4
    <3>2. members[Auth(a).token] = a /\ memberTokens[a] = Auth(a).token
      BY <1>1, <3>1 DEF Registry
    <3>3. Auth(a).token # Auth(g).token \/ memory[g].copied
      BY <2>3, <3>1, <3>2
    <3>4. Auth(a).token \notin late'
      BY <1>2, <3>3
    <3> QED
      BY <1>4, <3>1, <3>2, <3>4
  <2>5. ASSUME NEW t \in Token \ late', members[t] # None
        PROVE  Live(members[t])' /\ (Auth(members[t])').token = t
    <3>1. members[t] \in Slot /\ Live(members[t]) /\ Auth(members[t]).token = t
          /\ members[t] = t[1]
      BY <1>1, <1>4, <2>5 DEF Registry, TypeOK
    <3>2. ~memory[members[t]].copied
      BY <1>1, <3>1 DEF Registry
    <3>3. members[t] # g
      BY <1>2, <2>5, <3>1, <3>2
    <3> QED
      BY <1>4, <1>5, <3>1, <3>3 DEF Live, Auth
  <2>6. ASSUME NEW a \in Slot, memberTokens[a] # None
        PROVE  \/ memberTokens[a] \in late'
               \/ Live(a)' /\ (Auth(a)').token = memberTokens[a] /\ ~memory'[a].copied
    <3>1. Live(a) /\ Auth(a).token = memberTokens[a] /\ ~memory[a].copied
      BY <1>1, <1>4, <2>6 DEF Registry
    <3> QED
      BY <1>2, <1>5, <1>6, <3>1
  <2>7. \A t \in late' : members'[t] # None
    BY <1>2, <1>3, <1>4, <2>3, NoneIsNoRecord
  <2>8. \A t, u \in late' : t = u
    BY <1>2
  <2> QED
    BY <1>1, <1>4, <2>2, <2>4, <2>5, <2>6, <2>7, <2>8 DEF Registry
<1>10. Recorded'
  BY <1>1, <1>4, <1>5, <1>7, <1>8, <1>9 DEF Recorded, TypeOK, Locals
<1>11. Scheduled'
  BY <1>4, UnscheduledKeeps
<1> QED
  BY <1>10, <1>11, Halves

\* The callback clears what is said of a record that is gone, and nothing else.
LEMMA DiscardKeeps ==
  ASSUME IInv, Discard
  PROVE  IInv'
<1>1. TypeOK /\ Held /\ Registry
  BY DEF IInv
<1>2. PICK t \in late :
        /\ members' = [members EXCEPT ![t] = None]
        /\ memberTokens' = [a \in Slot |-> IF memberTokens[a] = t THEN None ELSE memberTokens[a]]
  BY DEF Discard
<1>3. late' = {} /\ UNCHANGED <<memory, phase, todo, local>>
  BY DEF Discard
<1>4. t \in Token /\ late = {t}
  BY <1>1 DEF TypeOK, Registry
<1>5. /\ members' \in [Token -> Slot \union {None}] /\ members'[t] = None
      /\ \A u \in Token \ {t} : members'[u] = members[u]
      /\ memberTokens' \in [Slot -> Token \union {None}]
      /\ \A a \in Slot : memberTokens'[a] = IF memberTokens[a] = t THEN None ELSE memberTokens[a]
  BY <1>1, <1>2, <1>4 DEF TypeOK
<1>6. Held'
  BY <1>1, <1>3 DEF Held, Live, Refs
<1>7. Registry'
  <2>1. \A a \in Slot : (Live(a)' <=> Live(a)) /\ Auth(a)' = Auth(a)
    BY <1>3 DEF Live, Auth
  <2>2. \A a \in Slot : Live(a) => Auth(a).token \in Token
    BY <1>1, RecordFacts
  <2>3. \A a \in Slot : Live(a)' /\ ~memory'[a].copied =>
          /\ members'[(Auth(a)').token] = a /\ (Auth(a)').token \notin late'
          /\ memberTokens'[a] = (Auth(a)').token
    BY <1>1, <1>3, <1>4, <1>5, <2>1, <2>2 DEF Registry
  <2>4. \A u \in Token \ late' : members'[u] # None =>
          Live(members[u])' /\ (Auth(members[u])').token = u
    <3>1. ASSUME NEW u \in Token, u # t, members'[u] # None
          PROVE  Live(members[u])' /\ (Auth(members[u])').token = u
      BY <1>1, <1>3, <1>4, <1>5, <3>1 DEF Registry, Live, Auth
    <3> QED
      BY <1>3, <1>5, <3>1
  <2>5. \A a \in Slot : memberTokens'[a] # None =>
          Live(a)' /\ (Auth(a)').token = memberTokens'[a] /\ ~memory'[a].copied
    BY <1>1, <1>3, <1>4, <1>5, <2>1 DEF Registry
  <2>6. \A u \in Token : members'[u] \in {None, u[1]}
    BY <1>1, <1>5 DEF Registry
  <2>7. \A a \in Slot : Live(a)' => (memory'[a].copied <=> (Auth(a)').token[1] # a)
    BY <1>1, <1>3, <2>1 DEF Registry
  <2> QED
    BY <1>3, <2>3, <2>4, <2>5, <2>6, <2>7 DEF Registry
<1>8. Recorded'
  BY <1>1, <1>3, <1>5, <1>6, <1>7 DEF Recorded, TypeOK, Locals
<1>9. Scheduled'
  BY <1>3, UnscheduledKeeps
<1> QED
  BY <1>8, <1>9, Halves

LEMMA DropRebuiltKeeps ==
  ASSUME IInv, NEW c \in Call, DropRebuilt(c)
  PROVE  IInv'
<1> DEFINE L == [local[c] EXCEPT !["rebuilt"] = {}]
<1>1. L \in Locals /\ \A k \in Names : L[k] \subseteq local[c][k]
  BY LocalFacts DEF IInv, Locals, Names
<1>2. local' = [local EXCEPT ![c] = L] /\ UNCHANGED <<memory, tables>>
  BY DEF DropRebuilt
<1> HIDE DEF L
<1>3. \A k \in Names : \A a \in L[k] : Live(a)
  BY <1>1, NowIsLive
<1>4. Recorded'
  BY <1>1, <1>2, <1>3, Halves, LettingGoKeeps
<1>5. Scheduled'
  BY UnscheduledKeeps DEF DropRebuilt
<1> QED
  BY <1>4, <1>5, Halves

LEMMA ResolveKeeps ==
  ASSUME IInv, NEW c \in Call, Resolve(c)
  PROVE  IInv'
<1>1. PICK R \in SUBSET local[c]["rebuilt"] : R = Rebuilt(c)
  BY DEF Rebuilt, OfStage
<1> DEFINE L == [local[c] EXCEPT !["canonical"] = local[c]["canonical"] \union R, !["rebuilt"] = {}]
<1>2. L \in Locals /\ \A k \in Names : L[k] \subseteq local[c][k] \union local[c]["rebuilt"]
  BY LocalFacts DEF IInv, Locals, Names
<1>3. local' = [local EXCEPT ![c] = L] /\ UNCHANGED <<memory, tables>>
  BY <1>1 DEF Resolve
<1> HIDE DEF L
<1>4. \A k \in Names : \A a \in L[k] : Live(a)
  BY <1>2, NowIsLive DEF Names
<1>5. Recorded'
  BY <1>2, <1>3, <1>4, Halves, LettingGoKeeps
<1>6. Scheduled'
  BY AdvanceSchedules DEF Resolve, Running
<1> QED
  BY <1>5, <1>6, Halves

LEMMA RetainKeeps ==
  ASSUME IInv, NEW c \in Call, Retain(c)
  PROVE  IInv'
<1>1. PICK R \in SUBSET local[c]["canonical"] : R = Now(c, "canonical")
  BY DEF Now
<1>2. PICK C \in {{}, local[c]["canonical"]} :
        C = IF todo[c] = {Turn(c)} THEN {} ELSE local[c]["canonical"]
  OBVIOUS
<1> DEFINE L == [local[c] EXCEPT !["decisions"] = local[c]["decisions"] \union R,
                                 !["rebuilt"] = {}, !["canonical"] = C]
<1>3. L \in Locals /\ \A k \in Names : L[k] \subseteq local[c][k] \union local[c]["canonical"]
  BY LocalFacts DEF IInv, Locals, Names
<1>4. local' = [local EXCEPT ![c] = L] /\ UNCHANGED <<memory, tables>>
  BY <1>1, <1>2 DEF Retain, Decided
<1> HIDE DEF L
<1>5. \A k \in Names : \A a \in L[k] : Live(a)
  BY <1>3, NowIsLive DEF Names
<1>6. Recorded'
  BY <1>3, <1>4, <1>5, Halves, LettingGoKeeps
<1>7. Scheduled'
  BY AdvanceSchedules DEF Retain, Running
<1> QED
  BY <1>6, <1>7, Halves

LEMMA PublishKeeps ==
  ASSUME IInv, NEW c \in Call, Publish(c)
  PROVE  IInv'
<1> DEFINE L == [Nothing EXCEPT !["graph"] = local[c]["graph"], !["decisions"] = local[c]["decisions"]]
<1>1. L \in Locals /\ \A k \in Names : L[k] \subseteq local[c][k]
  BY LocalFacts, NothingIsLocal DEF IInv, Locals, Names
<1>2. local' = [local EXCEPT ![c] = L] /\ UNCHANGED <<memory, tables>>
  BY DEF Publish
<1> HIDE DEF L
<1>3. \A k \in Names : \A a \in L[k] : Live(a)
  BY <1>1, NowIsLive
<1>4. Recorded'
  BY <1>1, <1>2, <1>3, Halves, LettingGoKeeps
<1>5. Scheduled'
  BY DEF Publish, IInv, TypeOK, Scheduled, Taking, Ended
<1> QED
  BY <1>4, <1>5, Halves

LEMMA EndRelationsKeeps ==
  ASSUME IInv, NEW c \in Call, EndRelations(c)
  PROVE  IInv'
  BY PhaseKeeps DEF EndRelations, Running

LEMMA AgainKeeps ==
  ASSUME IInv, NEW c \in Call, Again(c)
  PROVE  IInv'
  BY PhaseKeeps DEF Again, Running

LEMMA EndingKeeps ==
  ASSUME IInv, NEW c \in Call, Refuse(c) \/ Abandon(c) \/ DropResult(c)
  PROVE  IInv'
  BY FailKeeps DEF Refuse, Abandon, DropResult, Ended

LEMMA InitHolds == Init => IInv
<1> SUFFICES ASSUME Init
             PROVE  IInv
  OBVIOUS
<1>1. \A a \in Slot : ~Live(a)
  BY DEF Init, Live
<1>2. Taking
  BY StageAssumption DEF Init, Taking
<1>3. Held
  BY <1>1, NothingIsLocal DEF Init, Held
<1>4. Registry
  BY <1>1 DEF Init, Registry
<1>5. todo \in [Call -> SUBSET Fact]
  BY StageAssumption, FactsOfCall DEF Init
<1>6. local \in [Call -> Locals]
  BY NothingIsLocal DEF Init
<1>7. TypeOK
  BY <1>5, <1>6 DEF Init, TypeOK, Running, Locals
<1> QED
  BY <1>2, <1>3, <1>4, <1>7 DEF IInv

LEMMA NextKeeps == IInv /\ [Next]_vars => IInv'
<1> SUFFICES ASSUME IInv, [Next]_vars
             PROVE  IInv'
  OBVIOUS
<1>1. ASSUME NEW c \in Call,
             \/ Group(c) \/ CopyGroup(c) \/ Classify(c) \/ RebuildGroup(c) \/ RebuildDecision(c)
             \/ DropRebuilt(c) \/ Resolve(c) \/ Retain(c) \/ Coordinate(c)
             \/ BuildBase(c) \/ Relate(c) \/ EndRelations(c) \/ Materialize(c) \/ BuildGraph(c)
             \/ Publish(c) \/ Refuse(c) \/ Abandon(c) \/ DropResult(c) \/ Again(c)
      PROVE  IInv'
  BY <1>1, GroupKeeps, CopyGroupKeeps, ClassifyKeeps, RebuildGroupKeeps, RebuildDecisionKeeps,
     DropRebuiltKeeps, ResolveKeeps, RetainKeeps, CoordinateKeeps, BuildBaseKeeps, RelateKeeps,
     EndRelationsKeeps, MaterializeKeeps, BuildGraphKeeps, PublishKeeps, EndingKeeps, AgainKeeps
<1>2. CASE UNCHANGED vars
  BY <1>2 DEF vars, tables, IInv, TypeOK, Held, Taking, Registry, Live, Auth, Refs
<1> QED
  BY <1>1, <1>2, CollectKeeps, DiscardKeeps DEF Next

-----------------------------------------------------------------------------
(* The theorems. *)

\* The invariant holds in every state.
THEOREM AlwaysIInv == Spec => []IInv
  BY InitHolds, NextKeeps, PTL DEF Spec

\* Each variable of the authority and of the invocations has its type, at every
\* step of the pipeline, of the collection and of the callbacks.
THEOREM AuthorityTypeCorrect == Spec => []TypeOK
<1>1. IInv => TypeOK
  BY DEF IInv
<1> QED
  BY <1>1, AlwaysIInv, PTL

\* What the tables answer is exact: every record that is alive and no copy is known
\* under its own token, a copy under none, and of what has died nothing is known
\* once its callback has run, whatever is built at its address meanwhile.
THEOREM AlwaysExact == Spec => []RegistryIsExact
<1>1. IInv => RegistryIsExact
  <2> SUFFICES ASSUME IInv
               PROVE  RegistryIsExact
    OBVIOUS
  <2>1. TypeOK /\ Registry
    BY DEF IInv
  <2>2. ASSUME NEW a \in Slot, Live(a)
        PROVE  (members[Auth(a).token] = a /\ Auth(a).token \notin late
                  /\ memberTokens[a] = Auth(a).token) <=> ~memory[a].copied
    <3>1. Auth(a).token \in Token /\ a # None
      BY <2>1, <2>2, RecordFacts, NoneIsNoRecord
    <3>2. members[Auth(a).token] = a => Auth(a).token[1] = a
      BY <2>1, <3>1 DEF Registry
    <3> QED
      BY <2>1, <2>2, <3>2 DEF Registry
  <2>3. ASSUME NEW t \in Token \ late, members[t] # None
        PROVE  Live(members[t]) /\ Auth(members[t]).token = t /\ ~memory[members[t]].copied
    <3>1. members[t] \in Slot /\ members[t] = t[1]
      BY <2>1, <2>3 DEF TypeOK, Registry
    <3>2. Live(members[t]) /\ Auth(members[t]).token = t
      BY <2>1, <2>3 DEF Registry
    <3> QED
      BY <2>1, <3>1, <3>2 DEF Registry
  <2> QED
    BY <2>1, <2>2, <2>3 DEF Registry, RegistryIsExact
<1> QED
  BY <1>1, AlwaysIInv, PTL

-----------------------------------------------------------------------------
(* A result stays valid. *)

\* In every step, what an invocation or a live record refers to stays as it is.
LEMMA BuildingLeaves ==
  ASSUME IInv, Room, NEW r, memory' = [memory EXCEPT ![NewAddress] = r]
  PROVE  \A a \in Slot : Live(a) => memory'[a] = memory[a]
<1>1. PICK n \in Slot : n = NewAddress /\ memory[n] = None
  BY RoomIsFree
<1>2. memory' = [memory EXCEPT ![n] = r]
  BY <1>1
<1> QED
  BY <1>1, <1>2 DEF IInv, TypeOK, Live

LEMMA StepsLeave ==
  ASSUME IInv, [Next]_vars
  PROVE  Collect \/ \A a \in Slot : Live(a) => memory'[a] = memory[a]
<1>1. ASSUME NEW c \in Call,
             \/ Group(c) \/ CopyGroup(c) \/ Classify(c) \/ RebuildGroup(c) \/ RebuildDecision(c)
             \/ Coordinate(c) \/ BuildBase(c) \/ Relate(c) \/ Materialize(c) \/ BuildGraph(c)
      PROVE  Room /\ \E r : memory' = [memory EXCEPT ![NewAddress] = r]
  <2>1. CASE Group(c)
    BY <2>1 DEF Group, Issue
  <2>2. CASE CopyGroup(c)
    BY <2>2 DEF CopyGroup
  <2>3. CASE Classify(c)
    BY <2>3 DEF Classify, Issue
  <2>4. CASE RebuildGroup(c)
    BY <2>4 DEF RebuildGroup, Issue
  <2>5. CASE RebuildDecision(c)
    BY <2>5 DEF RebuildDecision, Issue
  <2>6. CASE Coordinate(c)
    BY <2>6 DEF Coordinate, Issue
  <2>7. CASE BuildBase(c)
    BY <2>7 DEF BuildBase, Issue
  <2>8. CASE Relate(c)
    BY <2>8 DEF Relate, Issue
  <2>9. CASE Materialize(c)
    BY <2>9 DEF Materialize, Issue
  <2>10. CASE BuildGraph(c)
    BY <2>10 DEF BuildGraph, Issue
  <2> QED
    BY <1>1, <2>1, <2>2, <2>3, <2>4, <2>5, <2>6, <2>7, <2>8, <2>9, <2>10
<1>2. ASSUME NEW c \in Call,
             \/ DropRebuilt(c) \/ Resolve(c) \/ Retain(c) \/ EndRelations(c) \/ Publish(c)
             \/ Refuse(c) \/ Abandon(c) \/ DropResult(c) \/ Again(c)
      PROVE  memory' = memory
  BY <1>2 DEF DropRebuilt, Resolve, Retain, EndRelations, Publish, Refuse, Abandon, DropResult,
              Again, Fail
<1>3. CASE Discard \/ UNCHANGED vars
  BY <1>3 DEF Discard, vars
<1> QED
  BY <1>1, <1>2, <1>3, BuildingLeaves DEF Next

\* What is still referred to is as it was.
Stable ==
  /\ \A c \in Call, n \in Names : \A a \in local[c][n] : memory'[a] = memory[a]
  /\ \A a \in Slot : Live(a) => \A b \in Refs(a) : memory'[b] = memory[b]

LEMMA StepIsStable ==
  ASSUME IInv, [Next]_vars
  PROVE  Stable
<1>1. CASE \A a \in Slot : Live(a) => memory'[a] = memory[a]
  <2>1. \A c \in Call, n \in Names : \A a \in local[c][n] : memory'[a] = memory[a]
    BY <1>1, NowIsLive
  <2>2. \A a \in Slot : Live(a) => \A b \in Refs(a) : b \in Slot /\ Live(b)
    BY RecordFacts DEF IInv, Held
  <2> QED
    BY <1>1, <2>1, <2>2 DEF Stable
<1>2. CASE Collect
  <2>1. PICK g \in Slot \ Referred : memory' = [memory EXCEPT ![g] = None]
    BY <1>2 DEF Collect, Unreferred
  <2>2. \A a \in Slot \ {g} : memory'[a] = memory[a]
    BY <2>1 DEF IInv, TypeOK
  <2>3. \A c \in Call, n \in Names : \A a \in local[c][n] : memory'[a] = memory[a]
    BY <2>1, <2>2, NowIsLive, NotReferred
  <2>4. \A a \in Slot : Live(a) => \A b \in Refs(a) : b \in Slot /\ b # g
    BY <2>1, RecordFacts, NotReferred DEF IInv
  <2> QED
    BY <2>2, <2>3, <2>4 DEF Stable
<1> QED
  BY <1>1, <1>2, StepsLeave

\* A record that is as it was is validated for what it was validated for: the
\* tables are exact before and after.
LEMMA ValidatesKeeps ==
  ASSUME IInv, IInv', NEW a \in Slot, memory'[a] = memory[a],
         NEW stage, NEW previous, NEW build, Validates(a, stage, previous, build)
  PROVE  Validates(a, stage, previous, build)'
<1>1. TypeOK /\ Registry /\ TypeOK' /\ Registry'
  BY DEF IInv
<1>2. Live(a) /\ Live(a)' /\ Auth(a)' = Auth(a) /\ Auth(a).token \in Token
  BY <1>1, RecordFacts DEF Validates, Live, Auth
<1>3. members[Auth(a).token] = a
  BY DEF Validates
<1>4. a # None
  BY NoneIsNoRecord
<1>5. Auth(a).token[1] = a
  BY <1>1, <1>2, <1>3, <1>4 DEF Registry
<1>6. ~memory[a].copied
  BY <1>1, <1>2, <1>5 DEF Registry
<1>7. members'[Auth(a).token] = a /\ Auth(a).token \notin late'
  <2>1. ~memory'[a].copied
    BY <1>6
  <2> QED
    BY <1>1, <1>2, <2>1 DEF Registry
<1> QED
  BY <1>2, <1>7 DEF Validates, Auth

\* What a record that is as it was refers to.
LEMMA StableRefs ==
  ASSUME IInv, Stable, NEW a \in Slot, Live(a), memory'[a] = memory[a]
  PROVE  /\ Live(a)' /\ Refs(a)' = Refs(a) /\ Auth(a)' = Auth(a)
         /\ \A b \in Refs(a) : /\ b \in Slot /\ Live(b) /\ memory'[b] = memory[b]
                               /\ Live(b)' /\ Auth(b)' = Auth(b) /\ Refs(b)' = Refs(b)
<1>1. \A b \in Refs(a) : b \in Slot /\ Live(b)
  BY RecordFacts DEF IInv, Held
<1>2. \A b \in Refs(a) : memory'[b] = memory[b]
  BY DEF Stable
<1> QED
  BY <1>1, <1>2 DEF Live, Auth, Refs

LEMMA DecisionKeeps ==
  ASSUME IInv, IInv', Stable, NEW d \in Slot, Live(d), memory'[d] = memory[d],
         DecisionValidates(d)
  PROVE  DecisionValidates(d)'
<1>1. /\ Refs(d)' = Refs(d)
      /\ \A g \in Refs(d) : g \in Slot /\ Live(g) /\ memory'[g] = memory[g]
  BY StableRefs
<1>2. \/ Validates(d, "CLASSIFIED", "GROUPED", None)'
      \/ Validates(d, "COORDINATED", "CLASSIFIED", None)'
  BY ValidatesKeeps DEF DecisionValidates
<1>3. ASSUME NEW g \in Refs(d)
      PROVE  GroupValidates(g)' /\ memory'[g].cohort = memory'[d].cohort
  <2>1. Validates(g, "GROUPED", "none", None) /\ memory[g].cohort = memory[d].cohort
    BY DEF DecisionValidates, GroupValidates
  <2>2. g \in Slot /\ memory'[g] = memory[g]
    BY <1>1
  <2> QED
    BY <2>1, <2>2, ValidatesKeeps DEF GroupValidates
<1> QED
  BY <1>1, <1>2, <1>3 DEF DecisionValidates

LEMMA BaseKeeps ==
  ASSUME IInv, IInv', Stable, NEW b \in Slot, Live(b), memory'[b] = memory[b],
         NEW cohort, NEW build, BaseValidates(b, cohort, build)
  PROVE  BaseValidates(b, cohort, build)'
<1>1. /\ Live(b)' /\ Refs(b)' = Refs(b) /\ Auth(b)' = Auth(b)
      /\ \A d \in Refs(b) : d \in Slot /\ Live(d) /\ memory'[d] = memory[d] /\ Auth(d)' = Auth(d)
  BY StableRefs
<1>2. ASSUME NEW d \in Refs(b)
      PROVE  /\ DecisionValidates(d)' /\ memory'[d].cohort = cohort
             /\ Validates(b, "BASE_FACT", Auth(d).stage, build)'
             /\ (Auth(b)').parents = {(Auth(d)').token}
  <2>1. PICK s : s = Auth(d).stage
    OBVIOUS
  <2>2. /\ DecisionValidates(d) /\ memory[d].cohort = cohort
        /\ Validates(b, "BASE_FACT", s, build) /\ Auth(b).parents = {Auth(d).token}
    BY <2>1 DEF BaseValidates, Validates
  <2>3. Validates(b, "BASE_FACT", s, build)'
    BY <2>2, ValidatesKeeps
  <2>4. Validates(b, "BASE_FACT", Auth(d).stage, build)'
    BY <1>1, <2>1, <2>3 DEF Validates
  <2> QED
    BY <1>1, <2>2, <2>4, DecisionKeeps
<1> QED
  BY <1>1, <1>2 DEF BaseValidates

LEMMA FactKeeps ==
  ASSUME IInv, IInv', Stable, NEW f \in Slot, Live(f), memory'[f] = memory[f],
         NEW cohort, NEW build, FactValidates(f, cohort, build)
  PROVE  FactValidates(f, cohort, build)'
<1>1. /\ Refs(f)' = Refs(f) /\ Auth(f)' = Auth(f)
      /\ \A b \in Refs(f) : b \in Slot /\ Live(b) /\ memory'[b] = memory[b] /\ Auth(b)' = Auth(b)
  BY StableRefs
<1>2. Validates(f, "MATERIALIZED_FACT", "BASE_FACT", build)' /\ memory'[f].cohort = cohort
  BY ValidatesKeeps DEF FactValidates
<1>3. ASSUME NEW b \in Refs(f)
      PROVE  /\ BaseValidates(b, cohort, build)' /\ memory'[b].cohort = cohort
             /\ (Auth(f)').parents = {(Auth(b)').token}
  BY <1>1, BaseKeeps DEF FactValidates
<1> QED
  BY <1>1, <1>2, <1>3 DEF FactValidates

\* The parts of a graph that is as it was.
LEMMA PartsKeep ==
  ASSUME IInv, Stable, NEW g \in Slot, Live(g), memory'[g] = memory[g]
  PROVE  /\ Bases(g)' = Bases(g) /\ Relations(g)' = Relations(g)
         /\ OfStage(Refs(g), "MATERIALIZED_FACT")' = OfStage(Refs(g), "MATERIALIZED_FACT")
         /\ Tokens(Refs(g))' = Tokens(Refs(g))
         /\ \A b \in Bases(g) : /\ b \in Slot /\ Live(b) /\ memory'[b] = memory[b]
                                /\ Auth(b)' = Auth(b) /\ Refs(b)' = Refs(b)
<1>1. /\ Refs(g)' = Refs(g)
      /\ \A a \in Refs(g) : /\ a \in Slot /\ Live(a) /\ memory'[a] = memory[a]
                            /\ Auth(a)' = Auth(a) /\ Refs(a)' = Refs(a)
  BY StableRefs
<1>2. OfStage(Refs(g), "MATERIALIZED_FACT")' = OfStage(Refs(g), "MATERIALIZED_FACT")
  BY <1>1 DEF OfStage
<1>3. Relations(g)' = Relations(g)
  BY <1>1 DEF OfStage, Relations
<1>4. Tokens(Refs(g))' = Tokens(Refs(g))
  BY <1>1 DEF Tokens
<1>5. \A f \in OfStage(Refs(g), "MATERIALIZED_FACT") : f \in Refs(g)
  BY DEF OfStage
<1>6. Bases(g)' = Bases(g)
  BY <1>1, <1>2, <1>5 DEF Bases
<1>7. \A b \in Bases(g) : \E f \in Refs(g) : b \in Refs(f)
  BY <1>5 DEF Bases
<1>8. \A b \in Bases(g) : /\ b \in Slot /\ Live(b) /\ memory'[b] = memory[b]
                          /\ Auth(b)' = Auth(b) /\ Refs(b)' = Refs(b)
  BY <1>1, <1>7, StableRefs
<1> QED
  BY <1>2, <1>3, <1>4, <1>6, <1>8

LEMMA RelationKeeps ==
  ASSUME IInv, IInv', Stable, NEW g \in Slot, Live(g), memory'[g] = memory[g],
         NEW r \in Refs(g), RelationValidates(r, g)
  PROVE  RelationValidates(r, g)'
<1>1. r \in Slot /\ memory'[r] = memory[r] /\ Auth(r)' = Auth(r) /\ Auth(g)' = Auth(g)
  BY StableRefs
<1>2. PICK build : build = Auth(g).build
  OBVIOUS
<1>3. Validates(r, "MATERIALIZED_RELATION", "BASE_FACT", build)'
  BY <1>1, <1>2, ValidatesKeeps DEF RelationValidates, Validates
<1>4. Validates(r, "MATERIALIZED_RELATION", "BASE_FACT", Auth(g).build)'
  BY <1>1, <1>2, <1>3 DEF Validates
<1>5. PICK S : S = {b \in Bases(g) : memory[b].about \subseteq memory[r].about}
  OBVIOUS
<1>6. /\ {b \in Bases(g) : memory[b].about \subseteq memory[r].about}' = S
      /\ \A b \in S : Auth(b)' = Auth(b)
  BY <1>1, <1>5, PartsKeep
<1>7. Tokens(S)' = Tokens(S)
  BY <1>6 DEF Tokens
<1>8. Auth(r).parents = Tokens(S) /\ memory[r].cohort = memory[g].cohort
  BY <1>5 DEF RelationValidates
<1>9. (Auth(r)').parents = Tokens({b \in Bases(g) : memory[b].about \subseteq memory[r].about})'
  BY <1>1, <1>6, <1>7, <1>8 DEF Tokens
<1> QED
  BY <1>1, <1>4, <1>8, <1>9 DEF RelationValidates

LEMMA GraphKeeps ==
  ASSUME IInv, IInv', Stable, NEW g \in Slot, Live(g), memory'[g] = memory[g], GraphValidates(g)
  PROVE  GraphValidates(g)'
<1>1. /\ Refs(g)' = Refs(g) /\ Auth(g)' = Auth(g)
      /\ \A a \in Refs(g) : a \in Slot /\ Live(a) /\ memory'[a] = memory[a] /\ Live(a)'
  BY StableRefs
<1>2. PICK cohort, build, s :
        cohort = memory[g].cohort /\ build = Auth(g).build /\ s = LastStage(Relations(g))
  OBVIOUS
<1>3. PICK F, R : F = OfStage(Refs(g), "MATERIALIZED_FACT") /\ R = Relations(g)
  OBVIOUS
<1>4. /\ OfStage(Refs(g), "MATERIALIZED_FACT")' = F /\ Relations(g)' = R
      /\ Tokens(Refs(g))' = Tokens(Refs(g))
  BY <1>3, PartsKeep
<1>5. ASSUME NEW f \in F
      PROVE  FactValidates(f, memory[g].cohort, Auth(g).build)'
  <2>1. f \in Refs(g) /\ f \in Slot /\ Live(f) /\ memory'[f] = memory[f]
    BY <1>1, <1>3 DEF OfStage
  <2>2. FactValidates(f, cohort, build)
    BY <1>2, <1>3 DEF GraphValidates, FactValidates, Validates, BaseValidates
  <2>3. FactValidates(f, cohort, build)'
    BY <2>1, <2>2, FactKeeps
  <2> QED
    BY <1>1, <1>2, <2>3 DEF FactValidates, Validates, BaseValidates
<1>6. ASSUME NEW r \in R
      PROVE  RelationValidates(r, g)'
  <2>1. r \in Refs(g)
    BY <1>3 DEF Relations, OfStage
  <2> QED
    BY <1>3, <2>1, RelationKeeps DEF GraphValidates
<1>7. Validates(g, "MATERIALIZED_GRAPH", s, build)'
  BY <1>2, ValidatesKeeps DEF GraphValidates, Validates
<1>8. Validates(g, "MATERIALIZED_GRAPH", LastStage(Relations(g)), Auth(g).build)'
  BY <1>1, <1>2, <1>3, <1>4, <1>7 DEF Validates, LastStage
<1>9. (Auth(g)').parents = Tokens(Refs(g))'
  BY <1>1, <1>4 DEF GraphValidates
<1> QED
  BY <1>1, <1>4, <1>5, <1>6, <1>8, <1>9 DEF GraphValidates

\* A result of which nothing is let go stays valid.
LEMMA ResultKeeps ==
  ASSUME IInv, IInv', Stable, NEW c \in Call, ResultValidates(c),
         local'[c]["graph"] = local[c]["graph"], local'[c]["decisions"] = local[c]["decisions"]
  PROVE  ResultValidates(c)'
<1>1. ASSUME NEW g \in local[c]["graph"]
      PROVE  /\ Live(g)' /\ GraphValidates(g)'
             /\ \A d \in local[c]["decisions"] : DecisionValidates(d)'
             /\ (UNION {Refs(b) : b \in Bases(g)})' = local[c]["decisions"]
  <2>1. g \in Slot /\ Live(g) /\ memory'[g] = memory[g]
    BY NowIsLive DEF Names, Stable
  <2>2. GraphValidates(g)' /\ Live(g)'
    BY <2>1, GraphKeeps DEF ResultValidates, Live
  <2>3. ASSUME NEW d \in local[c]["decisions"]
        PROVE  DecisionValidates(d)'
    <3>1. d \in Slot /\ Live(d) /\ memory'[d] = memory[d]
      BY NowIsLive DEF Names, Stable
    <3> QED
      BY <3>1, DecisionKeeps DEF ResultValidates
  <2>4. UNION {Refs(b) : b \in Bases(g)} = local[c]["decisions"]
    BY DEF ResultValidates
  <2>5. Bases(g)' = Bases(g) /\ \A b \in Bases(g) : Refs(b)' = Refs(b)
    BY <2>1, PartsKeep
  <2>6. (UNION {Refs(b) : b \in Bases(g)})' = UNION {Refs(b) : b \in Bases(g)}
    BY <2>5
  <2> QED
    BY <2>2, <2>3, <2>4, <2>6
<1> QED
  BY <1>1 DEF ResultValidates

\* An invocation has published after a step when its result was validated in it,
\* or when it had published before, and nothing of its result is let go.
LEMMA PublishedBefore ==
  ASSUME IInv, [Next]_vars, NEW c \in Call, phase'[c] = "published"
  PROVE  /\ ResultValidates(c) \/ phase[c] = "published"
         /\ local'[c]["graph"] = local[c]["graph"]
         /\ local'[c]["decisions"] = local[c]["decisions"]
<1>1. TypeOK /\ Taking
  BY DEF IInv
<1>2. local[c] \in Locals
  BY <1>1 DEF TypeOK, Locals
<1>3. ASSUME NEW k \in Call,
             \/ Group(k) \/ CopyGroup(k) \/ Classify(k) \/ RebuildGroup(k) \/ RebuildDecision(k)
             \/ DropRebuilt(k) \/ Resolve(k) \/ Retain(k) \/ Coordinate(k)
             \/ BuildBase(k) \/ Relate(k) \/ EndRelations(k) \/ Materialize(k) \/ BuildGraph(k)
             \/ Publish(k) \/ Refuse(k) \/ Abandon(k) \/ DropResult(k) \/ Again(k)
      PROVE  /\ ResultValidates(c) \/ phase[c] = "published"
             /\ local'[c]["graph"] = local[c]["graph"]
             /\ local'[c]["decisions"] = local[c]["decisions"]
  <2>1. CASE Group(k) \/ Classify(k) \/ BuildBase(k) \/ Materialize(k)
             \/ Resolve(k) \/ Retain(k) \/ Coordinate(k)
    <3>1. PICK at \in Running, next \in Running : phase[k] = at /\ Advance(k, next)
      BY <2>1 DEF Group, Classify, BuildBase, Materialize, Resolve, Retain, Coordinate, At, Running
    <3>2. \A i \in Call \ {k} : phase'[i] = phase[i]
      BY <1>1, <3>1, AdvanceKeeps
    <3>3. phase'[k] \in Running
      BY <1>1, <3>1, AdvanceKeeps
    <3>4. k # c
      BY <3>3 DEF Running
    <3>5. local'[c] = local[c]
      BY <1>1, <2>1, <3>4 DEF TypeOK, Group, Classify, BuildBase, Materialize, Resolve, Retain,
                              Coordinate, Decided, Keep
    <3> QED
      BY <3>2, <3>4, <3>5
  <2>2. CASE CopyGroup(k) \/ Relate(k)
    <3>1. phase' = phase /\ phase[k] \in {"classify", "relate"}
      BY <2>2 DEF CopyGroup, Relate, At
    <3>2. k # c
      BY <3>1
    <3>3. local'[c] = local[c]
      BY <1>1, <2>2, <3>2 DEF TypeOK, CopyGroup, Relate, Keep
    <3> QED
      BY <3>1, <3>3
  <2>3. CASE RebuildGroup(k) \/ RebuildDecision(k) \/ DropRebuilt(k)
    <3>1. PICK R : local' = [local EXCEPT ![k]["rebuilt"] = R]
      BY <2>3 DEF RebuildGroup, RebuildDecision, DropRebuilt, Keep
    <3>2. /\ local'[c]["graph"] = local[c]["graph"]
          /\ local'[c]["decisions"] = local[c]["decisions"]
      BY <1>1, <3>1 DEF TypeOK, Names
    <3>3. phase' = phase
      BY <2>3 DEF RebuildGroup, RebuildDecision, DropRebuilt
    <3> QED
      BY <3>2, <3>3
  <2>4. CASE EndRelations(k) \/ BuildGraph(k) \/ Again(k) \/ Refuse(k) \/ Abandon(k) \/ DropResult(k)
    <3>1. PICK p \in (Running \union Ended) \ {"published"} : phase' = [phase EXCEPT ![k] = p]
      BY <2>4 DEF EndRelations, BuildGraph, Again, Refuse, Abandon, DropResult, Fail, Running, Ended
    <3>2. k # c
      BY <1>1, <3>1 DEF TypeOK
    <3>3. local'[c] = local[c]
      BY <1>1, <2>4, <3>2 DEF TypeOK, EndRelations, BuildGraph, Again, Refuse, Abandon, DropResult, Fail
    <3> QED
      BY <1>1, <3>1, <3>2, <3>3 DEF TypeOK
  <2>5. CASE Publish(k)
    <3>1. CASE k = c
      <4>1. ResultValidates(c)
        BY <2>5, <3>1 DEF Publish
      <4>2. local'[c] = [Nothing EXCEPT !["graph"] = local[c]["graph"],
                                        !["decisions"] = local[c]["decisions"]]
        BY <1>1, <2>5, <3>1 DEF Publish, TypeOK
      <4> QED
        BY <4>1, <4>2, NothingIsLocal DEF Locals, Names
    <3>2. CASE k # c
      BY <1>1, <2>5, <3>2 DEF Publish, TypeOK
    <3> QED
      BY <3>1, <3>2
  <2> QED
    BY <1>3, <2>1, <2>2, <2>3, <2>4, <2>5
<1>4. CASE Collect \/ Discard \/ UNCHANGED vars
  BY <1>4 DEF Collect, Discard, vars
<1> QED
  BY <1>3, <1>4 DEF Next

\* As long as a caller holds a result, validating it succeeds: however many other
\* records are built and collected, and whatever addresses they are given, all
\* the records it is validated by are kept by the result, and by nothing else.
THEOREM ResultsStayValid == Spec => []ResultStaysValid
<1>1. Init => ResultStaysValid
  BY DEF Init, ResultStaysValid
<1>2. IInv /\ IInv' /\ ResultStaysValid /\ [Next]_vars => ResultStaysValid'
  <2> SUFFICES ASSUME IInv, IInv', ResultStaysValid, [Next]_vars,
                      NEW c \in Call, phase'[c] = "published"
               PROVE  ResultValidates(c)'
    BY DEF ResultStaysValid
  <2>1. /\ ResultValidates(c)
        /\ local'[c]["graph"] = local[c]["graph"]
        /\ local'[c]["decisions"] = local[c]["decisions"]
    BY PublishedBefore DEF ResultStaysValid
  <2> QED
    BY <2>1, StepIsStable, ResultKeeps
<1> QED
  BY <1>1, <1>2, AlwaysIInv, PTL DEF Spec

-----------------------------------------------------------------------------
(* Only copies are refused: what an invocation has in hand at each stage. *)

\* A group, a decision, what a validation builds, a base fact and a relation of an
\* invocation, as they will be validated.
GoodGroup(g, c) == GroupValidates(g) /\ memory[g].cohort = c
GoodDecision(d, c) == DecisionValidates(d) /\ memory[d].cohort = c
GoodRebuilt(a, c) ==
  IF Auth(a).stage = "GROUPED" THEN GoodGroup(a, c) ELSE GoodDecision(a, c)
GoodBase(b, c) == BaseValidates(b, c, c) /\ memory[b].cohort = c
GoodRelation(r, c) ==
  /\ Validates(r, "MATERIALIZED_RELATION", "BASE_FACT", c) /\ memory[r].cohort = c
  /\ Auth(r).parents = Tokens({b \in local[c]["bases"] : memory[b].about \subseteq memory[r].about})

\* All an invocation works with is validated, except the copies of groups.
DecisionNames == {"classified", "canonical", "decisions"}

Chain(c) ==
  /\ \A g \in local[c]["groups"] :
       (memory[g].copied \/ GroupValidates(g)) /\ memory[g].cohort = c
  /\ \A a \in local[c]["rebuilt"] : GoodRebuilt(a, c)
  /\ \A n \in DecisionNames : \A d \in local[c][n] : GoodDecision(d, c)
  /\ \A b \in local[c]["bases"] : GoodBase(b, c)
  /\ \A r \in local[c]["relations"] : GoodRelation(r, c)
  /\ \A f \in local[c]["facts"] : FactValidates(f, c, c)
  /\ phase[c] \in {"check", "published"} => ResultValidates(c)

\* What an invocation does not refer to in a phase.
Later == {"canonical", "rebuilt", "decisions", "bases", "relations", "facts", "graph"}
Unused(p) ==
  CASE p \in {"group", "classify"} -> Later
    [] p = "resolve" -> {"decisions", "bases", "relations", "facts", "graph"}
    [] p = "coordinate" -> {"bases", "relations", "facts", "graph"}
    [] p = "base" -> {"relations", "facts", "graph"}
    [] p = "relate" -> {"facts", "graph"}
    [] p \in {"fact", "graph"} -> {"graph"}
    [] p \in {"check", "published"} -> {"bases", "relations", "facts"}
    [] OTHER -> Names

Tidy(c) ==
  /\ \A n \in Unused(phase[c]) : local[c][n] = {}
  /\ phase[c] = "relate" => todo[c] = Facts[c]

\* Of each fact there is at most one record of each kind.
OneOfEach(c, name) ==
  /\ \A a \in local[c][name] : \E x \in Facts[c] : memory[a].about = {x}
  /\ \A a, b \in local[c][name] : memory[a].about = memory[b].about => a = b

\* A validation builds one record at a time, of the fact the coordinator takes.
Rebuilding(c) ==
  \A a \in local[c]["rebuilt"] :
    /\ phase[c] \in {"resolve", "coordinate"} => memory[a].about = {Turn(c)}
    /\ \A b \in local[c]["rebuilt"] : a = b

\* What a phase makes is of the facts it has taken.
Made(c) ==
  CASE phase[c] = "resolve" -> local[c]["canonical"]
    [] phase[c] = "coordinate" -> local[c]["decisions"]
    [] phase[c] = "base" -> local[c]["bases"]
    [] OTHER -> {}

Taken(c) == \A a \in Made(c), x \in todo[c] : memory[a].about # {x}

\* A kind of record is made from the one before, and from the whole of it when its
\* phase has ended.
MadeFrom(c, name, before) ==
  \A b \in local[c][name] : \E d \in local[c][before] :
    Refs(b) = {d} /\ memory[b].about = memory[d].about
MadeFromAll(c, name, before, p) ==
  \A d \in local[c][before] :
    \/ phase[c] = p /\ \E x \in todo[c] : memory[d].about = {x}
    \/ \E b \in local[c][name] : Refs(b) = {d}

Complete(c) ==
  /\ MadeFrom(c, "bases", "decisions") /\ MadeFrom(c, "facts", "bases")
  /\ phase[c] \in {"base", "relate", "fact", "graph"} => MadeFromAll(c, "bases", "decisions", "base")
  /\ phase[c] \in {"fact", "graph"} => MadeFromAll(c, "facts", "bases", "fact")

Once(c) ==
  /\ Tidy(c) /\ Rebuilding(c) /\ Taken(c) /\ Complete(c)
  /\ \A n \in {"canonical", "decisions", "bases"} : OneOfEach(c, n)

Pipeline == \A c \in Call : Chain(c) /\ Once(c)

\* What an invocation refers to stays what it is.
LEMMA KeptFacts ==
  ASSUME IInv, Stable, NEW c \in Call, NEW n \in Names, NEW a \in local[c][n]
  PROVE  /\ a \in Slot /\ Live(a) /\ memory'[a] = memory[a]
         /\ Live(a)' /\ Auth(a)' = Auth(a) /\ Refs(a)' = Refs(a)
<1>1. a \in Slot /\ Live(a)
  BY NowIsLive
<1>2. memory'[a] = memory[a]
  BY DEF Stable
<1> QED
  BY <1>1, <1>2, StableRefs

LEMMA GoodDecisionKeeps ==
  ASSUME IInv, IInv', Stable, NEW c \in Call, NEW n \in Names, NEW d \in local[c][n],
         GoodDecision(d, c)
  PROVE  GoodDecision(d, c)'
  BY KeptFacts, DecisionKeeps DEF GoodDecision

LEMMA GoodRebuiltKeeps ==
  ASSUME IInv, IInv', Stable, NEW c \in Call, NEW a \in local[c]["rebuilt"], GoodRebuilt(a, c)
  PROVE  GoodRebuilt(a, c)'
<1>1. a \in Slot /\ memory'[a] = memory[a] /\ Auth(a)' = Auth(a)
  BY KeptFacts DEF Names
<1>2. CASE Auth(a).stage = "GROUPED"
  BY <1>1, <1>2, ValidatesKeeps DEF GoodRebuilt, GoodGroup, GroupValidates
<1>3. CASE Auth(a).stage # "GROUPED"
  BY <1>1, <1>3, GoodDecisionKeeps DEF GoodRebuilt, Names
<1> QED
  BY <1>2, <1>3

LEMMA GoodRelationKeeps ==
  ASSUME IInv, IInv', Stable, NEW c \in Call, NEW r \in local[c]["relations"], GoodRelation(r, c),
         local'[c]["bases"] = local[c]["bases"]
  PROVE  GoodRelation(r, c)'
<1>1. r \in Slot /\ memory'[r] = memory[r] /\ Auth(r)' = Auth(r)
  BY KeptFacts DEF Names
<1>2. \A b \in local[c]["bases"] : memory'[b] = memory[b] /\ Auth(b)' = Auth(b)
  BY KeptFacts DEF Names
<1>3. Validates(r, "MATERIALIZED_RELATION", "BASE_FACT", c)'
  BY <1>1, ValidatesKeeps DEF GoodRelation
<1>4. PICK S : S = {b \in local[c]["bases"] : memory[b].about \subseteq memory[r].about}
  OBVIOUS
<1>5. {b \in local[c]["bases"] : memory[b].about \subseteq memory[r].about}' = S
  BY <1>1, <1>2, <1>4
<1>6. Tokens(S)' = Tokens(S)
  BY <1>2, <1>4 DEF Tokens
<1>7. (Auth(r)').parents = Tokens({b \in local[c]["bases"] : memory[b].about \subseteq memory[r].about})'
  BY <1>1, <1>4, <1>5, <1>6 DEF GoodRelation, Tokens
<1> QED
  BY <1>1, <1>3, <1>7 DEF GoodRelation

\* The chain is kept when what is added to it is good.
LEMMA ChainKeeps ==
  ASSUME IInv, IInv', Stable, NEW c \in Call, Chain(c),
         \A g \in local'[c]["groups"] : \/ g \in local[c]["groups"]
                                        \/ (memory[g].copied \/ GroupValidates(g))' /\ memory'[g].cohort = c,
         \A a \in local'[c]["rebuilt"] : a \in local[c]["rebuilt"] \/ GoodRebuilt(a, c)',
         \A n \in DecisionNames : \A d \in local'[c][n] :
           (\E m \in DecisionNames : d \in local[c][m]) \/ d \in Rebuilt(c) \/ GoodDecision(d, c)',
         \A b \in local'[c]["bases"] : b \in local[c]["bases"] \/ GoodBase(b, c)',
         \A r \in local'[c]["relations"] :
           \/ r \in local[c]["relations"] /\ local'[c]["bases"] = local[c]["bases"]
           \/ GoodRelation(r, c)',
         \A f \in local'[c]["facts"] : f \in local[c]["facts"] \/ FactValidates(f, c, c)',
         phase'[c] \in {"check", "published"} => ResultValidates(c)'
  PROVE  Chain(c)'
<1>1. ASSUME NEW g \in local'[c]["groups"]
      PROVE  (memory[g].copied \/ GroupValidates(g))' /\ memory'[g].cohort = c
  <2>1. CASE g \in local[c]["groups"]
    <3>1. g \in Slot /\ memory'[g] = memory[g]
      BY <2>1, KeptFacts DEF Names
    <3>2. (memory[g].copied \/ GroupValidates(g)) /\ memory[g].cohort = c
      BY <2>1 DEF Chain
    <3>3. GroupValidates(g) => GroupValidates(g)'
      BY <3>1, ValidatesKeeps DEF GroupValidates
    <3> QED
      BY <3>1, <3>2, <3>3
  <2> QED
    BY <2>1
<1>2. \A a \in local'[c]["rebuilt"] : GoodRebuilt(a, c)'
  BY GoodRebuiltKeeps DEF Chain
<1>3. ASSUME NEW n \in DecisionNames, NEW d \in local'[c][n]
      PROVE  GoodDecision(d, c)'
  <2>1. CASE \E m \in DecisionNames : d \in local[c][m]
    BY <2>1, GoodDecisionKeeps DEF Chain, DecisionNames, Names
  <2>2. CASE d \in Rebuilt(c)
    <3>1. d \in local[c]["rebuilt"] /\ Auth(d).stage # "GROUPED"
      BY <2>2 DEF Rebuilt, OfStage
    <3>2. GoodDecision(d, c)
      BY <3>1 DEF Chain, GoodRebuilt
    <3> QED
      BY <3>1, <3>2, GoodDecisionKeeps DEF Names
  <2> QED
    BY <2>1, <2>2
<1>4. ASSUME NEW b \in local'[c]["bases"]
      PROVE  GoodBase(b, c)'
  <2>1. CASE b \in local[c]["bases"]
    BY <2>1, KeptFacts, BaseKeeps DEF Chain, GoodBase, Names
  <2> QED
    BY <2>1
<1>5. \A r \in local'[c]["relations"] : GoodRelation(r, c)'
  BY GoodRelationKeeps DEF Chain
<1>6. ASSUME NEW f \in local'[c]["facts"]
      PROVE  FactValidates(f, c, c)'
  <2>1. CASE f \in local[c]["facts"]
    BY <2>1, KeptFacts, FactKeeps DEF Chain, Names
  <2> QED
    BY <2>1
<1> QED
  BY <1>1, <1>2, <1>3, <1>4, <1>5, <1>6 DEF Chain

\* The pipeline of an invocation that only changes what a validation builds, and
\* what is not needed again.
Counted == {"canonical", "decisions", "bases", "facts", "graph"}

LEMMA OnceKeeps ==
  ASSUME IInv, Stable, NEW c \in Call, Once(c), phase'[c] = phase[c], todo'[c] = todo[c],
         \A n \in Counted : local'[c][n] = local[c][n],
         \A n \in Unused(phase[c]) : local'[c][n] = {},
         \A a \in local'[c]["rebuilt"] :
           /\ \/ a \in local[c]["rebuilt"]
              \/ phase[c] \in {"resolve", "coordinate"} => memory'[a].about = {Turn(c)}
           /\ \A b \in local'[c]["rebuilt"] : a = b
  PROVE  Once(c)'
<1>1. \A n \in Names : \A a \in local[c][n] : memory'[a] = memory[a] /\ Refs(a)' = Refs(a)
  BY KeptFacts
<1>2. Turn(c)' = Turn(c)
  BY DEF Turn
<1>3. Tidy(c)'
  BY DEF Once, Tidy
<1>4. Rebuilding(c)'
  BY <1>1, <1>2 DEF Once, Rebuilding, Names
<1>5. Made(c)' = Made(c) /\ \E n \in Names : Made(c) \subseteq local[c][n]
  BY DEF Made, Counted, Names
<1>6. Taken(c)'
  BY <1>1, <1>5 DEF Once, Taken
<1>7. Complete(c)'
  <2>1. \A n \in {"decisions", "bases", "facts"} :
          /\ n \in Names /\ local'[c][n] = local[c][n]
          /\ \A a \in local[c][n] : memory'[a] = memory[a] /\ Refs(a)' = Refs(a)
    BY <1>1 DEF Names, Counted
  <2>2. ASSUME NEW name \in {"decisions", "bases", "facts"},
               NEW before \in {"decisions", "bases", "facts"}
        PROVE  /\ MadeFrom(c, name, before) => MadeFrom(c, name, before)'
               /\ \A q : MadeFromAll(c, name, before, q) => MadeFromAll(c, name, before, q)'
    <3>1. /\ local'[c][name] = local[c][name] /\ local'[c][before] = local[c][before]
          /\ \A a \in local[c][name] : memory'[a] = memory[a] /\ Refs(a)' = Refs(a)
          /\ \A b \in local[c][before] : memory'[b] = memory[b]
      BY <2>1
    <3>2. ASSUME MadeFrom(c, name, before)
          PROVE  MadeFrom(c, name, before)'
      BY <3>1, <3>2 DEF MadeFrom
    <3>3. ASSUME NEW q, MadeFromAll(c, name, before, q)
          PROVE  MadeFromAll(c, name, before, q)'
      <4>1. ASSUME NEW d \in local[c][before]
            PROVE  \/ phase'[c] = q /\ \E x \in todo'[c] : memory'[d].about = {x}
                   \/ \E b \in local'[c][name] : Refs(b)' = {d}
        <5>1. CASE phase[c] = q /\ \E x \in todo[c] : memory[d].about = {x}
          BY <3>1, <5>1
        <5>2. CASE \E b \in local[c][name] : Refs(b) = {d}
          <6>1. PICK b \in local[c][name] : Refs(b) = {d}
            BY <5>2
          <6>2. b \in local'[c][name] /\ Refs(b)' = {d}
            BY <3>1, <6>1
          <6> QED
            BY <6>2
        <5> QED
          BY <3>3, <5>1, <5>2 DEF MadeFromAll
      <4> QED
        BY <3>1, <4>1 DEF MadeFromAll
    <3> QED
      BY <3>2, <3>3
  <2> QED
    BY <2>2 DEF Once, Complete
<1>8. ASSUME NEW n \in {"canonical", "decisions", "bases"}
      PROVE  OneOfEach(c, n)'
  BY <1>1 DEF Once, OneOfEach, Names, Counted
<1> QED
  BY <1>3, <1>4, <1>6, <1>7, <1>8 DEF Once

LEMMA UnusedNames == \A p : Unused(p) \subseteq Names
  BY DEF Unused, Later, Names

\* Nothing is counted before the coordinator, and when an invocation has ended.
LEMMA OnceNothing ==
  ASSUME NEW c \in Call, \A n \in Later : local'[c][n] = {},
         phase'[c] \in Running \union Ended, phase'[c] \notin {"relate"},
         phase'[c] \in {"refused", "abandoned", "dropped"} => \A n \in Names : local'[c][n] = {}
  PROVE  Once(c)'
<1>1. \A n \in Unused(phase'[c]) : local'[c][n] = {}
  BY DEF Unused, Later, Names, Running, Ended
<1>2. Tidy(c)'
  BY <1>1 DEF Tidy
<1>3. Rebuilding(c)'
  BY DEF Rebuilding, Later
<1>4. Taken(c)'
  BY DEF Taken, Made, Later
<1>5. Complete(c)'
  BY DEF Complete, MadeFrom, MadeFromAll, Later
<1>6. ASSUME NEW n \in {"canonical", "decisions", "bases"}
      PROVE  OneOfEach(c, n)'
  BY DEF OneOfEach, Later
<1> QED
  BY <1>2, <1>3, <1>4, <1>5, <1>6 DEF Once

\* An invocation that another one's step does not touch.
LEMMA OthersKeep ==
  ASSUME IInv, IInv', Stable, NEW c \in Call, Chain(c), Once(c),
         local'[c] = local[c], phase'[c] = phase[c], todo'[c] = todo[c]
  PROVE  Chain(c)' /\ Once(c)'
<1>1. phase'[c] \in {"check", "published"} => ResultValidates(c)'
  BY ResultKeeps DEF Chain
<1>2. Chain(c)'
  BY <1>1, ChainKeeps
<1>3. Once(c)'
  BY OnceKeeps DEF Once, Tidy, Rebuilding
<1> QED
  BY <1>2, <1>3

\* What is issued is valid at once.
LEMMA IssuedIsValid ==
  ASSUME IInv, IInv', NEW c \in Call, NEW about \in SUBSET Fact, NEW refs \in SUBSET Slot,
         NEW stage, NEW previous, NEW parents \in SUBSET Token, NEW build,
         build = IF stage \in Unbuilt THEN None ELSE c,
         Issue(c, about, refs, stage, previous, parents)
  PROVE  \E n \in Slot :
           /\ n = NewAddress /\ ~Live(n) /\ Live(n)'
           /\ memory'[n].cohort = c /\ memory'[n].about = about /\ Refs(n)' = refs
           /\ ~memory'[n].copied
           /\ (Auth(n)').stage = stage /\ (Auth(n)').parents = parents /\ (Auth(n)').build = build
           /\ Validates(n, stage, previous, build)'
<1>1. PICK n, t :
        n = NewAddress /\ Built(n, t, NewRecord(c, about, refs, stage, previous, parents, t))
  BY IssueBuilds
<1>2. PICK record : record = NewRecord(c, about, refs, stage, previous, parents, t)
  OBVIOUS
<1>3. Built(n, t, record) /\ t \in Token /\ <<previous, stage>> \in Transitions
  BY <1>1, <1>2 DEF Built, Issue
<1>4. /\ ~record.copied
      /\ record.refs = refs /\ record.cohort = c /\ record.about = about
      /\ record.auth.stage = stage /\ record.auth.previous = previous
      /\ record.auth.cohort = c /\ record.auth.parents = parents /\ record.auth.token = t
      /\ record.auth.build = build
  BY <1>2, <1>3, NewRecordFacts
<1>5. n \in Slot /\ memory'[n] = record /\ Live(n)' /\ ~Live(n)
  BY <1>3, BuiltMemory DEF IInv
<1>6. Auth(n)' = record.auth /\ Refs(n)' = refs
  BY <1>4, <1>5 DEF Auth, Refs
<1>7. members'[(Auth(n)').token] = n /\ (Auth(n)').token \notin late'
  BY <1>4, <1>5 DEF IInv, Registry
<1>8. Validates(n, stage, previous, build)'
  BY <1>4, <1>5, <1>6, <1>7 DEF Validates
<1> QED
  BY <1>1, <1>4, <1>5, <1>6, <1>8

LEMMA KeepChanges ==
  ASSUME IInv, NEW c \in Call, NEW name \in Names, NEW n \in Slot, n = NewAddress,
         Keep(c, name, NewAddress)
  PROVE  /\ local'[c][name] = local[c][name] \union {n}
         /\ \A k \in Names \ {name} : local'[c][k] = local[c][k]
  BY DEF IInv, TypeOK, Keep

\* The phase and the facts left, when one fact is through.
LEMMA AdvanceFacts ==
  ASSUME IInv, NEW c \in Call, NEW next \in Running \union Ended, Advance(c, next)
  PROVE  /\ Turn(c) \in todo[c] /\ Turn(c) \in Facts[c] /\ Turn(c) \in Fact
         /\ todo[c] \subseteq Facts[c]
         /\ \/ phase'[c] = phase[c] /\ todo'[c] = todo[c] \ {Turn(c)}
            \/ phase'[c] = next /\ todo'[c] = Facts[c] /\ todo[c] = {Turn(c)}
  BY TurnIsAFact, AdvanceKeeps DEF IInv, Taking

LEMMA GroupPipes ==
  ASSUME IInv, IInv', Stable, NEW c \in Call, Chain(c), Once(c), Group(c)
  PROVE  Chain(c)' /\ Once(c)'
<1>1. PICK f \in Fact : f = Turn(c)
  BY TurnIsAFact DEF IInv
<1>2. Issue(c, {f}, {}, "GROUPED", "none", {})
  BY <1>1 DEF Group, Issue
<1>3. PICK n \in Slot : /\ n = NewAddress /\ memory'[n].cohort = c
                        /\ Validates(n, "GROUPED", "none", None)'
  BY <1>2, IssuedIsValid DEF Unbuilt
<1>4. /\ local'[c]["groups"] = local[c]["groups"] \union {n}
      /\ \A k \in Names \ {"groups"} : local'[c][k] = local[c][k]
  BY <1>3, KeepChanges DEF Group, Names
<1>5. phase[c] = "group" /\ phase'[c] \in {"group", "classify"}
  BY AdvanceFacts DEF Group, At, Running
<1>6. \A k \in Later : local'[c][k] = {}
  BY <1>4, <1>5 DEF Once, Tidy, Unused, Later, Names
<1>7. Once(c)'
  BY <1>5, <1>6, OnceNothing DEF Running
<1>8. GroupValidates(n)'
  BY <1>3 DEF GroupValidates
<1>9. Chain(c)'
  BY <1>3, <1>4, <1>5, <1>8, ChainKeeps DEF Names, DecisionNames
<1> QED
  BY <1>7, <1>9

LEMMA CopyGroupPipes ==
  ASSUME IInv, IInv', Stable, NEW c \in Call, Chain(c), Once(c), CopyGroup(c)
  PROVE  Chain(c)' /\ Once(c)'
<1>1. PICK n \in Slot : n = NewAddress /\ memory[n] = None
  BY RoomIsFree DEF CopyGroup
<1>2. PICK g \in local[c]["groups"] :
        /\ memory' = [memory EXCEPT ![n] = [memory[g] EXCEPT !.copied = TRUE]]
        /\ local' = [local EXCEPT ![c].groups = (@ \ {g}) \union {n}]
  BY <1>1 DEF CopyGroup, Now
<1>3. memory[g] \in Record /\ memory[g].cohort = c
  BY NowIsLive, RecordFacts DEF Names, IInv, Chain
<1>4. memory'[n] = [memory[g] EXCEPT !.copied = TRUE]
  BY <1>1, <1>2 DEF IInv, TypeOK
<1>5. PICK r \in Record : r = memory[g]
  BY <1>3
<1>6. memory'[n].copied = TRUE /\ memory'[n].cohort = c
  BY <1>3, <1>4, <1>5 DEF Record
<1>7. /\ local'[c]["groups"] = (local[c]["groups"] \ {g}) \union {n}
      /\ \A k \in Names \ {"groups"} : local'[c][k] = local[c][k]
  BY <1>2 DEF IInv, TypeOK, Names
<1>8. phase[c] = "classify" /\ phase'[c] = "classify"
  BY DEF CopyGroup, At
<1>9. \A k \in Later : local'[c][k] = {}
  BY <1>7, <1>8 DEF Once, Tidy, Unused, Later, Names
<1>10. Once(c)'
  BY <1>8, <1>9, OnceNothing DEF Running
<1>11. Chain(c)'
  BY <1>6, <1>7, <1>8, ChainKeeps DEF Names, DecisionNames
<1> QED
  BY <1>10, <1>11

\* A decision on a good group is good.
LEMMA NewDecision ==
  ASSUME IInv, IInv', Stable, NEW c \in Call, NEW d \in Slot,
         \/ Validates(d, "CLASSIFIED", "GROUPED", None)'
         \/ Validates(d, "COORDINATED", "CLASSIFIED", None)',
         memory'[d].cohort = c,
         \A g \in Refs(d)' : g \in Slot /\ memory'[g] = memory[g] /\ GoodGroup(g, c)
  PROVE  GoodDecision(d, c)'
<1>1. ASSUME NEW g \in Refs(d)'
      PROVE  GroupValidates(g)' /\ memory'[g].cohort = c
  BY <1>1, ValidatesKeeps DEF GoodGroup, GroupValidates
<1> QED
  BY <1>1 DEF GoodDecision, DecisionValidates

LEMMA ClassifyPipes ==
  ASSUME IInv, IInv', Stable, NEW c \in Call, Chain(c), Once(c), Classify(c)
  PROVE  Chain(c)' /\ Once(c)'
<1>1. PICK f \in Fact : f = Turn(c)
  BY TurnIsAFact DEF IInv
<1>2. PICK g, P :
        /\ g \in local[c]["groups"] /\ GroupValidates(g)
        /\ P = Tokens({g}) /\ Issue(c, {f}, {g}, "CLASSIFIED", "GROUPED", P)
  BY <1>1 DEF Classify, Issue, Now
<1>3. g \in Slot /\ Live(g) /\ memory'[g] = memory[g] /\ GoodGroup(g, c)
  BY <1>2, KeptFacts DEF Names, Chain, GoodGroup
<1>4. P \in SUBSET Token
  BY <1>2, <1>3, TokensAreTokens DEF IInv
<1>5. PICK n \in Slot : /\ n = NewAddress /\ memory'[n].cohort = c /\ Refs(n)' = {g}
                        /\ Validates(n, "CLASSIFIED", "GROUPED", None)'
  <2>1. PICK F \in SUBSET Fact, R \in SUBSET Slot : F = {f} /\ R = {g}
    BY <1>3
  <2>2. Issue(c, F, R, "CLASSIFIED", "GROUPED", P)
    BY <1>2, <2>1
  <2>3. PICK n \in Slot : /\ n = NewAddress /\ memory'[n].cohort = c /\ Refs(n)' = R
                          /\ Validates(n, "CLASSIFIED", "GROUPED", None)'
    BY <1>4, <2>2, IssuedIsValid DEF Unbuilt
  <2> QED
    BY <2>1, <2>3
<1>6. GoodDecision(n, c)'
  BY <1>2, <1>3, <1>5, NewDecision
<1>7. /\ local'[c]["classified"] = local[c]["classified"] \union {n}
      /\ \A k \in Names \ {"classified"} : local'[c][k] = local[c][k]
  BY <1>5, KeepChanges DEF Classify, Names
<1>8. phase[c] = "classify" /\ phase'[c] \in {"classify", "resolve"}
  BY AdvanceFacts DEF Classify, At, Running
<1>9. \A k \in Later : local'[c][k] = {}
  BY <1>7, <1>8 DEF Once, Tidy, Unused, Later, Names
<1>10. Once(c)'
  BY <1>8, <1>9, OnceNothing DEF Running
<1>11. Chain(c)'
  BY <1>6, <1>7, <1>8, ChainKeeps DEF Names, DecisionNames
<1> QED
  BY <1>10, <1>11

\* An action that changes what a validation builds, and nothing else.
LEMMA RebuildingKeeps ==
  ASSUME IInv, IInv', Stable, NEW c \in Call, Chain(c), Once(c), UNCHANGED <<phase, todo>>,
         \A k \in Names \ {"rebuilt"} : local'[c][k] = local[c][k],
         NEW n, local'[c]["rebuilt"] \subseteq {n},
         \A a \in local'[c]["rebuilt"] :
           /\ GoodRebuilt(a, c)'
           /\ phase[c] \in {"resolve", "coordinate"} => memory'[a].about = {Turn(c)},
         "rebuilt" \notin Unused(phase[c])
  PROVE  Chain(c)' /\ Once(c)'
<1>1. phase[c] \in {"check", "published"} => ResultValidates(c)'
  BY ResultKeeps DEF Chain, Names
<1>2. Chain(c)'
  BY <1>1, ChainKeeps DEF Names, DecisionNames
<1>3. \A k \in Counted : local'[c][k] = local[c][k]
  BY DEF Counted, Names
<1>4. \A k \in Unused(phase[c]) : local'[c][k] = {}
  BY UnusedNames DEF Once, Tidy
<1>5. \A a \in local'[c]["rebuilt"], b \in local'[c]["rebuilt"] : a = b
  OBVIOUS
<1>6. Once(c)'
  BY <1>3, <1>4, <1>5, OnceKeeps
<1> QED
  BY <1>2, <1>6

LEMMA RevalidatedFacts ==
  ASSUME IInv, Stable, NEW c \in Call, NEW d \in Revalidated(c)
  PROVE  /\ \E n \in DecisionNames : d \in local[c][n]
         /\ phase[c] \in {"resolve", "coordinate"} => memory[d].about = {Turn(c)}
         /\ "rebuilt" \notin Unused(phase[c])
<1>1. CASE phase[c] = "resolve"
  BY <1>1 DEF Revalidated, Now, DecisionNames, Unused
<1>2. CASE phase[c] = "coordinate"
  BY <1>2 DEF Revalidated, Now, DecisionNames, Unused
<1>3. CASE phase[c] \in {"base", "check", "published"}
  BY <1>3 DEF Revalidated, DecisionNames, Unused
<1> QED
  BY <1>1, <1>2, <1>3 DEF Revalidated

LEMMA RebuildGroupPipes ==
  ASSUME IInv, IInv', Stable, NEW c \in Call, Chain(c), Once(c), RebuildGroup(c)
  PROVE  Chain(c)' /\ Once(c)'
<1>1. PICK d, F :
        /\ d \in Revalidated(c) /\ F = memory[d].about /\ Issue(c, F, {}, "GROUPED", "none", {})
  BY DEF RebuildGroup, Issue
<1>2. d \in Slot /\ Live(d)
  BY <1>1, RevalidatedIsLive
<1>3. F \in SUBSET Fact
  BY <1>1, <1>2, RecordFacts DEF IInv
<1>4. PICK n \in Slot : /\ n = NewAddress /\ memory'[n].cohort = c /\ memory'[n].about = F
                        /\ (Auth(n)').stage = "GROUPED"
                        /\ Validates(n, "GROUPED", "none", None)'
  BY <1>1, <1>3, IssuedIsValid DEF Unbuilt
<1>5. /\ local'[c]["rebuilt"] = local[c]["rebuilt"] \union {n}
      /\ \A k \in Names \ {"rebuilt"} : local'[c][k] = local[c][k]
  BY <1>4, KeepChanges DEF RebuildGroup, Names
<1>6. local'[c]["rebuilt"] = {n}
  BY <1>5 DEF RebuildGroup
<1>7. GoodRebuilt(n, c)'
  BY <1>4 DEF GoodRebuilt, GoodGroup, GroupValidates
<1>8. UNCHANGED <<phase, todo>>
  BY DEF RebuildGroup
<1> QED
  BY <1>1, <1>4, <1>5, <1>6, <1>7, <1>8, RevalidatedFacts, RebuildingKeeps

LEMMA RebuildDecisionPipes ==
  ASSUME IInv, IInv', Stable, NEW c \in Call, Chain(c), Once(c), RebuildDecision(c)
  PROVE  Chain(c)' /\ Once(c)'
<1>1. PICK g, F, P :
        /\ g \in local[c]["rebuilt"] /\ Auth(g).stage = "GROUPED"
        /\ F = memory[g].about /\ P = Tokens({g})
        /\ Issue(c, F, {g}, "CLASSIFIED", "GROUPED", P)
  BY DEF RebuildDecision, Issue, OfStage
<1>2. g \in Slot /\ Live(g) /\ memory'[g] = memory[g] /\ GoodGroup(g, c)
  BY <1>1, KeptFacts DEF Names, Chain, GoodRebuilt
<1>3. F \in SUBSET Fact /\ P \in SUBSET Token
  BY <1>1, <1>2, RecordFacts, TokensAreTokens DEF IInv
<1>4. PICK n \in Slot : /\ n = NewAddress /\ memory'[n].cohort = c /\ memory'[n].about = F
                        /\ (Auth(n)').stage = "CLASSIFIED" /\ Refs(n)' = {g}
                        /\ Validates(n, "CLASSIFIED", "GROUPED", None)'
  <2>1. PICK R \in SUBSET Slot : R = {g}
    BY <1>2
  <2>2. Issue(c, F, R, "CLASSIFIED", "GROUPED", P)
    BY <1>1, <2>1
  <2>3. PICK n \in Slot : /\ n = NewAddress /\ memory'[n].cohort = c /\ memory'[n].about = F
                          /\ (Auth(n)').stage = "CLASSIFIED" /\ Refs(n)' = R
                          /\ Validates(n, "CLASSIFIED", "GROUPED", None)'
    BY <1>3, <2>2, IssuedIsValid DEF Unbuilt
  <2> QED
    BY <2>1, <2>3
<1>5. GoodRebuilt(n, c)'
  BY <1>2, <1>4, NewDecision DEF GoodRebuilt
<1>6. /\ local'[c]["rebuilt"] = {n}
      /\ \A k \in Names \ {"rebuilt"} : local'[c][k] = local[c][k]
  BY <1>4 DEF RebuildDecision, IInv, TypeOK, Names
<1>7. phase[c] \in {"resolve", "coordinate"} => memory[g].about = {Turn(c)}
  BY <1>1 DEF Once, Rebuilding
<1>8. "rebuilt" \notin Unused(phase[c])
  BY <1>1 DEF Once, Tidy
<1>9. UNCHANGED <<phase, todo>>
  BY DEF RebuildDecision
<1> QED
  BY <1>1, <1>4, <1>5, <1>6, <1>7, <1>8, <1>9, RebuildingKeeps

LEMMA DropRebuiltPipes ==
  ASSUME IInv, IInv', Stable, NEW c \in Call, Chain(c), Once(c), DropRebuilt(c)
  PROVE  Chain(c)' /\ Once(c)'
<1>1. /\ local'[c]["rebuilt"] = {}
      /\ \A k \in Names \ {"rebuilt"} : local'[c][k] = local[c][k]
  BY DEF DropRebuilt, IInv, TypeOK, Names
<1>2. "rebuilt" \notin Unused(phase[c])
  BY DEF DropRebuilt, At, Unused
<1>3. UNCHANGED <<phase, todo>>
  BY DEF DropRebuilt
<1> QED
  BY <1>1, <1>2, <1>3, RebuildingKeeps

\* What is added to a kind, of the fact taken, is the first of that fact.
LEMMA OneMore ==
  ASSUME IInv, Stable, NEW c \in Call, NEW name \in Names, NEW N, Turn(c) \in Facts[c],
         OneOfEach(c, name), \A a \in local[c][name] : memory[a].about # {Turn(c)},
         \A a \in N : memory'[a].about = {Turn(c)}, \A a, b \in N : a = b,
         local'[c][name] = local[c][name] \union N
  PROVE  OneOfEach(c, name)'
<1>1. PICK f : f = Turn(c)
  OBVIOUS
<1>2. \A a \in local[c][name] : memory'[a] = memory[a]
  BY KeptFacts
<1>3. \A a \in N : memory'[a].about = {f}
  BY <1>1
<1>4. \A a \in local'[c][name] : \E x \in Facts[c] : memory'[a].about = {x}
  BY <1>1, <1>2, <1>3 DEF OneOfEach
<1>5. \A a, b \in local'[c][name] : memory'[a].about = memory'[b].about => a = b
  BY <1>1, <1>2, <1>3 DEF OneOfEach
<1> QED
  BY <1>4, <1>5 DEF OneOfEach

LEMMA SameKind ==
  ASSUME IInv, Stable, NEW c \in Call, NEW name \in Names, OneOfEach(c, name),
         local'[c][name] \subseteq local[c][name]
  PROVE  OneOfEach(c, name)'
<1>1. \A a \in local'[c][name] : a \in local[c][name] /\ memory'[a] = memory[a]
  BY KeptFacts
<1> QED
  BY <1>1 DEF OneOfEach

LEMMA ResolvePipes ==
  ASSUME IInv, IInv', Stable, NEW c \in Call, Chain(c), Once(c), Resolve(c)
  PROVE  Chain(c)' /\ Once(c)'
<1>1. PICK N : N = Rebuilt(c) /\ N \subseteq local[c]["rebuilt"]
  BY DEF Rebuilt, OfStage
<1>2. /\ local'[c]["canonical"] = local[c]["canonical"] \union N /\ local'[c]["rebuilt"] = {}
      /\ \A k \in Names \ {"canonical", "rebuilt"} : local'[c][k] = local[c][k]
  <2>1. local \in [Call -> [Names -> SUBSET Slot]]
    BY DEF IInv, TypeOK
  <2>2. local' = [local EXCEPT ![c]["canonical"] = @ \union N, ![c]["rebuilt"] = {}]
    BY <1>1 DEF Resolve
  <2> QED
    BY <2>1, <2>2 DEF Names
<1>3. phase[c] = "resolve"
  BY DEF Resolve, At
<1>4. /\ Turn(c) \in todo[c] /\ Turn(c) \in Facts[c]
      /\ \/ phase'[c] = "resolve" /\ todo'[c] = todo[c] \ {Turn(c)}
         \/ phase'[c] = "coordinate"
  BY <1>3, AdvanceFacts DEF Resolve, Running
<1>5. Chain(c)'
  BY <1>1, <1>2, <1>4, ChainKeeps DEF Names, DecisionNames
<1>6. Tidy(c) /\ Rebuilding(c) /\ Taken(c) /\ OneOfEach(c, "canonical")
  BY DEF Once
<1>7. \A n \in {"decisions", "bases", "relations", "facts", "graph"} : local'[c][n] = {}
  BY <1>2, <1>3, <1>6 DEF Tidy, Unused, Names
<1>8. Tidy(c)'
  BY <1>4, <1>7 DEF Tidy, Unused
<1>9. Rebuilding(c)'
  BY <1>2 DEF Rebuilding
<1>10. /\ \A a \in N : memory[a].about = {Turn(c)} /\ memory'[a] = memory[a]
       /\ \A a, b \in N : a = b
       /\ \A a \in local[c]["canonical"] : memory[a].about # {Turn(c)} /\ memory'[a] = memory[a]
  BY <1>1, <1>3, <1>4, <1>6, KeptFacts DEF Rebuilding, Taken, Made, Names
<1>11. OneOfEach(c, "canonical")'
  <2>1. \A a \in N : memory'[a].about = {Turn(c)}
    BY <1>10
  <2>2. \A a \in local[c]["canonical"] : memory[a].about # {Turn(c)}
    BY <1>10
  <2>3. local'[c]["canonical"] = local[c]["canonical"] \union N
    BY <1>2
  <2> QED
    BY <1>4, <1>6, <1>10, <2>1, <2>2, <2>3, OneMore DEF Names
<1>12. OneOfEach(c, "decisions")' /\ OneOfEach(c, "bases")'
  BY <1>7 DEF OneOfEach
<1>13. Taken(c)'
  <2>1. CASE phase'[c] = "resolve" /\ todo'[c] = todo[c] \ {Turn(c)}
    <3>1. Made(c)' = local[c]["canonical"] \union N
      BY <1>2, <2>1 DEF Made
    <3>2. ASSUME NEW a \in local[c]["canonical"] \union N, NEW x \in todo'[c]
          PROVE  memory'[a].about # {x}
      <4>1. x \in todo[c] /\ x # Turn(c)
        BY <2>1
      <4>2. CASE a \in N
        BY <1>10, <4>1, <4>2
      <4>3. CASE a \in local[c]["canonical"]
        BY <1>3, <1>6, <1>10, <4>1, <4>3 DEF Taken, Made
      <4> QED
        BY <4>2, <4>3
    <3> QED
      BY <3>1, <3>2 DEF Taken
  <2>2. CASE phase'[c] = "coordinate"
    BY <1>7, <2>2 DEF Taken, Made
  <2> QED
    BY <1>4, <2>1, <2>2
<1>14. Complete(c)'
  BY <1>4, <1>7 DEF Complete, MadeFrom
<1>15. Once(c)'
  BY <1>8, <1>9, <1>11, <1>12, <1>13, <1>14 DEF Once
<1> QED
  BY <1>5, <1>15

\* The coordinator is through with one decision.
LEMMA DecidedOnce ==
  ASSUME IInv, IInv', Stable, NEW c \in Call, Once(c), phase[c] = "coordinate", NEW N,
         \A a \in N : memory'[a].about = {Turn(c)}, \A a, b \in N : a = b,
         local'[c]["decisions"] = local[c]["decisions"] \union N, local'[c]["rebuilt"] = {},
         local'[c]["canonical"] \subseteq local[c]["canonical"],
         \A k \in Names \ {"canonical", "rebuilt", "decisions"} : local'[c][k] = local[c][k],
         Advance(c, "base")
  PROVE  Once(c)'
<1>1. /\ Turn(c) \in todo[c] /\ Turn(c) \in Facts[c]
      /\ \/ phase'[c] = "coordinate" /\ todo'[c] = todo[c] \ {Turn(c)}
         \/ phase'[c] = "base" /\ todo'[c] = Facts[c]
  BY AdvanceFacts DEF Running
<1>2. Tidy(c) /\ Taken(c) /\ OneOfEach(c, "canonical") /\ OneOfEach(c, "decisions")
  BY DEF Once
<1>3. \A n \in {"bases", "relations", "facts", "graph"} : local'[c][n] = {}
  BY <1>2 DEF Tidy, Unused, Names
<1>4. Tidy(c)'
  BY <1>1, <1>3 DEF Tidy, Unused
<1>5. Rebuilding(c)'
  BY DEF Rebuilding
<1>6. \A a \in local[c]["decisions"] : memory[a].about # {Turn(c)} /\ memory'[a] = memory[a]
  BY <1>1, <1>2, KeptFacts DEF Taken, Made, Names
<1>7. OneOfEach(c, "decisions")'
  BY <1>1, <1>2, <1>6, OneMore DEF Names
<1>8. OneOfEach(c, "canonical")' /\ OneOfEach(c, "bases")'
  BY <1>2, <1>3, SameKind DEF OneOfEach, Names
<1>9. Taken(c)'
  <2>1. CASE phase'[c] = "coordinate" /\ todo'[c] = todo[c] \ {Turn(c)}
    <3>1. Made(c)' = local[c]["decisions"] \union N
      BY <2>1 DEF Made
    <3>2. ASSUME NEW a \in local[c]["decisions"] \union N, NEW x \in todo'[c]
          PROVE  memory'[a].about # {x}
      <4>1. x \in todo[c] /\ x # Turn(c)
        BY <2>1
      <4>2. CASE a \in N
        BY <4>1, <4>2
      <4>3. CASE a \in local[c]["decisions"]
        BY <1>2, <1>6, <4>1, <4>3 DEF Taken, Made
      <4> QED
        BY <4>2, <4>3
    <3> QED
      BY <3>1, <3>2 DEF Taken
  <2>2. CASE phase'[c] = "base"
    BY <1>3, <2>2 DEF Taken, Made
  <2> QED
    BY <1>1, <2>1, <2>2
<1>10. Complete(c)'
  <2>1. MadeFrom(c, "bases", "decisions")' /\ MadeFrom(c, "facts", "bases")'
    BY <1>3 DEF MadeFrom
  <2>2. phase'[c] = "base" => MadeFromAll(c, "bases", "decisions", "base")'
    BY <1>1, <1>7 DEF MadeFromAll, OneOfEach
  <2> QED
    BY <1>1, <2>1, <2>2 DEF Complete
<1> QED
  BY <1>4, <1>5, <1>7, <1>8, <1>9, <1>10 DEF Once

LEMMA DecidedChanges ==
  ASSUME IInv, NEW c \in Call, NEW N, Decided(c, N), NEW C,
         C = IF todo[c] = {Turn(c)} THEN {} ELSE local[c]["canonical"]
  PROVE  /\ local'[c]["decisions"] = local[c]["decisions"] \union N
         /\ local'[c]["rebuilt"] = {} /\ local'[c]["canonical"] = C
         /\ \A k \in Names \ {"canonical", "rebuilt", "decisions"} : local'[c][k] = local[c][k]
<1> DEFINE L == [local[c] EXCEPT !["decisions"] = local[c]["decisions"] \union N,
                                 !["rebuilt"] = {}, !["canonical"] = C]
<1>1. local' = [local EXCEPT ![c] = L]
  BY DEF Decided
<1>2. local \in [Call -> Locals] /\ local[c] \in Locals
  BY DEF IInv, TypeOK, Locals
<1>3. /\ L["decisions"] = local[c]["decisions"] \union N /\ L["rebuilt"] = {} /\ L["canonical"] = C
      /\ \A k \in Names \ {"canonical", "rebuilt", "decisions"} : L[k] = local[c][k]
  BY <1>2 DEF Locals, Names
<1> HIDE DEF L
<1>4. local'[c] = L
  BY <1>1, <1>2
<1> QED
  BY <1>3, <1>4

LEMMA RetainPipes ==
  ASSUME IInv, IInv', Stable, NEW c \in Call, Chain(c), Once(c), Retain(c)
  PROVE  Chain(c)' /\ Once(c)'
<1>1. PICK N : N = Now(c, "canonical")
  OBVIOUS
<1>2. PICK C \in SUBSET local[c]["canonical"] :
        C = IF todo[c] = {Turn(c)} THEN {} ELSE local[c]["canonical"]
  OBVIOUS
<1>3. /\ local'[c]["decisions"] = local[c]["decisions"] \union N /\ local'[c]["rebuilt"] = {}
      /\ local'[c]["canonical"] = C
      /\ \A k \in Names \ {"canonical", "rebuilt", "decisions"} : local'[c][k] = local[c][k]
  BY <1>1, <1>2, DecidedChanges DEF Retain
<1>4. phase[c] = "coordinate" /\ Advance(c, "base")
  BY DEF Retain, At
<1>5. phase'[c] \in {"coordinate", "base"}
  BY <1>4, AdvanceFacts DEF Running
<1>6. N \subseteq local[c]["canonical"] /\ \A a \in N : memory[a].about = {Turn(c)}
  BY <1>1 DEF Now
<1>7. Chain(c)'
  BY <1>3, <1>5, <1>6, ChainKeeps DEF Names, DecisionNames
<1>8. (\A a \in N : memory'[a].about = {Turn(c)}) /\ \A a, b \in N : a = b
  <2>1. OneOfEach(c, "canonical")
    BY DEF Once
  <2>2. \A a \in local[c]["canonical"] : memory'[a] = memory[a]
    BY KeptFacts DEF Names
  <2> QED
    BY <1>6, <2>1, <2>2 DEF OneOfEach
<1>9. Once(c)'
  BY <1>3, <1>4, <1>8, DecidedOnce
<1> QED
  BY <1>7, <1>9

LEMMA CoordinatePipes ==
  ASSUME IInv, IInv', Stable, NEW c \in Call, Chain(c), Once(c), Coordinate(c)
  PROVE  Chain(c)' /\ Once(c)'
<1>1. PICK f \in Fact : f = Turn(c)
  BY TurnIsAFact DEF IInv
<1>2. PICK p, R, P :
        /\ p \in local[c]["rebuilt"] /\ Auth(p).stage = "CLASSIFIED" /\ R = Refs(p) /\ P = Tokens({p})
        /\ Issue(c, {f}, R, "COORDINATED", "CLASSIFIED", P)
  BY <1>1 DEF Coordinate, Issue, Rebuilt, OfStage
<1>3. p \in Slot /\ Live(p) /\ memory'[p] = memory[p] /\ GoodDecision(p, c)
  BY <1>2, KeptFacts DEF Names, Chain, GoodRebuilt
<1>4. R \in SUBSET Slot /\ P \in SUBSET Token
  BY <1>2, <1>3, RecordFacts, TokensAreTokens DEF IInv
<1>5. \A g \in R : g \in Slot /\ memory'[g] = memory[g] /\ GoodGroup(g, c)
  BY <1>2, <1>3, StableRefs DEF GoodDecision, DecisionValidates, GoodGroup
<1>6. PICK n \in Slot : /\ n = NewAddress /\ memory'[n].cohort = c /\ memory'[n].about = {f}
                        /\ Refs(n)' = R
                        /\ Validates(n, "COORDINATED", "CLASSIFIED", None)'
  <2>1. PICK F \in SUBSET Fact : F = {f}
    OBVIOUS
  <2>2. Issue(c, F, R, "COORDINATED", "CLASSIFIED", P)
    BY <1>2, <2>1
  <2>3. PICK n \in Slot : /\ n = NewAddress /\ memory'[n].cohort = c /\ memory'[n].about = F
                          /\ Refs(n)' = R
                          /\ Validates(n, "COORDINATED", "CLASSIFIED", None)'
    BY <1>4, <2>2, IssuedIsValid DEF Unbuilt
  <2> QED
    BY <2>1, <2>3
<1>7. GoodDecision(n, c)'
  BY <1>5, <1>6, NewDecision
<1>8. PICK C \in SUBSET local[c]["canonical"] :
        C = IF todo[c] = {Turn(c)} THEN {} ELSE local[c]["canonical"]
  OBVIOUS
<1>9. /\ local'[c]["decisions"] = local[c]["decisions"] \union {n} /\ local'[c]["rebuilt"] = {}
      /\ local'[c]["canonical"] = C
      /\ \A k \in Names \ {"canonical", "rebuilt", "decisions"} : local'[c][k] = local[c][k]
  <2>1. PICK N : N = {n}
    OBVIOUS
  <2>2. Decided(c, N)
    BY <1>6, <2>1 DEF Coordinate, Decided
  <2> QED
    BY <1>8, <2>1, <2>2, DecidedChanges
<1>10. phase[c] = "coordinate" /\ Advance(c, "base")
  BY DEF Coordinate, At
<1>11. phase'[c] \in {"coordinate", "base"}
  BY <1>10, AdvanceFacts DEF Running
<1>12. Chain(c)'
  BY <1>7, <1>9, <1>11, ChainKeeps DEF Names, DecisionNames
<1>13. Once(c)'
  <2>1. PICK N : N = {n}
    OBVIOUS
  <2>2. (\A a \in N : memory'[a].about = {Turn(c)}) /\ \A a, b \in N : a = b
    BY <1>1, <1>6, <2>1
  <2> QED
    BY <1>9, <1>10, <2>1, <2>2, DecidedOnce
<1> QED
  BY <1>12, <1>13

\* One more of a kind is made from the only one before of the fact taken.
LEMMA OneMoreMade ==
  ASSUME IInv, Stable, NEW c \in Call, NEW name \in Names, NEW before \in Names \ {name}, NEW p,
         NEW d \in local[c][before], NEW n, memory[d].about = {Turn(c)},
         OneOfEach(c, before), MadeFromAll(c, name, before, p),
         Refs(n)' = {d}, \A b \in local[c][name] : Refs(b)' = Refs(b),
         local'[c][name] = local[c][name] \union {n}, local'[c][before] = local[c][before],
         \/ phase'[c] = p /\ todo'[c] = todo[c] \ {Turn(c)}
         \/ phase'[c] # p /\ todo[c] = {Turn(c)}
  PROVE  MadeFromAll(c, name, before, p)'
<1>1. PICK f : f = Turn(c)
  OBVIOUS
<1>2. ASSUME NEW e \in local[c][before]
      PROVE  \/ phase'[c] = p /\ \E x \in todo'[c] : memory'[e].about = {x}
             \/ \E b \in local'[c][name] : Refs(b)' = {e}
  <2>1. memory'[e] = memory[e]
    BY KeptFacts
  <2>2. CASE \E b \in local[c][name] : Refs(b) = {e}
    BY <2>2
  <2>3. CASE phase[c] = p /\ \E x \in todo[c] : memory[e].about = {x}
    <3>1. PICK x \in todo[c] : memory[e].about = {x}
      BY <2>3
    <3>2. CASE x = f
      <4>1. e = d
        BY <1>1, <3>1, <3>2 DEF OneOfEach
      <4> QED
        BY <4>1
    <3>3. CASE x # f
      BY <1>1, <2>1, <3>1, <3>3
    <3> QED
      BY <3>2, <3>3
  <2> QED
    BY <2>2, <2>3 DEF MadeFromAll
<1> QED
  BY <1>2 DEF MadeFromAll

LEMMA BuildBasePipes ==
  ASSUME IInv, IInv', Stable, NEW c \in Call, Chain(c), Once(c), BuildBase(c)
  PROVE  Chain(c)' /\ Once(c)'
<1>1. PICK f \in Fact : f = Turn(c)
  BY TurnIsAFact DEF IInv
<1>2. PICK d, P, s :
        /\ d \in local[c]["decisions"] /\ memory[d].about = {Turn(c)}
        /\ P = Tokens({d}) /\ s = Auth(d).stage /\ Issue(c, {f}, {d}, "BASE_FACT", s, P)
  BY <1>1 DEF BuildBase, Issue, Now
<1>3. d \in Slot /\ Live(d) /\ memory'[d] = memory[d] /\ Auth(d)' = Auth(d) /\ GoodDecision(d, c)
  BY <1>2, KeptFacts DEF Names, Chain, DecisionNames
<1>4. P \in SUBSET Token
  BY <1>2, <1>3, TokensAreTokens DEF IInv
<1>5. PICK n \in Slot : /\ n = NewAddress /\ Live(n)' /\ memory'[n].cohort = c
                        /\ memory'[n].about = {f} /\ Refs(n)' = {d} /\ (Auth(n)').parents = P
                        /\ Validates(n, "BASE_FACT", s, c)'
  <2>1. PICK F \in SUBSET Fact, R \in SUBSET Slot : F = {f} /\ R = {d}
    BY <1>3
  <2>2. Issue(c, F, R, "BASE_FACT", s, P)
    BY <1>2, <2>1
  <2>3. PICK n \in Slot : /\ n = NewAddress /\ Live(n)' /\ memory'[n].cohort = c
                          /\ memory'[n].about = F /\ Refs(n)' = R /\ (Auth(n)').parents = P
                          /\ Validates(n, "BASE_FACT", s, c)'
    BY <1>4, <2>2, IssuedIsValid DEF Unbuilt
  <2> QED
    BY <2>1, <2>3
<1>6. /\ local'[c]["bases"] = local[c]["bases"] \union {n}
      /\ \A k \in Names \ {"bases"} : local'[c][k] = local[c][k]
  BY <1>5, KeepChanges DEF BuildBase, Names
<1>7. phase[c] = "base" /\ local[c]["rebuilt"] = {} /\ Advance(c, "relate")
  BY DEF BuildBase, At
<1>8. /\ Turn(c) \in todo[c] /\ Turn(c) \in Facts[c]
      /\ \/ phase'[c] = "base" /\ todo'[c] = todo[c] \ {Turn(c)}
         \/ phase'[c] = "relate" /\ todo'[c] = Facts[c] /\ todo[c] = {Turn(c)}
  BY <1>7, AdvanceFacts DEF Running
<1>9. GoodBase(n, c)'
  <2>1. DecisionValidates(d)' /\ memory'[d].cohort = c
    BY <1>3, DecisionKeeps DEF GoodDecision
  <2>2. Validates(n, "BASE_FACT", Auth(d).stage, c)'
    BY <1>2, <1>3, <1>5 DEF Validates
  <2>3. (Auth(n)').parents = {(Auth(d)').token}
    BY <1>2, <1>3, <1>5 DEF Tokens
  <2> QED
    BY <1>5, <2>1, <2>2, <2>3 DEF GoodBase, BaseValidates
<1>10. \A k \in {"relations", "facts", "graph"} : local'[c][k] = {}
  BY <1>6, <1>7 DEF Once, Tidy, Unused, Names
<1>11. Chain(c)'
  BY <1>6, <1>8, <1>9, <1>10, ChainKeeps DEF Names, DecisionNames
<1>12. /\ Taken(c) /\ Complete(c) /\ OneOfEach(c, "canonical") /\ OneOfEach(c, "decisions")
       /\ OneOfEach(c, "bases")
  BY DEF Once
<1>13. Tidy(c)' /\ Rebuilding(c)'
  BY <1>6, <1>7, <1>8, <1>10 DEF Tidy, Unused, Rebuilding, Names
<1>14. \A a \in local[c]["bases"] : /\ memory[a].about # {Turn(c)}
                                    /\ memory'[a] = memory[a] /\ Refs(a)' = Refs(a)
  BY <1>7, <1>8, <1>12, KeptFacts DEF Taken, Made, Names
<1>15. OneOfEach(c, "bases")'
  <2>1. PICK N : N = {n}
    OBVIOUS
  <2>2. (\A a \in N : memory'[a].about = {Turn(c)}) /\ \A a, b \in N : a = b
    BY <1>1, <1>5, <2>1
  <2>3. \A a \in local[c]["bases"] : memory[a].about # {Turn(c)}
    BY <1>14
  <2> QED
    BY <1>6, <1>8, <1>12, <2>1, <2>2, <2>3, OneMore DEF Names
<1>16. OneOfEach(c, "canonical")' /\ OneOfEach(c, "decisions")'
  BY <1>6, <1>12, SameKind DEF Names
<1>17. Taken(c)'
  <2>1. CASE phase'[c] = "base" /\ todo'[c] = todo[c] \ {Turn(c)}
    <3>1. Made(c)' = local[c]["bases"] \union {n}
      BY <1>6, <2>1 DEF Made
    <3>2. ASSUME NEW a \in local[c]["bases"] \union {n}, NEW x \in todo'[c]
          PROVE  memory'[a].about # {x}
      <4>1. x \in todo[c] /\ x # f
        BY <1>1, <2>1
      <4>2. CASE a = n
        BY <1>5, <4>1, <4>2
      <4>3. CASE a \in local[c]["bases"]
        BY <1>7, <1>12, <1>14, <4>1, <4>3 DEF Taken, Made
      <4> QED
        BY <4>2, <4>3
    <3> QED
      BY <3>1, <3>2 DEF Taken
  <2>2. CASE phase'[c] = "relate"
    BY <2>2 DEF Taken, Made
  <2> QED
    BY <1>8, <2>1, <2>2
<1>18. Complete(c)'
  <2>1. MadeFrom(c, "bases", "decisions")'
    <3>1. local'[c]["decisions"] = local[c]["decisions"]
      BY <1>6 DEF Names
    <3>2. \A e \in local[c]["decisions"] : memory'[e] = memory[e]
      BY KeptFacts DEF Names
    <3>3. ASSUME NEW b \in local'[c]["bases"]
          PROVE  \E e \in local'[c]["decisions"] : Refs(b)' = {e} /\ memory'[b].about = memory'[e].about
      <4>1. CASE b = n
        BY <1>1, <1>2, <1>5, <3>1, <3>2, <4>1
      <4>2. CASE b \in local[c]["bases"]
        BY <1>12, <1>14, <3>1, <3>2, <4>2 DEF Complete, MadeFrom
      <4> QED
        BY <1>6, <3>3, <4>1, <4>2
    <3> QED
      BY <3>3 DEF MadeFrom
  <2>2. MadeFrom(c, "facts", "bases")'
    BY <1>10 DEF MadeFrom
  <2>3. MadeFromAll(c, "bases", "decisions", "base")
    BY <1>7, <1>12 DEF Complete
  <2>4. \A b \in local[c]["bases"] : Refs(b)' = Refs(b)
    BY <1>14
  <2>5. local'[c]["decisions"] = local[c]["decisions"]
    BY <1>6 DEF Names
  <2>6. MadeFromAll(c, "bases", "decisions", "base")'
    <3>1. \/ phase'[c] = "base" /\ todo'[c] = todo[c] \ {Turn(c)}
          \/ phase'[c] # "base" /\ todo[c] = {Turn(c)}
      BY <1>8
    <3>2. "bases" \in Names /\ "decisions" \in Names \ {"bases"}
      BY DEF Names
    <3>3. local'[c]["bases"] = local[c]["bases"] \union {n} /\ Refs(n)' = {d}
      BY <1>5, <1>6
    <3>4. OneOfEach(c, "decisions") /\ d \in local[c]["decisions"] /\ memory[d].about = {Turn(c)}
      BY <1>2, <1>12
    <3> QED
      BY <2>3, <2>4, <2>5, <3>1, <3>2, <3>3, <3>4, OneMoreMade
  <2> QED
    BY <1>8, <2>1, <2>2, <2>6 DEF Complete
<1>19. Once(c)'
  BY <1>13, <1>15, <1>16, <1>17, <1>18 DEF Once
<1> QED
  BY <1>11, <1>19

LEMMA RelatePipes ==
  ASSUME IInv, IInv', Stable, NEW c \in Call, Chain(c), Once(c), Relate(c)
  PROVE  Chain(c)' /\ Once(c)'
<1>1. PICK F, S, P :
        /\ F \in SUBSET Fact
        /\ S = {b \in local[c]["bases"] : memory[b].about \subseteq F} /\ P = Tokens(S)
        /\ Issue(c, F, {}, "MATERIALIZED_RELATION", "BASE_FACT", P)
  <2>1. PICK f, g, S, P :
          /\ f \in Facts[c] /\ g \in Facts[c]
          /\ S = {b \in local[c]["bases"] : memory[b].about \subseteq {f, g}} /\ P = Tokens(S)
          /\ Issue(c, {f, g}, {}, "MATERIALIZED_RELATION", "BASE_FACT", P)
    BY DEF Relate, Issue
  <2>2. PICK F : F = {f, g}
    OBVIOUS
  <2>3. Issue(c, F, {}, "MATERIALIZED_RELATION", "BASE_FACT", P)
    BY <2>1, <2>2
  <2>4. F \in SUBSET Fact
    BY <2>1, <2>2, FactsOfCall
  <2> QED
    BY <2>1, <2>2, <2>3, <2>4
<1>2. F \in SUBSET Fact
  BY <1>1
<1>3. S \in SUBSET Slot /\ \A b \in S : Live(b)
  BY <1>1, NowIsLive DEF Names
<1>4. P \in SUBSET Token
  BY <1>1, <1>3, TokensAreTokens DEF IInv
<1>5. PICK n \in Slot : /\ n = NewAddress /\ memory'[n].cohort = c /\ memory'[n].about = F
                        /\ (Auth(n)').parents = P
                        /\ Validates(n, "MATERIALIZED_RELATION", "BASE_FACT", c)'
  <2>1. PICK build, stage, previous, R :
          /\ R \in SUBSET Slot /\ stage = "MATERIALIZED_RELATION" /\ previous = "BASE_FACT" /\ R = {}
          /\ build = c /\ build = IF stage \in Unbuilt THEN None ELSE c
    <3>1. c = IF "MATERIALIZED_RELATION" \in Unbuilt THEN None ELSE c
      BY DEF Unbuilt
    <3>2. {} \in SUBSET Slot
      OBVIOUS
    <3> QED
      BY <3>1, <3>2, Zenon
  <2>2. Issue(c, F, R, stage, previous, P)
    BY <1>1, <2>1
  <2>3. PICK n \in Slot : /\ n = NewAddress /\ memory'[n].cohort = c /\ memory'[n].about = F
                          /\ (Auth(n)').parents = P
                          /\ Validates(n, stage, previous, build)'
    BY <1>2, <1>4, <2>1, <2>2, IssuedIsValid
  <2> QED
    BY <2>1, <2>3
<1>6. /\ local'[c]["relations"] = local[c]["relations"] \union {n}
      /\ \A k \in Names \ {"relations"} : local'[c][k] = local[c][k]
  BY <1>5, KeepChanges DEF Relate, Names
<1>7. phase[c] = "relate" /\ UNCHANGED <<phase, todo>>
  BY DEF Relate, At
<1>8. \A b \in local[c]["bases"] : memory'[b] = memory[b] /\ Auth(b)' = Auth(b)
  BY KeptFacts DEF Names
<1>9. GoodRelation(n, c)'
  <2>1. {b \in local[c]["bases"] : memory[b].about \subseteq memory[n].about}' = S
    BY <1>1, <1>5, <1>6, <1>8 DEF Names
  <2>2. Tokens(S)' = Tokens(S)
    BY <1>1, <1>8 DEF Tokens
  <2>3. (Auth(n)').parents
          = Tokens({b \in local[c]["bases"] : memory[b].about \subseteq memory[n].about})'
    BY <1>1, <1>5, <2>1, <2>2 DEF Tokens
  <2> QED
    BY <1>5, <2>3 DEF GoodRelation
<1>10. Chain(c)'
  BY <1>6, <1>7, <1>9, ChainKeeps DEF Names, DecisionNames
<1>11. \A k \in Counted \union {"rebuilt"} : local'[c][k] = local[c][k]
  BY <1>6 DEF Counted, Names
<1>12. \A k \in Unused(phase[c]) : local'[c][k] = {}
  BY <1>6, <1>7 DEF Once, Tidy, Unused, Names
<1>13. \A a, b \in local'[c]["rebuilt"] : a \in local[c]["rebuilt"] /\ a = b
  BY <1>11 DEF Once, Rebuilding
<1>14. Once(c)'
  BY <1>7, <1>11, <1>12, <1>13, OnceKeeps
<1> QED
  BY <1>10, <1>14

LEMMA EndRelationsPipes ==
  ASSUME IInv, IInv', Stable, NEW c \in Call, Chain(c), Once(c), EndRelations(c)
  PROVE  Chain(c)' /\ Once(c)'
<1>1. phase[c] = "relate" /\ phase'[c] = "fact" /\ UNCHANGED <<memory, todo, local>>
  BY DEF EndRelations, At, IInv, TypeOK
<1>2. Chain(c)'
  BY <1>1, ChainKeeps DEF DecisionNames
<1>3. Tidy(c) /\ Complete(c) /\ Rebuilding(c) /\ \A n \in {"canonical", "decisions", "bases"} : OneOfEach(c, n)
  BY DEF Once
<1>4. Tidy(c)' /\ Rebuilding(c)' /\ Taken(c)'
  BY <1>1, <1>3 DEF Tidy, Unused, Rebuilding, Taken, Made
<1>5. \A n \in {"canonical", "decisions", "bases"} : OneOfEach(c, n)'
  BY <1>1, <1>3 DEF OneOfEach
<1>6. Complete(c)'
  <2>1. MadeFrom(c, "bases", "decisions")' /\ MadeFrom(c, "facts", "bases")'
    BY <1>1, <1>3 DEF Complete, MadeFrom, Refs
  <2>2. MadeFromAll(c, "bases", "decisions", "base")'
    BY <1>1, <1>3 DEF Complete, MadeFromAll, Refs
  <2>3. todo'[c] = Facts[c]
    BY <1>1, <1>3 DEF Tidy
  <2>4. MadeFromAll(c, "facts", "bases", "fact")'
    BY <1>1, <1>3, <2>3 DEF MadeFromAll, OneOfEach
  <2> QED
    BY <2>1, <2>2, <2>4 DEF Complete
<1>7. Once(c)'
  BY <1>4, <1>5, <1>6 DEF Once
<1> QED
  BY <1>2, <1>7

LEMMA MaterializePipes ==
  ASSUME IInv, IInv', Stable, NEW c \in Call, Chain(c), Once(c), Materialize(c)
  PROVE  Chain(c)' /\ Once(c)'
<1>1. PICK f \in Fact : f = Turn(c)
  BY TurnIsAFact DEF IInv
<1>2. PICK b, P :
        /\ b \in local[c]["bases"] /\ memory[b].about = {Turn(c)}
        /\ P = Tokens({b}) /\ Issue(c, {f}, {b}, "MATERIALIZED_FACT", "BASE_FACT", P)
  BY <1>1 DEF Materialize, Issue, Now
<1>3. b \in Slot /\ Live(b) /\ memory'[b] = memory[b] /\ Auth(b)' = Auth(b) /\ GoodBase(b, c)
  BY <1>2, KeptFacts DEF Names, Chain
<1>4. P \in SUBSET Token
  BY <1>2, <1>3, TokensAreTokens DEF IInv
<1>5. PICK n \in Slot : /\ n = NewAddress /\ memory'[n].cohort = c
                        /\ memory'[n].about = {f} /\ Refs(n)' = {b} /\ (Auth(n)').parents = P
                        /\ Validates(n, "MATERIALIZED_FACT", "BASE_FACT", c)'
  <2>1. PICK F \in SUBSET Fact, R \in SUBSET Slot : F = {f} /\ R = {b}
    BY <1>3
  <2>2. Issue(c, F, R, "MATERIALIZED_FACT", "BASE_FACT", P)
    BY <1>2, <2>1
  <2>3. PICK n \in Slot : /\ n = NewAddress /\ memory'[n].cohort = c
                          /\ memory'[n].about = F /\ Refs(n)' = R /\ (Auth(n)').parents = P
                          /\ Validates(n, "MATERIALIZED_FACT", "BASE_FACT", c)'
    BY <1>4, <2>2, IssuedIsValid DEF Unbuilt
  <2> QED
    BY <2>1, <2>3
<1>6. /\ local'[c]["facts"] = local[c]["facts"] \union {n}
      /\ \A k \in Names \ {"facts"} : local'[c][k] = local[c][k]
  BY <1>5, KeepChanges DEF Materialize, Names
<1>7. phase[c] = "fact" /\ Advance(c, "graph")
  BY DEF Materialize, At
<1>8. /\ Turn(c) \in todo[c]
      /\ \/ phase'[c] = "fact" /\ todo'[c] = todo[c] \ {Turn(c)}
         \/ phase'[c] = "graph" /\ todo[c] = {Turn(c)}
  BY <1>7, AdvanceFacts DEF Running
<1>9. FactValidates(n, c, c)'
  <2>1. BaseValidates(b, c, c)' /\ memory'[b].cohort = c
    BY <1>3, BaseKeeps DEF GoodBase
  <2>2. (Auth(n)').parents = {(Auth(b)').token}
    BY <1>2, <1>3, <1>5 DEF Tokens
  <2> QED
    BY <1>5, <2>1, <2>2 DEF FactValidates
<1>10. Chain(c)'
  BY <1>6, <1>8, <1>9, ChainKeeps DEF Names, DecisionNames
<1>11. /\ Tidy(c) /\ Rebuilding(c) /\ Complete(c)
       /\ \A k \in {"canonical", "decisions", "bases"} : OneOfEach(c, k)
  BY DEF Once
<1>12. Tidy(c)' /\ Rebuilding(c)' /\ Taken(c)'
  BY <1>6, <1>7, <1>8, <1>11 DEF Tidy, Unused, Rebuilding, Taken, Made, Names
<1>13. ASSUME NEW k \in {"canonical", "decisions", "bases"}
       PROVE  OneOfEach(c, k)'
  BY <1>6, <1>11, SameKind DEF Names
<1>14. Complete(c)'
  <2>1. \A k \in {"decisions", "bases"} :
          /\ local'[c][k] = local[c][k]
          /\ \A e \in local[c][k] : memory'[e] = memory[e] /\ Refs(e)' = Refs(e)
    BY <1>6, KeptFacts DEF Names
  <2>2. MadeFrom(c, "bases", "decisions")'
    BY <1>11, <2>1 DEF Complete, MadeFrom
  <2>3. \A e \in local[c]["facts"] : memory'[e] = memory[e] /\ Refs(e)' = Refs(e)
    BY KeptFacts DEF Names
  <2>4. MadeFrom(c, "facts", "bases")'
    <3>1. ASSUME NEW a \in local'[c]["facts"]
          PROVE  \E e \in local'[c]["bases"] : Refs(a)' = {e} /\ memory'[a].about = memory'[e].about
      <4>1. CASE a = n
        BY <1>1, <1>2, <1>5, <2>1, <4>1
      <4>2. CASE a \in local[c]["facts"]
        BY <1>11, <2>1, <2>3, <4>2 DEF Complete, MadeFrom
      <4> QED
        BY <1>6, <3>1, <4>1, <4>2
    <3> QED
      BY <3>1 DEF MadeFrom
  <2>5. MadeFromAll(c, "bases", "decisions", "base")'
    BY <1>7, <1>8, <1>11, <2>1 DEF Complete, MadeFromAll
  <2>6. MadeFromAll(c, "facts", "bases", "fact")'
    <3>1. \/ phase'[c] = "fact" /\ todo'[c] = todo[c] \ {Turn(c)}
          \/ phase'[c] # "fact" /\ todo[c] = {Turn(c)}
      BY <1>8
    <3>2. "facts" \in Names /\ "bases" \in Names \ {"facts"}
      BY DEF Names
    <3>3. local'[c]["facts"] = local[c]["facts"] \union {n} /\ Refs(n)' = {b}
      BY <1>5, <1>6
    <3>4. OneOfEach(c, "bases") /\ b \in local[c]["bases"] /\ memory[b].about = {Turn(c)}
      BY <1>2, <1>11
    <3>5. MadeFromAll(c, "facts", "bases", "fact")
      BY <1>7, <1>11 DEF Complete
    <3>6. local'[c]["bases"] = local[c]["bases"] /\ \A a \in local[c]["facts"] : Refs(a)' = Refs(a)
      BY <2>1, <2>3
    <3> QED
      BY <3>1, <3>2, <3>3, <3>4, <3>5, <3>6, OneMoreMade
  <2> QED
    BY <2>2, <2>4, <2>5, <2>6 DEF Complete
<1>15. Once(c)'
  BY <1>12, <1>13, <1>14 DEF Once
<1> QED
  BY <1>10, <1>15

\* The graph is made from all facts and relations, and these from all decisions.
LEMMA BuildGraphPipes ==
  ASSUME IInv, IInv', Stable, NEW c \in Call, Chain(c), Once(c), BuildGraph(c)
  PROVE  Chain(c)' /\ Once(c)'
<1>1. PICK fs, rs, bs, S, s, P :
        /\ fs = local[c]["facts"] /\ rs = local[c]["relations"] /\ bs = local[c]["bases"]
        /\ S = fs \union rs /\ P = Tokens(S) /\ s = LastStage(rs)
        /\ Issue(c, Facts[c], S, "MATERIALIZED_GRAPH", s, P)
  BY DEF BuildGraph, Issue
<1>2. S \in SUBSET Slot /\ \A a \in S : Live(a)
  BY <1>1, NowIsLive DEF Names
<1>3. P \in SUBSET Token /\ Facts[c] \in SUBSET Fact
  BY <1>1, <1>2, TokensAreTokens, FactsOfCall DEF IInv
<1>4. PICK n \in Slot : /\ n = NewAddress /\ Live(n)' /\ memory'[n].cohort = c /\ Refs(n)' = S
                        /\ (Auth(n)').parents = P /\ (Auth(n)').build = c
                        /\ Validates(n, "MATERIALIZED_GRAPH", s, c)'
  <2>1. PICK F \in SUBSET Fact : F = Facts[c]
    BY <1>3
  <2>2. Issue(c, F, S, "MATERIALIZED_GRAPH", s, P)
    BY <1>1, <2>1
  <2>3. c = IF "MATERIALIZED_GRAPH" \in Unbuilt THEN None ELSE c
    BY DEF Unbuilt
  <2> QED
    BY <1>2, <1>3, <2>2, <2>3, IssuedIsValid
<1>5. /\ local'[c]["graph"] = {n}
      /\ \A k \in {"bases", "relations", "facts"} : local'[c][k] = {}
      /\ \A k \in Names \ {"graph", "bases", "relations", "facts"} : local'[c][k] = local[c][k]
  <2> DEFINE L == [local[c] EXCEPT !["graph"] = {n}, !["bases"] = {}, !["relations"] = {},
                                   !["facts"] = {}]
  <2>1. local' = [local EXCEPT ![c] = L]
    BY <1>4 DEF BuildGraph
  <2>2. local \in [Call -> Locals] /\ local[c] \in Locals
    BY DEF IInv, TypeOK, Locals
  <2>3. /\ L["graph"] = {n} /\ \A k \in {"bases", "relations", "facts"} : L[k] = {}
        /\ \A k \in Names \ {"graph", "bases", "relations", "facts"} : L[k] = local[c][k]
    BY <2>2 DEF Locals, Names
  <2> HIDE DEF L
  <2>4. local'[c] = L
    BY <2>1, <2>2
  <2> QED
    BY <2>3, <2>4
<1>6. phase[c] = "graph" /\ phase'[c] = "check"
  BY DEF BuildGraph, At, IInv, TypeOK
<1>7. /\ \A a \in S : memory'[a] = memory[a] /\ Auth(a)' = Auth(a) /\ Refs(a)' = Refs(a) /\ Live(a)'
      /\ \A b \in bs : memory'[b] = memory[b] /\ Auth(b)' = Auth(b) /\ Refs(b)' = Refs(b)
      /\ \A d \in local[c]["decisions"] : memory'[d] = memory[d]
  BY <1>1, KeptFacts DEF Names
<1>8. /\ \A f \in fs : FactValidates(f, c, c)' /\ (Auth(f)').stage = "MATERIALIZED_FACT"
      /\ \A r \in rs : GoodRelation(r, c) /\ (Auth(r)').stage = "MATERIALIZED_RELATION"
  <2>1. \A f \in fs : FactValidates(f, c, c) /\ f \in Slot /\ Live(f) /\ memory'[f] = memory[f]
    BY <1>1, KeptFacts DEF Chain, Names
  <2>2. \A r \in rs : GoodRelation(r, c)
    BY <1>1 DEF Chain
  <2> QED
    BY <1>1, <1>7, <2>1, <2>2, FactKeeps DEF FactValidates, GoodRelation, Validates
<1>9. OfStage(Refs(n), "MATERIALIZED_FACT")' = fs /\ Relations(n)' = rs
  BY <1>1, <1>4, <1>8 DEF OfStage, Relations
<1>10. /\ \A b \in bs : \E d \in local[c]["decisions"] : Refs(b) = {d}
       /\ \A f \in fs : \E b \in bs : Refs(f) = {b}
       /\ \A d \in local[c]["decisions"] : \E b \in bs : Refs(b) = {d}
       /\ \A b \in bs : \E f \in fs : Refs(f) = {b}
  BY <1>1, <1>6 DEF Once, Complete, MadeFrom, MadeFromAll
<1>11. Bases(n)' = bs
  <2>1. Bases(n)' = UNION {Refs(f) : f \in fs}
    BY <1>1, <1>7, <1>9 DEF Bases
  <2>2. ASSUME NEW b \in bs
        PROVE  b \in UNION {Refs(f) : f \in fs}
    <3>1. PICK f \in fs : Refs(f) = {b}
      BY <1>10
    <3> QED
      BY <3>1
  <2>3. ASSUME NEW b \in UNION {Refs(f) : f \in fs}
        PROVE  b \in bs
    <3>1. PICK f \in fs : b \in Refs(f)
      BY <2>3
    <3> QED
      BY <1>10, <3>1
  <2> QED
    BY <2>1, <2>2, <2>3
<1>12. GraphValidates(n)'
  <2>1. \A a \in Refs(n)' : Live(a)'
    BY <1>4, <1>7
  <2>2. \A f \in fs : FactValidates(f, memory[n].cohort, Auth(n).build)'
    BY <1>4, <1>8 DEF FactValidates, Validates, BaseValidates
  <2>3. ASSUME NEW r \in rs
        PROVE  RelationValidates(r, n)'
    <3>1. r \in Slot /\ memory'[r] = memory[r] /\ Auth(r)' = Auth(r) /\ GoodRelation(r, c)
      BY <1>1, <1>2, <1>7, <1>8
    <3>2. Validates(r, "MATERIALIZED_RELATION", "BASE_FACT", c)' /\ memory'[r].cohort = memory'[n].cohort
      BY <1>4, <3>1, ValidatesKeeps DEF GoodRelation
    <3>3. Validates(r, "MATERIALIZED_RELATION", "BASE_FACT", Auth(n).build)'
      BY <1>4, <3>2 DEF Validates
    <3>4. PICK T : T = {b \in bs : memory[b].about \subseteq memory[r].about}
      OBVIOUS
    <3>5. {b \in Bases(n) : memory[b].about \subseteq memory[r].about}' = T
      BY <1>7, <1>11, <3>1, <3>4
    <3>6. Tokens(T)' = Tokens(T) /\ Auth(r).parents = Tokens(T)
      BY <1>1, <1>7, <3>1, <3>4 DEF Tokens, GoodRelation
    <3>7. (Auth(r)').parents = Tokens({b \in Bases(n) : memory[b].about \subseteq memory[r].about})'
      BY <3>1, <3>5, <3>6 DEF Tokens
    <3> QED
      BY <3>2, <3>3, <3>7 DEF RelationValidates
  <2>4. Validates(n, "MATERIALIZED_GRAPH", LastStage(Relations(n)), Auth(n).build)'
    BY <1>1, <1>4, <1>9 DEF Validates, LastStage
  <2>5. (Auth(n)').parents = Tokens(Refs(n))'
    BY <1>1, <1>4, <1>7 DEF Tokens
  <2> QED
    BY <1>9, <2>1, <2>2, <2>3, <2>4, <2>5 DEF GraphValidates
<1>13. ResultValidates(c)'
  <2>1. \A d \in local[c]["decisions"] : DecisionValidates(d)'
    BY KeptFacts, DecisionKeeps DEF Chain, GoodDecision, DecisionNames, Names
  <2>2. (UNION {Refs(b) : b \in Bases(n)})' = local[c]["decisions"]
    <3>1. (UNION {Refs(b) : b \in Bases(n)})' = UNION {Refs(b) : b \in bs}
      BY <1>7, <1>11
    <3>2. ASSUME NEW d \in local[c]["decisions"]
          PROVE  d \in UNION {Refs(b) : b \in bs}
      <4>1. PICK b \in bs : Refs(b) = {d}
        BY <1>10
      <4> QED
        BY <4>1
    <3>3. ASSUME NEW d \in UNION {Refs(b) : b \in bs}
          PROVE  d \in local[c]["decisions"]
      <4>1. PICK b \in bs : d \in Refs(b)
        BY <3>3
      <4> QED
        BY <1>10, <4>1
    <3> QED
      BY <3>1, <3>2, <3>3
  <2>3. local'[c]["decisions"] = local[c]["decisions"]
    BY <1>5 DEF Names
  <2> QED
    BY <1>4, <1>5, <1>12, <2>1, <2>2, <2>3 DEF ResultValidates
<1>14. Chain(c)'
  BY <1>5, <1>6, <1>13, ChainKeeps DEF Names, DecisionNames
<1>15. /\ Rebuilding(c) /\ \A k \in {"canonical", "decisions", "bases"} : OneOfEach(c, k)
  BY DEF Once
<1>16. Tidy(c)' /\ Rebuilding(c)' /\ Taken(c)' /\ Complete(c)'
  BY <1>5, <1>6, <1>15 DEF Tidy, Unused, Rebuilding, Taken, Made, Complete, MadeFrom, Names
<1>17. ASSUME NEW k \in {"canonical", "decisions", "bases"}
       PROVE  OneOfEach(c, k)'
  BY <1>5, <1>15, SameKind DEF Names
<1>18. Once(c)'
  BY <1>16, <1>17 DEF Once
<1> QED
  BY <1>14, <1>18

LEMMA PublishPipes ==
  ASSUME IInv, IInv', Stable, NEW c \in Call, Chain(c), Once(c), Publish(c)
  PROVE  Chain(c)' /\ Once(c)'
<1>1. local'[c] = [Nothing EXCEPT !["graph"] = local[c]["graph"],
                                  !["decisions"] = local[c]["decisions"]]
  BY DEF Publish, IInv, TypeOK
<1>2. /\ \A k \in {"graph", "decisions"} : local'[c][k] = local[c][k]
      /\ \A k \in Names \ {"graph", "decisions"} : local'[c][k] = {}
  BY <1>1 DEF Nothing, Names
<1>3. phase'[c] = "published" /\ ResultValidates(c)
  BY DEF Publish, IInv, TypeOK
<1>4. ResultValidates(c)'
  BY <1>2, <1>3, ResultKeeps
<1>5. Chain(c)'
  BY <1>2, <1>4, ChainKeeps DEF Names, DecisionNames
<1>6. Tidy(c)' /\ Rebuilding(c)' /\ Taken(c)' /\ Complete(c)'
  BY <1>2, <1>3 DEF Tidy, Unused, Rebuilding, Taken, Made, Complete, MadeFrom, Names
<1>7. ASSUME NEW k \in {"canonical", "decisions", "bases"}
      PROVE  OneOfEach(c, k)'
  BY <1>2, SameKind DEF Once, Names
<1>8. Once(c)'
  BY <1>6, <1>7 DEF Once
<1> QED
  BY <1>5, <1>8

LEMMA FailPipes ==
  ASSUME IInv, IInv', Stable, NEW c \in Call, Chain(c), NEW end \in Ended \ {"published"},
         Fail(c, end)
  PROVE  Chain(c)' /\ Once(c)'
<1>1. phase'[c] = end /\ local'[c] = Nothing
  BY DEF Fail, IInv, TypeOK
<1>2. \A k \in Names : local'[c][k] = {}
  BY <1>1, NothingIsLocal
<1>3. Chain(c)'
  BY <1>1, <1>2, ChainKeeps DEF Names, DecisionNames, Ended
<1>4. Once(c)'
  BY <1>1, <1>2, OnceNothing DEF Ended, Later, Names
<1> QED
  BY <1>3, <1>4

LEMMA AgainPipes ==
  ASSUME IInv, IInv', Stable, NEW c \in Call, Chain(c), Once(c), Again(c)
  PROVE  Chain(c)' /\ Once(c)'
<1>1. phase[c] \in {"dropped", "refused", "abandoned"} /\ phase'[c] = "group" /\ local' = local
  BY DEF Again, At, Ended, IInv, TypeOK
<1>2. \A k \in Names : local'[c][k] = {}
  BY <1>1 DEF Once, Tidy, Unused
<1>3. Chain(c)'
  BY <1>1, <1>2, ChainKeeps DEF Names, DecisionNames
<1>4. Once(c)'
  BY <1>1, <1>2, OnceNothing DEF Running, Later, Names
<1> QED
  BY <1>3, <1>4

\* A step of one invocation leaves the others where they are.
Acting(c) ==
  \/ Group(c) \/ CopyGroup(c) \/ Classify(c) \/ RebuildGroup(c) \/ RebuildDecision(c)
  \/ DropRebuilt(c) \/ Resolve(c) \/ Retain(c) \/ Coordinate(c)
  \/ BuildBase(c) \/ Relate(c) \/ EndRelations(c) \/ Materialize(c) \/ BuildGraph(c)
  \/ Publish(c) \/ Refuse(c) \/ Abandon(c) \/ DropResult(c) \/ Again(c)

LEMMA ActingAlone ==
  ASSUME IInv, NEW c \in Call, Acting(c), NEW k \in Call \ {c}
  PROVE  local'[k] = local[k] /\ phase'[k] = phase[k] /\ todo'[k] = todo[k]
<1>1. \/ \E next : Advance(c, next)
      \/ \E p : phase' = [phase EXCEPT ![c] = p] /\ todo' = todo
      \/ \E p : phase' = [phase EXCEPT ![c] = p] /\ todo' = [todo EXCEPT ![c] = Facts[c]]
      \/ UNCHANGED <<phase, todo>>
  BY DEF Acting, Group, CopyGroup, Classify, RebuildGroup, RebuildDecision, DropRebuilt, Resolve,
         Retain, Coordinate, BuildBase, Relate, EndRelations, Materialize, BuildGraph, Publish,
         Refuse, Abandon, DropResult, Again, Fail
<1>2. phase'[k] = phase[k] /\ todo'[k] = todo[k]
  BY <1>1 DEF Advance, IInv, TypeOK
<1>3. \E L : local' = [local EXCEPT ![c] = L]
  <2>1. CASE Group(c) \/ Classify(c) \/ RebuildGroup(c) \/ BuildBase(c) \/ Relate(c) \/ Materialize(c)
    BY <2>1 DEF Group, Classify, RebuildGroup, BuildBase, Relate, Materialize, Keep
  <2>2. CASE CopyGroup(c) \/ RebuildDecision(c) \/ DropRebuilt(c) \/ Resolve(c) \/ BuildGraph(c)
    BY <2>2 DEF CopyGroup, RebuildDecision, DropRebuilt, Resolve, BuildGraph
  <2>3. CASE Retain(c) \/ Coordinate(c)
    BY <2>3 DEF Retain, Coordinate, Decided
  <2>4. CASE Publish(c) \/ Refuse(c) \/ Abandon(c) \/ DropResult(c)
    BY <2>4 DEF Publish, Refuse, Abandon, DropResult, Fail
  <2>5. CASE EndRelations(c) \/ Again(c)
    <3>1. local' = local /\ local \in [Call -> Locals]
      BY <2>5 DEF EndRelations, Again, IInv, TypeOK, Locals
    <3>2. local' = [local EXCEPT ![c] = local[c]]
      BY <3>1
    <3> QED
      BY <3>2
  <2> QED
    BY <2>1, <2>2, <2>3, <2>4, <2>5 DEF Acting
<1>4. local'[k] = local[k]
  BY <1>3 DEF IInv, TypeOK
<1> QED
  BY <1>2, <1>4

LEMMA PipelineKeeps == IInv /\ IInv' /\ Pipeline /\ [Next]_vars => Pipeline'
<1> SUFFICES ASSUME IInv, IInv', Pipeline, [Next]_vars
             PROVE  Pipeline'
  OBVIOUS
<1>1. Stable /\ \A c \in Call : Chain(c) /\ Once(c)
  BY StepIsStable DEF Pipeline
<1>2. ASSUME NEW c \in Call, Acting(c)
      PROVE  Pipeline'
  <2>1. Chain(c)' /\ Once(c)'
    <3>1. CASE Refuse(c) \/ Abandon(c) \/ DropResult(c)
      <4>1. PICK end \in Ended \ {"published"} : Fail(c, end)
        BY <3>1 DEF Refuse, Abandon, DropResult, Ended
      <4> QED
        BY <1>1, <4>1, FailPipes
    <3>2. CASE ~(Refuse(c) \/ Abandon(c) \/ DropResult(c))
      BY <1>1, <1>2, <3>2, GroupPipes, CopyGroupPipes, ClassifyPipes, RebuildGroupPipes,
         RebuildDecisionPipes, DropRebuiltPipes, ResolvePipes, RetainPipes, CoordinatePipes,
         BuildBasePipes, RelatePipes, EndRelationsPipes, MaterializePipes, BuildGraphPipes,
         PublishPipes, AgainPipes DEF Acting
    <3> QED
      BY <3>1, <3>2
  <2>2. \A k \in Call \ {c} : Chain(k)' /\ Once(k)'
    BY <1>1, <1>2, ActingAlone, OthersKeep
  <2> QED
    BY <2>1, <2>2 DEF Pipeline
<1>3. CASE Collect \/ Discard \/ UNCHANGED vars
  <2>1. UNCHANGED <<local, phase, todo>>
    BY <1>3 DEF Collect, Discard, vars
  <2>2. \A k \in Call : Chain(k)' /\ Once(k)'
    BY <1>1, <2>1, OthersKeep
  <2> QED
    BY <2>2 DEF Pipeline
<1> QED
  BY <1>2, <1>3 DEF Next, Acting

LEMMA PipelineInit == Init => Pipeline
<1> SUFFICES ASSUME Init, NEW c \in Call
             PROVE  Chain(c) /\ Once(c)
  BY DEF Pipeline
<1>1. phase[c] = "group" /\ \A k \in Names : local[c][k] = {}
  BY NothingIsLocal DEF Init
<1>2. Chain(c)
  BY <1>1 DEF Chain, DecisionNames, Names
<1>3. Tidy(c) /\ Rebuilding(c) /\ Taken(c) /\ Complete(c)
  BY <1>1 DEF Tidy, Unused, Later, Rebuilding, Taken, Made, Complete, MadeFrom, Names
<1>4. \A n \in {"canonical", "decisions", "bases"} : OneOfEach(c, n)
  BY <1>1 DEF OneOfEach, Names
<1> QED
  BY <1>2, <1>3, <1>4 DEF Once

\* At each stage of each invocation all it works with is valid, one record of a kind
\* for each fact, each made from the one before.
THEOREM AlwaysPipeline == Spec => []Pipeline
  BY PipelineInit, PipelineKeeps, AlwaysIInv, PTL DEF Spec

\* When nothing is a copy, nothing is refused.
LEMMA RefusedForACopy ==
  ASSUME IInv, Pipeline, NEW c \in Call, Refuse(c)
  PROVE  \E g \in local[c].groups : memory[g].copied
<1>1. Chain(c) /\ Once(c)
  BY DEF Pipeline
<1>2. CASE \E g \in Now(c, "groups") : ~GroupValidates(g)
  BY <1>1, <1>2 DEF Now, Chain
<1>3. ASSUME NEW d \in Revalidated(c)
      PROVE  DecisionValidates(d)
  <2>1. \E n \in DecisionNames : d \in local[c][n]
    <3>1. CASE phase[c] = "resolve"
      BY <1>3, <3>1 DEF Revalidated, Now, DecisionNames
    <3>2. CASE phase[c] = "coordinate"
      BY <1>3, <3>2 DEF Revalidated, Now, DecisionNames
    <3>3. CASE phase[c] \in {"base", "check", "published"}
      BY <1>3, <3>3 DEF Revalidated, DecisionNames
    <3> QED
      BY <1>3, <3>1, <3>2, <3>3 DEF Revalidated
  <2> QED
    BY <1>1, <2>1 DEF Chain, GoodDecision
<1>4. \A p \in Rebuilt(c) : DecisionValidates(p)
  BY <1>1 DEF Rebuilt, OfStage, Chain, GoodRebuilt, GoodDecision
<1>5. phase[c] = "check" => ResultValidates(c)
  BY <1>1 DEF Chain
<1> QED
  BY <1>2, <1>3, <1>4, <1>5 DEF Refuse

\* No validation in the pipeline refuses what the pipeline has built, in however many
\* invocations, and whatever was collected before at the same addresses: an invocation
\* is refused only when its caller has replaced a group by a copy of it.
THEOREM NothingElseIsRefused == Spec => OnlyCopiesAreRefused
<1>1. IInv /\ Pipeline /\ [Next]_vars =>
        [\A c \in Call : phase[c] # "refused" /\ phase'[c] = "refused" =>
           \E g \in local[c].groups : memory[g].copied]_vars
  <2> SUFFICES ASSUME IInv, Pipeline, Next, NEW c \in Call,
                      phase[c] # "refused", phase'[c] = "refused"
               PROVE  \E g \in local[c].groups : memory[g].copied
    OBVIOUS
  <2>1. phase \in [Call -> Running \union Ended]
    BY DEF IInv, TypeOK
  <2>2. PICK k \in Call : Acting(k)
    BY <2>1 DEF Next, Collect, Discard, Acting
  <2>3. k = c
    BY <2>2, ActingAlone
  <2>4. CASE Refuse(c)
    BY <2>4, RefusedForACopy
  <2>5. CASE Group(c) \/ Classify(c) \/ Resolve(c) \/ Retain(c) \/ Coordinate(c) \/ BuildBase(c)
             \/ Materialize(c)
    <3>1. PICK next \in Running : Advance(c, next)
      BY <2>5 DEF Group, Classify, Resolve, Retain, Coordinate, BuildBase, Materialize, Running
    <3>2. phase'[c] \in {phase[c], next}
      BY <3>1, AdvanceFacts
    <3> QED
      BY <3>2 DEF Running
  <2>6. CASE CopyGroup(c) \/ RebuildGroup(c) \/ RebuildDecision(c) \/ DropRebuilt(c) \/ Relate(c)
    BY <2>6 DEF CopyGroup, RebuildGroup, RebuildDecision, DropRebuilt, Relate
  <2>7. CASE EndRelations(c) \/ BuildGraph(c) \/ Publish(c) \/ Abandon(c) \/ DropResult(c) \/ Again(c)
    BY <2>1, <2>7 DEF EndRelations, BuildGraph, Publish, Abandon, DropResult, Again, Fail
  <2> QED
    BY <2>2, <2>3, <2>4, <2>5, <2>6, <2>7 DEF Acting
<1> QED
  BY <1>1, AlwaysIInv, AlwaysPipeline, PTL DEF Spec, OnlyCopiesAreRefused
=============================================================================
