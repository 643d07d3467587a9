----------------------- MODULE PositionAllocatorsProofs -----------------------
(***************************************************************************)
(* Streams for every script, any number of generators, and any number of   *)
(* streams, replacements and draws; and the grid for every width, spacing  *)
(* and number of objects.  Streams are handed out in ascending order, so   *)
(* all that are in use lie below free and no number of those above has     *)
(* been drawn; an object of the grid is known by its number, which its     *)
(* place determines.                                                       *)
(***************************************************************************)
EXTENDS PositionAllocators, FiniteSetTheorems, TLAPS

Types ==
    /\ kinds \in Scripts
    /\ stream \in [RandomVariables -> -1 .. MaxStream - 1]
    /\ drawn \in [RandomVariables -> Nat]
    /\ DOMAIN members = DOMAIN kinds
    /\ \A a \in DOMAIN kinds : members[a] \in [1 .. NumMembers(kinds[a]) -> OfAllocators]
    /\ replaced \in 0 .. MaxReplaced
    /\ free \in 0 .. MaxStream
    /\ used \in [Sources -> SUBSET Nat]
    /\ draws \in 0 .. MaxDraws

\* The variable of a generator is one that was made for a generator.
Generators == m_RandVar \in Seq(OfGenerators) /\ Len(m_RandVar) <= MaxGenerators

\* Streams in use have been handed out, and none of the others has been drawn from.
Below == \A v \in RandomVariables : stream[v] < free
Unused == \A s \in free .. MaxStream - 1 : used[StreamSource(s)] = {}

IInv == Types /\ Generators /\ Below /\ Unused /\ StreamsDisjoint /\ NumbersUsedOnce

-----------------------------------------------------------------------------
\* AssignStreams of a class gives its members consecutive offsets.
LEMMA OffsetsAscend ==
    ASSUME NEW kind \in Classes
    PROVE  /\ NumMembers(kind) \in {0, 2, 3}
           /\ \A n \in 1 .. NumMembers(kind) : Offsets(kind)[n] = n - 1
<1> USE DEF NumMembers, RectangleOffsets, BoxOffsets, DiscOffsets, UniformDiscOffsets, ListOffsets, GridOffsets
<1>1. CASE kind \in {"List", "Grid"}
  <2>1. Offsets(kind) = <<>> BY <1>1 DEF Offsets
  <2> QED BY <2>1
<1>2. CASE kind \in {"Rectangle", "Disc", "UniformDisc"}
  <2>1. Offsets(kind) = <<0, 1>> BY <1>2 DEF Offsets
  <2> QED BY <2>1
<1>3. CASE kind = "Box"
  <2>1. Offsets(kind) = <<0, 1, 2>> BY <1>3 DEF Offsets
  <2> QED BY <2>1
<1> QED BY <1>1, <1>2, <1>3 DEF Classes

\* AssignStreams returns as many streams as it gives to members, in every class.
LEMMA TakenIsMembers ==
    ASSUME NEW kind \in Classes
    PROVE  Taken(kind) = NumMembers(kind)
<1> USE DEF NumMembers, RectangleOffsets, BoxOffsets, DiscOffsets, UniformDiscOffsets, ListOffsets, GridOffsets,
            TakenByRectangle, TakenByBox, TakenByDisc, TakenByUniformDisc, TakenByList, TakenByGrid
<1>1. CASE kind \in {"List", "Grid"}
  <2>1. Offsets(kind) = <<>> /\ Taken(kind) = 0 BY <1>1 DEF Offsets, Taken
  <2> QED BY <2>1
<1>2. CASE kind \in {"Rectangle", "Disc", "UniformDisc"}
  <2>1. Offsets(kind) = <<0, 1>> /\ Taken(kind) = 2 BY <1>2 DEF Offsets, Taken
  <2> QED BY <2>1
<1>3. CASE kind = "Box"
  <2>1. Offsets(kind) = <<0, 1, 2>> /\ Taken(kind) = 3 BY <1>3 DEF Offsets, Taken
  <2> QED BY <2>1
<1> QED BY <1>1, <1>2, <1>3 DEF Classes

\* A variable that is a member is left with the offset of its last place.
LEMMA OffsetFacts ==
    ASSUME Types, NEW a \in DOMAIN kinds, NEW v, v \in MembersOf(a)
    PROVE  /\ LastMember(a, v) \in 1 .. NumMembers(kinds[a])
           /\ members[a][LastMember(a, v)] = v
           /\ Offset(a, v) = LastMember(a, v) - 1
<1>1. kinds[a] \in Classes BY StreamsAssumption DEF Types
<1>2. DOMAIN members[a] = 1 .. NumMembers(kinds[a]) BY DEF Types
<1>3. NumMembers(kinds[a]) \in {0, 2, 3} BY <1>1, OffsetsAscend
<1>4. \E n \in DOMAIN members[a] :
          members[a][n] = v /\ \A m \in DOMAIN members[a] : m > n => members[a][m] # v
  <2> USE DEF MembersOf
  <2>1. CASE NumMembers(kinds[a]) = 0 BY <1>2, <2>1
  <2>2. CASE NumMembers(kinds[a]) = 2
    <3>1. DOMAIN members[a] = {1, 2} BY <1>2, <2>2
    <3> QED BY <3>1
  <2>3. CASE NumMembers(kinds[a]) = 3
    <3>1. DOMAIN members[a] = {1, 2, 3} BY <1>2, <2>3
    <3> QED BY <3>1
  <2> QED BY <1>3, <2>1, <2>2, <2>3
<1>5. LastMember(a, v) \in DOMAIN members[a] /\ members[a][LastMember(a, v)] = v
  BY <1>4 DEF LastMember
<1> QED BY <1>1, <1>2, <1>5, OffsetsAscend DEF Offset

\* The variables and sources of a script stay the same.
LEMMA SameVariables ==
    ASSUME kinds' = kinds
    PROVE  OfAllocators' = OfAllocators /\ RandomVariables' = RandomVariables /\ Sources' = Sources
BY DEF OfAllocators, RandomVariables, Sources

\* Variables have different sources unless they share a stream.
LEMMA SourceFacts ==
    ASSUME Types, NEW v \in RandomVariables
    PROVE  /\ Source(v) \in Sources
           /\ \A s \in Int : s # -1 => (Source(v) = StreamSource(s) <=> stream[v] = s)
           /\ \A w \in RandomVariables : StreamsDisjoint /\ Source(w) = Source(v) => w = v
<1>1. stream[v] \in -1 .. MaxStream - 1 /\ MaxStream \in Nat BY StreamsAssumption DEF Types
<1>2. Source(v) \in Sources BY <1>1 DEF Source, Sources
<1>3. \A s \in Int : s # -1 => (Source(v) = StreamSource(s) <=> stream[v] = s)
  BY <1>1 DEF Source, StreamSource, OwnSource
<1>4. ASSUME NEW w \in RandomVariables, StreamsDisjoint, Source(w) = Source(v)
      PROVE  w = v
  <2>1. \A x \in RandomVariables : \E m, n : x = <<m, n>>
    BY DEF RandomVariables, OfAllocators, OfGenerators
  <2>2. PICK m1, n1, m2, n2 : v = <<m1, n1>> /\ w = <<m2, n2>> BY <2>1
  <2>3. stream[w] \in -1 .. MaxStream - 1 BY <1>4 DEF Types
  <2>4. CASE stream[v] = -1
    <3>1. stream[w] = -1 BY <1>4, <2>3, <2>4 DEF Source, StreamSource, OwnSource
    <3> QED BY <1>4, <2>2, <2>4, <3>1 DEF Source, OwnSource
  <2>5. CASE stream[v] # -1
    <3>1. stream[w] = stream[v] BY <1>1, <1>4, <2>3, <2>5 DEF Source, StreamSource, OwnSource
    <3>2. DOMAIN stream = RandomVariables BY DEF Types
    <3> QED BY <1>4, <2>5, <3>1, <3>2 DEF StreamsDisjoint
  <2> QED BY <2>4, <2>5
<1> QED BY <1>2, <1>3, <1>4

-----------------------------------------------------------------------------
\* The initial state.
LEMMA InductiveInit == StreamsInit => IInv
<1> SUFFICES ASSUME StreamsInit PROVE IInv OBVIOUS
<1> USE DEF StreamsInit
<1>1. MaxStream \in Nat BY StreamsAssumption
<1>2. \A a \in DOMAIN kinds : members[a] \in [1 .. NumMembers(kinds[a]) -> OfAllocators]
  BY DEF OfAllocators
<1>3. Types BY <1>1, <1>2, StreamsAssumption DEF Types
<1>4. Generators BY StreamsAssumption DEF Generators
<1>5. Below /\ StreamsDisjoint BY <1>1 DEF Below, StreamsDisjoint
<1>6. Unused BY <1>1 DEF Unused, Sources
<1>7. NumbersUsedOnce BY <1>3, SourceFacts DEF NumbersUsedOnce
<1> QED BY <1>3, <1>4, <1>5, <1>6, <1>7 DEF IInv

\* Assigning the next streams to some variables, each its own.
Assigned(S, count, offset) ==
    /\ S \in SUBSET RandomVariables /\ count \in Nat /\ offset \in [S -> 0 .. count - 1]
    /\ \A v, w \in S : offset[v] = offset[w] => v = w
    /\ free + count <= MaxStream
    /\ stream' = [v \in DOMAIN stream |-> IF v \in S THEN free + offset[v] ELSE stream[v]]
    /\ drawn' = [v \in DOMAIN drawn |-> IF v \in S THEN 0 ELSE drawn[v]]
    /\ free' = free + count
    /\ UNCHANGED <<kinds, members, replaced, m_RandVar, used, draws>>

LEMMA AssignKeeps ==
    ASSUME IInv, NEW S, NEW count, NEW offset, Assigned(S, count, offset)
    PROVE  IInv'
<1> USE DEF Assigned
<1>1. Types /\ MaxStream \in Nat /\ free \in 0 .. MaxStream BY StreamsAssumption DEF IInv, Types
<1>2. RandomVariables' = RandomVariables /\ Sources' = Sources /\ OfAllocators' = OfAllocators
  BY SameVariables
<1>3. /\ DOMAIN stream = RandomVariables /\ DOMAIN drawn = RandomVariables
      /\ \A v \in RandomVariables : stream[v] \in -1 .. MaxStream - 1 /\ stream[v] < free /\ drawn[v] \in Nat
  BY DEF IInv, Types, Below
<1>4. /\ \A v \in S : stream'[v] = free + offset[v] /\ stream'[v] \in free .. free + count - 1 /\ drawn'[v] = 0
      /\ \A v \in RandomVariables \ S : stream'[v] = stream[v] /\ drawn'[v] = drawn[v]
  BY <1>1, <1>3
<1>5. stream' \in [RandomVariables -> -1 .. MaxStream - 1] /\ drawn' \in [RandomVariables -> Nat]
  <2>1. \A v \in RandomVariables : stream'[v] \in -1 .. MaxStream - 1 /\ drawn'[v] \in Nat
    BY <1>1, <1>3, <1>4
  <2>2. DOMAIN stream' = RandomVariables /\ DOMAIN drawn' = RandomVariables BY <1>3
  <2>3. stream' = [v \in RandomVariables |-> stream'[v]] /\ drawn' = [v \in RandomVariables |-> drawn'[v]]
    BY <1>3
  <2> QED BY <2>1, <2>3
<1>6. Types' BY <1>1, <1>2, <1>5 DEF IInv, Types
<1>7. Generators' BY DEF IInv, Generators, OfGenerators
<1>8. Below' BY <1>1, <1>2, <1>3, <1>4 DEF Below
<1>9. Unused' BY <1>1 DEF IInv, Unused, StreamSource
<1>10. StreamsDisjoint'
  <2> SUFFICES ASSUME NEW v \in RandomVariables, NEW w \in RandomVariables, v # w, stream'[v] # -1,
                      stream'[v] = stream'[w]
               PROVE  FALSE
    BY <1>5 DEF StreamsDisjoint
  <2>1. CASE v \in S /\ w \in S BY <1>1, <1>4, <2>1
  <2>2. CASE v \in S /\ w \notin S BY <1>1, <1>3, <1>4, <2>2
  <2>3. CASE v \notin S /\ w \in S BY <1>1, <1>3, <1>4, <2>3
  <2>4. CASE v \notin S /\ w \notin S BY <1>3, <1>4, <2>4 DEF IInv, StreamsDisjoint
  <2> QED BY <2>1, <2>2, <2>3, <2>4
<1>11. NumbersUsedOnce'
  <2> SUFFICES ASSUME NEW v \in RandomVariables, NEW n \in used[Source(v)'] PROVE n <= drawn'[v]
    BY <1>2 DEF NumbersUsedOnce
  <2>1. CASE v \in S
    <3>1. stream'[v] \in free .. MaxStream - 1 BY <1>1, <1>4, <2>1
    <3>2. Source(v)' = StreamSource(stream'[v]) BY <1>1, <3>1 DEF Source, StreamSource
    <3>3. used[StreamSource(stream'[v])] = {} BY <3>1 DEF IInv, Unused
    <3> QED BY <3>2, <3>3
  <2>2. CASE v \notin S
    <3>1. Source(v)' = Source(v) BY <1>4, <2>2 DEF Source, StreamSource, OwnSource
    <3> QED BY <1>4, <2>2, <3>1 DEF IInv, NumbersUsedOnce
  <2> QED BY <2>1, <2>2
<1> QED BY <1>6, <1>7, <1>8, <1>9, <1>10, <1>11 DEF IInv

\* AssignStreams of an allocator.
LEMMA AssignAllocatorKeeps ==
    ASSUME IInv, NEW a \in DOMAIN kinds, AssignAllocator(a)
    PROVE  IInv'
<1> DEFINE S == MembersOf(a)
           count == NumMembers(kinds[a])
           offset == [v \in S |-> Offset(a, v)]
<1>1. Types BY DEF IInv
<1>2. count \in Nat /\ Taken(kinds[a]) = count
  <2>1. kinds[a] \in Classes BY <1>1, StreamsAssumption DEF Types
  <2> QED BY <2>1, OffsetsAscend, TakenIsMembers
<1>3. S \in SUBSET RandomVariables BY <1>1 DEF Types, RandomVariables, MembersOf
<1>4. \A v \in S : /\ Offset(a, v) \in 0 .. count - 1
                   /\ members[a][Offset(a, v) + 1] = v
  BY <1>1, <1>2, OffsetFacts
<1>5. offset \in [S -> 0 .. count - 1] BY <1>4
<1>6. \A v, w \in S : offset[v] = offset[w] => v = w BY <1>4
<1>7. \A v \in S : offset[v] = Offset(a, v) OBVIOUS
<1>8. /\ free + count <= MaxStream /\ free' = free + count
      /\ UNCHANGED <<kinds, members, replaced, m_RandVar, used, draws>>
      /\ drawn' = [v \in DOMAIN drawn |-> IF v \in S THEN 0 ELSE drawn[v]]
  BY <1>2 DEF AssignAllocator
<1>9. stream' = [v \in DOMAIN stream |-> IF v \in S THEN free + Offset(a, v) ELSE stream[v]]
  BY DEF AssignAllocator
<1> HIDE DEF S, count, offset
<1>10. stream' = [v \in DOMAIN stream |-> IF v \in S THEN free + offset[v] ELSE stream[v]]
  BY <1>7, <1>9
<1>11. Assigned(S, count, offset) BY <1>2, <1>3, <1>5, <1>6, <1>8, <1>10 DEF Assigned
<1> QED BY <1>11, AssignKeeps

\* AssignStreams of a generator.
LEMMA AssignGeneratorKeeps ==
    ASSUME IInv, NEW g \in DOMAIN m_RandVar, AssignGenerator(g)
    PROVE  IInv'
<1> DEFINE S == {m_RandVar[g]}
           offset == [v \in S |-> 0]
<1>1. m_RandVar[g] \in RandomVariables BY DEF IInv, Generators, RandomVariables
<1>2. S \in SUBSET RandomVariables /\ offset \in [S -> 0 .. 1 - 1] BY <1>1
<1>3. \A v, w \in S : offset[v] = offset[w] => v = w OBVIOUS
<1>4. free \in Nat /\ DOMAIN stream = RandomVariables /\ DOMAIN drawn = RandomVariables
  BY StreamsAssumption DEF IInv, Types
<1>5. stream' = [v \in DOMAIN stream |-> IF v \in S THEN free + offset[v] ELSE stream[v]]
  <2>1. stream' = [v \in DOMAIN stream |-> IF v \in S THEN free ELSE stream[v]] BY <1>1, <1>4 DEF AssignGenerator
  <2>2. \A v \in S : free + offset[v] = free BY <1>4
  <2> HIDE DEF S, offset
  <2> QED BY <2>1, <2>2
<1>6. drawn' = [v \in DOMAIN drawn |-> IF v \in S THEN 0 ELSE drawn[v]] BY <1>1, <1>4 DEF AssignGenerator
<1> HIDE DEF S, offset
<1>7. Assigned(S, 1, offset) BY <1>2, <1>3, <1>5, <1>6 DEF Assigned, AssignGenerator
<1> QED BY <1>7, AssignKeeps

\* Numbers are drawn from some variables.
LEMMA DrawKeeps ==
    ASSUME IInv, NEW k \in Nat, NEW variables \in [1 .. k -> RandomVariables], Draw(variables)
    PROVE  IInv'
<1>1. Types /\ StreamsDisjoint BY DEF IInv
<1>2. RandomVariables' = RandomVariables /\ Sources' = Sources /\ OfAllocators' = OfAllocators
  BY SameVariables DEF Draw
<1>3. \A v \in RandomVariables : drawn[v] \in Nat /\ drawn'[v] \in Nat /\ drawn'[v] >= drawn[v]
  <2> TAKE v \in RandomVariables
  <2> DEFINE T == {n \in DOMAIN variables : variables[n] = v}
  <2>1. IsFiniteSet(1 .. k) BY FS_Interval
  <2>2. T \subseteq 1 .. k OBVIOUS
  <2>3. IsFiniteSet(T) BY <2>1, <2>2, FS_Subset
  <2>4. Cardinality(T) \in Nat BY <2>3, FS_CardinalityType
  <2>5. drawn[v] \in Nat /\ DOMAIN drawn = RandomVariables BY <1>1 DEF Types
  <2>6. drawn'[v] = drawn[v] + Cardinality(T) BY <2>5 DEF Draw
  <2> HIDE DEF T
  <2> QED BY <2>4, <2>5, <2>6
<1>4. drawn' \in [RandomVariables -> Nat]
  <2>1. drawn' = [v \in RandomVariables |-> drawn'[v]] BY <1>1 DEF Draw, Types
  <2> QED BY <1>3, <2>1
<1>5. \A s \in Sources : \A n \in used'[s] :
          n \in used[s] \/ \E v \in RandomVariables : Source(v) = s /\ n \in drawn[v] + 1 .. drawn'[v]
  <2> TAKE s \in Sources
  <2>1. DOMAIN used = Sources /\ DOMAIN drawn = RandomVariables BY <1>1 DEF Types
  <2>2. used'[s] = used[s] \cup UNION {drawn[v] + 1 .. drawn'[v] : v \in {w \in RandomVariables : Source(w) = s}}
    BY <2>1 DEF Draw
  <2> QED BY <2>2
<1>6. used' \in [Sources -> SUBSET Nat]
  <2>1. DOMAIN used = Sources BY <1>1 DEF Types
  <2>2. used' = [s \in Sources |-> used'[s]] BY <2>1 DEF Draw
  <2>3. \A s \in Sources : used'[s] \subseteq Nat
    <3> TAKE s \in Sources
    <3>1. used[s] \subseteq Nat BY <1>1 DEF Types
    <3> QED BY <1>3, <1>5, <3>1
  <2> QED BY <2>2, <2>3
<1>7. draws' \in 0 .. MaxDraws BY StreamsAssumption DEF Draw, IInv, Types
<1>8. Types' BY <1>1, <1>2, <1>4, <1>6, <1>7 DEF Draw, Types
<1>9. Generators' BY DEF Draw, IInv, Generators, OfGenerators
<1>10. Below' BY <1>2 DEF Draw, IInv, Below
<1>11. StreamsDisjoint' BY DEF Draw, IInv, StreamsDisjoint
<1>12. Unused'
  <2> SUFFICES ASSUME NEW s \in free .. MaxStream - 1 PROVE used'[StreamSource(s)] = {}
    BY DEF Unused, Draw, StreamSource
  <2>1. MaxStream \in Nat /\ free \in Nat BY StreamsAssumption DEF IInv, Types
  <2>2. s \in 0 .. MaxStream - 1 BY <2>1
  <2>3. StreamSource(s) \in Sources BY <2>2 DEF Sources
  <2>4. \A v \in RandomVariables : Source(v) # StreamSource(s)
    <3> TAKE v \in RandomVariables
    <3>1. stream[v] # s BY <2>1, <2>2 DEF IInv, Below, Types
    <3> QED BY <1>1, <2>2, <3>1, SourceFacts
  <2>5. used[StreamSource(s)] = {} BY DEF IInv, Unused
  <2> QED BY <1>5, <2>3, <2>4, <2>5
<1>13. NumbersUsedOnce'
  <2> SUFFICES ASSUME NEW v \in RandomVariables, NEW n \in used'[Source(v)] PROVE n <= drawn'[v]
    <3>1. \A v \in RandomVariables : Source(v)' = Source(v) BY DEF Draw, Source, OwnSource, StreamSource
    <3> QED BY <1>2, <3>1 DEF NumbersUsedOnce
  <2>1. Source(v) \in Sources BY <1>1, SourceFacts
  <2>2. CASE n \in used[Source(v)]
    <3>1. n <= drawn[v] /\ n \in Nat BY <1>1, <2>1, <2>2 DEF IInv, NumbersUsedOnce, Types
    <3> QED BY <1>3, <3>1
  <2>3. CASE \E w \in RandomVariables : Source(w) = Source(v) /\ n \in drawn[w] + 1 .. drawn'[w]
    <3>1. PICK w \in RandomVariables : Source(w) = Source(v) /\ n \in drawn[w] + 1 .. drawn'[w] BY <2>3
    <3>2. w = v BY <1>1, <3>1, SourceFacts
    <3> QED BY <1>3, <3>1, <3>2
  <2> QED BY <1>5, <2>1, <2>2, <2>3
<1> QED BY <1>8, <1>9, <1>10, <1>11, <1>12, <1>13 DEF IInv

\* Steps that leave streams and numbers alone.
LEMMA StreamsUntouched ==
    ASSUME IInv, UNCHANGED <<kinds, stream, drawn, free, used, draws>>,
           DOMAIN members' = DOMAIN kinds, replaced' \in 0 .. MaxReplaced,
           \A a \in DOMAIN kinds : members'[a] \in [1 .. NumMembers(kinds[a]) -> OfAllocators],
           Generators'
    PROVE  IInv'
<1>1. RandomVariables' = RandomVariables /\ Sources' = Sources /\ OfAllocators' = OfAllocators
  BY SameVariables
<1>2. Types' BY <1>1 DEF IInv, Types
<1>3. Below' /\ Unused' /\ StreamsDisjoint' BY <1>1 DEF IInv, Below, Unused, StreamsDisjoint, StreamSource
<1>4. \A v \in RandomVariables : Source(v)' = Source(v) BY DEF Source, OwnSource, StreamSource
<1>5. NumbersUsedOnce' BY <1>1, <1>4 DEF IInv, NumbersUsedOnce
<1> QED BY <1>2, <1>3, <1>5 DEF IInv

\* A member is replaced.
LEMMA SetMemberKeeps ==
    ASSUME IInv, NEW a \in DOMAIN kinds, NEW n \in DOMAIN members[a], NEW v \in OfAllocators, SetMember(a, n, v)
    PROVE  IInv'
<1>1. DOMAIN members = DOMAIN kinds
      /\ \A b \in DOMAIN kinds : members[b] \in [1 .. NumMembers(kinds[b]) -> OfAllocators]
  BY DEF IInv, Types
<1>2. DOMAIN members' = DOMAIN kinds BY <1>1 DEF SetMember
<1>3. \A b \in DOMAIN kinds : members'[b] \in [1 .. NumMembers(kinds[b]) -> OfAllocators]
  <2> TAKE b \in DOMAIN kinds
  <2>1. CASE b = a
    <3>1. members'[b] = [members[a] EXCEPT ![n] = v] BY <1>1, <2>1 DEF SetMember
    <3> QED BY <1>1, <2>1, <3>1
  <2>2. CASE b # a BY <1>1, <2>2 DEF SetMember
  <2> QED BY <2>1, <2>2
<1>4. replaced' \in 0 .. MaxReplaced BY StreamsAssumption DEF SetMember, IInv, Types
<1>5. Generators' BY DEF SetMember, IInv, Generators, OfGenerators
<1> QED BY <1>2, <1>3, <1>4, <1>5, StreamsUntouched DEF SetMember

\* A generator is created, cloned or assigned.
LEMMA GeneratorsKeep ==
    ASSUME IInv,
           \/ Create
           \/ \E g \in DOMAIN m_RandVar : Clone(g) \/ \E h \in DOMAIN m_RandVar : Assign(h, g)
    PROVE  IInv'
<1>1. /\ m_RandVar \in Seq(OfGenerators) /\ Len(m_RandVar) <= MaxGenerators
      /\ Len(m_RandVar) \in Nat /\ DOMAIN m_RandVar = 1 .. Len(m_RandVar)
      /\ \A g \in DOMAIN m_RandVar : m_RandVar[g] \in OfGenerators
      /\ MaxGenerators \in Nat
  BY StreamsAssumption DEF IInv, Generators
<1>2. OfGenerators' = OfGenerators BY DEF OfGenerators
<1>3. ASSUME NEW v \in OfGenerators, Len(m_RandVar) < MaxGenerators, m_RandVar' = Append(m_RandVar, v)
      PROVE  Generators'
  <2>1. m_RandVar' \in Seq(OfGenerators) /\ Len(m_RandVar') = Len(m_RandVar) + 1 BY <1>1, <1>3
  <2> QED BY <1>1, <1>2, <1>3, <2>1 DEF Generators
<1>4. CASE Create
  <2>1. Len(m_RandVar) < MaxGenerators BY <1>4 DEF Create
  <2>2. <<0, Len(m_RandVar) + 1>> \in OfGenerators BY <1>1, <2>1 DEF OfGenerators
  <2>3. Generators' BY <1>3, <1>4, <2>1, <2>2 DEF Create
  <2> QED BY <1>4, <2>3, StreamsUntouched DEF Create, IInv, Types
<1>5. ASSUME NEW g \in DOMAIN m_RandVar, Clone(g) PROVE IInv'
  <2>1. Generators' BY <1>1, <1>3, <1>5 DEF Clone, Copied
  <2> QED BY <1>5, <2>1, StreamsUntouched DEF Clone, IInv, Types
<1>6. ASSUME NEW g \in DOMAIN m_RandVar, NEW h \in DOMAIN m_RandVar, Assign(h, g) PROVE IInv'
  <2>1. m_RandVar' = [m_RandVar EXCEPT ![h] = m_RandVar[g]] BY <1>6 DEF Assign, Copied
  <2>2. m_RandVar' \in Seq(OfGenerators) /\ Len(m_RandVar') = Len(m_RandVar) BY <1>1, <2>1
  <2>3. Generators' BY <1>1, <1>2, <2>2 DEF Generators
  <2> QED BY <1>6, <2>3, StreamsUntouched DEF Assign, IInv, Types
<1> QED BY <1>4, <1>5, <1>6

\* The inductive step, one case per operation.
LEMMA InductiveStep == IInv /\ [StreamsNext]_streamVars => IInv'
<1> SUFFICES ASSUME IInv, [StreamsNext]_streamVars PROVE IInv' OBVIOUS
<1>1. ASSUME NEW a \in DOMAIN kinds, NEW n \in DOMAIN members[a], NEW v \in OfAllocators,
             SetRectangleMember(a, n, v) \/ SetBoxMember(a, n, v) \/ SetDiscMember(a, n, v)
      PROVE  IInv'
  BY <1>1, SetMemberKeeps DEF SetRectangleMember, SetBoxMember, SetDiscMember
<1>2. ASSUME NEW a \in DOMAIN kinds, AssignAllocator(a) PROVE IInv' BY <1>2, AssignAllocatorKeeps
<1>3. ASSUME NEW a \in DOMAIN kinds,
             RectangleGetNext(a) \/ BoxGetNext(a) \/ DiscGetNext(a) \/ UniformDiscGetNext(a)
      PROVE  IInv'
  <2>1. Draw(members[a])
    BY <1>3 DEF RectangleGetNext, BoxGetNext, DiscGetNext, UniformDiscGetNext
  <2>2. kinds[a] \in Classes BY StreamsAssumption DEF IInv, Types
  <2>3. NumMembers(kinds[a]) \in Nat BY <2>2, OffsetsAscend
  <2>4. members[a] \in [1 .. NumMembers(kinds[a]) -> RandomVariables] BY DEF IInv, Types, RandomVariables
  <2> QED BY <2>1, <2>3, <2>4, DrawKeeps
<1>4. CASE Create BY <1>4, GeneratorsKeep
<1>5. ASSUME NEW g \in DOMAIN m_RandVar, Clone(g) PROVE IInv' BY <1>5, GeneratorsKeep
<1>6. ASSUME NEW g \in DOMAIN m_RandVar, AssignGenerator(g) PROVE IInv' BY <1>6, AssignGeneratorKeeps
<1>7. ASSUME NEW g \in DOMAIN m_RandVar, GetRand(g) PROVE IInv'
  <2>1. m_RandVar[g] \in RandomVariables BY DEF IInv, Generators, RandomVariables
  <2>2. <<m_RandVar[g]>> \in [1 .. 1 -> RandomVariables] BY <2>1
  <2>3. Draw(<<m_RandVar[g]>>) BY <1>7 DEF GetRand
  <2> QED BY <2>2, <2>3, DrawKeeps
<1>8. ASSUME NEW g \in DOMAIN m_RandVar, NEW h \in DOMAIN m_RandVar, Assign(h, g) PROVE IInv'
  BY <1>8, GeneratorsKeep
<1>9. CASE UNCHANGED streamVars
  <2>1. Generators' BY <1>9 DEF streamVars, IInv, Generators, OfGenerators
  <2> QED BY <1>9, <2>1, StreamsUntouched DEF streamVars, IInv, Types
<1> QED BY <1>1, <1>2, <1>3, <1>4, <1>5, <1>6, <1>7, <1>8, <1>9 DEF StreamsNext

\* The strengthening: streams in use lie below the next one to hand out, and
\* nothing was drawn from those that can still be.
THEOREM InductiveInvariant == StreamsSpec => []IInv
<1>1. StreamsInit => IInv BY InductiveInit
<1>2. IInv /\ [StreamsNext]_streamVars => IInv' BY InductiveStep
<1> QED BY <1>1, <1>2, PTL DEF StreamsSpec

\* The variables, streams and generators have their types.
THEOREM TypeCorrect == StreamsSpec => []StreamsTypeOK
<1>1. IInv => StreamsTypeOK BY DEF IInv, Types, Generators, StreamsTypeOK
<1> QED BY <1>1, InductiveInvariant, PTL

\* Variables that AssignStreams gave streams never draw from the same one.
THEOREM StreamsDisjointHolds == StreamsSpec => []StreamsDisjoint
<1>1. IInv => StreamsDisjoint BY DEF IInv
<1> QED BY <1>1, InductiveInvariant, PTL

\* No number of a stream is used twice by GetNext, getRand and getRandInt.
THEOREM NumbersUsedOnceHolds == StreamsSpec => []NumbersUsedOnce
<1>1. IInv => NumbersUsedOnce BY DEF IInv
<1> QED BY <1>1, InductiveInvariant, PTL

-----------------------------------------------------------------------------
\* The place of object k under the attributes of the grid.
Place(k) ==
    IF grid.m_layoutType = "RowFirst"
       THEN At(grid.m_DeltaLat * (k \div grid.m_n), grid.m_DeltaLon * (k % grid.m_n))
       ELSE At(grid.m_DeltaLat * (k % grid.m_n), grid.m_DeltaLat * (k \div grid.m_n))

\* The number of the a-th object placed since the last setting.
Number(a) == m_current - Len(placed) + (a - 1)

GridTypes ==
    /\ grid \in Attributes
    /\ m_current \in Nat
    /\ placed \in Seq([north : Int, east : Int, depth : Int])
    /\ Len(placed) <= m_current

\* Every object stands at the place of its number.
PlacedByNumber == grid.m_n > 0 => \A a \in DOMAIN placed : placed[a] = Place(Number(a))

GridInv == GridTypes /\ PlacedByNumber

\* The attributes of a grid.
LEMMA GridFacts ==
    ASSUME GridTypes
    PROVE  /\ grid.m_LatMin \in Int /\ grid.m_LonMin \in Int /\ grid.m_Depth \in Int
           /\ grid.m_DeltaLat \in Int /\ grid.m_DeltaLon \in Int /\ grid.m_n \in Nat
           /\ grid.m_layoutType \in {"RowFirst", "ColumnFirst"}
           /\ placed \in Seq([north : Int, east : Int, depth : Int])
           /\ Len(placed) \in Nat /\ DOMAIN placed = 1 .. Len(placed)
<1>1. placed \in Seq([north : Int, east : Int, depth : Int]) BY DEF GridTypes
<1>2. Len(placed) \in Nat /\ DOMAIN placed = 1 .. Len(placed) BY <1>1
<1> QED BY <1>1, <1>2, GridAssumption DEF GridTypes, Attributes

\* A number is its row times the width and its place in the row.
LEMMA RowAndPlace ==
    ASSUME NEW k \in Nat, NEW n \in Nat, n > 0
    PROVE  /\ k \div n \in Nat /\ k % n \in 0 .. n - 1
           /\ k = n * (k \div n) + (k % n)
OBVIOUS

\* Distinct multiples of a spacing are distinct.
LEMMA CancelSpacing ==
    ASSUME NEW delta \in Int, delta # 0, NEW x \in Int, NEW y \in Int, delta * x = delta * y
    PROVE  x = y
OBVIOUS

\* A place is a place, the one of the first object is the origin.
LEMMA PlaceFacts ==
    ASSUME GridTypes, grid.m_n > 0, NEW k \in Nat
    PROVE  /\ Place(k) \in [north : Int, east : Int, depth : Int]
           /\ Place(0) = At(0, 0)
<1>1. /\ grid.m_LatMin \in Int /\ grid.m_LonMin \in Int /\ grid.m_Depth \in Int
      /\ grid.m_DeltaLat \in Int /\ grid.m_DeltaLon \in Int /\ grid.m_n \in Nat
  BY GridFacts
<1>2. k \div grid.m_n \in Int /\ k % grid.m_n \in Int BY <1>1, RowAndPlace
<1>3. /\ grid.m_DeltaLat * (k \div grid.m_n) \in Int /\ grid.m_DeltaLon * (k % grid.m_n) \in Int
      /\ grid.m_DeltaLat * (k % grid.m_n) \in Int
  BY <1>1, <1>2
<1>4. \A north, east \in Int : At(north, east) \in [north : Int, east : Int, depth : Int]
  BY <1>1 DEF At
<1>5. Place(k) \in [north : Int, east : Int, depth : Int] BY <1>3, <1>4 DEF Place
<1>6. 0 \div grid.m_n = 0 /\ 0 % grid.m_n = 0 BY <1>1
<1>7. Place(0) = At(0, 0) BY <1>1, <1>6 DEF Place
<1> QED BY <1>5, <1>7

\* Two places with the same coordinates are at the same distances of the origin.
LEMMA AtFacts ==
    ASSUME GridTypes, NEW x \in Int, NEW y \in Int, NEW u \in Int, NEW v \in Int
    PROVE  /\ At(x, y) = At(u, v) => x = u /\ y = v
           /\ grid.m_layoutType = "RowFirst" /\ Line(At(x, y)) = Line(At(u, v)) => x = u
           /\ grid.m_layoutType # "RowFirst" /\ Line(At(x, y)) = Line(At(u, v)) => y = v
<1>1. grid.m_LatMin \in Int /\ grid.m_LonMin \in Int BY GridFacts
<1>2. /\ At(x, y).north = grid.m_LatMin + x /\ At(x, y).east = grid.m_LonMin + y
      /\ At(u, v).north = grid.m_LatMin + u /\ At(u, v).east = grid.m_LonMin + v
  BY DEF At
<1>3. At(x, y).north = At(u, v).north => x = u BY <1>1, <1>2
<1>4. At(x, y).east = At(u, v).east => y = v BY <1>1, <1>2
<1> QED BY <1>3, <1>4 DEF Line

\* Objects at multiples of the spacings: the same place, or line, means the same
\* multiples.
LEMMA SpacedApart ==
    ASSUME NEW delta \in Int, delta # 0, NEW epsilon \in Int, epsilon # 0,
           NEW x \in Int, NEW y \in Int, NEW u \in Int, NEW v \in Int,
           GridTypes
    PROVE  /\ delta * x \in Int /\ epsilon * y \in Int
           /\ At(delta * x, epsilon * y) = At(delta * u, epsilon * v) => x = u /\ y = v
           /\ grid.m_layoutType = "RowFirst" /\ Line(At(delta * x, epsilon * y)) = Line(At(delta * u, epsilon * v))
              => x = u
           /\ grid.m_layoutType # "RowFirst" /\ Line(At(delta * x, epsilon * y)) = Line(At(delta * u, epsilon * v))
              => y = v
<1>1. PICK dx \in Int, ey \in Int, du \in Int, ev \in Int :
         dx = delta * x /\ ey = epsilon * y /\ du = delta * u /\ ev = epsilon * v
  OBVIOUS
<1>2. /\ At(dx, ey) = At(du, ev) => dx = du /\ ey = ev
      /\ grid.m_layoutType = "RowFirst" /\ Line(At(dx, ey)) = Line(At(du, ev)) => dx = du
      /\ grid.m_layoutType # "RowFirst" /\ Line(At(dx, ey)) = Line(At(du, ev)) => ey = ev
  BY AtFacts
<1>3. dx = du => x = u BY <1>1, CancelSpacing
<1>4. ey = ev => y = v BY <1>1, CancelSpacing
<1> QED BY <1>1, <1>2, <1>3, <1>4

\* A place belongs to one object, and a line to the objects of one row.
LEMMA PlaceIsNumber ==
    ASSUME GridTypes, grid.m_n > 0, grid.m_DeltaLat # 0, grid.m_DeltaLon # 0, NEW k \in Nat, NEW l \in Nat
    PROVE  /\ Place(k) = Place(l) => k = l
           /\ Line(Place(k)) = Line(Place(l)) => k \div grid.m_n = l \div grid.m_n
<1> DEFINE row(m) == m \div grid.m_n
           column(m) == m % grid.m_n
<1>1. grid.m_DeltaLat \in Int /\ grid.m_DeltaLon \in Int /\ grid.m_n \in Nat BY GridFacts
<1>2. row(k) \in Int /\ column(k) \in Int /\ row(l) \in Int /\ column(l) \in Int BY <1>1, RowAndPlace
<1>3. ASSUME row(k) = row(l), column(k) = column(l) PROVE k = l
  <2>1. k = grid.m_n * (k \div grid.m_n) + (k % grid.m_n) BY <1>1, RowAndPlace
  <2>2. l = grid.m_n * (l \div grid.m_n) + (l % grid.m_n) BY <1>1, RowAndPlace
  <2> QED BY <1>3, <2>1, <2>2
<1>4. CASE grid.m_layoutType = "RowFirst"
  <2>1. /\ Place(k) = At(grid.m_DeltaLat * row(k), grid.m_DeltaLon * column(k))
        /\ Place(l) = At(grid.m_DeltaLat * row(l), grid.m_DeltaLon * column(l))
    BY <1>4 DEF Place
  <2> HIDE DEF row, column
  <2>2. /\ Place(k) = Place(l) => row(k) = row(l) /\ column(k) = column(l)
        /\ Line(Place(k)) = Line(Place(l)) => row(k) = row(l)
    BY <1>1, <1>2, <1>4, <2>1, SpacedApart
  <2> QED BY <1>3, <2>2 DEF row
<1>5. CASE grid.m_layoutType # "RowFirst"
  <2>1. /\ Place(k) = At(grid.m_DeltaLat * column(k), grid.m_DeltaLat * row(k))
        /\ Place(l) = At(grid.m_DeltaLat * column(l), grid.m_DeltaLat * row(l))
    BY <1>5 DEF Place
  <2> HIDE DEF row, column
  <2>2. /\ Place(k) = Place(l) => row(k) = row(l) /\ column(k) = column(l)
        /\ Line(Place(k)) = Line(Place(l)) => row(k) = row(l)
    BY <1>1, <1>2, <1>5, <2>1, SpacedApart
  <2> QED BY <1>3, <2>2 DEF row
<1> QED BY <1>4, <1>5

\* GetNext places the object of the next number.
LEMMA GetNextKeeps ==
    ASSUME GridInv, GetNext
    PROVE  GridInv'
<1>1. GridTypes /\ PlacedByNumber /\ grid' = grid BY DEF GridInv, GetNext
<1>2. /\ placed \in Seq([north : Int, east : Int, depth : Int])
      /\ Len(placed) \in Nat /\ DOMAIN placed = 1 .. Len(placed)
      /\ grid.m_LatMin \in Int /\ grid.m_LonMin \in Int /\ grid.m_Depth \in Int
      /\ grid.m_n \in Nat /\ m_current \in Nat /\ Len(placed) <= m_current
  BY <1>1, GridFacts DEF GridTypes
<1>3. CASE m_current > 0 /\ grid.m_n = 0
  <2>1. m_current' = m_current /\ placed' = placed BY <1>3 DEF GetNext
  <2> QED BY <1>1, <1>3, <2>1 DEF GridInv, GridTypes, PlacedByNumber
<1>4. CASE ~(m_current > 0 /\ grid.m_n = 0)
  <2>1. m_current' = m_current + 1 BY <1>4 DEF GetNext
  <2>2. PICK object : /\ placed' = Append(placed, object)
                      /\ object = IF m_current = 0 THEN At(0, 0)
                                  ELSE IF grid.m_layoutType = "RowFirst" THEN RowFirst ELSE ColumnFirst
    BY <1>4 DEF GetNext
  <2>3. grid.m_n > 0 => object = Place(m_current)
    BY <1>1, <1>2, <2>2, PlaceFacts DEF Place, RowFirst, ColumnFirst
  <2>4. object \in [north : Int, east : Int, depth : Int]
    <3>1. CASE grid.m_n > 0 BY <1>1, <1>2, <2>3, <3>1, PlaceFacts
    <3>2. CASE ~(grid.m_n > 0)
      <4>1. object = At(0, 0) BY <1>2, <1>4, <2>2, <3>2
      <4> QED BY <1>2, <4>1 DEF At
    <3> QED BY <3>1, <3>2
  <2>5. /\ placed' \in Seq([north : Int, east : Int, depth : Int])
        /\ Len(placed') = Len(placed) + 1 /\ DOMAIN placed' = 1 .. Len(placed) + 1
        /\ \A a \in 1 .. Len(placed) : placed'[a] = placed[a]
        /\ placed'[Len(placed) + 1] = object
    BY <1>2, <2>2, <2>4
  <2>6. GridTypes' BY <1>1, <1>2, <2>1, <2>5 DEF GridTypes, Attributes
  <2>7. \A a \in Int : Number(a)' = Number(a) BY <1>2, <2>1, <2>5 DEF Number
  <2>8. ASSUME grid.m_n > 0, NEW a \in 1 .. Len(placed) + 1
        PROVE  placed'[a] = Place(Number(a)')
    <3>1. CASE a = Len(placed) + 1
      <4>1. Number(a)' = m_current BY <1>2, <2>1, <2>5, <3>1 DEF Number
      <4> QED BY <2>3, <2>5, <2>8, <3>1, <4>1
    <3>2. CASE a \in 1 .. Len(placed)
      <4>1. Number(a)' = Number(a) BY <1>2, <2>7, <3>2
      <4>2. placed[a] = Place(Number(a)) BY <1>1, <1>2, <2>8, <3>2 DEF PlacedByNumber
      <4> QED BY <2>5, <3>2, <4>1, <4>2
    <3> QED BY <1>2, <3>1, <3>2
  <2>9. PlacedByNumber' BY <1>1, <2>5, <2>8 DEF PlacedByNumber, Place, At
  <2> QED BY <2>6, <2>9 DEF GridInv
<1> QED BY <1>3, <1>4

\* Every object of the grid stands at the place of its number.
THEOREM GridInductive == GridSpec => []GridInv
<1>1. GridInit => GridInv
  <2> SUFFICES ASSUME GridInit PROVE GridInv OBVIOUS
  <2>1. placed = <<>> /\ m_current = 0 /\ grid \in Attributes BY DEF GridInit
  <2>2. placed \in Seq([north : Int, east : Int, depth : Int]) /\ Len(placed) = 0 BY <2>1
  <2> QED BY <2>1, <2>2 DEF GridInv, GridTypes, PlacedByNumber
<1>2. GridInv /\ [GridNext]_gridVars => GridInv'
  <2> SUFFICES ASSUME GridInv, [GridNext]_gridVars PROVE GridInv' OBVIOUS
  <2>1. CASE Set
    <3>1. grid' \in Attributes /\ m_current' = m_current /\ placed' = <<>> BY <2>1 DEF Set
    <3> QED BY <3>1 DEF GridInv, GridTypes, PlacedByNumber, Attributes
  <2>2. CASE GetNext BY <2>2, GetNextKeeps
  <2>3. CASE UNCHANGED gridVars
    BY <2>3 DEF gridVars, GridInv, GridTypes, PlacedByNumber, Attributes, Place, At, Number
  <2> QED BY <2>1, <2>2, <2>3 DEF GridNext
<1> QED BY <1>1, <1>2, PTL DEF GridSpec

\* The objects of a row are as many as the grid is wide.
LEMMA RowIsNarrow ==
    ASSUME NEW base \in Int, NEW n \in Nat, n > 0, NEW row \in Int, NEW S, S \subseteq Int,
           \A b \in S : base + b \in Nat /\ (base + b) \div n = row
    PROVE  Cardinality(S) <= n
<1> DEFINE first == n * row - base
<1>1. first \in Int /\ first + n - 1 \in Int BY DEF first
<1>2. S \subseteq first .. first + n - 1
  <2> SUFFICES ASSUME NEW b \in S PROVE b \in first .. first + n - 1 OBVIOUS
  <2>1. /\ base + b = n * ((base + b) \div n) + ((base + b) % n)
        /\ (base + b) % n \in 0 .. n - 1
    BY RowAndPlace
  <2>2. base + b = n * row + ((base + b) % n) BY <2>1
  <2> QED BY <2>1, <2>2
<1> HIDE DEF first
<1>3. IsFiniteSet(first .. first + n - 1) /\ Cardinality(first .. first + n - 1) = n
  BY <1>1, FS_Interval
<1> QED BY <1>2, <1>3, FS_Subset

\* No two objects of a grid share a place, no line holds more than its width, for
\* every width, spacing and layout, and for attributes that change on the way.
THEOREM GridShapeHolds == GridSpec => []GridShape
<1>1. GridInv => GridShape
  <2> SUFFICES ASSUME GridInv, grid.m_n > 0, grid.m_DeltaLat # 0, grid.m_DeltaLon # 0,
                      NEW a \in DOMAIN placed
               PROVE  /\ \A b \in DOMAIN placed : placed[a] = placed[b] => a = b
                      /\ Cardinality({b \in DOMAIN placed : Line(placed[a]) = Line(placed[b])}) <= grid.m_n
    BY DEF GridShape
  <2>1. GridTypes BY DEF GridInv
  <2>2. /\ Len(placed) \in Nat /\ DOMAIN placed = 1 .. Len(placed) /\ grid.m_n \in Nat
        /\ m_current \in Nat /\ Len(placed) <= m_current
    BY <2>1, GridFacts DEF GridTypes
  <2>3. \A b \in DOMAIN placed : Number(b) \in Nat /\ Number(b) = (m_current - Len(placed) - 1) + b
    BY <2>2 DEF Number
  <2>4. \A b \in DOMAIN placed : placed[b] = Place(Number(b)) BY DEF GridInv, PlacedByNumber
  <2>5. ASSUME NEW b \in DOMAIN placed
        PROVE  /\ placed[a] = placed[b] => a = b
               /\ Line(placed[a]) = Line(placed[b]) => Number(b) \div grid.m_n = Number(a) \div grid.m_n
    <3>1. /\ Place(Number(a)) = Place(Number(b)) => Number(a) = Number(b)
          /\ Line(Place(Number(a))) = Line(Place(Number(b)))
             => Number(a) \div grid.m_n = Number(b) \div grid.m_n
      BY <2>1, <2>3, PlaceIsNumber
    <3>2. Number(a) = Number(b) => a = b BY <2>2, <2>3
    <3> QED BY <2>4, <3>1, <3>2
  <2> DEFINE S == {b \in DOMAIN placed : Line(placed[a]) = Line(placed[b])}
             base == m_current - Len(placed) - 1
             row == Number(a) \div grid.m_n
  <2>6. base \in Int /\ row \in Int /\ S \subseteq Int BY <2>2, <2>3, RowAndPlace
  <2>7. \A b \in S : base + b \in Nat /\ (base + b) \div grid.m_n = row BY <2>3, <2>5
  <2> HIDE DEF base, row
  <2>8. Cardinality(S) <= grid.m_n BY <2>2, <2>6, <2>7, RowIsNarrow
  <2> QED BY <2>5, <2>8
<1> QED BY <1>1, GridInductive, PTL

-----------------------------------------------------------------------------
\* A script that mixes a grid with random allocators and generators, in any order,
\* behaves for each of the two as if it were alone, until it ends.
THEOREM ScriptImplementsBoth == Spec => StreamsSpec /\ GridSpec
<1>1. Init => StreamsInit /\ GridInit BY DEF Init
<1>2. [Next]_vars => [StreamsNext]_streamVars /\ [GridNext]_gridVars
  BY DEF Next, vars
<1> QED BY <1>1, <1>2, PTL DEF Spec, StreamsSpec, GridSpec

\* What holds of streams and numbers and what holds of the grid holds together in
\* every state of every such script.
THEOREM AllocatorsCorrect ==
    Spec => [](StreamsTypeOK /\ StreamsDisjoint /\ NumbersUsedOnce /\ GridShape)
BY ScriptImplementsBoth, TypeCorrect, StreamsDisjointHolds, NumbersUsedOnceHolds, GridShapeHolds, PTL

=============================================================================
