----------------------------- MODULE RandomStreams -----------------------------
(***************************************************************************)
(* The random variables of the module and the streams they draw from: the  *)
(* members of the position allocators, which a script may replace and      *)
(* share, and those of the WossRandomGenerator objects that WOSS creates,  *)
(* clones and assigns to each other.                                       *)
(*                                                                         *)
(* A random variable is external: an object with a stream, -1 when the     *)
(* simulator chose one of its own, which yields the numbers of its stream  *)
(* one after the other and begins again when a stream is set.  A script    *)
(* hands out streams in the ns-3 manner: an object that is assigned        *)
(* streams returns how many it took.                                       *)
(***************************************************************************)
EXTENDS Integers, Sequences, FiniteSets

CONSTANTS
    Scripts,        \* the allocators of a script, each a sequence of their classes
    MaxGenerators,  \* bound: WossRandomGenerator objects
    MaxStream,      \* bound: streams handed out
    MaxReplaced,    \* bound: members replaced by a setter
    MaxDraws        \* bound: objects placed and numbers asked from generators

Classes == {"List", "Grid", "Rectangle", "Box", "Disc", "UniformDisc"}

ASSUME StreamsAssumption ==
    /\ Scripts \subseteq Seq(Classes)
    /\ MaxGenerators \in Nat /\ MaxStream \in Nat
    /\ MaxReplaced \in Nat /\ MaxDraws \in Nat

VARIABLES
    kinds,      \* the allocators of this script
    stream,     \* stream of every random variable
    drawn,      \* how many numbers it has yielded from it
    members,    \* the random variables of every allocator
    replaced,   \* members replaced so far
    m_RandVar,  \* the random variable of every generator
    free,       \* first stream the script has not handed out
    used,       \* history: the numbers of every source that were ever used, by their place
    draws       \* objects placed and numbers asked from generators so far

streamVars == <<kinds, stream, drawn, members, replaced, m_RandVar, free, used, draws>>

\* The offsets AssignStreams gives the members: m_Latitude and m_Longitude; and
\* m_Depth; m_Bearing and m_Range.
RectangleOffsets == <<0, 1>>
BoxOffsets == <<0, 1, 2>>
DiscOffsets == <<0, 1>>
UniformDiscOffsets == <<0, 1>>
ListOffsets == <<>>
GridOffsets == <<>>

Offsets(kind) ==
    CASE kind = "List" -> ListOffsets
      [] kind = "Grid" -> GridOffsets
      [] kind = "Rectangle" -> RectangleOffsets
      [] kind = "Box" -> BoxOffsets
      [] kind = "Disc" -> DiscOffsets
      [] kind = "UniformDisc" -> UniformDiscOffsets

NumMembers(kind) == Len(Offsets(kind))

\* Mutation: a disc returns the offset of its last stream.
TakenByDiscLast == 1

\* What AssignStreams returns, how many streams it took.
TakenByRectangle == 2
TakenByBox == 3
TakenByDisc == 2
TakenByUniformDisc == 2
TakenByList == 0
TakenByGrid == 0

\* Mutation: one stream more is returned than was taken.
TakenOneMore(kind) == NumMembers(kind) + 1

Taken(kind) ==
    CASE kind = "List" -> TakenByList
      [] kind = "Grid" -> TakenByGrid
      [] kind = "Rectangle" -> TakenByRectangle
      [] kind = "Box" -> TakenByBox
      [] kind = "Disc" -> TakenByDisc
      [] kind = "UniformDisc" -> TakenByUniformDisc

\* A variable is named by the allocator and member it was made for, or by 0 and
\* the generator.
OfAllocators == UNION {{<<a, n>> : n \in 1 .. NumMembers(kinds[a])} : a \in DOMAIN kinds}
OfGenerators == {<<0, g>> : g \in 1 .. MaxGenerators}
RandomVariables == OfAllocators \cup OfGenerators

\* Where the numbers of a variable come from: a stream the script handed out, or
\* the variable's own.
OwnSource(v) == <<v[1], v[2], -1>>
StreamSource(s) == <<0, 0, s>>
Sources == {OwnSource(v) : v \in RandomVariables} \cup {StreamSource(s) : s \in 0 .. MaxStream - 1}
Source(v) == IF stream[v] = -1 THEN OwnSource(v) ELSE StreamSource(stream[v])

StreamsInit ==
    /\ kinds \in Scripts
    /\ stream = [v \in RandomVariables |-> -1]
    /\ drawn = [v \in RandomVariables |-> 0]
    /\ members = [a \in DOMAIN kinds |-> [n \in 1 .. NumMembers(kinds[a]) |-> <<a, n>>]]
    /\ replaced = 0
    /\ m_RandVar = <<>>
    /\ free = 0
    /\ used = [s \in Sources |-> {}]
    /\ draws = 0

-----------------------------------------------------------------------------
\* A setter is given a variable that may be a member of another allocator.
SetMember(a, n, v) ==
    /\ replaced < MaxReplaced
    /\ replaced' = replaced + 1
    /\ members' = [members EXCEPT ![a][n] = v]
    /\ UNCHANGED <<kinds, stream, drawn, m_RandVar, free, used, draws>>

\* SetLatitude and SetLongitude; and SetDepth; SetBearing and SetRange.  A uniform
\* disc keeps its own variables.
SetRectangleMember(a, n, v) == kinds[a] = "Rectangle" /\ SetMember(a, n, v)
SetBoxMember(a, n, v) == kinds[a] = "Box" /\ SetMember(a, n, v)
SetDiscMember(a, n, v) == kinds[a] = "Disc" /\ SetMember(a, n, v)

\* The variables that are its members, fewer than the members when one serves twice.
MembersOf(a) == {members[a][n] : n \in DOMAIN members[a]}

\* SetStream is called member after member: the last one a variable is counts.
LastMember(a, v) ==
    CHOOSE n \in DOMAIN members[a] :
        /\ members[a][n] = v
        /\ \A m \in DOMAIN members[a] : m > n => members[a][m] # v

\* Mutation: the first stream goes to every member.
OffsetZero(a, v) == 0

\* The offset of the stream a variable is left with.
Offset(a, v) == Offsets(kinds[a])[LastMember(a, v)]

\* AssignStreams of an allocator: consecutive streams, member after member.
AssignAllocator(a) ==
    /\ free + NumMembers(kinds[a]) <= MaxStream
    /\ stream' = [v \in DOMAIN stream |-> IF v \in MembersOf(a) THEN free + Offset(a, v) ELSE stream[v]]
    /\ drawn' = [v \in DOMAIN drawn |-> IF v \in MembersOf(a) THEN 0 ELSE drawn[v]]
    /\ free' = free + Taken(kinds[a])
    /\ UNCHANGED <<kinds, members, replaced, m_RandVar, used, draws>>

\* Some variables yield their next number, one after the other.
Draw(variables) ==
    LET times(v) == Cardinality({n \in DOMAIN variables : variables[n] = v})
    IN  /\ draws < MaxDraws
        /\ draws' = draws + 1
        /\ drawn' = [v \in DOMAIN drawn |-> drawn[v] + times(v)]
        /\ used' = [s \in DOMAIN used |-> used[s] \cup
              UNION {drawn[v] + 1 .. drawn'[v] : v \in {w \in DOMAIN drawn : Source(w) = s}}]
        /\ UNCHANGED <<kinds, stream, members, replaced, m_RandVar, free>>

\* GetNext: every member yields one number, in order; list and grid draw none.
RectangleGetNext(a) == kinds[a] = "Rectangle" /\ Draw(members[a])
BoxGetNext(a) == kinds[a] = "Box" /\ Draw(members[a])
DiscGetNext(a) == kinds[a] = "Disc" /\ Draw(members[a])
UniformDiscGetNext(a) == kinds[a] = "UniformDisc" /\ Draw(members[a])

-----------------------------------------------------------------------------
\* The constructor and create: a generator with a variable of its own; the seed
\* is not used.
Create ==
    /\ Len(m_RandVar) < MaxGenerators
    /\ m_RandVar' = Append(m_RandVar, <<0, Len(m_RandVar) + 1>>)
    /\ UNCHANGED <<kinds, stream, drawn, members, replaced, free, used, draws>>

\* The variable of a copy: the copy constructor copies the pointer.
Copied(g) == m_RandVar[g]

\* Mutation: a clone has a variable of its own, which is set to the stream of its
\* source.
CloneOntoStream(g) ==
    LET own == <<0, Len(m_RandVar) + 1>>
    IN  /\ Len(m_RandVar) < MaxGenerators
        /\ m_RandVar' = Append(m_RandVar, own)
        /\ stream' = [stream EXCEPT ![own] = stream[m_RandVar[g]]]
        /\ drawn' = [drawn EXCEPT ![own] = 0]
        /\ UNCHANGED <<kinds, members, replaced, free, used, draws>>

Clone(g) ==
    /\ Len(m_RandVar) < MaxGenerators
    /\ m_RandVar' = Append(m_RandVar, Copied(g))
    /\ UNCHANGED <<kinds, stream, drawn, members, replaced, free, used, draws>>

\* operator=
Assign(h, g) ==
    /\ h # g
    /\ m_RandVar' = [m_RandVar EXCEPT ![h] = Copied(g)]
    /\ UNCHANGED <<kinds, stream, drawn, members, replaced, free, used, draws>>

\* WossRandomGenerator::AssignStreams.
AssignGenerator(g) ==
    /\ free + 1 <= MaxStream
    /\ stream' = [stream EXCEPT ![m_RandVar[g]] = free]
    /\ drawn' = [drawn EXCEPT ![m_RandVar[g]] = 0]
    /\ free' = free + 1
    /\ UNCHANGED <<kinds, members, replaced, m_RandVar, used, draws>>

\* getRand and getRandInt.
GetRand(g) == Draw(<<m_RandVar[g]>>)

StreamsNext ==
    \/ \E a \in DOMAIN kinds :
          \/ \E n \in DOMAIN members[a], v \in OfAllocators :
                SetRectangleMember(a, n, v) \/ SetBoxMember(a, n, v) \/ SetDiscMember(a, n, v)
          \/ AssignAllocator(a)
          \/ RectangleGetNext(a) \/ BoxGetNext(a) \/ DiscGetNext(a) \/ UniformDiscGetNext(a)
    \/ Create
    \/ \E g \in DOMAIN m_RandVar :
          \/ Clone(g)
          \/ AssignGenerator(g)
          \/ GetRand(g)
          \/ \E h \in DOMAIN m_RandVar : Assign(h, g)

StreamsSpec == StreamsInit /\ [][StreamsNext]_streamVars

-----------------------------------------------------------------------------
\* Type invariant of the streams.
StreamsTypeOK ==
    /\ kinds \in Scripts
    /\ stream \in [RandomVariables -> -1 .. MaxStream - 1]
    /\ drawn \in [RandomVariables -> Nat]
    /\ DOMAIN members = DOMAIN kinds
    /\ \A a \in DOMAIN kinds : members[a] \in [1 .. NumMembers(kinds[a]) -> OfAllocators]
    /\ replaced \in 0 .. MaxReplaced
    /\ m_RandVar \in Seq(OfGenerators)
    /\ Len(m_RandVar) <= MaxGenerators
    /\ free \in 0 .. MaxStream
    /\ used \in [Sources -> SUBSET Nat]
    /\ draws \in 0 .. MaxDraws

\* Whatever variables allocators share and whatever generators were copied, two
\* random variables that were assigned streams never draw from the same one.
StreamsDisjoint ==
    \A v, w \in DOMAIN stream : v # w /\ stream[v] # -1 => stream[v] # stream[w]

\* No random number serves twice, for two coordinates, for two objects or for a
\* generator: the numbers ahead of every variable are ones that were never used, also
\* when streams are set again between draws and variables that were assigned
\* streams are replaced.  Positions drawn by different objects are independent.
NumbersUsedOnce ==
    \A v \in RandomVariables : \A n \in used[Source(v)] : n <= drawn[v]

=============================================================================
