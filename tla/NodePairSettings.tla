--------------------------- MODULE NodePairSettings ---------------------------
(***************************************************************************)
(* The launch angles and custom transducers that WossHelper binds to pairs *)
(* of nodes.  A node is named by a pointer to its mobility model; the      *)
(* tables of the WOSS bellhop creator are keyed by WossLocation objects,   *)
(* which the helper keeps in m_locMap under the model's address, and never *)
(* removes.                                                                *)
(*                                                                         *)
(* Memory is explicit: a mobility model lives while someone refers to it,  *)
(* and the address of one that is gone may be given to another.  The two   *)
(* tables of the bellhop creator are external; they are keyed exactly.     *)
(* Every operation starts with CheckInitialized: the model begins after    *)
(* Initialize.                                                             *)
(***************************************************************************)
EXTENDS Integers, Sequences, Functions

CONSTANTS
    Model,              \* MobilityModel objects
    Address,            \* addresses they may be allocated at
    NoAddress,          \* the address of an object that is not allocated
    AnyNode,            \* nullptr: every transmitter, or every receiver
    Unset,              \* no entry
    DefaultAngles,      \* the launch angles of the helper's attributes
    AngleStrings,       \* angle strings, each the sequence of its fields
    TransducerStrings,  \* custom transducer strings, likewise
    MaxOps              \* bound: calls of the helper

ASSUME DistinctAssumption == NoAddress \notin Address /\ AnyNode \notin Model
ASSUME MaxOpsAssumption == MaxOps \in Nat

VARIABLES
    addr,           \* address of every model
    refs,           \* models the simulation script refers to
    heap,           \* the WossLocation objects made, each the model it refers to
    m_locMap,       \* address -> WossLocation
    angles,         \* table of woss::BellhopCreator: pair of locations -> angles
    transducers,    \* likewise, -> custom transducer
    anglesFor,      \* history: what was last bound to a pair of models
    transducersFor, \* likewise
    ret,            \* what the last call returned, if it was a getter
    ops             \* calls so far

vars == <<addr, refs, heap, m_locMap, angles, transducers, anglesFor, transducersFor, ret, ops>>

Node == Model \cup {AnyNode}
Pairs == Node \X Node

Bind(table, key, value) == [x \in DOMAIN table \cup {key} |-> IF x = key THEN value ELSE table[x]]
Erase(table, key) == [x \in DOMAIN table \ {key} |-> table[x]]
Entry(table, key) == IF key \in DOMAIN table THEN table[key] ELSE Unset

\* Mutation: a WossLocation holds a raw pointer.
AliveByScript(m) == m \in refs

\* A WossLocation holds a Ptr to its model.
Alive(m) == m \in refs \/ m \in Range(heap)

\* Mutation: the map is given the number of locations before this one.
LocatedOffByOne(h, map, m) ==
    IF m = AnyNode \/ addr[m] \in DOMAIN map THEN [heap |-> h, map |-> map]
    ELSE [heap |-> Append(h, m), map |-> Bind(map, addr[m], Len(h))]

\* GetWossLocation: a new location for a model whose address is not in m_locMap.
Located(h, map, m) ==
    IF m = AnyNode \/ addr[m] \in DOMAIN map THEN [heap |-> h, map |-> map]
    ELSE [heap |-> Append(h, m), map |-> Bind(map, addr[m], Len(h) + 1)]

LocatedPair(tx, rx) ==
    LET t == Located(heap, m_locMap, tx) IN Located(t.heap, t.map, rx)

\* The location a table is keyed by; 0 is ALL_LOCATIONS.
Location(map, m) == IF m = AnyNode THEN 0 ELSE map[addr[m]]

\* Mutation: the transmitter's location stands for both.
KeyOfTransmitter(map, tx, rx) == <<Location(map, tx), Location(map, tx)>>

Key(map, tx, rx) == <<Location(map, tx), Location(map, rx)>>

\* CustomAngles of min|max, CustomTransducer of a type and five numbers; what
\* follows is ignored.
ParseAngles(fields) == SubSeq(fields, 1, 2)
ParseTransducer(fields) == SubSeq(fields, 1, 6)

\* Initialize has bound the angles of the attributes to every pair.
Init ==
    /\ addr = [m \in Model |-> NoAddress]
    /\ refs = {}
    /\ heap = <<>>
    /\ m_locMap = <<>>
    /\ angles = [key \in {<<0, 0>>} |-> DefaultAngles]
    /\ transducers = <<>>
    /\ anglesFor = [p \in Pairs |-> IF p = <<AnyNode, AnyNode>> THEN DefaultAngles ELSE Unset]
    /\ transducersFor = [p \in Pairs |-> Unset]
    /\ ret = Unset
    /\ ops = 0

-----------------------------------------------------------------------------
\* A script makes a mobility model, at an address where none lives.
CreateModel(m, a) ==
    /\ addr[m] = NoAddress
    /\ \A n \in Model : Alive(n) => addr[n] # a
    /\ addr' = [addr EXCEPT ![m] = a]
    /\ refs' = refs \cup {m}
    /\ UNCHANGED <<heap, m_locMap, angles, transducers, anglesFor, transducersFor, ret, ops>>

\* The script and the node let a model go.
DropModel(m) ==
    /\ m \in refs
    /\ refs' = refs \ {m}
    /\ UNCHANGED <<addr, heap, m_locMap, angles, transducers, anglesFor, transducersFor, ret, ops>>

\* Every call names models its caller refers to; those named get locations.
Call(tx, rx) ==
    /\ ops < MaxOps
    /\ {tx, rx} \subseteq refs \cup {AnyNode}
    /\ heap' = LocatedPair(tx, rx).heap
    /\ m_locMap' = LocatedPair(tx, rx).map
    /\ ops' = ops + 1
    /\ UNCHANGED <<addr, refs>>

\* SetAngles: with a transmitter it erases the entry instead of setting it.
SetAngles(value, tx, rx) ==
    /\ Call(tx, rx)
    /\ angles' = IF tx = AnyNode THEN Bind(angles, Key(m_locMap', tx, rx), value)
                 ELSE Erase(angles, Key(m_locMap', tx, rx))
    /\ anglesFor' = [anglesFor EXCEPT ![<<tx, rx>>] = value]
    /\ ret' = Unset
    /\ UNCHANGED <<transducers, transducersFor>>

\* A string with too few fields is refused before anything is looked up.
SetAnglesString(fields, tx, rx) ==
    IF Len(fields) < 2
       THEN /\ ops < MaxOps
            /\ ops' = ops + 1
            /\ ret' = Unset
            /\ UNCHANGED <<addr, refs, heap, m_locMap, angles, transducers, anglesFor, transducersFor>>
       ELSE SetAngles(ParseAngles(fields), tx, rx)

EraseAngles(tx, rx) ==
    /\ Call(tx, rx)
    /\ angles' = Erase(angles, Key(m_locMap', tx, rx))
    /\ anglesFor' = [anglesFor EXCEPT ![<<tx, rx>>] = Unset]
    /\ ret' = Unset
    /\ UNCHANGED <<transducers, transducersFor>>

SetCustomTransducer(value, tx, rx) ==
    /\ Call(tx, rx)
    /\ transducers' = Bind(transducers, Key(m_locMap', tx, rx), value)
    /\ transducersFor' = [transducersFor EXCEPT ![<<tx, rx>>] = value]
    /\ ret' = Unset
    /\ UNCHANGED <<angles, anglesFor>>

SetCustomTransducerString(fields, tx, rx) ==
    IF Len(fields) < 6
       THEN /\ ops < MaxOps
            /\ ops' = ops + 1
            /\ ret' = Unset
            /\ UNCHANGED <<addr, refs, heap, m_locMap, angles, transducers, anglesFor, transducersFor>>
       ELSE SetCustomTransducer(ParseTransducer(fields), tx, rx)

EraseCustomTransducer(tx, rx) ==
    /\ Call(tx, rx)
    /\ transducers' = Erase(transducers, Key(m_locMap', tx, rx))
    /\ transducersFor' = [transducersFor EXCEPT ![<<tx, rx>>] = Unset]
    /\ ret' = Unset
    /\ UNCHANGED <<angles, anglesFor>>

\* The getters, const as they are, make locations too.
GetAngles(tx, rx) ==
    /\ Call(tx, rx)
    /\ ret' = Entry(angles, Key(m_locMap', tx, rx))
    /\ UNCHANGED <<angles, transducers, anglesFor, transducersFor>>

GetCustomTransducer(tx, rx) ==
    /\ Call(tx, rx)
    /\ ret' = Entry(transducers, Key(m_locMap', tx, rx))
    /\ UNCHANGED <<angles, transducers, anglesFor, transducersFor>>

Next ==
    \/ \E m \in Model, a \in Address : CreateModel(m, a)
    \/ \E m \in Model : DropModel(m)
    \/ \E tx, rx \in Node :
          \/ \E fields \in AngleStrings : SetAnglesString(fields, tx, rx)
          \/ \E fields \in TransducerStrings : SetCustomTransducerString(fields, tx, rx)
          \/ EraseAngles(tx, rx)
          \/ EraseCustomTransducer(tx, rx)
          \/ GetAngles(tx, rx)
          \/ GetCustomTransducer(tx, rx)

Spec == Init /\ [][Next]_vars

-----------------------------------------------------------------------------
\* Type invariant of the helper's map and of the tables.
TypeOK ==
    /\ addr \in [Model -> Address \cup {NoAddress}]
    /\ refs \subseteq Model
    /\ heap \in Seq(Model)
    /\ DOMAIN m_locMap \subseteq Address
    /\ Range(m_locMap) \subseteq DOMAIN heap
    /\ DOMAIN angles \subseteq (0 .. Len(heap)) \X (0 .. Len(heap))
    /\ DOMAIN transducers \subseteq (0 .. Len(heap)) \X (0 .. Len(heap))
    /\ ops \in 0 .. MaxOps

\* The location m_locMap holds for the address of a model in use is the location
\* of that model, never the one of an earlier model at the same address.
LocationOfItsModel ==
    \A m \in refs : addr[m] \in DOMAIN m_locMap => heap[m_locMap[addr[m]]] = m

\* The entry a lookup for a pair finds.
Found(table, tx, rx) ==
    IF \A m \in {tx, rx} : m = AnyNode \/ addr[m] \in DOMAIN m_locMap
       THEN Entry(table, Key(m_locMap, tx, rx)) ELSE Unset

\* A lookup for a pair of nodes finds the transducer last bound to these very
\* nodes, whatever other nodes came, went, and were bound to since.
TransducersAsBound ==
    \A tx, rx \in refs \cup {AnyNode} : Found(transducers, tx, rx) = transducersFor[<<tx, rx>>]

\* The same of the angles bound for every transmitter.
WildcardAnglesAsBound ==
    \A rx \in refs \cup {AnyNode} : Found(angles, AnyNode, rx) = anglesFor[<<AnyNode, rx>>]

\* woss-helper.h says that SetAngles binds the angles to a node pair and that
\* it returns true if it did.
AnglesAsBound ==
    \A tx, rx \in refs \cup {AnyNode} : Found(angles, tx, rx) = anglesFor[<<tx, rx>>]

=============================================================================
