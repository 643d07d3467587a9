----------------------- MODULE NodePairSettingsProofs -----------------------
(***************************************************************************)
(* Node pairs for every set of models and addresses and any number of      *)
(* calls.  A location keeps its model alive, so no other living model has  *)
(* its address, and m_locMap and the locations are inverse to each other.  *)
(* Hence two nodes never share a key, and what is bound to a pair stays    *)
(* there until it is bound again or erased.                                *)
(***************************************************************************)
EXTENDS NodePairSettings, TLAPS

\* The map and the locations are inverse to each other.
Consistent(h, map) ==
    /\ h \in Seq(Model)
    /\ DOMAIN map \subseteq Address
    /\ \A a \in DOMAIN map : map[a] \in 1 .. Len(h) /\ addr[h[map[a]]] = a
    /\ \A l \in 1 .. Len(h) : addr[h[l]] \in DOMAIN map /\ map[addr[h[l]]] = l

\* Living models have an address, each its own.
OwnAddress ==
    /\ addr \in [Model -> Address \cup {NoAddress}]
    /\ refs \subseteq Model
    /\ \A m \in Model : Alive(m) => addr[m] \in Address
    /\ \A m, n \in Model : Alive(m) /\ Alive(n) /\ addr[m] = addr[n] => m = n

HasLocation(m) == m = AnyNode \/ m \in Range(heap)

\* A table has what was bound for a transmitter.
BoundFor(tx, table, for) ==
    \A rx \in Node :
        IF HasLocation(tx) /\ HasLocation(rx)
           THEN Entry(table, Key(m_locMap, tx, rx)) = for[<<tx, rx>>]
           ELSE for[<<tx, rx>>] = Unset

Tables ==
    /\ DOMAIN angles \subseteq (0 .. Len(heap)) \X (0 .. Len(heap))
    /\ DOMAIN transducers \subseteq (0 .. Len(heap)) \X (0 .. Len(heap))
    /\ DOMAIN anglesFor = Pairs /\ DOMAIN transducersFor = Pairs
    /\ BoundFor(AnyNode, angles, anglesFor)
    /\ \A tx \in Node : BoundFor(tx, transducers, transducersFor)

IInv == OwnAddress /\ Consistent(heap, m_locMap) /\ Tables /\ ops \in 0 .. MaxOps

-----------------------------------------------------------------------------
\* GetWossLocation: the model named has a location afterwards, and no other
\* model gains, loses or changes one.
LEMMA LocatedFacts ==
    ASSUME NEW h, NEW map, Consistent(h, map), addr \in [Model -> Address \cup {NoAddress}],
           NEW m \in Node,
           m # AnyNode => addr[m] \in Address
                          /\ \A l \in 1 .. Len(h) : addr[h[l]] = addr[m] => h[l] = m,
           NEW r, r = Located(h, map, m)
    PROVE  /\ Consistent(r.heap, r.map)
           /\ Len(h) <= Len(r.heap)
           /\ \A l \in 1 .. Len(h) : r.heap[l] = h[l]
           /\ \A l \in 1 .. Len(r.heap) : l > Len(h) => r.heap[l] = m /\ m # AnyNode
           /\ \A a \in DOMAIN map : a \in DOMAIN r.map /\ r.map[a] = map[a]
           /\ m # AnyNode => addr[m] \in DOMAIN r.map /\ r.heap[r.map[addr[m]]] = m
<1>1. CASE m = AnyNode \/ addr[m] \in DOMAIN map
  <2>1. r = [heap |-> h, map |-> map] BY <1>1 DEF Located
  <2>2. r.heap = h /\ r.map = map BY <2>1
  <2>3. m # AnyNode => h[map[addr[m]]] = m BY <1>1 DEF Consistent
  <2>4. Len(h) \in Nat BY DEF Consistent
  <2> QED BY <1>1, <2>2, <2>3, <2>4
<1>2. CASE m # AnyNode /\ addr[m] \notin DOMAIN map
  <2> DEFINE g == Append(h, m)
             new == Bind(map, addr[m], Len(h) + 1)
  <2>1. r = [heap |-> g, map |-> new] BY <1>2 DEF Located
  <2>2. r.heap = g /\ r.map = new BY <2>1
  <2>3. m \in Model BY <1>2 DEF Node
  <2>4. h \in Seq(Model) /\ Len(h) \in Nat BY DEF Consistent
  <2>5. /\ g \in Seq(Model) /\ Len(g) = Len(h) + 1
        /\ \A l \in 1 .. Len(h) : g[l] = h[l]
        /\ g[Len(h) + 1] = m
    BY <2>3, <2>4
  <2>6. /\ DOMAIN new = DOMAIN map \cup {addr[m]}
        /\ new[addr[m]] = Len(h) + 1
        /\ \A a \in DOMAIN map : new[a] = map[a]
    BY <1>2 DEF Bind
  <2> HIDE DEF g, new
  <2>7. Consistent(g, new)
    <3>1. DOMAIN new \subseteq Address BY <1>2, <2>6 DEF Consistent
    <3>2. ASSUME NEW a \in DOMAIN new
          PROVE  new[a] \in 1 .. Len(g) /\ addr[g[new[a]]] = a
      <4>1. CASE a = addr[m] BY <2>4, <2>5, <2>6, <4>1
      <4>2. CASE a \in DOMAIN map
        <5>1. map[a] \in 1 .. Len(h) /\ addr[h[map[a]]] = a BY <4>2 DEF Consistent
        <5> QED BY <2>4, <2>5, <2>6, <4>2, <5>1
      <4> QED BY <2>6, <4>1, <4>2
    <3>3. ASSUME NEW l \in 1 .. Len(g)
          PROVE  addr[g[l]] \in DOMAIN new /\ new[addr[g[l]]] = l
      <4>1. CASE l = Len(h) + 1 BY <2>5, <2>6, <4>1
      <4>2. CASE l \in 1 .. Len(h)
        <5>1. addr[h[l]] \in DOMAIN map /\ map[addr[h[l]]] = l BY <4>2 DEF Consistent
        <5> QED BY <2>5, <2>6, <4>2, <5>1
      <4> QED BY <2>4, <2>5, <4>1, <4>2
    <3> QED BY <2>5, <3>1, <3>2, <3>3 DEF Consistent
  <2> QED BY <1>2, <2>2, <2>4, <2>5, <2>6, <2>7
<1> QED BY <1>1, <1>2

\* A call leaves every location in its place, gives one to the models it names,
\* and no two models share a key.
LEMMA CallFacts ==
    ASSUME IInv, NEW tx \in Node, NEW rx \in Node, Call(tx, rx)
    PROVE  /\ OwnAddress' /\ Consistent(heap, m_locMap)' /\ ops' \in 0 .. MaxOps
           /\ Len(heap) \in Nat /\ Len(heap') \in Nat /\ Len(heap) <= Len(heap')
           /\ \A m \in Node : HasLocation(m)' <=> HasLocation(m) \/ m \in {tx, rx}
           /\ \A m \in Node : HasLocation(m)' => Location(m_locMap, m)' \in 0 .. Len(heap')
           /\ \A m \in Node : HasLocation(m) => Location(m_locMap, m)' = Location(m_locMap, m)
           /\ \A m \in Node : HasLocation(m)' /\ ~HasLocation(m)
                                  => Location(m_locMap, m)' > Len(heap)
           /\ \A m, n \in Node : HasLocation(m)' /\ HasLocation(n)'
                                  /\ Location(m_locMap, m)' = Location(m_locMap, n)' => m = n
<1> DEFINE t == Located(heap, m_locMap, tx)
           r == Located(t.heap, t.map, rx)
<1>1. heap' = r.heap /\ m_locMap' = r.map /\ addr' = addr /\ refs' = refs
  BY DEF Call, LocatedPair
<1>2. addr \in [Model -> Address \cup {NoAddress}] BY DEF IInv, OwnAddress
<1>3. \A m \in Node : m # AnyNode => m \in Model BY DEF Node
<1>4. tx # AnyNode => tx \in refs BY DEF Call
<1>5. rx # AnyNode => rx \in refs BY DEF Call
<1>6. \A l \in 1 .. Len(heap) : heap[l] \in Model /\ Alive(heap[l])
  <2>1. heap \in Seq(Model) BY DEF IInv, Consistent
  <2> QED BY <2>1 DEF Alive, Range
<1>7. /\ Consistent(t.heap, t.map)
      /\ Len(heap) <= Len(t.heap)
      /\ \A l \in 1 .. Len(heap) : t.heap[l] = heap[l]
      /\ \A l \in 1 .. Len(t.heap) : l > Len(heap) => t.heap[l] = tx /\ tx # AnyNode
      /\ \A a \in DOMAIN m_locMap : a \in DOMAIN t.map /\ t.map[a] = m_locMap[a]
      /\ tx # AnyNode => addr[tx] \in DOMAIN t.map /\ t.heap[t.map[addr[tx]]] = tx
  <2>1. tx # AnyNode => addr[tx] \in Address
                        /\ \A l \in 1 .. Len(heap) : addr[heap[l]] = addr[tx] => heap[l] = tx
    BY <1>3, <1>4, <1>6 DEF IInv, OwnAddress, Alive
  <2>2. Consistent(heap, m_locMap) BY DEF IInv
  <2> HIDE DEF t
  <2> QED BY <1>2, <2>1, <2>2, LocatedFacts DEF t
<1> HIDE DEF t
<1>8. Len(heap) \in Nat /\ Len(t.heap) \in Nat BY <1>7 DEF IInv, Consistent
<1>9. \A l \in 1 .. Len(t.heap) : t.heap[l] \in Model /\ Alive(t.heap[l])
  <2> TAKE l \in 1 .. Len(t.heap)
  <2>1. CASE l \in 1 .. Len(heap) BY <1>6, <1>7, <2>1
  <2>2. CASE l > Len(heap) BY <1>3, <1>4, <1>7, <2>2 DEF Alive
  <2> QED BY <1>8, <2>1, <2>2
<1>10. /\ Consistent(r.heap, r.map)
       /\ Len(t.heap) <= Len(r.heap)
       /\ \A l \in 1 .. Len(t.heap) : r.heap[l] = t.heap[l]
       /\ \A l \in 1 .. Len(r.heap) : l > Len(t.heap) => r.heap[l] = rx /\ rx # AnyNode
       /\ \A a \in DOMAIN t.map : a \in DOMAIN r.map /\ r.map[a] = t.map[a]
       /\ rx # AnyNode => addr[rx] \in DOMAIN r.map /\ r.heap[r.map[addr[rx]]] = rx
  <2>1. rx # AnyNode => addr[rx] \in Address
                        /\ \A l \in 1 .. Len(t.heap) : addr[t.heap[l]] = addr[rx] => t.heap[l] = rx
    BY <1>3, <1>5, <1>9 DEF IInv, OwnAddress, Alive
  <2> HIDE DEF r
  <2> QED BY <1>2, <1>7, <2>1, LocatedFacts DEF r
<1> HIDE DEF r
<1>11. Len(r.heap) \in Nat BY <1>10 DEF Consistent
<1>12. Consistent(heap, m_locMap)' BY <1>1, <1>10 DEF Consistent
<1>13. \A l \in 1 .. Len(heap) : heap'[l] = heap[l]
  BY <1>1, <1>7, <1>8, <1>10
<1>14. \A l \in 1 .. Len(heap') : l > Len(heap) => heap'[l] \in {tx, rx} \ {AnyNode}
  BY <1>1, <1>7, <1>8, <1>10, <1>11
<1>15. \A a \in DOMAIN m_locMap : a \in DOMAIN m_locMap' /\ m_locMap'[a] = m_locMap[a]
  BY <1>1, <1>7, <1>10
<1>16. \A m \in {tx, rx} : m # AnyNode =>
           addr[m] \in DOMAIN m_locMap' /\ heap'[m_locMap'[addr[m]]] = m
  <2>1. ASSUME tx # AnyNode
        PROVE  addr[tx] \in DOMAIN m_locMap' /\ heap'[m_locMap'[addr[tx]]] = tx
    <3>1. addr[tx] \in DOMAIN t.map /\ t.map[addr[tx]] \in 1 .. Len(t.heap)
      BY <1>7, <2>1 DEF Consistent
    <3> QED BY <1>1, <1>7, <1>10, <2>1, <3>1
  <2> QED BY <1>1, <1>10, <2>1
<1>17. heap \in Seq(Model) /\ heap' \in Seq(Model) BY <1>12 DEF IInv, Consistent
<1>18. \A m \in Node : HasLocation(m)' <=> HasLocation(m) \/ m \in {tx, rx}
  <2> TAKE m \in Node
  <2>1. ASSUME m \in Range(heap) PROVE m \in Range(heap')
    <3>1. PICK l \in 1 .. Len(heap) : heap[l] = m BY <1>17, <2>1 DEF Range
    <3>2. l \in 1 .. Len(heap') /\ heap'[l] = m BY <1>1, <1>7, <1>8, <1>10, <1>11, <1>13, <3>1
    <3> QED BY <1>17, <3>2 DEF Range
  <2>2. ASSUME m \in {tx, rx}, m # AnyNode PROVE m \in Range(heap')
    <3>1. m_locMap'[addr[m]] \in 1 .. Len(heap') BY <1>12, <1>16, <2>2 DEF Consistent
    <3> QED BY <1>16, <1>17, <2>2, <3>1 DEF Range
  <2>3. ASSUME m \in Range(heap'), m \notin {tx, rx} PROVE m \in Range(heap)
    <3>1. PICK l \in 1 .. Len(heap') : heap'[l] = m BY <1>17, <2>3 DEF Range
    <3>2. l \in 1 .. Len(heap) BY <1>8, <1>14, <2>3, <3>1
    <3> QED BY <1>13, <1>17, <3>1, <3>2 DEF Range
  <2> QED BY <2>1, <2>2, <2>3 DEF HasLocation
<1>19. \A m \in Node : HasLocation(m)' /\ m # AnyNode =>
           \E l \in 1 .. Len(heap') : heap'[l] = m /\ Location(m_locMap, m)' = l
  <2> TAKE m \in Node
  <2> HAVE HasLocation(m)' /\ m # AnyNode
  <2>1. PICK l \in 1 .. Len(heap') : heap'[l] = m BY <1>17 DEF HasLocation, Range
  <2>2. m_locMap'[addr'[m]] = l BY <1>12, <2>1 DEF Consistent
  <2> QED BY <2>1, <2>2 DEF Location
<1>20. \A m \in Node : HasLocation(m)' => Location(m_locMap, m)' \in 0 .. Len(heap')
  <2> TAKE m \in Node
  <2> HAVE HasLocation(m)'
  <2>1. CASE m = AnyNode BY <1>1, <1>11, <2>1 DEF Location
  <2>2. CASE m # AnyNode BY <1>1, <1>11, <1>19, <2>2
  <2> QED BY <2>1, <2>2
<1>21. ASSUME NEW m \in Node, HasLocation(m)
       PROVE  Location(m_locMap, m)' = Location(m_locMap, m)
  <2>1. CASE m = AnyNode BY <2>1 DEF Location
  <2>2. CASE m # AnyNode
    <3>1. PICK l \in 1 .. Len(heap) : heap[l] = m BY <1>17, <1>21, <2>2 DEF HasLocation, Range
    <3>2. addr[m] \in DOMAIN m_locMap BY <3>1 DEF IInv, Consistent
    <3> QED BY <1>1, <1>15, <2>2, <3>2 DEF Location
  <2> QED BY <2>1, <2>2
<1>22. ASSUME NEW m \in Node, HasLocation(m)', ~HasLocation(m)
       PROVE  Location(m_locMap, m)' > Len(heap)
  <2>1. m # AnyNode BY <1>22 DEF HasLocation
  <2>2. PICK l \in 1 .. Len(heap') : heap'[l] = m /\ Location(m_locMap, m)' = l
    BY <1>19, <1>22, <2>1
  <2>3. l \notin 1 .. Len(heap) BY <1>13, <1>17, <1>22, <2>2 DEF HasLocation, Range
  <2> QED BY <1>1, <1>8, <1>11, <2>2, <2>3
<1>23. ASSUME NEW m \in Node, NEW n \in Node, HasLocation(m)', HasLocation(n)',
              Location(m_locMap, m)' = Location(m_locMap, n)'
       PROVE  m = n
  <2>1. m # AnyNode => Location(m_locMap, m)' # 0 BY <1>1, <1>11, <1>19, <1>23
  <2>2. n # AnyNode => Location(m_locMap, n)' # 0 BY <1>1, <1>11, <1>19, <1>23
  <2>3. m = AnyNode <=> n = AnyNode BY <1>23, <2>1, <2>2 DEF Location
  <2>4. CASE m # AnyNode /\ n # AnyNode BY <1>19, <1>23, <2>4
  <2> QED BY <2>3, <2>4
<1>24. OwnAddress'
  <2>1. \A m \in Model : Alive(m)' => Alive(m)
    <3> TAKE m \in Model
    <3>1. m \in Node BY DEF Node
    <3>2. CASE m \in refs BY <3>2 DEF Alive
    <3>3. CASE m \in Range(heap')
      <4>1. HasLocation(m)' BY <3>3 DEF HasLocation
      <4>2. HasLocation(m) \/ m \in {tx, rx} BY <1>18, <3>1, <4>1
      <4>3. m # AnyNode BY DistinctAssumption
      <4> QED BY <1>4, <1>5, <4>2, <4>3 DEF HasLocation, Alive
    <3> QED BY <1>1, <3>2, <3>3 DEF Alive
  <2> QED BY <1>1, <2>1 DEF IInv, OwnAddress
<1>25. ops' \in 0 .. MaxOps BY MaxOpsAssumption DEF IInv, Call
<1> QED BY <1>1, <1>7, <1>8, <1>10, <1>11, <1>12, <1>18, <1>20, <1>21, <1>22, <1>23, <1>24, <1>25

-----------------------------------------------------------------------------
\* A call that leaves a table alone leaves everything in it where it is found.
LEMMA Untouched ==
    ASSUME IInv, NEW tx \in Node, NEW rx \in Node, Call(tx, rx),
           NEW m \in Node, NEW table, NEW for,
           DOMAIN table \subseteq (0 .. Len(heap)) \X (0 .. Len(heap)), DOMAIN for = Pairs,
           BoundFor(m, table, for)
    PROVE  /\ DOMAIN table \subseteq (0 .. Len(heap')) \X (0 .. Len(heap'))
           /\ \A n \in Node :
                 IF HasLocation(m)' /\ HasLocation(n)'
                    THEN Entry(table, Key(m_locMap, m, n)') = for[<<m, n>>]
                    ELSE for[<<m, n>>] = Unset
<1>1. DOMAIN table \subseteq (0 .. Len(heap')) \X (0 .. Len(heap')) BY CallFacts
<1>2. ASSUME NEW n \in Node
      PROVE  IF HasLocation(m)' /\ HasLocation(n)'
                THEN Entry(table, Key(m_locMap, m, n)') = for[<<m, n>>]
                ELSE for[<<m, n>>] = Unset
  <2>1. CASE HasLocation(m) /\ HasLocation(n)
    <3>1. HasLocation(m)' /\ HasLocation(n)' BY <2>1, CallFacts
    <3>2. Key(m_locMap, m, n)' = Key(m_locMap, m, n) BY <2>1, CallFacts DEF Key
    <3> QED BY <2>1, <3>1, <3>2 DEF BoundFor
  <2>2. CASE ~(HasLocation(m) /\ HasLocation(n))
    <3>1. for[<<m, n>>] = Unset BY <2>2 DEF BoundFor
    <3>2. ASSUME HasLocation(m)', HasLocation(n)' PROVE Key(m_locMap, m, n)' \notin DOMAIN table
      <4>1. Location(m_locMap, m)' > Len(heap) \/ Location(m_locMap, n)' > Len(heap)
        BY <2>2, <3>2, CallFacts
      <4>2. Location(m_locMap, m)' \in Nat /\ Location(m_locMap, n)' \in Nat /\ Len(heap) \in Nat
        BY <3>2, CallFacts
      <4>3. Location(m_locMap, m)' \notin 0 .. Len(heap) \/ Location(m_locMap, n)' \notin 0 .. Len(heap)
        BY <4>1, <4>2
      <4> QED BY <4>3 DEF Key
    <3> QED BY <3>1, <3>2 DEF Entry
  <2> QED BY <2>1, <2>2
<1> QED BY <1>1, <1>2

\* After a call two pairs of nodes with locations have different keys.
LEMMA KeysDiffer ==
    ASSUME IInv, NEW tx \in Node, NEW rx \in Node, Call(tx, rx),
           NEW m \in Node, NEW n \in Node, HasLocation(m)', HasLocation(n)'
    PROVE  /\ Key(m_locMap, tx, rx)' \in (0 .. Len(heap')) \X (0 .. Len(heap'))
           /\ Key(m_locMap, m, n)' = Key(m_locMap, tx, rx)' => m = tx /\ n = rx
<1>1. HasLocation(tx)' /\ HasLocation(rx)' BY CallFacts
<1>2. Key(m_locMap, tx, rx)' \in (0 .. Len(heap')) \X (0 .. Len(heap')) BY <1>1, CallFacts DEF Key
<1>3. ASSUME Key(m_locMap, m, n)' = Key(m_locMap, tx, rx)' PROVE m = tx /\ n = rx
  <2>1. Location(m_locMap, m)' = Location(m_locMap, tx)' /\ Location(m_locMap, n)' = Location(m_locMap, rx)'
    BY <1>3 DEF Key
  <2> QED BY <1>1, <2>1, CallFacts
<1> QED BY <1>2, <1>3

\* The key a call computes is the one of the state it leaves.
LEMMA KeyOfCall ==
    ASSUME NEW tx \in Node, NEW rx \in Node, Call(tx, rx)
    PROVE  Key(m_locMap', tx, rx) = Key(m_locMap, tx, rx)'
BY DEF Call, Key, Location

-----------------------------------------------------------------------------
\* The initial state.
LEMMA InductiveInit == Init => IInv
<1> SUFFICES ASSUME Init PROVE IInv OBVIOUS
<1>1. heap = <<>> /\ refs = {} /\ DOMAIN m_locMap = {} BY DEF Init
<1>2. \A m : ~Alive(m) BY <1>1 DEF Alive, Range
<1>3. OwnAddress BY <1>1, <1>2 DEF Init, OwnAddress
<1>4. Consistent(heap, m_locMap) BY <1>1 DEF Consistent
<1>5. \A m \in Node : HasLocation(m) <=> m = AnyNode BY <1>1 DEF HasLocation, Range
<1>6. Key(m_locMap, AnyNode, AnyNode) = <<0, 0>> BY DEF Key, Location
<1>7. DOMAIN angles \subseteq (0 .. Len(heap)) \X (0 .. Len(heap)) BY <1>1 DEF Init
<1>8. BoundFor(AnyNode, angles, anglesFor)
  <2>1. Entry(angles, <<0, 0>>) = DefaultAngles BY DEF Init, Entry
  <2> QED BY <1>5, <1>6, <2>1 DEF Init, BoundFor, Pairs, Node
<1>9. \A tx \in Node : BoundFor(tx, transducers, transducersFor)
  <2>1. \A key : Entry(transducers, key) = Unset BY DEF Init, Entry
  <2> QED BY <1>5, <1>6, <2>1 DEF Init, BoundFor, Pairs, Node
<1>10. DOMAIN transducers = {} /\ DOMAIN anglesFor = Pairs /\ DOMAIN transducersFor = Pairs /\ ops \in 0 .. MaxOps
  BY MaxOpsAssumption DEF Init
<1> QED BY <1>3, <1>4, <1>7, <1>8, <1>9, <1>10 DEF IInv, Tables

\* A model is made at the address of no living one.
LEMMA CreateModelKeeps ==
    ASSUME IInv, NEW m \in Model, NEW a \in Address, CreateModel(m, a)
    PROVE  IInv'
<1>1. heap' = heap /\ m_locMap' = m_locMap /\ ops' = ops BY DEF CreateModel
<1>2. heap \in Seq(Model) BY DEF IInv, Consistent
<1>3. ~Alive(m)
  <2>1. addr[m] \notin Address BY DistinctAssumption DEF CreateModel
  <2> QED BY <2>1 DEF IInv, OwnAddress
<1>4. \A n \in Model : n # m => addr'[n] = addr[n] BY DEF CreateModel, IInv, OwnAddress
<1>5. \A n \in Model : Alive(n)' <=> Alive(n) \/ n = m BY <1>1, <1>3 DEF Alive, CreateModel
<1>6. addr'[m] = a BY DEF CreateModel, IInv, OwnAddress
<1>7. OwnAddress'
  <2>1. addr' \in [Model -> Address \cup {NoAddress}] /\ refs' \subseteq Model
    BY DEF CreateModel, IInv, OwnAddress
  <2>2. \A n \in Model : Alive(n) => addr[n] # a BY DEF CreateModel
  <2> QED BY <1>4, <1>5, <1>6, <2>1, <2>2 DEF IInv, OwnAddress
<1>8. \A l \in 1 .. Len(heap) : heap[l] \in Model /\ heap[l] # m
  BY <1>2, <1>3 DEF Alive, Range
<1>9. Consistent(heap, m_locMap)' BY <1>1, <1>4, <1>8 DEF IInv, Consistent
<1>10. \A n \in Node : HasLocation(n)' <=> HasLocation(n) BY <1>1 DEF HasLocation
<1>11. \A n \in Node : HasLocation(n) => Location(m_locMap, n)' = Location(m_locMap, n)
  <2> TAKE n \in Node
  <2>1. HasLocation(n) => n # m BY <1>3, DistinctAssumption DEF HasLocation, Alive
  <2> QED BY <1>1, <1>4, <2>1 DEF Location, Node
<1>12. \A n, o \in Node : HasLocation(n) /\ HasLocation(o) => Key(m_locMap, n, o)' = Key(m_locMap, n, o)
  BY <1>11 DEF Key
<1>13. Tables'
  <2>1. angles' = angles /\ transducers' = transducers /\ anglesFor' = anglesFor
        /\ transducersFor' = transducersFor
    BY DEF CreateModel
  <2>2. BoundFor(AnyNode, angles, anglesFor)'
    BY <1>10, <1>12, <2>1 DEF IInv, Tables, BoundFor, Node
  <2>3. \A tx \in Node : BoundFor(tx, transducers, transducersFor)'
    BY <1>10, <1>12, <2>1 DEF IInv, Tables, BoundFor
  <2> QED BY <1>1, <2>1, <2>2, <2>3 DEF IInv, Tables
<1> QED BY <1>1, <1>7, <1>9, <1>13 DEF IInv

\* A table has its type and what was bound for a transmitter, now and after a call.
Whole(m, table, for) ==
    /\ DOMAIN table \subseteq (0 .. Len(heap)) \X (0 .. Len(heap))
    /\ DOMAIN for = Pairs
    /\ BoundFor(m, table, for)

WholeAfter(m, table, for) ==
    /\ DOMAIN table \subseteq (0 .. Len(heap')) \X (0 .. Len(heap'))
    /\ DOMAIN for = Pairs
    /\ \A n \in Node :
          IF HasLocation(m)' /\ HasLocation(n)'
             THEN Entry(table, Key(m_locMap, m, n)') = for[<<m, n>>]
             ELSE for[<<m, n>>] = Unset

\* What a call may do to a table, as far as a transmitter is concerned.
Updated(m, table, for, table2, for2, tx, rx) ==
    \/ table2 = table /\ for2 = for
    \/ \E value :
          /\ for2 = [for EXCEPT ![<<tx, rx>>] = value]
          /\ \/ table2 = Bind(table, Key(m_locMap', tx, rx), value)
             \/ table2 = Erase(table, Key(m_locMap', tx, rx)) /\ (tx = m => value = Unset)

\* Binding at the key of a pair, and erasing there, are seen at that pair only.
LEMMA UpdatedWhole ==
    ASSUME IInv, NEW tx \in Node, NEW rx \in Node, Call(tx, rx), NEW m \in Node,
           NEW table, NEW for, NEW table2, NEW for2,
           Whole(m, table, for), Updated(m, table, for, table2, for2, tx, rx)
    PROVE  WholeAfter(m, table2, for2)
<1>1. /\ DOMAIN table \subseteq (0 .. Len(heap)) \X (0 .. Len(heap)) /\ DOMAIN for = Pairs
      /\ BoundFor(m, table, for)
  BY DEF Whole
<1>2. CASE table2 = table /\ for2 = for BY <1>1, <1>2, Untouched DEF WholeAfter
<1>3. ASSUME NEW value, for2 = [for EXCEPT ![<<tx, rx>>] = value],
             \/ table2 = Bind(table, Key(m_locMap', tx, rx), value)
             \/ table2 = Erase(table, Key(m_locMap', tx, rx)) /\ (tx = m => value = Unset)
      PROVE  WholeAfter(m, table2, for2)
  <2> DEFINE key == Key(m_locMap, tx, rx)'
  <2>1. table2 = Bind(table, key, value) \/ (table2 = Erase(table, key) /\ (tx = m => value = Unset))
    BY <1>3, KeyOfCall
  <2>2. HasLocation(tx)' /\ HasLocation(rx)' BY CallFacts
  <2>3. key \in (0 .. Len(heap')) \X (0 .. Len(heap')) BY <2>2, KeysDiffer
  <2>4. WholeAfter(m, table, for) BY <1>1, Untouched DEF WholeAfter
  <2>5. DOMAIN for2 = Pairs /\ for2[<<tx, rx>>] = value
        /\ \A n \in Node : <<m, n>> # <<tx, rx>> => for2[<<m, n>>] = for[<<m, n>>]
    BY <1>1, <1>3 DEF Pairs
  <2> HIDE DEF key
  <2>6. DOMAIN table2 \subseteq (0 .. Len(heap')) \X (0 .. Len(heap'))
    BY <2>1, <2>3, <2>4 DEF Bind, Erase, WholeAfter
  <2>7. ASSUME NEW n \in Node
        PROVE  IF HasLocation(m)' /\ HasLocation(n)'
                  THEN Entry(table2, Key(m_locMap, m, n)') = for2[<<m, n>>]
                  ELSE for2[<<m, n>>] = Unset
    <3>1. CASE m = tx /\ n = rx
      <4>1. Entry(table2, key) = value BY <2>1, <3>1 DEF Bind, Erase, Entry
      <4>2. key = Key(m_locMap, m, n)' BY <3>1 DEF key
      <4> QED BY <2>2, <2>5, <3>1, <4>1, <4>2
    <3>2. CASE <<m, n>> # <<tx, rx>>
      <4>1. for2[<<m, n>>] = for[<<m, n>>] BY <2>5, <3>2
      <4>2. ASSUME HasLocation(m)', HasLocation(n)'
            PROVE  Entry(table2, Key(m_locMap, m, n)') = Entry(table, Key(m_locMap, m, n)')
        <5>1. Key(m_locMap, m, n)' # key BY <3>2, <4>2, KeysDiffer DEF key
        <5> QED BY <2>1, <5>1 DEF Bind, Erase, Entry
      <4> QED BY <2>4, <4>1, <4>2 DEF WholeAfter
    <3> QED BY <3>1, <3>2
  <2> QED BY <2>5, <2>6, <2>7 DEF WholeAfter
<1> QED BY <1>2, <1>3 DEF Updated

\* What follows of the tables from a call that binds, erases or does neither.
LEMMA TablesKept ==
    ASSUME IInv, NEW tx \in Node, NEW rx \in Node, Call(tx, rx),
           Updated(AnyNode, angles, anglesFor, angles', anglesFor', tx, rx),
           \A m \in Node : Updated(m, transducers, transducersFor, transducers', transducersFor', tx, rx)
    PROVE  IInv'
<1>1. AnyNode \in Node BY DEF Node
<1>2. Whole(AnyNode, angles, anglesFor) BY DEF IInv, Tables, Whole
<1>3. \A m \in Node : Whole(m, transducers, transducersFor) BY DEF IInv, Tables, Whole
<1>4. WholeAfter(AnyNode, angles', anglesFor') BY <1>1, <1>2, UpdatedWhole
<1>5. \A m \in Node : WholeAfter(m, transducers', transducersFor') BY <1>3, UpdatedWhole
<1>6. BoundFor(AnyNode, angles, anglesFor)' BY <1>4 DEF WholeAfter, BoundFor, Entry
<1>7. \A m \in Node : BoundFor(m, transducers, transducersFor)' BY <1>5 DEF WholeAfter, BoundFor, Entry
<1>8. /\ DOMAIN angles' \subseteq (0 .. Len(heap')) \X (0 .. Len(heap')) /\ DOMAIN anglesFor' = Pairs
      /\ DOMAIN transducers' \subseteq (0 .. Len(heap')) \X (0 .. Len(heap')) /\ DOMAIN transducersFor' = Pairs
  BY <1>1, <1>4, <1>5 DEF WholeAfter
<1>9. OwnAddress' /\ Consistent(heap, m_locMap)' /\ ops' \in 0 .. MaxOps BY CallFacts
<1> QED BY <1>6, <1>7, <1>8, <1>9 DEF IInv, Tables

\* A refused string counts as a call and changes nothing else.
LEMMA RefusedKeeps ==
    ASSUME IInv, ops < MaxOps, ops' = ops + 1,
           UNCHANGED <<addr, refs, heap, m_locMap, angles, transducers, anglesFor, transducersFor>>
    PROVE  IInv'
<1>1. ops' \in 0 .. MaxOps BY MaxOpsAssumption DEF IInv
<1>2. OwnAddress' /\ Consistent(heap, m_locMap)' BY DEF IInv, OwnAddress, Alive, Consistent
<1>3. BoundFor(AnyNode, angles, anglesFor)' /\ \A tx \in Node : BoundFor(tx, transducers, transducersFor)'
  BY DEF IInv, Tables, BoundFor, HasLocation, Key, Location
<1> QED BY <1>1, <1>2, <1>3 DEF IInv, Tables

\* The inductive step, one case per operation.
LEMMA InductiveStep == IInv /\ [Next]_vars => IInv'
<1> SUFFICES ASSUME IInv, [Next]_vars PROVE IInv' OBVIOUS
<1>1. ASSUME NEW m \in Model, NEW a \in Address, CreateModel(m, a) PROVE IInv'
  BY <1>1, CreateModelKeeps
<1>2. ASSUME NEW m \in Model, DropModel(m) PROVE IInv'
  <2>1. \A n \in Model : Alive(n)' => Alive(n) BY <1>2 DEF DropModel, Alive
  <2>2. OwnAddress' BY <1>2, <2>1 DEF DropModel, IInv, OwnAddress
  <2>3. Consistent(heap, m_locMap)' BY <1>2 DEF DropModel, IInv, Consistent
  <2>4. BoundFor(AnyNode, angles, anglesFor)' /\ \A tx \in Node : BoundFor(tx, transducers, transducersFor)'
    BY <1>2 DEF DropModel, IInv, Tables, BoundFor, HasLocation, Key, Location
  <2> QED BY <1>2, <2>2, <2>3, <2>4 DEF DropModel, IInv, Tables
<1>3. ASSUME NEW tx \in Node, NEW rx \in Node, NEW fields \in AngleStrings, SetAnglesString(fields, tx, rx)
      PROVE  IInv'
  <2>1. CASE Len(fields) < 2 BY <1>3, <2>1, RefusedKeeps DEF SetAnglesString
  <2>2. CASE ~(Len(fields) < 2)
    <3>1. SetAngles(ParseAngles(fields), tx, rx) BY <1>3, <2>2 DEF SetAnglesString
    <3>2. /\ anglesFor' = [anglesFor EXCEPT ![<<tx, rx>>] = ParseAngles(fields)]
          /\ \/ angles' = Bind(angles, Key(m_locMap', tx, rx), ParseAngles(fields))
             \/ angles' = Erase(angles, Key(m_locMap', tx, rx)) /\ tx # AnyNode
      BY <3>1 DEF SetAngles
    <3> QED BY <3>1, <3>2, TablesKept DEF SetAngles, Updated
  <2> QED BY <2>1, <2>2
<1>4. ASSUME NEW tx \in Node, NEW rx \in Node, NEW fields \in TransducerStrings,
             SetCustomTransducerString(fields, tx, rx)
      PROVE  IInv'
  <2>1. CASE Len(fields) < 6 BY <1>4, <2>1, RefusedKeeps DEF SetCustomTransducerString
  <2>2. CASE ~(Len(fields) < 6)
    <3>1. SetCustomTransducer(ParseTransducer(fields), tx, rx) BY <1>4, <2>2 DEF SetCustomTransducerString
    <3> QED BY <3>1, TablesKept DEF SetCustomTransducer, Updated
  <2> QED BY <2>1, <2>2
<1>5. ASSUME NEW tx \in Node, NEW rx \in Node, EraseAngles(tx, rx) PROVE IInv'
  BY <1>5, TablesKept DEF EraseAngles, Updated
<1>6. ASSUME NEW tx \in Node, NEW rx \in Node, EraseCustomTransducer(tx, rx) PROVE IInv'
  BY <1>6, TablesKept DEF EraseCustomTransducer, Updated
<1>7. ASSUME NEW tx \in Node, NEW rx \in Node, GetAngles(tx, rx) PROVE IInv'
  BY <1>7, TablesKept DEF GetAngles, Updated
<1>8. ASSUME NEW tx \in Node, NEW rx \in Node, GetCustomTransducer(tx, rx) PROVE IInv'
  BY <1>8, TablesKept DEF GetCustomTransducer, Updated
<1>9. CASE UNCHANGED vars
  <2>1. OwnAddress' /\ Consistent(heap, m_locMap)' BY <1>9 DEF vars, IInv, OwnAddress, Alive, Consistent
  <2>2. BoundFor(AnyNode, angles, anglesFor)' /\ \A tx \in Node : BoundFor(tx, transducers, transducersFor)'
    BY <1>9 DEF vars, IInv, Tables, BoundFor, HasLocation, Key, Location
  <2> QED BY <1>9, <2>1, <2>2 DEF vars, IInv, Tables
<1> QED BY <1>1, <1>2, <1>3, <1>4, <1>5, <1>6, <1>7, <1>8, <1>9 DEF Next

\* The strengthening: m_locMap and the locations are inverse to each other,
\* living models have their own addresses, and the tables hold what was bound.
THEOREM InductiveInvariant == Spec => []IInv
<1>1. Init => IInv BY InductiveInit
<1>2. IInv /\ [Next]_vars => IInv' BY InductiveStep
<1> QED BY <1>1, <1>2, PTL DEF Spec

-----------------------------------------------------------------------------
\* The address of a model in use has a location exactly if the model has.
LEMMA LocationOfModel ==
    ASSUME IInv, NEW m \in refs
    PROVE  /\ m \in Node /\ m # AnyNode
           /\ addr[m] \in DOMAIN m_locMap => heap[m_locMap[addr[m]]] = m
           /\ HasLocation(m) <=> addr[m] \in DOMAIN m_locMap
<1>1. m \in Model /\ m # AnyNode /\ Alive(m) BY DistinctAssumption DEF IInv, OwnAddress, Alive
<1>2. heap \in Seq(Model) BY DEF IInv, Consistent
<1>3. ASSUME addr[m] \in DOMAIN m_locMap
      PROVE  m_locMap[addr[m]] \in 1 .. Len(heap) /\ heap[m_locMap[addr[m]]] = m
  <2> DEFINE l == m_locMap[addr[m]]
  <2>1. l \in 1 .. Len(heap) /\ addr[heap[l]] = addr[m] BY <1>3 DEF IInv, Consistent
  <2>2. heap[l] \in Model /\ Alive(heap[l]) BY <1>2, <2>1 DEF Alive, Range
  <2> QED BY <1>1, <2>1, <2>2 DEF IInv, OwnAddress
<1>4. ASSUME m \in Range(heap) PROVE addr[m] \in DOMAIN m_locMap
  <2>1. PICK l \in 1 .. Len(heap) : heap[l] = m BY <1>2, <1>4 DEF Range
  <2> QED BY <2>1 DEF IInv, Consistent
<1>5. addr[m] \in DOMAIN m_locMap => m \in Range(heap) BY <1>2, <1>3 DEF Range
<1> QED BY <1>1, <1>3, <1>4, <1>5 DEF HasLocation, Node

\* A table that has what was bound, for a set of transmitters, is found to have it.
LEMMA FoundAsBound ==
    ASSUME IInv, NEW table, NEW for, NEW tx \in Node, NEW rx \in Node, BoundFor(tx, table, for),
           {tx, rx} \subseteq refs \cup {AnyNode}
    PROVE  Found(table, tx, rx) = for[<<tx, rx>>]
<1>1. \A m \in {tx, rx} : HasLocation(m) <=> m = AnyNode \/ addr[m] \in DOMAIN m_locMap
  BY LocationOfModel DEF HasLocation
<1> QED BY <1>1 DEF Found, BoundFor

\* The map and the tables have their types: GetWossLocation and the operations
\* on node pairs.
THEOREM TypeCorrect == Spec => []TypeOK
<1>1. IInv => TypeOK
  <2> SUFFICES ASSUME IInv PROVE TypeOK OBVIOUS
  <2>1. heap \in Seq(Model) /\ Range(m_locMap) \subseteq DOMAIN heap BY DEF IInv, Consistent, Range
  <2> QED BY <2>1 DEF IInv, OwnAddress, Consistent, Tables, TypeOK
<1> QED BY <1>1, InductiveInvariant, PTL

\* GetWossLocation never hands out the location of an earlier model at the same
\* address, however models come and go.
THEOREM LocationOfItsModelHolds == Spec => []LocationOfItsModel
<1>1. IInv => LocationOfItsModel BY LocationOfModel DEF LocationOfItsModel
<1> QED BY <1>1, InductiveInvariant, PTL

\* A lookup for a pair finds the custom transducer last bound to these nodes.
THEOREM TransducersAsBoundHolds == Spec => []TransducersAsBound
<1>1. IInv => TransducersAsBound
  <2> SUFFICES ASSUME IInv, NEW tx \in refs \cup {AnyNode}, NEW rx \in refs \cup {AnyNode}
               PROVE  Found(transducers, tx, rx) = transducersFor[<<tx, rx>>]
    BY DEF TransducersAsBound
  <2>1. tx \in Node /\ rx \in Node BY DEF IInv, OwnAddress, Node
  <2>2. BoundFor(tx, transducers, transducersFor) BY <2>1 DEF IInv, Tables
  <2> QED BY <2>1, <2>2, FoundAsBound
<1> QED BY <1>1, InductiveInvariant, PTL

\* Angles bound for every transmitter are found again, although SetAngles and
\* EraseAngles with a transmitter erase entries of the same table.
THEOREM WildcardAnglesAsBoundHolds == Spec => []WildcardAnglesAsBound
<1>1. IInv => WildcardAnglesAsBound
  <2> SUFFICES ASSUME IInv, NEW rx \in refs \cup {AnyNode}
               PROVE  Found(angles, AnyNode, rx) = anglesFor[<<AnyNode, rx>>]
    BY DEF WildcardAnglesAsBound
  <2>1. AnyNode \in Node /\ rx \in Node BY DEF IInv, OwnAddress, Node
  <2>2. BoundFor(AnyNode, angles, anglesFor) BY DEF IInv, Tables
  <2> QED BY <2>1, <2>2, FoundAsBound
<1> QED BY <1>1, InductiveInvariant, PTL

=============================================================================
