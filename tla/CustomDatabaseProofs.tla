------------------------- MODULE CustomDatabaseProofs -------------------------
(***************************************************************************)
(* The custom environment for every set of places, strings and objects and *)
(* any number of calls.  What carries the argument is the position of the  *)
(* parser: before point cnt + 1 the fields not read are those of the line  *)
(* from the one after 2 * cnt + 1 on, so that the point it sees is that of *)
(* the reference reading, and it is readable when that says so.            *)
(***************************************************************************)
EXTENDS CustomDatabase, TLAPS

\* The fields not read yet are those behind the points read.
Unread ==
    /\ Len(rest) = Len(line) - (2 * cnt + 1)
    /\ \A i \in 1 .. Len(rest) : rest[i] = line[2 * cnt + 1 + i]

\* A string is being read for its quantity and place.
Reading ==
    pc # "idle" =>
        /\ call.of = "string" /\ call.quantity = pc /\ at \in Places /\ line \in Lines
        /\ Total > 0
        /\ ValidUpTo(line, cnt)
        /\ cnt < Total => Unread

\* A profile under construction is the points read, and nothing else has changed.
ProfileRead ==
    /\ pc = "ssp" =>
          /\ db = call.db
          /\ profile \in Seq([at : Int, value : Int]) /\ Len(profile) = cnt
          /\ \A n \in 1 .. cnt : profile[n] = PointOf(line, n)
    /\ pc # "ssp" => profile = <<>>
    /\ pc = "idle" => cnt = 0

\* The manager has been given the points that were read and no others, and
\* when the string is accepted it has been given all.
TakenSoFar ==
    /\ pc = "bathymetry" => taken \cup refused = 1 .. cnt
    /\ ReturnedString("bathymetry") /\ ret => taken \cup refused = 1 .. Total

\* Whatever the manager answers, the strings accepted are the well-formed ones.
Accepted == ReturnedString("bathymetry") => (ret <=> WellFormed(line))

IInv ==
    /\ TypeOK /\ Reading /\ ProfileRead /\ TakenSoFar
    /\ BathymetryOverlaid /\ Accepted /\ SspAllOrNothing

-----------------------------------------------------------------------------
\* The quantities.
LEMMA QuantitiesAre == DOMAIN Empty = {"bathymetry", "ssp", "sediment", "altimetry"}
BY DEF Empty

\* Nothing but what is bound to one place as one quantity has changed, and that
\* fits.
Rebound(place, quantity) ==
    /\ DOMAIN db' = Places
    /\ \A p \in Places :
          /\ DOMAIN db'[p] = DOMAIN Empty
          /\ \A q \in DOMAIN Empty : Fits(q, db'[p][q])
          /\ \A q \in DOMAIN Empty : p # place \/ q # quantity => db'[p][q] = db[p][q]

LEMMA UnchangedIsRebound ==
    ASSUME TypeOK, db' = db, NEW place, NEW quantity
    PROVE  Rebound(place, quantity)
BY DEF TypeOK, Rebound

LEMMA StoredIsRebound ==
    ASSUME TypeOK, NEW place \in Places, NEW quantity \in DOMAIN Empty, NEW object,
           Fits(quantity, object), db' = [db EXCEPT ![place][quantity] = object]
    PROVE  Rebound(place, quantity) /\ db'[place][quantity] = object
<1>1. DOMAIN db = Places /\ \A p \in Places : DOMAIN db[p] = DOMAIN Empty BY DEF TypeOK
<1>2. DOMAIN db' = Places /\ \A p \in Places : p # place => db'[p] = db[p] BY <1>1
<1>3. db'[place] = [db[place] EXCEPT ![quantity] = object] BY <1>1
<1>4. /\ DOMAIN db'[place] = DOMAIN Empty /\ db'[place][quantity] = object
      /\ \A q \in DOMAIN Empty : q # quantity => db'[place][q] = db[place][q]
  BY <1>1, <1>3
<1>5. \A p \in Places : DOMAIN db'[p] = DOMAIN Empty BY <1>1, <1>2, <1>4
<1>6. \A p \in Places : \A q \in DOMAIN Empty : p # place \/ q # quantity => db'[p][q] = db[p][q]
  BY <1>2, <1>4
<1>7. ASSUME NEW p \in Places, NEW q \in DOMAIN Empty PROVE Fits(q, db'[p][q])
  <2>1. CASE p = place /\ q = quantity BY <1>4, <2>1
  <2>2. CASE p # place \/ q # quantity
    <3>1. Fits(q, db[p][q]) BY DEF TypeOK
    <3> QED BY <1>6, <2>2, <3>1
  <2> QED BY <2>1, <2>2
<1> QED BY <1>2, <1>4, <1>5, <1>6, <1>7 DEF Rebound

\* Bathymetry points over bathymetry points are bathymetry points.
LEMMA OverlayFacts ==
    ASSUME NEW points, NEW table
    PROVE  /\ DOMAIN Overlay(points, table) = DOMAIN points \cup DOMAIN table
           /\ \A r \in DOMAIN points : Overlay(points, table)[r] = points[r]
           /\ \A r \in DOMAIN table : r \notin DOMAIN points => Overlay(points, table)[r] = table[r]
           /\ IsBathymetry(points) /\ IsBathymetry(table) => IsBathymetry(Overlay(points, table))
<1>1. /\ DOMAIN Overlay(points, table) = DOMAIN points \cup DOMAIN table
      /\ \A r \in DOMAIN points : Overlay(points, table)[r] = points[r]
      /\ \A r \in DOMAIN table : r \notin DOMAIN points => Overlay(points, table)[r] = table[r]
  BY DEF Overlay
<1>2. ASSUME IsBathymetry(points), IsBathymetry(table) PROVE IsBathymetry(Overlay(points, table))
  <2> SUFFICES ASSUME NEW r \in DOMAIN Overlay(points, table)
               PROVE  r \in Int /\ Overlay(points, table)[r] \in Nat
    BY DEF IsBathymetry
  <2>1. CASE r \in DOMAIN points BY <1>1, <1>2, <2>1 DEF IsBathymetry
  <2>2. CASE r \notin DOMAIN points BY <1>1, <1>2, <2>2 DEF IsBathymetry
  <2> QED BY <2>1, <2>2
<1> QED BY <1>1, <1>2

LEMMA OnePointFacts ==
    ASSUME NEW range \in Int, NEW depth \in Nat
    PROVE  /\ DOMAIN OnePoint(range, depth) = {range} /\ OnePoint(range, depth)[range] = depth
           /\ IsBathymetry(OnePoint(range, depth))
BY DEF OnePoint, IsBathymetry

\* The fields of a string.
LEMMA LineFacts ==
    ASSUME NEW fields \in Lines
    PROVE  fields \in Seq(Int) /\ Len(fields) \in Nat /\ Len(fields) >= 1 /\ fields[1] \in Int
<1>1. fields \in Seq(Int) /\ fields # <<>> BY DatabaseAssumption
<1>2. Len(fields) \in Nat /\ Len(fields) >= 1 BY <1>1
<1> QED BY <1>1, <1>2

LEMMA TailFacts ==
    ASSUME NEW s \in Seq(Int), Len(s) >= 1
    PROVE  /\ Tail(s) \in Seq(Int) /\ Len(Tail(s)) = Len(s) - 1 /\ Len(s) \in Nat
           /\ \A i \in 1 .. Len(s) - 1 : Tail(s)[i] = s[i + 1]
OBVIOUS

\* A string that is valid up to a point is valid up to every one before.
LEMMA ValidBefore ==
    ASSUME NEW fields, fields[1] \in Int, NEW n \in Nat, NEW m \in Nat, m <= n, ValidUpTo(fields, n)
    PROVE  ValidUpTo(fields, m)
BY DEF ValidUpTo

-----------------------------------------------------------------------------
\* The initial state.
LEMMA InductiveInit == Init => IInv
<1> SUFFICES ASSUME Init PROVE IInv OBVIOUS
<1>1. \A place \in Places : db[place] = Empty BY DEF Init
<1>2. \A quantity \in DOMAIN Empty : Fits(quantity, Empty[quantity])
  BY QuantitiesAre DEF Fits, Empty, IsBathymetry
<1>3. TypeOK
  <2>1. /\ pc \in {"idle", "bathymetry", "ssp"} /\ pc = "idle" /\ cnt \in Nat /\ ret \in BOOLEAN
        /\ DOMAIN db = Places
    BY DEF Init
  <2>2. rest \in Seq(Int) /\ IsProfile(profile) BY DEF Init, IsProfile
  <2> QED BY <1>1, <1>2, <2>1, <2>2 DEF TypeOK
<1>4. call.of = "none" BY DEF Init
<1>5. Reading /\ ProfileRead /\ TakenSoFar
  BY <1>4 DEF Init, Reading, ProfileRead, TakenSoFar, ReturnedString
<1>6. BathymetryOverlaid /\ Accepted /\ SspAllOrNothing
  BY <1>4 DEF BathymetryOverlaid, Accepted, SspAllOrNothing, ReturnedString
<1> QED BY <1>3, <1>5, <1>6 DEF IInv

\* A call that reads no points, from its beginning to its return.
Done(of, quantity, place) ==
    /\ pc' = "idle" /\ cnt' = 0 /\ profile' = <<>> /\ rest' \in Seq(Int) /\ ret' \in BOOLEAN
    /\ call'.of = of /\ call'.quantity = quantity /\ call'.at = place /\ call'.db = db
    /\ ~(of = "string" /\ quantity \in {"bathymetry", "ssp"})
    /\ Rebound(place, quantity)

LEMMA DoneKeeps ==
    ASSUME IInv, NEW of, NEW quantity \in DOMAIN Empty, NEW place \in Places, Done(of, quantity, place)
    PROVE  IInv'
<1> USE DEF Done
<1>1. TypeOK'
  <2>1. IsProfile(profile') BY DEF IsProfile
  <2> QED BY <2>1 DEF Rebound, TypeOK
<1>2. Reading' /\ ProfileRead' /\ TakenSoFar'
  BY DEF Reading, ProfileRead, TakenSoFar, ReturnedString
<1>3. BathymetryOverlaid' BY DEF BathymetryOverlaid
<1>4. Accepted' /\ SspAllOrNothing' BY DEF Accepted, SspAllOrNothing, ReturnedString
<1> QED BY <1>1, <1>2, <1>3, <1>4 DEF IInv

\* A whole object is stored or refused, or nothing is changed.
LEMMA StoreKeeps ==
    ASSUME IInv, NEW of, NEW quantity \in DOMAIN Empty, NEW place \in Places, NEW fields, NEW object,
           of # "string" \/ quantity = "sediment",
           Call(of, quantity, place, fields), Fits(quantity, object),
           Store(quantity, place, object) \/ (Return(FALSE) /\ UNCHANGED db)
    PROVE  IInv'
<1>1. TypeOK BY DEF IInv
<1>2. Rebound(place, quantity) BY <1>1, UnchangedIsRebound, StoredIsRebound DEF Store
<1>3. /\ pc' = "idle" /\ cnt' = 0 /\ profile' = <<>> /\ rest' = <<>> /\ ret' \in BOOLEAN
  BY DEF Store, Return
<1>4. call' = [of |-> of, quantity |-> quantity, at |-> place, line |-> fields, db |-> db] BY DEF Call
<1>5. rest' \in Seq(Int) BY <1>3
<1>6. Done(of, quantity, place) BY <1>2, <1>3, <1>4, <1>5 DEF Done
<1> QED BY <1>6, DoneKeeps

\* The getters and the erasures leave the parser alone.
LEMMA OtherCallKeeps ==
    ASSUME IInv, NEW of \in {"get", "erase"}, NEW quantity \in DOMAIN Empty, NEW place \in Places,
           Call(of, quantity, place, <<>>), Rebound(place, quantity), UNCHANGED <<pc, locals, ret>>
    PROVE  IInv'
<1>1. TypeOK /\ ProfileRead /\ pc = "idle" BY DEF IInv, Call
<1>2. /\ pc' = "idle" /\ cnt' = 0 /\ profile' = <<>> /\ rest' \in Seq(Int) /\ ret' \in BOOLEAN
  BY <1>1 DEF locals, TypeOK, ProfileRead
<1>3. call' = [of |-> of, quantity |-> quantity, at |-> place, line |-> <<>>, db |-> db] BY DEF Call
<1>4. Done(of, quantity, place) BY <1>2, <1>3 DEF Done
<1> QED BY <1>4, DoneKeeps

\* The forms that take an object, the getters and the erasures.
LEMMA ObjectsKeep ==
    ASSUME IInv, NEW place \in Places, OnObjects(place)
    PROVE  IInv'
<1> USE QuantitiesAre
<1>1. TypeOK BY DEF IInv
<1>2. /\ IsBathymetry(db[place].bathymetry)
      /\ "bathymetry" \in DOMAIN Empty /\ "ssp" \in DOMAIN Empty
      /\ "sediment" \in DOMAIN Empty /\ "altimetry" \in DOMAIN Empty
  BY <1>1 DEF TypeOK, Fits
<1>3. ASSUME NEW altimetry \in Altimetries, SetCustomAltimetry(place, altimetry) PROVE IInv'
  <2>1. Fits("altimetry", altimetry) BY DEF Fits
  <2> QED BY <1>2, <1>3, <2>1, StoreKeeps DEF SetCustomAltimetry
<1>4. ASSUME NEW material \in Materials, SetCustomSediment(place, material) PROVE IInv'
  <2>1. Fits("sediment", material) BY ObjectsAssumption DEF Fits
  <2> QED BY <1>2, <1>4, <2>1, StoreKeeps DEF SetCustomSediment
<1>5. ASSUME NEW ssp \in Profiles, SetCustomSsp(place, ssp) \/ ImportCustomSsp(place, ssp) PROVE IInv'
  <2>1. Fits("ssp", ssp) BY ObjectsAssumption DEF Fits
  <2>2. CASE SetCustomSsp(place, ssp) BY <1>2, <2>1, <2>2, StoreKeeps DEF SetCustomSsp
  <2>3. CASE ImportCustomSsp(place, ssp) BY <1>2, <2>1, <2>3, StoreKeeps DEF ImportCustomSsp
  <2> QED BY <1>5, <2>2, <2>3
<1>6. ASSUME NEW points \in Bathymetries, ImportCustomBathymetry(place, points) PROVE IInv'
  <2>1. IsBathymetry(Overlay(points, db[place].bathymetry)) BY <1>2, ObjectsAssumption, OverlayFacts
  <2>2. Fits("bathymetry", Overlay(points, db[place].bathymetry)) BY <2>1 DEF Fits
  <2> QED BY <1>2, <1>6, <2>2, StoreKeeps DEF ImportCustomBathymetry
<1>7. ASSUME NEW points \in Bathymetries, NEW range \in DOMAIN points,
             SetCustomBathymetry(place, range, points[range])
      PROVE  IInv'
  <2> DEFINE object == Overlay(OnePoint(range, points[range]), db[place].bathymetry)
  <2>1. range \in Int /\ points[range] \in Nat BY ObjectsAssumption DEF IsBathymetry
  <2>2. IsBathymetry(OnePoint(range, points[range])) BY <2>1, OnePointFacts
  <2>3. IsBathymetry(object) BY <1>2, <2>2, OverlayFacts
  <2>4. Fits("bathymetry", object) BY <2>3 DEF Fits
  <2>5. Call("object", "bathymetry", place, <<>>) /\ Store("bathymetry", place, object)
    BY <1>7 DEF SetCustomBathymetry
  <2> HIDE DEF object
  <2> QED BY <1>2, <2>4, <2>5, StoreKeeps
<1>8. ASSUME NEW quantity \in DOMAIN Empty, NEW object, Get(quantity, place, object) PROVE IInv'
  <2>1. Rebound(place, quantity) BY <1>1, <1>8, UnchangedIsRebound DEF Get
  <2> QED BY <1>8, <2>1, OtherCallKeeps DEF Get
<1>9. ASSUME NEW quantity \in DOMAIN Empty, NEW object, Fits(quantity, object), Erase(quantity, place, object)
      PROVE  IInv'
  <2>1. Rebound(place, quantity) BY <1>1, <1>9, StoredIsRebound DEF Erase
  <2> QED BY <1>9, <2>1, OtherCallKeeps DEF Erase
<1>10. CASE GetCustomAltimetry(place) \/ GetCustomSediment(place) \/ GetCustomSsp(place)
  BY <1>2, <1>8, <1>10 DEF GetCustomAltimetry, GetCustomSediment, GetCustomSsp
<1>11. ASSUME NEW range \in Ranges, GetCustomBathymetry(place, range) PROVE IInv'
  BY <1>2, <1>8, <1>11 DEF GetCustomBathymetry
<1>12. CASE EraseCustomAltimetry(place) \/ EraseCustomSediment(place) \/ EraseCustomSsp(place)
  <2>1. Fits("altimetry", Unset) /\ Fits("sediment", Unset) /\ Fits("ssp", Unset) BY DEF Fits
  <2> QED BY <1>2, <1>9, <1>12, <2>1 DEF EraseCustomAltimetry, EraseCustomSediment, EraseCustomSsp
<1>13. CASE EraseCustomBathymetry(place)
  <2>1. PICK kept : /\ kept \subseteq DOMAIN db[place].bathymetry
                    /\ Erase("bathymetry", place, [range \in kept |-> db[place].bathymetry[range]])
    BY <1>13 DEF EraseCustomBathymetry
  <2>2. Fits("bathymetry", [range \in kept |-> db[place].bathymetry[range]])
    BY <1>2, <2>1 DEF Fits, IsBathymetry
  <2> QED BY <1>2, <1>9, <2>1, <2>2
<1> QED BY <1>3, <1>4, <1>5, <1>6, <1>7, <1>10, <1>11, <1>12, <1>13 DEF OnObjects

\* A sediment string.
LEMMA SedimentKeeps ==
    ASSUME IInv, NEW place \in Places, NEW fields \in Sediments, SetSedimentString(place, fields)
    PROVE  IInv'
<1>1. "sediment" \in DOMAIN Empty BY QuantitiesAre
<1>2. Call("string", "sediment", place, fields) BY DEF SetSedimentString
<1>3. CASE Len(fields) >= 6
  <2>1. fields \in Seq(Int) /\ Len(fields) \in Nat BY DatabaseAssumption
  <2>2. SedimentFields(fields) \in Seq(Int) BY <1>3, <2>1 DEF SedimentFields
  <2>3. Fits("sediment", SedimentFields(fields)) BY <2>2 DEF Fits
  <2>4. Store("sediment", place, SedimentFields(fields)) BY <1>3 DEF SetSedimentString
  <2> QED BY <1>1, <1>2, <2>3, <2>4, StoreKeeps
<1>4. CASE ~(Len(fields) >= 6)
  <2>1. Return(FALSE) /\ UNCHANGED db BY <1>4 DEF SetSedimentString
  <2>2. Fits("sediment", Unset) BY DEF Fits
  <2> QED BY <1>1, <1>2, <2>1, <2>2, StoreKeeps
<1> QED BY <1>3, <1>4

-----------------------------------------------------------------------------
\* A pass of the loop that goes on reads the next point of the reference reading.
LEMMA PointFacts ==
    ASSUME IInv, pc # "idle", NextPoint
    PROVE  /\ cnt' = cnt + 1 /\ cnt' \in Nat /\ cnt' <= Total
           /\ Point = PointOf(line, cnt + 1) /\ Point.at \in Int /\ Point.value \in Nat
           /\ ValidUpTo(line, cnt + 1)
           /\ rest' \in Seq(Int)
           /\ cnt + 1 < Total =>
                 /\ Len(rest') = Len(line) - (2 * (cnt + 1) + 1)
                 /\ \A i \in 1 .. Len(rest') : rest'[i] = line[2 * (cnt + 1) + 1 + i]
<1>1. /\ cnt \in Nat /\ rest \in Seq(Int) /\ line \in Lines /\ ValidUpTo(line, cnt) /\ Unread
  BY DEF IInv, TypeOK, Reading, NextPoint
<1>2. /\ line \in Seq(Int) /\ Len(line) \in Nat /\ Total \in Int BY <1>1, LineFacts DEF Total
<1>3. /\ cnt < Total /\ Len(rest) \in Nat /\ Len(rest) > 1
      /\ Len(Tail(rest)) > 1 \/ cnt = Total - 1
  BY <1>1 DEF NextPoint, Readable, HasSeparator
<1>4. Tail(rest) \in Seq(Int) /\ Len(Tail(rest)) = Len(rest) - 1
      /\ \A i \in 1 .. Len(rest) - 1 : Tail(rest)[i] = rest[i + 1]
  BY <1>1, <1>3, TailFacts
<1>5. Len(rest) = Len(line) - (2 * cnt + 1) /\ \A i \in 1 .. Len(rest) : rest[i] = line[2 * cnt + 1 + i]
  BY <1>1 DEF Unread
<1>6. cnt' = cnt + 1 /\ rest' = Cut(Tail(rest)) /\ Point.value >= 0 BY DEF NextPoint
<1>7. rest[1] = line[2 * (cnt + 1)] /\ rest[2] = line[2 * (cnt + 1) + 1]
  <2>1. 1 \in 1 .. Len(rest) /\ 2 \in 1 .. Len(rest) BY <1>3
  <2>2. 2 * cnt + 1 + 1 = 2 * (cnt + 1) /\ 2 * cnt + 1 + 2 = 2 * (cnt + 1) + 1 BY <1>1
  <2> QED BY <1>5, <2>1, <2>2
<1>8. rest[1] \in Int /\ rest[2] \in Int BY <1>1, <1>3
<1>9. Point = PointOf(line, cnt + 1) /\ Point.at \in Int /\ Point.value \in Nat
  BY <1>6, <1>7, <1>8 DEF Point, PointOf
<1>10. ValidUpTo(line, cnt + 1)
  <2>1. cnt + 1 <= line[1] BY <1>1, <1>2, <1>3 DEF Total
  <2>2. \A m \in 1 .. cnt : /\ Len(line) >= IF m < line[1] THEN 2 * m + 2 ELSE 2 * m + 1
                            /\ line[2 * m + 1] >= 0
    BY <1>1 DEF ValidUpTo
  <2>3. line[2 * (cnt + 1) + 1] >= 0 BY <1>6, <1>7 DEF Point
  <2>4. Len(line) >= IF cnt + 1 < line[1] THEN 2 * (cnt + 1) + 2 ELSE 2 * (cnt + 1) + 1
    BY <1>1, <1>2, <1>3, <1>4, <1>5 DEF Total
  <2>5. \A m \in 1 .. cnt + 1 : m \in 1 .. cnt \/ m = cnt + 1 BY <1>1
  <2> QED BY <2>1, <2>2, <2>3, <2>4, <2>5 DEF ValidUpTo
<1>11. rest' \in Seq(Int)
  <2>1. CASE Len(Tail(rest)) > 1
    <3>1. Len(Tail(rest)) >= 1 BY <1>3, <1>4, <2>1
    <3>2. Tail(Tail(rest)) \in Seq(Int) BY <1>4, <3>1, TailFacts
    <3> QED BY <1>6, <2>1, <3>2 DEF Cut, HasSeparator
  <2>2. CASE ~(Len(Tail(rest)) > 1) BY <1>4, <1>6, <2>2 DEF Cut, HasSeparator
  <2> QED BY <2>1, <2>2
<1>12. ASSUME cnt + 1 < Total
       PROVE  /\ Len(rest') = Len(line) - (2 * (cnt + 1) + 1)
              /\ \A i \in 1 .. Len(rest') : rest'[i] = line[2 * (cnt + 1) + 1 + i]
  <2>1. Len(Tail(rest)) > 1 BY <1>1, <1>2, <1>3, <1>12
  <2>2. rest' = Tail(Tail(rest)) BY <1>6, <2>1 DEF Cut, HasSeparator
  <2>3. /\ Len(rest') = Len(rest) - 2
        /\ \A i \in 1 .. Len(rest) - 2 : rest'[i] = Tail(rest)[i + 1]
    <3>1. Len(Tail(rest)) >= 1 /\ Len(Tail(rest)) - 1 = Len(rest) - 2 BY <1>3, <1>4, <2>1
    <3>2. /\ Len(Tail(Tail(rest))) = Len(Tail(rest)) - 1
          /\ \A i \in 1 .. Len(Tail(rest)) - 1 : Tail(Tail(rest))[i] = Tail(rest)[i + 1]
      BY <1>4, <3>1, TailFacts
    <3> QED BY <2>2, <3>1, <3>2
  <2>4. Len(rest') = Len(line) - (2 * (cnt + 1) + 1) BY <1>1, <1>2, <1>5, <2>3
  <2>5. ASSUME NEW i \in 1 .. Len(rest') PROVE rest'[i] = line[2 * (cnt + 1) + 1 + i]
    <3>1. i \in 1 .. Len(rest) - 2 /\ i + 1 \in 1 .. Len(rest) - 1 /\ i + 2 \in 1 .. Len(rest)
      BY <1>3, <2>3
    <3>2. rest'[i] = Tail(rest)[i + 1] BY <2>3, <3>1
    <3>3. Tail(rest)[i + 1] = rest[(i + 1) + 1] BY <1>4, <3>1
    <3>4. (i + 1) + 1 = i + 2 /\ 2 * cnt + 1 + (i + 2) = 2 * (cnt + 1) + 1 + i BY <1>1
    <3>5. rest[i + 2] = line[2 * cnt + 1 + (i + 2)] BY <1>5, <3>1
    <3> QED BY <3>2, <3>3, <3>4, <3>5
  <2> QED BY <2>4, <2>5
<1>13. cnt' \in Nat /\ cnt' <= Total BY <1>1, <1>2, <1>3, <1>6
<1> QED BY <1>6, <1>9, <1>10, <1>11, <1>12, <1>13

\* A pass fails only on a string that is not well formed.
LEMMA FailFacts ==
    ASSUME IInv, pc # "idle", Fails
    PROVE  ~WellFormed(line)
<1> SUFFICES ASSUME WellFormed(line) PROVE FALSE OBVIOUS
<1>1. /\ cnt \in Nat /\ rest \in Seq(Int) /\ line \in Lines /\ Unread
  BY DEF IInv, TypeOK, Reading, Fails
<1>2. /\ line \in Seq(Int) /\ Len(line) \in Nat /\ Total \in Int /\ Total = line[1]
  BY <1>1, LineFacts DEF Total
<1>3. cnt < Total /\ Len(rest) \in Nat BY <1>1 DEF Fails
<1>4. cnt + 1 \in 1 .. line[1] BY <1>1, <1>2, <1>3
<1>5. /\ Len(line) >= IF cnt + 1 < line[1] THEN 2 * (cnt + 1) + 2 ELSE 2 * (cnt + 1) + 1
      /\ line[2 * (cnt + 1) + 1] >= 0
  BY <1>4 DEF WellFormed, ValidUpTo
<1>6. Len(rest) = Len(line) - (2 * cnt + 1) /\ \A i \in 1 .. Len(rest) : rest[i] = line[2 * cnt + 1 + i]
  BY <1>1 DEF Unread
<1>7. Len(rest) > 1 /\ (Len(rest) > 2 \/ cnt = Total - 1) BY <1>1, <1>2, <1>3, <1>5, <1>6
<1>8. Len(Tail(rest)) = Len(rest) - 1 BY <1>1, <1>3, <1>7, TailFacts
<1>9. Readable BY <1>3, <1>7, <1>8 DEF Readable, HasSeparator
<1>10. Point.value >= 0
  <2>1. 2 \in 1 .. Len(rest) BY <1>3, <1>7
  <2>2. 2 * cnt + 1 + 2 = 2 * (cnt + 1) + 1 BY <1>1
  <2> QED BY <1>5, <1>6, <2>1, <2>2 DEF Point
<1> QED BY <1>9, <1>10 DEF Fails

\* A string of points begins, or is refused for the number of its points.
LEMMA ReadTotalKeeps ==
    ASSUME IInv, NEW quantity \in {"bathymetry", "ssp"}, NEW place \in Places, NEW fields \in Lines,
           ReadTotal(quantity, place, fields)
    PROVE  IInv'
<1>1. TypeOK /\ ProfileRead /\ pc = "idle" /\ cnt = 0 /\ profile = <<>>
  BY DEF IInv, ReadTotal, Call, ProfileRead
<1>2. /\ call' = [of |-> "string", quantity |-> quantity, at |-> place, line |-> fields, db |-> db]
      /\ taken' = {} /\ refused' = {} /\ db' = db
  BY DEF ReadTotal, Call
<1>3. /\ fields \in Seq(Int) /\ Len(fields) \in Nat /\ Len(fields) >= 1 /\ fields[1] \in Int
  BY LineFacts
<1>5. BathymetryOverlaid'
  <2> SUFFICES ASSUME quantity = "bathymetry"
               PROVE  \A r \in DOMAIN db[place].bathymetry \cup DOMAIN db[place].bathymetry :
                          LET points == {n \in {} : PointOf(fields, n).at = r}
                          IN  /\ r \in DOMAIN db[place].bathymetry
                              /\ points = {}
    BY <1>2 DEF BathymetryOverlaid, at, line
  <2> QED OBVIOUS
<1>6. DOMAIN db' = Places /\ \A p \in Places :
          /\ DOMAIN db'[p] = DOMAIN Empty
          /\ \A q \in DOMAIN Empty : Fits(q, db'[p][q])
  BY <1>1, <1>2 DEF TypeOK
<1>7. CASE HasSeparator(fields) /\ fields[1] > 0
  <2>1. /\ pc' = quantity /\ rest' = Tail(fields) /\ cnt' = 0 /\ profile' = <<>> /\ ret' = ret
    BY <1>1, <1>7 DEF ReadTotal, Cut
  <2>2. /\ Tail(fields) \in Seq(Int) /\ Len(Tail(fields)) = Len(fields) - 1
        /\ \A i \in 1 .. Len(fields) - 1 : Tail(fields)[i] = fields[i + 1]
    BY <1>3, TailFacts
  <2>3. TypeOK'
    <3>1. rest' \in Seq(Int) /\ IsProfile(profile') BY <2>1, <2>2 DEF IsProfile
    <3>2. cnt' \in Nat /\ cnt' <= fields[1] BY <1>3, <1>7, <2>1
    <3>3. ret' \in BOOLEAN BY <1>1, <2>1 DEF TypeOK
    <3>4. pc' \in {"idle", "bathymetry", "ssp"} BY <2>1
    <3>5. Total' = fields[1] BY <1>2 DEF Total, line
    <3> QED BY <1>6, <3>1, <3>2, <3>3, <3>4, <3>5 DEF TypeOK
  <2>4. Reading'
    <3>1. ValidUpTo(fields, 0) BY <1>3, <1>7 DEF ValidUpTo
    <3>2. Unread'
      <4>1. \A i \in 1 .. Len(fields) - 1 : i + 1 = 2 * 0 + 1 + i OBVIOUS
      <4>2. Len(fields) - 1 = Len(fields) - (2 * 0 + 1) BY <1>3
      <4>3. \A i \in 1 .. Len(fields) - 1 : Tail(fields)[i] = fields[2 * 0 + 1 + i] BY <2>2, <4>1
      <4>4. line' = fields BY <1>2 DEF line
      <4> QED BY <2>1, <2>2, <4>2, <4>3, <4>4 DEF Unread
    <3>3. Total' = fields[1] /\ line' = fields /\ at' = place BY <1>2 DEF Total, line, at
    <3>4. call'.of = "string" /\ call'.quantity = pc' BY <1>2, <2>1
    <3> QED BY <1>7, <2>1, <3>1, <3>2, <3>3, <3>4 DEF Reading
  <2>5. ProfileRead'
    <3>1. profile' \in Seq([at : Int, value : Int]) /\ Len(profile') = 0 BY <2>1
    <3>2. \A n \in 1 .. cnt' : FALSE BY <2>1
    <3>3. db' = call'.db BY <1>2
    <3>4. pc' # "idle" BY <2>1
    <3> QED BY <2>1, <3>1, <3>2, <3>3, <3>4 DEF ProfileRead
  <2>6. TakenSoFar'
    <3>1. taken' \cup refused' = 1 .. cnt' BY <1>2, <2>1
    <3> QED BY <2>1, <3>1 DEF TakenSoFar, ReturnedString
  <2>7. Accepted' /\ SspAllOrNothing'
    BY <2>1 DEF Accepted, SspAllOrNothing, ReturnedString
  <2> QED BY <1>5, <2>3, <2>4, <2>5, <2>6, <2>7 DEF IInv
<1>8. CASE ~(HasSeparator(fields) /\ fields[1] > 0)
  <2>1. /\ pc' = "idle" /\ rest' = <<>> /\ cnt' = 0 /\ profile' = <<>> /\ ret' = FALSE
    BY <1>8 DEF ReadTotal, Return
  <2>2. TypeOK'
    <3>1. rest' \in Seq(Int) /\ IsProfile(profile') BY <2>1 DEF IsProfile
    <3> QED BY <1>6, <2>1, <3>1 DEF TypeOK
  <2>3. Reading' /\ ProfileRead' /\ TakenSoFar' BY <2>1 DEF Reading, ProfileRead, TakenSoFar
  <2>4. ~WellFormed(fields)
    <3> SUFFICES ASSUME WellFormed(fields) PROVE FALSE OBVIOUS
    <3>1. fields[1] > 0 /\ 1 \in 1 .. fields[1] BY <1>3 DEF WellFormed
    <3>2. Len(fields) >= IF 1 < fields[1] THEN 2 * 1 + 2 ELSE 2 * 1 + 1
      BY <3>1 DEF WellFormed, ValidUpTo
    <3>3. Len(fields) > 1 BY <1>3, <3>1, <3>2
    <3> QED BY <1>8, <3>1, <3>3 DEF HasSeparator
  <2>5. Accepted' BY <1>2, <2>1, <2>4 DEF Accepted, line
  <2>6. SspAllOrNothing' BY <1>2, <2>1 DEF SspAllOrNothing, at
  <2> QED BY <1>5, <2>2, <2>3, <2>5, <2>6 DEF IInv
<1> QED BY <1>7, <1>8

\* The position of the parser behind a point that was read.
LEMMA PositionKeeps ==
    ASSUME IInv, pc # "idle", NextPoint, UNCHANGED <<pc, call>>
    PROVE  Reading'
<1>1. /\ call.of = "string" /\ call.quantity = pc /\ at \in Places /\ line \in Lines /\ Total > 0
  BY DEF IInv, Reading
<1>2. line' = line /\ Total' = Total /\ at' = at BY DEF line, Total, at
<1>3. cnt' = cnt + 1 /\ ValidUpTo(line, cnt + 1) BY PointFacts
<1>4. cnt + 1 < Total =>
          /\ Len(rest') = Len(line) - (2 * (cnt + 1) + 1)
          /\ \A i \in 1 .. Len(rest') : rest'[i] = line[2 * (cnt + 1) + 1 + i]
  BY PointFacts
<1>5. cnt' < Total' => Unread' BY <1>2, <1>3, <1>4 DEF Unread
<1> QED BY <1>1, <1>2, <1>3, <1>5 DEF Reading

\* One more bathymetry point, stored or refused.
LEMMA BathymetryPointKeeps ==
    ASSUME IInv, BathymetryPoint
    PROVE  IInv'
<1>1. TypeOK /\ pc = "bathymetry" /\ NextPoint /\ UNCHANGED <<pc, profile, ret, call>>
  BY DEF IInv, BathymetryPoint
<1>2. /\ cnt \in Nat /\ cnt' = cnt + 1 /\ cnt' \in Nat /\ cnt' <= Total /\ rest' \in Seq(Int)
      /\ Point = PointOf(line, cnt + 1) /\ Point.at \in Int /\ Point.value \in Nat
      /\ ValidUpTo(line, cnt + 1)
  BY <1>1, PointFacts DEF TypeOK
<1>3. /\ call.of = "string" /\ call.quantity = "bathymetry" /\ at \in Places
  BY <1>1 DEF IInv, Reading
<1>4. line' = line /\ Total' = Total /\ at' = at BY <1>1 DEF line, Total, at
<1>5. "bathymetry" \in DOMAIN Empty BY QuantitiesAre
<1> DEFINE now == db[at].bathymetry
           before == call.db[at].bathymetry
           object == Overlay(OnePoint(Point.at, Point.value), now)
<1>6. IsBathymetry(now) BY <1>1, <1>3, <1>5 DEF TypeOK, Fits
<1>7. taken \cup refused = 1 .. cnt BY <1>1 DEF IInv, TakenSoFar
<1> DEFINE Given == taken' \cup refused' = 1 .. cnt'
<1>upTo. 1 .. cnt' = (1 .. cnt) \cup {cnt'} BY <1>2
<1>8. /\ \A n \in taken : ValidUpTo(line, n)
      /\ \A r \in DOMAIN now \cup DOMAIN before :
            LET points == {n \in taken : PointOf(line, n).at = r}
            IN  /\ r \in DOMAIN now
                /\ IF points = {} THEN r \in DOMAIN before /\ now[r] = before[r]
                   ELSE \E n \in points : /\ \A m \in points : m <= n
                                          /\ now[r] = PointOf(line, n).value
  BY <1>3 DEF IInv, BathymetryOverlaid
<1>9. ASSUME db' = [db EXCEPT ![at].bathymetry = object], taken' = taken \cup {cnt'}, refused' = refused
      PROVE  Rebound(at, "bathymetry") /\ BathymetryOverlaid' /\ Given
  <2>1. /\ IsBathymetry(object) /\ DOMAIN object = {Point.at} \cup DOMAIN now
        /\ object[Point.at] = Point.value
        /\ \A r \in DOMAIN now : r # Point.at => object[r] = now[r]
    <3> DEFINE one == OnePoint(Point.at, Point.value)
    <3>1. DOMAIN one = {Point.at} /\ one[Point.at] = Point.value /\ IsBathymetry(one)
      BY <1>2, OnePointFacts
    <3>2. object = Overlay(one, now) OBVIOUS
    <3> HIDE DEF one, object, now
    <3>3. /\ DOMAIN Overlay(one, now) = DOMAIN one \cup DOMAIN now
          /\ \A r \in DOMAIN one : Overlay(one, now)[r] = one[r]
          /\ \A r \in DOMAIN now : r \notin DOMAIN one => Overlay(one, now)[r] = now[r]
          /\ IsBathymetry(one) /\ IsBathymetry(now) => IsBathymetry(Overlay(one, now))
      BY OverlayFacts
    <3> QED BY <1>6, <3>1, <3>2, <3>3
  <2> HIDE DEF object
  <2>2. Fits("bathymetry", object) BY <2>1 DEF Fits
  <2>3. Rebound(at, "bathymetry") /\ db'[at]["bathymetry"] = object
    BY <1>1, <1>3, <1>5, <1>9, <2>2, StoredIsRebound
  <2>4. \A n \in taken' : ValidUpTo(line, n) BY <1>2, <1>8, <1>9
  <2>5. ASSUME NEW r \in DOMAIN object \cup DOMAIN before
        PROVE  LET points == {n \in taken' : PointOf(line, n).at = r}
               IN  /\ r \in DOMAIN object
                   /\ IF points = {} THEN r \in DOMAIN before /\ object[r] = before[r]
                      ELSE \E n \in points : /\ \A m \in points : m <= n
                                             /\ object[r] = PointOf(line, n).value
    <3>1. CASE r = Point.at
      <4>1. cnt + 1 \in {n \in taken' : PointOf(line, n).at = r} BY <1>2, <1>9, <3>1
      <4>2. \A m \in taken' : m <= cnt + 1
        <5>1. \A m \in taken : m \in 1 .. cnt BY <1>7
        <5> QED BY <1>2, <1>9, <5>1
      <4>3. object[r] = PointOf(line, cnt + 1).value /\ r \in DOMAIN object BY <1>2, <2>1, <3>1
      <4> QED BY <4>1, <4>2, <4>3
    <3>2. CASE r # Point.at
      <4>1. {n \in taken' : PointOf(line, n).at = r} = {n \in taken : PointOf(line, n).at = r}
        BY <1>2, <1>9, <3>2
      <4>2. r \in DOMAIN now \cup DOMAIN before BY <2>1, <3>2
      <4>3. r \in DOMAIN now BY <1>8, <4>2
      <4>4. r \in DOMAIN object /\ object[r] = now[r] BY <2>1, <3>2, <4>3
      <4> HIDE DEF now, before
      <4> QED BY <1>8, <4>1, <4>2, <4>4
    <3> QED BY <3>1, <3>2
  <2>6. db'[at'].bathymetry = object /\ call'.db[at'].bathymetry = before
    BY <1>1, <1>4, <2>3
  <2>7. BathymetryOverlaid'
    <3> HIDE DEF now, before
    <3> QED BY <1>4, <2>4, <2>5, <2>6 DEF BathymetryOverlaid
  <2>8. Given BY <1>7, <1>9, <1>upTo
  <2> QED BY <2>3, <2>7, <2>8
<1>10. ASSUME db' = db, taken' = taken, refused' = refused \cup {cnt'}
       PROVE  Rebound(at, "bathymetry") /\ BathymetryOverlaid' /\ Given
  <2>1. Rebound(at, "bathymetry") BY <1>1, <1>10, UnchangedIsRebound
  <2>2. BathymetryOverlaid' BY <1>4, <1>1, <1>8, <1>10 DEF BathymetryOverlaid
  <2>3. Given BY <1>7, <1>10, <1>upTo
  <2> QED BY <2>1, <2>2, <2>3
<1>11. Rebound(at, "bathymetry") /\ BathymetryOverlaid' /\ Given
  BY <1>9, <1>10 DEF BathymetryPoint
<1> HIDE DEF now, before, object
<1>12. TypeOK'
  <2>1. /\ pc' \in {"idle", "bathymetry", "ssp"} /\ rest' \in Seq(Int) /\ cnt' \in Nat /\ cnt' <= Total'
        /\ IsProfile(profile') /\ ret' \in BOOLEAN
    BY <1>1, <1>2, <1>4 DEF TypeOK
  <2> QED BY <1>11, <2>1 DEF Rebound, TypeOK
<1>13. Reading' BY <1>1, PositionKeeps
<1>14. ProfileRead' /\ TakenSoFar'
  BY <1>1, <1>11 DEF IInv, ProfileRead, TakenSoFar, ReturnedString
<1>15. Accepted' /\ SspAllOrNothing' BY <1>1 DEF Accepted, SspAllOrNothing, ReturnedString
<1> QED BY <1>11, <1>12, <1>13, <1>14, <1>15 DEF IInv

LEMMA AppendFacts ==
    ASSUME NEW S, NEW s \in Seq(S), NEW e \in S
    PROVE  /\ Append(s, e) \in Seq(S) /\ Len(Append(s, e)) = Len(s) + 1 /\ Len(s) \in Nat
           /\ \A i \in 1 .. Len(s) : Append(s, e)[i] = s[i]
           /\ Append(s, e)[Len(s) + 1] = e
OBVIOUS

\* One more point of a profile.
LEMMA SspPointKeeps ==
    ASSUME IInv, SspPoint
    PROVE  IInv'
<1>1. TypeOK /\ pc = "ssp" /\ NextPoint /\ UNCHANGED <<pc, ret, db, call, taken, refused>>
  BY DEF IInv, SspPoint
<1>2. /\ cnt \in Nat /\ cnt' = cnt + 1 /\ cnt' \in Nat /\ cnt' <= Total /\ rest' \in Seq(Int)
      /\ Point = PointOf(line, cnt + 1) /\ Point.at \in Int /\ Point.value \in Nat
  BY <1>1, PointFacts DEF TypeOK
<1>3. call.of = "string" /\ call.quantity = "ssp" BY <1>1 DEF IInv, Reading
<1>4. line' = line /\ Total' = Total /\ at' = at BY <1>1 DEF line, Total, at
<1>5. /\ db = call.db /\ profile \in Seq([at : Int, value : Int]) /\ Len(profile) = cnt
      /\ \A n \in 1 .. cnt : profile[n] = PointOf(line, n)
  BY <1>1 DEF IInv, ProfileRead
<1>6. Point \in [at : Int, value : Int] BY <1>2 DEF Point
<1>7. profile' = Append(profile, Point) BY DEF SspPoint
<1>8. /\ profile' \in Seq([at : Int, value : Int]) /\ Len(profile') = cnt + 1
      /\ \A n \in 1 .. cnt : profile'[n] = profile[n]
      /\ profile'[cnt + 1] = Point
  <2>1. /\ Append(profile, Point) \in Seq([at : Int, value : Int])
        /\ Len(Append(profile, Point)) = Len(profile) + 1
        /\ \A i \in 1 .. Len(profile) : Append(profile, Point)[i] = profile[i]
        /\ Append(profile, Point)[Len(profile) + 1] = Point
    BY <1>5, <1>6, AppendFacts
  <2> QED BY <1>5, <1>7, <2>1
<1>9. \A n \in 1 .. cnt + 1 : n \in 1 .. cnt \/ n = cnt + 1 BY <1>2
<1>10. IsProfile(profile')
  <2>1. DOMAIN profile = 1 .. cnt /\ DOMAIN profile' = 1 .. cnt + 1 BY <1>2, <1>5, <1>8
  <2>2. \A n \in 1 .. cnt : IsPoint(profile[n]) BY <1>1, <2>1 DEF TypeOK, IsProfile
  <2>3. IsPoint(Point) BY <1>2 DEF IsPoint
  <2> QED BY <1>8, <1>9, <2>1, <2>2, <2>3 DEF IsProfile
<1>11. TypeOK'
  <2>1. /\ pc' \in {"idle", "bathymetry", "ssp"} /\ ret' \in BOOLEAN BY <1>1 DEF TypeOK
  <2>2. DOMAIN db' = Places /\ \A p \in Places :
            /\ DOMAIN db'[p] = DOMAIN Empty
            /\ \A q \in DOMAIN Empty : Fits(q, db'[p][q])
    BY <1>1 DEF TypeOK
  <2> QED BY <1>2, <1>4, <1>10, <2>1, <2>2 DEF TypeOK
<1>12. Reading' BY <1>1, PositionKeeps
<1>13. ProfileRead'
  <2>1. \A n \in 1 .. cnt + 1 : profile'[n] = PointOf(line, n) BY <1>2, <1>5, <1>8, <1>9
  <2> QED BY <1>1, <1>2, <1>4, <1>5, <1>8, <2>1 DEF ProfileRead
<1>14. TakenSoFar' /\ BathymetryOverlaid'
  BY <1>1, <1>3 DEF TakenSoFar, BathymetryOverlaid, ReturnedString
<1>15. Accepted' /\ SspAllOrNothing' BY <1>1 DEF Accepted, SspAllOrNothing, ReturnedString
<1> QED BY <1>11, <1>12, <1>13, <1>14, <1>15 DEF IInv

\* The string has been read, or is invalid: a call returns, and stores nothing more.
LEMMA ReturnKeeps ==
    ASSUME IInv, pc # "idle", NEW value \in BOOLEAN, Return(value),
           UNCHANGED <<db, call, taken, refused>>, value <=> WellFormed(line),
           value => pc = "bathymetry" /\ cnt = Total
    PROVE  IInv'
<1>1. TypeOK BY DEF IInv
<1>2. /\ pc' = "idle" /\ rest' = <<>> /\ cnt' = 0 /\ profile' = <<>> /\ ret' = value BY DEF Return
<1>3. /\ line' = line /\ at' = at /\ Total' = Total BY DEF line, at, Total
<1>4. TypeOK'
  <2>1. rest' \in Seq(Int) /\ IsProfile(profile') BY <1>2 DEF IsProfile
  <2>2. DOMAIN db' = Places /\ \A p \in Places :
            /\ DOMAIN db'[p] = DOMAIN Empty
            /\ \A q \in DOMAIN Empty : Fits(q, db'[p][q])
    BY <1>1 DEF TypeOK
  <2> QED BY <1>2, <2>1, <2>2 DEF TypeOK
<1>5. Reading' /\ ProfileRead' BY <1>2 DEF Reading, ProfileRead
<1>6. TakenSoFar'
  <2>1. value => taken \cup refused = 1 .. Total BY DEF IInv, TakenSoFar
  <2> QED BY <1>2, <1>3, <2>1 DEF TakenSoFar
<1>7. BathymetryOverlaid' BY <1>3 DEF IInv, BathymetryOverlaid
<1>8. Accepted' BY <1>2, <1>3 DEF Accepted
<1>9. SspAllOrNothing'
  <2>1. call.quantity = pc BY DEF IInv, Reading
  <2>2. pc = "ssp" => db = call.db BY DEF IInv, ProfileRead
  <2> QED BY <1>2, <1>3, <2>1, <2>2 DEF SspAllOrNothing, ReturnedString
<1> QED BY <1>4, <1>5, <1>6, <1>7, <1>8, <1>9 DEF IInv

\* All points that were announced have been read, and all are valid.
LEMMA AllRead ==
    ASSUME IInv, pc # "idle", cnt = Total
    PROVE  WellFormed(line)
BY DEF IInv, Reading, WellFormed, Total

\* The profile is handed over.
LEMMA SspReturnsKeeps ==
    ASSUME IInv, SspReturns
    PROVE  IInv'
<1>1. TypeOK /\ pc = "ssp" /\ cnt = Total /\ UNCHANGED <<call, taken, refused>> /\ Store("ssp", at, profile)
  BY DEF IInv, SspReturns
<1>2. call.of = "string" /\ call.quantity = "ssp" /\ at \in Places BY <1>1 DEF IInv, Reading
<1>3. /\ line' = line /\ at' = at BY <1>1 DEF line, at
<1>4. /\ cnt \in Nat /\ db = call.db /\ profile \in Seq([at : Int, value : Int]) /\ Len(profile) = cnt
      /\ \A n \in 1 .. cnt : profile[n] = PointOf(line, n)
  BY <1>1 DEF TypeOK, IInv, ProfileRead
<1>5. WellFormed(line) BY <1>1, AllRead
<1>6. profile = Points(line)
  <2>1. Points(line) = [n \in 1 .. cnt |-> PointOf(line, n)] BY <1>1 DEF Points, Total
  <2>2. profile = [n \in 1 .. cnt |-> profile[n]] BY <1>4
  <2> QED BY <1>4, <2>1, <2>2
<1>7. "ssp" \in DOMAIN Empty BY QuantitiesAre
<1>8. Fits("ssp", profile) BY <1>1 DEF TypeOK, Fits
<1>9. /\ Rebound(at, "ssp")
      /\ \/ ret' = TRUE /\ db'[at].ssp = profile
         \/ ret' = FALSE /\ db' = db
  <2>1. CASE Return(TRUE) /\ db' = [db EXCEPT ![at]["ssp"] = profile]
    <3>1. Rebound(at, "ssp") /\ db'[at]["ssp"] = profile BY <1>1, <1>2, <1>7, <1>8, <2>1, StoredIsRebound
    <3> QED BY <2>1, <3>1 DEF Return
  <2>2. CASE Return(FALSE) /\ db' = db BY <1>1, <2>2, UnchangedIsRebound DEF Return
  <2> QED BY <1>1, <2>1, <2>2 DEF Store
<1>10. /\ pc' = "idle" /\ rest' = <<>> /\ cnt' = 0 /\ profile' = <<>> BY <1>1 DEF Store, Return
<1>11. TypeOK'
  <2>1. rest' \in Seq(Int) /\ IsProfile(profile') BY <1>10 DEF IsProfile
  <2> QED BY <1>9, <1>10, <2>1 DEF Rebound, TypeOK
<1>12. Reading' /\ ProfileRead' /\ TakenSoFar'
  BY <1>1, <1>2, <1>10 DEF Reading, ProfileRead, TakenSoFar, ReturnedString
<1>13. BathymetryOverlaid' /\ Accepted'
  BY <1>1, <1>2 DEF BathymetryOverlaid, Accepted, ReturnedString
<1>14. SspAllOrNothing' BY <1>1, <1>3, <1>4, <1>5, <1>6, <1>9 DEF SspAllOrNothing
<1> QED BY <1>11, <1>12, <1>13, <1>14 DEF IInv

LEMMA InductiveStep == IInv /\ [Next]_vars => IInv'
<1> SUFFICES ASSUME IInv, [Next]_vars PROVE IInv' OBVIOUS
<1>1. ASSUME NEW place \in Places, OnStrings(place) PROVE IInv'
  BY <1>1, ReadTotalKeeps, SedimentKeeps DEF OnStrings
<1>2. ASSUME NEW place \in Places, OnObjects(place) PROVE IInv' BY <1>2, ObjectsKeep
<1>3. CASE BathymetryPoint BY <1>3, BathymetryPointKeeps
<1>4. CASE SspPoint BY <1>4, SspPointKeeps
<1>5. CASE PointFails
  <2>1. pc # "idle" /\ Fails /\ Return(FALSE) /\ UNCHANGED <<db, call, taken, refused>>
    BY <1>5 DEF PointFails
  <2> QED BY <2>1, FailFacts, ReturnKeeps
<1>6. CASE BathymetryReturns
  <2>1. /\ pc = "bathymetry" /\ cnt = Total /\ Return(TRUE)
        /\ UNCHANGED <<db, call, taken, refused>>
    BY <1>6 DEF BathymetryReturns
  <2>2. WellFormed(line) BY <2>1, AllRead
  <2> QED BY <2>1, <2>2, ReturnKeeps
<1>7. CASE SspReturns BY <1>7, SspReturnsKeeps
<1>8. CASE UNCHANGED vars
  <2>1. UNCHANGED <<pc, rest, cnt, profile, ret, db, call, taken, refused>> BY <1>8 DEF vars, locals
  <2>2. line' = line /\ Total' = Total /\ at' = at BY <2>1 DEF line, Total, at
  <2>3. TypeOK' BY <2>1, <2>2 DEF IInv, TypeOK
  <2>4. Reading' BY <2>1, <2>2 DEF IInv, Reading, Unread
  <2>5. ProfileRead' /\ TakenSoFar' BY <2>1, <2>2 DEF IInv, ProfileRead, TakenSoFar, ReturnedString
  <2>6. BathymetryOverlaid' BY <2>1, <2>2 DEF IInv, BathymetryOverlaid
  <2>7. Accepted' /\ SspAllOrNothing'
    BY <2>1, <2>2 DEF IInv, Accepted, SspAllOrNothing, ReturnedString
  <2> QED BY <2>3, <2>4, <2>5, <2>6, <2>7 DEF IInv
<1> QED BY <1>1, <1>2, <1>3, <1>4, <1>5, <1>6, <1>7, <1>8 DEF Next

-----------------------------------------------------------------------------
\* At every step of every sequence of calls the parser stands behind the points
\* it has read, and the properties below hold.
THEOREM InductiveInvariant == Spec => []IInv
<1>1. Init => IInv BY InductiveInit
<1>2. IInv /\ [Next]_vars => IInv' BY InductiveStep
<1> QED BY <1>1, <1>2, PTL DEF Spec

\* Whatever the strings hold, what is bound to a place as a quantity is of that
\* quantity, and no depth and no speed of sound is negative.
THEOREM TypeCorrect == Spec => []TypeOK
<1>1. IInv => TypeOK BY DEF IInv
<1> QED BY <1>1, InductiveInvariant, PTL

\* A bathymetry is the one before the string overlaid with the points of the
\* string the manager took, at every moment of the call and after it, also
\* when the string is invalid at a later point.
THEOREM BathymetryOverlaidHolds == Spec => []BathymetryOverlaid
<1>1. IInv => BathymetryOverlaid BY DEF IInv
<1> QED BY <1>1, InductiveInvariant, PTL

\* With a manager that takes what it is given, the loop over the separators of a
\* bathymetry string accepts exactly the strings with as many valid points as
\* they announce, and all of them are stored when it does.
THEOREM BathymetryAcceptedHolds == Spec => []BathymetryAccepted
<1>1. IInv => BathymetryAccepted BY DEF IInv, Accepted, TakenSoFar, BathymetryAccepted
<1> QED BY <1>1, InductiveInvariant, PTL

\* A profile string goes in as a whole or leaves what was stored.
THEOREM SspAllOrNothingHolds == Spec => []SspAllOrNothing
<1>1. IInv => SspAllOrNothing BY DEF IInv
<1> QED BY <1>1, InductiveInvariant, PTL

=============================================================================
