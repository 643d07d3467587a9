---------------------------- MODULE CustomDatabase ----------------------------
(***************************************************************************)
(* The custom environment WossHelper stores in the WOSS database manager:  *)
(* bathymetry, sound speed profiles, sediments and altimetries, each bound *)
(* to a place (a geometry, with the time for a profile).  They come as     *)
(* objects, from files, or as strings of fields separated by |.  A         *)
(* bathymetry string goes in point by point, a profile is built first and  *)
(* goes in as a whole, and so does a sediment.                             *)
(*                                                                         *)
(* A string is the sequence of its fields, a field is the number atof      *)
(* makes of it.  The manager is external: it stores what it is given, or   *)
(* refuses and returns false; places are told apart by it, wildcards are   *)
(* left out.  CheckInitialized precedes every call, so the model begins    *)
(* after Initialize.                                                       *)
(***************************************************************************)
EXTENDS Integers, Sequences

CONSTANTS
    Places,       \* geometries
    Lines,        \* strings of a profile or a bathymetry: how many points, and the points
    Sediments,    \* sediment strings
    Bathymetries, \* bathymetry objects and files, range -> depth
    Profiles,     \* sound speed profile objects and files
    Materials,    \* sediment objects
    Altimetries,  \* altimetry objects
    Unset,        \* nothing stored
    MaxCalls      \* bound: calls of the helper

ASSUME DatabaseAssumption ==
    /\ Lines \subseteq Seq(Int) \ {<<>>} /\ Sediments \subseteq Seq(Int) \ {<<>>}
    /\ MaxCalls \in Nat

\* A point of a bathymetry, range and depth, or of a profile, depth and speed.
IsPoint(p) == p.at \in Int /\ p.value \in Nat
IsBathymetry(points) == \A range \in DOMAIN points : range \in Int /\ points[range] \in Nat
IsProfile(ssp) == \A n \in DOMAIN ssp : IsPoint(ssp[n])

ASSUME ObjectsAssumption ==
    /\ \A points \in Bathymetries : IsBathymetry(points)
    /\ \A ssp \in Profiles : IsProfile(ssp)
    /\ Materials \subseteq Seq(Int)

VARIABLES
    pc,       \* "idle", "bathymetry" or "ssp": the string being read
    rest,     \* fields not read yet
    cnt,      \* points read
    profile,  \* the local woss::SSP
    ret,      \* what the last call that returns a bool returned
    got,      \* what the last getter returned
    db,       \* the tables of m_wossDbManager, place -> what is bound to it
    call,     \* history: the last call, its arguments, and db when it began
    taken,    \* history: the points of the last string the manager stored,
    refused,  \* and those it refused
    calls     \* calls so far

locals == <<rest, cnt, profile>>
vars == <<pc, locals, ret, got, db, call, taken, refused, calls>>

Empty == [bathymetry |-> <<>>, ssp |-> Unset, sediment |-> Unset, altimetry |-> Unset]

Init ==
    /\ pc = "idle"
    /\ rest = <<>> /\ cnt = 0 /\ profile = <<>>
    /\ ret = FALSE /\ got = Unset
    /\ db = [place \in Places |-> Empty]
    /\ call = [of |-> "none", quantity |-> "none", at |-> Unset, line |-> <<>>, db |-> db]
    /\ taken = {} /\ refused = {}
    /\ calls = 0

-----------------------------------------------------------------------------
line == call.line
at == call.at

\* A call begins.
Call(of, quantity, place, fields) ==
    /\ pc = "idle"
    /\ calls < MaxCalls
    /\ calls' = calls + 1
    /\ call' = [of |-> of, quantity |-> quantity, at |-> place, line |-> fields, db |-> db]
    /\ taken' = {} /\ refused' = {}

\* The call returns, and its locals are gone.
Return(value) ==
    /\ ret' = value
    /\ pc' = "idle"
    /\ rest' = <<>> /\ cnt' = 0 /\ profile' = <<>>
    /\ UNCHANGED got

\* Bathymetry points join those a place has; a later one replaces an earlier one
\* at the same range.
Overlay(points, table) ==
    [range \in DOMAIN points \cup DOMAIN table |->
        IF range \in DOMAIN points THEN points[range] ELSE table[range]]

OnePoint(range, depth) == [r \in {range} |-> depth]

\* A whole object goes to the manager, whose answer is returned.
Store(quantity, place, object) ==
    \/ Return(TRUE) /\ db' = [db EXCEPT ![place][quantity] = object]
    \/ Return(FALSE) /\ UNCHANGED db

-----------------------------------------------------------------------------
HasSeparator(fields) == Len(fields) > 1

\* substr (tmp + 1): nothing is cut when the separator was not found.
Cut(fields) == IF HasSeparator(fields) THEN Tail(fields) ELSE fields

Total == line[1]

\* Entry of SetCustomBathymetry and SetCustomSsp: the number of points.
ReadTotal(quantity, place, fields) ==
    /\ Call("string", quantity, place, fields)
    /\ IF HasSeparator(fields) /\ fields[1] > 0
          THEN /\ pc' = quantity
               /\ rest' = Cut(fields)
               /\ UNCHANGED <<cnt, profile, ret, got>>
          ELSE Return(FALSE)
    /\ UNCHANGED db

\* Mutation: a separator is asked for behind the last point as well.
ReadableStrict == HasSeparator(rest) /\ HasSeparator(Tail(rest))

\* The next point can be read: a separator follows its first number, and its
\* second unless it is the last point.
Readable ==
    /\ HasSeparator(rest)
    /\ HasSeparator(Tail(rest)) \/ cnt = Total - 1

\* Mutation: the two numbers of a point are swapped.
PointSwapped == [at |-> rest[2], value |-> rest[1]]

Point == [at |-> rest[1], value |-> rest[2]]

\* Mutation: negative values are let through.
NextPointUnchecked ==
    /\ cnt < Total
    /\ Readable
    /\ rest' = Cut(Tail(rest))
    /\ cnt' = cnt + 1

\* One pass of the loop that goes on.
NextPoint ==
    /\ cnt < Total
    /\ Readable
    /\ Point.value >= 0
    /\ rest' = Cut(Tail(rest))
    /\ cnt' = cnt + 1

\* A pass that fails, on a separator or on a negative value, returns at once.
Fails == cnt < Total /\ ~(Readable /\ Point.value >= 0)

\* The manager's answer to a bathymetry point is not looked at.
BathymetryPoint ==
    /\ pc = "bathymetry"
    /\ NextPoint
    /\ \/ /\ db' = [db EXCEPT ![at].bathymetry = Overlay(OnePoint(Point.at, Point.value), @)]
          /\ taken' = taken \cup {cnt'}
          /\ UNCHANGED refused
       \/ /\ refused' = refused \cup {cnt'}
          /\ UNCHANGED <<db, taken>>
    /\ UNCHANGED <<pc, profile, ret, got, call, calls>>

\* Mutation: the profile is stored point by point, as a bathymetry is.
SspPointStored ==
    /\ pc = "ssp"
    /\ NextPoint
    /\ profile' = Append(profile, Point)
    /\ db' = [db EXCEPT ![at].ssp = profile']
    /\ UNCHANGED <<pc, ret, got, call, taken, refused, calls>>

SspPoint ==
    /\ pc = "ssp"
    /\ NextPoint
    /\ profile' = Append(profile, Point)
    /\ UNCHANGED <<pc, ret, got, db, call, taken, refused, calls>>

PointFails ==
    /\ pc # "idle"
    /\ Fails
    /\ Return(FALSE)
    /\ UNCHANGED <<db, call, taken, refused, calls>>

BathymetryReturns ==
    /\ pc = "bathymetry"
    /\ cnt = Total
    /\ Return(TRUE)
    /\ UNCHANGED <<db, call, taken, refused, calls>>

\* setCustomSSP takes the whole profile, and its answer is returned.
SspReturns ==
    /\ pc = "ssp"
    /\ cnt = Total
    /\ Store("ssp", at, profile)
    /\ UNCHANGED <<call, taken, refused, calls>>

\* The fields a sediment is made of: its type and five numbers.
SedimentFields(fields) == SubSeq(fields, 1, 6)

\* SetCustomSediment, string form.
SetSedimentString(place, fields) ==
    /\ Call("string", "sediment", place, fields)
    /\ IF Len(fields) >= 6
          THEN Store("sediment", place, SedimentFields(fields))
          ELSE Return(FALSE) /\ UNCHANGED db

-----------------------------------------------------------------------------
\* The forms that take an object.
SetCustomAltimetry(place, altimetry) ==
    Call("object", "altimetry", place, <<>>) /\ Store("altimetry", place, altimetry)

SetCustomSediment(place, material) ==
    Call("object", "sediment", place, <<>>) /\ Store("sediment", place, material)

SetCustomSsp(place, ssp) ==
    Call("object", "ssp", place, <<>>) /\ Store("ssp", place, ssp)

\* A woss::Bathymetry is one depth: the object form sets one point.
SetCustomBathymetry(place, range, depth) ==
    /\ Call("object", "bathymetry", place, <<>>)
    /\ Store("bathymetry", place, Overlay(OnePoint(range, depth), db[place].bathymetry))

\* The points of a file, or its profile, are stored by the manager.
ImportCustomBathymetry(place, points) ==
    /\ Call("file", "bathymetry", place, <<>>)
    /\ Store("bathymetry", place, Overlay(points, db[place].bathymetry))

ImportCustomSsp(place, ssp) ==
    Call("file", "ssp", place, <<>>) /\ Store("ssp", place, ssp)

\* What the manager finds is returned.
Get(quantity, place, object) ==
    /\ Call("get", quantity, place, <<>>)
    /\ got' = object
    /\ UNCHANGED <<pc, locals, ret, db>>

GetCustomAltimetry(place) == Get("altimetry", place, db[place].altimetry)
GetCustomSediment(place) == Get("sediment", place, db[place].sediment)
GetCustomSsp(place) == Get("ssp", place, db[place].ssp)

GetCustomBathymetry(place, range) ==
    LET points == db[place].bathymetry
    IN  Get("bathymetry", place, IF range \in DOMAIN points THEN <<points[range]>> ELSE Unset)

Erase(quantity, place, object) ==
    /\ Call("erase", quantity, place, <<>>)
    /\ db' = [db EXCEPT ![place][quantity] = object]
    /\ UNCHANGED <<pc, locals, ret, got>>

EraseCustomAltimetry(place) == Erase("altimetry", place, Unset)
EraseCustomSediment(place) == Erase("sediment", place, Unset)
EraseCustomSsp(place) == Erase("ssp", place, Unset)

\* The point at a range, or those at all ranges.
EraseCustomBathymetry(place) ==
    LET points == db[place].bathymetry
    IN  \E kept \in {{}} \cup {DOMAIN points \ {range} : range \in DOMAIN points} :
            Erase("bathymetry", place, [range \in kept |-> points[range]])

Ranges == UNION {DOMAIN points : points \in Bathymetries}

OnStrings(place) ==
    \/ \E fields \in Lines : ReadTotal("bathymetry", place, fields) \/ ReadTotal("ssp", place, fields)
    \/ \E fields \in Sediments : SetSedimentString(place, fields)

OnObjects(place) ==
    \/ \E altimetry \in Altimetries : SetCustomAltimetry(place, altimetry)
    \/ \E material \in Materials : SetCustomSediment(place, material)
    \/ \E ssp \in Profiles : SetCustomSsp(place, ssp) \/ ImportCustomSsp(place, ssp)
    \/ \E points \in Bathymetries :
          \/ ImportCustomBathymetry(place, points)
          \/ \E range \in DOMAIN points : SetCustomBathymetry(place, range, points[range])
    \/ GetCustomAltimetry(place) \/ GetCustomSediment(place) \/ GetCustomSsp(place)
    \/ \E range \in Ranges : GetCustomBathymetry(place, range)
    \/ EraseCustomAltimetry(place) \/ EraseCustomSediment(place)
    \/ EraseCustomSsp(place) \/ EraseCustomBathymetry(place)

Next ==
    \/ \E place \in Places : OnStrings(place) \/ OnObjects(place)
    \/ BathymetryPoint
    \/ SspPoint
    \/ PointFails
    \/ BathymetryReturns
    \/ SspReturns

Spec == Init /\ [][Next]_vars

-----------------------------------------------------------------------------
\* What may be bound to a place as a quantity.
Fits(quantity, object) ==
    /\ quantity = "bathymetry" => IsBathymetry(object)
    /\ quantity = "ssp" => object = Unset \/ IsProfile(object)
    /\ quantity = "sediment" => object = Unset \/ object \in Seq(Int)
    /\ quantity = "altimetry" => object \in Altimetries \cup {Unset}

\* Type invariant of the parser and of what is stored.
TypeOK ==
    /\ pc \in {"idle", "bathymetry", "ssp"}
    /\ rest \in Seq(Int)
    /\ cnt \in Nat /\ (pc # "idle" => cnt <= Total)
    /\ IsProfile(profile)
    /\ ret \in BOOLEAN
    /\ DOMAIN db = Places
    /\ \A place \in Places :
          /\ DOMAIN db[place] = DOMAIN Empty
          /\ \A quantity \in DOMAIN Empty : Fits(quantity, db[place][quantity])

\* Reference reading of a string: its n-th point, and the points it announces.
PointOf(fields, n) == [at |-> fields[2 * n], value |-> fields[2 * n + 1]]
Points(fields) == [n \in 1 .. fields[1] |-> PointOf(fields, n)]

\* The first n points are there and valid; a separator follows each of them but
\* the last that was announced.
ValidUpTo(fields, n) ==
    /\ n <= fields[1]
    /\ \A m \in 1 .. n :
          /\ Len(fields) >= IF m < fields[1] THEN 2 * m + 2 ELSE 2 * m + 1
          /\ fields[2 * m + 1] >= 0

WellFormed(fields) == fields[1] > 0 /\ ValidUpTo(fields, fields[1])

ReturnedString(quantity) == pc = "idle" /\ call.of = "string" /\ call.quantity = quantity

\* While a bathymetry string is read and after it has been, well formed or not,
\* the bathymetry of its place is the one before overlaid with the points the
\* manager took, in their order, and those are points in front of the first
\* invalid one.
BathymetryOverlaid ==
    call.of = "string" /\ call.quantity = "bathymetry" =>
        LET now == db[at].bathymetry
            before == call.db[at].bathymetry
        IN  /\ \A n \in taken : ValidUpTo(line, n)
            /\ \A r \in DOMAIN now \cup DOMAIN before :
                  LET points == {n \in taken : PointOf(line, n).at = r}
                  IN  /\ r \in DOMAIN now
                      /\ IF points = {} THEN r \in DOMAIN before /\ now[r] = before[r]
                         ELSE \E n \in points : /\ \A m \in points : m <= n
                                                /\ now[r] = PointOf(line, n).value

\* When the manager takes every point it is given, a bathymetry string is
\* accepted exactly when it is well formed, and then all its points are stored.
\* The answer of a manager that refuses points is not looked at, although
\* woss-helper.h:391 promises true for success only: then nothing is said here.
BathymetryAccepted ==
    ReturnedString("bathymetry") /\ refused = {} =>
        (ret <=> WellFormed(line)) /\ (ret => taken = 1 .. Total)

\* A profile goes in as a whole or not at all: a string that turns out to be
\* invalid at some point, or that the manager refuses, leaves the profile
\* that was stored.
SspAllOrNothing ==
    ReturnedString("ssp") =>
        IF ret THEN WellFormed(line) /\ db[at].ssp = Points(line) ELSE db[at] = call.db[at]

=============================================================================
