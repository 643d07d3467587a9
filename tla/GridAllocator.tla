----------------------------- MODULE GridAllocator -----------------------------
(***************************************************************************)
(* WossGridPositionAllocator: the n-th call of GetNext places the n-th     *)
(* object of a grid.  Positions are metres north and east: going some      *)
(* distance with bearing 0 adds it to north, with bearing pi/2 to east     *)
(* (getCoordFromBearing is external, the curvature of the earth is left    *)
(* out).                                                                   *)
(***************************************************************************)
EXTENDS Integers, Sequences, FiniteSets

CONSTANTS
    Origins,            \* values of MinLatitude and of MinLongitude
    Depths,
    DeltaLatitudes, DeltaLongitudes,
    GridWidths,
    Layouts,            \* "RowFirst", "ColumnFirst"
    MaxObjects,         \* bound: calls of GetNext
    MaxSettings         \* bound: attributes set

ASSUME GridAssumption ==
    /\ Origins \cup Depths \cup DeltaLatitudes \cup DeltaLongitudes \subseteq Int
    /\ GridWidths \subseteq Nat
    /\ Layouts \subseteq {"RowFirst", "ColumnFirst"}
    /\ MaxObjects \in Nat /\ MaxSettings \in Nat

VARIABLES
    grid,           \* the attributes
    m_current,      \* objects placed so far
    status,         \* "running" or "crashed"
    settings,       \* attributes set so far
    placed          \* history: the objects placed since the last setting

gridVars == <<grid, m_current, status, settings, placed>>

\* The attributes and the values that are tried.
Attributes ==
    [m_LatMin : Origins, m_LonMin : Origins, m_Depth : Depths,
     m_DeltaLat : DeltaLatitudes, m_DeltaLon : DeltaLongitudes,
     m_n : GridWidths, m_layoutType : Layouts]

GridInit ==
    /\ grid \in Attributes
    /\ m_current = 0
    /\ status = "running"
    /\ settings = 0
    /\ placed = <<>>

-----------------------------------------------------------------------------
\* SetMinLatitude, SetMinLongitude, SetDepth, SetDeltaLatitude, SetDeltaLongitude,
\* SetN and SetLayoutType: one attribute changes, m_current goes on.
Set ==
    /\ status = "running"
    /\ settings < MaxSettings
    /\ \E value \in Attributes :
          /\ Cardinality({name \in DOMAIN value : value[name] # grid[name]}) = 1
          /\ grid' = value
    /\ settings' = settings + 1
    /\ placed' = <<>>
    /\ UNCHANGED <<m_current, status>>

At(north, east) == [north |-> grid.m_LatMin + north, east |-> grid.m_LonMin + east, depth |-> grid.m_Depth]

\* Mutation: a row has one place more.
RowFirstWider ==
    At(grid.m_DeltaLat * (m_current \div (grid.m_n + 1)), grid.m_DeltaLon * (m_current % (grid.m_n + 1)))

\* Row by row: north by the row, then east by the place in the row.
RowFirst ==
    At(grid.m_DeltaLat * (m_current \div grid.m_n), grid.m_DeltaLon * (m_current % grid.m_n))

\* Column by column: east by the column, then north by the place in the
\* column; going north by m_DeltaLon does not change the longitude.
ColumnFirst ==
    At(grid.m_DeltaLat * (m_current % grid.m_n), grid.m_DeltaLat * (m_current \div grid.m_n))

\* The first object is placed at the origin, the others by the layout; a width
\* of zero is divided by.
GetNext ==
    /\ status = "running"
    /\ m_current < MaxObjects
    /\ IF m_current > 0 /\ grid.m_n = 0
          THEN status' = "crashed" /\ UNCHANGED <<m_current, placed>>
          ELSE /\ placed' = Append(placed,
                     IF m_current = 0 THEN At(0, 0)
                     ELSE IF grid.m_layoutType = "RowFirst" THEN RowFirst ELSE ColumnFirst)
               /\ m_current' = m_current + 1
               /\ UNCHANGED status
    /\ UNCHANGED <<grid, settings>>

GridNext == Set \/ GetNext

GridSpec == GridInit /\ [][GridNext]_gridVars

-----------------------------------------------------------------------------
\* An object's place across the lines of the grid.
Line(object) == IF grid.m_layoutType = "RowFirst" THEN object.north ELSE object.east

\* In a grid with a width and spacings the objects placed under the same
\* attributes stand at different places, and never more than GridWidth of them
\* on a line ("the number of objects layed out on a line"), wherever in the grid
\* the attributes were changed.
GridShape ==
    grid.m_n > 0 /\ grid.m_DeltaLat # 0 /\ grid.m_DeltaLon # 0 =>
        \A a \in DOMAIN placed :
            /\ \A b \in DOMAIN placed : placed[a] = placed[b] => a = b
            /\ Cardinality({b \in DOMAIN placed : Line(placed[a]) = Line(placed[b])}) <= grid.m_n

\* The attribute DeltaLongitude is the distance of two longitude-consecutive
\* objects: two objects at one latitude are a multiple of it apart.
LongitudeSpacing ==
    \A a, b \in DOMAIN placed : placed[a].north = placed[b].north =>
        (placed[a].east - placed[b].east) % grid.m_DeltaLon = 0

=============================================================================
