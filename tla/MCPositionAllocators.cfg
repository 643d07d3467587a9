SPECIFICATION Spec
CONSTANTS
    Origins = {0}
    Depths = {1}
    DeltaLatitudes = {2}
    DeltaLongitudes = {5}
    GridWidths = {0, 1, 2, 3}
    Layouts = {"RowFirst", "ColumnFirst"}
    MaxObjects = 7
    MaxSettings = 2
    Scripts <- MCScripts
    MaxGenerators = 2
    MaxStream = 4
    MaxReplaced = 2
    MaxDraws = 2
CHECK_DEADLOCK FALSE
INVARIANTS
    StreamsTypeOK
    StreamsDisjoint
    NumbersUsedOnce
    GridShape
