SPECIFICATION GridSpec
CONSTANTS
    Origins = {0}
    Depths = {1}
    DeltaLatitudes = {2, 3}
    DeltaLongitudes = {5}
    GridWidths = {0, 1, 2, 3}
    Layouts = {"RowFirst", "ColumnFirst"}
    MaxObjects = 7
    MaxSettings = 2
CHECK_DEADLOCK FALSE
INVARIANT LongitudeSpacing
