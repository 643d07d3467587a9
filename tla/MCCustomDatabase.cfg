SPECIFICATION Spec
CONSTANTS
    p1 = p1
    p2 = p2
    Places = {p1, p2}
    Lines <- MCLines
    Sediments <- MCSediments
    Bathymetries <- MCBathymetries
    Profiles <- MCProfiles
    Materials <- MCMaterials
    Altimetries <- MCAltimetries
    Unset = Unset
    MaxCalls = 3
SYMMETRY MCSymmetry
CHECK_DEADLOCK FALSE
INVARIANTS
    TypeOK
    BathymetryOverlaid
    BathymetryAccepted
    SspAllOrNothing
