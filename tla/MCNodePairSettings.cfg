SPECIFICATION Spec
CONSTANTS
    Model = {m1, m2, m3}
    Address = {a1, a2}
    NoAddress = NoAddress
    AnyNode = AnyNode
    Unset = Unset
    DefaultAngles <- MCDefaultAngles
    AngleStrings <- MCAngleStrings
    TransducerStrings <- MCTransducerStrings
    MaxOps = 3
SYMMETRY MCSymmetry
INVARIANTS
    TypeOK
    LocationOfItsModel
    TransducersAsBound
    WildcardAnglesAsBound
CHECK_DEADLOCK FALSE
