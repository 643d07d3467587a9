SPECIFICATION Spec
CONSTANTS
    Model = {m1, m2, m3}
    Address = {a1, a2}
    NoAddress = NoAddress
    AnyNode = AnyNode
    Unset = Unset
    DefaultAngles <- MCDefaultAngles
    AngleStrings <- MCAngleStrings
    TransducerStrings <- MCTransducerStrings
    MaxOps = 3
INVARIANT AnglesAsBound
CHECK_DEADLOCK FALSE
