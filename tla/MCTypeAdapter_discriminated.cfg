CONSTANTS
    a = a
    b = b
    c = c
    d = d
    u = u
    v = v
    Models <- MCModels
    Unions <- MCUnions
    Schemas <- DiscriminatedCycle
SPECIFICATION Spec
INVARIANT Sized
