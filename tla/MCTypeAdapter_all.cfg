CONSTANTS
    a = a
    b = b
    c = c
    d = d
    u = u
    v = v
    Models <- MCModels
    Unions <- MCUnions
    Schemas <- ModelsAndUnions
SPECIFICATION FairSpec
INVARIANTS Sized BoxedOnlyOnCycles CachedModelsComplete RegisteredOnce BaseFieldsAreRefs NothingMissing
PROPERTIES Terminates
