CONSTANTS
    Packages <- MCPackages
SPECIFICATION Spec
INVARIANTS AccessorsInitialise ConstructorsInitialise AuthenticationAsDescribed NamesDistinct ClientParamsResolve
