CONSTANTS
    LibNamespaces <- MCLibs
    Packages <- Prefixed
SPECIFICATION ImportsSpec
INVARIANTS SiblingsAreChildren
