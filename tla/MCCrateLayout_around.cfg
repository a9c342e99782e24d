CONSTANTS
    LibNamespaces <- MCLibs
    Packages <- Around
SPECIFICATION ImportsSpec
INVARIANTS DeclaredAreWritten ImportsResolve UsesResolve OneModulePerNamespace
PROPERTIES NothingOverwritten
