CONSTANTS
    Methods <- MCMethods
SPECIFICATION Spec
INVARIANTS EmittedCompiles OptionsMatter
PROPERTIES KeepsPromise
