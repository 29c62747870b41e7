SPECIFICATION Spec
CONSTANTS
    Ids = {o1, o2, o3}
    NULL = NULL
    Shapes <- MCShapes
    CallerStrings = {"obs_name"}
    Messages <- MCMessages
    Buffers <- MCBuffers
SYMMETRY SymmetricIds
CHECK_DEADLOCK FALSE
INVARIANT OnlyWildPastTheArray
INVARIANT OnlyStringsLeak
PROPERTY CallsKeepTheirWord
