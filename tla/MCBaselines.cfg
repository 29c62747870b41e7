SPECIFICATION Spec
CONSTANTS
    Arrays <- MCArrays
    Names = {t1, t2, t3}
    NONE = NONE
CHECK_DEADLOCK FALSE
INVARIANT VectorIsTheTriangle
INVARIANT LookupsAgree
