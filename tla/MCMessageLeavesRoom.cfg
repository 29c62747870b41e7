SPECIFICATION Spec
CONSTANTS
    Ids = {o1, o2, o3}
    NULL = NULL
    Shapes <- MCShapes
    CallerStrings = {"obs_name"}
    Messages <- MCMessages
    Buffers <- MCBuffers
CHECK_DEADLOCK FALSE
INVARIANT MessageLeavesRoom
