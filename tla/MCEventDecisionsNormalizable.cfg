SPECIFICATION Spec
CONSTANT Raw <- MCRaw
INVARIANT ValidIsNormalizable
CHECK_DEADLOCK FALSE
