SPECIFICATION Spec
CONSTANT Raw <- MCRaw
INVARIANT MalformedIsInvalid
CHECK_DEADLOCK FALSE
