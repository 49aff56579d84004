SPECIFICATION Spec
CONSTANT Images <- MCImages
INVARIANTS TypeOK LoadedFillsSegment
CHECK_DEADLOCK FALSE
