SPECIFICATION Spec
CONSTANT Images <- MCImages
INVARIANT TwelveBlocksSearched
CHECK_DEADLOCK FALSE
