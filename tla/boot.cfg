SPECIFICATION FairSpec
CONSTANT Images <- MCImages
INVARIANTS FirstBlockSearched LoadedIsFile RamIsMapped SegmentsInPlace
PROPERTY Boots
CHECK_DEADLOCK FALSE
