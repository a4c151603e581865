SPECIFICATION Spec
CONSTANT ImageCount = 3
CHECK_DEADLOCK FALSE
INVARIANTS TypeOK CleanStart CommandPoolIdle SetInUseIsOldest
PROPERTIES OnlyDrawnImagesAreShown FrameEnds CloseEnds RebuildHappens
