SPECIFICATION Spec
CONSTANTS
    Flights = {f1, f2}
    Cabins <- MCCabins
    Texts <- MCTexts
    Unreadable = Unreadable
    StdOffset = 1
    Daylight = 1
    Summer <- MCSummer
    IntLimit = 16
    UShortLimit = 94
    NoTable = NoTable
    Nothing = Nothing
INVARIANTS TypeOK SeatCodesDiffer ListedOnce
PROPERTIES ShownTimesAreStored  FrameEnds
