SPECIFICATION Spec
CONSTANTS
    f1 = f1  f2 = f2
    Details = {ann, bob, blank}
    Unnamed = {blank}
    Blank = blank
    Typed = {ann, bob, blank}
    Listed <- FlightList
    Rows <- FlightRows
    Cols <- FlightCols
    NoFlight = NoFlight
    NoText = NoText
    NoWidget = NoWidget
INVARIANTS TypeOK DisplayIsStored
PROPERTIES OnlyBookAndDeleteWrite SelectionIsPressed StoreSpec
