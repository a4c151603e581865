SPECIFICATION FairSpec
CONSTANTS
    p1 = p1  p2 = p2
    ann = ann  bob = bob  blank = blank
    f1 = f1  f2 = f2  f3 = f3  f4 = f4
    Details = {ann, bob, blank}
    Unnamed = {blank}
    Blank = blank
    Typed = {ann, bob, blank}
    Procs = {p1}
    Flights = {f1, f2, f3}
    NoFlight = NoFlight
    Rows <- FlightRows
    Cols <- FlightCols
    TableName <- FlightTables
    Tables = {"Booking1", "Booking2"}
    FlightsTableExists = TRUE
    MaxFaults = 1
INVARIANTS TypeOK NoOutOfBoundsLoad OneRowPerSeat StoredRowsValid SessionCoherent
           NamedReportsAreTrue
PROPERTIES OnlyStaleSeatsAreLost StoreSpec SaveFinishes
