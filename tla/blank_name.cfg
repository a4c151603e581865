SPECIFICATION Spec
CONSTANTS
    p1 = p1  p2 = p2
    ann = ann  bob = bob  blank = blank
    f1 = f1  f2 = f2  f3 = f3  f4 = f4
    Details = {ann, blank}
    Unnamed = {blank}
    Blank = blank
    Typed = {ann, blank}
    Procs = {p1}
    Flights = {f1}
    NoFlight = NoFlight
    Rows <- FlightRows
    Cols <- FlightCols
    TableName <- FlightTables
    Tables = {"Booking1"}
    FlightsTableExists = TRUE
    MaxFaults = 0
INVARIANT ReportsAreTrue
