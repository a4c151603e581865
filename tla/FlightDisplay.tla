---------------------------- MODULE FlightDisplay ---------------------------
(***************************************************************************)
(* The flights table (PersistenceManager.cpp) and what a frame shows of it *)
(* (Application.cpp): the list of Select Flight, with the times that were  *)
(* stored as text, converted to int and back (Util.cpp), and the seat map  *)
(* of the selected flight, every seat with its code (Flight.cpp).          *)
(*                                                                         *)
(* The table is written by another process, as TestSQLiteCPP does it, and  *)
(* read again in every frame.  A text is the reading of the local clock it *)
(* stands for, in units since 1970 began at this place, or Unreadable.     *)
(***************************************************************************)
EXTENDS Integers, Sequences

CONSTANTS
    Flights,      \* the values of flightId
    Cabins,       \* the pairs <<rows, cols>> a flight is inserted with
    Texts,        \* the values of departureTime and arrivalTime, which all the
                  \* code treats alike: they are one field, time
    Unreadable,   \* a text that is not "%Y-%m-%d %H:%M:%S"
    StdOffset,    \* the local clock less UTC, without daylight saving
    Daylight,     \* what daylight saving adds to it
    Summer,       \* the times it is in force
    IntLimit,     \* 2^31: int is -IntLimit .. IntLimit - 1
    UShortLimit,  \* 2^16: unsigned short is 0 .. UShortLimit - 1
    NoTable,      \* the file has no flights table
    Nothing       \* no flight is on display; localtime has no result

Seats(cabin) == (0 .. cabin[1] - 1) \X (0 .. cabin[2] - 1)

ASSUME DisplayAssumption ==
    /\ Texts \subseteq Int \cup {Unreadable} /\ Unreadable \notin Int
    /\ StdOffset \in Int /\ Daylight \in Nat
    /\ IntLimit \in Nat \ {0} /\ UShortLimit \in Nat /\ UShortLimit > 65
    /\ Cabins \subseteq (1 .. UShortLimit) \X (1 .. UShortLimit)
    /\ Nothing \notin Int \cup Cabins

VARIABLES
    flights,   \* the rows of the table, in the order SELECT * gives them
    running,   \* FALSE once the program has ended, or done what is undefined
    at,        \* where the frame is
    screen,    \* the list of Select Flight, while it is drawn
    cabin,     \* the cabin of the active flight
    seat,      \* seatLNum and seatRNum
    procRow,   \* GenerateSeatCode: what is left of the row
    zs,        \* GenerateSeatCode: how many 'Z' lHandCode has
    drawn      \* the seats drawn in this frame, with their codes

frame == <<running, at, screen, cabin, seat, procRow, zs, drawn>>
vars == <<flights, frame>>

Init ==
    /\ flights = NoTable
    /\ running = FALSE /\ at = "idle" /\ screen = <<>> /\ cabin = Nothing
    /\ seat = <<0, 0>> /\ procRow = 0 /\ zs = 0 /\ drawn = {}

-----------------------------------------------------------------------------
(* The table.                                                                *)

\* CREATE TABLE IF NOT EXISTS
CreateFlightsTable ==
    /\ flights = NoTable
    /\ flights' = <<>>
    /\ UNCHANGED frame

\* (mutant) INSERT without REPLACE, into a table without a key.
Inserted(rows, row) == Append(rows, row)

\* The rows without the i-th.
Without(rows, i) == [j \in 1 .. Len(rows) - 1 |-> rows[IF j < i THEN j ELSE j + 1]]

\* INSERT or REPLACE: flightId is the primary key, so the row that has it, if any,
\* is deleted, and the new one comes last.
Replaced(rows, row) ==
    LET same == {i \in DOMAIN rows : rows[i].flightId = row.flightId}
    IN  Append(IF same = {} THEN rows ELSE Without(rows, CHOOSE i \in same : TRUE), row)

InsertFlight(f, text, c) ==
    /\ flights # NoTable
    /\ flights' = Replaced(flights, [flightId |-> f, time |-> text, cabin |-> c])
    /\ UNCHANGED frame

\* The InsertFlight that takes a FlightInformation binds eight values to six
\* placeholders: the seventh bind throws, and the transaction is rolled back.
InsertFlightInformation ==
    /\ flights # NoTable
    /\ UNCHANGED vars

-----------------------------------------------------------------------------
(* Conversion of times.                                                      *)

\* mktime, with the tm_isdst = 0 of a zeroed tm: the clock has no daylight
\* saving.  Times before 1970 UTC it does not have.
Mktime(text) == IF text - StdOffset < 0 THEN -1 ELSE text - StdOffset

\* (mutant) static_cast to a type of half the size.
NarrowShort(t) == ((t + IntLimit \div 2) % IntLimit) - IntLimit \div 2

\* static_cast<int>
Narrow(t) == ((t + IntLimit) % (2 * IntLimit)) - IntLimit

\* (mutant) The text is taken for UTC.
DatetimeToIntUTC(text) == IF text = Unreadable THEN -1 ELSE Narrow(text)

DatetimeToInt(text) == IF text = Unreadable THEN -1 ELSE Narrow(Mktime(text))

\* localtime
Localtime(t) ==
    IF t < 0 THEN Nothing
    ELSE t + StdOffset + (IF t \in Summer THEN Daylight ELSE 0)

\* IntToDatetime gives the result of localtime to put_time, also when it is null.
IntToDatetime(t) == Localtime(t)

-----------------------------------------------------------------------------
(* A frame: the seat map, then the list of flights.                          *)

Launch ==
    /\ ~running
    /\ running' = TRUE /\ at' = "idle" /\ screen' = <<>> /\ cabin' = Nothing
    /\ seat' = <<0, 0>> /\ procRow' = 0 /\ zs' = 0 /\ drawn' = {}
    /\ UNCHANGED flights

BeginFrame ==
    /\ running /\ at = "idle"
    /\ at' = IF cabin = Nothing THEN "list" ELSE "seat"
    /\ seat' = <<0, 0>> /\ drawn' = {} /\ screen' = <<>>
    /\ UNCHANGED <<flights, running, cabin, procRow, zs>>

\* (mutant) row + 65 in an int.
GenerateSeatCodeInt ==
    /\ running /\ at = "seat"
    /\ procRow' = seat[1] + 65
    /\ zs' = 0
    /\ at' = "code"
    /\ UNCHANGED <<flights, running, screen, cabin, seat, drawn>>

\* SeatMapGUI calls GenerateSeatCode, whose parameters and procRow are unsigned
\* short, for the seat it has come to.
GenerateSeatCode ==
    /\ running /\ at = "seat"
    /\ procRow' = (seat[1] + 65) % UShortLimit
    /\ zs' = 0
    /\ at' = "code"
    /\ UNCHANGED <<flights, running, screen, cabin, seat, drawn>>

\* (mutant) lHandCode gets its last letter only.
AddNoZ ==
    /\ running /\ at = "code" /\ procRow > 90
    /\ procRow' = procRow - 26
    /\ UNCHANGED <<flights, running, at, screen, cabin, seat, zs, drawn>>

\* (mutant) procRow is not counted down.
AddZForever ==
    /\ running /\ at = "code" /\ procRow > 90
    /\ zs' = (zs + 1) % 3
    /\ UNCHANGED <<flights, running, at, screen, cabin, seat, procRow, drawn>>

\* The loop: one 'Z' for every 26 rows.
AddZ ==
    /\ running /\ at = "code" /\ procRow > 90
    /\ zs' = zs + 1
    /\ procRow' = procRow - 26
    /\ UNCHANGED <<flights, running, at, screen, cabin, seat, drawn>>

\* The seat after s in the loops of SeatMapGUI over the rows and columns of c.
NextSeat(c, s) == IF s[2] + 1 < c[2] THEN <<s[1], s[2] + 1>> ELSE <<s[1] + 1, 0>>

\* The code is the Zs, one more letter and the column; the button is drawn and
\* the loop goes on to the next seat.
DrawSeat ==
    /\ running /\ at = "code" /\ procRow <= 90
    /\ drawn' = drawn \cup {[seat |-> seat,
                             code |-> [zs |-> zs, letter |-> procRow, col |-> seat[2]]]}
    /\ seat' = NextSeat(cabin, seat)
    /\ at' = IF seat'[1] < cabin[1] THEN "seat" ELSE "list"
    /\ UNCHANGED <<flights, running, screen, cabin, procRow, zs>>

\* What SelectFlight shows of a row that GetFlightsInfo has read.
Shown(row) ==
    [flightId |-> row.flightId, cabin |-> row.cabin,
     time |-> IntToDatetime(DatetimeToInt(row.time))]

\* SelectFlight draws the flights that GetFlightsInfo returns: all of them, or
\* the first, those it had got when the SELECT failed.  For a time that has no
\* local time the behaviour is undefined.
ListFlights ==
    /\ running /\ at = "list" /\ flights # NoTable
    /\ \E n \in 0 .. Len(flights) : screen' = [i \in 1 .. n |-> Shown(flights[i])]
    /\ running' = \A i \in DOMAIN screen' : screen'[i].time # Nothing
    /\ at' = "buttons"
    /\ UNCHANGED <<flights, cabin, seat, procRow, zs, drawn>>

\* The COUNT fails: there is no table, another process has locked the file, or it
\* cannot be read.  The -1 that is returned for that, as a size_t, goes to reserve,
\* outside the try block, and what reserve throws ends the program.
ListFails ==
    /\ running /\ at = "list"
    /\ running' = FALSE
    /\ UNCHANGED <<flights, at, screen, cabin, seat, procRow, zs, drawn>>

\* A Select button is pressed, or none is.
EndFrame(pressed) ==
    /\ running /\ at = "buttons"
    /\ cabin' = IF pressed \in DOMAIN screen THEN screen[pressed].cabin ELSE cabin
    /\ at' = "idle"
    /\ screen' = <<>>
    /\ UNCHANGED <<flights, running, seat, procRow, zs, drawn>>

-----------------------------------------------------------------------------
FrameStep ==
    \/ BeginFrame \/ GenerateSeatCode \/ AddZ \/ DrawSeat
    \/ ListFlights \/ ListFails
    \/ \E i \in {0} \cup DOMAIN screen : EndFrame(i)

Next ==
    \/ CreateFlightsTable
    \/ \E f \in Flights, text \in Texts, c \in Cabins : InsertFlight(f, text, c)
    \/ InsertFlightInformation
    \/ Launch
    \/ FrameStep

\* A frame that has begun goes on: nothing it does waits for anything.
Spec == Init /\ [][Next]_vars /\ WF_vars(FrameStep)

-----------------------------------------------------------------------------
(* Properties.                                                               *)

TypeOK ==
    /\ \/ flights = NoTable
       \/ flights \in Seq([flightId : Flights, time : Texts, cabin : Cabins])
    /\ running \in BOOLEAN
    /\ at \in {"idle", "seat", "code", "list", "buttons"}
    /\ cabin \in Cabins \cup {Nothing}
    /\ seat \in Nat \X Nat
    /\ procRow \in 0 .. UShortLimit - 1
    /\ zs \in Nat

\* No two seats of a cabin have the same code, up to the number of rows an
\* unsigned short can count: not where the letters begin again, and not where
\* row + 65 exceeds an unsigned short (Flight.cpp:26-37).
SeatCodesDiffer == \A a, b \in drawn : a.code = b.code => a.seat = b.seat

\* The times an int can say, on the local clock.
Representable(text) ==
    text # Unreadable /\ text - StdOffset >= 0 /\ text - StdOffset < IntLimit

\* A stored time is shown as it was stored, but for the hour of daylight saving
\* when that is in force at the time (Util.cpp:14-48, Application.cpp:326-327).
ShowsStored(text, shown) ==
    Representable(text) =>
        shown = IF text - StdOffset \in Summer THEN text + Daylight ELSE text

ShownTimesAreStored ==
    [][screen' # screen => \A i \in DOMAIN screen' :
          ShowsStored(flights[i].time, screen'[i].time)]_vars

\* Once the flights have been counted, only a row of the list with a time that an
\* int cannot say ends the program in the middle of the frame: neither the last time
\* that it can say nor a bad row that the list does not reach (Util.cpp:25, 31, 43).
StopsAtBadTimesOnly ==
    [][running /\ ~running' /\ at' = "buttons" =>
          \E i \in DOMAIN screen' : ~Representable(flights[i].time)]_vars

\* The list never shows a flight twice, however often it was inserted
\* (PersistenceManager.cpp:49).
ListedOnce ==
    \A i, j \in DOMAIN screen : screen[i].flightId = screen[j].flightId => i = j

\* Every frame ends, however many rows the cabin has: the code of a seat is
\* reached (Flight.cpp:30-34).
FrameEnds == running /\ at # "idle" ~> ~running \/ at = "idle"
=============================================================================
