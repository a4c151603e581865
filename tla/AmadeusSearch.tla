--------------------------- MODULE AmadeusSearch ---------------------------
(***************************************************************************)
(* The "Amadeus GDS" pane (AmadeusWindow, Application.cpp) and the client  *)
(* behind its Search button (AmadeusInterface.cpp): two dates, each picked *)
(* in a popup with a list of months, one of years and one of days, and a   *)
(* search whose answer goes to availableFlights.json.  A search runs in one *)
(* frame, but the file is opened, which empties it, before it is written:  *)
(* the write can fail and the process can end in between.                  *)
(*                                                                         *)
(* ImGui knows a widget by its label, and the popup labels months and days *)
(* by their bare numbers.  A mouse press is a button down and a button up: *)
(* of the widgets with the label it went down on, the first that is drawn  *)
(* takes the up, and is pressed if the mouse is over it then, wherever it  *)
(* went down.  The keyboard presses them all.                              *)
(***************************************************************************)
EXTENDS Integers

CONSTANTS Tried,      \* bound: the labels the users press
          NoWidget,   \* no entry of a list: the mouse is elsewhere, or not down
          Offers      \* the answers that have flight offers

ASSUME TriedAssumption == Tried \subseteq Nat

VARIABLES
    date,     \* departureDate and arrivalDate
    popup,    \* the calendar that is open
    held,     \* the widget the mouse button went down on
    token,    \* m_AccessToken, once AmadeusInterface::Get has made the instance
    answer,   \* what the last search got
    at,       \* the pane, or what a search has yet to do with the file
    file,     \* availableFlights.json
    running,  \* FALSE once the process has ended
    due,      \* history: what the last search that opened the file was to write
    cut       \* history: that write failed, or the process ended before it was done

pane == <<date, popup, held>>
saved == <<file, due, cut>>
vars == <<pane, token, answer, at, running, saved>>

Calendars == {"departure", "arrival"}

\* The defaults of struct Date.
Date == [year |-> 2024, month |-> 3, day |-> 12]

\* What the file can be: not there, empty, or the beginning or the whole of an answer.
Absent == [has |-> "none", of |-> "none"]
Empty == [has |-> "nothing", of |-> "none"]
Part(a) == [has |-> "part", of |-> a]
Whole(a) == [has |-> "all", of |-> a]

Init ==
    /\ date = [c \in Calendars |-> Date]
    /\ popup = "none" /\ held = NoWidget
    /\ token = "unset" /\ answer = "none" /\ at = "pane"
    /\ running = TRUE
    /\ file = Absent /\ due = Absent /\ cut = FALSE

-----------------------------------------------------------------------------
(* A calendar popup.                                                         *)

\* (mutant) Every fourth year is a leap year.
JulianDays(d) ==
    CASE d.month = 2 -> IF d.year % 4 = 0 THEN 29 ELSE 28
      [] d.month \in {4, 6, 9, 11} -> 30
      [] OTHER -> 31

DaysInMonth(d) ==
    CASE d.month = 2 -> IF d.year % 4 = 0 /\ (d.year % 100 # 0 \/ d.year % 400 = 0)
                        THEN 29 ELSE 28
      [] d.month \in {4, 6, 9, 11} -> 30
      [] OTHER -> 31

\* (mutant) The days are listed first.
DaysFirst == [month |-> 2, year |-> 3, day |-> 1]

\* The three lists of the calendar of a date, and the order they come in.
Offered(d) == [month |-> 1 .. 12, year |-> 2000 .. 2100, day |-> 1 .. DaysInMonth(d)]
Order == [month |-> 1, year |-> 2, day |-> 3]

\* No list before this one has an entry of the same label.
IsFirst(w, d) ==
    \A f \in DOMAIN Order : w.n \in Offered(d)[f] => Order[w.field] <= Order[f]

\* Pressing the label n in the lists fs assigns the fields of the date.
Assign(d, fs, n) == [f \in DOMAIN d |-> IF f \in fs THEN n ELSE d[f]]

\* The entries that the mouse is over, or goes down on.
Entries == [field : DOMAIN Order, n : Tried]
IsOffered(w) == w.n \in Offered(date[popup])[w.field]

Idle == running /\ at = "pane"

OpenPopup(c) ==
    /\ Idle /\ popup = "none"
    /\ popup' = c
    /\ UNCHANGED <<date, held, token, answer, at, running, saved>>

\* A click outside the popup, or Escape.
ClosePopup ==
    /\ Idle /\ popup # "none" /\ held = NoWidget
    /\ popup' = "none"
    /\ UNCHANGED <<date, held, token, answer, at, running, saved>>

MouseDown(w) ==
    /\ Idle /\ popup # "none" /\ held = NoWidget
    /\ IsOffered(w)
    /\ held' = w
    /\ UNCHANGED <<date, popup, token, answer, at, running, saved>>

\* The button comes up over the entry w: a press of w, which closes the popup, if
\* w is the first entry that has the label of the one it went down on.
MouseUp(w) ==
    /\ Idle /\ held # NoWidget
    /\ IsOffered(w)
    /\ held' = NoWidget
    /\ IF w.n = held.n /\ IsFirst(w, date[popup])
       THEN /\ date' = [date EXCEPT ![popup] = Assign(@, {w.field}, w.n)]
            /\ popup' = "none"
       ELSE UNCHANGED <<date, popup>>
    /\ UNCHANGED <<token, answer, at, running, saved>>

\* The button comes up over no entry.
MouseUpElsewhere ==
    /\ Idle /\ held # NoWidget
    /\ held' = NoWidget
    /\ UNCHANGED <<date, popup, token, answer, at, running, saved>>

\* The keyboard activates the label n.
NavPress(n) ==
    LET fs == {f \in DOMAIN Order : n \in Offered(date[popup])[f]} IN
    /\ Idle /\ popup # "none" /\ held = NoWidget
    /\ fs # {}
    /\ date' = [date EXCEPT ![popup] = Assign(@, fs, n)]
    /\ popup' = "none"
    /\ UNCHANGED <<held, token, answer, at, running, saved>>

-----------------------------------------------------------------------------
(* The search.                                                               *)

\* sprintf of "%04d-%02d-%02d".
Formatted(d) == <<d.year, d.month, d.day>>

\* The dates GetAvailableFlights is called with.
Query == [departureDate |-> Formatted(date["arrival"]),
          returnDate    |-> Formatted(date["arrival"])]

\* GetAccessToken: whatever goes wrong, the request or its answer, is caught and
\* leaves an empty token.
Tokens == {"", "granted"}

\* What the flight-offers request can come back with: without a token the
\* service refuses; a failed request leaves nothing that parses.
Answers(t) == {"refusal", "unreadable"} \cup IF t = "granted" THEN Offers ELSE {}

\* json::parse throws otherwise, and nothing up to main catches it.
Parses(a) == a # "unreadable"

\* (mutant) The file is opened before the request.
SearchIntoOpenFile(t, a) ==
    /\ Idle /\ popup = "none"
    /\ token' \in IF token = "unset" THEN Tokens ELSE {token}
    /\ a \in Answers(t)
    /\ answer' = a
    /\ running' = Parses(a)
    /\ at' = IF Parses(a) THEN "open" ELSE at
    /\ file' = Empty
    /\ UNCHANGED <<pane, due, cut>>

\* The Search Flights button.  The first search makes the instance, whose
\* constructor asks for a token that GetAvailableFlights never uses.
Search(t, a) ==
    /\ Idle /\ popup = "none"
    /\ token' \in IF token = "unset" THEN Tokens ELSE {token}
    /\ a \in Answers(t)
    /\ answer' = a
    /\ running' = Parses(a)
    /\ at' = IF Parses(a) THEN "open" ELSE at
    /\ UNCHANGED <<pane, saved>>

\* The ofstream opens the file, and empties it.
OpenFile ==
    /\ running /\ at = "open"
    /\ file' = Empty
    /\ due' = Whole(answer) /\ cut' = FALSE
    /\ at' = "write"
    /\ UNCHANGED <<pane, token, answer, running>>

\* It cannot be opened: a message, and the frame goes on.
OpenFileFails ==
    /\ running /\ at = "open"
    /\ at' = "pane"
    /\ UNCHANGED <<pane, token, answer, running, saved>>

\* The answer is written and the ofstream closed.
WriteFile ==
    /\ running /\ at = "write"
    /\ file' = Whole(answer)
    /\ at' = "pane"
    /\ UNCHANGED <<pane, token, answer, running, due, cut>>

\* A write fails: nobody looks at the state of the stream.
WriteFileFails ==
    /\ running /\ at = "write"
    /\ file' \in {Empty, Part(answer)}
    /\ cut' = TRUE
    /\ at' = "pane"
    /\ UNCHANGED <<pane, token, answer, running, due>>

\* The process ends, closed by the user or killed; what the stream has flushed by
\* then is in the file.
Ends ==
    /\ running
    /\ running' = FALSE
    /\ IF at = "write"
       THEN /\ file' \in {Empty, Part(answer), Whole(answer)}
            /\ cut' = TRUE
       ELSE UNCHANGED <<file, cut>>
    /\ UNCHANGED <<pane, token, answer, at, due>>

\* The program is started again; the file is still there.
Launch ==
    /\ ~running
    /\ date' = [c \in Calendars |-> Date]
    /\ popup' = "none" /\ held' = NoWidget
    /\ token' = "unset" /\ answer' = "none" /\ at' = "pane"
    /\ running' = TRUE
    /\ UNCHANGED saved

-----------------------------------------------------------------------------
Next ==
    \/ \E c \in Calendars : OpenPopup(c)
    \/ ClosePopup \/ MouseUpElsewhere
    \/ \E w \in Entries : MouseDown(w) \/ MouseUp(w)
    \/ \E n \in Tried : NavPress(n)
    \/ \E t \in Tokens : \E a \in Answers(t) : Search(t, a)
    \/ OpenFile \/ OpenFileFails \/ WriteFile \/ WriteFileFails
    \/ Ends \/ Launch

Spec == Init /\ [][Next]_vars

-----------------------------------------------------------------------------
(* Properties.                                                               *)

\* The Gregorian calendar, independently of DaysInMonth: a year of 12 months has
\* 31 days in the odd ones up to July and in the even ones from August.
RealDate(d) ==
    /\ d.day >= 1
    /\ d.day <= IF d.month = 2
                THEN 28 + (IF d.year % 400 = 0 THEN 1 ELSE 0)
                        + (IF d.year % 4 = 0 /\ d.year % 100 # 0 THEN 1 ELSE 0)
                ELSE 30 + (IF (d.month <= 7) <=> (d.month % 2 = 1) THEN 1 ELSE 0)

\* However the user got to the month and year on display, a day that is picked
\* in the calendar exists in them, with the mouse or the keyboard, and also when
\* one press sets month and day at once (Application.cpp:502-520, 555-573).
DayPicksAreValid ==
    [][\A c \in Calendars : date'[c].day # date[c].day => RealDate(date'[c])]_vars

\* Months and days share their labels.  A release of the mouse over an entry sets no
\* other field than that of the entry, in the calendar that is open, and only to the
\* label that the button went down on, perhaps in another list; a click that begins
\* and ends on one entry sets what the entry says, whatever month and year are on
\* display, but for the days 1 to 12, which no release ever sets, since the months
\* are drawn first (Application.cpp:482-520).
ReleaseSetsOneField ==
    [][\A w \in Entries : MouseUp(w) =>
          /\ \A c \in Calendars : \A f \in DOMAIN Date :
                date'[c][f] # date[c][f] =>
                    c = popup /\ f = w.field /\ date'[c][f] = held.n
          /\ IF w.field = "day" /\ w.n <= 12 THEN date' = date
             ELSE held = w => date'[popup][w.field] = w.n]_vars

\* The file holds all of the last answer that it could be opened for, whatever
\* searches got no answer, could not open it or ended the program since.  Only a write
\* that fails, or the end of the process between the opening of the file and the end
\* of the write, leaves less, and then it is the beginning of that answer, not what is
\* left of an older one (Application.cpp:594-602).
FileHasLastAnswer ==
    \/ file = due
    \/ (at = "write" \/ cut) /\ file \in {Empty, Part(due.of)}

\* A search asks for the two dates on display (Application.cpp:527, 580).
SearchAsksForTheDates ==
    /\ Query.departureDate = Formatted(date["departure"])
    /\ Query.returnDate = Formatted(date["arrival"])
=============================================================================
