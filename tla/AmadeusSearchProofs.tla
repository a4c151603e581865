------------------------ MODULE AmadeusSearchProofs ------------------------
(***************************************************************************)
(* The properties of AmadeusSearch, for every label that users press.      *)
(***************************************************************************)
EXTENDS AmadeusSearch, TLAPS

-----------------------------------------------------------------------------
(* Dates.                                                                    *)

\* The dates the calendars can show.  The day need not exist in the month: a new
\* month or year keeps it.
Dates == [year : 2000 .. 2100, month : 1 .. 12, day : 1 .. 31]

\* The days the calendar offers for a month are those of the Gregorian calendar.
LEMMA DaysAreReal ==
    ASSUME NEW d \in Dates, NEW n \in Nat
    PROVE  /\ DaysInMonth(d) \in 28 .. 31
           /\ n \in 1 .. DaysInMonth(d) <=> RealDate([d EXCEPT !.day = n])
<1>1. PICK y, m : y = d.year /\ m = d.month
  OBVIOUS
<1>2. y \in 2000 .. 2100 /\ m \in 1 .. 12
  BY <1>1 DEF Dates
<1>3. PICK e : e = [d EXCEPT !.day = n]
  OBVIOUS
<1>4. e.year = y /\ e.month = m /\ e.day = n
  BY <1>1, <1>3 DEF Dates
<1>5. CASE m = 2
  <2>1. y % 400 = 0 => y % 4 = 0 /\ y % 100 = 0
    BY <1>2
  <2>2. DaysInMonth(d) = IF y % 4 = 0 /\ (y % 100 # 0 \/ y % 400 = 0) THEN 29 ELSE 28
    BY <1>1, <1>5 DEF DaysInMonth
  <2>3. RealDate(e) <=>
          /\ n >= 1
          /\ n <= 28 + (IF y % 400 = 0 THEN 1 ELSE 0)
                     + (IF y % 4 = 0 /\ y % 100 # 0 THEN 1 ELSE 0)
    BY <1>4, <1>5 DEF RealDate
  <2> QED
    BY <1>3, <2>1, <2>2, <2>3
<1>6. CASE m # 2
  <2>1. DaysInMonth(d) = IF m \in {4, 6, 9, 11} THEN 30 ELSE 31
    BY <1>1, <1>6 DEF DaysInMonth
  <2>2. (m \in {4, 6, 9, 11}) <=> ~((m <= 7) <=> (m % 2 = 1))
    BY <1>2, <1>6
  <2>3. RealDate(e) <=>
          n >= 1 /\ n <= 30 + (IF (m <= 7) <=> (m % 2 = 1) THEN 1 ELSE 0)
    BY <1>4, <1>6 DEF RealDate
  <2> QED
    BY <1>3, <2>1, <2>2, <2>3
<1> QED
  BY <1>5, <1>6

\* A press assigns the fields of its lists and keeps the others.
LEMMA AssignEffect ==
    ASSUME NEW d \in Dates, NEW fs, NEW n
    PROVE  Assign(d, fs, n) =
             [year  |-> IF "year" \in fs THEN n ELSE d.year,
              month |-> IF "month" \in fs THEN n ELSE d.month,
              day   |-> IF "day" \in fs THEN n ELSE d.day]
<1>1. DOMAIN d = {"year", "month", "day"}
  BY DEF Dates
<1> QED
  BY <1>1 DEF Assign

\* The lists fs of the calendar of d all offer the label n.
AllOffer(d, fs, n) == \A f \in fs : f \in DOMAIN Order /\ n \in Offered(d)[f]

\* A press of the label n in lists that all offer it gives a date again, and a new
\* day exists in the month and year it comes with: also when the keyboard sets the
\* month to the same number.
LEMMA PressedDate ==
    ASSUME NEW d \in Dates, NEW n \in Nat, NEW fs, NEW new,
           AllOffer(d, fs, n), new = Assign(d, fs, n)
    PROVE  new \in Dates /\ (new.day # d.day => RealDate(new))
<1>1. new = [year  |-> IF "year" \in fs THEN n ELSE d.year,
             month |-> IF "month" \in fs THEN n ELSE d.month,
             day   |-> IF "day" \in fs THEN n ELSE d.day]
  BY AssignEffect
<1>2. DaysInMonth(d) \in 28 .. 31
  BY DaysAreReal
<1>3. /\ "year" \in fs => n \in 2000 .. 2100
      /\ "month" \in fs => n \in 1 .. 12
      /\ "day" \in fs => n \in 1 .. DaysInMonth(d)
  <2>1. /\ "year" \in fs => n \in Offered(d)["year"]
        /\ "month" \in fs => n \in Offered(d)["month"]
        /\ "day" \in fs => n \in Offered(d)["day"]
    BY Zenon DEF AllOffer
  <2> QED
    BY <2>1 DEF Offered
<1>4. new \in Dates
  BY <1>1, <1>2, <1>3 DEF Dates
<1>5. ASSUME new.day # d.day PROVE RealDate(new)
  <2>1. "day" \in fs /\ new.day = n
    BY <1>1, <1>5
  <2>2. CASE "month" \in fs
    <3>1. DaysInMonth(new) \in 28 .. 31
      BY <1>4, DaysAreReal
    <3>2. n \in 1 .. DaysInMonth(new)
      BY <1>3, <2>2, <3>1
    <3>3. [new EXCEPT !.day = n] = new
      BY <1>4, <2>1 DEF Dates
    <3> QED
      BY <1>4, <3>2, <3>3, DaysAreReal
  <2>3. CASE "month" \notin fs
    <3>1. "year" \notin fs
      BY <1>2, <1>3, <2>1
    <3>2. new = [d EXCEPT !.day = n]
      BY <1>1, <2>1, <2>3, <3>1 DEF Dates
    <3> QED
      BY <1>3, <2>1, <3>2, DaysAreReal
  <2> QED
    BY <2>2, <2>3
<1> QED
  BY <1>4, <1>5

-----------------------------------------------------------------------------
(* The invariant.                                                            *)

\* The mouse button is down only on an entry that the open calendar still offers:
\* between the down and the up nothing changes the date it shows.
HeldIsOffered ==
    held # NoWidget =>
        /\ popup \in Calendars
        /\ held \in [field : DOMAIN Order, n : Nat]
        /\ held.n \in Offered(date[popup])[held.field]

IInv ==
    /\ date \in [Calendars -> Dates]
    /\ popup \in Calendars \cup {"none"}
    /\ HeldIsOffered

\* What a step may do to the dates.
PicksReal == \A c \in Calendars : date'[c].day # date[c].day => RealDate(date'[c])

LEMMA DefaultDate == Date \in Dates /\ RealDate(Date)
BY DEF Date, Dates, RealDate

LEMMA InitIInv == Init => IInv
BY DefaultDate DEF Init, IInv, HeldIsOffered

\* A press in the open calendar, with the mouse or the keyboard.
LEMMA PressStep ==
    ASSUME IInv, popup \in Calendars, NEW n \in Nat, NEW fs,
           AllOffer(date[popup], fs, n),
           date' = [date EXCEPT ![popup] = Assign(@, fs, n)]
    PROVE  date' \in [Calendars -> Dates] /\ PicksReal
<1>1. PICK d, new : d = date[popup] /\ new = Assign(d, fs, n)
  OBVIOUS
<1>2. d \in Dates
  BY <1>1 DEF IInv
<1>3. new \in Dates /\ (new.day # d.day => RealDate(new))
  BY <1>1, <1>2, PressedDate
<1>4. date' = [date EXCEPT ![popup] = new]
  BY <1>1
<1> QED
  BY <1>1, <1>3, <1>4 DEF IInv, PicksReal

LEMMA StepIInv ==
    ASSUME IInv, [Next]_vars
    PROVE  IInv' /\ PicksReal
<1>1. ASSUME NEW c \in Calendars, OpenPopup(c) PROVE IInv' /\ PicksReal
  <2>1. held = NoWidget
    BY <1>1 DEF OpenPopup, IInv, HeldIsOffered, Calendars
  <2> QED
    BY <1>1, <2>1 DEF OpenPopup, IInv, HeldIsOffered, PicksReal
<1>2. CASE ClosePopup
  BY <1>2 DEF ClosePopup, IInv, HeldIsOffered, PicksReal
<1>3. ASSUME NEW w \in Entries, MouseDown(w)
      PROVE  IInv' /\ PicksReal
  <2>1. w \in [field : DOMAIN Order, n : Nat]
    BY TriedAssumption DEF Entries
  <2> QED
    BY <1>3, <2>1 DEF MouseDown, IsOffered, IInv, HeldIsOffered, PicksReal
<1>4. ASSUME NEW w \in Entries, MouseUp(w)
      PROVE  IInv' /\ PicksReal
  <2>1. /\ popup \in Calendars /\ w.n \in Nat /\ w.field \in DOMAIN Order
        /\ w.n \in Offered(date[popup])[w.field]
    BY <1>4, TriedAssumption DEF MouseUp, IsOffered, Entries, IInv, HeldIsOffered
  <2>2. CASE w.n = held.n /\ IsFirst(w, date[popup])
    <3>1. date' \in [Calendars -> Dates] /\ PicksReal
      <4>1. PICK fs, n : fs = {w.field} /\ n = w.n
        OBVIOUS
      <4>2. date' = [date EXCEPT ![popup] = Assign(@, fs, n)]
        BY <1>4, <2>2, <4>1 DEF MouseUp
      <4>3. AllOffer(date[popup], fs, n) /\ n \in Nat
        BY <2>1, <4>1 DEF AllOffer
      <4> QED
        BY <2>1, <4>2, <4>3, PressStep
    <3> QED
      BY <1>4, <2>2, <3>1 DEF MouseUp, IInv, HeldIsOffered
  <2>3. CASE ~(w.n = held.n /\ IsFirst(w, date[popup]))
    BY <1>4, <2>3 DEF MouseUp, IInv, HeldIsOffered, PicksReal
  <2> QED
    BY <2>2, <2>3
<1>5. CASE MouseUpElsewhere
  BY <1>5 DEF MouseUpElsewhere, IInv, HeldIsOffered, PicksReal
<1>6. ASSUME NEW n \in Tried, NavPress(n) PROVE IInv' /\ PicksReal
  <2>1. PICK fs : fs = {f \in DOMAIN Order : n \in Offered(date[popup])[f]}
    OBVIOUS
  <2>2. /\ popup \in Calendars /\ n \in Nat
        /\ date' = [date EXCEPT ![popup] = Assign(@, fs, n)]
        /\ popup' = "none" /\ held' = held /\ held = NoWidget
    BY <1>6, <2>1, TriedAssumption DEF NavPress, IInv
  <2>3. date' \in [Calendars -> Dates] /\ PicksReal
    <3>1. AllOffer(date[popup], fs, n)
      BY <2>1 DEF AllOffer
    <3> QED
      BY <2>2, <3>1, PressStep
  <2> QED
    BY <2>2, <2>3 DEF IInv, HeldIsOffered
<1>7. ASSUME NEW t, NEW a, Search(t, a) PROVE IInv' /\ PicksReal
  BY <1>7 DEF Search, pane, IInv, HeldIsOffered, PicksReal
<1>8. CASE OpenFile \/ OpenFileFails \/ WriteFile \/ WriteFileFails \/ Ends
  <2>1. UNCHANGED pane
    BY <1>8 DEF OpenFile, OpenFileFails, WriteFile, WriteFileFails, Ends
  <2> QED
    BY <2>1 DEF pane, IInv, HeldIsOffered, PicksReal
<1>9. CASE Launch
  BY <1>9, DefaultDate DEF Launch, IInv, HeldIsOffered, PicksReal
<1>10. CASE UNCHANGED vars
  BY <1>10 DEF vars, pane, IInv, HeldIsOffered, PicksReal
<1> QED
  BY <1>1, <1>2, <1>3, <1>4, <1>5, <1>6, <1>7, <1>8, <1>9, <1>10 DEF Next

\* The inductive invariant holds in every behaviour.
LEMMA Invariant == Spec => []IInv
BY InitIInv, StepIInv, PTL DEF Spec

-----------------------------------------------------------------------------
(* The theorems.                                                             *)

\* A day that is picked exists in the month and year it is picked for, for every
\* sequence of presses, clicks and restarts (Application.cpp:502-520, 555-573).
THEOREM PickedDaysExist == Spec => DayPicksAreValid
<1>1. IInv /\ [Next]_vars => [PicksReal]_vars
  BY StepIInv
<1>2. Spec => [][PicksReal]_vars
  BY <1>1, Invariant, PTL DEF Spec
<1> QED
  BY <1>2 DEF DayPicksAreValid, PicksReal

\* In a calendar the months come first, the years and the days share no label, and
\* so an entry is the first of its label unless it is a day that the months hide.
LEMMA FirstOfItsLabel ==
    ASSUME NEW d \in Dates, NEW g \in DOMAIN Order, NEW n, NEW w,
           n \in Offered(d)[g], w.field = g, w.n = n
    PROVE  IsFirst(w, d) <=> (g # "day" \/ n > 12)
<1>1. DaysInMonth(d) \in 28 .. 31
  BY DaysAreReal
<1>2. /\ Order["month"] = 1 /\ Order["year"] = 2 /\ Order["day"] = 3
      /\ DOMAIN Order = {"month", "year", "day"}
  BY DEF Order
<1>3. /\ Offered(d)["month"] = 1 .. 12 /\ Offered(d)["year"] = 2000 .. 2100
      /\ Offered(d)["day"] = 1 .. DaysInMonth(d)
  BY DEF Offered
<1>4. IsFirst(w, d) <=>
        /\ n \in Offered(d)["month"] => Order[g] <= 1
        /\ n \in Offered(d)["year"] => Order[g] <= 2
        /\ n \in Offered(d)["day"] => Order[g] <= 3
  BY <1>2, Zenon DEF IsFirst
<1>5. CASE g = "month"
  BY <1>2, <1>4, <1>5
<1>6. CASE g = "year"
  <2>1. n \in 2000 .. 2100
    BY <1>6 DEF Offered
  <2>2. n \notin 1 .. 12
    BY <2>1
  <2> QED
    BY <1>2, <1>3, <1>4, <1>6, <2>2
<1>7. CASE g = "day"
  <2>1. n \in 1 .. DaysInMonth(d)
    BY <1>7 DEF Offered
  <2>2. n \in 1 .. 31 /\ n \notin 2000 .. 2100 /\ (n \in 1 .. 12 <=> n <= 12)
    BY <1>1, <2>1
  <2>3. IsFirst(w, d) <=> n > 12
    BY <1>2, <1>3, <1>4, <1>7, <2>2
  <2> QED
    BY <1>7, <2>3
<1> QED
  BY <1>2, <1>5, <1>6, <1>7

\* What ReleaseSetsOneField says of the release over one entry.
SetsOneField(w) ==
    /\ \A c \in Calendars : \A f \in DOMAIN Date :
          date'[c][f] # date[c][f] => c = popup /\ f = w.field /\ date'[c][f] = held.n
    /\ IF w.field = "day" /\ w.n <= 12 THEN date' = date
       ELSE held = w => date'[popup][w.field] = w.n

LEMMA ReleaseStep ==
    ASSUME IInv, NEW w \in Entries, MouseUp(w)
    PROVE  SetsOneField(w)
<1>1. PICK g, n, d : g = w.field /\ n = w.n /\ d = date[popup]
  OBVIOUS
<1>2. popup \in Calendars /\ n \in Nat /\ g \in DOMAIN Order /\ n \in Offered(d)[g]
  BY <1>1, TriedAssumption DEF MouseUp, IsOffered, Entries, IInv, HeldIsOffered
<1>3. d \in Dates /\ date \in [Calendars -> Dates]
  BY <1>1, <1>2 DEF IInv
<1>4. g \in {"month", "year", "day"} /\ DOMAIN Date = {"month", "year", "day"}
  BY <1>2 DEF Date, Order
<1>5. IsFirst(w, d) <=> ~(g = "day" /\ n <= 12)
  <2>1. IsFirst(w, d) <=> (g # "day" \/ n > 12)
    BY <1>1, <1>2, <1>3, FirstOfItsLabel
  <2> QED
    BY <1>2, <2>1
<1>6. CASE n = held.n /\ IsFirst(w, d)
  <2>1. PICK new : new = Assign(d, {g}, n)
    OBVIOUS
  <2>2. date' = [date EXCEPT ![popup] = new]
    BY <1>1, <1>6, <2>1 DEF MouseUp
  <2>3. new = [year  |-> IF "year" = g THEN n ELSE d.year,
               month |-> IF "month" = g THEN n ELSE d.month,
               day   |-> IF "day" = g THEN n ELSE d.day]
    BY <1>3, <2>1, AssignEffect
  <2>4. new[g] = n /\ \A f \in DOMAIN Date : new[f] # d[f] => f = g
    BY <1>4, <2>3
  <2>5. \A c \in Calendars : \A f \in DOMAIN Date :
          date'[c][f] # date[c][f] => c = popup /\ f = g /\ date'[c][f] = held.n
    BY <1>1, <1>2, <1>3, <1>6, <2>2, <2>4
  <2>6. date'[popup][g] = n
    BY <1>2, <1>3, <2>2, <2>4
  <2> QED
    BY <1>1, <1>5, <1>6, <2>5, <2>6 DEF SetsOneField
<1>7. CASE ~(n = held.n /\ IsFirst(w, d))
  <2>1. date' = date
    BY <1>1, <1>7 DEF MouseUp
  <2>2. (g = "day" /\ n <= 12) \/ held # w
    BY <1>1, <1>5, <1>7
  <2> QED
    BY <1>1, <2>1, <2>2 DEF SetsOneField
<1> QED
  BY <1>6, <1>7

\* Wherever the mouse button went down, its release over an entry sets no other
\* field than that of the entry, and a click on one entry sets it, but for the days
\* that the months hide (Application.cpp:482-520).
THEOREM ReleaseSets == Spec => ReleaseSetsOneField
<1>1. IInv /\ [Next]_vars => [\A w \in Entries : MouseUp(w) => SetsOneField(w)]_vars
  BY ReleaseStep
<1>2. Spec => [][\A w \in Entries : MouseUp(w) => SetsOneField(w)]_vars
  BY <1>1, Invariant, PTL DEF Spec
<1> QED
  BY <1>2 DEF ReleaseSetsOneField, SetsOneField

-----------------------------------------------------------------------------
(* The file.                                                                 *)

\* Between the opening of the file and the end of the write the answer on hand is
\* the one that is due; a process that ended there has cut the write.
FileInv ==
    /\ FileHasLastAnswer
    /\ at = "write" => due = Whole(answer) /\ (~running => cut)

\* The steps that neither open nor write the file, nor end the process.
LEMMA FileUntouched ==
    ASSUME FileInv, UNCHANGED saved,
           \/ UNCHANGED <<at, answer, running>>
           \/ Idle /\ at' # "write"
           \/ at = "open" /\ at' = "pane"
           \/ ~running /\ at' = "pane"
    PROVE  FileInv'
BY DEF FileInv, FileHasLastAnswer, Idle, saved, Whole, Part, Empty

LEMMA StepFileInv == FileInv /\ [Next]_vars => FileInv'
<1> SUFFICES ASSUME FileInv, [Next]_vars PROVE FileInv'
  OBVIOUS
<1>1. CASE \/ UNCHANGED vars \/ ClosePopup \/ MouseUpElsewhere
           \/ \E c \in Calendars : OpenPopup(c)
           \/ \E w \in Entries : MouseDown(w) \/ MouseUp(w)
           \/ \E n \in Tried : NavPress(n)
  <2>1. UNCHANGED saved /\ UNCHANGED <<at, answer, running>>
    BY <1>1 DEF vars, OpenPopup, ClosePopup, MouseDown, MouseUp, MouseUpElsewhere, NavPress
  <2> QED
    BY <2>1, FileUntouched
<1>2. ASSUME NEW t, NEW a, Search(t, a) PROVE FileInv'
  <2>1. Idle /\ at' # "write" /\ UNCHANGED saved
    BY <1>2 DEF Search, Idle
  <2> QED
    BY <2>1, FileUntouched
<1>3. CASE OpenFile
  BY <1>3 DEF OpenFile, FileInv, FileHasLastAnswer, Empty, Whole
<1>4. CASE OpenFileFails \/ Launch
  <2>1. UNCHANGED saved /\ (at = "open" \/ ~running) /\ at' = "pane"
    BY <1>4 DEF OpenFileFails, Launch
  <2> QED
    BY <2>1, FileUntouched
<1>5. CASE WriteFile
  BY <1>5 DEF WriteFile, FileInv, FileHasLastAnswer, Whole
<1>6. CASE WriteFileFails
  <2>1. due.of = answer /\ due' = due
    BY <1>6 DEF WriteFileFails, FileInv, Whole
  <2> QED
    BY <1>6, <2>1 DEF WriteFileFails, FileInv, FileHasLastAnswer
<1>7. CASE Ends
  <2>1. CASE at = "write"
    <3>1. due = Whole(answer) /\ due.of = answer /\ due' = due
      BY <1>7, <2>1 DEF Ends, FileInv, Whole
    <3> QED
      BY <1>7, <2>1, <3>1 DEF Ends, FileInv, FileHasLastAnswer
  <2>2. CASE at # "write"
    BY <1>7, <2>2 DEF Ends, FileInv, FileHasLastAnswer
  <2> QED
    BY <2>1, <2>2
<1> QED
  BY <1>1, <1>2, <1>3, <1>4, <1>5, <1>6, <1>7 DEF Next

\* The file holds the last answer it was opened for, or what of it a write that was
\* cut short left, for all answers and all sequences of searches that fail, end the
\* program or are cut short (Application.cpp:594-602).
THEOREM FileKept == Spec => []FileHasLastAnswer
<1>1. Init => FileInv
  BY DEF Init, FileInv, FileHasLastAnswer
<1>2. FileInv => FileHasLastAnswer
  BY DEF FileInv
<1> QED
  BY <1>1, <1>2, StepFileInv, PTL DEF Spec
=============================================================================
