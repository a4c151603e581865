SPECIFICATION Spec
CONSTANTS
    Tried = {2, 4, 29, 30, 31, 2000, 2100}
    NoWidget = NoWidget
    Offers = {o1, o2}
CONSTRAINT DatesOrAnswers
INVARIANT FileHasLastAnswer
PROPERTIES DayPicksAreValid ReleaseSetsOneField
