SPECIFICATION Spec
CONSTANTS
    Tried = {4, 20}
    NoWidget = NoWidget
    Offers = {}
INVARIANT SearchAsksForTheDates
