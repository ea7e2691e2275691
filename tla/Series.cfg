CONSTANTS
    Values = {1, 2}
    NotFinite = 99
    Longest = 7
    Limits = {1, 2, 3, 4, 5}
SPECIFICATION Spec
INVARIANTS PicksAscend EndsArePicked GapsAreEven LegendIsOfTheChart
CHECK_DEADLOCK FALSE
