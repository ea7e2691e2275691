CONSTANTS
    Alerts <- FiveAlerts
    SeverityLabel <- FiveLabels
    StartsAt <- FiveStarts
    AlertSlots = 2
SPECIFICATION AlertSpec
INVARIANTS TakeoverShowsItsAlert
PROPERTIES ListIsWhatFires
