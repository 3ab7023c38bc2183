SPECIFICATION HistorySpec
CONSTANTS
    HALF = 3
    RESET_PERIOD = 4
INVARIANTS TypeOK PeriodIsLoadPlusOne
PROPERTIES ImplementsInterface KeepsExpiring
