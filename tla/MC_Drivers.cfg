CONSTANTS
    HORAS = 1
    MINUTOS = 2
    SEGUNDOS = 11
    READS = 3
    HALF = 3
    KEYS = {"segundos", "alarma"}
    LOADS = {5, 7}
    RESET_PERIOD = 4
SPECIFICATION HistorySpec
INVARIANTS TypeOK OldOrNew
PROPERTIES ImplementsCalls GivesUpOnlyIfBouncing CallsReturn
