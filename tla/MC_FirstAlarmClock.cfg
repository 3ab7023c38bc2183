SPECIFICATION Spec
CONSTANTS
    HORAS = 1
    MINUTOS = 2
    SEGUNDOS = 3
    RESET_PERIOD = 7
    SECOND = 7
    KEYS = {"minutos", "alarma"}
INVARIANTS FrozenOnlyAtStart
PROPERTY AlarmRings
