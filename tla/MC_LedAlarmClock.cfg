SPECIFICATION Spec
CONSTANTS
    HORAS = 1
    MINUTOS = 2
    SEGUNDOS = 3
    RESET_PERIOD = 7
    SECOND = 7
    ALARM_TURNS = 3
    KEYS = {"segundos", "alarma"}
INVARIANTS TypeOK LightIsAlarm
PROPERTIES EveryArrivalRings AlarmEnds
