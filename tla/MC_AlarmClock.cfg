SPECIFICATION Spec
CONSTANTS
    HORAS = 2
    MINUTOS = 2
    SEGUNDOS = 3
    ALARM_SECONDS = 2
    CLOCK_FREQUENCY = 8
    PWM_FREQUENCY = 2
    MICROSECONDS = 12
    KEYS = {"minutos", "alarma"}
INVARIANTS TypeOK SilentAtRest DisplayShowsTime WaitsOnItsTimer SoundWithLight
PROPERTY CountsForward
