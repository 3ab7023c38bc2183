SPECIFICATION HistorySpec
CONSTANTS
    HORAS = 2
    MINUTOS = 1
    SEGUNDOS = 3
    ALARM_SECONDS = 2
    CLOCK_FREQUENCY = 8
    PWM_FREQUENCY = 2
    MICROSECONDS = 12
    KEYS = {"horas", "alarma"}
INVARIANTS DismissedPromptly
PROPERTIES OnePressOneStep ImplementsDevice LoopAlive AlarmRings
