SPECIFICATION Spec
CONSTANTS
    HORAS = 1
    MINUTOS = 2
    SEGUNDOS = 3
    RESET_PERIOD = 7
    SECOND = 8
    ALARM_TURNS = 2
    buzzer_pwm_half_period = 2
    SOUND_TICKS = 7
    KEYS = {"segundos", "alarma"}
INVARIANTS TypeOK LightIsAlarm WaitsUntilAlarm SoundMovesTime
PROPERTY SecondsRunOut
