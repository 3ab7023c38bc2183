CONSTANTS
    DEPTH = 2
    CHARS = 4
    COUNT = 3
SPECIFICATION Spec
INVARIANTS TypeOK HostHearsEverything ProgramReadsEverything NeverOverflows
PROPERTIES WritesReturn
