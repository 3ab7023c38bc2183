CONSTANTS
    Slaves <- MCSlaves
    CODE = {"SRAM", "debug_mem"}
    SHARED = {"SRAM", "debug_mem"}
    WAIT <- MCWait
    INSTRUCTIONS <- MCInstructions
    STALL = 2
SPECIFICATION Spec
INVARIANTS TypeOK OneMasterAtATime AnsweredByItsSlave
PROPERTIES ImplementsInstructionMachine
