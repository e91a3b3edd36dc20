SPECIFICATION Spec
CONSTANTS
    Threads = {t1, t2, t3}
    Calls <- MCCalls
    Classes = {"int", "real", "cmplx4", "extended", "quad"}
    Modes = {1, 2}
    Allowed <- MCAllowed
    M = 4
    MaxCalls = 1
    NoValue = NoValue
    NoThread = NoThread
PROPERTY ImplementsMemory
CHECK_DEADLOCK FALSE
