CONSTANTS
    N = 2
    MaxLines = 3
    PipeCap = 1
    MaxScanErrs = 0
    Nil = Nil
    Err = Err
SPECIFICATION Spec
PROPERTY Terminates
CHECK_DEADLOCK FALSE
