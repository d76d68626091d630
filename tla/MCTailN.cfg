CONSTANTS
    N = 2
    MaxLines = 3
    PipeCap = 1
    MaxScanErrs = 1
    Nil = Nil
    Err = Err
SPECIFICATION Spec
INVARIANT TailIsLastN
PROPERTY TerminatesWhenStderrFits
CHECK_DEADLOCK FALSE
