CONSTANTS
    CleanupMayFail = TRUE
    BadRedirectAttrs = FALSE
SPECIFICATION Spec
INVARIANT ErrorIsFinal
CHECK_DEADLOCK FALSE
