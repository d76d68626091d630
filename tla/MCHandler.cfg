CONSTANTS
    CleanupMayFail = TRUE
    BadRedirectAttrs = TRUE
SPECIFICATION Spec
INVARIANT CleanupBeforeSuccess EveryRequestAnswered
CHECK_DEADLOCK FALSE
