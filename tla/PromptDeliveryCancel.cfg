SPECIFICATION Spec
CONSTANTS
    MaxPrompts = 2
    MaxAttempts = 2
    MaxFlushes = 2
    Plans <- CancelPlans
INVARIANT CancelHitsItsTurn
CHECK_DEADLOCK FALSE
