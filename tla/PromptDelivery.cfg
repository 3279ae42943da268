SPECIFICATION FairSpec
CONSTANTS
    MaxPrompts = 3
    MaxAttempts = 2
    MaxFlushes = 2
    Plans <- AllPlans
INVARIANTS
    TypeOK
    ServedOnceInOrder
    AttributedToOwnTurn
    TurnDiscipline
PROPERTIES
    OutboxSettles
    EveryPromptIsAnswered
CHECK_DEADLOCK FALSE
