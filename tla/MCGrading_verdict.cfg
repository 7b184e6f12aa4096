\* Every quiz of up to 150 questions, every count and every passing score.
\* A run ends with the verdict.
SPECIFICATION Spec
CONSTANTS
    MaxQuestions = 150
    MaxRight = 160
    Bars <- EveryPercentage
CHECK_DEADLOCK FALSE
INVARIANTS
    VerdictFollowsShare
