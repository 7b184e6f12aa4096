\* A teacher and an administrator, two quizzes, two concurrent requests.
SPECIFICATION Spec
CONSTANTS
    Users = {u1, u2}
    Admins = {u2}
    Lessons = {l1}
    Quizzes = {q1, q2}
    Questions = {k1, k2}
    Attempts = {a1}
    Requests = {r1, r2}
    PassingScores = {0, 50}
    MaxAnswers = 2
    None = None
SYMMETRY Symmetry
INVARIANTS
    TypeOK
    NoOrphans
    GradedFairly
    ScoreExplained
PROPERTIES
    AttemptsOutliveQuestions
    OnlyEditorsEditQuiz
CHECK_DEADLOCK FALSE
