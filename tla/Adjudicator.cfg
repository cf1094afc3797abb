CONSTANTS
    Questions = {q1, q2}
    Attempts = 3
    Tools = {}
    Results = {}
    FailedResults = {}
    None = None
    MaxIterations = 0
    RepeatThreshold = 2
    RepeatWindow = 2
    MaxErrors = 2
    MaxSubmitted = 2
SPECIFICATION AdjudicatorSpec
INVARIANT
AnswersTheQuestion
