CONSTANTS
    Tools = {}
    Results = {}
    FailedResults = {}
    None = None
    MaxIterations = 0
    RepeatThreshold = 2
    RepeatWindow = 2
    MaxErrors = 2
    MaxSubmitted = 1
SPECIFICATION FairSpec
PROPERTY
ShutdownReturns
