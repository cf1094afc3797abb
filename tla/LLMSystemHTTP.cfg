\* Two conversations of up to four turns; the window holds two calls, so that it
\* is trimmed.  Two equal calls in it, or two failures in a row, stop a
\* conversation.
CONSTANTS
    Tools = {t}
    Results = {ok, bad}
    FailedResults = {bad}
    None = None
    MaxIterations = 4
    RepeatThreshold = 2
    RepeatWindow = 2
    MaxErrors = 2
    MaxSubmitted = 2
SPECIFICATION FairSpec
INVARIANTS
    TypeOK
    OneCarrier
    StopsExactlyWhenStuck
PROPERTIES
    ImplementsLedger
    AnsweredInTheEnd
