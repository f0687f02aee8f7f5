CONSTANTS
    Main = main
    Threads = {main, w1, w2}
    Ids = {a, b}
    Leftover = {a}
    NoThread = NoThread
    NoAnswer = NoAnswer
    NoBody = NoBody
    MaxAttempts = 2
    RetryOn <- MCRetryOn
    CallsPerLoop = 1
    MaxLate = 1
SPECIFICATION FairSpec
INVARIANTS
    PlacedAtMostOnce
    ResultTrue
    AnswerFresh

    
CHECK_DEADLOCK FALSE
