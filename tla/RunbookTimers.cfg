SPECIFICATION TimersSpec
CONSTANTS
    e1 = e1
    e2 = e2
    e3 = e3
    s1 = s1
    s2 = s2
    s3 = s3
    s4 = s4
    r1 = r1
    w1 = w1
    w2 = w2
    Execution = {e1, e2, e3}
    Row = {s1, s2, s3, s4}
    Worker = {w1}
    NoWorker = NoWorker
    NoRow = NoRow
    Def <- TimersDef
    DryRun = {e3}
    Concurrency = 2
    MaxOperatorRetries = 1
    OpenRowsBlockExec = TRUE
PROPERTIES
    EventuallySettles
    WaitsEnd
    StepsComeToRest
CHECK_DEADLOCK FALSE
