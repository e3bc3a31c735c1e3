SPECIFICATION Spec
CONSTANTS
    e1 = e1
    e2 = e2
    e3 = e3
    s1 = s1
    s2 = s2
    s3 = s3
    s4 = s4
    r1 = r1
    w1 = w1
    w2 = w2
    Execution = {e1}
    Row = {s1}
    Worker = {w1, w2}
    NoWorker = NoWorker
    NoRow = NoRow
    Def <- ReplayDef
    DryRun = {}
    Concurrency = 2
    MaxOperatorRetries = 1
    OpenRowsBlockExec = FALSE
SYMMETRY WorkerSymmetry
PROPERTIES
    NoAutomaticReplay
CHECK_DEADLOCK FALSE
