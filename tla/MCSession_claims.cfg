\* Two claims, each violated: keep one line to see its trace.
CONSTANTS
    Tasks = {t1, t2}
    Timer = timer
    Phones = {t2}
    Files = {f1}
    MaxNames = 2
    MaxErrors = 1
    MaxCrashes = 1
    MaxEdits = 3
    MaxHistory = 3
    Part = {"queue", "deletes"}
SPECIFICATION MCSpec
INVARIANT EditTakesEffect
INVARIANT SelectionIsFiles
CHECK_DEADLOCK FALSE
