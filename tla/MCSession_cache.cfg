CONSTANTS
    Tasks = {t1, t2}
    Timer = timer
    Phones = {t2}
    Files = {f1}
    MaxNames = 2
    MaxErrors = 1
    MaxCrashes = 1
    MaxEdits = 3
    MaxHistory = 3
    Part = {"fields", "queue", "flush", "deletes"}
SPECIFICATION MCSpec
INVARIANTS HistoryTypeOK CleanIsStored RenameIsDurable DeletedStaysDeleted AcknowledgedIsKept SelectionFollowsHistory
PROPERTY NoBlindOverwrite
CHECK_DEADLOCK FALSE
