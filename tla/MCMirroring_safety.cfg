SPECIFICATION Spec
CONSTANTS
    Syncs = {"deleting", "moving", "dry", "survey"}
    Walks = {"parallel", "twins"}
    Checks = {"scaling", "plain"}
    Setting <- MCSetting
    HeadSetting <- MCHeadSetting
    NoPage = NoPage
    Queued = Queued
    Unread = Unread
INVARIANTS
    CompleteMeansRead
    RemovedWasAbsent
    SuccessMirrors
    EveryFileDecidedOnce
PROPERTIES
    TreeKept
    WalksBreadthFirst
CHECK_DEADLOCK FALSE
