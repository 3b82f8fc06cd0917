SPECIFICATION FairSpec
CONSTANTS
    Syncs = {"syncing"}
    Walks = {"walking"}
    Checks = {"checking"}
    Setting <- MCSetting
    HeadSetting <- MCHeadSetting
    NoPage = NoPage
    Queued = Queued
    Unread = Unread
PROPERTIES
    MirroringEnds
CHECK_DEADLOCK FALSE
