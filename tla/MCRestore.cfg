\* A restore interrupted and rolled back, of an archive of any project state.
SPECIFICATION FairRestoreSpec
CONSTANTS
    Task = {t1}
    Client = {k1}
    NoArchive = NoArchive
    MaxRestored = 3
PROPERTIES
    RestoresFinish
CHECK_DEADLOCK FALSE
