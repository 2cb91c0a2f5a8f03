\* A rollback while another client's finalization awaits its digest.
SPECIFICATION FairRestoreSpec
CONSTANTS
    Task = {t1}
    Client = {k1, k2}
    NoArchive = NoArchive
    MaxRestored = 3
PROPERTIES
    RestoredProjectsAreWhole
CHECK_DEADLOCK FALSE
