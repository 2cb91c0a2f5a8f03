\* The compensation of an upload, with a deletion and reconciliation around it.
SPECIFICATION UploadsSpec
CONSTANTS
    Upload = {u1, u2}
    Removal = {d1}
PROPERTIES
    CompensationLeavesCleanState
CHECK_DEADLOCK FALSE
