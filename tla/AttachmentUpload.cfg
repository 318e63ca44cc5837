SPECIFICATION Spec
CONSTANTS
    Uploads <- MCUploads
    Role <- MCRole
CHECK_DEADLOCK FALSE
INVARIANTS
    RowHasFile
    RefusedLeavesNothing
PROPERTIES
    LateUploadsDry
