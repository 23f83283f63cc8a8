CONSTANTS
    Release <- Commits
    SchemaOf <- Schemas
    Faults = {"step", "late", "crash"}
    Recovery = {"restart"}
SPECIFICATION Spec
INVARIANTS TypeOK Serving SchemaFits StateAgrees
PROPERTIES NothingWrittenOff BackupComplete
