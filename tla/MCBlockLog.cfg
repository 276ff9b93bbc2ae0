CONSTANTS
    Base = 2
    Record <- MCRecord
    Compaction <- MCCompaction
    MaxBytes = 8
    MaxFaults = 3
    NONE = NONE
SPECIFICATION Spec
INVARIANT AckedReadable
PROPERTY LogIsAtomic
CHECK_DEADLOCK FALSE
