SPECIFICATION Spec
CONSTANTS
    MaxAppends = 4
    MaxFaults = 2
    Long = {3}
INVARIANTS TypeOK IndexExact  JournalComplete 
CHECK_DEADLOCK FALSE
