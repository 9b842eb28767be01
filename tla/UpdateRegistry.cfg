SPECIFICATION Updates
CONSTANTS
    Ids = {8, 9, 10, 100}
INVARIANTS
    AbstractionExact
PROPERTIES
    FirstRecordStays
