SPECIFICATION TrackerSpec
CONSTANTS
    Workers = {w1, w2}
    MaxAttempts = 3
    EntryTTL = 1
    TrackerMaxClock = 2
CHECK_DEADLOCK FALSE
INVARIANT PermanentStays
