SPECIFICATION MCSpec
CONSTANTS
    a = a
    b = b
    c = c
    StartDay = 3
    Name = {a, b, c}
    DayOf <- DaysOf
    RecentDays = 1
    ScanDays = 2
    RetentionDays = 4
    MaxFilesPerRun = 2
    MaxDay = 6
    MaxStops = 1
INVARIANTS
    TypeOK
    VersionMatchesShape
    OriginIsFirstDay
    SeededNeverResent
    NothingAgesOut
PROPERTIES
    RefusedUntouched
    SentWithinLimits
CHECK_DEADLOCK FALSE
