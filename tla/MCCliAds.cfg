\* events in front of a Spotify whose window announces an advertisement.
CONSTANTS
    pidA = pidA
    NoPid = NoPid
    Pids = {pidA}
    Names <- MCNames
    Empty <- MCEmpty
    Invocations <- MCEvents
    Millis <- MCMillis
    DefaultWait = 0
    Levels <- MCLevels
    Times <- MCTimes
    Spelling <- MCSpelling
    Titles <- MCAdTitles
    TitleSize = 13
    Reports <- MCReports
    MeterReads = {"low"}
    Throttle = 0
    BelowToIdle = 1
    TickEvery = 1
    MaxChanges = 1
CONSTRAINT Answers
SPECIFICATION FairSpec
PROPERTY AdsTold
CHECK_DEADLOCK FALSE
