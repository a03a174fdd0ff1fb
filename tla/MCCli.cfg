\* One invocation of the tool, any of the commands, in front of a Spotify that
\* changes once.
CONSTANTS
    pidA = pidA
    NoPid = NoPid
    Pids = {pidA}
    Names <- MCNames
    Empty <- MCEmpty
    Invocations <- MCInvocations
    Millis <- MCMillis
    DefaultWait = 0
    Levels <- MCLevels
    Times <- MCTimes
    Spelling <- MCSpelling
    Titles <- MCTitles
    TitleSize = 13
    Reports <- MCReports
    MeterReads = {"low"}
    Throttle = 0
    BelowToIdle = 1
    TickEvery = 1
    MaxChanges = 1
CONSTRAINT Answers
SPECIFICATION FairSpec
INVARIANTS TypeOK ExitTellsDelivery WatchShowsLatest SearchFindsQuery NowPlayingTellsTrack
PROPERTY Terminates
CHECK_DEADLOCK FALSE
