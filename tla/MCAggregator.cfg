\* Safety of the aggregator: two SMTC pool threads, the audio worker and the
\* window thread.
CONSTANTS
    smtc1 = smtc1
    smtc2 = smtc2
    worker = worker
    window = window
    Names = {"artist", "song", "album"}
    Empty = ""
    SnapThreshold = 1
    SmtcThreads = {smtc1, smtc2}
    AudioWorker = worker
    WindowThread = window
    SmtcReports <- MCPartialReports
    WindowTitles <- MCTitles
    AudioSamples <- MCSamples
    BootClock = 10
    MaxClock = 12
    MaxPosition = 3
    MaxChanges = 2
SYMMETRY Symmetry
SPECIFICATION Spec
INVARIANTS TypeOK SmoothIsRawUnlessPlaying NoUptimeShown AdEdgesBalance
PROPERTIES ReportHonoured
