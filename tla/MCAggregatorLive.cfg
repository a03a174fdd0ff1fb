CONSTANTS
    smtc1 = smtc1
    smtc2 = smtc2
    worker = worker
    window = window
    Names = {"artist", "song", "album"}
    Empty = ""
    SnapThreshold = 1
    SmtcThreads = {smtc1, smtc2}
    AudioWorker = worker
    WindowThread = window
    SmtcReports <- MCReports
    WindowTitles <- MCTitles
    AudioSamples <- MCSamples
    BootClock = 10
    MaxClock = 10
    MaxPosition = 3
    MaxChanges = 2
SPECIFICATION FairSpec
PROPERTIES LatestConverges FeedSpec
