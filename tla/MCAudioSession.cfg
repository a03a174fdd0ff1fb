\* Spotify runs, restarts as another process or makes its session anew; three
\* low polls are silence, a position tick is due every second poll.
CONSTANTS
    pidA = pidA
    pidB = pidB
    soft = soft
    NoPid = NoPid
    Pids = {pidA, pidB}
    Volumes = {soft}
    NoVolume = NoVolume
    Throttle = 0
    BelowToIdle = 3
    TickEvery = 2
    MaxChanges = 2
SPECIFICATION MCSpec
INVARIANTS TypeOK EdgesTellState StopIsFinal WokenUp
PROPERTIES DebouncedSilence StopReturns SessionReported
