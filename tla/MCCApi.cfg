\* Two threads of the application, a thread of the library and two signals.
\* A thread that blocks itself may bring all the others to a stop.
CONSTANTS
    app = app
    ui = ui
    library = library
    nobody = nobody
    Callers = {app, ui}
    Emitter = library
    Sigs = {"OnStateChanged", "OnClosed"}
    ReplaySig = "OnStateChanged"
    Nobody = nobody
    MaxCalls = 3
SPECIFICATION FairSpec
INVARIANTS TypeOK TokensMatchSlots SlotsHaveShims HoldersRun
PROPERTIES CallsReturn
CHECK_DEADLOCK FALSE
