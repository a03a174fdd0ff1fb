---------------------------- MODULE AudioSession ----------------------------
(***************************************************************************)
(* AudioSession: a worker thread polls the audio session of Spotify's      *)
(* process, rebinds it when the process changes, decides with hysteresis   *)
(* whether Spotify is audible, hands every measurement to the aggregator   *)
(* and signals the edges of audibility.  Start and Stop are called by the  *)
(* client's owner; setters by any thread.                                  *)
(*                                                                         *)
(* A peak is loud (at least kThreshold) or low.  Time since the last       *)
(* attempt to resolve is counted in units of which Throttle make up half a *)
(* second.  A session is known by its process; one that Windows has        *)
(* dropped while the worker holds it is expired, and what its interfaces   *)
(* still answer is open, also when the process has a new one.              *)
(***************************************************************************)
EXTENDS Integers

CONSTANTS
    Pids,           \* process ids Spotify may have
    NoPid,          \* no window, no process, no session
    Volumes,        \* volumes a session may have
    NoVolume,       \* -1, a volume that was not read
    Throttle,       \* Resolve is attempted less often than this
    BelowToIdle,    \* kBelowToIdle, low polls until silence
    TickEvery,      \* polls per position tick
    MaxChanges      \* bound on the changes of the environment

ASSUME AudioSessionAssumption ==
    /\ NoPid \notin Pids /\ NoVolume \notin Volumes
    /\ Throttle \in Nat
    /\ BelowToIdle \in Nat \ {0} /\ TickEvery \in Nat \ {0}
    /\ MaxChanges \in Nat

VARIABLES
    processId,      \* impl->processId
    streams,        \* the processes that have an audio session
    setting,        \* what the mixer holds for each process
    changes,        \* how often the environment has changed
    running,
    owner,          \* where the thread that starts and stops is
    pc,             \* where the worker is
    pid,            \* the worker's copy of processId
    bound,          \* the process of volume, meter and control; lastBoundPid
    expired,        \* Windows has dropped the session they belong to
    sinceAttempt,   \* since lastResolveAttempt
    lastPeak, audibleState, belowCount, positionTick,
    poll,           \* what the worker has measured: its locals
    applied,        \* the last fragment handed to ApplyAudio
    heard,          \* the last OnAudibleChanged since Start
    quiet           \* polls of a session since the last loud one (a reference count)

environment == <<processId, streams, setting, changes>>
control == <<running, owner>>
session == <<pid, bound, expired, sinceAttempt>>
hysteresis == <<lastPeak, audibleState, belowCount, quiet>>
reports == <<applied, heard>>
vars == <<environment, control, pc, session, hysteresis, positionTick, poll, reports>>

Settings == [vol : Volumes, muted : BOOLEAN]
Readings == [vol : Volumes \cup {NoVolume}, muted : BOOLEAN]
Unread == [vol |-> NoVolume, muted |-> FALSE]

HasSession == bound # NoPid

NoPoll == [setting |-> Unread, resolved |-> FALSE, edge |-> FALSE]
NothingApplied == [setting |-> Unread, audible |-> FALSE, resolved |-> FALSE]

\* The client looks for the window before it starts the session.
Init ==
    /\ processId \in Pids \cup {NoPid} /\ streams \in SUBSET Pids /\ setting \in [Pids -> Settings]
    /\ changes = 0
    /\ running = FALSE /\ owner = "stopped"
    /\ pc = "ended" /\ pid = NoPid /\ bound = NoPid /\ expired = FALSE
    /\ sinceAttempt = Throttle + 1
    /\ lastPeak = "none" /\ audibleState = FALSE /\ belowCount = 0 /\ quiet = 0
    /\ positionTick = 0 /\ poll = NoPoll
    /\ applied = NothingApplied /\ heard = FALSE

-----------------------------------------------------------------------------
(* The worker: one poll is resolve, measure, apply, notify, tick, wait.    *)

Exit ==
    /\ pc = "loop" /\ ~running
    /\ bound' = NoPid /\ expired' = FALSE
    /\ pc' = "ended"
    /\ UNCHANGED <<environment, control, pid, sinceAttempt, hysteresis, positionTick,
                   poll, reports>>

BeginPoll ==
    /\ pc = "loop" /\ running
    /\ pid' = processId
    /\ pc' = "resolve"
    /\ UNCHANGED <<environment, control, bound, expired, sinceAttempt, hysteresis,
                   positionTick, poll, reports>>

Release ==
    /\ pc = "resolve" /\ pid = NoPid
    /\ bound' = NoPid /\ expired' = FALSE
    /\ pc' = "measure"
    /\ UNCHANGED <<environment, control, pid, sinceAttempt, hysteresis, positionTick,
                   poll, reports>>

\* Mutant: only a source without a session needs one.
DueUnbound == bound = NoPid /\ sinceAttempt > Throttle

\* A session that is bound is never looked for again.
Due == bound # pid /\ sinceAttempt > Throttle

KeepSession ==
    /\ pc = "resolve" /\ pid # NoPid /\ ~Due
    /\ pc' = "measure"
    /\ UNCHANGED <<environment, control, session, hysteresis, positionTick, poll, reports>>

\* Resolve finds the process's session, if it has one.
Resolve ==
    /\ pc = "resolve" /\ pid # NoPid /\ Due
    /\ sinceAttempt' = 0
    /\ IF pid \in streams THEN bound' = pid /\ expired' = FALSE
       ELSE UNCHANGED <<bound, expired>>
    /\ pc' = "measure"
    /\ UNCHANGED <<environment, control, pid, hysteresis, positionTick, poll, reports>>

\* Any of the COM calls may fail; the binding stays as it is.
ResolveFails ==
    /\ pc = "resolve" /\ pid # NoPid /\ Due
    /\ changes < MaxChanges
    /\ changes' = changes + 1
    /\ sinceAttempt' = 0
    /\ pc' = "measure"
    /\ UNCHANGED <<processId, streams, setting, control, pid, bound, expired, hysteresis,
                   positionTick, poll, reports>>

\* Mutant: low polls are counted while silent, too.
HysteresisCountsSilence(resolved, peak) ==
    \/ /\ resolved /\ peak = "loud"
       /\ audibleState' = TRUE /\ belowCount' = 0
    \/ /\ resolved /\ peak # "loud"
       /\ belowCount' = belowCount + 1
       /\ audibleState' = (audibleState /\ belowCount' < BelowToIdle)
    \/ /\ ~resolved
       /\ audibleState' = FALSE
       /\ belowCount' = IF audibleState THEN 0 ELSE belowCount

\* Mutant: a loud poll does not clear the count of low ones.
HysteresisKeepsCount(resolved, peak) ==
    \/ /\ resolved /\ peak = "loud"
       /\ audibleState' = TRUE /\ belowCount' = belowCount
    \/ /\ resolved /\ peak # "loud"
       /\ belowCount' = IF audibleState THEN belowCount + 1 ELSE belowCount
       /\ audibleState' = (audibleState /\ belowCount' < BelowToIdle)
    \/ /\ ~resolved
       /\ audibleState' = FALSE
       /\ belowCount' = IF audibleState THEN 0 ELSE belowCount

\* A loud poll makes Spotify audible at once; BelowToIdle low polls, or the
\* loss of the session, make it silent.
Hysteresis(resolved, peak) ==
    \/ /\ resolved /\ peak = "loud"
       /\ audibleState' = TRUE /\ belowCount' = 0
    \/ /\ resolved /\ peak # "loud"
       /\ belowCount' = IF audibleState THEN belowCount + 1 ELSE belowCount
       /\ audibleState' = (audibleState /\ belowCount' < BelowToIdle)
    \/ /\ ~resolved
       /\ audibleState' = FALSE
       /\ belowCount' = IF audibleState THEN 0 ELSE belowCount

\* The worker has read this setting and this peak.  A peak that was not read
\* is below the threshold, too.
Measures(s, peak) ==
    /\ pc = "measure"
    /\ lastPeak' = peak
    /\ Hysteresis(bound # NoPid, peak)
    /\ quiet' = IF bound = NoPid \/ peak = "loud" THEN 0
                ELSE IF quiet < BelowToIdle THEN quiet + 1 ELSE quiet
    /\ poll' = [setting  |-> s,
                resolved |-> bound # NoPid,
                edge     |-> audibleState' # audibleState]
    /\ pc' = "apply"
    /\ UNCHANGED <<processId, streams, setting, control, session, positionTick, reports>>

MeasureNothing == bound = NoPid /\ Measures(Unread, "none") /\ changes' = changes

MeasureSession(peak) ==
    /\ HasSession /\ ~expired
    /\ Measures(setting[bound], peak)
    /\ changes' = changes

\* GetMasterVolume, GetMute and GetPeakValue may each fail.
MeasurePartly(s, peak) ==
    /\ HasSession /\ ~expired
    /\ changes < MaxChanges /\ changes' = changes + 1
    /\ s.vol \in {setting[bound].vol, NoVolume} /\ s.muted \in {setting[bound].muted, FALSE}
    /\ s # setting[bound] \/ peak = "none"
    /\ Measures(s, peak)

\* What a session that is no more answers, if it answers.
MeasureExpired(s, peak) ==
    /\ HasSession /\ expired
    /\ Measures(s, peak)
    /\ changes' = changes

\* Mutant: the loss of the session is no edge.
ApplyLossSilently ==
    /\ pc = "apply"
    /\ applied' = [setting |-> poll.setting, audible |-> audibleState,
                   resolved |-> poll.resolved]
    /\ pc' = IF poll.edge /\ poll.resolved THEN "edge" ELSE "tick"
    /\ UNCHANGED <<environment, control, session, hysteresis, positionTick, poll, heard>>

Apply ==
    /\ pc = "apply"
    /\ applied' = [setting |-> poll.setting, audible |-> audibleState,
                   resolved |-> poll.resolved]
    /\ pc' = IF poll.edge THEN "edge" ELSE "tick"
    /\ UNCHANGED <<environment, control, session, hysteresis, positionTick, poll, heard>>

NotifyAudible ==
    /\ pc = "edge"
    /\ heard' = audibleState
    /\ pc' = "tick"
    /\ UNCHANGED <<environment, control, session, hysteresis, positionTick, poll, applied>>

\* Every TickEvery-th poll calls MaybeFirePositionTick, see Aggregator.
CountTick ==
    /\ pc = "tick"
    /\ positionTick' = (positionTick + 1) % TickEvery
    /\ poll' = NoPoll
    /\ pc' = "wait"
    /\ UNCHANGED <<environment, control, session, hysteresis, reports>>

\* Mutant: a wait without a predicate.
SleepUntested ==
    /\ pc = "wait"
    /\ pc' = "asleep"
    /\ UNCHANGED <<environment, control, session, hysteresis, positionTick, poll, reports>>

\* The predicate is tested under cvMu, which is given up by going to sleep.
Sleep ==
    /\ pc = "wait"
    /\ pc' = IF running THEN "asleep" ELSE "loop"
    /\ UNCHANGED <<environment, control, session, hysteresis, positionTick, poll, reports>>

TimeOut ==
    /\ pc = "asleep"
    /\ pc' = "loop"
    /\ UNCHANGED <<environment, control, session, hysteresis, positionTick, poll, reports>>

-----------------------------------------------------------------------------
(* Start and Stop.                                                         *)

\* SpotifyClient makes a new AudioSession for every Start.
Start ==
    /\ owner = "stopped"
    /\ running' = TRUE /\ owner' = "started"
    /\ pc' = "loop" /\ pid' = NoPid /\ bound' = NoPid /\ expired' = FALSE
    /\ sinceAttempt' = Throttle + 1
    /\ lastPeak' = "none" /\ audibleState' = FALSE /\ belowCount' = 0 /\ quiet' = 0
    /\ positionTick' = 0
    /\ heard' = FALSE
    /\ UNCHANGED <<environment, poll, applied>>

BeginStop ==
    /\ owner = "started"
    /\ running' = FALSE
    /\ owner' = "notify"
    /\ UNCHANGED <<environment, pc, session, hysteresis, positionTick, poll, reports>>

\* Mutant: nobody is woken.
NotifyNobody ==
    /\ owner = "notify"
    /\ owner' = "join"
    /\ UNCHANGED <<environment, running, pc, session, hysteresis, positionTick, poll,
                   reports>>

Notify ==
    /\ owner = "notify"
    /\ owner' = "join"
    /\ pc' = IF pc = "asleep" THEN "loop" ELSE pc
    /\ UNCHANGED <<environment, running, session, hysteresis, positionTick, poll, reports>>

\* Mutant: Stop does not wait for the worker.
DetachWorker ==
    /\ owner = "join"
    /\ owner' = "stopped"
    /\ UNCHANGED <<environment, running, pc, session, hysteresis, positionTick, poll,
                   reports>>

Join ==
    /\ owner = "join" /\ pc = "ended"
    /\ owner' = "stopped"
    /\ UNCHANGED <<environment, running, pc, session, hysteresis, positionTick, poll,
                   reports>>

-----------------------------------------------------------------------------
(* Other threads, Windows and time.                                        *)

\* SetVolume and SetMuted: refused without a session, lost in one that is no more.
Adjust(s) ==
    /\ HasSession /\ ~expired
    /\ s.vol = setting[bound].vol \/ s.muted = setting[bound].muted
    /\ changes < MaxChanges
    /\ changes' = changes + 1
    /\ setting' = [setting EXCEPT ![bound] = s]
    /\ UNCHANGED <<processId, streams, control, pc, session, hysteresis, positionTick,
                   poll, reports>>

\* SetWindow: Spotify's window appears, disappears or is another process's.
SetWindow(p) ==
    /\ p # processId
    /\ changes < MaxChanges
    /\ changes' = changes + 1
    /\ processId' = p
    /\ UNCHANGED <<streams, setting, control, pc, session, hysteresis, positionTick, poll,
                   reports>>

\* Windows creates a session on the first sound and drops it with its process.
StreamChanges(p) ==
    /\ changes < MaxChanges
    /\ changes' = changes + 1
    /\ streams' = IF p \in streams THEN streams \ {p} ELSE streams \cup {p}
    /\ expired' = (expired \/ (p \in streams /\ p = bound))
    /\ UNCHANGED <<processId, setting, control, pc, pid, bound, sinceAttempt, hysteresis,
                   positionTick, poll, reports>>

TimePasses ==
    /\ sinceAttempt <= Throttle
    /\ sinceAttempt' = sinceAttempt + 1
    /\ UNCHANGED <<environment, control, pc, pid, bound, expired, hysteresis, positionTick,
                   poll, reports>>

Peaks == {"none", "loud", "low"}

WorkerStep ==
    \/ Exit \/ BeginPoll
    \/ Release \/ KeepSession \/ Resolve \/ ResolveFails
    \/ MeasureNothing
    \/ \E peak \in {"loud", "low"} : MeasureSession(peak)
    \/ \E s \in Readings, peak \in Peaks : MeasurePartly(s, peak) \/ MeasureExpired(s, peak)
    \/ Apply \/ NotifyAudible \/ CountTick \/ Sleep

Next ==
    \/ WorkerStep \/ TimeOut
    \/ Start \/ BeginStop \/ Notify \/ Join
    \/ \E s \in Settings : Adjust(s)
    \/ \E p \in Pids \cup {NoPid} : SetWindow(p)
    \/ \E p \in Pids : StreamChanges(p)
    \/ TimePasses

Spec == Init /\ [][Next]_vars

\* The scheduler runs the worker and a stopping owner.  That waits time out
\* and clocks advance is not assumed here; see Timely.
Fairness == WF_vars(WorkerStep) /\ WF_vars(Notify) /\ WF_vars(Join)

FairSpec == Spec /\ Fairness

-----------------------------------------------------------------------------
(* Properties.                                                             *)

\* Every variable has its type.
TypeOK ==
    /\ processId \in Pids \cup {NoPid} /\ streams \subseteq Pids
    /\ setting \in [Pids -> Settings] /\ changes \in 0 .. MaxChanges
    /\ running \in BOOLEAN /\ owner \in {"stopped", "started", "notify", "join"}
    /\ pc \in {"loop", "resolve", "measure", "apply", "edge", "tick", "wait", "asleep",
               "ended"}
    /\ pid \in Pids \cup {NoPid} /\ bound \in Pids \cup {NoPid}
    /\ expired \in BOOLEAN
    /\ sinceAttempt \in 0 .. Throttle + 1
    /\ lastPeak \in Peaks /\ audibleState \in BOOLEAN
    /\ belowCount \in 0 .. BelowToIdle /\ quiet \in 0 .. BelowToIdle
    /\ positionTick \in 0 .. TickEvery - 1
    /\ poll \in [setting : Readings, resolved : BOOLEAN, edge : BOOLEAN]
    /\ applied \in [setting : Readings, audible : BOOLEAN, resolved : BOOLEAN]
    /\ heard \in BOOLEAN

\* README.md: OnAudibleChanged is the "audible/silent edge (debounced ~1 s)".
\* From its first notification after Start on, a subscriber knows what the
\* aggregator was told, outside of the short time between the two calls.
EdgesTellState == pc \notin {"ended", "apply", "edge"} => (heard <=> audibleState)

\* Spotify falls silent only after BelowToIdle consecutive low polls or when
\* its session is lost: one loud poll in between starts the count again.
DebouncedSilence ==
    [][audibleState /\ ~audibleState' /\ pc = "measure"
        => bound = NoPid \/ quiet' = BelowToIdle]_vars

\* Once Stop has returned, the worker is gone and has let go of the session.
StopIsFinal == owner = "stopped" => pc = "ended" /\ ~HasSession

\* Stop returns, without the help of the time-out: the wake-up cannot be lost
\* between the worker's test of running and its sleep.
StopReturns == owner = "notify" ~> owner = "stopped"

\* What makes Stop return without the time-out: from the moment it notifies,
\* the worker is never asleep, nor on its way there with an old value of running.
WokenUp == owner = "join" => pc # "asleep"

\* c_api.h: "The library rebinds the session automatically": while Spotify
\* runs and has an audio session, the reports come to be those of that session.
\* That is so of a session of another process; one the same process makes after
\* Windows has dropped the one that is bound is never looked for.
Timely == WF_vars(TimeOut) /\ WF_vars(TimePasses)

Bindable(p, s) ==
    owner = "started" /\ processId = p /\ p \in streams /\ setting[p] = s

Reported(s) == applied.resolved /\ applied.setting = s

SessionReported ==
    Timely => \A p \in Pids, s \in Settings :
        <>[](Bindable(p, s) /\ ~(bound = p /\ expired)) => <>[]Reported(s)

\* What the sentence says of every session.  It does not hold: see SessionReported.
EverySessionReported ==
    Timely => \A p \in Pids, s \in Settings : <>[]Bindable(p, s) => <>[]Reported(s)

\* README.md: "appVolume reads -1 and SetAppVolume / SetAppMuted return false"
\* until the Spotify that is running has an audio session: what a poll reports
\* as resolved is a session of the process it read.
ReportsBoundProcess == pc = "apply" /\ poll.resolved => bound = pid

\* The inductive strengthening of the safety properties: what the subscriber
\* knows differs from the state exactly while an edge is owed; the code's count
\* of low polls is the real one as long as it matters; a worker that has ended
\* holds no session.
EdgeOwed ==
    /\ pc = "apply" => (poll.edge <=> (heard <=> ~audibleState))
    /\ pc = "edge" => (heard <=> ~audibleState)

CountsAgree == audibleState => belowCount = quiet /\ quiet < BelowToIdle

EndedLetGo == pc = "ended" => bound = NoPid

IInv == TypeOK /\ EdgesTellState /\ EdgeOwed /\ CountsAgree /\ EndedLetGo /\ StopIsFinal
=============================================================================
