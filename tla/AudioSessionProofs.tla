------------------------- MODULE AudioSessionProofs -------------------------
(***************************************************************************)
(* Theorems about AudioSession, for any processes, settings, thresholds    *)
(* and number of changes of the environment.                               *)
(***************************************************************************)
EXTENDS AudioSession, TLAPS

USE AudioSessionAssumption

\* Measuring keeps the counts within their bounds and equal while it matters,
\* and silence after a session's poll needs BelowToIdle low ones.
LEMMA MeasureCounts ==
    ASSUME TypeOK, CountsAgree, NEW s, NEW peak, Measures(s, peak)
    PROVE  /\ audibleState' \in BOOLEAN
           /\ belowCount' \in 0 .. BelowToIdle /\ quiet' \in 0 .. BelowToIdle
           /\ CountsAgree'
           /\ audibleState /\ ~audibleState' => bound = NoPid \/ quiet' = BelowToIdle
<1> DEFINE resolved == bound # NoPid
<1>1. /\ Hysteresis(resolved, peak)
      /\ quiet' = IF ~resolved \/ peak = "loud" THEN 0
                  ELSE IF quiet < BelowToIdle THEN quiet + 1 ELSE quiet
  BY DEF Measures
<1>2. /\ audibleState \in BOOLEAN /\ BelowToIdle \in Nat \ {0}
      /\ belowCount \in 0 .. BelowToIdle /\ quiet \in 0 .. BelowToIdle
      /\ audibleState => belowCount = quiet /\ quiet < BelowToIdle
  BY DEF TypeOK, CountsAgree
<1>3. CASE resolved /\ peak = "loud"
  <2>1. audibleState' = TRUE /\ belowCount' = 0
    BY <1>1, <1>3 DEF Hysteresis
  <2>2. audibleState' \in BOOLEAN /\ audibleState'
    BY <2>1, Zenon
  <2>3. quiet' = 0
    BY <1>1, <1>3
  <2> QED
    BY <1>2, <2>1, <2>2, <2>3 DEF CountsAgree
<1>4. CASE resolved /\ peak # "loud"
  <2>1. /\ belowCount' = IF audibleState THEN belowCount + 1 ELSE belowCount
        /\ audibleState' = (audibleState /\ belowCount' < BelowToIdle)
    BY <1>1, <1>4 DEF Hysteresis
  <2>5. /\ audibleState' \in BOOLEAN
        /\ audibleState' <=> audibleState /\ belowCount' < BelowToIdle
    BY <1>2, <2>1, Zenon
  <2>2. quiet' = IF quiet < BelowToIdle THEN quiet + 1 ELSE quiet
    BY <1>1, <1>4
  <2>3. CASE audibleState
    <3>1. belowCount' = quiet + 1 /\ quiet' = quiet + 1 /\ quiet + 1 <= BelowToIdle
      BY <1>2, <2>1, <2>2, <2>3
    <3> QED
      BY <1>2, <2>3, <2>5, <3>1 DEF CountsAgree
  <2>4. CASE ~audibleState
    BY <1>2, <2>1, <2>2, <2>4, <2>5 DEF CountsAgree
  <2> QED
    BY <1>2, <2>3, <2>4
<1>5. CASE ~resolved
  <2>1. /\ audibleState' = FALSE
        /\ belowCount' = IF audibleState THEN 0 ELSE belowCount
    BY <1>1, <1>5 DEF Hysteresis
  <2>2. audibleState' \in BOOLEAN /\ ~audibleState'
    BY <2>1, Zenon
  <2>3. quiet' = 0
    BY <1>1, <1>5
  <2> QED
    BY <1>2, <1>5, <2>1, <2>2, <2>3 DEF CountsAgree
<1> QED
  BY <1>3, <1>4, <1>5

\* Whatever the calls of a poll answer, or fail to, the worker has measured
\* some setting and some peak.
LEMMA Measured ==
    ASSUME TypeOK,
           \/ MeasureNothing
           \/ \E peak \in {"loud", "low"} : MeasureSession(peak)
           \/ \E s \in Readings, peak \in Peaks :
                 MeasurePartly(s, peak) \/ MeasureExpired(s, peak)
    PROVE  /\ \E s \in Readings, peak \in Peaks : Measures(s, peak)
           /\ changes' \in 0 .. MaxChanges
<1>1. changes \in 0 .. MaxChanges /\ setting \in [Pids -> Settings] /\ bound \in Pids \cup {NoPid}
  BY DEF TypeOK
<1>2. CASE MeasureNothing
  <2>1. Unread \in Readings /\ "none" \in Peaks
    BY DEF Unread, Readings, Peaks
  <2> QED
    BY <1>1, <1>2, <2>1 DEF MeasureNothing
<1>3. ASSUME NEW peak \in {"loud", "low"}, MeasureSession(peak)
      PROVE  /\ \E s \in Readings, p \in Peaks : Measures(s, p)
             /\ changes' \in 0 .. MaxChanges
  <2>1. setting[bound] \in Readings
    BY <1>1, <1>3 DEF MeasureSession, HasSession, Settings, Readings
  <2>2. peak \in Peaks /\ Measures(setting[bound], peak) /\ changes' = changes
    BY <1>3 DEF MeasureSession, Peaks
  <2> QED
    BY <1>1, <2>1, <2>2
<1>4. ASSUME NEW s \in Readings, NEW peak \in Peaks,
             MeasurePartly(s, peak) \/ MeasureExpired(s, peak)
      PROVE  Measures(s, peak) /\ changes' \in 0 .. MaxChanges
  <2>1. CASE MeasurePartly(s, peak)
    <3>1. Measures(s, peak)
      BY <2>1, Zenon DEF MeasurePartly
    <3>2. changes < MaxChanges /\ changes' = changes + 1
      BY <2>1, Zenon DEF MeasurePartly
    <3> QED
      BY <1>1, <3>1, <3>2
  <2>2. CASE MeasureExpired(s, peak)
    BY <1>1, <2>2, Zenon DEF MeasureExpired
  <2> QED
    BY <1>4, <2>1, <2>2
<1> QED
  BY <1>2, <1>3, <1>4

\* A new session object, or none, has nothing wrong with it.
LEMMA IInvInit == Init => IInv
<1> SUFFICES ASSUME Init
             PROVE  IInv
  OBVIOUS
<1>1. /\ running \in BOOLEAN
      /\ audibleState \in BOOLEAN /\ ~audibleState
      /\ heard \in BOOLEAN /\ ~heard
      /\ expired \in BOOLEAN
  BY Zenon DEF Init
<1>2. TypeOK
  BY <1>1 DEF Init, TypeOK, NoPoll, NothingApplied, Unread, Readings, Peaks
<1> QED
  BY <1>1, <1>2
     DEF Init, IInv, EdgesTellState, EdgeOwed, CountsAgree, EndedLetGo, StopIsFinal,
         HasSession

\* Every step of the worker, the owner, the setters and Windows keeps it so.
LEMMA IInvStep ==
    ASSUME IInv, [Next]_vars
    PROVE  IInv'
<1> USE DEF IInv, TypeOK, EdgesTellState, EdgeOwed, EndedLetGo, StopIsFinal, HasSession,
            environment, control, session, hysteresis, reports
<1>1. CASE Exit
  <2>1. expired' \in BOOLEAN
    BY <1>1, Zenon DEF Exit
  <2> QED
    BY <1>1, <2>1 DEF Exit, CountsAgree
<1>2. CASE BeginPoll
  BY <1>2 DEF BeginPoll, CountsAgree
<1>3. CASE Release
  <2>1. expired' \in BOOLEAN
    BY <1>3, Zenon DEF Release
  <2> QED
    BY <1>3, <2>1 DEF Release, CountsAgree
<1>4. CASE KeepSession
  BY <1>4 DEF KeepSession, CountsAgree
<1>5. CASE Resolve
  <2>1. expired' \in BOOLEAN
    BY <1>5, Zenon DEF Resolve
  <2> QED
    BY <1>5, <2>1 DEF Resolve, CountsAgree
<1>6. CASE ResolveFails
  BY <1>6 DEF ResolveFails, CountsAgree
<1>7. ASSUME NEW s \in Readings, NEW peak \in Peaks, Measures(s, peak),
             changes' \in 0 .. MaxChanges
      PROVE  IInv'
  <2>1. /\ audibleState' \in BOOLEAN
        /\ belowCount' \in 0 .. BelowToIdle /\ quiet' \in 0 .. BelowToIdle
        /\ CountsAgree'
    BY <1>7, MeasureCounts
  <2>2. /\ pc = "measure" /\ pc' = "apply"
        /\ lastPeak' = peak
        /\ poll' = [setting  |-> s,
                    resolved |-> bound # NoPid,
                    edge     |-> audibleState' # audibleState]
        /\ UNCHANGED <<processId, streams, setting, control, session, positionTick, reports>>
    BY <1>7 DEF Measures
  <2>3. poll'.edge <=> (heard' <=> ~audibleState')
    <3>1. poll'.edge = (audibleState' # audibleState) /\ heard' = heard
      BY <2>2
    <3>2. heard <=> audibleState
      BY <2>2
    <3>3. audibleState \in BOOLEAN /\ heard \in BOOLEAN
      OBVIOUS
    <3> QED
      BY <2>1, <3>1, <3>2, <3>3, Zenon
  <2>4. poll' \in [setting : Readings, resolved : BOOLEAN, edge : BOOLEAN]
    BY <2>1, <2>2
  <2>5. TypeOK'
    BY <1>7, <2>1, <2>2, <2>4
  <2> QED
    BY <2>1, <2>2, <2>3, <2>5
<1>8. CASE Apply
  BY <1>8 DEF Apply, CountsAgree
<1>9. CASE NotifyAudible
  BY <1>9 DEF NotifyAudible, CountsAgree
<1>10. CASE CountTick
  <2>1. (positionTick + 1) % TickEvery \in 0 .. TickEvery - 1
    OBVIOUS
  <2>2. NoPoll \in [setting : Readings, resolved : BOOLEAN, edge : BOOLEAN]
    BY DEF NoPoll, Unread, Readings
  <2> QED
    BY <1>10, <2>1, <2>2 DEF CountTick, CountsAgree
<1>11. CASE Sleep
  BY <1>11 DEF Sleep, CountsAgree
<1>12. CASE TimeOut
  BY <1>12 DEF TimeOut, CountsAgree
<1>13. CASE Start
  <2>1. /\ running' \in BOOLEAN
        /\ audibleState' \in BOOLEAN /\ ~audibleState'
        /\ heard' \in BOOLEAN /\ ~heard'
        /\ expired' \in BOOLEAN
    BY <1>13, Zenon DEF Start
  <2> QED
    BY <1>13, <2>1 DEF Start, CountsAgree, Peaks
<1>14. CASE BeginStop
  <2>1. running' \in BOOLEAN
    BY <1>14, Zenon DEF BeginStop
  <2> QED
    BY <1>14, <2>1 DEF BeginStop, CountsAgree
<1>15. CASE Notify
  BY <1>15 DEF Notify, CountsAgree
<1>16. CASE Join
  BY <1>16 DEF Join, CountsAgree
<1>17. ASSUME NEW s \in Settings, Adjust(s)
       PROVE  IInv'
  BY <1>17 DEF Adjust, CountsAgree
<1>18. ASSUME NEW p \in Pids \cup {NoPid}, SetWindow(p)
       PROVE  IInv'
  BY <1>18 DEF SetWindow, CountsAgree
<1>19. ASSUME NEW p \in Pids, StreamChanges(p)
       PROVE  IInv'
  <2>1. expired' \in BOOLEAN
    BY <1>19, Zenon DEF StreamChanges
  <2> QED
    BY <1>19, <2>1 DEF StreamChanges, CountsAgree
<1>20. CASE TimePasses
  BY <1>20 DEF TimePasses, CountsAgree
<1>21. CASE UNCHANGED vars
  BY <1>21 DEF vars, CountsAgree
<1> QED
  BY <1>1, <1>2, <1>3, <1>4, <1>5, <1>6, <1>7, <1>8, <1>9, <1>10, <1>11, <1>12, <1>13,
     <1>14, <1>15, <1>16, <1>17, <1>18, <1>19, <1>20, <1>21, Measured DEF Next, WorkerStep

-----------------------------------------------------------------------------
\* The invariant holds whatever Windows, Spotify and other threads do.
THEOREM AudioInductive == Spec => []IInv
<1>1. IInv /\ [Next]_vars => IInv'
  BY IInvStep
<1> QED
  BY IInvInit, <1>1, PTL DEF Spec

\* Every variable keeps its type.
THEOREM AudioTypeCorrect == Spec => []TypeOK
<1>1. IInv => TypeOK
  BY DEF IInv
<1> QED
  BY AudioInductive, <1>1, PTL

\* The audible edges a subscriber gets add up to the state.
THEOREM AudibleEdges == Spec => []EdgesTellState
<1>1. IInv => EdgesTellState
  BY DEF IInv
<1> QED
  BY AudioInductive, <1>1, PTL

\* Nothing of a stopped session is left.
THEOREM StoppedForGood == Spec => []StopIsFinal
<1>1. IInv => StopIsFinal
  BY DEF IInv
<1> QED
  BY AudioInductive, <1>1, PTL

\* Silence is debounced: it takes BelowToIdle consecutive low polls.
THEOREM SilenceDebounced == Spec => DebouncedSilence
<1> DEFINE A == audibleState /\ ~audibleState' /\ pc = "measure"
                   => bound = NoPid \/ quiet' = BelowToIdle
<1>1. IInv /\ [Next]_vars => [A]_vars
  <2> SUFFICES ASSUME IInv, Next, audibleState, ~audibleState', pc = "measure"
               PROVE  bound = NoPid \/ quiet' = BelowToIdle
    OBVIOUS
  <2>1. ASSUME NEW s \in Readings, NEW peak \in Peaks, Measures(s, peak)
        PROVE  bound = NoPid \/ quiet' = BelowToIdle
    BY <2>1, MeasureCounts DEF IInv
  <2>2. CASE Start
    BY <2>2 DEF IInv, StopIsFinal, Start
  <2> QED
    BY <2>1, <2>2, Measured
       DEF IInv, Next, WorkerStep, Exit, BeginPoll, Release, KeepSession, Resolve, ResolveFails,
           Apply, NotifyAudible, CountTick, Sleep, TimeOut, BeginStop, Notify, Join, Adjust,
           SetWindow, StreamChanges, TimePasses, hysteresis
<1> QED
  BY AudioInductive, <1>1, PTL DEF Spec, DebouncedSilence

-----------------------------------------------------------------------------
\* A wake-up is not lost: Sleep looks at running, which BeginStop clears before
\* Notify wakes the worker.
Awake == (running <=> owner = "started") /\ WokenUp

LEMMA AwakeStep ==
    ASSUME TypeOK, Awake, [Next]_vars
    PROVE  Awake'
<1> USE DEF Awake, WokenUp, environment, control
<1>1. CASE WorkerStep
  <2>1. owner' = owner /\ running' = running
    BY <1>1 DEF WorkerStep, Exit, BeginPoll, Release, KeepSession, Resolve, ResolveFails,
                MeasureNothing, MeasureSession, MeasurePartly,
                MeasureExpired, Measures, Apply, NotifyAudible, CountTick, Sleep
  <2>2. pc' = "asleep" => pc = "wait" /\ running
    BY <1>1 DEF WorkerStep, Exit, BeginPoll, Release, KeepSession, Resolve, ResolveFails,
                MeasureNothing, MeasureSession, MeasurePartly,
                MeasureExpired, Measures, Apply, NotifyAudible, CountTick, Sleep
  <2> QED
    BY <2>1, <2>2
<1>2. CASE TimeOut
  BY <1>2 DEF TimeOut
<1>3. CASE Start
  <2>1. running'
    BY <1>3, Zenon DEF Start
  <2> QED
    BY <1>3, <2>1 DEF Start
<1>4. CASE BeginStop
  <2>1. ~running'
    BY <1>4, Zenon DEF BeginStop
  <2> QED
    BY <1>4, <2>1 DEF BeginStop
<1>5. CASE Notify \/ Join
  BY <1>5 DEF Notify, Join
<1>6. CASE \/ \E s \in Settings : Adjust(s)
           \/ \E p \in Pids \cup {NoPid} : SetWindow(p)
           \/ \E p \in Pids : StreamChanges(p)
           \/ TimePasses \/ UNCHANGED vars
  <2>1. owner' = owner /\ running' = running /\ pc' = pc
    BY <1>6 DEF Adjust, SetWindow, StreamChanges, TimePasses, vars
  <2> QED
    BY <2>1
<1> QED
  BY <1>1, <1>2, <1>3, <1>4, <1>5, <1>6 DEF Next

\* When Stop joins the worker, the worker is not asleep, whatever step it was
\* in when Stop began.
THEOREM WakeUpNotLost == Spec => []WokenUp
<1>1. Init => Awake
  <2> SUFFICES ASSUME Init
               PROVE  Awake
    OBVIOUS
  <2>1. ~running
    BY Zenon DEF Init
  <2> QED
    BY <2>1 DEF Init, Awake, WokenUp
<1>2. Awake => WokenUp
  BY DEF Awake
<1> QED
  BY <1>1, <1>2, AwakeStep, AudioTypeCorrect, PTL DEF Spec
=============================================================================
