------------------------------ MODULE Position ------------------------------
(***************************************************************************)
(* The arithmetic of the smoothed playback position: how a position is     *)
(* extrapolated while playing, and when a new report of the media session  *)
(* moves the anchor the extrapolation starts from.  Times and positions    *)
(* are milliseconds of one clock.                                          *)
(***************************************************************************)
EXTENDS Integers

CONSTANT SnapThreshold      \* kDefaultAnchorSnapThreshold

ASSUME SnapThresholdAssumption == SnapThreshold \in Nat

Larger(a, b)  == IF a >= b THEN a ELSE b
Smaller(a, b) == IF a <= b THEN a ELSE b
Distance(a, b) == IF a >= b THEN a - b ELSE b - a

\* Mutant: the time to, not from, the anchor, and nothing keeps it from 0.
ExtrapolateBackwards(status, position, duration, elapsed) ==
    IF status # "Playing" THEN position ELSE position - elapsed

\* elapsed may be negative: the caller reads the clock before it takes the
\* lock that protects the anchor.
ExtrapolatePosition(status, position, duration, elapsed) ==
    IF status # "Playing" THEN position
    ELSE LET moved == Larger(position + elapsed, 0)
         IN  IF duration > 0 THEN Smaller(moved, Larger(duration, position))
             ELSE moved

-----------------------------------------------------------------------------
Anchors == [position : Nat, time : Nat, valid : BOOLEAN]

\* Mutant: a default-constructed anchor is as good as any.
NoAnchorValid == [position |-> 0, time |-> 0, valid |-> TRUE]

NoAnchor == [position |-> 0, time |-> 0, valid |-> FALSE]

\* Mutant: the distance to the prediction keeps its sign.
UpdateAnchorSigned(prev, prevStatus, newStatus, newPosition, duration, now) ==
    LET predicted == ExtrapolatePosition("Playing", prev.position, duration,
                                         now - prev.time)
    IN  IF \/ ~prev.valid
           \/ newStatus # prevStatus
           \/ newStatus # "Playing"
           \/ newPosition - predicted > SnapThreshold
        THEN [position |-> newPosition, time |-> now, valid |-> TRUE]
        ELSE prev

\* A smoothed position keeps running from prev unless the report is a
\* discontinuity: no anchor yet, a status change, not playing, or a position
\* further than SnapThreshold from the extrapolated one.
UpdateAnchor(prev, prevStatus, newStatus, newPosition, duration, now) ==
    LET predicted == ExtrapolatePosition("Playing", prev.position, duration,
                                         now - prev.time)
    IN  IF \/ ~prev.valid
           \/ newStatus # prevStatus
           \/ newStatus # "Playing"
           \/ Distance(newPosition, predicted) > SnapThreshold
        THEN [position |-> newPosition, time |-> now, valid |-> TRUE]
        ELSE prev

SmoothPosition(anchor, status, duration, now) ==
    IF ~anchor.valid THEN 0
    ELSE ExtrapolatePosition(status, anchor.position, duration, now - anchor.time)
=============================================================================
