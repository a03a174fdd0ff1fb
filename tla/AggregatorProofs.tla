-------------------------- MODULE AggregatorProofs --------------------------
(***************************************************************************)
(* Proofs about the aggregator, for any finite set of SMTC threads, any    *)
(* reports, titles and samples, any threshold and any bounds.              *)
(***************************************************************************)
EXTENDS Aggregator, FiniteSetTheorems, TLAPS

-----------------------------------------------------------------------------
(* The position arithmetic, for every position, duration, threshold and    *)
(* clock reading.                                                          *)

\* An extrapolated position is a position: extrapolation never goes below 0,
\* whatever the elapsed time (ExtrapolatePosition, position.h).
LEMMA ExtrapolateType ==
    ASSUME NEW status, NEW position \in Nat, NEW duration \in Nat, NEW elapsed \in Int
    PROVE  ExtrapolatePosition(status, position, duration, elapsed) \in Nat
BY DEF ExtrapolatePosition, Larger, Smaller

\* An extrapolated position never exceeds the reported one by more than the
\* elapsed time.
LEMMA ExtrapolateBound ==
    ASSUME NEW status, NEW position \in Nat, NEW duration \in Nat, NEW elapsed \in Nat
    PROVE  ExtrapolatePosition(status, position, duration, elapsed) <= position + elapsed
BY DEF ExtrapolatePosition, Larger, Smaller

\* While the anchor stays, the position shown to the user never runs
\* backwards, and never past the end of a track whose duration is known
\* unless the media session itself reported a position past the end.
THEOREM ExtrapolateMonotone ==
    ASSUME NEW status, NEW position \in Nat, NEW duration \in Nat,
           NEW e1 \in Int, NEW e2 \in Int, e1 <= e2
    PROVE  /\ ExtrapolatePosition(status, position, duration, e1)
                <= ExtrapolatePosition(status, position, duration, e2)
           /\ duration > 0 => ExtrapolatePosition(status, position, duration, e2)
                                <= Larger(duration, position)
BY DEF ExtrapolatePosition, Larger, Smaller

\* UpdateAnchor returns an anchor, whatever the report.
LEMMA UpdateAnchorType ==
    ASSUME NEW prev \in Anchors, NEW prevStatus, NEW newStatus,
           NEW newPosition \in Nat, NEW duration \in Nat, NEW now \in Nat
    PROVE  /\ UpdateAnchor(prev, prevStatus, newStatus, newPosition, duration, now)
                \in Anchors
           /\ UpdateAnchor(prev, prevStatus, newStatus, newPosition, duration, now).valid
BY DEF UpdateAnchor, Anchors

\* Whether the anchor is moved or kept, the position it yields at the time of
\* the report is within SnapThreshold of the report (UpdateAnchor): a seek, a
\* pause or a long stall is never smoothed away.
THEOREM UpdateAnchorHonoursReport ==
    ASSUME NEW prev \in Anchors, NEW prevStatus, NEW newStatus,
           NEW newPosition \in Nat, NEW duration \in Nat, NEW now \in Nat
    PROVE  Distance(SmoothPosition(
                        UpdateAnchor(prev, prevStatus, newStatus, newPosition,
                                     duration, now),
                        newStatus, duration, now),
                    newPosition) <= SnapThreshold
<1> DEFINE predicted == ExtrapolatePosition("Playing", prev.position, duration,
                                            now - prev.time)
           snapped == [position |-> newPosition, time |-> now, valid |-> TRUE]
           a == UpdateAnchor(prev, prevStatus, newStatus, newPosition, duration, now)
<1>1. SnapThreshold \in Nat
  BY SnapThresholdAssumption
<1>2. prev.position \in Nat /\ prev.time \in Nat /\ prev.valid \in BOOLEAN
  BY DEF Anchors
<1>3. CASE a = snapped
  <2>1. SmoothPosition(a, newStatus, duration, now)
          = ExtrapolatePosition(newStatus, newPosition, duration, now - now)
    BY <1>3 DEF SmoothPosition
  <2>2. ExtrapolatePosition(newStatus, newPosition, duration, now - now) = newPosition
    BY DEF ExtrapolatePosition, Larger, Smaller
  <2> QED
    BY <2>1, <2>2, <1>1 DEF Distance
<1>4. CASE a # snapped
  <2>1. /\ a = prev /\ prev.valid /\ newStatus = "Playing"
        /\ ~(Distance(newPosition, predicted) > SnapThreshold)
    BY <1>4 DEF UpdateAnchor
  <2>2. SmoothPosition(a, newStatus, duration, now) = predicted
    BY <2>1 DEF SmoothPosition
  <2>3. predicted \in Nat
    BY <1>2, ExtrapolateType
  <2> QED
    BY <2>1, <2>2, <2>3, <1>1 DEF Distance
<1> QED
  BY <1>3, <1>4

\* A steady report, one that agrees with the running extrapolation, leaves
\* the smoothed position exactly where it was, then and at every later time
\* (the point of CHANGELOG 0.3.4: no visible step on a republication).
THEOREM SteadyReportNoStep ==
    ASSUME NEW prev \in Anchors, prev.valid,
           NEW newPosition \in Nat, NEW duration \in Nat, NEW now \in Nat,
           NEW later \in Nat,
           Distance(newPosition, SmoothPosition(prev, "Playing", duration, now))
               <= SnapThreshold
    PROVE  SmoothPosition(UpdateAnchor(prev, "Playing", "Playing", newPosition,
                                       duration, now),
                          "Playing", duration, later)
             = SmoothPosition(prev, "Playing", duration, later)
<1>1. SnapThreshold \in Nat
  BY SnapThresholdAssumption
<1>2. prev.position \in Nat /\ prev.time \in Nat
  BY DEF Anchors
<1> DEFINE predicted == ExtrapolatePosition("Playing", prev.position, duration,
                                            now - prev.time)
<1>3. predicted \in Nat
  BY <1>2, ExtrapolateType
<1>4. SmoothPosition(prev, "Playing", duration, now) = predicted
  BY DEF SmoothPosition
<1>5. Distance(newPosition, predicted) \in Int
  BY <1>3 DEF Distance
<1>6. ~(Distance(newPosition, predicted) > SnapThreshold)
  BY <1>1, <1>4, <1>5
<1>7. UpdateAnchor(prev, "Playing", "Playing", newPosition, duration, now) = prev
  BY <1>6 DEF UpdateAnchor
<1> QED
  BY <1>7

USE AggregatorAssumption, SnapThresholdAssumption

-----------------------------------------------------------------------------
\* The default fragments, state and anchor have their types.
LEMMA Defaults ==
    /\ NoPlayback \in SmtcFrags /\ NoPlayback \in PlaybackStates
    /\ NoPlayback.position = 0 /\ NoPlayback.status = "Unknown"
    /\ NoAnchor \in Anchors /\ NoAnchor.valid = FALSE
    /\ NoAudio \in AudioFrags /\ NoTitle \in TitleFrags
    /\ NoCall \in [frag : SmtcFrags, now : Nat]
    /\ NoTick \in [status : Statuses, duration : Nat, anchor : Anchors]
<1>1. NoPlayback \in PlaybackStates
  BY DEF NoPlayback, PlaybackStates, Texts, Statuses, NoVolume
<1>2. NoPlayback \in SmtcFrags
  BY <1>1 DEF SmtcFrags, NoPlayback
<1>3. NoAnchor \in Anchors
  BY DEF NoAnchor, Anchors
<1>4. NoAudio \in AudioFrags
  BY DEF NoAudio, AudioFrags, NoVolume
<1>5. NoTitle \in TitleFrags
  BY DEF NoTitle, TitleFrags, Texts, Statuses
<1>6. NoCall \in [frag : SmtcFrags, now : Nat]
  BY <1>2 DEF NoCall
<1>7. NoTick \in [status : Statuses, duration : Nat, anchor : Anchors]
  BY <1>3 DEF NoTick, Statuses
<1> QED
  BY <1>1, <1>2, <1>3, <1>4, <1>5, <1>6, <1>7 DEF NoPlayback, NoAnchor

\* Fusing well-formed fragments yields a PlaybackState.  Its position is the
\* report's or 0; a state that does not play and carries something of the
\* report stems from a report that does not play (FuseFragments).
LEMMA FuseFacts ==
    ASSUME NEW smtc \in SmtcFrags, NEW audio \in AudioFrags, NEW title \in TitleFrags,
           NEW f, f = FuseFragments(smtc, audio, title)
    PROVE  /\ f \in PlaybackStates
           /\ f.position = smtc.position \/ f.position = 0
           /\ f.status # "Playing" /\ CarriesReport(f)
                => f.position = smtc.position /\ smtc.status # "Playing"
<1>1. smtc \in PlaybackStates /\ NoPlayback \in PlaybackStates
  BY Defaults DEF SmtcFrags
<1> DEFINE base == IF SmtcHasContent(smtc) THEN smtc ELSE NoPlayback
<1>2. base \in PlaybackStates
  BY <1>1
<1>3. f = [artist    |-> IF base.artist = Empty THEN title.artist ELSE base.artist,
           title     |-> IF base.title = Empty THEN title.title ELSE base.title,
           album     |-> base.album,
           status    |-> IF base.status = "Unknown" /\ title.any
                         THEN title.status ELSE base.status,
           position  |-> base.position,
           duration  |-> base.duration,
           isAd      |-> title.isAd,
           audible   |-> audio.audible,
           appMuted  |-> audio.muted,
           appVolume |-> IF audio.resolved THEN audio.vol ELSE NoVolume]
  BY DEF FuseFragments
<1>4. base = smtc \/ base = NoPlayback
  OBVIOUS
<1> HIDE DEF base
<1>5. /\ base.artist \in Texts /\ base.title \in Texts /\ base.album \in Texts
      /\ base.status \in Statuses /\ base.position \in Nat /\ base.duration \in Nat
  BY <1>2 DEF PlaybackStates
<1>6. /\ title.artist \in Texts /\ title.title \in Texts /\ title.status \in Statuses
      /\ title.isAd \in BOOLEAN
  BY DEF TitleFrags
<1>7. audio.audible \in BOOLEAN /\ audio.muted \in BOOLEAN /\ audio.vol \in Int
  BY DEF AudioFrags
<1>8. f \in PlaybackStates
  BY <1>3, <1>5, <1>6, <1>7 DEF PlaybackStates, NoVolume
<1>9. f.position = base.position /\ f.album = base.album /\ f.duration = base.duration
  BY <1>3
<1>10. CarriesReport(f) => base = smtc
  BY <1>4, <1>9 DEF CarriesReport, NoPlayback
<1>11. f.status # "Playing" => base.status # "Playing"
  BY <1>3
<1> QED
  BY <1>4, <1>8, <1>9, <1>10, <1>11, Defaults
-----------------------------------------------------------------------------
(* Type correctness, one step per action.                                  *)

\* Every step preserves the types.
LEMMA TypeStep ==
    ASSUME TypeOK, [Next]_vars
    PROVE  TypeOK'
<1> USE DEF TypeOK, Places, Signals, frags, published, locals, subscriber, environment
<1>1. ASSUME NEW t \in SmtcThreads, NEW frag \in SmtcReports, ApplySmtc(t, frag)
      PROVE  TypeOK'
  BY <1>1 DEF ApplySmtc, Threads
<1>2. ASSUME NEW t \in SmtcThreads, StoreSmtc(t)
      PROVE  TypeOK'
  <2>1. /\ call[t].frag \in SmtcFrags /\ call[t].now \in Nat
        /\ call[t].frag.position \in Nat /\ call[t].frag.duration \in Nat
    BY DEF SmtcFrags, PlaybackStates
  <2>2. smtcAnchor' \in Anchors
    BY <1>2, <2>1, UpdateAnchorType DEF StoreSmtc
  <2> QED
    BY <1>2, <2>1, <2>2, Defaults DEF StoreSmtc, Threads
<1>3. CASE ApplyAudio
  BY <1>3 DEF ApplyAudio, AudioFrags, NoVolume, Threads
<1>4. ASSUME NEW parse \in WindowTitles, ApplyTitle(parse)
      PROVE  TypeOK'
  <2>1. parse \in TitleParses
    OBVIOUS
  <2>2. titleFrag' \in TitleFrags
    BY <1>4, <2>1 DEF ApplyTitle, TitleParses, TitleFrags
  <2> QED
    BY <1>4, <2>2 DEF ApplyTitle, Threads
<1>5. CASE ResetFragments
  BY <1>5, Defaults DEF ResetFragments
<1>6. ASSUME NEW t \in Threads, Fuse(t)
      PROVE  TypeOK'
  BY <1>6, FuseFacts DEF Fuse
<1>7. ASSUME NEW t \in Threads, SkipPublish(t)
      PROVE  TypeOK'
  BY <1>7, Defaults DEF SkipPublish, Return
<1>8. ASSUME NEW t \in Threads, Publish(t)
      PROVE  TypeOK'
  BY <1>8 DEF Publish, Edges, Signals
<1>9. ASSUME NEW t \in Threads, NEW s \in Signals, EmitEdge(t, s)
      PROVE  TypeOK'
  BY <1>9 DEF EmitEdge, AdStep
<1>10. ASSUME NEW t \in Threads, EmitState(t)
       PROVE  TypeOK'
  BY <1>10, Defaults DEF EmitState, Return
<1>11. CASE MaybeFirePositionTick
  BY <1>11 DEF MaybeFirePositionTick, PlaybackStates, Threads
<1>12. CASE EmitPosition
  <2>1. SmoothPosition(tick.anchor, tick.status, tick.duration, clock) \in Nat
    BY ExtrapolateType DEF SmoothPosition, Anchors
  <2> QED
    BY <1>12, <2>1, Defaults DEF EmitPosition, Threads
<1>13. CASE Tick
  BY <1>13 DEF Tick
<1>14. CASE SampleChanges
  BY <1>14 DEF SampleChanges
<1>15. CASE UNCHANGED vars
  BY <1>15 DEF vars
<1> QED
  BY <1>1, <1>2, <1>3, <1>4, <1>5, <1>6, <1>7, <1>8, <1>9, <1>10, <1>11, <1>12,
     <1>13, <1>14, <1>15 DEF Next, Step

\* The client is created with well-typed fragments and nothing published.
LEMMA TypeInit == Init => TypeOK
BY Defaults DEF Init, TypeOK, Places, Threads, Signals

\* The variables of the aggregator keep their types in every behaviour.
THEOREM TypeCorrect == Spec => []TypeOK
<1>1. TypeOK /\ [Next]_vars => TypeOK'
  BY TypeStep
<1> QED
  BY TypeInit, <1>1, PTL DEF Spec
-----------------------------------------------------------------------------
(* The inductive invariant.                                                *)

\* Only a thread inside Aggregate's emission owes notifications, after every step.
LEMMA OwedStep ==
    ASSUME TypeOK, OnlyEmittersOwe, [Next]_vars
    PROVE  OnlyEmittersOwe'
<1> USE DEF TypeOK, OnlyEmittersOwe, published, locals, subscriber, environment, frags
<1>1. ASSUME NEW t \in SmtcThreads, NEW frag \in SmtcReports, ApplySmtc(t, frag)
      PROVE  OnlyEmittersOwe'
  BY <1>1 DEF ApplySmtc, Threads
<1>2. ASSUME NEW t \in SmtcThreads, StoreSmtc(t)
      PROVE  OnlyEmittersOwe'
  BY <1>2 DEF StoreSmtc, Threads
<1>3. CASE ApplyAudio
  BY <1>3 DEF ApplyAudio, Threads
<1>4. ASSUME NEW parse \in WindowTitles, ApplyTitle(parse)
      PROVE  OnlyEmittersOwe'
  BY <1>4 DEF ApplyTitle, Threads
<1>5. ASSUME NEW t \in Threads, Fuse(t) \/ SkipPublish(t)
      PROVE  OnlyEmittersOwe'
  BY <1>5 DEF Fuse, SkipPublish, Return
<1>6. ASSUME NEW t \in Threads, Publish(t)
      PROVE  OnlyEmittersOwe'
  BY <1>6 DEF Publish
<1>7. ASSUME NEW t \in Threads, NEW s \in Signals, EmitEdge(t, s)
      PROVE  OnlyEmittersOwe'
  BY <1>7 DEF EmitEdge
<1>8. ASSUME NEW t \in Threads, EmitState(t)
      PROVE  OnlyEmittersOwe'
  <2>1. owed[t] = {"state"}
    BY <1>8 DEF EmitState, EmittedBefore, Signals
  <2> QED
    BY <1>8, <2>1 DEF EmitState, Return
<1>9. CASE MaybeFirePositionTick
  BY <1>9 DEF MaybeFirePositionTick, Threads
<1>10. CASE EmitPosition
  BY <1>10 DEF EmitPosition, Threads
<1>11. CASE ResetFragments \/ Tick \/ SampleChanges
  BY <1>11 DEF ResetFragments, Tick, SampleChanges
<1>12. CASE UNCHANGED vars
  BY <1>12 DEF vars
<1> QED
  BY <1>1, <1>2, <1>3, <1>4, <1>5, <1>6, <1>7, <1>8, <1>9, <1>10, <1>11, <1>12
     DEF Next, Step

\* What StoreSmtc leaves behind.
LEMMA StoredAnchor ==
    ASSUME TypeOK, NEW t \in SmtcThreads, StoreSmtc(t)
    PROVE  /\ \/ smtcAnchor' = [position |-> call[t].frag.position,
                                time |-> call[t].now, valid |-> TRUE]
              \/ smtcAnchor' = smtcAnchor
           /\ smtcFrag' = call[t].frag
           /\ smtcFrag'.status # "Playing" => smtcAnchor'.position = smtcFrag'.position
<1>1. /\ call[t].frag \in SmtcFrags /\ call[t].now \in Nat
      /\ call[t].frag.position \in Nat /\ call[t].frag.duration \in Nat
      /\ smtcAnchor \in Anchors
  BY DEF SmtcFrags, PlaybackStates, TypeOK
<1>2. /\ smtcAnchor' = UpdateAnchor(smtcAnchor, smtcFrag.status, call[t].frag.status,
                                    call[t].frag.position, call[t].frag.duration,
                                    call[t].now)
      /\ smtcFrag' = call[t].frag
  BY DEF StoreSmtc
<1> QED
  BY <1>1, <1>2 DEF UpdateAnchor

\* Every anchor and clock reading stays between the boot clock and now.
LEMMA RangeStep ==
    ASSUME TypeOK, TypeOK', PositionsInRange, [Next]_vars
    PROVE  PositionsInRange'
<1> USE DEF PositionsInRange, AnchorInRange, published, locals, subscriber,
            environment, frags
<1>1. ASSUME NEW t \in SmtcThreads, NEW frag \in SmtcReports, ApplySmtc(t, frag)
      PROVE  PositionsInRange'
  <2>1. frag.position <= MaxPosition
    OBVIOUS
  <2> QED
    BY <1>1, <2>1 DEF ApplySmtc, TypeOK, Threads
<1>2. ASSUME NEW t \in SmtcThreads, StoreSmtc(t)
      PROVE  PositionsInRange'
  <2>2. /\ call[t].frag.position <= MaxPosition
        /\ BootClock <= call[t].now /\ call[t].now <= clock
    BY <1>2 DEF StoreSmtc
  <2>3. \/ smtcAnchor' = [position |-> call[t].frag.position, time |-> call[t].now,
                          valid |-> TRUE]
        \/ smtcAnchor' = smtcAnchor
    BY <1>2, StoredAnchor
  <2>4. clock' = clock
    BY <1>2 DEF StoreSmtc
  <2>5. AnchorInRange(smtcAnchor)'
    BY <2>2, <2>3, <2>4
  <2>6. \A u \in SmtcThreads : /\ call'[u] = IF u = t THEN NoCall ELSE call[u]
                               /\ pc'[u] = IF u = t THEN "fuse" ELSE pc[u]
    BY <1>2 DEF StoreSmtc, TypeOK, Threads
  <2>7. NoCall.frag.position = 0
    BY DEF NoCall, NoPlayback
  <2> QED
    BY <1>2, <2>2, <2>5, <2>6, <2>7 DEF StoreSmtc, TypeOK
<1>3. CASE ApplyAudio
  BY <1>3 DEF ApplyAudio, TypeOK, Threads
<1>4. ASSUME NEW parse \in WindowTitles, ApplyTitle(parse)
      PROVE  PositionsInRange'
  BY <1>4 DEF ApplyTitle, TypeOK, Threads
<1>5. CASE ResetFragments
  BY <1>5, Defaults DEF ResetFragments, TypeOK
<1>6. ASSUME NEW t \in Threads, Fuse(t)
      PROVE  PositionsInRange'
  <2>1. /\ FuseFragments(smtcFrag, audioFrag, titleFrag).position <= MaxPosition
    BY FuseFacts DEF TypeOK
  <2> QED
    BY <1>6, <2>1 DEF Fuse, TypeOK, Threads
<1>7. ASSUME NEW t \in Threads, SkipPublish(t)
      PROVE  PositionsInRange'
  BY <1>7, Defaults DEF SkipPublish, Return, TypeOK, Threads
<1>8. ASSUME NEW t \in Threads, Publish(t)
      PROVE  PositionsInRange'
  BY <1>8 DEF Publish, TypeOK, Threads
<1>9. ASSUME NEW t \in Threads, NEW s \in Signals, EmitEdge(t, s)
      PROVE  PositionsInRange'
  BY <1>9 DEF EmitEdge, TypeOK
<1>10. ASSUME NEW t \in Threads, EmitState(t)
       PROVE  PositionsInRange'
  BY <1>10, Defaults DEF EmitState, Return, TypeOK, Threads
<1>11. CASE MaybeFirePositionTick
  BY <1>11 DEF MaybeFirePositionTick, TypeOK, Threads
<1>12. CASE EmitPosition
  BY <1>12, Defaults DEF EmitPosition, TypeOK, Threads, NoTick
<1>13. CASE Tick
  BY <1>13 DEF Tick, TypeOK, Anchors
<1>14. CASE SampleChanges
  BY <1>14 DEF SampleChanges
<1>15. CASE UNCHANGED vars
  BY <1>15 DEF vars
<1> QED
  BY <1>1, <1>2, <1>3, <1>4, <1>5, <1>6, <1>7, <1>8, <1>9, <1>10, <1>11, <1>12,
     <1>13, <1>14, <1>15 DEF Next, Step

\* A state and its anchor stay together wherever they are copied.
LEMMA CoherenceStep ==
    ASSUME TypeOK, PairsCoherent, [Next]_vars
    PROVE  PairsCoherent'
<1> USE DEF PairsCoherent, Coherent, published, locals, subscriber, environment, frags
<1>1. ASSUME NEW t \in SmtcThreads, NEW frag \in SmtcReports, ApplySmtc(t, frag)
      PROVE  PairsCoherent'
  BY <1>1 DEF ApplySmtc
<1>2. ASSUME NEW t \in SmtcThreads, StoreSmtc(t)
      PROVE  PairsCoherent'
  BY <1>2, StoredAnchor DEF StoreSmtc
<1>3. CASE ApplyAudio
  BY <1>3 DEF ApplyAudio
<1>4. ASSUME NEW parse \in WindowTitles, ApplyTitle(parse)
      PROVE  PairsCoherent'
  BY <1>4 DEF ApplyTitle
<1>5. CASE ResetFragments
  BY <1>5, Defaults DEF ResetFragments
<1>6. ASSUME NEW t \in Threads, Fuse(t)
      PROVE  PairsCoherent'
  <2>1. Coherent(FuseFragments(smtcFrag, audioFrag, titleFrag), smtcAnchor)
    BY FuseFacts DEF TypeOK
  <2> QED
    BY <1>6, <2>1 DEF Fuse, TypeOK
<1>7. ASSUME NEW t \in Threads, SkipPublish(t)
      PROVE  PairsCoherent'
  BY <1>7, Defaults DEF SkipPublish, Return, TypeOK
<1>8. ASSUME NEW t \in Threads, Publish(t)
      PROVE  PairsCoherent'
  BY <1>8 DEF Publish
<1>9. ASSUME NEW t \in Threads, NEW s \in Signals, EmitEdge(t, s)
      PROVE  PairsCoherent'
  BY <1>9 DEF EmitEdge
<1>10. ASSUME NEW t \in Threads, EmitState(t)
       PROVE  PairsCoherent'
  BY <1>10, Defaults DEF EmitState, Return, TypeOK
<1>11. CASE MaybeFirePositionTick \/ EmitPosition \/ Tick \/ SampleChanges
  BY <1>11 DEF MaybeFirePositionTick, EmitPosition, Tick, SampleChanges
<1>12. CASE UNCHANGED vars
  BY <1>12 DEF vars
<1> QED
  BY <1>1, <1>2, <1>3, <1>4, <1>5, <1>6, <1>7, <1>8, <1>9, <1>10, <1>11, <1>12
     DEF Next, Step
-----------------------------------------------------------------------------
\* What is shown is a reported position plus time that has passed since.
LEMMA SmoothInRange ==
    ASSUME NEW a \in Anchors, NEW status, NEW duration \in Nat, NEW now \in Nat,
           a.valid => a.position <= MaxPosition /\ BootClock <= a.time /\ a.time <= now,
           BootClock <= now
    PROVE  SmoothPosition(a, status, duration, now) <= MaxPosition + (now - BootClock)
<1>1. CASE ~a.valid
  BY <1>1 DEF SmoothPosition
<1>2. CASE a.valid
  <2>1. a.position \in Nat /\ a.time \in Nat /\ now - a.time \in Nat
    BY <1>2 DEF Anchors
  <2>2. ExtrapolatePosition(status, a.position, duration, now - a.time)
          <= a.position + (now - a.time)
    BY <2>1, ExtrapolateBound
  <2>3. ExtrapolatePosition(status, a.position, duration, now - a.time) \in Nat
    BY <2>1, ExtrapolateType
  <2> QED
    BY <1>2, <2>1, <2>2, <2>3 DEF SmoothPosition
<1> QED
  BY <1>1, <1>2

\* An anchor that was taken since the client was created extrapolates to at most
\* the largest reported position plus the client's age.
LEMMA PullInRange ==
    ASSUME TypeOK, PositionsInRange
    PROVE  LatestPositionSmooth <= MaxPosition + (clock - BootClock)
<1>1. /\ latest.position \in Nat /\ latest.duration \in Nat
      /\ publishedAnchor \in Anchors /\ clock \in Nat
  BY DEF TypeOK, PlaybackStates
<1>2. CASE ~publishedAnchor.valid
  BY <1>1, <1>2 DEF LatestPositionSmooth, PositionsInRange
<1>3. CASE publishedAnchor.valid
  <2>1. SmoothPosition(publishedAnchor, latest.status, latest.duration, clock)
          <= MaxPosition + (clock - BootClock)
    BY <1>1, SmoothInRange DEF PositionsInRange, AnchorInRange
  <2> QED
    BY <1>3, <2>1 DEF LatestPositionSmooth
<1> QED
  BY <1>2, <1>3

\* A position tick shows no more than that, whatever happened since it was begun.
LEMMA ShownStep ==
    ASSUME TypeOK, TypeOK', PositionsInRange, PositionsInRange', NoUptimeShown,
           [Next]_vars
    PROVE  NoUptimeShown'
<1>1. LatestPositionSmooth' <= MaxPosition + (clock' - BootClock)
  <2>1. /\ latest'.position \in Nat /\ latest'.duration \in Nat
        /\ publishedAnchor' \in Anchors /\ clock' \in Nat
    BY DEF TypeOK, PlaybackStates
  <2>2. CASE ~publishedAnchor'.valid
    BY <2>1, <2>2 DEF LatestPositionSmooth, PositionsInRange
  <2>3. CASE publishedAnchor'.valid
    <3>1. SmoothPosition(publishedAnchor', latest'.status, latest'.duration, clock')
            <= MaxPosition + (clock' - BootClock)
      BY <2>1, SmoothInRange DEF PositionsInRange, AnchorInRange
    <3> QED
      BY <2>3, <3>1 DEF LatestPositionSmooth
  <2> QED
    BY <2>2, <2>3
<1>2. shown' <= MaxPosition + (clock' - BootClock)
  <2>1. CASE EmitPosition
    <3>1. /\ tick.anchor \in Anchors /\ tick.duration \in Nat /\ clock \in Nat
      BY DEF TypeOK
    <3>2. SmoothPosition(tick.anchor, tick.status, tick.duration, clock)
            <= MaxPosition + (clock - BootClock)
      BY <3>1, SmoothInRange DEF PositionsInRange, AnchorInRange
    <3> QED
      BY <2>1, <3>2 DEF EmitPosition, environment
  <2>2. CASE shown' = shown /\ (clock' = clock \/ clock' = clock + 1)
    <3>1. /\ shown \in Nat /\ clock \in Nat
          /\ MaxPosition \in Nat /\ BootClock \in Nat
      BY DEF TypeOK
    <3>2. shown <= MaxPosition + (clock - BootClock)
      BY DEF NoUptimeShown
    <3> QED
      BY <2>2, <3>1, <3>2
  <2>3. EmitPosition \/ (shown' = shown /\ (clock' = clock \/ clock' = clock + 1))
    BY DEF Next, Step, ApplySmtc, StoreSmtc, ApplyAudio, ApplyTitle, ResetFragments,
           Fuse, SkipPublish, Publish, EmitEdge, EmitState, MaybeFirePositionTick,
           Tick, SampleChanges, vars, subscriber, environment
  <2> QED
    BY <2>1, <2>2, <2>3
<1> QED
  BY <1>1, <1>2 DEF NoUptimeShown

\* The inductive invariant holds when the client is created.
LEMMA IInvInit == Init => IInv
<1> SUFFICES ASSUME Init PROVE IInv
  OBVIOUS
<1>1. TypeOK
  BY TypeInit
<1>2. OnlyEmittersOwe
  BY DEF Init, OnlyEmittersOwe
<1>3. PositionsInRange
  <2>1. /\ \A t \in SmtcThreads : call[t] = NoCall /\ pc[t] = "idle"
        /\ \A t \in Threads : out[t] = NoPlayback /\ anchor[t] = NoAnchor
        /\ smtcFrag = NoPlayback /\ latest = NoPlayback /\ tick = NoTick
        /\ smtcAnchor = NoAnchor /\ publishedAnchor = NoAnchor /\ clock = BootClock
    BY DEF Init, Threads
  <2>2. /\ NoCall.frag.position = 0 /\ NoTick.anchor = NoAnchor
        /\ NoPlayback.position = 0 /\ NoAnchor.valid = FALSE
    BY Defaults DEF NoCall, NoTick
  <2> QED
    BY <2>1, <2>2 DEF PositionsInRange, AnchorInRange
<1>4. PairsCoherent
  BY Defaults DEF Init, PairsCoherent, Coherent
<1>5. NoUptimeShown
  BY <1>1, <1>3, PullInRange DEF Init, NoUptimeShown
<1> QED
  BY <1>1, <1>2, <1>3, <1>4, <1>5 DEF IInv

\* The inductive invariant holds in every behaviour.
THEOREM Inductive == Spec => []IInv
<1>1. IInv /\ [Next]_vars => IInv'
  BY TypeStep, OwedStep, RangeStep, CoherenceStep, ShownStep DEF IInv
<1> QED
  BY IInvInit, <1>1, PTL DEF Spec

\* When nothing plays, LatestPositionSmooth() is the raw position of the
\* published state, however the threads overtake each other between fusing
\* and publishing.
THEOREM PausedPositionIsRaw == Spec => []SmoothIsRawUnlessPlaying
<1>1. IInv => SmoothIsRawUnlessPlaying
  BY DEF IInv, PairsCoherent, Coherent, SmoothIsRawUnlessPlaying, LatestPositionSmooth,
         SmoothPosition, ExtrapolatePosition
<1> QED
  BY Inductive, <1>1, PTL

\* Neither the pushed nor the pulled position ever counts from an anchor that
\* was not reported.
THEOREM NoPhantomUptime == Spec => []NoUptimeShown
<1>1. IInv => NoUptimeShown
  BY DEF IInv
<1> QED
  BY Inductive, <1>1, PTL

\* Every report of the media session is honoured within SnapThreshold at the
\* time it came in, in every interleaving of the SMTC threads.
THEOREM ReportsHonoured == Spec => ReportHonoured
<1>1. ASSUME TypeOK, NEW t \in SmtcThreads, StoreSmtc(t)
      PROVE  Distance(SmoothPosition(smtcAnchor', smtcFrag'.status, smtcFrag'.duration,
                                     call[t].now),
                      smtcFrag'.position) <= SnapThreshold
  <2>1. /\ call[t].frag \in SmtcFrags /\ call[t].now \in Nat
        /\ call[t].frag.position \in Nat /\ call[t].frag.duration \in Nat
        /\ smtcAnchor \in Anchors
    BY <1>1 DEF SmtcFrags, PlaybackStates, TypeOK
  <2>2. /\ smtcAnchor' = UpdateAnchor(smtcAnchor, smtcFrag.status, call[t].frag.status,
                                      call[t].frag.position, call[t].frag.duration,
                                      call[t].now)
        /\ smtcFrag' = call[t].frag
    BY <1>1 DEF StoreSmtc
  <2> QED
    BY <2>1, <2>2, UpdateAnchorHonoursReport
<1>2. TypeOK /\ [Next]_vars =>
        [\A t \in SmtcThreads : StoreSmtc(t) =>
            Distance(SmoothPosition(smtcAnchor', smtcFrag'.status, smtcFrag'.duration,
                                    call[t].now),
                     smtcFrag'.position) <= SnapThreshold]_vars
  BY <1>1
<1> QED
  BY TypeCorrect, <1>2, PTL DEF Spec, ReportHonoured
-----------------------------------------------------------------------------
(* The aggregator implements ChangeFeed.                                   *)

\* The feed's view of what a thread owes.
debts == [t \in Threads |-> owed[t] \X {out[t]}]

feed == <<latest, debts, seen, ads>>

\* The feed is about the same data.
LEMMA FeedData ==
    /\ Feed!NoPlayback = NoPlayback
    /\ Feed!PlaybackStates = PlaybackStates
    /\ Feed!Signals = Signals
    /\ \A s : Feed!AdStep(s) = AdStep(s)
    /\ \A a, b : Feed!IsTrackChange(a, b) <=> IsTrackChange(a, b)
BY DEF Feed!NoPlayback, NoPlayback, Feed!PlaybackStates, PlaybackStates, Feed!Texts, Texts,
       Feed!Statuses, Statuses, Feed!IsTrackChange, IsTrackChange, Feed!NoVolume, NoVolume,
       Feed!Signals, Signals, Feed!AdStep, AdStep

\* Replacing what one thread owes, in the feed's view.
LEMMA DebtsExcept ==
    ASSUME NEW t \in Threads, NEW D, debts'[t] = D,
           \A u \in Threads \ {t} : owed'[u] = owed[u] /\ out'[u] = out[u]
    PROVE  debts' = [debts EXCEPT ![t] = D]
BY DEF debts

\* A thread that owes nothing may change its local state unseen.
LEMMA DebtsUnchanged ==
    ASSUME NEW t \in Threads, OnlyEmittersOwe, pc[t] # "emit", owed' = owed,
           \A u \in Threads \ {t} : out'[u] = out[u]
    PROVE  debts' = debts
BY DEF debts, OnlyEmittersOwe

\* Replacing the published state is a Publish of the promise.
LEMMA PublishRefines ==
    ASSUME TypeOK, OnlyEmittersOwe, NEW t \in Threads, Publish(t)
    PROVE  Feed!Publish(t)
<1>1. /\ pc[t] = "publish" /\ owed[t] = {}
      /\ latest' = out[t] /\ latest # out[t]
      /\ out' = out /\ seen' = seen /\ ads' = ads
  BY DEF Publish, OnlyEmittersOwe, subscriber
<1>2. out[t] \in PlaybackStates
  BY DEF TypeOK
<1>3. owed' = [owed EXCEPT ![t] = Feed!Edges(latest, latest') \cup {"state"}]
  BY <1>1, FeedData DEF Publish, Edges, Feed!Edges
<1>4. debts' = [debts EXCEPT ![t] = Feed!Debt(latest, latest')]
  <2>1. debts'[t] = Feed!Debt(latest, latest')
    BY <1>1, <1>3 DEF debts, TypeOK, Feed!Debt
  <2>2. \A u \in Threads \ {t} : owed'[u] = owed[u] /\ out'[u] = out[u]
    BY <1>1, <1>3 DEF TypeOK
  <2> QED
    BY <2>1, <2>2, DebtsExcept
<1>5. debts[t] = {}
  BY <1>1 DEF debts
<1> QED
  BY <1>1, <1>2, <1>4, <1>5, FeedData DEF Feed!Publish, debts

\* Emitting an edge is a Notify of the promise.
LEMMA EmitEdgeRefines ==
    ASSUME TypeOK, NEW t \in Threads, NEW s \in Signals, EmitEdge(t, s)
    PROVE  Feed!Notify(t)
<1>1. /\ s \in owed[t] /\ s # "state"
      /\ owed' = [owed EXCEPT ![t] = @ \ {s}]
      /\ ads' = ads + AdStep(s)
      /\ out' = out /\ latest' = latest /\ seen' = seen
  BY DEF EmitEdge, published
<1> DEFINE n == <<s, out[t]>>
<1>2. n \in debts[t] /\ n[1] = s
  BY <1>1 DEF debts
<1>3. debts' = [debts EXCEPT ![t] = @ \ {n}]
  <2>1. owed'[t] = owed[t] \ {s} /\ out'[t] = out[t]
    BY <1>1 DEF TypeOK
  <2>2. debts'[t] = debts[t] \ {n}
    BY <2>1 DEF debts
  <2>3. \A u \in Threads \ {t} : owed'[u] = owed[u] /\ out'[u] = out[u]
    BY <1>1 DEF TypeOK
  <2> QED
    BY <2>2, <2>3, DebtsExcept
<1>4. ads' = ads + Feed!AdStep(n[1])
  BY <1>1, <1>2, FeedData
<1> QED
  BY <1>1, <1>2, <1>3, <1>4 DEF Feed!Notify, debts

\* Emitting the state is a Notify of the promise, and the last one owed.
LEMMA EmitStateRefines ==
    ASSUME TypeOK, NEW t \in Threads, EmitState(t)
    PROVE  Feed!Notify(t)
<1>1. /\ owed' = [owed EXCEPT ![t] = @ \ {"state"}]
      /\ seen' = out[t] /\ ads' = ads /\ latest' = latest
      /\ out' = [out EXCEPT ![t] = NoPlayback]
  BY DEF EmitState, Return, published
<1>2. owed[t] = {"state"}
  BY DEF EmitState, EmittedBefore, Signals, TypeOK
<1> DEFINE n == <<"state", out[t]>>
<1>3. debts[t] = {n} /\ n[1] = "state" /\ n[2] = out[t]
  BY <1>2 DEF debts
<1>4. debts' = [debts EXCEPT ![t] = @ \ {n}]
  <2>1. owed'[t] = {}
    BY <1>1, <1>2 DEF TypeOK
  <2>2. debts'[t] = debts[t] \ {n}
    BY <1>3, <2>1 DEF debts
  <2>3. \A u \in Threads \ {t} : owed'[u] = owed[u] /\ out'[u] = out[u]
    BY <1>1 DEF TypeOK
  <2> QED
    BY <2>2, <2>3, DebtsExcept
<1>5. ads' = ads + Feed!AdStep(n[1])
  BY <1>1 DEF Feed!AdStep, TypeOK
<1> QED
  BY <1>1, <1>3, <1>4, <1>5 DEF Feed!Notify, debts

\* Every step of the aggregator is a step of the promise or leaves it alone.
LEMMA FeedStep ==
    ASSUME IInv, [Next]_vars
    PROVE  [Feed!Next]_feed
<1>0. TypeOK /\ OnlyEmittersOwe
  BY DEF IInv
<1> USE DEF frags, published, locals, subscriber, environment
<1>1. ASSUME NEW t \in SmtcThreads, NEW frag \in SmtcReports, ApplySmtc(t, frag)
      PROVE  UNCHANGED feed
  BY <1>1 DEF ApplySmtc, feed, debts
<1>2. ASSUME NEW t \in SmtcThreads, StoreSmtc(t)
      PROVE  UNCHANGED feed
  BY <1>2 DEF StoreSmtc, feed, debts
<1>3. CASE ApplyAudio \/ ResetFragments \/ MaybeFirePositionTick \/ EmitPosition
             \/ Tick \/ SampleChanges
  BY <1>3 DEF ApplyAudio, ResetFragments, MaybeFirePositionTick, EmitPosition, Tick,
              SampleChanges, feed, debts
<1>4. ASSUME NEW parse \in WindowTitles, ApplyTitle(parse)
      PROVE  UNCHANGED feed
  BY <1>4 DEF ApplyTitle, feed, debts
<1>5. ASSUME NEW t \in Threads, Fuse(t) \/ SkipPublish(t)
      PROVE  UNCHANGED feed
  <2>1. pc[t] # "emit" /\ owed' = owed /\ latest' = latest /\ seen' = seen /\ ads' = ads
    BY <1>5 DEF Fuse, SkipPublish
  <2>2. \A u \in Threads \ {t} : out'[u] = out[u]
    BY <1>0, <1>5 DEF Fuse, SkipPublish, Return, TypeOK
  <2> QED
    BY <1>0, <2>1, <2>2, DebtsUnchanged DEF feed
<1>6. ASSUME NEW t \in Threads, Publish(t)
      PROVE  Feed!Next
  BY <1>0, <1>6, PublishRefines DEF Feed!Next
<1>7. ASSUME NEW t \in Threads, NEW s \in Signals, EmitEdge(t, s)
      PROVE  Feed!Next
  BY <1>0, <1>7, EmitEdgeRefines DEF Feed!Next
<1>8. ASSUME NEW t \in Threads, EmitState(t)
      PROVE  Feed!Next
  BY <1>0, <1>8, EmitStateRefines DEF Feed!Next
<1>9. CASE UNCHANGED vars
  BY <1>9 DEF vars, feed, debts
<1> QED
  BY <1>1, <1>2, <1>3, <1>4, <1>5, <1>6, <1>7, <1>8, <1>9 DEF Next, Step

\* The aggregator keeps its promise to subscribers: every publication differs
\* from the one it replaces, and is followed on its thread by one delivery per
\* edge and then one OnStateChanged with exactly that state.
THEOREM ImplementsFeed == Spec => FeedSafety
<1>1. Init => Feed!Init
  BY FeedData DEF Init, Feed!Init
<1>2. IInv /\ [Next]_vars => [Feed!Next]_(Feed!feedVars)
  BY FeedStep DEF Feed!feedVars, feed, debts
<1> QED
  BY Inductive, <1>1, <1>2, PTL DEF Spec, FeedSafety, Feed!SafetySpec

-----------------------------------------------------------------------------
(* The advertisement edges, counted over the aggregator's threads.         *)

Owing(s) == {t \in Threads : s \in owed[t]}

AdBalance ==
    ads + Cardinality(Owing("adStarted")) - Cardinality(Owing("adEnded"))
        = IF latest.isAd THEN 1 ELSE 0

\* There are finitely many threads, so those that owe an edge can be counted.
LEMMA FiniteThreads == IsFiniteSet(Threads)
<1>1. IsFiniteSet(SmtcThreads \cup {AudioWorker})
  BY FS_AddElement, AggregatorAssumption
<1>2. IsFiniteSet((SmtcThreads \cup {AudioWorker}) \cup {WindowThread})
  BY <1>1, FS_AddElement
<1>3. Threads = (SmtcThreads \cup {AudioWorker}) \cup {WindowThread}
  BY DEF Threads
<1> QED
  BY <1>2, <1>3

\* The threads that owe one of the signals are a finite set.
LEMMA OwingFinite ==
    ASSUME NEW s
    PROVE  IsFiniteSet(Owing(s)) /\ Cardinality(Owing(s)) \in Nat
BY FiniteThreads, FS_Subset, FS_CardinalityType DEF Owing

\* A step that leaves the counted variables alone, or only removes signals
\* that are not advertisement edges, keeps the balance.
LEMMA BalanceKept ==
    ASSUME AdBalance, ads' = ads, latest' = latest,
           \A t \in Threads, s \in {"adStarted", "adEnded"} :
               s \in owed'[t] <=> s \in owed[t]
    PROVE  AdBalance'
<1>1. \A s \in {"adStarted", "adEnded"} : Owing(s)' = Owing(s)
  BY DEF Owing
<1> QED
  BY <1>1 DEF AdBalance

\* Publishing owes exactly the edge between the two states, and emitting moves
\* one edge from owed to delivered: the balance is kept.
LEMMA BalanceStep ==
    ASSUME TypeOK, OnlyEmittersOwe, AdBalance, [Next]_vars
    PROVE  AdBalance'
<1> DEFINE S == Owing("adStarted")
           E == Owing("adEnded")
<1> USE DEF frags, published, locals, subscriber, environment
<1>0. /\ IsFiniteSet(S) /\ Cardinality(S) \in Nat
      /\ IsFiniteSet(E) /\ Cardinality(E) \in Nat
      /\ ads \in Int
  BY OwingFinite DEF TypeOK
<1>1. ASSUME NEW t \in Threads, Publish(t)
      PROVE  AdBalance'
  <2> DEFINE starts == ~latest.isAd /\ out[t].isAd
             ends   == latest.isAd /\ ~out[t].isAd
  <2>1. /\ latest' = out[t] /\ ads' = ads
        /\ owed[t] = {}
        /\ "adStarted" \in owed'[t] <=> starts
        /\ "adEnded" \in owed'[t] <=> ends
        /\ \A u \in Threads \ {t} : owed'[u] = owed[u]
    BY <1>1 DEF Publish, Edges, OnlyEmittersOwe, TypeOK
  <2>2. /\ t \notin S /\ t \notin E
        /\ S' = IF starts THEN S \cup {t} ELSE S
        /\ E' = IF ends THEN E \cup {t} ELSE E
    BY <2>1 DEF Owing
  <2>3. /\ Cardinality(S \cup {t}) = Cardinality(S) + 1
        /\ Cardinality(E \cup {t}) = Cardinality(E) + 1
    BY <1>0, <2>2, FS_AddElement
  <2>4. /\ Cardinality(S') = IF starts THEN Cardinality(S) + 1 ELSE Cardinality(S)
        /\ Cardinality(E') = IF ends THEN Cardinality(E) + 1 ELSE Cardinality(E)
    BY <2>2, <2>3
  <2>5. latest.isAd \in BOOLEAN /\ out[t].isAd \in BOOLEAN
    BY DEF TypeOK, PlaybackStates
  <2> HIDE DEF S, E
  <2>6. /\ ads + Cardinality(S) - Cardinality(E) = IF latest.isAd THEN 1 ELSE 0
        /\ AdBalance' <=> ads' + Cardinality(S') - Cardinality(E')
                            = IF latest'.isAd THEN 1 ELSE 0
    BY DEF AdBalance, S, E
  <2> QED
    BY <1>0, <2>1, <2>4, <2>5, <2>6
<1>2. ASSUME NEW t \in Threads, NEW s \in Signals, EmitEdge(t, s)
      PROVE  AdBalance'
  <2>1. /\ latest' = latest /\ ads' = ads + AdStep(s)
        /\ s \in owed[t]
        /\ owed'[t] = owed[t] \ {s}
        /\ \A u \in Threads \ {t} : owed'[u] = owed[u]
    BY <1>2 DEF EmitEdge, TypeOK
  <2>2. /\ s = "adStarted" => t \in S
        /\ s = "adEnded" => t \in E
        /\ S' = IF s = "adStarted" THEN S \ {t} ELSE S
        /\ E' = IF s = "adEnded" THEN E \ {t} ELSE E
    BY <2>1 DEF Owing
  <2>3. /\ Cardinality(S') = IF s = "adStarted" THEN Cardinality(S) - 1 ELSE Cardinality(S)
        /\ Cardinality(E') = IF s = "adEnded" THEN Cardinality(E) - 1 ELSE Cardinality(E)
    BY <1>0, <2>2, FS_RemoveElement
  <2> HIDE DEF S, E
  <2>4. /\ ads + Cardinality(S) - Cardinality(E) = IF latest.isAd THEN 1 ELSE 0
        /\ AdBalance' <=> ads' + Cardinality(S') - Cardinality(E')
                            = IF latest'.isAd THEN 1 ELSE 0
    BY DEF AdBalance, S, E
  <2> QED
    BY <1>0, <2>1, <2>3, <2>4 DEF AdStep
<1>3. ASSUME NEW t \in Threads, EmitState(t)
      PROVE  AdBalance'
  BY <1>3, BalanceKept DEF EmitState, TypeOK
<1>4. ASSUME NEW t \in SmtcThreads, NEW frag \in SmtcReports, ApplySmtc(t, frag)
      PROVE  AdBalance'
  BY <1>4, BalanceKept DEF ApplySmtc
<1>5. ASSUME NEW t \in SmtcThreads, StoreSmtc(t)
      PROVE  AdBalance'
  BY <1>5, BalanceKept DEF StoreSmtc
<1>6. CASE ApplyAudio \/ ResetFragments \/ MaybeFirePositionTick \/ EmitPosition
             \/ Tick \/ SampleChanges
  BY <1>6, BalanceKept DEF ApplyAudio, ResetFragments, MaybeFirePositionTick,
                           EmitPosition, Tick, SampleChanges
<1>7. ASSUME NEW parse \in WindowTitles, ApplyTitle(parse)
      PROVE  AdBalance'
  BY <1>7, BalanceKept DEF ApplyTitle
<1>8. ASSUME NEW t \in Threads, Fuse(t) \/ SkipPublish(t)
      PROVE  AdBalance'
  BY <1>8, BalanceKept DEF Fuse, SkipPublish
<1>9. CASE UNCHANGED vars
  BY <1>9, BalanceKept DEF vars
<1> QED
  BY <1>1, <1>2, <1>3, <1>4, <1>5, <1>6, <1>7, <1>8, <1>9 DEF Next, Step

\* What the feed calls owing a signal is owing it here.
LEMMA BalanceIsFeedBalance == AdBalance <=> AdEdgesBalance
<1>1. ASSUME NEW s
      PROVE  Feed!Owes(s) = Owing(s)
  <2>1. ASSUME NEW t \in Threads
        PROVE  (\E n \in debts[t] : n[1] = s) <=> s \in owed[t]
    <3>1. ASSUME s \in owed[t]
          PROVE  \E n \in debts[t] : n[1] = s
      <4>1. <<s, out[t]>> \in debts[t]
        BY <3>1 DEF debts
      <4> QED
        BY <4>1
    <3> QED
      BY <3>1 DEF debts
  <2> QED
    BY <2>1 DEF Feed!Owes, Owing, debts
<1>2. \A S : Feed!Cardinality(S) = Cardinality(S)
  BY DEF Feed!Cardinality, Cardinality
<1> QED
  BY <1>1, <1>2 DEF AdBalance, AdEdgesBalance, Feed!AdEdgesBalance

\* No interleaving of the threads loses or repeats an advertisement edge,
\* however many pool threads the media session uses: the notifications
\* delivered and still owed add up to whether the published state is an
\* advertisement.
THEOREM AdEdgesAddUp == Spec => []AdEdgesBalance
<1>1. Init => AdBalance
  <2> SUFFICES ASSUME Init
               PROVE  AdBalance
    OBVIOUS
  <2>1. Owing("adStarted") = {} /\ Owing("adEnded") = {}
    BY DEF Init, Owing
  <2>2. ads = 0 /\ latest.isAd = FALSE
    BY DEF Init, NoPlayback
  <2>3. Cardinality({}) = 0
    BY FS_EmptySet
  <2> QED
    BY <2>1, <2>2, <2>3 DEF AdBalance
<1>2. IInv /\ AdBalance /\ [Next]_vars => AdBalance'
  BY BalanceStep DEF IInv
<1> QED
  BY Inductive, BalanceIsFeedBalance, <1>1, <1>2, PTL DEF Spec
=============================================================================
