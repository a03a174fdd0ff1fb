----------------------------- MODULE Aggregator -----------------------------
(***************************************************************************)
(* SpotifyClient::Impl's aggregator: three kinds of threads hand in        *)
(* fragments, fuse them, publish the fused state when it differs from the  *)
(* last one, and notify the subscriber.                                    *)
(*                                                                         *)
(* Fragments are protected by fragMu, the published state by stateMu, and  *)
(* a thread gives up fragMu before it takes stateMu and stateMu before it  *)
(* notifies.  One action is therefore one critical section (or one callback *)
(* invocation) of one thread, and between two of them any other thread may *)
(* run.  One subscriber is connected to every signal.                      *)
(***************************************************************************)
EXTENDS Playback, Position, FiniteSets

CONSTANTS
    SmtcThreads,    \* WinRT pool threads that run RefreshAll or RebindSession
    AudioWorker,    \* the polling thread of AudioSession
    WindowThread,   \* the thread the WinEvent callbacks run on
    SmtcReports,    \* what the media session can report, and the empty report
    WindowTitles,   \* what ParseWindowTitle can return for a window title
    AudioSamples,   \* what one poll of the audio session can measure
    BootClock,      \* steady_clock when the client is created
    MaxPosition,    \* no report carries a larger position
    MaxClock,       \* bound on the clock
    MaxChanges      \* bound on the changes of the environment

Threads == SmtcThreads \cup {AudioWorker, WindowThread}

ASSUME AggregatorAssumption ==
    /\ IsFiniteSet(SmtcThreads)
    /\ AudioWorker \notin SmtcThreads
    /\ WindowThread \notin SmtcThreads \cup {AudioWorker}
    /\ SmtcReports \subseteq SmtcFrags
    /\ WindowTitles \subseteq TitleParses
    /\ AudioSamples \subseteq AudioFrags
    /\ BootClock \in Nat /\ MaxClock \in Nat /\ MaxChanges \in Nat
    /\ MaxPosition \in Nat
    /\ \A s \in SmtcReports : s.position <= MaxPosition

VARIABLES
    smtcFrag, smtcAnchor, audioFrag, titleFrag,     \* under fragMu
    latest, publishedAnchor,                        \* under stateMu
    pc,         \* where each thread is
    call,       \* an SMTC thread's report and the clock it read on entry
    out,        \* a thread's fused state, from FuseFragments until it returns
    anchor,     \* the anchor it copied along with the fragments
    owed,       \* the signals it has not emitted yet
    tick,       \* the worker's copy of the published state, for a position tick
    seen,       \* the last OnStateChanged payload delivered
    ads,        \* OnAdStarted minus OnAdEnded notifications delivered
    shown,      \* the last OnPositionChanged payload delivered
    clock,      \* steady_clock
    sample,     \* what the audio session would measure now
    changes     \* how often the environment has changed

frags == <<smtcFrag, smtcAnchor, audioFrag, titleFrag>>
published == <<latest, publishedAnchor>>
locals == <<pc, call, out, anchor, owed, tick>>
subscriber == <<seen, ads, shown>>
environment == <<clock, sample, changes>>
vars == <<frags, published, locals, subscriber, environment>>

Signals == {"track", "adStarted", "adEnded", "state"}

\* Aggregate emits the signals in this order.
EmittedBefore(s) ==
    CASE s = "track"     -> {}
      [] s = "adStarted" -> {"track"}
      [] s = "adEnded"   -> {"track", "adStarted"}
      [] s = "state"     -> {"track", "adStarted", "adEnded"}

AdStep(s) == IF s = "adStarted" THEN 1 ELSE IF s = "adEnded" THEN -1 ELSE 0

NoCall == [frag |-> NoPlayback, now |-> 0]
NoTick == [status |-> "Unknown", duration |-> 0, anchor |-> NoAnchor]

Init ==
    /\ smtcFrag = NoPlayback /\ smtcAnchor = NoAnchor
    /\ audioFrag = NoAudio /\ titleFrag = NoTitle
    /\ latest = NoPlayback /\ publishedAnchor = NoAnchor
    /\ pc = [t \in Threads |-> "idle"]
    /\ call = [t \in SmtcThreads |-> NoCall]
    /\ out = [t \in Threads |-> NoPlayback]
    /\ anchor = [t \in Threads |-> NoAnchor]
    /\ owed = [t \in Threads |-> {}]
    /\ tick = NoTick
    /\ seen = NoPlayback /\ ads = 0 /\ shown = 0
    /\ clock = BootClock /\ changes = 0
    /\ sample \in AudioSamples

-----------------------------------------------------------------------------
(* Fragment ingestion.                                                     *)

\* ApplySmtc reads the clock before it takes fragMu.
ApplySmtc(t, frag) ==
    /\ pc[t] = "idle"
    /\ changes < MaxChanges
    /\ changes' = changes + 1
    /\ call' = [call EXCEPT ![t] = [frag |-> frag, now |-> clock]]
    /\ pc' = [pc EXCEPT ![t] = "store"]
    /\ UNCHANGED <<frags, published, out, anchor, owed, tick, subscriber, clock, sample>>

StoreSmtc(t) ==
    /\ pc[t] = "store"
    /\ LET frag == call[t].frag
       IN  /\ smtcAnchor' = UpdateAnchor(smtcAnchor, smtcFrag.status, frag.status,
                                         frag.position, frag.duration, call[t].now)
           /\ smtcFrag' = frag
    /\ call' = [call EXCEPT ![t] = NoCall]
    /\ pc' = [pc EXCEPT ![t] = "fuse"]
    /\ UNCHANGED <<audioFrag, titleFrag, published, out, anchor, owed, tick,
                   subscriber, environment>>

\* Mutant: an unchanged measurement is not worth an aggregation.
ApplyAudioIfChanged ==
    /\ pc[AudioWorker] = "idle"
    /\ audioFrag' = [sample EXCEPT !.vol = IF sample.resolved THEN @ ELSE NoVolume]
    /\ pc' = [pc EXCEPT ![AudioWorker] = IF audioFrag' = audioFrag THEN "idle" ELSE "fuse"]
    /\ UNCHANGED <<smtcFrag, smtcAnchor, titleFrag, published, call, out, anchor,
                   owed, tick, subscriber, environment>>

\* One poll of the worker.  It stores what it measured, changed or not.
ApplyAudio ==
    /\ pc[AudioWorker] = "idle"
    /\ audioFrag' = [sample EXCEPT !.vol = IF sample.resolved THEN @ ELSE NoVolume]
    /\ pc' = [pc EXCEPT ![AudioWorker] = "fuse"]
    /\ UNCHANGED <<smtcFrag, smtcAnchor, titleFrag, published, call, out, anchor,
                   owed, tick, subscriber, environment>>

ApplyTitle(parse) ==
    /\ pc[WindowThread] = "idle"
    /\ changes < MaxChanges
    /\ changes' = changes + 1
    /\ titleFrag' = [isAd |-> parse.isAd, artist |-> parse.artist,
                     title |-> parse.title, status |-> parse.status, any |-> TRUE]
    /\ pc' = [pc EXCEPT ![WindowThread] = "fuse"]
    /\ UNCHANGED <<smtcFrag, smtcAnchor, audioFrag, published, call, out, anchor,
                   owed, tick, subscriber, clock, sample>>

\* The Spotify window closed.  Nothing is fused or published here.
ResetFragments ==
    /\ pc[WindowThread] = "idle"
    /\ changes < MaxChanges
    /\ changes' = changes + 1
    /\ smtcFrag' = NoPlayback
    /\ smtcAnchor' = NoAnchor
    /\ audioFrag' = NoAudio
    /\ titleFrag' = NoTitle
    /\ UNCHANGED <<published, locals, subscriber, clock, sample>>

-----------------------------------------------------------------------------
(* Aggregate, run by whichever thread handed in a fragment.                *)

Fuse(t) ==
    /\ pc[t] = "fuse"
    /\ out' = [out EXCEPT ![t] = FuseFragments(smtcFrag, audioFrag, titleFrag)]
    /\ anchor' = [anchor EXCEPT ![t] = smtcAnchor]
    /\ pc' = [pc EXCEPT ![t] = "publish"]
    /\ UNCHANGED <<frags, published, call, owed, tick, subscriber, environment>>

\* The locals of a call that returns are gone.
Return(t) ==
    /\ pc' = [pc EXCEPT ![t] = "idle"]
    /\ out' = [out EXCEPT ![t] = NoPlayback]
    /\ anchor' = [anchor EXCEPT ![t] = NoAnchor]

\* Mutant: the start of an advertisement is signalled whenever there is one.
EdgesAdLevel(prev, cur) ==
       {s \in {"track"}     : IsTrackChange(prev, cur)}
  \cup {s \in {"adStarted"} : cur.isAd}
  \cup {s \in {"adEnded"}   : prev.isAd /\ ~cur.isAd}

\* The edge signals between two published states.
Edges(prev, cur) ==
       {s \in {"track"}     : IsTrackChange(prev, cur)}
  \cup {s \in {"adStarted"} : ~prev.isAd /\ cur.isAd}
  \cup {s \in {"adEnded"}   : prev.isAd /\ ~cur.isAd}

SkipPublish(t) ==
    /\ pc[t] = "publish"
    /\ latest = out[t]
    /\ Return(t)
    /\ UNCHANGED <<frags, published, call, owed, tick, subscriber, environment>>

\* Mutant: the anchor is read again instead of copied with the fragments.
PublishFreshAnchor(t) ==
    /\ pc[t] = "publish"
    /\ latest # out[t]
    /\ latest' = out[t]
    /\ publishedAnchor' = smtcAnchor
    /\ owed' = [owed EXCEPT ![t] = Edges(latest, out[t]) \cup {"state"}]
    /\ pc' = [pc EXCEPT ![t] = "emit"]
    /\ UNCHANGED <<frags, call, out, anchor, tick, subscriber, environment>>

Publish(t) ==
    /\ pc[t] = "publish"
    /\ latest # out[t]
    /\ latest' = out[t]
    /\ publishedAnchor' = anchor[t]
    /\ owed' = [owed EXCEPT ![t] = Edges(latest, out[t]) \cup {"state"}]
    /\ pc' = [pc EXCEPT ![t] = "emit"]
    /\ UNCHANGED <<frags, call, out, anchor, tick, subscriber, environment>>

EmitEdge(t, s) ==
    /\ pc[t] = "emit"
    /\ s \in owed[t] \ {"state"}
    /\ owed[t] \cap EmittedBefore(s) = {}
    /\ owed' = [owed EXCEPT ![t] = @ \ {s}]
    /\ ads' = ads + AdStep(s)
    /\ UNCHANGED <<frags, published, pc, call, out, anchor, tick, seen, shown,
                   environment>>

\* Mutant: the state is read again for the notification.
EmitLatest(t) ==
    /\ pc[t] = "emit"
    /\ "state" \in owed[t]
    /\ owed[t] \cap EmittedBefore("state") = {}
    /\ owed' = [owed EXCEPT ![t] = @ \ {"state"}]
    /\ seen' = latest
    /\ Return(t)
    /\ UNCHANGED <<frags, published, call, tick, ads, shown, environment>>

EmitState(t) ==
    /\ pc[t] = "emit"
    /\ "state" \in owed[t]
    /\ owed[t] \cap EmittedBefore("state") = {}
    /\ owed' = [owed EXCEPT ![t] = @ \ {"state"}]
    /\ seen' = out[t]
    /\ Return(t)
    /\ UNCHANGED <<frags, published, call, tick, ads, shown, environment>>

-----------------------------------------------------------------------------
(* The position tick, between two polls of the worker.                     *)

MaybeFirePositionTick ==
    /\ pc[AudioWorker] = "idle"
    /\ latest.status = "Playing" /\ publishedAnchor.valid
    /\ tick' = [status |-> latest.status, duration |-> latest.duration,
                anchor |-> publishedAnchor]
    /\ pc' = [pc EXCEPT ![AudioWorker] = "tick"]
    /\ UNCHANGED <<frags, published, call, out, anchor, owed, subscriber, environment>>

EmitPosition ==
    /\ pc[AudioWorker] = "tick"
    /\ shown' = SmoothPosition(tick.anchor, tick.status, tick.duration, clock)
    /\ tick' = NoTick
    /\ pc' = [pc EXCEPT ![AudioWorker] = "idle"]
    /\ UNCHANGED <<frags, published, call, out, anchor, owed, seen, ads, environment>>

\* What any thread is told at any time.
LatestPositionSmooth ==
    IF ~publishedAnchor.valid THEN latest.position
    ELSE SmoothPosition(publishedAnchor, latest.status, latest.duration, clock)

-----------------------------------------------------------------------------
(* The environment: time passes, the audio session measures something else. *)

Tick ==
    /\ clock < MaxClock
    /\ clock' = clock + 1
    /\ UNCHANGED <<frags, published, locals, subscriber, sample, changes>>

SampleChanges ==
    /\ changes < MaxChanges
    /\ changes' = changes + 1
    /\ sample' \in AudioSamples \ {sample}
    /\ UNCHANGED <<frags, published, locals, subscriber, clock>>

\* What a thread does once it has been handed a fragment.
Step(t) ==
    \/ Fuse(t)
    \/ SkipPublish(t)
    \/ Publish(t)
    \/ \E s \in Signals : EmitEdge(t, s)
    \/ EmitState(t)

Next ==
    \/ \E t \in SmtcThreads : \/ \E frag \in SmtcReports : ApplySmtc(t, frag)
                              \/ StoreSmtc(t)
    \/ ApplyAudio
    \/ \E parse \in WindowTitles : ApplyTitle(parse)
    \/ ResetFragments
    \/ \E t \in Threads : Step(t)
    \/ MaybeFirePositionTick
    \/ EmitPosition
    \/ Tick
    \/ SampleChanges

\* A thread that is inside a call goes on, and the worker keeps polling until
\* Stop joins it.  Nothing makes the environment act.
Fairness ==
    /\ \A t \in Threads : WF_vars(Step(t))
    /\ \A t \in SmtcThreads : WF_vars(StoreSmtc(t))
    /\ WF_vars(EmitPosition)
    /\ SF_vars(ApplyAudio)

Spec == Init /\ [][Next]_vars

FairSpec == Spec /\ Fairness

-----------------------------------------------------------------------------
(* Properties.                                                             *)

Places == {"idle", "store", "fuse", "publish", "emit", "tick"}

\* Every variable has its type.
TypeOK ==
    /\ smtcFrag \in SmtcFrags /\ smtcAnchor \in Anchors
    /\ audioFrag \in AudioFrags /\ titleFrag \in TitleFrags
    /\ latest \in PlaybackStates /\ publishedAnchor \in Anchors
    /\ pc \in [Threads -> Places]
    /\ call \in [SmtcThreads -> [frag : SmtcFrags, now : Nat]]
    /\ out \in [Threads -> PlaybackStates]
    /\ anchor \in [Threads -> Anchors]
    /\ owed \in [Threads -> SUBSET Signals]
    /\ tick \in [status : Statuses, duration : Nat, anchor : Anchors]
    /\ seen \in PlaybackStates /\ ads \in Int /\ shown \in Nat
    /\ clock \in Nat /\ sample \in AudioFrags /\ changes \in Nat

\* The published state and the published anchor always belong together: when
\* nothing plays, the smoothed position is the raw position of the state
\* (c_api.h says they are the same), although the two are fused, copied and
\* published by threads that overtake each other.  The exception is a state
\* that carries nothing of the media session's report.
CarriesReport(s) == s.album # Empty \/ s.position # 0 \/ s.duration # 0

SmoothIsRawUnlessPlaying ==
    latest.status # "Playing" /\ CarriesReport(latest)
        => LatestPositionSmooth = latest.position

\* No position counts from the default-constructed anchor: whatever is shown
\* or returned is at most a reported position plus the time the client has
\* been running (CHANGELOG 0.3.4, "bogus system uptime").
NoUptimeShown ==
    /\ LatestPositionSmooth <= MaxPosition + (clock - BootClock)
    /\ shown <= MaxPosition + (clock - BootClock)

\* A report of the media session is honoured: the anchor it leaves behind,
\* moved or kept, yields a position within SnapThreshold of the reported one
\* at the time the report came in.
ReportHonoured ==
    [][\A t \in SmtcThreads : StoreSmtc(t) =>
          Distance(SmoothPosition(smtcAnchor', smtcFrag'.status, smtcFrag'.duration,
                                  call[t].now),
                   smtcFrag'.position) <= SnapThreshold]_vars

\* Threads may publish an older fusion over a newer one, but the next poll of
\* the worker fuses again: once the environment is quiet, the published state
\* is and stays the fusion of the stored fragments.
LatestConverges ==
    <>[](latest = FuseFragments(smtcFrag, audioFrag, titleFrag))

\* The inductive strengthening of the invariants above.  Only a thread that
\* emits owes anything; every anchor and every clock reading lies between the
\* boot clock and now; and at each of the places a state and its anchor are
\* kept together (the fragments, a thread's copies, the published pair) the
\* anchor of a state that does not play is the state's position.
OnlyEmittersOwe == \A t \in Threads : pc[t] # "emit" => owed[t] = {}

AnchorInRange(a) ==
    a.valid => a.position <= MaxPosition /\ BootClock <= a.time /\ a.time <= clock

PositionsInRange ==
    /\ BootClock <= clock
    /\ \A t \in SmtcThreads :
          /\ call[t].frag.position <= MaxPosition
          /\ pc[t] = "store" => BootClock <= call[t].now /\ call[t].now <= clock
    /\ smtcFrag.position <= MaxPosition /\ latest.position <= MaxPosition
    /\ AnchorInRange(smtcAnchor) /\ AnchorInRange(publishedAnchor)
    /\ AnchorInRange(tick.anchor)
    /\ \A t \in Threads : out[t].position <= MaxPosition /\ AnchorInRange(anchor[t])

Coherent(s, a) ==
    a.valid /\ s.status # "Playing" /\ CarriesReport(s) => a.position = s.position

PairsCoherent ==
    /\ smtcAnchor.valid /\ smtcFrag.status # "Playing"
          => smtcAnchor.position = smtcFrag.position
    /\ Coherent(latest, publishedAnchor)
    /\ \A t \in Threads : Coherent(out[t], anchor[t])

IInv == TypeOK /\ OnlyEmittersOwe /\ PositionsInRange /\ PairsCoherent /\ NoUptimeShown

\* The promise to subscribers, implemented by the aggregator.
Feed == INSTANCE ChangeFeed WITH
            Publishers <- Threads,
            current    <- latest,
            owed       <- [t \in Threads |-> owed[t] \X {out[t]}]

FeedSafety == Feed!SafetySpec
FeedSpec   == Feed!Spec
AdEdgesBalance == Feed!AdEdgesBalance

\* README.md, "Reading state": the push and the pull path give the same
\* state.  When no thread is inside a call, the last pushed state is the one
\* LatestState() returns.
PushEqualsPull == (\A t \in Threads : pc[t] = "idle") => seen = latest

\* CHANGELOG 0.3.0 and client.h: an update of unrelated fields (volume, mute,
\* audible, isAd) does not move the smoothed position; a skew of up to
\* SnapThreshold is allowed for here.  Overtaking threads are not to blame:
\* what is published is the up-to-date fusion, and the audio session is bound.
UnrelatedUpdate(old, new) ==
    /\ ~IsTrackChange(old, new)
    /\ old.status = new.status
    /\ old.position = new.position /\ old.duration = new.duration
    /\ NoVolume \notin {old.appVolume, new.appVolume}

UpToDate(t) ==
    /\ out[t] = FuseFragments(smtcFrag, audioFrag, titleFrag)
    /\ anchor[t] = smtcAnchor

NoJumpOnUnrelatedUpdate ==
    [][\A t \in Threads :
          Publish(t) /\ UpToDate(t) /\ UnrelatedUpdate(latest, latest')
          => Distance(LatestPositionSmooth', LatestPositionSmooth) <= SnapThreshold]_vars
=============================================================================
