----------------------------- MODULE ChangeFeed -----------------------------
(***************************************************************************)
(* What the client promises a subscriber, without fragments, fusion or     *)
(* clocks: there is one current state; a publisher replaces it by a        *)
(* different one and then owes the subscriber one OnStateChanged carrying  *)
(* the new state, preceded by one notification for every edge between the  *)
(* old and the new state; a publisher pays what it owes before it          *)
(* publishes again, and publishers do not wait for each other.             *)
(***************************************************************************)
EXTENDS Playback, FiniteSets

CONSTANT Publishers

VARIABLES
    current,    \* what LatestState() returns
    owed,       \* publisher -> the <<signal, state>> notifications it owes
    seen,       \* the state the subscriber was last handed
    ads         \* OnAdStarted minus OnAdEnded notifications handed over

Signals == {"track", "adStarted", "adEnded", "state"}

feedVars == <<current, owed, seen, ads>>

Edges(old, new) ==
       {s \in {"track"}     : IsTrackChange(old, new)}
  \cup {s \in {"adStarted"} : ~old.isAd /\ new.isAd}
  \cup {s \in {"adEnded"}   : old.isAd /\ ~new.isAd}

Debt(old, new) == (Edges(old, new) \cup {"state"}) \X {new}

AdStep(signal) ==
    IF signal = "adStarted" THEN 1 ELSE IF signal = "adEnded" THEN -1 ELSE 0

Init ==
    /\ current = NoPlayback
    /\ owed = [p \in Publishers |-> {}]
    /\ seen = NoPlayback
    /\ ads = 0

Publish(p) ==
    /\ owed[p] = {}
    /\ current' \in PlaybackStates \ {current}
    /\ owed' = [owed EXCEPT ![p] = Debt(current, current')]
    /\ UNCHANGED <<seen, ads>>

\* The state is handed over last, the edges in any order before it.
Notify(p) ==
    \E n \in owed[p] :
        /\ n[1] = "state" => owed[p] = {n}
        /\ owed' = [owed EXCEPT ![p] = @ \ {n}]
        /\ seen' = IF n[1] = "state" THEN n[2] ELSE seen
        /\ ads' = ads + AdStep(n[1])
        /\ UNCHANGED current

Next == \E p \in Publishers : Publish(p) \/ Notify(p)

SafetySpec == Init /\ [][Next]_feedVars

Spec == SafetySpec /\ \A p \in Publishers : WF_feedVars(Notify(p))

-----------------------------------------------------------------------------
\* Every variable has its type.
FeedTypeOK ==
    /\ current \in PlaybackStates
    /\ owed \in [Publishers -> SUBSET (Signals \X PlaybackStates)]
    /\ seen \in PlaybackStates
    /\ ads \in Int

Owes(signal) == {p \in Publishers : \E n \in owed[p] : n[1] = signal}

\* The advertisement edges add up: what was handed over plus what is still
\* owed is exactly whether the current state is an advertisement, so no
\* interleaving of publishers loses or repeats an edge.
AdEdgesBalance ==
    ads + Cardinality(Owes("adStarted")) - Cardinality(Owes("adEnded"))
        = IF current.isAd THEN 1 ELSE 0

\* Nothing is owed, so the subscriber has been handed the current state.
\* This holds with a single publisher only.
SettledSubscriberIsCurrent == (\A p \in Publishers : owed[p] = {}) => seen = current
=============================================================================
