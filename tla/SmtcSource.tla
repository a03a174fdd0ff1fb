----------------------------- MODULE SmtcSource -----------------------------
(***************************************************************************)
(* SmtcSource: the library's view of the system media transport controls.  *)
(* Windows raises events, on pool threads, when the list of media sessions *)
(* changes (RebindSession looks for Spotify's session and subscribes to    *)
(* it) and when the content of a subscribed session changes (RefreshAll    *)
(* reads it and hands it to the aggregator).  The owner runs Start, which  *)
(* rebinds once itself, and Stop.                                          *)
(*                                                                         *)
(* No lock protects the source's fields, so each step below is one access  *)
(* to them or one call to Windows; an access to the session pointer is     *)
(* taken to be indivisible.  The three handlers of a session are           *)
(* registered and revoked together and are one registration.  smtcState is *)
(* written and never read, and left out.  A content is a version number:   *)
(* 0 is the default, which a read that throws leaves.                      *)
(*                                                                         *)
(* Nothing serialises the handlers: any number of them run at once, with   *)
(* each other and with Setup.  late and mishap record what the code does   *)
(* not put right afterwards: a report handed over after one that was begun *)
(* later, and two calls of RebindSession that overlap.                     *)
(***************************************************************************)
EXTENDS Integers, FiniteSets

CONSTANTS
    MaxSession,     \* bound on the media sessions Spotify ever has
    Owner,          \* the thread that calls Start and Stop
    PoolThreads,    \* the threads Windows raises events on
    MaxChanges      \* bound on the changes of the environment

Threads == PoolThreads \cup {Owner}

\* The n-th session; one that is gone does not come back.
Sessions == 1 .. MaxSession
NoSession == 0

ASSUME SmtcSourceAssumption ==
    /\ MaxSession \in Nat
    /\ Owner \notin PoolThreads
    /\ MaxChanges \in Nat

VARIABLES
    present,    \* the session GetSessions shows for Spotify
    newest,     \* the last session there was
    content,    \* the version of each session's content
    changes,    \* how often the environment has changed
    due,        \* events raised and not delivered yet
    running, mgr, session,
    token,      \* the registration the token fields stand for, or 0
    handlers,   \* what is registered with Windows: the session of each id
    pc,         \* where each thread is
    found,      \* RebindSession's local
    report,     \* RefreshAll's locals: the session and what was read of it
    frag,       \* the last fragment handed to ApplySmtc
    unseen,     \* the last search for the session has thrown
    mishap      \* two calls of RebindSession have overlapped, or one has thrown

environment == <<present, newest, content, changes>>
source == <<running, mgr, session>>
subscription == <<token, handlers>>
locals == <<found, report>>
history == <<unseen, mishap>>
vars == <<environment, due, source, subscription, pc, locals, frag, history>>

\* late: another report has been handed over since this one was begun.
Blank(s) == [session |-> s, props |-> 0, info |-> 0, timeline |-> 0, late |-> FALSE]

\* PlaybackState{}
NoReport == Blank(NoSession)

Init ==
    /\ newest \in {0, 1} /\ newest <= MaxSession /\ present = newest
    /\ content = [s \in Sessions |-> 1] /\ changes = 0
    /\ due = {}
    /\ running = FALSE /\ mgr = FALSE /\ session = NoSession
    /\ token = 0 /\ handlers = <<>>
    /\ pc = [t \in Threads |-> IF t = Owner THEN "new" ELSE "idle"]
    /\ found = [t \in Threads |-> NoSession]
    /\ report = [t \in Threads |-> NoReport]
    /\ frag = NoReport /\ unseen = FALSE /\ mishap = FALSE

Goto(t, place) == pc' = [pc EXCEPT ![t] = place]

\* A handler returns to the pool, Setup to its caller.
Returns(t) == Goto(t, IF t = Owner THEN "started" ELSE "idle")

\* It had nothing to hand over; its locals are gone.
Done(t) ==
    /\ Returns(t)
    /\ found' = [found EXCEPT ![t] = NoSession]
    /\ report' = [report EXCEPT ![t] = NoReport]

-----------------------------------------------------------------------------
(* RebindSession.                                                          *)

\* The session is being looked for, and what will come of it is not in place yet.
Rebinding(t) == pc[t] \in {"compare", "assign", "subscribe"}

\* The search finds s, or it throws and has found nothing.
Finds(t, s) ==
    /\ pc[t] = "find" /\ mgr
    /\ \/ found' = [found EXCEPT ![t] = s] /\ unseen' = FALSE
       \/ found' = [found EXCEPT ![t] = NoSession] /\ unseen' = TRUE
    /\ mishap' = (mishap \/ \E u \in Threads : u # t /\ Rebinding(u))
    /\ Goto(t, "compare")
    /\ UNCHANGED <<environment, due, source, subscription, report, frag>>

\* Mutant: a session that is bound already is not looked for.
FindUnlessBound(t) == Finds(t, IF session = NoSession THEN present ELSE session)

Find(t) == Finds(t, present)

FindNothing(t) ==
    /\ pc[t] = "find" /\ ~mgr
    /\ Done(t)
    /\ UNCHANGED <<environment, due, source, subscription, frag, history>>

SameSession(t) ==
    /\ pc[t] = "compare" /\ found[t] = session
    /\ Done(t)
    /\ UNCHANGED <<environment, due, source, subscription, frag, history>>

\* UnsubscribeSession; a token of another session revokes nothing.
Revoke ==
    IF session = NoSession THEN UNCHANGED subscription
    ELSE /\ handlers' = [i \in {j \in DOMAIN handlers :
                                    ~(j = token /\ handlers[j] = session)} |-> handlers[i]]
         /\ token' = 0

\* Mutant: the handlers of the session that is left stay registered.
SwitchAway(t) ==
    /\ pc[t] = "compare" /\ found[t] # session
    /\ Goto(t, "assign")
    /\ UNCHANGED <<environment, due, source, subscription, locals, frag, history>>

Unsubscribe(t) ==
    /\ pc[t] = "compare" /\ found[t] # session
    /\ Revoke
    /\ Goto(t, "assign")
    /\ UNCHANGED <<environment, due, source, locals, frag, history>>

Assign(t) ==
    /\ pc[t] = "assign"
    /\ session' = found[t] /\ found' = [found EXCEPT ![t] = NoSession]
    /\ Goto(t, "subscribe")
    /\ UNCHANGED <<environment, due, running, mgr, subscription, report, frag, history>>

\* Registrations are told apart by the lowest number that is not in use.
Unused == CHOOSE i \in 1 .. Cardinality(DOMAIN handlers) + 1 : i \notin DOMAIN handlers

Register ==
    /\ token' = Unused
    /\ handlers' = [i \in DOMAIN handlers \cup {Unused} |->
                        IF i = Unused THEN session ELSE handlers[i]]

\* Mutant: no test for a null session.
SubscribeUnchecked(t) ==
    /\ pc[t] = "subscribe"
    /\ Register
    /\ Goto(t, "decide")
    /\ UNCHANGED <<environment, due, source, locals, frag, history>>

Subscribe(t) ==
    /\ pc[t] = "subscribe"
    /\ IF session = NoSession THEN UNCHANGED subscription ELSE Register
    /\ Goto(t, "decide")
    /\ UNCHANGED <<environment, due, source, locals, frag, history>>

\* The first or a later registration throws: the pool swallows what a handler
\* throws, Start what Setup does.
SubscribeThrows(t) ==
    /\ pc[t] = "subscribe" /\ session # NoSession
    /\ UNCHANGED subscription \/ Register
    /\ running' = (running /\ t # Owner)
    /\ mishap' = TRUE
    /\ Done(t)
    /\ UNCHANGED <<environment, due, mgr, session, frag, unseen>>

\* Mutant: the fragment of a session that is gone stays.
OnlyRefresh(t) ==
    /\ pc[t] = "decide"
    /\ Goto(t, "snapshot")
    /\ UNCHANGED <<environment, due, source, subscription, locals, frag, history>>

\* A new session is read, no session is an empty report.
Decide(t) ==
    /\ pc[t] = "decide"
    /\ Goto(t, IF session = NoSession THEN "apply" ELSE "snapshot")
    /\ UNCHANGED <<environment, due, source, subscription, locals, frag, history>>

-----------------------------------------------------------------------------
(* RefreshAll, and the call of ApplySmtc.                                  *)

Snapshot(t) ==
    /\ pc[t] = "snapshot" /\ session # NoSession
    /\ report' = [report EXCEPT ![t] = Blank(session)]
    /\ Goto(t, "props")
    /\ UNCHANGED <<environment, due, source, subscription, found, frag, history>>

SnapshotNothing(t) ==
    /\ pc[t] = "snapshot" /\ session = NoSession
    /\ Done(t)
    /\ UNCHANGED <<environment, due, source, subscription, frag, history>>

\* A read throws and leaves the report as it is, or makes it what it says.
Read(t, told, next) ==
    /\ report' = report \/ report' = [report EXCEPT ![t] = told]
    /\ Goto(t, next)
    /\ UNCHANGED <<environment, due, source, subscription, found, frag, history>>

Now(t) == content[report[t].session]

ReadProps(t) ==
    pc[t] = "props" /\ Read(t, [report[t] EXCEPT !.props = Now(t)], "info")

ReadInfo(t) ==
    pc[t] = "info" /\ Read(t, [report[t] EXCEPT !.info = Now(t)], "timeline")

ReadTimeline(t) ==
    pc[t] = "timeline" /\ Read(t, [report[t] EXCEPT !.timeline = Now(t)], "apply")

\* Whoever is about to hand over a report of his own comes late with it.
Reporting(t) == pc[t] \in {"props", "info", "timeline", "apply"}

Apply(t) ==
    /\ pc[t] = "apply"
    /\ frag' = report[t]
    /\ report' = [u \in Threads |->
                    IF u = t THEN NoReport
                    ELSE IF Reporting(u) THEN [report[u] EXCEPT !.late = TRUE]
                    ELSE report[u]]
    /\ Returns(t)
    /\ UNCHANGED <<environment, due, source, subscription, found, history>>

-----------------------------------------------------------------------------
(* Start: Setup.  Stop: Teardown.                                          *)

Start ==
    /\ pc[Owner] = "new"
    /\ running' = TRUE
    /\ Goto(Owner, "setup")
    /\ UNCHANGED <<environment, due, mgr, session, subscription, locals, frag, history>>

\* The handlers for the list of sessions are registered before it is read.
SetupManager ==
    /\ pc[Owner] = "setup"
    /\ mgr' = TRUE
    /\ Goto(Owner, "find")
    /\ UNCHANGED <<environment, due, running, session, subscription, locals, frag, history>>

\* Windows before 1809, or any other error: the source is silently disabled,
\* but what Setup has registered by then stays.
SetupFails ==
    /\ pc[Owner] = "setup"
    /\ running' = FALSE /\ mgr' \in BOOLEAN
    /\ Goto(Owner, "started")
    /\ UNCHANGED <<environment, due, session, subscription, locals, frag, history>>

Stop ==
    /\ pc[Owner] = "started"
    /\ running' = FALSE
    /\ Goto(Owner, IF running THEN "teardown" ELSE "stopped")
    /\ UNCHANGED <<environment, due, mgr, session, subscription, locals, frag, history>>

TeardownSubscription ==
    /\ pc[Owner] = "teardown"
    /\ Revoke
    /\ Goto(Owner, "clear")
    /\ UNCHANGED <<environment, due, source, locals, frag, history>>

Clear ==
    /\ pc[Owner] = "clear"
    /\ session' = NoSession /\ mgr' = FALSE
    /\ Goto(Owner, "stopped")
    /\ UNCHANGED <<environment, due, running, subscription, locals, frag, history>>

-----------------------------------------------------------------------------
(* Windows: sessions, their content, events.                               *)

\* An event is known by the change it tells of and the registration it is
\* for, or the manager's list of sessions.
Manager == 0
Raised(to) == [nr |-> changes + 1, to |-> to]

SessionChanges(s) ==
    /\ s # present
    /\ s = NoSession \/ s = newest + 1
    /\ changes < MaxChanges
    /\ changes' = changes + 1
    /\ present' = s
    /\ newest' = IF s = NoSession THEN newest ELSE s
    /\ due' = IF mgr THEN due \cup {Raised(Manager)} ELSE due
    /\ UNCHANGED <<content, source, subscription, pc, locals, frag, history>>

\* One event for every registration with the session.
ContentChanges ==
    /\ present # NoSession
    /\ changes < MaxChanges
    /\ changes' = changes + 1
    /\ content' = [content EXCEPT ![present] = @ + 1]
    /\ due' = due \cup {Raised(i) : i \in {j \in DOMAIN handlers : handlers[j] = present}}
    /\ UNCHANGED <<present, newest, source, subscription, pc, locals, frag, history>>

InCall(t) == pc[t] \notin {"idle", "new", "started", "stopped"}

Deliver(t, event) ==
    /\ pc[t] = "idle"
    /\ due' = due \ {event}
    /\ Goto(t, IF event.to = Manager THEN "find" ELSE "snapshot")
    /\ UNCHANGED <<environment, source, subscription, locals, frag, history>>

-----------------------------------------------------------------------------
CallStep(t) ==
    \/ Find(t) \/ FindNothing(t)
    \/ SameSession(t) \/ Unsubscribe(t)
    \/ Assign(t) \/ Subscribe(t) \/ SubscribeThrows(t) \/ Decide(t)
    \/ Snapshot(t) \/ SnapshotNothing(t)
    \/ ReadProps(t) \/ ReadInfo(t) \/ ReadTimeline(t) \/ Apply(t)

OwnerStep == SetupManager \/ SetupFails \/ TeardownSubscription \/ Clear

Next ==
    \/ \E t \in Threads : CallStep(t)
    \/ \E t \in PoolThreads : \E event \in due : Deliver(t, event)
    \/ Start \/ OwnerStep \/ Stop
    \/ \E s \in Sessions \cup {NoSession} : SessionChanges(s)
    \/ ContentChanges

Spec == Init /\ [][Next]_vars

\* Calls go on, and an event that was raised is delivered.
Fairness ==
    /\ \A t \in Threads : WF_vars(CallStep(t))
    /\ WF_vars(OwnerStep)
    /\ WF_vars(\E t \in PoolThreads : \E event \in due : Deliver(t, event))

FairSpec == Spec /\ Fairness

-----------------------------------------------------------------------------
(* Properties.                                                             *)

Places == {"new", "setup", "started", "teardown", "clear", "stopped", "idle", "find",
           "compare", "assign", "subscribe", "decide", "snapshot", "props", "info",
           "timeline", "apply"}

Versions == 0 .. MaxChanges + 1
Reports == [session : Sessions \cup {NoSession}, props : Versions, info : Versions,
            timeline : Versions, late : BOOLEAN]

\* Every variable has its type.
TypeOK ==
    /\ newest \in 0 .. MaxSession /\ present \in {NoSession, newest}
    /\ content \in [Sessions -> Versions]
    /\ changes \in 0 .. MaxChanges
    /\ due \subseteq [nr : 1 .. MaxChanges, to : Nat]
    /\ running \in BOOLEAN /\ mgr \in BOOLEAN /\ session \in Sessions \cup {NoSession}
    /\ token \in Nat
    /\ \A i \in DOMAIN handlers : i \in Nat \ {0} /\ handlers[i] \in Sessions
    /\ pc \in [Threads -> Places]
    /\ found \in [Threads -> Sessions \cup {NoSession}]
    /\ report \in [Threads -> Reports] /\ frag \in Reports
    /\ unseen \in BOOLEAN /\ mishap \in BOOLEAN

\* Outside of the two halves of RebindSession a source that is set up has exactly
\* one registration, with the session it is bound to, and its token fields can
\* revoke it: no handler is left behind with a session that was given up,
\* whatever reads and reports run at the same time.  The code has nothing that
\* keeps two calls of RebindSession apart; once they have overlapped, or one has
\* thrown between its halves, this is lost.
RegisteredOnce ==
    IF session = NoSession THEN DOMAIN handlers = {}
    ELSE DOMAIN handlers = {token} /\ handlers[token] = session

BetweenRebinds ==
    pc[Owner] = "started" /\ mgr /\ \A t \in Threads : pc[t] \notin {"assign", "subscribe"}

SubscribedToSession == BetweenRebinds /\ ~mishap => RegisteredOnce

\* What would hold if the handlers were serialised.  It does not.
AlwaysSubscribed == BetweenRebinds => RegisteredOnce

\* What the source can know: of a search that throws it takes nothing to be
\* there; a part whose read throws keeps the default.
Visible == IF unseen THEN NoSession ELSE present

UpToDate ==
    /\ session = Visible
    /\ frag.session = Visible
    /\ \A v \in {frag.props, frag.info, frag.timeline} :
          v = 0 \/ (Visible # NoSession /\ v = content[Visible])

\* When a started source has handled every event that was raised, it is bound to
\* the session that the last search saw and has handed over that session's
\* current content, or nothing when there is none: neither the gap between
\* looking for the session and subscribing to it nor the ones between subscribing
\* and the three reads lose a change, with any number of handlers at work.  Not
\* so when RebindSession has had a mishap, or when the last report was late.
Resting ==
    pc[Owner] = "started" /\ running /\ due = {} /\ \A t \in Threads : ~InCall(t)

NothingLost == Resting /\ ~mishap => UpToDate \/ frag.late

\* Once the media sessions are quiet, a source that stays started comes to be up
\* to date and stays so, with the exceptions of NothingLost.  (smtc_source.h,
\* HasSession: "False during startup and after Spotify closes".)
FollowsSession ==
    <>[](pc[Owner] = "started" /\ running /\ ~mishap) => <>[](UpToDate \/ frag.late)

\* c_api.h: "After spotifyctl_stop() returns, no further callbacks will fire":
\* nothing is handed to the aggregator any more.
QuietAfterStop == [][pc[Owner] = "stopped" => frag' = frag]_vars
=============================================================================
