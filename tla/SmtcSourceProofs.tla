--------------------------- MODULE SmtcSourceProofs ---------------------------
(***************************************************************************)
(* Theorems about SmtcSource, for any threads and sessions: its types; and, *)
(* until two calls of RebindSession overlap or one throws halfway, that it *)
(* stays subscribed to its session and loses no change, with handlers that *)
(* overlap in every other way and calls to Windows that fail.              *)
(***************************************************************************)
EXTENDS SmtcSource, FiniteSetTheorems, TLAPS

USE SmtcSourceAssumption

-----------------------------------------------------------------------------
(* The inductive invariant.                                                *)

CallPlaces == {"find", "compare", "assign", "subscribe", "decide", "snapshot", "props",
               "info", "timeline", "apply"}

\* The owner and the pool have their own places; nobody has seen a session that
\* does not exist yet.
ThreadsInPlace ==
    /\ \A t \in PoolThreads : pc[t] \in CallPlaces \cup {"idle"}
    /\ pc[Owner] # "idle"
    /\ session <= newest /\ \A t \in Threads : found[t] <= newest

\* Until Stop begins.
Serving == pc[Owner] \notin {"teardown", "clear", "stopped"}

\* A source without a manager has never been told anything.
NotSetUp ==
    /\ pc[Owner] \in {"new", "setup"} => ~mgr
    /\ ~mgr => /\ due = {} /\ DOMAIN handlers = {} /\ session = NoSession /\ frag = NoReport
               /\ \A t \in PoolThreads : pc[t] = "idle"
               /\ pc[Owner] \in {"new", "setup"} \/ (pc[Owner] = "started" /\ ~running)

OneRebinds == \A t, u \in Threads : Rebinding(t) /\ Rebinding(u) => t = u

\* Only RebindSession, between its two halves, is not subscribed as it should be.
Halfway == \E t \in Threads : pc[t] \in {"assign", "subscribe"}
Subscribed == IF Halfway THEN DOMAIN handlers = {} ELSE RegisteredOnce

\* The session that is bound, or about to be, is the one last seen, or there is
\* a reason to look again.
ListDue == \E e \in due : e.to = Manager
Looks == \E t \in Threads : pc[t] = "find"
SessionKnown ==
    \/ ListDue \/ Looks
    \/ /\ \A t \in Threads : pc[t] \in {"compare", "assign"} => found[t] = Visible
       /\ (\A t \in Threads : pc[t] \notin {"compare", "assign"}) => session = Visible

\* What was read is what the session has.
Fits(r) ==
    /\ r.session = session
    /\ \A v \in {r.props, r.info, r.timeline} :
          v # 0 => session # NoSession /\ (session = present => v = content[session])

\* A report that does not fit is late, or one is yet to come or on its way
\* that does.
ContentDue == \E e \in due : e.to # Manager
Coming ==
    \/ \E t \in Threads : pc[t] \in {"assign", "subscribe", "decide"}
    \/ session # NoSession /\ (ContentDue \/ \E t \in Threads : pc[t] = "snapshot")
Promised == Coming \/ \E t \in Threads : Reporting(t) /\ Fits(report[t])

Excused(r) == r.late \/ Fits(r) \/ Promised
ReportsKnown ==
    /\ \A t \in Threads : IF Reporting(t) THEN Excused(report[t]) ELSE report[t] = NoReport
    /\ Excused(frag)

ServingInv ==
    NotSetUp /\ OneRebinds /\ Subscribed /\ (mgr /\ running => SessionKnown) /\ ReportsKnown

IInv == ThreadsInPlace /\ (Serving /\ ~mishap => ServingInv)

-----------------------------------------------------------------------------
(* Types.                                                                  *)

\* Registrations are finitely many, so an unused number can be found.
FinitelyMany == IsFiniteSet(DOMAIN handlers)

LEMMA UnusedIs ==
    ASSUME FinitelyMany, \A i \in DOMAIN handlers : i \in Nat \ {0}
    PROVE  Unused \in Nat \ {0} /\ Unused \notin DOMAIN handlers
<1> DEFINE n == Cardinality(DOMAIN handlers)
<1>1. n \in Nat
  BY FS_CardinalityType DEF FinitelyMany
<1>2. IsFiniteSet(1 .. n + 1) /\ Cardinality(1 .. n + 1) = n + 1
  <2>1. 1 \in Int /\ n + 1 \in Int /\ 1 <= n + 1
    BY <1>1
  <2> HIDE DEF n
  <2>2. Cardinality(1 .. n + 1) = (n + 1) - 1 + 1
    BY <2>1, FS_Interval
  <2> QED
    BY <1>1, <2>1, <2>2, FS_Interval
<1>3. ~(1 .. n + 1 \subseteq DOMAIN handlers)
  <2> SUFFICES ASSUME 1 .. n + 1 \subseteq DOMAIN handlers
               PROVE  FALSE
    OBVIOUS
  <2>1. Cardinality(1 .. n + 1) <= n
    BY FS_Subset DEF FinitelyMany
  <2> QED
    BY <1>1, <1>2, <2>1
<1>4. \E i \in 1 .. n + 1 : i \notin DOMAIN handlers
  BY <1>3
<1> QED
  BY <1>1, <1>4 DEF Unused

\* A registration is made by one that is free, and unmade.
LEMMA RevokeTypes ==
    ASSUME TypeOK, FinitelyMany, Revoke
    PROVE  /\ FinitelyMany'
           /\ token' \in Nat
           /\ \A i \in DOMAIN handlers' : i \in Nat \ {0} /\ handlers'[i] \in Sessions
<1>1. DOMAIN handlers' \subseteq DOMAIN handlers
  BY DEF Revoke, subscription
<1> QED
  BY <1>1, FS_Subset DEF TypeOK, FinitelyMany, Revoke, subscription

LEMMA RegisterTypes ==
    ASSUME TypeOK, FinitelyMany, session # NoSession, Register
    PROVE  /\ FinitelyMany'
           /\ token' \in Nat
           /\ \A i \in DOMAIN handlers' : i \in Nat \ {0} /\ handlers'[i] \in Sessions
<1>1. Unused \in Nat \ {0}
  BY UnusedIs DEF TypeOK
<1>2. /\ DOMAIN handlers' = DOMAIN handlers \cup {Unused} /\ token' = Unused
      /\ \A i \in DOMAIN handlers' :
            handlers'[i] = IF i = Unused THEN session ELSE handlers[i]
  BY DEF Register
<1>3. FinitelyMany'
  BY <1>2, FS_AddElement DEF FinitelyMany
<1> QED
  BY <1>1, <1>2, <1>3 DEF TypeOK

\* A version is one more than the number of changes, at most.
VersionsFollow == \A s \in Sessions : content[s] <= changes + 1

\* What is being read is a session.
ReadsSession ==
    \A t \in Threads : pc[t] \in {"props", "info", "timeline"} => report[t].session \in Sessions

TypeInv == TypeOK /\ FinitelyMany /\ VersionsFollow /\ ReadsSession

LEMMA TypeInvInit == Init => TypeInv
<1> SUFFICES ASSUME Init
             PROVE  TypeInv
  OBVIOUS
<1>1. DOMAIN handlers = {}
  BY DEF Init
<1>2. NoReport \in Reports
  BY DEF NoReport, Blank, Reports, NoSession, Versions
<1>3. /\ newest \in 0 .. MaxSession /\ present \in {NoSession, newest}
      /\ content \in [Sessions -> Versions] /\ changes \in 0 .. MaxChanges
      /\ due \subseteq [nr : 1 .. MaxChanges, to : Nat]
      /\ session \in Sessions \cup {NoSession} /\ token \in Nat
  BY DEF Init, NoSession, Sessions, Versions
<1>4. running \in BOOLEAN /\ mgr \in BOOLEAN /\ unseen \in BOOLEAN /\ mishap \in BOOLEAN
  BY Zenon DEF Init
<1>5. /\ pc \in [Threads -> Places] /\ found \in [Threads -> Sessions \cup {NoSession}]
      /\ report \in [Threads -> Reports] /\ frag \in Reports
  BY <1>2 DEF Init, Places
<1>6. ReadsSession
  BY DEF Init, ReadsSession
<1>7. TypeOK
  BY <1>1, <1>3, <1>4, <1>5 DEF TypeOK
<1> QED
  BY <1>1, <1>6, <1>7, FS_EmptySet DEF Init, TypeInv, FinitelyMany, VersionsFollow, Sessions

LEMMA DoneTypes ==
    ASSUME TypeOK, ReadsSession, NEW t \in Threads, Done(t)
    PROVE  /\ pc' \in [Threads -> Places]
           /\ found' \in [Threads -> Sessions \cup {NoSession}]
           /\ report' \in [Threads -> Reports]
           /\ ReadsSession'
  BY DEF ReadsSession, TypeOK, Done, Returns, Goto, Places, Reports, NoReport, Blank,
    Versions

LEMMA TypeInvCall ==
    ASSUME TypeInv, NEW t \in Threads, CallStep(t)
    PROVE  TypeInv'
<1> USE DEF TypeInv, ReadsSession, environment, source, subscription, locals, history, Goto
<1>1. CASE Find(t)
  <2>1. unseen' \in BOOLEAN /\ mishap' \in BOOLEAN
    BY <1>1, Zenon DEF Find, Finds, TypeOK
  <2> QED
    BY <1>1, <2>1
       DEF Find, Finds, TypeOK, FinitelyMany, VersionsFollow, Places, Sessions, NoSession
<1>2. CASE FindNothing(t) \/ SameSession(t) \/ SnapshotNothing(t)
  BY <1>2, DoneTypes DEF FindNothing, SameSession, SnapshotNothing, TypeOK, FinitelyMany,
    VersionsFollow
<1>3. CASE Unsubscribe(t)
  BY <1>3, RevokeTypes DEF Unsubscribe, TypeOK, FinitelyMany, VersionsFollow, Places
<1>4. CASE Assign(t)
  BY <1>4 DEF Assign, TypeOK, FinitelyMany, VersionsFollow, Places
<1>5. CASE Subscribe(t)
  <2>1. CASE session = NoSession
    BY <1>5, <2>1 DEF Subscribe, TypeOK, FinitelyMany, VersionsFollow, Places
  <2>2. CASE session # NoSession
    BY <1>5, <2>2, RegisterTypes DEF Subscribe, TypeOK, FinitelyMany, VersionsFollow, Places
  <2> QED
    BY <2>1, <2>2
<1>6. CASE SubscribeThrows(t)
  <2>1. running' \in BOOLEAN /\ mishap' \in BOOLEAN
    BY <1>6, Zenon DEF SubscribeThrows, TypeOK
  <2>2. /\ FinitelyMany' /\ token' \in Nat
        /\ \A i \in DOMAIN handlers' : i \in Nat \ {0} /\ handlers'[i] \in Sessions
    BY <1>6, RegisterTypes DEF SubscribeThrows, TypeOK, FinitelyMany
  <2>3. Done(t)
    BY <1>6 DEF SubscribeThrows
  <2> QED
    BY <1>6, <2>1, <2>2, <2>3, DoneTypes DEF SubscribeThrows, TypeOK, VersionsFollow
<1>7. CASE Decide(t)
  BY <1>7 DEF Decide, TypeOK, FinitelyMany, VersionsFollow, Places
<1>8. CASE Snapshot(t)
  <2>1. Blank(session) \in Reports /\ session \in Sessions /\ Blank(session).session = session
    BY <1>8 DEF Snapshot, Blank, TypeOK, Reports, Versions
  <2> QED
    BY <1>8, <2>1 DEF Snapshot, TypeOK, FinitelyMany, VersionsFollow, Places
<1>9. CASE ReadProps(t) \/ ReadInfo(t) \/ ReadTimeline(t)
  <2> DEFINE s == report[t].session
  <2>1. s \in Sessions
    BY <1>9 DEF ReadProps, ReadInfo, ReadTimeline
  <2>2. Now(t) \in Versions
    BY <2>1 DEF Now, TypeOK
  <2>3. report[t] \in Reports
    BY DEF TypeOK
  <2>4. PICK told \in Reports :
           /\ told.session = s
           /\ report' = report \/ report' = [report EXCEPT ![t] = told]
    <3>1. /\ [report[t] EXCEPT !.props = Now(t)] \in Reports
          /\ [report[t] EXCEPT !.info = Now(t)] \in Reports
          /\ [report[t] EXCEPT !.timeline = Now(t)] \in Reports
      BY <2>2, <2>3 DEF Reports
    <3> QED
      BY <1>9, <2>3, <3>1 DEF ReadProps, ReadInfo, ReadTimeline, Read, Reports
  <2>5. report' \in [Threads -> Reports] /\ report'[t].session = s
    BY <2>3, <2>4 DEF TypeOK
  <2>6. \A u \in Threads : u # t => report'[u] = report[u]
    BY <2>4 DEF TypeOK
  <2> QED
    BY <1>9, <2>1, <2>5, <2>6 DEF ReadProps, ReadInfo, ReadTimeline, Read, TypeOK, FinitelyMany,
      VersionsFollow, Places
<1>10. CASE Apply(t)
  <2>1. /\ frag' = report[t] /\ pc[t] = "apply"
        /\ report' = [u \in Threads |->
                        IF u = t THEN NoReport
                        ELSE IF Reporting(u) THEN [report[u] EXCEPT !.late = TRUE]
                        ELSE report[u]]
        /\ pc' = [pc EXCEPT ![t] = IF t = Owner THEN "started" ELSE "idle"]
        /\ UNCHANGED <<environment, due, source, subscription, found, history>>
    BY <1>10 DEF Apply, Returns
  <2>2. NoReport \in Reports
    BY DEF NoReport, Blank, Reports, NoSession, Versions
  <2>3. \A u \in Threads : [report[u] EXCEPT !.late = TRUE] \in Reports
    BY DEF TypeOK, Reports
  <2>4. report' \in [Threads -> Reports]
    BY <2>1, <2>2, <2>3 DEF TypeOK
  <2>5. \A u \in Threads : u # t => report'[u].session = report[u].session
    BY <2>1 DEF TypeOK, Reports
  <2>6. ReadsSession'
    BY <2>1, <2>5 DEF TypeOK
  <2> QED
    BY <2>1, <2>4, <2>6 DEF TypeOK, FinitelyMany, VersionsFollow, Places
<1> QED
  BY <1>1, <1>2, <1>3, <1>4, <1>5, <1>6, <1>7, <1>8, <1>9, <1>10 DEF CallStep

LEMMA TypeInvOwner ==
    ASSUME TypeInv, Start \/ OwnerStep \/ Stop
    PROVE  TypeInv'
<1> USE DEF TypeInv, ReadsSession, environment, source, subscription, locals, history, Goto
<1>1. CASE Start \/ SetupManager \/ SetupFails \/ Stop \/ Clear
  <2>1. running' \in BOOLEAN /\ mgr' \in BOOLEAN
    BY <1>1, Zenon DEF Start, SetupManager, SetupFails, Stop, Clear, TypeOK
  <2> QED
    BY <1>1, <2>1 DEF Start, SetupManager, SetupFails, Stop, Clear, TypeOK, FinitelyMany,
      VersionsFollow, Places
<1>2. CASE TeardownSubscription
  BY <1>2, RevokeTypes DEF TeardownSubscription, TypeOK, FinitelyMany, VersionsFollow, Places
<1> QED
  BY <1>1, <1>2 DEF OwnerStep

LEMMA TypeInvWindows ==
    ASSUME TypeInv,
           \/ \E t \in PoolThreads : \E event \in due : Deliver(t, event)
           \/ \E s \in Sessions \cup {NoSession} : SessionChanges(s)
           \/ ContentChanges
           \/ UNCHANGED vars
    PROVE  TypeInv'
<1> USE DEF TypeInv, ReadsSession, environment, source, subscription, locals, history, Goto
<1>1. ASSUME NEW t \in PoolThreads, NEW event \in due, Deliver(t, event)
      PROVE  TypeInv'
  BY <1>1 DEF Deliver, TypeOK, FinitelyMany, VersionsFollow, Places
<1>2. ASSUME NEW s \in Sessions \cup {NoSession}, SessionChanges(s)
      PROVE  TypeInv'
  <2>1. changes' \in 0 .. MaxChanges /\ changes' = changes + 1
    BY <1>2 DEF SessionChanges, TypeOK
  <2>2. Raised(Manager) \in [nr : 1 .. MaxChanges, to : Nat]
    BY <2>1 DEF Raised, Manager, TypeOK
  <2>3. due' \subseteq [nr : 1 .. MaxChanges, to : Nat]
    BY <1>2, <2>2 DEF SessionChanges, TypeOK
  <2>4. newest' \in 0 .. MaxSession /\ present' \in {NoSession, newest'}
    BY <1>2 DEF SessionChanges, TypeOK, Sessions, NoSession
  <2>5. VersionsFollow'
    BY <1>2, <2>1 DEF SessionChanges, VersionsFollow, TypeOK, Versions
  <2> QED
    BY <1>2, <2>1, <2>3, <2>4, <2>5 DEF SessionChanges, TypeOK, FinitelyMany
<1>3. CASE ContentChanges
  <2>1. changes' \in 0 .. MaxChanges /\ changes' = changes + 1 /\ present \in Sessions
    BY <1>3 DEF ContentChanges, TypeOK, Sessions, NoSession
  <2>2. \A i \in DOMAIN handlers : Raised(i) \in [nr : 1 .. MaxChanges, to : Nat]
    BY <2>1 DEF Raised, TypeOK
  <2>3. due' \subseteq [nr : 1 .. MaxChanges, to : Nat]
    BY <1>3, <2>2 DEF ContentChanges, TypeOK
  <2>4. content[present] + 1 \in Versions /\ content[present] + 1 <= changes' + 1
    BY <2>1 DEF TypeOK, VersionsFollow, Versions
  <2>5. content' \in [Sessions -> Versions]
    BY <1>3, <2>4 DEF ContentChanges, TypeOK
  <2>6. VersionsFollow'
    BY <1>3, <2>1, <2>4 DEF ContentChanges, VersionsFollow, TypeOK, Versions
  <2> QED
    BY <1>3, <2>1, <2>3, <2>5, <2>6 DEF ContentChanges, TypeOK, FinitelyMany
<1>4. CASE UNCHANGED vars
  BY <1>4 DEF vars, TypeOK, FinitelyMany, VersionsFollow
<1> QED
  BY <1>1, <1>2, <1>3, <1>4

LEMMA TypeInvStep ==
    ASSUME TypeInv, [Next]_vars
    PROVE  TypeInv'
  BY TypeInvCall, TypeInvOwner, TypeInvWindows DEF Next

\* Every variable has its type, whether handlers overlap or not: a version, a
\* token or a session that does not exist is never stored or reported.
THEOREM SmtcTypeCorrect == Spec => []TypeOK
<1>1. Spec => []TypeInv
  BY TypeInvInit, TypeInvStep, PTL DEF Spec
<1>2. TypeInv => TypeOK
  BY DEF TypeInv
<1> QED
  BY <1>1, <1>2, PTL

-----------------------------------------------------------------------------
(* A source that serves.                                                   *)

LEMMA IInvInit == Init => IInv
<1> SUFFICES ASSUME Init
             PROVE  IInv
  OBVIOUS
<1>1. ThreadsInPlace
  BY DEF Init, ThreadsInPlace, Threads, NoSession
<1>2. /\ \A t \in Threads : pc[t] \in {"new", "idle"} /\ report[t] = NoReport
      /\ frag = NoReport /\ session = NoSession /\ DOMAIN handlers = {}
  BY DEF Init, Threads
<1>3. ~mgr
  BY Zenon DEF Init
<1>4. NotSetUp
  BY <1>3 DEF Init, NotSetUp, Threads
<1>5. OneRebinds /\ Subscribed
  BY <1>2 DEF OneRebinds, Rebinding, Subscribed, Halfway, RegisteredOnce
<1>6. Fits(NoReport)
  BY <1>2 DEF Fits, NoReport, Blank
<1>7. ReportsKnown
  BY <1>2, <1>6 DEF ReportsKnown, Reporting, Excused
<1> QED
  BY <1>1, <1>3, <1>4, <1>5, <1>7 DEF IInv, ServingInv

\* Threads keep to their places and sessions appear before they are seen,
\* before Stop begins and after.
LEMMA PlacesStep ==
    ASSUME TypeInv, ThreadsInPlace, [Next]_vars
    PROVE  ThreadsInPlace'
<1>1. ASSUME NEW t \in Threads, CallStep(t)
      PROVE  ThreadsInPlace'
  <2>1. /\ pc[t] \in CallPlaces
        /\ \E place \in CallPlaces \cup {IF t = Owner THEN "started" ELSE "idle"} :
              pc' = [pc EXCEPT ![t] = place]
        /\ newest' = newest /\ session' \in {session, found[t]}
        /\ \E x \in {found[t], present, NoSession} : found' = [found EXCEPT ![t] = x]
    BY <1>1 DEF CallStep, Find, Finds, FindNothing, SameSession, Unsubscribe, Assign, Subscribe,
      SubscribeThrows, Decide, Snapshot, SnapshotNothing, ReadProps, ReadInfo, ReadTimeline, Read,
      Apply, Done, Returns, Goto, CallPlaces, environment,
      source, locals, TypeInv, TypeOK
  <2>2. present <= newest /\ NoSession <= newest
    BY DEF TypeInv, TypeOK, NoSession
  <2> QED
    BY <2>1, <2>2 DEF ThreadsInPlace, TypeInv, TypeOK, Threads, CallPlaces
<1>2. ASSUME NEW t \in PoolThreads, NEW event \in due, Deliver(t, event)
      PROVE  ThreadsInPlace'
  BY <1>2 DEF Deliver, Goto, ThreadsInPlace, TypeInv, TypeOK, Threads, CallPlaces,
    environment, source, locals
<1>3. CASE Start \/ OwnerStep \/ Stop
  <2>1. /\ \E place \in Places \ {"idle"} : pc' = [pc EXCEPT ![Owner] = place]
        /\ newest' = newest /\ session' \in {session, NoSession} /\ found' = found
    BY <1>3 DEF Start, OwnerStep, SetupManager, SetupFails, TeardownSubscription, Clear, Stop,
      Goto, environment, source, locals, Places
  <2>2. NoSession <= newest
    BY DEF TypeInv, TypeOK, NoSession
  <2> QED
    BY <2>1, <2>2 DEF ThreadsInPlace, TypeInv, TypeOK, Threads
<1>4. ASSUME NEW s \in Sessions \cup {NoSession}, SessionChanges(s)
      PROVE  ThreadsInPlace'
  <2>1. newest' >= newest /\ newest' \in Int /\ UNCHANGED <<pc, session, found>>
    BY <1>4 DEF SessionChanges, TypeInv, TypeOK, source, locals, Sessions, NoSession
  <2> QED
    BY <2>1 DEF ThreadsInPlace, TypeInv, TypeOK, Sessions, NoSession
<1>5. CASE ContentChanges \/ UNCHANGED vars
  BY <1>5 DEF ContentChanges, ThreadsInPlace, vars, environment, source, locals
<1> QED
  BY <1>1, <1>2, <1>3, <1>4, <1>5 DEF Next

\* A step of a call is of a source that is set up, moves its own thread and
\* leaves Windows alone.
LEMMA TheCall ==
    ASSUME TypeInv, ServingInv, ~mishap', NEW t \in Threads, CallStep(t)
    PROVE  /\ pc[t] \in CallPlaces /\ mgr /\ mgr' = mgr /\ running' = running
           /\ pc' = [pc EXCEPT ![t] = pc'[t]]
           /\ pc'[t] \in CallPlaces \cup {IF t = Owner THEN "started" ELSE "idle"}
           /\ UNCHANGED <<environment, due>>
           /\ ~SubscribeThrows(t)
<1>1. pc[t] \in CallPlaces
  BY DEF CallStep, Find, Finds, FindNothing, SameSession, Unsubscribe, Assign, Subscribe,
    SubscribeThrows, Decide, Snapshot, SnapshotNothing, ReadProps, ReadInfo, ReadTimeline, Read,
    Apply, CallPlaces
<1>2. ~SubscribeThrows(t)
  BY Zenon DEF SubscribeThrows
<1>3. mgr
  BY <1>1 DEF ServingInv, NotSetUp, Threads, CallPlaces
<1>4. mgr' = mgr /\ running' = running /\ UNCHANGED <<environment, due>>
  BY <1>2 DEF CallStep, Find, Finds, FindNothing, SameSession, Unsubscribe, Assign, Subscribe,
    SubscribeThrows, Decide, Snapshot, SnapshotNothing, ReadProps, ReadInfo, ReadTimeline, Read,
    Apply, source
<1>5. \E place \in CallPlaces \cup {IF t = Owner THEN "started" ELSE "idle"} :
         pc' = [pc EXCEPT ![t] = place]
  BY DEF CallStep, Find, Finds, FindNothing, SameSession, Unsubscribe, Assign, Subscribe,
    SubscribeThrows, Decide, Snapshot, SnapshotNothing, ReadProps, ReadInfo, ReadTimeline, Read,
    Apply, Done, Returns, Goto, CallPlaces
<1> QED
  BY <1>1, <1>2, <1>3, <1>4, <1>5 DEF TypeInv, TypeOK

LEMMA CallFrame ==
    ASSUME TypeInv, ServingInv, ~mishap', NEW t \in Threads, CallStep(t)
    PROVE  NotSetUp'
<1>1. pc[Owner] \notin {"new", "setup"}
  BY TheCall DEF ServingInv, NotSetUp
<1>2. pc'[t] \notin {"new", "setup"}
  BY TheCall DEF CallPlaces
<1>3. pc'[Owner] \notin {"new", "setup"}
  BY <1>1, <1>2, TheCall DEF TypeInv, TypeOK, Threads
<1>4. mgr'
  BY TheCall
<1> QED
  BY <1>3, <1>4 DEF NotSetUp

\* Who finds a session is alone in rebinding, or there has been a mishap.
LEMMA FindsAlone ==
    ASSUME TypeInv, ~mishap', NEW t \in Threads, Find(t)
    PROVE  \A u \in Threads : u # t => ~Rebinding(u)
<1>1. mishap' = (mishap \/ \E u \in Threads : u # t /\ Rebinding(u))
  BY DEF Find, Finds
<1> QED
  BY <1>1, Zenon

LEMMA CallRebindsAlone ==
    ASSUME TypeInv, ServingInv, ~mishap', NEW t \in Threads, CallStep(t)
    PROVE  OneRebinds'
<1>1. \A u \in Threads : u # t => pc'[u] = pc[u]
  BY TheCall DEF TypeInv, TypeOK
<1>2. CASE Find(t)
  BY <1>1, <1>2, FindsAlone DEF OneRebinds, Rebinding
<1>3. CASE ~Find(t)
  <2>1. pc'[t] \in {"compare", "assign", "subscribe"} => Rebinding(t)
    BY <1>3 DEF CallStep, Find, Finds, FindNothing, SameSession, Unsubscribe, Assign, Subscribe,
    SubscribeThrows, Decide, Snapshot, SnapshotNothing, ReadProps, ReadInfo, ReadTimeline, Read,
    Apply, Done, Returns, Goto, Rebinding, TypeInv, TypeOK
  <2> QED
    BY <1>1, <2>1 DEF OneRebinds, Rebinding, ServingInv
<1> QED
  BY <1>2, <1>3

LEMMA CallSubscribes ==
    ASSUME TypeInv, ServingInv, ~mishap', NEW t \in Threads, CallStep(t)
    PROVE  Subscribed'
<1> USE TheCall DEF TypeInv, TypeOK, ServingInv, source, subscription, Goto
<1>1. \A u \in Threads : u # t => pc'[u] = pc[u]
  OBVIOUS
<1>2. CASE Unsubscribe(t)
  <2>1. ~Halfway
    BY <1>2 DEF Unsubscribe, Halfway, OneRebinds, Rebinding
  <2>2. Halfway'
    BY <1>2 DEF Unsubscribe, Halfway
  <2>3. DOMAIN handlers' = {}
    BY <1>2, <2>1 DEF Unsubscribe, Subscribed, RegisteredOnce, Revoke
  <2> QED
    BY <2>2, <2>3 DEF Subscribed
<1>3. CASE Assign(t)
  <2>1. Halfway /\ Halfway' /\ handlers' = handlers
    BY <1>3 DEF Assign, Halfway
  <2> QED
    BY <2>1 DEF Subscribed
<1>4. CASE Subscribe(t)
  <2>1. Halfway /\ ~Halfway'
    BY <1>1, <1>4 DEF Subscribe, Halfway, OneRebinds, Rebinding
  <2>2. DOMAIN handlers = {} /\ session' = session
    BY <1>4, <2>1 DEF Subscribe, Subscribed
  <2>3. session # NoSession => DOMAIN handlers' = {token'} /\ handlers'[token'] = session
    BY <1>4, <2>2 DEF Subscribe, Register
  <2>4. session = NoSession => DOMAIN handlers' = {}
    BY <1>4, <2>2 DEF Subscribe
  <2> QED
    BY <2>1, <2>2, <2>3, <2>4 DEF Subscribed, RegisteredOnce
<1>5. CASE \/ Find(t) \/ FindNothing(t) \/ SameSession(t) \/ Decide(t)
           \/ Snapshot(t) \/ SnapshotNothing(t)
           \/ ReadProps(t) \/ ReadInfo(t) \/ ReadTimeline(t) \/ Apply(t)
  <2>1. UNCHANGED <<session, token, handlers>>
    BY <1>5 DEF Find, Finds, FindNothing, SameSession, Decide, Snapshot, SnapshotNothing,
      ReadProps, ReadInfo, ReadTimeline, Read, Apply
  <2>2. pc[t] \notin {"assign", "subscribe"} /\ pc'[t] \notin {"assign", "subscribe"}
    BY <1>5 DEF Find, Finds, FindNothing, SameSession, Decide, Snapshot, SnapshotNothing,
      ReadProps, ReadInfo, ReadTimeline, Read, Apply, Done, Returns
  <2>3. Halfway' <=> Halfway
    BY <1>1, <2>2 DEF Halfway
  <2> QED
    BY <2>1, <2>3 DEF Subscribed, RegisteredOnce
<1> QED
  BY <1>2, <1>3, <1>4, <1>5 DEF CallStep

LEMMA CallKnowsSession ==
    ASSUME TypeInv, ServingInv, ~mishap', running', NEW t \in Threads, CallStep(t)
    PROVE  SessionKnown'
<1> USE TheCall DEF TypeInv, TypeOK, ServingInv, environment, source, locals, history, Goto
<1>1. (\A u \in Threads : u # t => pc'[u] = pc[u]) /\ SessionKnown /\ ListDue' = ListDue
  BY DEF ListDue
<1>2. CASE Find(t)
  <2>1. /\ pc'[t] = "compare" /\ found'[t] = Visible'
        /\ \A u \in Threads : u # t => ~Rebinding(u)
    BY <1>2, FindsAlone DEF Find, Finds, Visible
  <2> QED
    BY <1>1, <2>1 DEF SessionKnown, Rebinding
<1>3. CASE FindNothing(t)
  BY <1>3 DEF FindNothing
<1>4. CASE SameSession(t)
  <2>1. /\ pc[t] = "compare" /\ found[t] = session /\ pc'[t] \notin {"compare", "assign", "find"}
        /\ session' = session /\ Visible' = Visible
        /\ \A u \in Threads : u # t => found'[u] = found[u] /\ ~Rebinding(u)
    BY <1>4 DEF SameSession, Done, Returns, Visible, OneRebinds, Rebinding
  <2> QED
    BY <1>1, <2>1 DEF SessionKnown, Rebinding, Looks
<1>5. CASE Unsubscribe(t)
  BY <1>1, <1>5 DEF Unsubscribe, SessionKnown, Looks, Visible
<1>6. CASE Assign(t)
  <2>1. /\ pc[t] = "assign" /\ pc'[t] = "subscribe" /\ session' = found[t] /\ Visible' = Visible
        /\ \A u \in Threads : u # t => found'[u] = found[u] /\ ~Rebinding(u)
    BY <1>6 DEF Assign, Visible, OneRebinds, Rebinding
  <2> QED
    BY <1>1, <2>1 DEF SessionKnown, Rebinding, Looks
<1>7. CASE \/ Subscribe(t) \/ Decide(t) \/ Snapshot(t) \/ SnapshotNothing(t)
           \/ ReadProps(t) \/ ReadInfo(t) \/ ReadTimeline(t) \/ Apply(t)
  <2>1. /\ session' = session /\ Visible' = Visible
        /\ \A u \in Threads : u # t => found'[u] = found[u]
    <3>1. UNCHANGED <<session, present, unseen>>
      BY <1>7 DEF Subscribe, Decide, Snapshot, SnapshotNothing, ReadProps, ReadInfo, ReadTimeline,
        Read, Apply
    <3>2. CASE SnapshotNothing(t)
      BY <3>1, <3>2 DEF SnapshotNothing, Done, Visible
    <3>3. CASE ~SnapshotNothing(t)
      <4>1. found' = found
        BY <1>7, <3>3 DEF Subscribe, Decide, Snapshot, ReadProps, ReadInfo, ReadTimeline, Read,
           Apply
      <4> QED
        BY <3>1, <4>1 DEF Visible
    <3> QED
      BY <3>2, <3>3
  <2>2. pc[t] \notin {"find", "compare", "assign"} /\ pc'[t] \notin {"find", "compare", "assign"}
    BY <1>7 DEF Subscribe, Decide, Snapshot, SnapshotNothing, ReadProps, ReadInfo, ReadTimeline,
      Read, Apply, Done, Returns
  <2> QED
    BY <1>1, <2>1, <2>2 DEF SessionKnown, Looks
<1> QED
  BY <1>2, <1>3, <1>4, <1>5, <1>6, <1>7 DEF CallStep

\* Being late is no matter of what a report says.
LEMMA LateFits ==
    ASSUME NEW r \in Reports
    PROVE  LET late == [r EXCEPT !.late = TRUE]
           IN  late.late /\ (Fits(late) <=> Fits(r))
<1> DEFINE late == [r EXCEPT !.late = TRUE]
<1>1. /\ late.session = r.session /\ late.props = r.props /\ late.info = r.info
      /\ late.timeline = r.timeline
  BY DEF Reports
<1>2. late.late
  BY Zenon DEF Reports
<1>3. Fits(late) <=> Fits(r)
  BY <1>1 DEF Fits
<1> QED
  BY <1>2, <1>3

\* What the thread reads of the session that is bound fits, like what it has.
LEMMA ReadFits ==
    ASSUME TypeInv, NEW t \in Threads, ReadProps(t) \/ ReadInfo(t) \/ ReadTimeline(t)
    PROVE  Fits(report[t]) => Fits(report'[t])
<1> SUFFICES ASSUME Fits(report[t]), report' # report
             PROVE  Fits(report'[t])
  OBVIOUS
<1>1. report[t] \in Reports /\ report[t].session = session /\ session # NoSession
  <2>1. report[t].session \in Sessions
    BY DEF TypeInv, ReadsSession, ReadProps, ReadInfo, ReadTimeline
  <2> QED
    BY <2>1 DEF TypeInv, TypeOK, Fits, Sessions, NoSession
<1>2. Now(t) = content[session]
  BY <1>1 DEF Now
<1>3. \/ report'[t] = [report[t] EXCEPT !.props = Now(t)]
      \/ report'[t] = [report[t] EXCEPT !.info = Now(t)]
      \/ report'[t] = [report[t] EXCEPT !.timeline = Now(t)]
  BY DEF ReadProps, ReadInfo, ReadTimeline, Read, TypeInv, TypeOK
<1>4. /\ report'[t].session = session
      /\ {report'[t].props, report'[t].info, report'[t].timeline}
           \subseteq {report[t].props, report[t].info, report[t].timeline, Now(t)}
  BY <1>1, <1>3 DEF Reports
<1> QED
  BY <1>1, <1>2, <1>4 DEF Fits

LEMMA CallKnowsReports ==
    ASSUME TypeInv, ServingInv, ~mishap', NEW t \in Threads, CallStep(t)
    PROVE  ReportsKnown'
<1> USE TheCall DEF TypeInv, TypeOK, ServingInv, environment, source, locals, history, Goto
<1>1. (\A u \in Threads : u # t => pc'[u] = pc[u]) /\ ContentDue' = ContentDue
  BY DEF ContentDue
<1>2. CASE Find(t) \/ SameSession(t) \/ SnapshotNothing(t)
  <2>1. /\ ~Reporting(t) /\ ~Reporting(t)' /\ report[t] = NoReport
        /\ UNCHANGED <<session, content, present, report, frag>>
    <3>1. ~Reporting(t) /\ ~Reporting(t)'
      BY <1>2 DEF Find, Finds, SameSession, SnapshotNothing, Done, Returns, Reporting
    <3>2. report[t] = NoReport
      BY <3>1 DEF ReportsKnown
    <3> QED
      BY <1>2, <3>1, <3>2 DEF Find, Finds, SameSession, SnapshotNothing, Done
  <2>2. /\ pc[t] \notin {"assign", "subscribe", "decide"}
        /\ pc[t] = "snapshot" => session = NoSession
    BY <1>2 DEF Find, Finds, SameSession, SnapshotNothing
  <2>3. Coming => Coming'
    BY <1>1, <2>1, <2>2 DEF Coming
  <2>4. \A r : Fits(r)' <=> Fits(r)
    BY <2>1 DEF Fits
  <2>5. Promised => Promised'
    BY <1>1, <2>1, <2>3, <2>4 DEF Promised, Reporting
  <2> QED
    BY <1>1, <2>1, <2>4, <2>5 DEF ReportsKnown, Excused, Reporting
<1>3. CASE FindNothing(t)
  BY <1>3 DEF FindNothing
<1>4. CASE Unsubscribe(t) \/ Assign(t) \/ Subscribe(t)
  <2>1. /\ pc'[t] \in {"assign", "subscribe", "decide"} /\ ~Reporting(t)
        /\ UNCHANGED <<report, frag>>
    BY <1>4 DEF Unsubscribe, Assign, Subscribe, Reporting
  <2>2. Promised'
    BY <2>1 DEF Promised, Coming
  <2> QED
    BY <1>1, <2>1, <2>2 DEF ReportsKnown, Excused, Reporting
<1>5. CASE Decide(t)
  <2>1. /\ UNCHANGED <<report, frag, session, content, present>> /\ report[t] = NoReport
        /\ pc'[t] = IF session = NoSession THEN "apply" ELSE "snapshot"
    BY <1>5 DEF Decide, ReportsKnown, Reporting
  <2>2. session = NoSession => Fits(report[t])'
    BY <2>1 DEF Fits, NoReport, Blank
  <2>3. Promised'
    BY <2>1, <2>2 DEF Promised, Coming, Reporting
  <2> QED
    BY <1>1, <2>1, <2>3 DEF ReportsKnown, Excused, Reporting
<1>6. CASE Snapshot(t)
  <2>1. /\ report' = [report EXCEPT ![t] = Blank(session)] /\ pc'[t] = "props"
        /\ UNCHANGED <<frag, session, content, present>> /\ ~Reporting(t)
    BY <1>6 DEF Snapshot, Reporting
  <2>2. Fits(report[t])'
    BY <2>1 DEF Fits, Blank
  <2>3. Promised'
    BY <2>1, <2>2 DEF Promised, Reporting
  <2> QED
    BY <1>1, <2>1, <2>3 DEF ReportsKnown, Excused, Reporting
<1>7. CASE ReadProps(t) \/ ReadInfo(t) \/ ReadTimeline(t)
  <2>1. PICK told \in {[report[t] EXCEPT !.props = Now(t)], [report[t] EXCEPT !.info = Now(t)],
                       [report[t] EXCEPT !.timeline = Now(t)]} :
           report' = report \/ report' = [report EXCEPT ![t] = told]
    BY <1>7 DEF ReadProps, ReadInfo, ReadTimeline, Read
  <2>2. /\ pc[t] \in {"props", "info", "timeline"} /\ Reporting(t) /\ Reporting(t)'
        /\ pc'[t] \in {"info", "timeline", "apply"}
        /\ UNCHANGED <<frag, session, content, present>>
    BY <1>7 DEF ReadProps, ReadInfo, ReadTimeline, Read, Reporting
  <2>3. report[t] \in Reports /\ report[t].session \in Sessions
    BY <2>2 DEF ReadsSession
  <2>4. told.late = report[t].late
    BY <2>1, <2>3 DEF Reports
  <2>5. Fits(report[t]) => Fits(report'[t])
    BY <1>7, ReadFits
  <2>6. \A r : Fits(r)' <=> Fits(r)
    BY <2>2 DEF Fits
  <2>7. \A u \in Threads : u # t => report'[u] = report[u]
    BY <2>1
  <2>8. report'[t].late = report[t].late
    BY <2>1, <2>4
  <2>9. Coming => Coming'
    BY <1>1, <2>2 DEF Coming
  <2>10. Fits(report[t]) => Fits(report[t])'
    BY <2>2, <2>5 DEF Fits
  <2>11. Promised => Promised'
    BY <1>1, <2>2, <2>6, <2>7, <2>9, <2>10 DEF Promised, Reporting
  <2>12. \A u \in Threads : u # t => (Reporting(u)' <=> Reporting(u))
    BY <1>1 DEF Reporting
  <2>13. ASSUME NEW u \in Threads
         PROVE  (IF Reporting(u) THEN Excused(report[u]) ELSE report[u] = NoReport)'
    <3>1. CASE u = t
      BY <2>2, <2>8, <2>10, <2>11, <3>1 DEF ReportsKnown, Excused
    <3>2. CASE u # t
      BY <2>6, <2>7, <2>11, <2>12, <3>2 DEF ReportsKnown, Excused
    <3> QED
      BY <3>1, <3>2
  <2> QED
    BY <2>2, <2>6, <2>11, <2>13 DEF ReportsKnown, Excused
<1>8. CASE Apply(t)
  <2>1. /\ frag' = report[t] /\ pc[t] = "apply" /\ ~Reporting(t)' /\ Reporting(t)
        /\ pc'[t] \notin CallPlaces
        /\ report' = [u \in Threads |->
                        IF u = t THEN NoReport
                        ELSE IF Reporting(u) THEN [report[u] EXCEPT !.late = TRUE]
                        ELSE report[u]]
        /\ UNCHANGED <<session, content, present>>
    BY <1>8 DEF Apply, Returns, Reporting, CallPlaces
  <2>2. \A r : Fits(r)' <=> Fits(r)
    BY <2>1 DEF Fits
  <2>3. \A u \in Threads : u # t =>
           /\ Reporting(u)' <=> Reporting(u)
           /\ Reporting(u) => report'[u].late /\ (Fits(report'[u]) <=> Fits(report[u]))
           /\ ~Reporting(u) => report'[u] = NoReport
    <3> SUFFICES ASSUME NEW u \in Threads, u # t
                 PROVE  /\ Reporting(u)' <=> Reporting(u)
                        /\ Reporting(u) => report'[u].late /\ (Fits(report'[u]) <=> Fits(report[u]))
                        /\ ~Reporting(u) => report'[u] = NoReport
      OBVIOUS
    <3>1. Reporting(u)' <=> Reporting(u)
      BY <1>1 DEF Reporting
    <3>2. CASE Reporting(u)
      <4>1. report'[u] = [report[u] EXCEPT !.late = TRUE] /\ report[u] \in Reports
        BY <2>1, <3>2
      <4> QED
        BY <3>1, <3>2, <4>1, LateFits
    <3>3. CASE ~Reporting(u)
      BY <2>1, <3>1, <3>3 DEF ReportsKnown
    <3> QED
      BY <3>2, <3>3
  <2>4. report'[t] = NoReport
    BY <2>1
  <2>5. Coming => Coming'
    BY <1>1, <2>1 DEF Coming
  <2>6. ~Fits(report[t]) /\ Promised => Promised'
    BY <2>2, <2>3, <2>5 DEF Promised
  <2>7. Excused(frag)'
    BY <2>1, <2>2, <2>6 DEF ReportsKnown, Excused
  <2> QED
    BY <2>1, <2>3, <2>4, <2>7 DEF ReportsKnown, Excused
<1> QED
  BY <1>2, <1>3, <1>4, <1>5, <1>6, <1>7, <1>8 DEF CallStep

\* A thread that takes up a handler goes to look for the session or to read it,
\* as the event asks for.
LEMMA DeliverServes ==
    ASSUME TypeInv, ServingInv, ~mishap', NEW t \in PoolThreads, NEW event \in due,
           Deliver(t, event)
    PROVE  ServingInv'
<1> USE DEF ServingInv, TypeInv, environment, source, subscription, locals, history, Goto
<1>1. /\ mgr /\ mgr' = mgr /\ t \in Threads /\ t # Owner /\ pc[t] = "idle"
      /\ pc' = [pc EXCEPT ![t] = IF event.to = Manager THEN "find" ELSE "snapshot"]
      /\ due' = due \ {event}
      /\ UNCHANGED <<environment, running, session, subscription, locals, frag, history>>
  BY DEF Deliver, NotSetUp, Threads
<1>2. /\ \A u \in Threads : u # t => pc'[u] = pc[u]
      /\ pc'[t] = IF event.to = Manager THEN "find" ELSE "snapshot"
  BY <1>1 DEF TypeOK
<1>3. NotSetUp' /\ OneRebinds' /\ Subscribed'
  <2>1. pc'[Owner] = pc[Owner] /\ (Halfway' <=> Halfway)
    BY <1>1, <1>2 DEF Halfway, Threads
  <2>2. NotSetUp'
    BY <1>1, <2>1 DEF NotSetUp
  <2>3. OneRebinds'
    BY <1>2 DEF OneRebinds, Rebinding
  <2>4. Subscribed'
    BY <1>1, <2>1 DEF Subscribed, RegisteredOnce
  <2> QED
    BY <2>2, <2>3, <2>4
<1>4. mgr' /\ running' => SessionKnown'
  <2>1. CASE event.to = Manager
    BY <1>1, <1>2, <2>1 DEF SessionKnown, Looks
  <2>2. CASE event.to # Manager
    <3>1. ListDue => ListDue'
      BY <1>1, <2>2 DEF ListDue
    <3> QED
      BY <1>1, <1>2, <2>2, <3>1 DEF SessionKnown, Looks, Visible
  <2> QED
    BY <2>1, <2>2
<1>5. ReportsKnown'
  <2>1. \A u \in Threads : Reporting(u)' <=> Reporting(u)
    BY <1>1, <1>2 DEF Reporting
  <2>2. \A r : Fits(r)' <=> Fits(r)
    BY <1>1 DEF Fits
  <2>3. Coming => Coming'
    <3>1. CASE event.to = Manager
      <4>1. ContentDue => ContentDue'
        BY <1>1, <3>1 DEF ContentDue
      <4> QED
        BY <1>1, <1>2, <4>1 DEF Coming
    <3>2. CASE event.to # Manager
      BY <1>1, <1>2, <3>2 DEF Coming
    <3> QED
      BY <3>1, <3>2
  <2>4. Promised => Promised'
    BY <1>1, <2>1, <2>2, <2>3 DEF Promised
  <2> QED
    BY <1>1, <2>1, <2>2, <2>4 DEF ReportsKnown, Excused
<1> QED
  BY <1>3, <1>4, <1>5

\* The session goes, or a new one comes that nobody has seen: an event tells the
\* source, if it has asked for them.
LEMMA SessionChangesServes ==
    ASSUME TypeInv, ThreadsInPlace, ServingInv,
           NEW s \in Sessions \cup {NoSession}, SessionChanges(s)
    PROVE  ServingInv'
<1> USE DEF ServingInv, TypeInv, environment, source, subscription, locals, history, Goto
<1>1. /\ UNCHANGED <<mgr, running, session, content, token, handlers, pc, found, report, frag>>
      /\ due \subseteq due'
  BY DEF SessionChanges
<1>2. OneRebinds' /\ Subscribed' /\ NotSetUp'
  BY <1>1 DEF SessionChanges, OneRebinds, Rebinding, Subscribed, Halfway, RegisteredOnce, NotSetUp
<1>3. mgr => ListDue'
  <2>1. mgr => Raised(Manager) \in due'
    BY DEF SessionChanges
  <2>2. Raised(Manager).to = Manager
    BY DEF Raised
  <2> QED
    BY <2>1, <2>2 DEF ListDue
<1>4. session = NoSession \/ session # present'
  BY DEF SessionChanges, ThreadsInPlace, TypeOK, Sessions, NoSession
<1>5. ReportsKnown'
  <2>1. \A r : Fits(r) => Fits(r)'
    BY <1>1, <1>4 DEF Fits
  <2>2. \A u \in Threads : Reporting(u)' <=> Reporting(u)
    BY <1>1 DEF Reporting
  <2>3. Coming => Coming'
    BY <1>1 DEF Coming, ContentDue
  <2>4. Promised => Promised'
    BY <1>1, <2>1, <2>2, <2>3 DEF Promised
  <2> QED
    BY <1>1, <2>1, <2>2, <2>4 DEF ReportsKnown, Excused
<1> QED
  BY <1>1, <1>2, <1>3, <1>5 DEF SessionKnown

\* The content changes: an event tells a source that is subscribed, one that is
\* about to be will read it.
LEMMA ContentChangesServes ==
    ASSUME TypeInv, ServingInv, ContentChanges
    PROVE  ServingInv'
<1> USE DEF ServingInv, TypeInv, environment, source, subscription, locals, history, Goto
<1>1. /\ UNCHANGED <<present, mgr, running, session, token, handlers, pc, found, report, frag,
                     history>>
      /\ due \subseteq due' /\ present # NoSession
      /\ \A s \in Sessions : s # present => content'[s] = content[s]
  BY DEF ContentChanges, TypeOK
<1>2. OneRebinds' /\ Subscribed' /\ NotSetUp'
  BY <1>1 DEF ContentChanges, OneRebinds, Rebinding, Subscribed, Halfway, RegisteredOnce, NotSetUp
<1>3. mgr' /\ running' => SessionKnown'
  BY <1>1 DEF SessionKnown, ListDue, Looks, Visible
<1>4. \A u \in Threads : Reporting(u)' <=> Reporting(u)
  BY <1>1 DEF Reporting
<1>5. CASE session = present
  <2>1. Coming'
    <3>1. CASE Halfway
      BY <1>1, <3>1 DEF Halfway, Coming
    <3>2. CASE ~Halfway
      <4>1. token \in DOMAIN handlers /\ handlers[token] = present /\ token # Manager
        BY <1>1, <1>5, <3>2 DEF Subscribed, RegisteredOnce, TypeOK, Manager
      <4>2. Raised(token) \in due'
        BY <4>1 DEF ContentChanges
      <4>3. ContentDue'
        BY <4>1, <4>2 DEF ContentDue, Raised
      <4> QED
        BY <1>1, <1>5, <4>3 DEF Coming
    <3> QED
      BY <3>1, <3>2
  <2>2. Promised'
    BY <2>1 DEF Promised
  <2>3. \A u \in Threads : ~Reporting(u) => report[u] = NoReport
    BY DEF ReportsKnown
  <2>4. \A u \in Threads : Reporting(u)' \/ report'[u] = NoReport
    BY <1>1, <1>4, <2>3
  <2>5. ReportsKnown'
    BY <2>2, <2>4 DEF ReportsKnown, Excused
  <2> QED
    BY <1>2, <1>3, <2>5
<1>6. CASE session # present
  <2>1. \A r : Fits(r)' <=> Fits(r)
    BY <1>1, <1>6 DEF Fits
  <2>2. Coming => Coming'
    BY <1>1 DEF Coming, ContentDue
  <2>3. Promised => Promised'
    BY <1>1, <1>4, <2>1, <2>2 DEF Promised
  <2>4. \A u \in Threads : Excused(report[u]) => Excused(report[u])'
    BY <1>1, <2>1, <2>3 DEF Excused
  <2>5. Excused(frag) => Excused(frag)'
    BY <1>1, <2>1, <2>3 DEF Excused
  <2>6. \A u \in Threads : report[u] = NoReport => report'[u] = NoReport
    BY <1>1
  <2>7. ReportsKnown'
    BY <1>4, <2>4, <2>5, <2>6 DEF ReportsKnown
  <2> QED
    BY <1>2, <1>3, <2>7
<1> QED
  BY <1>5, <1>6

\* The source asks for the sessions first, before anything is known of them.
LEMMA OwnerServes ==
    ASSUME TypeInv, ServingInv, Start \/ OwnerStep \/ Stop, Serving'
    PROVE  ServingInv'
<1> USE DEF ServingInv, TypeInv, environment, source, subscription, locals, history, Goto, Threads
<1>1. CASE Start \/ SetupManager \/ SetupFails
  <2>1. /\ pc[Owner] \in {"new", "setup"} /\ ~mgr
        /\ \A t \in PoolThreads : pc[t] = "idle"
        /\ due = {} /\ DOMAIN handlers = {} /\ session = NoSession /\ frag = NoReport
    BY <1>1 DEF Start, SetupManager, SetupFails, NotSetUp
  <2>2. /\ UNCHANGED <<environment, due, session, subscription, locals, frag>>
        /\ \E place \in {"setup", "find", "started"} : pc' = [pc EXCEPT ![Owner] = place]
    BY <1>1 DEF Start, SetupManager, SetupFails
  <2>3. mgr' => pc'[Owner] = "find" \/ (pc'[Owner] = "started" /\ ~running')
    <3>1. CASE Start
      BY <2>1, <3>1 DEF Start
    <3>2. CASE SetupManager
      BY <3>2 DEF SetupManager, TypeOK
    <3>3. CASE SetupFails
      <4>1. ~running'
        BY <3>3, Zenon DEF SetupFails
      <4> QED
        BY <3>3, <4>1 DEF SetupFails, TypeOK
    <3> QED
      BY <1>1, <3>1, <3>2, <3>3
  <2>4. ~mgr' => pc'[Owner] = "setup" \/ (pc'[Owner] = "started" /\ ~running')
    <3>1. CASE Start
      BY <3>1 DEF Start, TypeOK
    <3>2. CASE SetupManager
      <4>1. mgr'
        BY <3>2, Zenon DEF SetupManager
      <4> QED
        BY <4>1
    <3>3. CASE SetupFails
      <4>1. ~running'
        BY <3>3, Zenon DEF SetupFails
      <4> QED
        BY <3>3, <4>1 DEF SetupFails, TypeOK
    <3> QED
      BY <1>1, <3>1, <3>2, <3>3
  <2>5. \A t \in Threads : pc'[t] \in {"idle", "setup", "find", "started"}
    BY <2>1, <2>2 DEF TypeOK
  <2>6. OneRebinds' /\ Subscribed' /\ NotSetUp'
    <3>1. OneRebinds' /\ Subscribed'
      BY <2>1, <2>2, <2>5 DEF OneRebinds, Rebinding, Subscribed, Halfway, RegisteredOnce
    <3>2. \A t \in PoolThreads : pc'[t] = "idle"
      BY <2>1, <2>2 DEF TypeOK
    <3>3. pc'[Owner] \in {"new", "setup"} => ~mgr'
      BY <2>3
    <3> QED
      BY <2>1, <2>2, <2>4, <3>1, <3>2, <3>3 DEF NotSetUp
  <2>7. mgr' /\ running' => SessionKnown'
    BY <2>3 DEF SessionKnown, Looks
  <2>8. ReportsKnown'
    <3>1. \A t \in Threads : ~Reporting(t)
      BY <2>1 DEF Reporting
    <3>2. \A t \in Threads : ~Reporting(t)' /\ report'[t] = NoReport
      BY <2>2, <2>5, <3>1 DEF Reporting, ReportsKnown
    <3>3. Fits(frag)'
      BY <2>1, <2>2 DEF Fits, NoReport, Blank
    <3> QED
      BY <3>2, <3>3 DEF ReportsKnown, Excused
  <2> QED
    BY <2>6, <2>7, <2>8
<1>2. CASE TeardownSubscription \/ Clear \/ Stop
  BY <1>2 DEF TeardownSubscription, Clear, Stop, Serving, TypeOK
<1> QED
  BY <1>1, <1>2 DEF OwnerStep

LEMMA StopIsForGood ==
    ASSUME TypeInv, ThreadsInPlace, [Next]_vars, Serving'
    PROVE  Serving
<1> SUFFICES ASSUME pc[Owner] \in {"teardown", "clear", "stopped"}
             PROVE  pc'[Owner] \in {"teardown", "clear", "stopped"}
  BY DEF Serving
<1> USE DEF TypeInv, TypeOK, Goto, Threads
<1>1. ASSUME NEW t \in Threads, CallStep(t)
      PROVE  t # Owner /\ \E place : pc' = [pc EXCEPT ![t] = place]
  BY <1>1 DEF CallStep, Find, Finds, FindNothing, SameSession, Unsubscribe, Assign, Subscribe,
    SubscribeThrows, Decide, Snapshot, SnapshotNothing, ReadProps, ReadInfo, ReadTimeline, Read,
    Apply, Done, Returns
<1>2. ASSUME NEW t \in PoolThreads, NEW event \in due, Deliver(t, event)
      PROVE  t # Owner /\ \E place : pc' = [pc EXCEPT ![t] = place]
  BY <1>2 DEF Deliver
<1>3. CASE Start \/ OwnerStep \/ Stop
  BY <1>3 DEF Start, OwnerStep, SetupManager, SetupFails, TeardownSubscription, Clear, Stop
<1>4. CASE \/ \E s \in Sessions \cup {NoSession} : SessionChanges(s)
           \/ ContentChanges \/ UNCHANGED vars
  BY <1>4 DEF SessionChanges, ContentChanges, vars
<1> QED
  BY <1>1, <1>2, <1>3, <1>4 DEF Next

LEMMA MishapStays == mishap /\ [Next]_vars => mishap'
<1> SUFFICES ASSUME mishap, [Next]_vars
             PROVE  mishap'
  OBVIOUS
<1>1. ASSUME NEW t \in Threads, Find(t)
      PROVE  mishap'
  BY <1>1, Zenon DEF Find, Finds
<1>2. ASSUME NEW t \in Threads, SubscribeThrows(t)
      PROVE  mishap'
  BY <1>2, Zenon DEF SubscribeThrows
<1>3. ASSUME NEW t \in Threads, CallStep(t), ~Find(t), ~SubscribeThrows(t)
      PROVE  mishap'
  BY <1>3 DEF CallStep, Find, Finds, FindNothing, SameSession, Unsubscribe, Assign, Subscribe,
    SubscribeThrows, Decide, Snapshot, SnapshotNothing, ReadProps, ReadInfo, ReadTimeline, Read,
    Apply, history
<1>4. CASE \/ \E t \in PoolThreads : \E event \in due : Deliver(t, event)
           \/ Start \/ OwnerStep \/ Stop
           \/ \E s \in Sessions \cup {NoSession} : SessionChanges(s)
           \/ ContentChanges \/ UNCHANGED vars
  BY <1>4 DEF Deliver, Start, OwnerStep, SetupManager, SetupFails, TeardownSubscription, Clear,
    Stop, SessionChanges, ContentChanges, history, vars
<1> QED
  BY <1>1, <1>2, <1>3, <1>4 DEF Next

LEMMA IInvStep ==
    ASSUME TypeInv, IInv, [Next]_vars
    PROVE  IInv'
<1>1. ThreadsInPlace'
  BY PlacesStep DEF IInv
<1> SUFFICES ASSUME Serving', ~mishap'
             PROVE  ServingInv'
  BY <1>1 DEF IInv
<1>2. ServingInv
  BY StopIsForGood, MishapStays DEF IInv
<1>3. ASSUME NEW t \in Threads, CallStep(t)
      PROVE  ServingInv'
  BY <1>2, <1>3, CallFrame, CallRebindsAlone, CallSubscribes, CallKnowsSession, CallKnowsReports
     DEF ServingInv
<1>4. CASE UNCHANGED vars
  BY <1>2, <1>4 DEF ServingInv, vars, environment, source, subscription, locals, history,
    NotSetUp, OneRebinds, Rebinding, Subscribed, Halfway, RegisteredOnce, SessionKnown, ListDue,
    Looks, Visible, ReportsKnown, Excused, Promised, Coming, ContentDue, Reporting, Fits
<1> QED
  BY <1>2, <1>3, <1>4, DeliverServes, OwnerServes, SessionChangesServes, ContentChangesServes
     DEF Next, IInv

-----------------------------------------------------------------------------
(* What it says of a source at rest.                                       *)

LEMMA IInvHolds == Spec => [](TypeInv /\ IInv)
<1>1. Init => TypeInv /\ IInv
  BY TypeInvInit, IInvInit
<1>2. TypeInv /\ IInv /\ [Next]_vars => (TypeInv /\ IInv)'
  BY TypeInvStep, IInvStep
<1> QED
  BY <1>1, <1>2, PTL DEF Spec

\* Until two calls of RebindSession overlap or one throws, a started source is
\* registered once, with the session it is bound to, and holds the token that
\* ends it: whatever came and went meanwhile, no handler was left behind.
THEOREM SubscribedThroughout == Spec => []SubscribedToSession
<1>1. TypeInv /\ IInv => SubscribedToSession
  BY DEF IInv, ServingInv, Serving, Subscribed, Halfway, SubscribedToSession, BetweenRebinds
<1> QED
  BY <1>1, IInvHolds, PTL

\* And when it has handled every event it is bound to the session last seen and
\* has handed over its content, but for what it could not read and unless its
\* last report was overtaken: RebindSession and RefreshAll between them lose no
\* change, wherever among their calls to Windows it falls and however many
\* handlers run.
THEOREM NoChangeLost == Spec => []NothingLost
<1>1. TypeInv /\ IInv => NothingLost
  <2> SUFFICES ASSUME TypeInv, IInv, pc[Owner] = "started", running, due = {}, ~mishap,
                      \A t \in Threads : ~InCall(t)
               PROVE  UpToDate \/ frag.late
    BY DEF NothingLost, Resting
  <2> USE DEF IInv, ServingInv
  <2>1. Serving /\ mgr
    BY DEF Serving, NotSetUp
  <2>2. session = Visible
    BY <2>1 DEF SessionKnown, ListDue, Looks, InCall
  <2>3. ~Promised
    BY DEF Promised, Coming, ContentDue, Reporting, InCall
  <2>4. Fits(frag) \/ frag.late
    BY <2>1, <2>3 DEF ReportsKnown, Excused
  <2>5. session # NoSession => session = present
    BY <2>2 DEF Visible
  <2>6. frag \in Reports
    BY DEF TypeInv, TypeOK
  <2> QED
    BY <2>2, <2>4, <2>5, <2>6 DEF Fits, UpToDate
<1> QED
  BY <1>1, IInvHolds, PTL
=============================================================================
