-------------------------- MODULE LifecycleProofs --------------------------
(***************************************************************************)
(* Theorems about Lifecycle, for any number of windows and processes and   *)
(* of changes of the environment.                                          *)
(***************************************************************************)
EXTENDS Lifecycle, SequenceTheorems, TLAPS

USE LifecycleAssumption

\* Before the first Start nothing is installed or tracked.
LEMMA IInvInit == Init => IInv
<1> SUFFICES ASSUME Init
             PROVE  IInv
  OBVIOUS
<1>1. /\ newest \in 0 .. MaxWindow /\ alive \subseteq 1 .. newest /\ dying \subseteq 1 .. newest
      /\ title \in [Windows -> 1 .. MaxChanges + 1] /\ changes \in 0 .. MaxChanges
  BY DEF Init
<1>3. /\ queue \in Seq(WinEvents)
      /\ pc \in Places /\ after \in {"idle", "sources"} /\ text \in 0 .. MaxChanges + 1
      /\ titleFrag \in [window : Windows \cup {None}, text : 0 .. MaxChanges + 1]
  BY DEF Init, Places, NoTitle
<1>4. TypeOK
  BY <1>1, <1>3 DEF Init, TypeOK
<1>2. Installed /\ Progress /\ TitlesBounded
  BY DEF Init, Installed, Progress, TitlesBounded, Settled, Hooked, Told, Windows
<1> QED
  BY <1>2, <1>4 DEF IInv

\* Process id 0 is what the first argument of SetWinEventHook takes for "any",
\* so no value it is given is the absence of a hook.
LEMMA ProcessesAreNoHook ==
    /\ \A w \in Windows : ProcessOf[w] \in Nat /\ ProcessOf[w] # None
    /\ TypeOK => processId # NoHook
<1>1. \A w \in Windows : ProcessOf[w] \in Nat /\ ProcessOf[w] # None
  BY DEF None
<1> QED
  BY <1>1 DEF TypeOK, None, NoHook

\* Windows are counted from 1.
LEMMA NoneIsNoWindow == None \notin Windows
BY DEF None, Windows

\* Only windows are alive.
LEMMA AliveAreWindows == TypeOK => alive \subseteq Windows /\ dying \subseteq Windows
BY DEF TypeOK, Windows

\* Start, the seed and Stop.
LEMMA StartAndStopPreserve ==
    ASSUME IInv,
           Start \/ (\E w \in Windows : Seed(w)) \/ SeedNothing \/ StartSources \/ Stop
    PROVE  IInv'
<1> USE DEF IInv
<1>1. CASE Start
  <2>1. /\ window = None /\ ~Hooked /\ ~hooksInstalled
        /\ hooksInstalled' /\ registered' /\ hookWindow' /\ pc' = "seed" /\ opened' = 0
    BY <1>1 DEF Start, Installed
  <2>2. TypeOK'
    BY <1>1, Zenon DEF Start, TypeOK, Places, environment, tracked, locals
  <2>3. Installed' /\ Progress' /\ TitlesBounded'
    BY <1>1, <2>1 DEF Start, Installed, Progress, TitlesBounded, Settled, Hooked, Told,
         environment, tracked, locals
  <2> QED
    BY <2>2, <2>3
<1>2. CASE \E w \in Windows : Seed(w)
  BY <1>2 DEF Seed, TypeOK, Places, Installed, Progress, TitlesBounded, Settled, Hooked, Told,
              environment, installed, tracked, reported, Windows, None
<1>3. CASE SeedNothing
  BY <1>3 DEF SeedNothing, TypeOK, Places, Installed, Progress, TitlesBounded, Settled, Hooked,
              Told, environment, installed, tracked, locals, reported
<1>4. CASE StartSources
  BY <1>4 DEF StartSources, TypeOK, Places, Installed, Progress, TitlesBounded, Settled, Hooked,
              Told, environment, tracked, locals, reported
<1>5. CASE Stop
  BY <1>5 DEF Stop, StopWith, TypeOK, Places, Installed, Progress, TitlesBounded, Settled,
              Hooked, Told, environment, locals, reported
<1> QED
  BY <1>1, <1>2, <1>3, <1>4, <1>5

\* The handlers of the WinEvents, up to the call of SetWindow or ApplyTitle.
LEMMA HandlersPreserve ==
    ASSUME IInv, OnWindowEventIgnored \/ OnCreate \/ OnDestroy \/ OnNameEvent
    PROVE  IInv'
<1> USE DEF IInv
<1>1. Deliver
  BY DEF OnWindowEventIgnored, OnCreate, OnDestroy, OnNameEvent
<1>7. /\ Event \in WinEvents
      /\ queue' \in Seq(WinEvents)
  BY <1>1 DEF Deliver, Event, TypeOK
<1>2. Event.window \in Windows /\ Event.window # None /\ queue' \in Seq(WinEvents)
  BY <1>7, NoneIsNoWindow DEF WinEvents
<1>3. CASE OnWindowEventIgnored
  BY <1>2, <1>3 DEF OnWindowEventIgnored, TypeOK, Installed, Progress, TitlesBounded, Settled,
       Hooked, Told, environment, installed, tracked, locals, reported
<1>4. CASE OnCreate
  <2>1. TypeOK'
    BY <1>2, <1>4 DEF OnCreate, TypeOK, Places, environment, installed, tracked, reported
  <2>2. Installed' /\ Progress' /\ TitlesBounded'
    BY <1>1, <1>2, <1>4 DEF OnCreate, Deliver, Installed,
         Progress, TitlesBounded, Settled, Hooked, Told, environment, installed, tracked, reported
  <2> QED
    BY <2>1, <2>2
<1>5. CASE OnDestroy
  <2>1. TypeOK'
    BY <1>2, <1>5 DEF OnDestroy, TypeOK, Places, environment, installed, tracked, reported
  <2>2. Installed' /\ Progress' /\ TitlesBounded'
    BY <1>1, <1>2, <1>5 DEF OnDestroy, IsOurs, Deliver, Installed,
         Progress, TitlesBounded, Settled, Hooked, Told, environment, installed, tracked, reported
  <2> QED
    BY <2>1, <2>2
<1>6. CASE OnNameEvent
  <2>1. TypeOK'
    <3>1. hwnd' \in Windows \cup {None} /\ after' \in {"idle", "sources"} /\ pc' \in Places
      BY <1>2, <1>6 DEF OnNameEvent, TypeOK, Places
    <3> QED
      BY <1>2, <1>6, <3>1, Zenon DEF OnNameEvent, TypeOK, environment, installed, tracked, reported
  <2>2. Installed' /\ Progress' /\ TitlesBounded'
    BY <1>1, <1>2, <1>6 DEF OnNameEvent, IsOurs, Deliver, Installed,
         Progress, TitlesBounded, Settled, Hooked, Told, environment, installed, tracked, reported
  <2> QED
    BY <2>1, <2>2
<1> QED
  BY <1>3, <1>4, <1>5, <1>6

\* SetWindow and ApplyTitle.
LEMMA SetWindowPreserves ==
    ASSUME IInv, StoreWindow \/ StillOpen \/ HookTitle \/ ReadTitle \/ ApplyTitle \/ Unhook
    PROVE  IInv'
<1> USE DEF IInv
<1>1. CASE StoreWindow
  <2>1. switched' \in BOOLEAN
    BY <1>1, Zenon DEF StoreWindow
  <2>2. /\ pc' \in {"return", "hook", "unhook"}
        /\ pc' = "return" => window # None /\ window' # None
        /\ pc' = "hook" => window = None /\ window' # None
        /\ pc' = "unhook" => window # None /\ window' = None
    BY <1>1 DEF StoreWindow, Branch, Progress
  <2>3. TypeOK'
    <3>1. /\ window' \in Windows \cup {None}
          /\ processId' \in {None} \cup {ProcessOf[w] : w \in Windows}
      BY <1>1, AliveAreWindows DEF StoreWindow, TypeOK
    <3>2. pc' \in Places
      BY <2>2 DEF Places
    <3> QED
      BY <1>1, <2>1, <3>1, <3>2 DEF StoreWindow, TypeOK, environment, installed, locals
  <2>4. Installed' /\ Progress' /\ TitlesBounded'
    BY <1>1, <2>2 DEF StoreWindow, TypeOK, Installed, Progress, TitlesBounded, Settled, Hooked,
         Told, environment, installed, locals
  <2> QED
    BY <2>3, <2>4
<1>2. CASE StillOpen
  BY <1>2 DEF StillOpen, Return, TypeOK, Places, Installed, Progress, TitlesBounded, Settled,
       Hooked, Told, environment, installed, tracked, reported
<1>3. CASE HookTitle
  BY <1>3, ProcessesAreNoHook DEF HookTitle, TypeOK, Places, Installed, Progress, TitlesBounded,
       Settled, Hooked, Told, environment, installed, locals
<1>4. CASE ReadTitle
  <2>1. text' \in 0 .. MaxChanges + 1
    <3>1. text' \in {0} \cup (1 .. MaxChanges + 1)
      BY <1>4, AliveAreWindows DEF ReadTitle, TypeOK
    <3> QED
      BY <3>1
  <2>2. TypeOK'
    BY <1>4, <2>1 DEF ReadTitle, TypeOK, Places, environment, installed, tracked, reported
  <2>3. Installed' /\ Progress' /\ TitlesBounded'
    BY <1>4 DEF ReadTitle, Installed, Progress, TitlesBounded, Settled, Hooked, Told, environment,
         installed, tracked, reported
  <2> QED
    BY <2>2, <2>3
<1>5. CASE ApplyTitle
  BY <1>5 DEF ApplyTitle, Return, TypeOK, Places, Installed, Progress, TitlesBounded, Settled,
       Hooked, Told, environment, installed, tracked
<1>6. CASE Unhook
  BY <1>6 DEF Unhook, Return, NoTitle, TypeOK, Places, Installed, Progress, TitlesBounded,
       Settled, Hooked, Told, environment, installed
<1> QED
  BY <1>1, <1>2, <1>3, <1>4, <1>5, <1>6

\* The part of the type invariant that Spotify and Windows can disturb.
EnvironmentTypeOK ==
    /\ newest \in 0 .. MaxWindow /\ alive \subseteq 1 .. newest /\ dying \subseteq 1 .. newest
    /\ title \in [Windows -> 1 .. MaxChanges + 1] /\ changes \in 0 .. MaxChanges
    /\ queue \in Seq(WinEvents)

\* A step that leaves the client alone and keeps that part keeps the whole.
LEMMA ClientTypeKept ==
    ASSUME TypeOK, EnvironmentTypeOK', UNCHANGED <<installed, tracked, pc, locals, reported>>
    PROVE  TypeOK'
<1>1. /\ hooksInstalled' = hooksInstalled /\ registered' = registered /\ sources' = sources
      /\ hookWindow' = hookWindow /\ hookTitle' = hookTitle /\ window' = window
      /\ processId' = processId /\ pc' = pc /\ after' = after /\ hwnd' = hwnd
      /\ text' = text /\ opened' = opened /\ titleFrag' = titleFrag
      /\ switched' = switched
  BY DEF installed, tracked, locals, reported
<1>2. /\ hooksInstalled' \in BOOLEAN /\ registered' \in BOOLEAN /\ sources' \in BOOLEAN
      /\ hookWindow' \in BOOLEAN
      /\ hookTitle' \in {NoHook, None} \cup {ProcessOf[w] : w \in Windows}
  BY <1>1 DEF TypeOK
<1>3. /\ window' \in Windows \cup {None}
      /\ processId' \in {None} \cup {ProcessOf[w] : w \in Windows}
      /\ pc' \in Places /\ after' \in {"idle", "sources"}
      /\ hwnd' \in Windows \cup {None}
  BY <1>1 DEF TypeOK
<1>4. /\ text' \in 0 .. MaxChanges + 1
      /\ opened' \in {0, 1}
      /\ titleFrag' \in [window : Windows \cup {None}, text : 0 .. MaxChanges + 1]
      /\ switched' \in BOOLEAN
  BY <1>1 DEF TypeOK
<1> QED
  BY <1>2, <1>3, <1>4, Zenon DEF TypeOK, EnvironmentTypeOK

\* Changes are counted up to their bound.
LEMMA ChangesCounted ==
    ASSUME TypeOK, Change
    PROVE  changes' \in 0 .. MaxChanges
<1>1. changes \in 0 .. MaxChanges
  BY DEF TypeOK
<1>2. changes < MaxChanges /\ changes' = changes + 1
  BY DEF Change
<1> QED
  BY <1>1, <1>2

\* Spotify and Windows touch nothing of the client's.
LEMMA EnvironmentPreserves ==
    ASSUME IInv,
           \/ OpenWindow
           \/ \E w \in Windows : AnnounceDestruction(w) \/ DestroyWindow(w) \/ ChangeTitle(w)
    PROVE  IInv'
<1> USE DEF IInv
<1>1. ASSUME NEW hooked, NEW kind \in {"create", "destroy", "name"}, NEW w \in Windows,
             Raise(hooked, kind, w)
      PROVE  queue' \in Seq(WinEvents)
  <2>1. [kind |-> kind, window |-> w] \in WinEvents
    BY DEF WinEvents
  <2> QED
    BY <1>1, <2>1 DEF Raise, TypeOK
<1>2. CASE OpenWindow
  <2>1. newest + 1 \in Windows
    BY <1>2 DEF OpenWindow, TypeOK, Windows
  <2>2. queue' \in Seq(WinEvents)
    BY <1>1, <1>2, <2>1 DEF OpenWindow
  <2>5. EnvironmentTypeOK'
    <3>1. newest' \in 0 .. MaxWindow
      <4>1. newest \in 0 .. MaxWindow /\ newest < MaxWindow /\ newest' = newest + 1
        BY <1>2 DEF OpenWindow, TypeOK
      <4> QED
        BY <4>1
    <3>2. alive' \subseteq 1 .. newest' /\ dying' \subseteq 1 .. newest'
      BY <1>2 DEF OpenWindow, TypeOK
    <3>3. title' = title /\ changes' \in 0 .. MaxChanges
      BY <1>2, ChangesCounted, Zenon DEF OpenWindow
    <3> QED
      BY <2>2, <3>1, <3>2, <3>3, Zenon DEF EnvironmentTypeOK, TypeOK
  <2>6. UNCHANGED <<installed, tracked, pc, locals, reported>>
    BY <1>2, Zenon DEF OpenWindow
  <2>3. TypeOK'
    BY <2>5, <2>6, ClientTypeKept
  <2>4. Installed' /\ Progress' /\ TitlesBounded'
    BY <1>2 DEF OpenWindow, Change, TypeOK, Installed, Progress, TitlesBounded, Settled,
                Hooked, Told,
         installed, tracked, locals, reported
  <2> QED
    BY <2>3, <2>4
<1>3. ASSUME NEW w \in Windows, AnnounceDestruction(w)
      PROVE  IInv'
  <2>1. queue' \in Seq(WinEvents)
    BY <1>1, <1>3 DEF AnnounceDestruction
  <2>4. dying' \subseteq 1 .. newest
    BY <1>3, Zenon DEF AnnounceDestruction, TypeOK
  <2>5. changes' \in 0 .. MaxChanges
    BY <1>3, ChangesCounted, Zenon DEF AnnounceDestruction
  <2>6. newest' = newest /\ alive' = alive /\ title' = title
    BY <1>3, Zenon DEF AnnounceDestruction
  <2>7. EnvironmentTypeOK'
    BY <2>1, <2>4, <2>5, <2>6, Zenon DEF EnvironmentTypeOK, TypeOK
  <2>8. UNCHANGED <<installed, tracked, pc, locals, reported>>
    BY <1>3, Zenon DEF AnnounceDestruction
  <2>2. TypeOK'
    BY <2>7, <2>8, ClientTypeKept
  <2>3. Installed' /\ Progress' /\ TitlesBounded'
    BY <1>3 DEF AnnounceDestruction, Change, TypeOK, Installed, Progress, TitlesBounded,
                Settled, Hooked, Told,
         installed, tracked, locals, reported
  <2> QED
    BY <2>2, <2>3
<1>4. ASSUME NEW w \in Windows, DestroyWindow(w)
      PROVE  IInv'
  <2>3. alive' \subseteq 1 .. newest
    BY <1>4 DEF DestroyWindow, TypeOK
  <2>1. TypeOK'
    <3>1. /\ newest' = newest /\ dying' = dying /\ title' = title /\ changes' = changes
          /\ queue' = queue /\ UNCHANGED <<installed, tracked, pc, locals, reported>>
      BY <1>4, Zenon DEF DestroyWindow
    <3>2. EnvironmentTypeOK'
      BY <2>3, <3>1, Zenon DEF EnvironmentTypeOK, TypeOK
    <3> QED
      BY <3>1, <3>2, ClientTypeKept
  <2>2. Installed' /\ Progress' /\ TitlesBounded'
    BY <1>4 DEF DestroyWindow, Installed, Progress, TitlesBounded, Settled, Hooked, Told, installed,
         tracked, locals, reported
  <2> QED
    BY <2>1, <2>2
<1>5. ASSUME NEW w \in Windows, ChangeTitle(w)
      PROVE  IInv'
  <2>1. queue' \in Seq(WinEvents)
    BY <1>1, <1>5 DEF ChangeTitle
  <2>2. /\ changes \in 0 .. MaxChanges /\ changes < MaxChanges /\ changes' = changes + 1
        /\ title \in [Windows -> 1 .. MaxChanges + 1]
        /\ \A v \in Windows : title[v] <= changes + 1
        /\ title' = [title EXCEPT ![w] = @ + 1]
    BY <1>5 DEF ChangeTitle, Change, TypeOK, TitlesBounded
  <2>6. title' \in [Windows -> 1 .. MaxChanges + 1]
    BY <2>2
  <2>3. TitlesBounded'
    BY <2>2 DEF TitlesBounded
  <2>4. TypeOK'
    <3>1. changes' \in 0 .. MaxChanges
      BY <2>2
    <3>2. /\ newest' = newest /\ alive' = alive /\ dying' = dying
          /\ UNCHANGED <<installed, tracked, pc, locals, reported>>
      BY <1>5, Zenon DEF ChangeTitle
    <3>3. EnvironmentTypeOK'
      BY <2>1, <2>6, <3>1, <3>2, Zenon DEF EnvironmentTypeOK, TypeOK
    <3> QED
      BY <3>2, <3>3, ClientTypeKept
  <2>5. Installed' /\ Progress'
    BY <1>5 DEF ChangeTitle, Installed, Progress, Settled, Hooked, Told, installed, tracked,
         locals, reported
  <2> QED
    BY <2>3, <2>4, <2>5
<1> QED
  BY <1>2, <1>3, <1>4, <1>5

\* A step that changes nothing.
LEMMA StutterPreserves == IInv /\ UNCHANGED vars => IInv'
BY DEF IInv, vars, environment, installed, tracked, locals, reported, TypeOK, Installed,
       Progress, TitlesBounded, Settled, Hooked, Told

\* The invariant that carries the safety properties: SetWindow is where it is
\* said to be, and Start's parts are there together.
THEOREM LifecycleInductive == Spec => []IInv
<1>1. IInv /\ [Next]_vars => IInv'
  BY StartAndStopPreserve, HandlersPreserve, SetWindowPreserves, EnvironmentPreserves,
     StutterPreserves DEF Next, Handle
<1> QED
  BY <1>1, IInvInit, PTL DEF Spec

\* Every variable has its type; above all, OnOpened and OnClosed alternate.
THEOREM LifecycleTypeCorrect == Spec => []TypeOK
<1>1. IInv => TypeOK
  BY DEF IInv
<1> QED
  BY <1>1, LifecycleInductive, PTL

\* Between calls the title hook, the tracked window and what OnOpened and
\* OnClosed told agree, and a stopped client has none of them.
THEOREM TrackedWindowConsistent == Spec => []TrackedConsistently
<1>1. IInv => TrackedConsistently
  BY DEF IInv, Installed, Progress, Settled, Hooked, Told, TrackedConsistently
<1> QED
  BY <1>1, LifecycleInductive, PTL

-----------------------------------------------------------------------------
(* No title is lost.                                                       *)

\* The client takes its handles from Windows, which knows only those it opened.
LEMMA WindowsKnownStep ==
    ASSUME IInv, WindowsKnown, [Next]_vars
    PROVE  WindowsKnown'
<1> USE DEF WindowsKnown, IInv
<1>1. /\ newest \in Nat /\ hwnd \in Nat /\ window \in Nat
      /\ \A w \in alive : w \in 1 .. newest
  BY DEF TypeOK, None, Windows
<1>2. CASE \/ Start \/ SeedNothing \/ StartSources \/ Stop \/ OnWindowEventIgnored \/ OnDestroy
           \/ StoreWindow \/ StillOpen \/ HookTitle \/ ReadTitle \/ ApplyTitle \/ Unhook
  BY <1>1, <1>2 DEF Start, SeedNothing, StartSources, Stop, StopWith, OnWindowEventIgnored,
     OnDestroy, StoreWindow, StillOpen, HookTitle, ReadTitle, ApplyTitle, Unhook, Return,
     environment, tracked, locals, None
<1>3. CASE (\E w \in Windows : Seed(w)) \/ OnCreate \/ OnNameEvent
  BY <1>1, <1>3 DEF Seed, OnCreate, OnNameEvent, environment, tracked
<1>4. CASE OpenWindow
  BY <1>1, <1>4 DEF OpenWindow, tracked, locals
<1>5. CASE \E w \in Windows : AnnounceDestruction(w) \/ DestroyWindow(w) \/ ChangeTitle(w)
  BY <1>1, <1>5 DEF AnnounceDestruction, DestroyWindow, ChangeTitle, tracked, locals
<1>6. CASE UNCHANGED vars
  BY <1>1, <1>6 DEF vars, environment, tracked, locals
<1> QED
  BY <1>2, <1>3, <1>4, <1>5, <1>6 DEF Next, Handle

\* An event that is raised, and one that is delivered.
LEMMA NamesAfter ==
    ASSUME NEW q \in Seq(WinEvents), NEW w
    PROVE  /\ \A e \in WinEvents : Names(q, w) => Names(Append(q, e), w)
           /\ Names(Append(q, [kind |-> "name", window |-> w]), w)
           /\ q # <<>> /\ Head(q) # [kind |-> "name", window |-> w] /\ Names(q, w)
                 => Names(Tail(q), w)
<1>1. Len(q) \in Nat /\ DOMAIN q = 1 .. Len(q)
  BY LenProperties
<1>2. ASSUME NEW e
      PROVE  /\ Names(q, w) => Names(Append(q, e), w)
             /\ Append(q, e)[Len(q) + 1] = e /\ Len(q) + 1 \in DOMAIN Append(q, e)
  <2>1. /\ DOMAIN Append(q, e) = 1 .. Len(q) + 1
        /\ \A i \in 1 .. Len(q) : Append(q, e)[i] = q[i]
        /\ Append(q, e)[Len(q) + 1] = e
    BY <1>1
  <2>2. \A i \in 1 .. Len(q) : i \in 1 .. Len(q) + 1
    BY <1>1
  <2> QED
    BY <1>1, <2>1, <2>2 DEF Names
<1>3. ASSUME q # <<>>, Head(q) # [kind |-> "name", window |-> w], Names(q, w)
      PROVE  Names(Tail(q), w)
  <2>1. PICK i \in 1 .. Len(q) : q[i] = [kind |-> "name", window |-> w]
    BY <1>1, <1>3 DEF Names
  <2>2. i # 1
    BY <1>3, <2>1
  <2>3. /\ Tail(q) \in Seq(WinEvents) /\ Len(Tail(q)) = Len(q) - 1
        /\ \A j \in 1 .. Len(Tail(q)) : Tail(q)[j] = q[j + 1]
    BY <1>3, HeadTailProperties
  <2>4. i - 1 \in 1 .. Len(Tail(q)) /\ (i - 1) + 1 = i
    BY <1>1, <2>2, <2>3
  <2>5. DOMAIN Tail(q) = 1 .. Len(Tail(q))
    BY <2>3, LenProperties
  <2> QED
    BY <2>1, <2>3, <2>4, <2>5 DEF Names
<1> QED
  BY <1>2, <1>3 DEF Names

\* Nothing the client knows of its window has changed, and no event is lost.
LEMMA TitleKeptAside ==
    ASSUME TitleKept, UNCHANGED <<tracked, pc, hwnd, text, titleFrag, switched>>,
           window \in alive' => window \in alive /\ title'[window] = title[window],
           Names(queue, window) => Names(queue', window)
    PROVE  TitleKept'
  BY DEF TitleKept, Applied, Announced, Names, tracked

LEMMA TitleKeptStart ==
    ASSUME IInv,
           Start \/ (\E w \in Windows : Seed(w)) \/ SeedNothing \/ Stop \/ Unhook
    PROVE  TitleKept'
<1>1. None \notin alive
  BY AliveAreWindows, NoneIsNoWindow DEF IInv
<1>2. window' = None /\ alive' = alive
  BY DEF Start, Seed, SeedNothing, Stop, StopWith, Unhook, IInv, Progress, Installed,
     environment, tracked
<1> QED
  BY <1>1, <1>2 DEF TitleKept

\* The events delivered: only that of the tracked window's title is one that
\* TitleKept counts on, and the title is read at once.
LEMMA TitleKeptDelivers ==
    ASSUME IInv, TitleKept, OnWindowEventIgnored \/ OnCreate \/ OnDestroy \/ OnNameEvent
    PROVE  TitleKept'
<1> DEFINE name == [kind |-> "name", window |-> window]
<1>1. /\ queue \in Seq(WinEvents) /\ queue # <<>> /\ queue' = Tail(queue) /\ pc = "idle"
      /\ UNCHANGED <<environment, tracked, titleFrag, switched>>
  BY DEF OnWindowEventIgnored, OnCreate, OnDestroy, OnNameEvent, Deliver, IInv, TypeOK, reported,
     installed
<1>2. Event # name => (Names(queue, window) => Names(queue', window))
  BY <1>1, NamesAfter DEF Event
<1>3. Event \in WinEvents
  BY <1>1, HeadTailProperties DEF Event
<1>4. CASE OnWindowEventIgnored
  <2>1. Event # name
    BY <1>4 DEF OnWindowEventIgnored
  <2> QED
    BY <1>1, <1>2, <1>4, <2>1, TitleKeptAside DEF OnWindowEventIgnored, locals, environment
<1>5. CASE OnCreate \/ OnDestroy
  <2>1. Event # name /\ pc' = "store"
    BY <1>5 DEF OnCreate, OnDestroy
  <2> QED
    BY <1>1, <1>2, <2>1 DEF TitleKept, Applied, Announced, Names, tracked, environment
<1>6. CASE OnNameEvent
  <2>1. CASE registered /\ Event.window \in alive /\ IsOurs(Event.window)
    <3>1. pc' = "title" /\ hwnd' = window
      BY <1>6, <2>1 DEF OnNameEvent, IsOurs
    <3> QED
      BY <1>1, <3>1 DEF TitleKept, tracked, environment
  <2>2. CASE ~(registered /\ Event.window \in alive /\ IsOurs(Event.window))
    <3>1. UNCHANGED <<pc, hwnd, text>>
      BY <1>6, <2>2 DEF OnNameEvent
    <3>2. CASE window \in alive
      <4>1. window # None
        BY <3>2, AliveAreWindows, NoneIsNoWindow DEF IInv
      <4>2. registered
        BY <4>1 DEF IInv, Installed
      <4>3. Event # name
        BY <2>2, <3>2, <4>2 DEF IsOurs
      <4> QED
        BY <1>1, <1>2, <3>1, <4>3, TitleKeptAside DEF environment
    <3>3. CASE window \notin alive
      BY <1>1, <3>3 DEF TitleKept, tracked, environment
    <3> QED
      BY <3>2, <3>3
  <2> QED
    BY <2>1, <2>2
<1> QED
  BY <1>4, <1>5, <1>6

\* SetWindow hooks the titles first, then one is read and applied.
LEMMA TitleKeptSetWindow ==
    ASSUME IInv, TitleKept,
           StartSources \/ StoreWindow \/ StillOpen \/ HookTitle \/ ReadTitle \/ ApplyTitle
    PROVE  TitleKept'
<1>0. None \notin alive /\ after \in {"idle", "sources"}
  BY AliveAreWindows, NoneIsNoWindow DEF IInv, TypeOK
<1>1. CASE StartSources
  BY <1>1 DEF StartSources, TitleKept, Applied, Announced, Names, environment, tracked, locals,
              reported
<1>2. CASE StoreWindow
  <2>1. /\ UNCHANGED <<environment, queue, hookTitle, hwnd, text, titleFrag>> /\ pc = "store"
        /\ window' = hwnd /\ pc' = Branch(window # None, hwnd # None)
        /\ processId' = IF hwnd \in alive THEN ProcessOf[hwnd] ELSE None
    BY <1>2 DEF StoreWindow, locals
  <2>2. hwnd # None /\ ~switched' => ~switched /\ window \in {None, hwnd}
    BY <1>2, Zenon DEF StoreWindow
  <2> SUFFICES ASSUME hwnd \in alive, ~switched'
               PROVE  TitleKept'
    BY <2>1 DEF TitleKept, environment
  <2>3. hwnd # None /\ ~switched /\ window \in {None, hwnd}
    BY <1>0, <2>2
  <2>4. CASE window = None
    <3>1. pc' = "hook" /\ processId' = ProcessOf[hwnd]
      BY <2>1, <2>3, <2>4 DEF Branch
    <3> QED
      BY <2>1, <3>1 DEF TitleKept
  <2>5. CASE window = hwnd
    <3>1. pc' = "return"
      BY <2>1, <2>3, <2>5 DEF Branch
    <3> QED
      BY <2>1, <2>3, <2>5, <3>1 DEF TitleKept, Applied, Announced, Names, environment
  <2> QED
    BY <2>3, <2>4, <2>5
<1>3. CASE StillOpen
  BY <1>0, <1>3 DEF StillOpen, Return, TitleKept, Applied, Announced, Names, environment,
                    tracked, reported
<1>4. CASE HookTitle
  BY <1>4 DEF HookTitle, TitleKept, environment, locals
<1>5. CASE ReadTitle
  BY <1>5 DEF ReadTitle, TitleKept, environment, tracked, reported
<1>6. CASE ApplyTitle
  BY <1>0, <1>6 DEF ApplyTitle, Return, TitleKept, Applied, Announced, Names, environment, tracked
<1> QED
  BY <1>1, <1>2, <1>3, <1>4, <1>5, <1>6

\* Windows come and go; a title that changes is announced while it is hooked.
LEMMA TitleKeptEnvironment ==
    ASSUME IInv, WindowsKnown, TitleKept,
           \/ OpenWindow
           \/ \E w \in Windows : AnnounceDestruction(w) \/ DestroyWindow(w) \/ ChangeTitle(w)
    PROVE  TitleKept'
<1>1. queue \in Seq(WinEvents) /\ newest \in Nat /\ window \in Nat
  BY DEF IInv, TypeOK, None, Windows
<1>2. ASSUME NEW hooked, NEW kind \in {"create", "destroy", "name"}, NEW w \in Windows,
             Raise(hooked, kind, w)
      PROVE  Names(queue, window) => Names(queue', window)
  <2>1. [kind |-> kind, window |-> w] \in WinEvents
    BY DEF WinEvents
  <2> QED
    BY <1>1, <1>2, <2>1, NamesAfter DEF Raise
<1>3. CASE OpenWindow
  <2>1. newest + 1 \in Windows
    BY <1>3 DEF OpenWindow, IInv, TypeOK, Windows
  <2>2. Names(queue, window) => Names(queue', window)
    BY <1>2, <1>3, <2>1 DEF OpenWindow
  <2>3. window \in alive' => window \in alive
    BY <1>1, <1>3 DEF OpenWindow, WindowsKnown
  <2> QED
    BY <1>3, <2>2, <2>3, TitleKeptAside DEF OpenWindow, locals, reported
<1>4. ASSUME NEW w \in Windows, AnnounceDestruction(w)
      PROVE  TitleKept'
  <2>1. Names(queue, window) => Names(queue', window)
    BY <1>2, <1>4 DEF AnnounceDestruction
  <2> QED
    BY <1>4, <2>1, TitleKeptAside DEF AnnounceDestruction, locals, reported
<1>5. ASSUME NEW w \in Windows, DestroyWindow(w)
      PROVE  TitleKept'
  BY <1>5, TitleKeptAside DEF DestroyWindow, locals, reported
<1>6. ASSUME NEW w \in Windows, ChangeTitle(w)
      PROVE  TitleKept'
  <2>1. /\ UNCHANGED <<alive, tracked, pc, hwnd, text, titleFrag, switched>>
        /\ title' = [title EXCEPT ![w] = @ + 1]
        /\ Raise(hookTitle \in {ProcessOf[w], None}, "name", w)
    BY <1>6 DEF ChangeTitle, locals, reported
  <2>2. Names(queue, window) => Names(queue', window)
    BY <1>2, <2>1
  <2>3. CASE w # window
    <3>1. title'[window] = title[window]
      BY <2>1, <2>3
    <3> QED
      BY <2>1, <2>2, <3>1, TitleKeptAside
  <2>4. CASE w = window
    <3>1. hookTitle \in {ProcessOf[w], None} => Names(queue', window)
      BY <1>1, <2>1, <2>4, NamesAfter DEF Raise
    <3> QED
      BY <2>1, <2>4, <3>1 DEF TitleKept, Announced, tracked
  <2> QED
    BY <2>3, <2>4
<1> QED
  BY <1>3, <1>4, <1>5, <1>6

LEMMA TitleKeptStep ==
    ASSUME IInv, WindowsKnown, TitleKept, [Next]_vars
    PROVE  TitleKept'
<1>1. CASE UNCHANGED vars
  BY <1>1, TitleKeptAside DEF vars, environment, locals, reported
<1> QED
  BY <1>1, TitleKeptStart, TitleKeptDelivers, TitleKeptSetWindow, TitleKeptEnvironment
     DEF Next, Handle

\* When every event is delivered, the title last applied is that of the tracked
\* window: the hook is there before the first title is read, and each later one
\* is announced to whoever holds an older one.
THEOREM TitleIsNotLost == Spec => []TitleNotLost
<1> DEFINE Inv == IInv /\ WindowsKnown /\ TitleKept
<1>1. Init => WindowsKnown /\ TitleKept
  BY DEF Init, WindowsKnown, TitleKept, None
<1>2. Inv /\ [Next]_vars => Inv'
  <2>1. IInv /\ [Next]_vars => IInv'
    BY StartAndStopPreserve, HandlersPreserve, SetWindowPreserves, EnvironmentPreserves,
       StutterPreserves DEF Next, Handle
  <2> QED
    BY <2>1, WindowsKnownStep, TitleKeptStep
<1>3. Inv => TitleNotLost
  <2> SUFFICES ASSUME Inv, pc = "idle", queue = <<>>, window \in alive, ~switched
               PROVE  Applied
    BY DEF TitleNotLost, Applied
  <2>1. ~Announced
    BY DEF Announced, Names
  <2> QED
    BY <2>1 DEF TitleKept
<1> QED
  BY <1>1, <1>2, <1>3, IInvInit, PTL DEF Spec
=============================================================================
