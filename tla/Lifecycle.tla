----------------------------- MODULE Lifecycle -----------------------------
(***************************************************************************)
(* SpotifyClient::Start and Stop, the tracked window and the two WinEvent  *)
(* hooks.  Out-of-context WinEvents are queued by Windows and delivered,   *)
(* in order, to the thread that installed the hook when it pumps messages, *)
(* so Start, Stop and the handlers are steps of one thread; windows appear, *)
(* disappear and change their titles in between.  The media session and    *)
(* the audio session are modules of their own; here they run or not.       *)
(*                                                                         *)
(* The n-th window is the number n; a handle is not reused.  A title is a  *)
(* version number.                                                         *)
(***************************************************************************)
EXTENDS Integers, Sequences

CONSTANTS
    MaxWindow,      \* bound on the windows Spotify ever opens
    ProcessOf,      \* the process of each window
    MaxChanges      \* bound on the changes of the environment

Windows == 1 .. MaxWindow
None == 0           \* nullptr, process id 0, no hook

ASSUME LifecycleAssumption ==
    /\ MaxWindow \in Nat /\ MaxChanges \in Nat
    /\ ProcessOf \in [Windows -> Nat \ {None}]

VARIABLES
    alive,          \* the windows that exist
    dying,          \* those whose destruction was announced
    newest,         \* the last window opened
    title,          \* what GetWindowText returns
    changes,        \* how often the environment has changed
    queue,          \* WinEvents raised and not delivered yet
    hooksInstalled, registered, sources,
    hookWindow,     \* is the hook for windows installed?
    hookTitle,      \* the process whose title changes are hooked
    window, processId,
    pc, after,      \* where the thread is, and where SetWindow returns to
    hwnd, text,     \* locals of the handlers
    opened,         \* OnOpened minus OnClosed since Start
    titleFrag,      \* the window and title last handed to ApplyTitle
    switched        \* did the tracked window change without a close?

environment == <<alive, dying, newest, title, changes>>
installed == <<hooksInstalled, registered, sources, hookWindow>>
tracked == <<hookTitle, window, processId>>
locals == <<after, hwnd, text>>
reported == <<opened, titleFrag, switched>>
vars == <<environment, queue, installed, tracked, pc, locals, reported>>

NoHook == -1
NoTitle == [window |-> None, text |-> 0]

Init ==
    /\ newest \in {0, 1} /\ newest <= MaxWindow
    /\ alive = 1 .. newest /\ dying = {}
    /\ title = [w \in Windows |-> 1] /\ changes = 0
    /\ queue = <<>>
    /\ hooksInstalled = FALSE /\ registered = FALSE /\ sources = FALSE
    /\ hookWindow = FALSE /\ hookTitle = NoHook
    /\ window = None /\ processId = None
    /\ pc = "idle" /\ after = "idle" /\ hwnd = None /\ text = 0
    /\ opened = 0 /\ titleFrag = NoTitle /\ switched = FALSE

\* SetWindow, or the handler for titles, is left.
Return == pc' = after /\ after' = "idle" /\ hwnd' = None /\ text' = 0

-----------------------------------------------------------------------------
(* Start and Stop.                                                         *)

Start ==
    /\ pc = "idle" /\ ~hooksInstalled
    /\ hooksInstalled' = TRUE /\ registered' = TRUE /\ hookWindow' = TRUE
    /\ opened' = 0 /\ switched' = FALSE
    /\ pc' = "seed"
    /\ UNCHANGED <<environment, queue, sources, tracked, locals, titleFrag>>

\* FindWindow: any Spotify window that is open already.
Seed(w) ==
    /\ pc = "seed" /\ w \in alive
    /\ hwnd' = w /\ after' = "sources"
    /\ pc' = "store"
    /\ UNCHANGED <<environment, queue, installed, tracked, text, reported>>

SeedNothing ==
    /\ pc = "seed" /\ alive = {}
    /\ pc' = "sources"
    /\ UNCHANGED <<environment, queue, installed, tracked, locals, reported>>

StartSources ==
    /\ pc = "sources"
    /\ sources' = TRUE
    /\ pc' = "idle"
    /\ UNCHANGED <<environment, queue, hooksInstalled, registered, hookWindow, tracked,
                   locals, reported>>

StopWith(hook) ==
    /\ pc = "idle" /\ hooksInstalled
    /\ hooksInstalled' = FALSE /\ registered' = FALSE /\ sources' = FALSE
    /\ hookWindow' = FALSE /\ hookTitle' = hook
    /\ window' = None /\ processId' = None
    /\ UNCHANGED <<environment, queue, pc, locals, reported>>

\* Mutant: the hook for titles is forgotten.
StopKeepsTitleHook == StopWith(hookTitle)

\* Fragments and the published state stay, and OnClosed is not emitted.
Stop == StopWith(NoHook)

-----------------------------------------------------------------------------
(* The WinEvent handlers.                                                  *)

Event == Head(queue)
Deliver == pc = "idle" /\ queue # <<>> /\ queue' = Tail(queue)

IsOurs(w) == w = window

\* IsWindow fails for a window that is gone, whatever the event.
OnWindowEventIgnored ==
    /\ Deliver
    /\ Event.kind \in {"create", "destroy"}
    /\ \/ Event.window \notin alive
       \/ ~registered
       \/ Event.kind = "destroy" /\ ~IsOurs(Event.window)
    /\ UNCHANGED <<environment, installed, tracked, pc, locals, reported>>

OnCreate ==
    /\ Deliver
    /\ Event.kind = "create" /\ Event.window \in alive /\ registered
    /\ hwnd' = Event.window /\ after' = "idle"
    /\ pc' = "store"
    /\ UNCHANGED <<environment, installed, tracked, text, reported>>

OnDestroy ==
    /\ Deliver
    /\ Event.kind = "destroy" /\ Event.window \in alive /\ registered
    /\ IsOurs(Event.window)
    /\ hwnd' = None /\ after' = "idle"
    /\ pc' = "store"
    /\ UNCHANGED <<environment, installed, tracked, text, reported>>

\* Mutant: the title of any window of the process is taken for Spotify's.
OnAnyNameEvent ==
    /\ Deliver
    /\ Event.kind = "name"
    /\ IF registered /\ Event.window \in alive
       THEN hwnd' = Event.window /\ after' = "idle" /\ pc' = "title"
       ELSE UNCHANGED <<hwnd, after, pc>>
    /\ UNCHANGED <<environment, installed, tracked, text, reported>>

OnNameEvent ==
    /\ Deliver
    /\ Event.kind = "name"
    /\ IF registered /\ Event.window \in alive /\ IsOurs(Event.window)
       THEN hwnd' = Event.window /\ after' = "idle" /\ pc' = "title"
       ELSE UNCHANGED <<hwnd, after, pc>>
    /\ UNCHANGED <<environment, installed, tracked, text, reported>>

-----------------------------------------------------------------------------
(* SetWindow(hwnd).                                                        *)

\* Mutant: a second window is treated like the first one.
BranchIgnoresOpen(wasOpen, nowOpen) == IF nowOpen THEN "hook" ELSE "unhook"

\* Where SetWindow goes once it knows whether the client was and is open.
Branch(wasOpen, nowOpen) ==
    IF wasOpen = nowOpen THEN "return" ELSE IF nowOpen THEN "hook" ELSE "unhook"

\* A handle that went stale in the meantime has process id 0.
StoreWindow ==
    /\ pc = "store"
    /\ window' = hwnd
    /\ processId' = IF hwnd \in alive THEN ProcessOf[hwnd] ELSE None
    /\ switched' = (hwnd # None /\ (switched \/ window \notin {None, hwnd}))
    /\ pc' = Branch(window # None, hwnd # None)
    /\ UNCHANGED <<environment, queue, installed, hookTitle, locals, opened, titleFrag>>

StillOpen ==
    /\ pc = "return"
    /\ Return
    /\ UNCHANGED <<environment, queue, installed, tracked, reported>>

\* Process id 0 asks for the events of every process.  OnOpened follows.
HookTitle ==
    /\ pc = "hook"
    /\ hookTitle' = processId
    /\ opened' = opened + 1
    /\ pc' = "title"
    /\ UNCHANGED <<environment, queue, installed, window, processId, locals, titleFrag,
                   switched>>

\* Mutant: the title of a window is asked for once.
ReadTitleOnce ==
    /\ pc = "title"
    /\ text' = IF titleFrag.window = hwnd THEN titleFrag.text
               ELSE IF hwnd \in alive THEN title[hwnd] ELSE 0
    /\ pc' = "apply"
    /\ UNCHANGED <<environment, queue, installed, tracked, after, hwnd, reported>>

\* GetWindowText; a window that is gone has the empty title.
ReadTitle ==
    /\ pc = "title"
    /\ text' = IF hwnd \in alive THEN title[hwnd] ELSE 0
    /\ pc' = "apply"
    /\ UNCHANGED <<environment, queue, installed, tracked, after, hwnd, reported>>

ApplyTitle ==
    /\ pc = "apply"
    /\ titleFrag' = [window |-> hwnd, text |-> text]
    /\ Return
    /\ UNCHANGED <<environment, queue, installed, tracked, opened, switched>>

\* ResetFragments comes before OnClosed.
Unhook ==
    /\ pc = "unhook"
    /\ hookTitle' = NoHook
    /\ titleFrag' = NoTitle
    /\ opened' = opened - 1
    /\ Return
    /\ UNCHANGED <<environment, queue, installed, window, processId, switched>>

-----------------------------------------------------------------------------
(* Spotify and Windows.                                                    *)

Change == changes < MaxChanges /\ changes' = changes + 1

Raise(hooked, kind, w) ==
    queue' = IF hooked THEN Append(queue, [kind |-> kind, window |-> w]) ELSE queue

OpenWindow ==
    /\ Change
    /\ newest < MaxWindow
    /\ newest' = newest + 1 /\ alive' = alive \cup {newest + 1}
    /\ Raise(hookWindow, "create", newest + 1)
    /\ UNCHANGED <<dying, title, installed, tracked, pc, locals, reported>>

\* The destruction is announced while the window still exists ...
AnnounceDestruction(w) ==
    /\ Change
    /\ w \in alive \ dying
    /\ dying' = dying \cup {w}
    /\ Raise(hookWindow, "destroy", w)
    /\ UNCHANGED <<newest, alive, title, installed, tracked, pc, locals, reported>>

\* ... and nothing makes it wait for the announcement to be delivered.
DestroyWindow(w) ==
    /\ w \in alive \cap dying
    /\ alive' = alive \ {w}
    /\ UNCHANGED <<dying, newest, title, changes, queue, installed, tracked, pc, locals,
                   reported>>

ChangeTitle(w) ==
    /\ Change
    /\ w \in alive
    /\ title' = [title EXCEPT ![w] = @ + 1]
    /\ Raise(hookTitle \in {ProcessOf[w], None}, "name", w)
    /\ UNCHANGED <<alive, dying, newest, installed, tracked, pc, locals, reported>>

-----------------------------------------------------------------------------
Handle ==
    \/ (\E w \in Windows : Seed(w)) \/ SeedNothing \/ StartSources
    \/ OnWindowEventIgnored \/ OnCreate \/ OnDestroy \/ OnNameEvent
    \/ StoreWindow \/ StillOpen \/ HookTitle \/ ReadTitle \/ ApplyTitle \/ Unhook

Next ==
    \/ Handle \/ Start \/ Stop
    \/ OpenWindow
    \/ \E w \in Windows : AnnounceDestruction(w) \/ DestroyWindow(w) \/ ChangeTitle(w)

Spec == Init /\ [][Next]_vars

\* The thread pumps messages, and what Spotify closes is destroyed.
Fairness == WF_vars(Handle) /\ \A w \in Windows : WF_vars(DestroyWindow(w))

FairSpec == Spec /\ Fairness

-----------------------------------------------------------------------------
(* Properties.                                                             *)

Places == {"idle", "seed", "sources", "store", "return", "hook", "title", "apply", "unhook"}

WinEvents == [kind : {"create", "destroy", "name"}, window : Windows]

\* Every variable has its type.
TypeOK ==
    /\ newest \in 0 .. MaxWindow /\ alive \subseteq 1 .. newest /\ dying \subseteq 1 .. newest
    /\ title \in [Windows -> 1 .. MaxChanges + 1] /\ changes \in 0 .. MaxChanges
    /\ queue \in Seq(WinEvents)
    /\ hooksInstalled \in BOOLEAN /\ registered \in BOOLEAN /\ sources \in BOOLEAN
    /\ hookWindow \in BOOLEAN
    /\ hookTitle \in {NoHook, None} \cup {ProcessOf[w] : w \in Windows}
    /\ window \in Windows \cup {None}
    /\ processId \in {None} \cup {ProcessOf[w] : w \in Windows}
    /\ pc \in Places /\ after \in {"idle", "sources"}
    /\ hwnd \in Windows \cup {None} 
    /\ text \in 0 .. MaxChanges + 1
    /\ opened \in {0, 1}
    /\ titleFrag \in [window : Windows \cup {None}, text : 0 .. MaxChanges + 1]
    /\ switched \in BOOLEAN

\* Between calls the hook for titles is installed exactly as long as a window
\* is tracked, and OnOpened and OnClosed alternate with it: however Start, Stop,
\* the seed and late events of windows that are long gone follow each other, no
\* hook leaks and no notification is missing or repeated.
TrackedConsistently ==
    pc \in {"idle", "sources"} =>
        /\ hookTitle # NoHook <=> window # None
        /\ hooksInstalled => (opened = 1 <=> window # None)
        /\ ~hooksInstalled => window = None /\ processId = None /\ ~hookWindow

\* Once the thread has delivered every event, the title last applied is the one
\* the tracked window has: no change falls between the hook and the first read,
\* or between a read and its ApplyTitle, and no late event of another window
\* replaces it.
TitleNotLost ==
    pc = "idle" /\ queue = <<>> /\ hooksInstalled /\ window \in alive /\ ~switched
        => titleFrag = [window |-> window, text |-> title[window]]

\* README.md, OnRawTitle: "the window title changes".  A title that stays is
\* the one that was handed to ApplyTitle, since the hook is installed before
\* the title is read; provided the tracked window is the one OnOpened told of.
Steady(w, v) ==
    hooksInstalled /\ window = w /\ ~switched /\ w \in alive /\ title[w] = v

TitleFollows ==
    \A w \in Windows, v \in 1 .. MaxChanges + 1 :
        <>[]Steady(w, v) => <>[](titleFrag = [window |-> w, text |-> v])

\* README.md, OnClosed: "the Spotify window goes away".  When Spotify has no
\* window any more, the client finds out.
IsRunning == window # None

ClosedIsNoticed == <>[](alive = {}) => <>[]~IsRunning

-----------------------------------------------------------------------------
(* The inductive invariant.                                                *)

\* Where SetWindow has got to, told by the window, the hook and OnOpened.
Hooked == hookTitle # NoHook
Told == opened = 1
Settled == (Hooked <=> window # None) /\ (Told <=> window # None)

Progress ==
    /\ pc \in {"sources", "seed", "store"} => Settled
    /\ pc = "idle" /\ hooksInstalled => Settled
    /\ pc = "seed" => window = None
    /\ pc = "store" /\ hwnd = None => window # None
    /\ pc \in {"return", "title", "apply"} => window # None /\ Hooked /\ Told
    /\ pc = "hook" => window # None /\ ~Hooked /\ ~Told
    /\ pc = "unhook" => window = None /\ Hooked /\ Told

\* The parts of Start are installed and removed together.
Installed ==
    /\ registered <=> hooksInstalled
    /\ hookWindow <=> hooksInstalled
    /\ pc # "idle" => hooksInstalled
    /\ ~hooksInstalled => window = None /\ processId = None /\ ~Hooked

TitlesBounded == \A w \in Windows : title[w] <= changes + 1

IInv == TypeOK /\ Installed /\ Progress /\ TitlesBounded

\* The client knows no window before it is opened.
WindowsKnown == window <= newest /\ hwnd <= newest

\* The titles of the tracked window are hooked before the first one is read;
\* from then on each is applied, about to be, or announced in the queue.
Names(q, w) == \E i \in DOMAIN q : q[i] = [kind |-> "name", window |-> w]
Announced == Names(queue, window)
Applied == titleFrag = [window |-> window, text |-> title[window]]

TitleKept ==
    window \in alive /\ ~switched =>
        /\ pc \notin {"seed", "hook"} => hookTitle \in {ProcessOf[window], None}
        /\ pc = "hook" => processId \in {ProcessOf[window], None}
        /\ pc \in {"hook", "title", "apply"} => hwnd = window
        /\ pc \in {"idle", "sources", "store", "return"} => Applied \/ Announced
        /\ pc = "apply" => text = title[window] \/ Announced
=============================================================================
