--------------------------------- MODULE Cli ---------------------------------
(***************************************************************************)
(* The command-line tool, with what it uses of the library: one invocation *)
(* of spotifyctl, from its arguments to its exit code, against a Spotify   *)
(* that opens, closes, renames its window and changes its media session    *)
(* meanwhile.  Three threads run: main, the worker of AudioSession (the    *)
(* actions of that module) and a handler of media events; the two of the   *)
(* library publish states and, in watch and events, write to stdout.       *)
(*                                                                         *)
(* A token of the command line is a string that is only compared whole;    *)
(* what a number, a time or a word in it stands for is a constant.  Fusing *)
(* and publishing are one step here (Aggregator has the detail).  The main *)
(* thread pumps no messages, so nothing happens to the window the library  *)
(* tracks between Start and Stop.                                          *)
(***************************************************************************)
EXTENDS Text

CONSTANTS
    Invocations,    \* the argument vectors
    Millis,         \* what std::stoi accepts, as polls of WaitForSpotify
    DefaultWait,
    Levels,         \* what std::stod accepts as a volume, in percent
    Times,          \* the parts of a token that is a time, see ParseAbsDurationMs
    Spelling,       \* the bytes of a token
    Titles,         \* titles Spotify's window may have
    TitleSize,      \* what the buffer of a title holds, 254 characters
    Reports,        \* what its media session may report
    MeterReads,     \* what the worker may read of its meter: loud, low, none
    Pids, NoPid, Throttle, BelowToIdle, TickEvery,      \* see AudioSession
    MaxChanges      \* bound on the changes of the environment

ASSUME CliAssumption ==
    /\ Empty = <<>> /\ \A t \in Titles : t \in Seq(Bytes)
    /\ NoPlayback \notin Reports /\ \A r \in Reports : r.position \in Nat
    /\ \A r \in Reports : r.artist \in Seq(Bytes) /\ r.title \in Seq(Bytes)
    /\ DefaultWait \in Nat /\ \A x \in DOMAIN Millis : Millis[x] \in Nat
    /\ \A x \in DOMAIN Levels : Levels[x] \in Int
    /\ \A x \in DOMAIN Times : Times[x].min \in Int /\ Times[x].num \in Int
    /\ \A i \in Invocations : i \in Seq(STRING) /\ Range(i) \subseteq DOMAIN Spelling
    /\ \A x \in DOMAIN Spelling : Spelling[x] \in Seq(Bytes)
    /\ NoPid \notin Pids /\ Throttle \in Nat /\ MaxChanges \in Nat /\ TitleSize \in Nat
    /\ BelowToIdle \in Nat \ {0} /\ TickEvery \in Nat \ {0}

Percents == {Levels[x] : x \in DOMAIN Levels}
Clamp(v) == IF v < 0 THEN 0 ELSE IF v > 100 THEN 100 ELSE v
Volumes == {Clamp(v) : v \in Percents} \cup {100}

VARIABLES
    argv, place, cmd, rest, left, rc, flag,     \* main: where it is, and its locals
    interrupted,                    \* g_stop
    session, report,                \* SmtcSource: off, none or bound; its fragment
    rawTitle, titleFrag,            \* the title the window had at Start
    connected,      \* the signals main is connected to
    emit,           \* for each thread, the notifications it is in the middle of
    stale,          \* signals published and not yet written as they are now
    line,           \* the threads that have written to the current line of stdout
    printed,        \* what now-playing wrote
    spotify, shown, media,          \* Spotify's process, its title, its session
    received, lost, \* what reached Spotify; a request it accepted and dropped
    processId, streams, setting, changes, running, owner, pc, pid, bound, expired,
    sinceAttempt, lastPeak, audibleState, belowCount, positionTick, poll, applied, heard, quiet

Audio == INSTANCE AudioSession

main == <<argv, place, cmd, rest, left, rc, flag, interrupted>>
library == <<session, report, rawTitle, titleFrag, connected>>
stdout == <<emit, stale, line, printed>>
world == <<spotify, shown, media, received, lost>>
worker == <<running, owner, pc, pid, bound, expired, sinceAttempt, lastPeak, audibleState,
            belowCount, quiet, positionTick, poll, applied, heard>>
audio == <<processId, streams, setting, changes, worker>>
vars == <<main, library, stdout, world, audio>>

Threads == {"main", "worker", "handler"}
Silent == [todo |-> <<>>, at |-> "idle", need |-> 0, json |-> NoPlayback, calls |-> 0]
Idle(t) == emit[t] = Silent
Garbled == [artist |-> <<>>, title |-> <<>>]


kExitOk == 0
kExitUsage == 2
kExitNoSpotify == 3
kExitFailure == 4

-----------------------------------------------------------------------------
(* The arguments.                                                          *)

Flags == {i \in DOMAIN argv : argv[i] = "--wait-ms"}
BadFlags == {i \in Flags : i = Len(argv) \/ argv[i + 1] \notin DOMAIN Millis}
Helps == {i \in DOMAIN argv : argv[i] \in {"-h", "--help", "help"}}

\* Neither a flag nor its value.
Positional ==
    LET upTo[i \in 0 .. Len(argv)] ==
            IF i = 0 THEN <<>>
            ELSE IF i \in Flags \/ i - 1 \in Flags THEN upTo[i - 1]
            ELSE Append(upTo[i - 1], argv[i])
    IN  upTo[Len(argv)]

WaitPolls == IF Flags = {} THEN DefaultWait ELSE Millis[argv[Max(Flags) + 1]]

Transports == {"play", "pause", "next", "prev"}
Streams == {"watch", "events"}
Commands == Transports \cup Streams \cup
            {"now-playing", "toggle", "seek", "volume", "mute", "url", "search"}

\* A time is an optional sign and [colon, min, num, unit], num in thousandths;
\* a minus that is still there after the sign makes min or num negative.
\* What cannot be read at all is not in Times.
Invalid == -1
ParseAbsDurationMs(t) ==
    CASE t.min < 0 \/ t.num < 0 -> Invalid
      [] t.min >= 0 /\ t.num >= 0 /\ t.colon -> t.min * 60000 + t.num
      [] t.min >= 0 /\ t.num >= 0 /\ ~t.colon ->
            IF t.unit = "ms" THEN t.num \div 1000 ELSE t.num

\* What a command refuses before it makes a client.
WrongArguments(c, args) ==
    \/ c \notin Commands
    \/ c = "now-playing" /\ \/ ~(Range(args) \subseteq {"--json", "--tsv"})
                            \/ {"--json", "--tsv"} \subseteq Range(args)
    \/ c = "watch" /\ ~(Range(args) \subseteq {"--json"})
    \/ c = "events" /\ ~(Range(args) \subseteq {"--position"})
    \/ c = "seek" /\ \/ Len(args) # 1
                     \/ args[1] \notin DOMAIN Times
                     \/ ParseAbsDurationMs(Times[args[1]]) = Invalid
    \/ c \in {"mute", "url"} /\ Len(args) # 1
    \/ c \in {"volume", "search"} /\ args = <<>>

\* The exit code of an invocation that needs no client.
NeedsClient == -1
ExitAtOnce ==
    IF BadFlags \cup Helps # {}
    THEN IF Min(BadFlags \cup Helps) \in Helps THEN kExitOk ELSE kExitUsage
    ELSE IF Positional = <<>> THEN kExitUsage
    ELSE IF Head(Positional) = "version" THEN kExitOk
    ELSE IF WrongArguments(Head(Positional), Tail(Positional)) THEN kExitUsage
    ELSE NeedsClient

\* The signals a command connects to, in this order.
Wanted ==
    CASE cmd = "watch" -> <<"state">>
      [] cmd = "events" ->
            <<"track", "adStarted", "adEnded">>
            \o (IF "--position" \in Range(rest) THEN <<"position">> ELSE <<>>)
      [] OTHER -> <<>>

-----------------------------------------------------------------------------
(* What the library publishes, and the callbacks that write it.            *)

AudioFragment ==
    [vol |-> applied.setting.vol, muted |-> applied.setting.muted,
     audible |-> applied.audible, resolved |-> applied.resolved]

Latest == FuseFragments(report, AudioFragment, titleFrag)

Fires(s, prev, out) ==
    CASE s = "track"     -> IsTrackChange(prev, out)
      [] s = "adStarted" -> ~prev.isAd /\ out.isAd
      [] s = "adEnded"   -> prev.isAd /\ ~out.isAd
      [] s = "state"     -> prev # out

Push(s, was, is) == IF s \in Range(Wanted) /\ Fires(s, was, is) THEN <<s>> ELSE <<>>
Fired(was, is) ==
    IF was = is THEN <<>>
    ELSE Push("track", was, is) \o Push("adStarted", was, is)
         \o Push("adEnded", was, is) \o Push("state", was, is)

Notification(todo, out) ==
    IF todo = <<>> THEN Silent ELSE [Silent EXCEPT !.todo = todo, !.at = "owed", !.json = out]
Outdated(was, is) == {s \in Range(connected) \cap {"track", "state"} : Fires(s, was, is)}

\* Thread t publishes what the step has made of the fragments.  also: what the
\* thread notifies besides.
Publishes(t, also) == \E was \in {Latest}, is \in {Latest'} :
    /\ emit' = [emit EXCEPT ![t] = Notification(Fired(was, is) \o also, is)]
    /\ stale' = stale \cup Outdated(was, is)

NextSignal(e) ==
    IF Len(e.todo) = 1 THEN Silent
    ELSE [e EXCEPT !.todo = Tail(@), !.at = "owed", !.calls = 0]

EmitFrame == UNCHANGED <<main, library, world, audio>>

\* An object and its line feed are two calls on stdout; that of a change of track
\* is written by five, of which the last has its closing brace and line feed.
Calls(s) == IF s = "track" THEN 5 ELSE 2

Called(e) ==
    IF Head(e.todo) = "state" THEN [e EXCEPT !.at = "size", !.json = NoPlayback]
    ELSE [e EXCEPT !.at = "write", !.calls = Calls(Head(e.todo))]

\* Mutant: a thread leaves the line to one that is writing already.
SnapshotUnlessBusy(t) ==
    /\ emit[t].at = "owed"
    /\ emit' = [emit EXCEPT ![t] =
                    IF Head(@.todo) \notin Range(connected) \/ \E u \in Threads \ {t} : ~Idle(u)
                    THEN NextSignal(@) ELSE Called(@)]
    /\ UNCHANGED <<stale, line, printed>> /\ EmitFrame

\* Signal::operator() calls the slot, if there is one.
Snapshot(t) ==
    /\ emit[t].at = "owed"
    /\ emit' = [emit EXCEPT ![t] =
                    IF Head(@.todo) \notin Range(connected) THEN NextSignal(@) ELSE Called(@)]
    /\ UNCHANGED <<stale, line, printed>> /\ EmitFrame

\* WatchEmit ignores the state it is given and asks for the latest one, twice.
EmitSize(t) ==
    /\ emit[t].at = "size"
    /\ \E s \in {Latest} : emit' = [emit EXCEPT ![t].need = JsonSize(s), ![t].at = "copy"]
    /\ UNCHANGED <<stale, line, printed>> /\ EmitFrame

EmitCopy(t) ==
    /\ emit[t].at = "copy"
    /\ emit' = [emit EXCEPT ![t].json = Latest, ![t].calls = Calls("state"),
                             ![t].at = "write"]
    /\ UNCHANGED <<stale, line, printed>> /\ EmitFrame

\* The buffer has the size of the first answer: a longer object is cut, a
\* shorter one is followed by zeros.
Whole(e) == Head(e.todo) = "state" => JsonSize(e.json) = e.need

\* fwrite, printf or fputc; the C library locks stdout for each call, so what
\* other threads write comes between them.
Writes(t) == emit[t].at = "write" /\ emit[t].calls > 1

EmitWrite(t) ==
    /\ Writes(t)
    /\ emit' = [emit EXCEPT ![t].calls = @ - 1]
    /\ line' = line \cup {t}
    /\ stale' = stale
    /\ IF cmd = "now-playing"
       THEN printed' = IF Whole(emit[t]) THEN WriteStateJson(emit[t].json) ELSE Garbled
       ELSE printed' = printed
    /\ EmitFrame

\* What was written is still so.
Current(e) ==
    IF Head(e.todo) = "track" THEN ~IsTrackChange(e.json, Latest) ELSE e.json = Latest

\* The last call ends the line.
EmitNewline(t) ==
    /\ emit[t].at = "write" /\ emit[t].calls = 1
    /\ emit' = [emit EXCEPT ![t] = NextSignal(@)]
    /\ line' = {}
    /\ stale' = IF Whole(emit[t]) /\ Current(emit[t]) THEN stale \ {Head(emit[t].todo)}
                ELSE stale
    /\ printed' = printed
    /\ EmitFrame

\* The process ends with main.
EmitStep(t) ==
    /\ place # "done"
    /\ Snapshot(t) \/ EmitSize(t) \/ EmitCopy(t) \/ EmitWrite(t) \/ EmitNewline(t)

-----------------------------------------------------------------------------
(* The main thread: from the arguments to a client that runs.              *)

Goto(p) == place' = p
Stays == UNCHANGED <<argv, cmd, rest, left, rc, flag, interrupted>>
MainFrame == UNCHANGED <<library, stdout, world, audio>>

Exit(code) ==
    /\ rc' = code /\ Goto("done")
    /\ UNCHANGED <<argv, cmd, rest, left, flag, interrupted>>

Refuse ==
    /\ place = "parse" /\ ExitAtOnce # NeedsClient
    /\ Exit(ExitAtOnce)
    /\ MainFrame

NewFails ==
    /\ place = "parse" /\ ExitAtOnce = NeedsClient
    /\ Exit(kExitFailure)
    /\ MainFrame

New ==
    /\ place = "parse" /\ ExitAtOnce = NeedsClient
    /\ cmd' = Head(Positional) /\ rest' = Tail(Positional) /\ left' = WaitPolls
    /\ Goto(IF cmd' \in {"url", "search"} THEN "act" ELSE "seed")
    /\ UNCHANGED <<argv, rc, flag, interrupted>> /\ MainFrame

\* GetWindowText cuts a title to the size of the buffer.
Cut(title) == SubSeq(title, 1, Min({Len(title), TitleSize}))
SeenTitles == {Cut(t) : t \in Titles}

\* The fragment ApplyTitle makes of a title.
TitleTold == [t \in SeenTitles |->
    LET parse == ParseWindowTitle(t)
    IN  [isAd |-> parse.isAd, artist |-> parse.artist,
         title |-> parse.title, status |-> parse.status, any |-> TRUE]]

\* Start looks for the window and reads its title.
Seed ==
    /\ place = "seed"
    /\ processId' = spotify
    /\ rawTitle' = IF spotify = NoPid THEN rawTitle ELSE Cut(shown)
    /\ titleFrag' = IF spotify = NoPid THEN NoTitle ELSE TitleTold[Cut(shown)]
    /\ Goto("sources") /\ Stays
    /\ UNCHANGED <<session, report, connected, stdout, world, streams, setting, changes, worker>>

\* It starts the sources; SMTC may not be there at all.
StartSources ==
    /\ place = "sources"
    /\ \/ session' = (IF media = NoPlayback THEN "none" ELSE "bound") /\ report' = media
       \/ UNCHANGED <<session, report>>
    /\ Audio!Start
    /\ Goto(CASE cmd = "watch" -> "baseline"
              [] cmd = "events" -> "connect"
              [] OTHER -> "wait")
    /\ Stays
    /\ UNCHANGED <<rawTitle, titleFrag, connected, stdout, world>>

\* WaitForSpotify.
Detected ==
    /\ place = "wait" /\ processId # NoPid
    /\ Goto("act") /\ Stays /\ MainFrame

\* Mutant: the deadline moves along.
SleepsOn ==
    /\ place = "wait" /\ processId = NoPid /\ left > 0
    /\ UNCHANGED main /\ MainFrame

Sleeps ==
    /\ place = "wait" /\ processId = NoPid /\ left > 0
    /\ left' = left - 1
    /\ UNCHANGED <<argv, place, cmd, rest, rc, flag, interrupted>> /\ MainFrame

GivesUp ==
    /\ place = "wait" /\ processId = NoPid /\ left = 0
    /\ IF cmd = "now-playing" THEN Goto("act") /\ rc' = rc
       ELSE Goto("stop") /\ rc' = kExitNoSpotify
    /\ UNCHANGED <<argv, cmd, rest, left, flag, interrupted>> /\ MainFrame

-----------------------------------------------------------------------------
(* now-playing, watch and events.                                          *)

\* The two calls and fwrite, as in a callback.
EmitFromMain ==
    /\ emit' = [emit EXCEPT !["main"] = [Silent EXCEPT !.todo = <<"state">>, !.at = "size"]]
    /\ Goto("showing") /\ Stays
    /\ UNCHANGED <<library, stale, line, printed, world, audio>>

PrintJson == place = "act" /\ cmd = "now-playing" /\ "--json" \in Range(rest) /\ EmitFromMain
Baseline == place = "baseline" /\ EmitFromMain

PrintText ==
    /\ place = "act" /\ cmd = "now-playing" /\ "--json" \notin Range(rest)
    /\ printed' = IF "--tsv" \in Range(rest) THEN PrintStateTsv(Latest)
                  ELSE PrintStateHuman(Latest)
    /\ Goto("stop") /\ Stays
    /\ UNCHANGED <<library, emit, stale, line, world, audio>>

Shown ==
    /\ place = "showing" /\ Idle("main")
    /\ Goto(IF cmd = "watch" THEN "connect" ELSE "stop")
    /\ Stays /\ MainFrame

Connect ==
    /\ place = "connect"
    /\ connected' = Append(connected, Wanted[Len(connected) + 1])
    /\ Goto(IF Len(connected') = Len(Wanted) THEN "watch" ELSE "connect") /\ Stays
    /\ UNCHANGED <<session, report, rawTitle, titleFrag, stdout, world, audio>>

\* Mutant: first connected, first disconnected.
DisconnectFirst ==
    /\ (place = "watch" /\ interrupted) \/ place = "disconnect"
    /\ connected' = Tail(connected)
    /\ Goto(IF connected' = <<>> THEN "stop" ELSE "disconnect") /\ Stays
    /\ UNCHANGED <<session, report, rawTitle, titleFrag, stdout, world, audio>>

\* Last connected, first disconnected.
Disconnect ==
    /\ (place = "watch" /\ interrupted) \/ place = "disconnect"
    /\ connected' = Front(connected)
    /\ Goto(IF connected' = <<>> THEN "stop" ELSE "disconnect") /\ Stays
    /\ UNCHANGED <<session, report, rawTitle, titleFrag, stdout, world, audio>>

-----------------------------------------------------------------------------
(* The commands that control Spotify.                                      *)

\* The call returns and the command has its exit code.
Returns(code) ==
    /\ rc' = code /\ Goto("stop")
    /\ UNCHANGED <<argv, cmd, rest, left, flag, interrupted, library, stdout>>
    /\ UNCHANGED <<spotify, shown, media>>

Delivered(request) == received' = Append(received, request) /\ lost' = lost
NotDelivered == UNCHANGED <<received, lost>>

Transport == place = "act" /\ cmd \in Transports

\* The session takes the request, or one that is gone drops it, or the call throws.
Asks(request, otherwise) ==
    \/ /\ media # NoPlayback
       /\ Delivered(request) /\ Returns(kExitOk)
    \/ /\ lost' = TRUE /\ received' = received
       /\ Returns(kExitOk)
    \/ /\ NotDelivered
       /\ otherwise

FallsBack ==
    /\ Goto("key")
    /\ UNCHANGED <<argv, cmd, rest, left, rc, flag, interrupted, library, stdout>>
    /\ UNCHANGED <<spotify, shown, media>>

\* Mutant: the key is pressed in any case.
AskSessionAndPressKey ==
    /\ Transport /\ session = "bound"
    /\ Delivered(<<cmd>>)
    /\ FallsBack
    /\ UNCHANGED audio

AskSession ==
    /\ Transport /\ session = "bound"
    /\ Asks(<<cmd>>, FallsBack)
    /\ UNCHANGED audio

AskNobody ==
    /\ Transport /\ session # "bound"
    /\ FallsBack /\ NotDelivered
    /\ UNCHANGED audio

\* The key a command stands for.
Key == IF cmd = "volume" THEN <<"volume", rest[1]>> ELSE <<cmd>>

\* SendCommand posts to the tracked window, if that is still there.
PostKey ==
    /\ \/ place = "key"
       \/ place = "act" /\ (cmd = "toggle" \/ (cmd = "volume" /\ rest[1] \in {"up", "down"}))
    /\ \/ /\ processId # NoPid /\ processId = spotify
          /\ Delivered(Key) /\ Returns(kExitOk)
       \/ /\ NotDelivered /\ Returns(kExitFailure)
    /\ UNCHANGED audio

\* A relative time counts from the position last reported.
Target ==
    LET t == Times[rest[1]]
        ms == ParseAbsDurationMs(t)
        to == Latest.position + (IF t.sign = "-" THEN -ms ELSE ms)
    IN  IF t.sign = "" THEN ms ELSE IF to < 0 THEN 0 ELSE to

Seek ==
    /\ place = "act" /\ cmd = "seek"
    /\ \/ session = "bound" /\ Asks(<<cmd, Target>>, Returns(kExitFailure))
       \/ session # "bound" /\ NotDelivered /\ Returns(kExitFailure)
    /\ UNCHANGED audio

\* SetVolume and SetMuted: without a session, or if Windows refuses, nothing; a
\* session that Windows has dropped may accept and forget.
Adjusts(request, s) ==
    \/ /\ Audio!HasSession /\ ~expired
       /\ setting' = [setting EXCEPT ![bound] = s]
       /\ Delivered(request) /\ Returns(kExitOk)
    \/ /\ Audio!HasSession /\ expired
       /\ setting' = setting
       /\ lost' = TRUE /\ received' = received /\ Returns(kExitOk)
    \/ /\ setting' = setting
       /\ NotDelivered /\ Returns(kExitFailure)

Volume ==
    /\ place = "act" /\ cmd = "volume" /\ rest[1] \notin {"up", "down"}
    /\ \/ /\ rest[1] = "set" /\ Len(rest) = 2 /\ rest[2] \in DOMAIN Levels
          /\ LET v == Clamp(Levels[rest[2]])
             IN  Adjusts(<<cmd, v>>, [vol |-> v, muted |-> bound # NoPid /\ setting[bound].muted])
       \/ /\ rest[1] = "get"
          /\ NotDelivered /\ Returns(kExitOk) /\ setting' = setting
       \/ /\ rest[1] # "get"
          /\ ~(rest[1] = "set" /\ Len(rest) = 2 /\ rest[2] \in DOMAIN Levels)
          /\ NotDelivered /\ Returns(kExitUsage) /\ setting' = setting
    /\ UNCHANGED <<processId, streams, changes, worker>>

\* toggle reads the flag first; without a session, or if GetMute fails, it is false.
ReadMuted ==
    /\ place = "act" /\ cmd = "mute" /\ rest[1] = "toggle"
    /\ flag' \in IF Audio!HasSession
                THEN {FALSE} \cup (IF expired THEN BOOLEAN ELSE {setting[bound].muted})
                ELSE {FALSE}
    /\ Goto("mute")
    /\ UNCHANGED <<argv, cmd, rest, left, rc, interrupted>> /\ MainFrame

SetMuted(muted) ==
    /\ Adjusts(<<cmd, muted>>,
               [vol |-> IF bound = NoPid THEN 0 ELSE setting[bound].vol, muted |-> muted])
    /\ UNCHANGED <<processId, streams, changes, worker>>

Mute ==
    \/ place = "act" /\ cmd = "mute" /\ rest[1] \in {"on", "off"} /\ SetMuted(rest[1] = "on")
    \/ place = "mute" /\ SetMuted(~flag)
    \/ /\ place = "act" /\ cmd = "mute" /\ rest[1] \notin {"on", "off", "toggle"}
       /\ NotDelivered /\ Returns(kExitUsage)
       /\ UNCHANGED audio

\* The words of a query, with a blank between them.
Query == FlattenSeq([i \in DOMAIN rest |->
                        (IF i = 1 THEN <<>> ELSE <<Blank>>) \o Spelling[rest[i]]])

\* OpenUri; nothing was started and Stop returns at once.
Open ==
    /\ place = "act" /\ cmd \in {"url", "search"}
    /\ LET uri == IF cmd = "url" THEN Spelling[rest[1]] ELSE Search(Query)
       IN  \/ Delivered(<<cmd, uri>>) /\ Exit(kExitOk)
           \/ NotDelivered /\ Exit(kExitFailure)
    /\ UNCHANGED <<library, stdout, spotify, shown, media, audio>>

-----------------------------------------------------------------------------
(* Stop, by itself or as part of spotifyctl_free: the audio worker first.  *)

BeginStop ==
    /\ place = "stop"
    /\ Audio!BeginStop
    /\ Goto("join") /\ Stays
    /\ UNCHANGED <<library, stdout, world>>

Notify ==
    /\ Audio!Notify
    /\ UNCHANGED <<main, library, stdout, world>>

Join ==
    /\ Audio!Join
    /\ Goto("teardown") /\ Stays
    /\ UNCHANGED <<library, stdout, world>>

\* SmtcSource::Stop waits for nobody; hooks and window go, the client is deleted.
Teardown ==
    /\ place = "teardown"
    /\ session' = "off" /\ processId' = NoPid
    /\ Goto("done") /\ Stays
    /\ UNCHANGED <<report, rawTitle, titleFrag, connected, stdout, world>>
    /\ UNCHANGED <<streams, setting, changes, worker>>

-----------------------------------------------------------------------------
(* The library's threads, and what happens outside.                        *)

\* What it publishes reaches the slots while it waits.
WorkerStep ==
    /\ place # "done" /\ Idle("worker")
    /\ Audio!WorkerStep /\ (pc = "measure" /\ Audio!HasSession => lastPeak' \in MeterReads)
    /\ UNCHANGED <<main, library, line, printed, world>>
    /\ \E also \in {<<>>} \cup
                   (IF pc = "tick" /\ positionTick' = 0 /\ Latest.status = "Playing"
                       /\ "position" \in Range(connected)
                    THEN {<<"position">>} ELSE {}) : Publishes("worker", also)

TimeOut ==
    /\ place # "done"
    /\ Audio!TimeOut \/ Audio!TimePasses
    /\ UNCHANGED <<main, library, stdout, world>>

\* Some event of the media session is handled: rebind and read.
Refresh ==
    /\ session # "off" /\ Idle("handler") /\ media # report
    /\ session' = (IF media = NoPlayback THEN "none" ELSE "bound") /\ report' = media
    /\ UNCHANGED <<main, rawTitle, titleFrag, connected, line, printed, world, audio>>
    /\ Publishes("handler", <<>>)

\* What changes before Start looks is one of the initial states.
Outside ==
    /\ place \notin {"parse", "seed", "stop", "join", "teardown", "done"}
    /\ UNCHANGED <<main, library, stdout, received, lost>>

Changes ==
    /\ Outside
    /\ changes < MaxChanges /\ changes' = changes + 1
    /\ UNCHANGED <<processId, streams, setting, worker>>

\* A window that comes back is another process's.
SpotifyOpens ==
    /\ spotify = NoPid /\ spotify' \in Pids \ {processId} /\ shown' \in Titles
    /\ UNCHANGED media /\ Changes

SpotifyCloses ==
    /\ spotify # NoPid /\ spotify' = NoPid /\ shown' = <<>>
    /\ UNCHANGED media /\ Changes

SpotifyRenames ==
    /\ spotify # NoPid /\ shown' \in Titles \ {shown}
    /\ UNCHANGED <<spotify, media>> /\ Changes

MediaChanges ==
    /\ media' \in (Reports \cup {NoPlayback}) \ {media}
    /\ UNCHANGED <<spotify, shown>> /\ Changes

\* The first sound makes an audio session; it goes with its last stream.
StreamChanges ==
    /\ \E p \in streams \cup ({spotify} \ {NoPid}) : Audio!StreamChanges(p)
    /\ UNCHANGED <<spotify, shown, media>> /\ Outside

\* OnSigInt, once it is installed.
Interrupt ==
    /\ cmd \in Streams /\ place \in {"baseline", "showing", "connect", "watch"}
    /\ ~interrupted /\ interrupted' = TRUE
    /\ UNCHANGED <<argv, place, cmd, rest, left, rc, flag>> /\ MainFrame

-----------------------------------------------------------------------------
Init ==
    /\ argv \in Invocations
    /\ place = "parse" /\ cmd = "" /\ rest = <<>> /\ left = 0 /\ rc = kExitOk
    /\ flag = FALSE /\ interrupted = FALSE
    /\ session = "off" /\ report = NoPlayback
    /\ rawTitle = <<>> /\ titleFrag = NoTitle /\ connected = <<>>
    /\ emit = [t \in Threads |-> Silent] /\ stale = {} /\ line = {} /\ printed = Garbled
    /\ \/ spotify = NoPid /\ shown = <<>> /\ media = NoPlayback
       \/ spotify \in Pids /\ shown \in Titles /\ media \in Reports \cup {NoPlayback}
    /\ received = <<>> /\ lost = FALSE
    /\ Audio!Init /\ processId = NoPid
    \* A Spotify that has played has a media session and an audio session.
    /\ streams = IF media = NoPlayback THEN {} ELSE {spotify}
    /\ setting \in [Pids -> {[vol |-> 100, muted |-> FALSE]}]

MainStep ==
    \/ Refuse \/ NewFails \/ New \/ Seed \/ StartSources
    \/ Detected \/ Sleeps \/ GivesUp
    \/ PrintJson \/ PrintText \/ Baseline \/ Shown \/ Connect \/ Disconnect
    \/ AskSession \/ AskNobody \/ PostKey \/ Seek \/ Volume \/ ReadMuted \/ Mute \/ Open
    \/ BeginStop \/ Notify \/ Join \/ Teardown
    \/ EmitStep("main")

HandlerStep == Refresh \/ EmitStep("handler")

Environment ==
    \/ SpotifyOpens \/ SpotifyCloses \/ SpotifyRenames \/ MediaChanges \/ StreamChanges
    \/ Interrupt

Next == MainStep \/ WorkerStep \/ EmitStep("worker") \/ TimeOut \/ HandlerStep \/ Environment

Spec == Init /\ [][Next]_vars

\* The tool's threads are scheduled: sleeps of main end and calls return.
Fairness ==
    /\ WF_vars(MainStep)
    /\ WF_vars(WorkerStep \/ EmitStep("worker"))

FairSpec == Spec /\ Fairness

-----------------------------------------------------------------------------
(* Properties.                                                             *)

Places == {"parse", "seed", "sources", "wait", "act", "key", "mute", "baseline",
           "showing", "connect", "watch", "disconnect", "stop", "join", "teardown", "done"}

\* Every variable has its type.
TypeOK ==
    /\ argv \in Invocations /\ place \in Places /\ cmd \in Commands \cup {""} /\ left \in Nat
    /\ rc \in {kExitOk, kExitUsage, kExitNoSpotify, kExitFailure}
    /\ flag \in BOOLEAN /\ interrupted \in BOOLEAN
    /\ session \in {"off", "none", "bound"} /\ report \in Reports \cup {NoPlayback}
    /\ rawTitle \in SeenTitles \cup {<<>>} /\ titleFrag.status \in Statuses
    /\ connected = SubSeq(Wanted, 1, Len(connected))
    /\ \A t \in Threads :
        /\ emit[t].at \in {"idle", "owed", "size", "copy", "write"}
        /\ emit[t].calls \in 0 .. 5 /\ (emit[t].at = "write" <=> emit[t].calls > 0)
        /\ Range(emit[t].todo) \subseteq Range(Wanted) \cup {"state"}
    /\ stale \subseteq {"track", "state"} /\ line \subseteq Threads
    /\ spotify \in Pids \cup {NoPid} /\ shown \in Titles \cup {<<>>}
    /\ media \in Reports \cup {NoPlayback} /\ lost \in BOOLEAN
    /\ Audio!TypeOK

\* What an invocation asks for, as far as it can be told from the arguments.
Asked(request) ==
    /\ request[1] = cmd
    /\ CASE cmd = "volume" ->
                IF rest[1] = "set" THEN request[2] = Clamp(Levels[rest[2]])
                ELSE request[2] = rest[1]
         [] cmd = "mute" -> rest[1] # "toggle" => request[2] = (rest[1] = "on")
         [] cmd = "seek" -> request[2] >= 0 /\
                (Times[rest[1]].sign = "" => request[2] = ParseAbsDurationMs(Times[rest[1]]))
         [] OTHER -> TRUE

Controls == (cmd \in Commands \ (Streams \cup {"now-playing"}))
            /\ ~(cmd = "volume" /\ rest[1] = "get")

\* docs/cli.md: "Exit 4 if the command couldn't be delivered", 0 is success.  A
\* tool that does not end with 0 has changed nothing, one that does has made
\* its request exactly once, or its media session has dropped it: a fallback
\* never repeats what was already done.
ExitTellsDelivery ==
    /\ Len(received) <= 1
    /\ place = "done" /\ rc # kExitOk => received = <<>>
    /\ (place = "done" /\ rc = kExitOk /\ Controls /\ ~lost)
        => received # <<>> /\ Asked(received[1])

\* docs/cli.md: watch "streams one line per delta", events one per signal.  Once
\* the callbacks have returned, the last state, or change of track, published
\* since main connected has been written to its last byte: threads in callbacks
\* at once, each asking for the state twice, may cut objects, but never the last.
\* What another thread writes meanwhile may stand between the bytes of a change of
\* track, see Unspliced.
WatchShowsLatest == place = "watch" /\ (\A t \in Threads : Idle(t)) => stale = {}

\* docs/cli.md: --wait-ms bounds the wait, Ctrl-C ends the streams: each command
\* comes to its end, whatever Spotify does.
Streaming == cmd \in Streams /\ ~interrupted
Terminates == ~Streaming ~> place = "done" \/ Streaming

\* docs/cli.md: search is "url spotify:search:<percent-encoded query>": what
\* Spotify decodes are the words of the query.
SearchFindsQuery ==
    received # <<>> /\ cmd = "search" => PercentDecode(received[1][2]) = Query

\* Where a text divides into artist and title: at the first separator that has
\* something other than blanks before it, if there is something behind it, too.
Blanks == {Blank, Tab}
Says(s) == \E i \in DOMAIN s : s[i] \notin Blanks
Dividers(text) == {i \in Separators(text) :
    /\ Says(SubSeq(text, 1, i - 1)) /\ Says(SubSeq(text, i + 3, Len(text)))
    /\ \A j \in Separators(text) : j < i => ~Says(SubSeq(text, 1, j - 1))}

\* s is name with nothing but blanks around it.
Pads(s, name) ==
    /\ name # <<>> /\ name[1] \notin Blanks /\ name[Len(name)] \notin Blanks
    /\ \E n \in 0 .. Len(s) - Len(name) :
          /\ SubSeq(s, n + 1, n + Len(name)) = name
          /\ \A k \in DOMAIN s : k \notin n + 1 .. n + Len(name) => s[k] \in Blanks

TitleSaysArtist(artist) ==
    IF Dividers(rawTitle) = {} THEN artist = <<>>
    ELSE \E i \in Dividers(rawTitle) : Pads(SubSeq(rawTitle, 1, i - 1), artist)
TitleSaysTitle(title) ==
    IF Dividers(rawTitle) = {} THEN title = <<>>
    ELSE \E i \in Dividers(rawTitle) : Pads(SubSeq(rawTitle, i + 3, Len(rawTitle)), title)

\* docs/cli.md: now-playing --json prints one JSON object: unless the state
\* changed between the two calls, its artist and its title, decoded, are those of
\* one report of the media session; what that leaves out is what the title of the
\* window says, whatever signs the names consist of.
Told(artist, title) == \E r \in Reports \cup {NoPlayback} :
    /\ IF r.artist = <<>> THEN TitleSaysArtist(artist) ELSE artist = r.artist
    /\ IF r.title = <<>> THEN TitleSaysTitle(title) ELSE title = r.title

NowPlayingTellsTrack ==
    cmd = "now-playing" /\ "--json" \in Range(rest) /\ printed # Garbled
        => Told(Unescape(printed.artist), Unescape(printed.title))

\* docs/cli.md: events prints {"type":"ad_started"}.  While it watches, an
\* advertisement that the window's title announces and that stays is told.
TellsAd == \E t \in Threads : emit[t].todo # <<>> /\ Head(emit[t].todo) = "adStarted"

Watches == place = "watch" /\ cmd = "events" /\ ~interrupted
AdsTold ==
    Watches /\ ~Latest.isAd /\ processId = spotify /\ shown = Advertisement
        ~> TellsAd \/ ~Watches \/ shown # Advertisement

\* docs/cli.md: "one object per line".  Not so when two threads of the library
\* are in a callback: both may write their object before either ends its line.
OneObjectPerLine == Cardinality(line) <= 1

\* Nor is the object of a change of track in one piece: the line feed of another
\* thread's object may end the line it is on.
Unspliced ==
    [][\A t \in Threads : line' = {} /\ t \in line => emit'[t].at # "write"]_vars
=============================================================================
