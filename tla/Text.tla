-------------------------------- MODULE Text --------------------------------
(***************************************************************************)
(* The pure functions on text: the parser of window titles, the encoding   *)
(* of search URIs and the writers of JSON, with the readers (decoders) that *)
(* say what the encodings are for.  A text is a sequence of bytes.         *)
(***************************************************************************)
EXTENDS Integers, FiniteSetsExt, SequencesExt, Playback

Bytes == 0 .. 255
Tab == 9
Blank == 32
Quote == 34
Percent == 37
Backslash == 92

-----------------------------------------------------------------------------
(* Window titles.                                                          *)

kSeparator == <<Blank, 45, Blank>>                       \* " - "
Spotify == <<83, 112, 111, 116, 105, 102, 121>>
Free == <<70, 114, 101, 101>>
Premium == <<80, 114, 101, 109, 105, 117, 109>>
Advertisement == <<65, 100, 118, 101, 114, 116, 105, 115, 101, 109, 101, 110, 116>>

TrimSpaces(s) ==
    LET kept == {i \in DOMAIN s : s[i] \notin {Blank, Tab}}
    IN  IF kept = {} THEN <<>> ELSE SubSeq(s, Min(kept), Max(kept))

\* Where the separator begins.
Separators(s) == {i \in 1 .. Len(s) - 2 : SubSeq(s, i, i + 2) = kSeparator}

ParseWindowTitle(raw) ==
    LET trimmed == TrimSpaces(raw)
        found   == Separators(trimmed)
        artist  == TrimSpaces(SubSeq(trimmed, 1, Min(found) - 1))
        title   == TrimSpaces(SubSeq(trimmed, Min(found) + 3, Len(trimmed)))
    IN  CASE trimmed \in {Spotify, Spotify \o <<Blank>> \o Free,
                          Spotify \o <<Blank>> \o Premium} -> IdleTitle
          [] trimmed = Advertisement -> AdTitle
          [] found # {} /\ artist # <<>> /\ title # <<>> -> TrackTitle(artist, title)
          [] OTHER -> OtherTitle

-----------------------------------------------------------------------------
(* Search URIs.                                                            *)

Between(c, first, last) == first <= c /\ c <= last
Unreserved(c) ==
    \/ Between(c, 65, 90) \/ Between(c, 97, 122) \/ Between(c, 48, 57)
    \/ c \in {45, 95, 46, 126}

HexUpper(n) == IF n < 10 THEN 48 + n ELSE 55 + n
HexLower(n) == IF n < 10 THEN 48 + n ELSE 87 + n
HexValue(c) ==
    CASE Between(c, 48, 57) -> c - 48
      [] Between(c, 65, 70) -> c - 55
      [] Between(c, 97, 102) -> c - 87
      [] OTHER -> 0

\* Mutant: a percent sign passes for encoded already.
PercentEncodeOnce(in) ==
    FlattenSeq([i \in DOMAIN in |->
        IF Unreserved(in[i]) \/ in[i] = Percent THEN <<in[i]>>
        ELSE <<Percent, HexUpper(in[i] \div 16), HexUpper(in[i] % 16)>>])

PercentEncode(in) ==
    FlattenSeq([i \in DOMAIN in |->
        IF Unreserved(in[i]) THEN <<in[i]>>
        ELSE <<Percent, HexUpper(in[i] \div 16), HexUpper(in[i] % 16)>>])

\* RFC 3986.
PercentDecode(uri) ==
    LET from[i \in 1 .. Len(uri) + 1] ==
            IF i > Len(uri) THEN <<>>
            ELSE IF uri[i] = Percent /\ i + 2 <= Len(uri)
                 THEN <<16 * HexValue(uri[i + 1]) + HexValue(uri[i + 2])>> \o from[i + 3]
                 ELSE <<uri[i]>> \o from[i + 1]
    IN  from[1]

\* The scheme, "spotify:search:", is left out.
Search(query) == PercentEncode(query)

-----------------------------------------------------------------------------
(* JSON.                                                                   *)

Named == [b |-> 8, f |-> 12, n |-> 10, r |-> 13, t |-> Tab]
Letter == [b |-> 98, f |-> 102, n |-> 110, r |-> 114, t |-> 116]

\* Mutant: a backslash escapes nothing by itself.
EscapeLoosely(c) == IF c = Quote THEN <<Backslash, Quote>> ELSE <<c>>

Escape(c) ==
    CASE c \in {Quote, Backslash} -> <<Backslash, c>>
      [] \E x \in DOMAIN Named : c = Named[x] ->
            <<Backslash, Letter[CHOOSE x \in DOMAIN Named : c = Named[x]]>>
      [] c < 32 /\ \A x \in DOMAIN Named : c # Named[x] ->
            <<Backslash, 117, 48, 48, HexLower(c \div 16), HexLower(c % 16)>>
      [] OTHER -> <<c>>

\* The command-line tool's own escaping is that of the library.
JsonEscape(s) == FlattenSeq([i \in DOMAIN s |-> Escape(s[i])])
AppendEscaped(s) == <<Quote>> \o JsonEscape(s) \o <<Quote>>

\* RFC 8259: the text of a JSON string.
Unescape(string) ==
    LET from[i \in 2 .. Len(string) + 1] ==
            IF i >= Len(string) THEN <<>>
            ELSE IF string[i] # Backslash THEN <<string[i]>> \o from[i + 1]
            ELSE IF string[i + 1] = 117 /\ i + 6 <= Len(string)
                 THEN <<16 * HexValue(string[i + 4]) + HexValue(string[i + 5])>> \o from[i + 6]
            ELSE IF \E x \in DOMAIN Letter : string[i + 1] = Letter[x]
                 THEN <<Named[CHOOSE x \in DOMAIN Letter : string[i + 1] = Letter[x]]>>
                      \o from[i + 2]
            ELSE <<string[i + 1]>> \o from[i + 2]
    IN  from[2]

StatusName(status) ==
    CASE status = "Stopped" -> "stopped"
      [] status = "Paused"  -> "paused"
      [] status = "Playing" -> "playing"
      [] status = "ChangingTrack" -> "changing_track"
      [] OTHER -> "unknown"

\* One object; its fields are in this order, art and capabilities left out.
WriteStateJson(s) ==
    [status      |-> StatusName(s.status),
     artist      |-> AppendEscaped(s.artist),
     title       |-> AppendEscaped(s.title),
     album       |-> AppendEscaped(s.album),
     position_ms |-> s.position,
     duration_ms |-> s.duration,
     is_ad       |-> s.isAd,
     audible     |-> s.audible,
     app_muted   |-> s.appMuted,
     app_volume  |-> IF s.appVolume < 0 THEN "null" ELSE s.appVolume]

FormatTime(ms) == <<ms \div 60000, (ms \div 1000) % 60>>

\* The other two forms now-playing has; only the first says "unresolved".
PrintStateHuman(s) ==
    [status |-> StatusName(s.status), artist |-> s.artist, title |-> s.title,
     album |-> s.album, position |-> FormatTime(s.position),
     duration |-> FormatTime(s.duration), audible |-> s.audible,
     volume |-> IF s.appVolume < 0 THEN <<"unresolved">> ELSE <<s.appVolume, s.appMuted>>]

PrintStateTsv(s) ==
    [status |-> StatusName(s.status), artist |-> s.artist, title |-> s.title,
     album |-> s.album, position |-> s.position, duration |-> s.duration,
     audible |-> s.audible, volume |-> s.appVolume]

\* The length of the object beyond what is the same in all of them.
Digits(n) == Min({k \in 1 .. 9 : n < 10 ^ k})
BooleanSize(b) == IF b THEN 4 ELSE 5
JsonSize(s) ==
    Len(AppendEscaped(s.artist)) + Len(AppendEscaped(s.title)) + Len(AppendEscaped(s.album))
    + (CASE s.status = "Paused" -> 6 [] s.status = "ChangingTrack" -> 14 [] OTHER -> 7)
    + Digits(s.position) + Digits(s.duration)
    + BooleanSize(s.isAd) + BooleanSize(s.audible) + BooleanSize(s.appMuted)
    + (IF s.appVolume < 0 THEN 4 ELSE 6)
=============================================================================
