-------------------------------- MODULE MCCli --------------------------------
(***************************************************************************)
(* Instances of Cli for TLC.                                               *)
(***************************************************************************)
EXTENDS Cli

CONSTANTS pidA

MCEmpty == <<>>

\* A letter, one with a quote and a backslash, one with a line feed, a control
\* character and a byte of UTF-8, and one that ends like a separator.
MCNames == {<<97>>, <<97, Quote, Backslash>>, <<10, 1, 195>>, <<98, Blank, 45>>}

MCMillis == [x \in {"0", "25", "50"} |-> CASE x = "0" -> 0 [] x = "25" -> 1 [] OTHER -> 2]
MCLevels == [x \in {"-1", "7"} |-> IF x = "-1" THEN -100 ELSE 700]

Time(sign, colon, min, num, unit) ==
    [sign |-> sign, colon |-> colon, min |-> min, num |-> num, unit |-> unit]
MCTimes == [x \in {"90", "1:23.5", "500ms", "-15s", "+30", "--5"} |->
    CASE x = "90" -> Time("", FALSE, 0, 90000, "")
      [] x = "1:23.5" -> Time("", TRUE, 1, 23500, "")
      [] x = "500ms" -> Time("", FALSE, 0, 500000, "ms")
      [] x = "-15s" -> Time("-", FALSE, 0, 15000, "s")
      [] x = "+30" -> Time("+", FALSE, 0, 30000, "")
      [] x = "--5" -> Time("-", FALSE, 0, -5000, "")]

\* Arguments that are refused, or answered, without a client.
Refused ==
    {<<>>, <<"version">>, <<"help", "play">>, <<"--wait-ms">>, <<"play", "--wait-ms", "x">>,
     <<"--wait-ms", "help">>, <<"dance">>, <<"now-playing", "--json", "--tsv">>,
     <<"watch", "--tsv">>, <<"events", "--json">>, <<"seek">>, <<"seek", "soon">>,
     <<"seek", "--5">>, <<"volume">>, <<"mute">>, <<"url">>, <<"search">>}

\* Refused only once Spotify has been found.
LateRefused == {<<"volume", "set">>, <<"mute", "loud">>}

OneShots ==
    {<<"--wait-ms", "25", "next">>, <<"toggle">>,
     <<"seek", "1:23.5">>, <<"seek", "-15s">>,
     <<"volume", "get">>, <<"volume", "set", "-1">>, <<"volume", "set", "7">>, <<"volume", "up">>,
     <<"mute", "on">>, <<"mute", "toggle">>,
     <<"now-playing", "--json">>, <<"now-playing", "--tsv">>,
     <<"url", "spotify:track:a">>, <<"search", "ab", "100%41">>}

MCInvocations ==
    Refused \cup LateRefused \cup OneShots \cup
    {<<"watch">>, <<"--wait-ms", "0", "events", "--position">>}
MCEvents == {<<"events">>}

MCSpelling == [x \in UNION {Range(i) : i \in MCInvocations \cup MCEvents} |->
    CASE x = "ab" -> <<97, 195, 9>>
      [] x = "100%41" -> <<49, 48, 48, Percent, 52, 49>>
      [] OTHER -> <<115, 58, 116, 58, 97>>]

Report(artist, title, position) ==
    [NoPlayback EXCEPT !.artist = artist, !.title = title, !.status = "Playing",
                       !.position = position, !.duration = 200000]
\* A media session that leaves out the artist: the window's title fills it in.
MCReports == {Report(<<>>, <<99>>, 9000)}

\* A title with blanks around it and its artist, of which the last sign is cut, and
\* one that says nothing.
MCTitles ==
    {<<Blank, 97, Quote, Backslash, Tab>> \o kSeparator \o <<10, 1, 195, 97, 98, 98>>,
     Advertisement}
MCAdTitles == {Spotify, Advertisement}

\* An audio session that is no more answers as it did, or not at all.
Answers == expired => poll.setting \in {Audio!Unread} \cup Range(setting)
=============================================================================
