------------------------------ MODULE Playback ------------------------------
(***************************************************************************)
(* The data of the library: the unified PlaybackState, the fragment each   *)
(* source keeps, and the pure fusion of the three fragments.               *)
(*                                                                         *)
(* Text is abstract: a name is an element of Names and Empty is the empty  *)
(* string.  Album art and the three capability flags are left out: they    *)
(* are copied from the media session together with the album and nothing   *)
(* branches on them, so the album stands for them in every comparison.     *)
(***************************************************************************)
EXTENDS Integers

CONSTANTS
    Names,      \* the non-empty artist, title and album strings
    Empty       \* the empty string

ASSUME NamesAssumption == Empty \notin Names

Texts == Names \cup {Empty}

Statuses == {"Unknown", "Stopped", "Paused", "Playing", "ChangingTrack"}

\* Volumes are percentages; appVolume is NoVolume until an audio session is
\* resolved (-1.0f in the code).
NoVolume == -1

PlaybackStates ==
    [artist : Texts, title : Texts, album : Texts,
     status : Statuses, position : Nat, duration : Nat,
     isAd : BOOLEAN, audible : BOOLEAN, appMuted : BOOLEAN, appVolume : Int]

\* The default-constructed PlaybackState.
NoPlayback ==
    [artist |-> Empty, title |-> Empty, album |-> Empty,
     status |-> "Unknown", position |-> 0, duration |-> 0,
     isAd |-> FALSE, audible |-> FALSE, appMuted |-> FALSE,
     appVolume |-> NoVolume]

-----------------------------------------------------------------------------
(* The fragments.                                                          *)

\* What the media session reports: a PlaybackState whose audio and
\* advertisement fields keep their defaults.
SmtcFrags ==
    {s \in PlaybackStates : /\ ~s.isAd /\ ~s.audible /\ ~s.appMuted
                            /\ s.appVolume = NoVolume}

AudioFrags == [vol : Int, muted : BOOLEAN, audible : BOOLEAN, resolved : BOOLEAN]

NoAudio == [vol |-> NoVolume, muted |-> FALSE, audible |-> FALSE, resolved |-> FALSE]

\* What ParseWindowTitle returns.  Its idle flag is stored and never read.
TitleParses ==
    [isAd : BOOLEAN, artist : Texts, title : Texts, status : Statuses]

\* A parse, and whether any title was applied yet.
TitleFrags ==
    [isAd : BOOLEAN, artist : Texts, title : Texts, status : Statuses, any : BOOLEAN]

NoTitle ==
    [isAd |-> FALSE, artist |-> Empty, title |-> Empty, status |-> "Unknown",
     any |-> FALSE]

-----------------------------------------------------------------------------
\* The four outcomes of ParseWindowTitle.
IdleTitle    == [isAd |-> FALSE, artist |-> Empty, title |-> Empty, status |-> "Paused"]
AdTitle      == [isAd |-> TRUE,  artist |-> Empty, title |-> Empty, status |-> "Playing"]
OtherTitle   == [isAd |-> FALSE, artist |-> Empty, title |-> Empty, status |-> "Unknown"]
TrackTitle(artist, title) ==
    [isAd |-> FALSE, artist |-> artist, title |-> title, status |-> "Playing"]

-----------------------------------------------------------------------------
SmtcHasContent(smtc) ==
    \/ smtc.title # Empty
    \/ smtc.artist # Empty
    \/ smtc.status # "Unknown"

\* SMTC wins over the title, field by field; the title alone says isAd, the
\* audio session alone says volume, mute and audible.
FuseFragments(smtc, audio, title) ==
    LET base == IF SmtcHasContent(smtc) THEN smtc ELSE NoPlayback
    IN  [artist    |-> IF base.artist = Empty THEN title.artist ELSE base.artist,
         title     |-> IF base.title = Empty THEN title.title ELSE base.title,
         album     |-> base.album,
         status    |-> IF base.status = "Unknown" /\ title.any
                       THEN title.status ELSE base.status,
         position  |-> base.position,
         duration  |-> base.duration,
         isAd      |-> title.isAd,
         audible   |-> audio.audible,
         appMuted  |-> audio.muted,
         appVolume |-> IF audio.resolved THEN audio.vol ELSE NoVolume]

\* Track identity is artist, title and album.
IsTrackChange(prev, cur) ==
    <<prev.artist, prev.title, prev.album>> # <<cur.artist, cur.title, cur.album>>
=============================================================================
