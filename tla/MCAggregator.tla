---------------------------- MODULE MCAggregator ----------------------------
(***************************************************************************)
(* Instances of Aggregator for TLC.                                        *)
(***************************************************************************)
EXTENDS Aggregator, TLC

CONSTANTS smtc1, smtc2, worker, window

Report(title, status, position) ==
    [NoPlayback EXCEPT !.artist = "artist", !.title = title, !.album = "album",
                       !.status = status, !.position = position, !.duration = 4]

\* Playing, a republication a little late, and the session going away.
MCReports == {Report("song", "Playing", 1), Report("song", "Paused", 3), NoPlayback}

\* Playing, and reported again and again at the same position.
MCStall == {Report("song", "Playing", 1)}

\* A report whose media properties and playback info could not be read.
Contentless == [NoPlayback EXCEPT !.position = 3, !.duration = 4]
MCPartialReports == MCReports \cup {Contentless}

MCTitles == {AdTitle, TrackTitle("artist", "song")}

Quiet == [vol |-> 50, muted |-> FALSE, audible |-> FALSE, resolved |-> TRUE]
Loud  == [Quiet EXCEPT !.audible = TRUE]
MCSamples == {Quiet, Loud}

Symmetry == Permutations(SmtcThreads)
=============================================================================
