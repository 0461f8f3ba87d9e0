------------------------------ MODULE MCDoorbell ------------------------------
(***************************************************************************)
(* The ring and the HomeKit doorbell, in several cases: the case is chosen in *)
(* the initial state and stays.  Each is about one part (HomeKitViews,        *)
(* HomeKitPairing, HomeKitTalk, RingDesk, RingFiles); the others stay idle.   *)
(***************************************************************************)
EXTENDS Integers, Sequences

CONSTANTS
    v1, v2,   \* views
    Chosen,   \* the cases of this run
    None,
    \* HomeKitPairing
    Controllers, PairFailures, PairFaults, MaxCodes,
    \* HomeKitTalk
    MaxHeld, TalkFailures, LoudFrames, MaxVoice, MaxDecoders,
    \* RingDesk, RingFiles
    MaxRings, MaxSims, AwayOn, MaxFrames, MaxViews, Better, FileFaults

\* HomeKit's views are not the card that watches too.
ASSUME ViewsAssumption == "other" \notin {v1, v2}
ASSUME PairingAssumption == PairFailures \in Nat \ {0} /\ MaxCodes \in Nat
ASSUME TalkAssumption ==
    /\ MaxHeld \in Nat \ {0} /\ TalkFailures \in Nat /\ LoudFrames \in Nat \ {0}
    /\ MaxVoice \in Nat /\ MaxDecoders \in Nat
ASSUME RingsAssumption ==
    /\ MaxRings \in Nat /\ MaxFrames \in Nat /\ MaxViews \in Nat /\ MaxSims \in Nat /\ AwayOn \in BOOLEAN
\* None is neither a code nor one of the records it stands in for.
ASSUME NoneAssumption ==
    /\ None \notin Nat /\ None \notin {"missed", "answered", "away", "declined"}
    /\ None \notin [ring : Nat, told : BOOLEAN]
    /\ None \notin [ring : Nat, by : {"user", "away"}, up : BOOLEAN]
    /\ None \notin [ring : Nat, step : {"delay", "load", "answer", "play"}]
    /\ None \notin [id : Nat, gen : Nat, up : BOOLEAN, fed : BOOLEAN]
    /\ None \notin
         [kind : {"view", "early", "prewarm", "stop"}, view : {v1, v2, None},
          step : {"waits", "stop", "launch", "start", "undo"}, gen : Nat \cup {None},
          enc : [id : Nat, gen : Nat, up : BOOLEAN, fed : BOOLEAN] \cup {None}]

VARIABLES
    case,  \* the name of the case
    \* HomeKitViews
    line, video, watching, calls, acc, view, tc, job, queue, encoders, open, lost,
    \* HomeKitPairing
    up, code, last, loaded, file, saves, shown, paired, fails, verifier, retired,
    unsaved,
    \* HomeKitTalk
    t_sent, t_held, t_launch, t_ready, t_proc, t_alive, t_watched, t_pipe, t_pumps,
    t_said, t_loud, t_fired, t_fails, t_made, t_stop,
    \* RingDesk
    rung, pending, call, answering, declining, endings, hub, away, hooks, announced,
    log, logq, truth, claimed,
    \* RingFiles
    f_ring, f_ringing, f_views, f_video, f_grabber, f_frames, f_jpeg, f_request,
    f_queue, f_rec, f_photo, f_stats, f_onDisk

views ==
    <<line, video, watching, calls, acc, view, tc, job, queue, encoders, open, lost>>
pairing ==
    <<up, code, last, loaded, file, saves, shown, paired, fails, verifier, retired,
      unsaved>>
talk ==
    <<t_sent, t_held, t_launch, t_ready, t_proc, t_alive, t_watched, t_pipe, t_pumps,
      t_said, t_loud, t_fired, t_fails, t_made, t_stop>>
desk ==
    <<rung, pending, call, answering, declining, endings, hub, away, hooks, announced,
      log, logq, truth, claimed>>
files ==
    <<f_ring, f_ringing, f_views, f_video, f_grabber, f_frames, f_jpeg, f_request,
      f_queue, f_rec, f_photo, f_stats, f_onDisk>>
vars == <<case, views, pairing, talk, desk, files>>

Starting == {"hub", "call", "picture", "parts"}
ViewCases == [
    \* One view, whose start may be cancelled anywhere, while a card may watch too.
    watched |-> [views |-> {v1}, smooth |-> TRUE, onOpen |-> FALSE, faults |-> Starting, unloads |-> FALSE,
                 others |-> TRUE, calls |-> 2, encoders |-> 2],
    \* HomeKit is turned off at any time.
    unloaded |-> [views |-> {v1}, smooth |-> TRUE, onOpen |-> FALSE, faults |-> Starting, unloads |-> TRUE,
                  others |-> FALSE, calls |-> 2, encoders |-> 2],
    \* Two views, of the panel's own packets.
    two_views |-> [views |-> {v1, v2}, smooth |-> FALSE, onOpen |-> FALSE, faults |-> {}, unloads |-> FALSE,
                   others |-> FALSE, calls |-> 1, encoders |-> 0],
    \* A view answers as it opens.
    answers |-> [views |-> {v1}, smooth |-> TRUE, onOpen |-> TRUE, faults |-> Starting, unloads |-> FALSE,
                 others |-> FALSE, calls |-> 2, encoders |-> 2],
    \* The same, turned off, without cancelled starts.
    ends |-> [views |-> {v1}, smooth |-> TRUE, onOpen |-> TRUE, faults |-> {}, unloads |-> TRUE,
              others |-> FALSE, calls |-> 1, encoders |-> 2]]
\* The ring log on a disk that works, or does not.
DeskCases == [rings |-> {}, bad_disk |-> {"disk"}]

H(c) == INSTANCE HomeKitViews WITH
    Views <- c.views, Smooth <- c.smooth, OnOpen <- c.onOpen, Faults <- c.faults,
    Unloads <- c.unloads, OthersWatch <- c.others, MaxCalls <- c.calls,
    MaxEncoders <- c.encoders
P == INSTANCE HomeKitPairing WITH MaxFailures <- PairFailures, Faults <- PairFaults
T == INSTANCE HomeKitTalk WITH
    MaxFailures <- TalkFailures, sent <- t_sent, held <- t_held, launch <- t_launch, ready <- t_ready, proc <- t_proc,
    alive <- t_alive, watched <- t_watched, pipe <- t_pipe, pumps <- t_pumps, said <- t_said,
    loud <- t_loud, fired <- t_fired, fails <- t_fails, made <- t_made, stop <- t_stop
R(faults) == INSTANCE RingDesk WITH Faults <- faults
F == INSTANCE RingFiles WITH
    Faults <- FileFaults, ring <- f_ring, ringing <- f_ringing, views <- f_views, video <- f_video,
    grabber <- f_grabber, frames <- f_frames, jpeg <- f_jpeg, request <- f_request,
    queue <- f_queue, rec <- f_rec, photo <- f_photo, stats <- f_stats, onDisk <- f_onDisk

Init ==
    /\ case \in Chosen
    /\ \/ case \notin DOMAIN ViewCases /\ H(ViewCases.two_views)!Init
       \/ \E n \in DOMAIN ViewCases : case = n /\ H(ViewCases[n])!Init
    /\ P!Init /\ T!Init /\ R({})!Init /\ F!Init

Next ==
    /\ UNCHANGED case
    /\ \/ \E n \in DOMAIN ViewCases :
            case = n /\ H(ViewCases[n])!Next /\ UNCHANGED <<pairing, talk, desk, files>>
       \/ case = "pairing" /\ P!Next /\ UNCHANGED <<views, talk, desk, files>>
       \/ case = "talk" /\ T!Next /\ UNCHANGED <<views, pairing, desk, files>>
       \/ \E n \in DOMAIN DeskCases :
            case = n /\ R(DeskCases[n])!Next /\ UNCHANGED <<views, pairing, talk, files>>
       \/ case = "files" /\ F!Next /\ UNCHANGED <<views, pairing, talk, desk>>
Spec == Init /\ [][Next]_vars

\* Fairness is that of each part, in the case that is about its ends.
HEnds == INSTANCE HomeKitViews WITH
    Views <- {v1}, Smooth <- TRUE, OnOpen <- TRUE, Faults <- {}, Unloads <- TRUE, OthersWatch <- FALSE,
    MaxCalls <- 1, MaxEncoders <- 2
REnds == INSTANCE RingDesk WITH Faults <- {}
FairSpec == Spec /\ HEnds!Fairness /\ T!Fairness /\ REnds!Fairness /\ F!Fairness

-----------------------------------------------------------------------------

\* HomeKit's sessions: what a session held is released when it is over, an encoder is somebody's
\* to stop, but one whose stop was cut short, a view that is forgotten closes, an encoder of an
\* earlier call goes, and a call that HomeKit answered does not outlive its last view
\* (HomeKitViews; the last where no card watches).
SessionsInOrder ==
    \A n \in DOMAIN ViewCases : case = n =>
        LET c == ViewCases[n] IN
        /\ H(c)!TypeOK /\ H(c)!Released /\ H(c)!NotForgotten /\ H(c)!OldEncoderGoes
        /\ ~c.others => H(c)!EndsWithLastView /\ H(c)!AnsweredIsUp

\* Nobody ends or shows what is another's: HomeKit hangs up its own calls, a view that is not on
\* its way out starts to read only the encoder of its call, the away message hangs up its own call, voice goes out in the order
\* it was spoken, and a code that was replaced pairs nobody.
KeepsToItsOwn ==
    [][/\ \A n \in DOMAIN ViewCases : case = n => H(ViewCases[n])!HangsUpItsOwn /\ H(ViewCases[n])!ReadsItsCall
       /\ \A n \in DOMAIN DeskCases : case = n => R(DeskCases[n])!HangsUpIts
       /\ case = "talk" => T!Forward
       /\ case = "pairing" => P!PairsWithCurrent]_vars

\* The options page shows the code that pairs, a restart finds it, and one decoder runs per
\* view (HomeKitPairing, HomeKitTalk).
CodeAndTalk == P!TypeOK /\ P!ShowsTheCode /\ P!FileFollows /\ T!TypeOK /\ T!OneDecoder

\* Every visitor is announced, counted and logged as what it came to (RingDesk; the log where
\* the disk works).
RingsTold ==
    \A n \in DOMAIN DeskCases : case = n =>
        LET f == DeskCases[n] IN
        /\ R(f)!TypeOK /\ R(f)!EveryRingAnnounced /\ R(f)!HooksPaired /\ R(f)!MissedTrue
        /\ f = {} => R(f)!OutcomeTrue

\* Photo and clip are of the visitor they are filed under, and each clip is told once
\* (RingFiles).
PicturesOfRing == F!TypeOK /\ F!ShowsTheVisitor /\ F!NotifiesOwn /\ F!DoneOnce

\* Sessions close and HomeKit goes off, a ring that was announced is over some time, a clip
\* comes to its end, and a decoder that died makes room for another.
AllEnd ==
    /\ HEnds!Closes /\ HEnds!TurnsOff
    /\ REnds!RingCloses /\ F!ClipEnds /\ T!Restarts
=============================================================================
