------------------------------ MODULE RingFiles -----------------------------
(***************************************************************************)
(* The photo and the clip of a ring (frame_grabber.py, ring_media.py): the    *)
(* grabber that decodes frames while there is video, the photo task, and the  *)
(* recorder, a task that outlives its ring until ffmpeg has closed the file.  *)
(* Video belongs to a ring, and to the call that answers it, or to a view.    *)
(***************************************************************************)
EXTENDS Naturals, FiniteSets

CONSTANTS
    MaxRings,     \* bound: visitors
    MaxFrames,    \* bound: frames of one video
    MaxViews,     \* bound: calls placed to look
    Better,       \* SNAPSHOT_DELAY > 0
    Faults,       \* "soon": a visitor rings while the photo or the clip before is
                  \* being made; "view": a view starts while a photo is;
                  \* "disk": files are not written
    None

VARIABLES
    ring,       \* the visitor of now
    ringing,    \* its ring, or the call that answered it, is on: "no", "on"; "told" to the hub
    views,
    video,      \* whose the video is: a ring, Look, or 0
    grabber,    \* _grabber: "no", "runs", "dead"
    frames,     \* frames
    jpeg,       \* last_jpeg: [of, n]
    request,    \* _clip_req: a ring, or 0
    queue,      \* _clip_q: whose the recorder is that gets the video, or 0
    rec,        \* the recorders, by ring
    photo,      \* _photo_task: [ring, step, first]
    stats,      \* last_photo, last_clip: rings, or 0
    onDisk      \* photos and clips: what they show

vars == <<ring, ringing, views, video, grabber, frames, jpeg, request, queue, rec, photo, stats, onDisk>>
clipVars == <<request, queue, rec>>

Rings == 1..MaxRings
Look == MaxRings + 1
NoRec == [step |-> "no", eof |-> FALSE, shows |-> {}, done |-> 0]
Init ==
    /\ ring = 0 /\ ringing = "no" /\ views = 0 /\ video = 0 /\ grabber = "no" /\ frames = 0 /\ jpeg = None
    /\ request = 0 /\ queue = 0 /\ rec = [r \in Rings |-> NoRec] /\ photo = None
    /\ stats = [photo |-> 0, clip |-> 0]
    /\ onDisk = [photo |-> [r \in Rings |-> 0], clip |-> [r \in Rings |-> {}], part |-> {}]

\* _start_clip: a task, and the queue it reads.
Starts(rs, r) == [rs EXCEPT ![r].step = "claim"]
\* _end_clip: the recorder gets an EOF, behind what it still has to write.
Ended(rs) == IF queue = 0 THEN rs ELSE [rs EXCEPT ![queue].eof = TRUE]

\* frame_grabber.start: also for a re-INVITE, with the clip going on.
VideoStarts(of) ==
    /\ video \in {0, of} /\ video' = of /\ grabber' = "runs"
    /\ queue' = IF request # 0 THEN request ELSE queue
    /\ rec' = IF request # 0 THEN Starts(rec, request) ELSE rec
    /\ request' = 0
    /\ UNCHANGED <<ring, frames, jpeg, photo, stats, onDisk>>
\* The preview comes with the 183, before the ring is told; or with the answer.
RingVideo == ringing # "no" /\ VideoStarts(ring) /\ UNCHANGED <<ringing, views>>
ViewVideo ==
    /\ ringing = "no" /\ views < MaxViews /\ video = 0
    /\ photo # None => "view" \in Faults
    /\ VideoStarts(Look) /\ views' = views + 1 /\ UNCHANGED ringing
\* The clip is not ended.
VideoStops_ClipGoesOn ==
    /\ ringing # "no" \/ video # 0
    /\ ringing' = "no" /\ video' = 0 /\ grabber' = "no" /\ frames' = 0 /\ jpeg' = None
    /\ request' = 0 /\ UNCHANGED <<queue, rec>>
    /\ UNCHANGED <<ring, views, photo, stats, onDisk>>
\* stop(), at the end of the call or of the ring.
VideoStops ==
    /\ ringing # "no" \/ video # 0
    /\ ringing' = "no" /\ video' = 0 /\ grabber' = "no" /\ frames' = 0 /\ jpeg' = None
    /\ request' = 0 /\ queue' = 0 /\ rec' = Ended(rec)
    /\ UNCHANGED <<ring, views, photo, stats, onDisk>>

\* The INVITE of a new visitor, and then the hub's "ring" branch: record(),
\* and the photo task instead of the one before.
Invite ==
    /\ ringing = "no" /\ video = 0 /\ ring < MaxRings
    /\ photo # None \/ (\E r \in Rings : rec[r].step \notin {"no", "over"}) => "soon" \in Faults
    /\ ring' = ring + 1 /\ ringing' = "on"
    /\ UNCHANGED <<views, video, grabber, frames, jpeg, clipVars, photo, stats, onDisk>>
RingTold ==
    /\ ringing = "on" /\ ringing' = "told"
    /\ stats' = [photo |-> 0, clip |-> 0]
    /\ IF grabber = "no" THEN request' = ring /\ queue' = 0 /\ rec' = Ended(rec)
       ELSE request' = 0 /\ queue' = ring /\ rec' = Starts(Ended(rec), ring)
    /\ photo' = [ring |-> ring, step |-> "first", first |-> None]
    /\ UNCHANGED <<ring, views, video, grabber, frames, jpeg, onDisk>>

\* _grab
Frame ==
    /\ grabber = "runs" /\ frames < MaxFrames
    /\ frames' = frames + 1 /\ jpeg' = [of |-> video, n |-> frames']
    /\ UNCHANGED <<ring, ringing, views, video, grabber, clipVars, photo, stats, onDisk>>
GrabberDies ==
    /\ grabber = "runs" /\ grabber' = "dead"
    /\ UNCHANGED <<ring, ringing, views, video, frames, jpeg, clipVars, photo, stats, onDisk>>

\* wait_frame; its timeout is RING_MAX_S, or 6 s for the second.
FrameSeen(after) == frames > after \/ grabber # "runs"
Shot(step) == photo # None /\ photo.step = step
Writes(r, j) ==
    /\ onDisk' = [onDisk EXCEPT !.photo[r] = j.of] /\ stats' = [stats EXCEPT !.photo = r]
FirstPhoto ==
    /\ Shot("first") /\ FrameSeen(0)
    /\ IF jpeg = None THEN photo' = None /\ UNCHANGED <<stats, onDisk>>
       ELSE /\ photo' = IF Better THEN [photo EXCEPT !.step = "delay", !.first = jpeg] ELSE None
            /\ Writes(photo.ring, jpeg)
    /\ UNCHANGED <<ring, ringing, views, video, grabber, frames, jpeg, clipVars>>
PhotoNotWritten ==
    /\ "disk" \in Faults /\ Shot("first") /\ FrameSeen(0) /\ photo' = None
    /\ UNCHANGED <<ring, ringing, views, video, grabber, frames, jpeg, clipVars, stats, onDisk>>
BetterPhoto ==
    /\ Shot("delay") /\ photo' = None
    /\ \E late \in BOOLEAN :
          /\ ~late => FrameSeen(1)
          /\ IF jpeg \notin {None, photo.first} THEN Writes(photo.ring, jpeg) ELSE UNCHANGED <<stats, onDisk>>
    /\ UNCHANGED <<ring, ringing, views, video, grabber, frames, jpeg, clipVars>>

\* _record: its .part file, ffmpeg, the video from the first IDR on.
Claims(r) ==
    /\ rec[r].step = "claim"
    /\ rec' = [rec EXCEPT ![r].step = "wait"] /\ onDisk' = [onDisk EXCEPT !.part = @ \cup {r}]
    /\ UNCHANGED <<ring, ringing, views, video, grabber, frames, jpeg, request, queue, photo, stats>>
\* The file, or ffmpeg, cannot be had.
NoFile(r) ==
    /\ "disk" \in Faults /\ rec[r].step \in {"claim", "wait"}
    /\ rec' = [rec EXCEPT ![r].step = "over", ![r].done = @ + 1]
    /\ onDisk' = [onDisk EXCEPT !.part = @ \ {r}]
    /\ UNCHANGED <<ring, ringing, views, video, grabber, frames, jpeg, request, queue, photo, stats>>
Records(r) ==
    /\ rec[r].step \in {"wait", "writes"} /\ queue = r /\ video # 0
    /\ rec' = [rec EXCEPT ![r].step = "writes", ![r].shows = @ \cup {video}]
    /\ UNCHANGED <<ring, ringing, views, video, grabber, frames, jpeg, request, queue, photo, stats, onDisk>>
Capped_Never == FALSE
Capped == TRUE   \* CLIP_MAX_S may have passed at any time
\* EOF, CLIP_MAX_S, or ffmpeg is gone: the file is closed, and renamed if it is good.
Closes(r) ==
    /\ rec[r].step \in {"wait", "writes"}
    /\ rec[r].eof \/ Capped
    /\ rec' = [rec EXCEPT ![r].step = IF rec[r].step = "writes" THEN "closing" ELSE "drops"]
    /\ UNCHANGED <<ring, ringing, views, video, grabber, frames, jpeg, request, queue, photo, stats, onDisk>>
\* _finish, _add_audio, on_done
Finishes(r) ==
    /\ rec[r].step \in {"closing", "drops"}
    /\ \E ok \in (IF rec[r].step = "drops" THEN {FALSE} ELSE BOOLEAN) :
          /\ onDisk' = [onDisk EXCEPT !.part = @ \ {r}, !.clip[r] = IF ok THEN rec[r].shows ELSE @]
          /\ stats' = IF ok THEN [stats EXCEPT !.clip = r] ELSE stats
    /\ rec' = [rec EXCEPT ![r].step = "over", ![r].done = @ + 1]
    /\ UNCHANGED <<ring, ringing, views, video, grabber, frames, jpeg, request, queue, photo>>

Next ==
    \/ RingVideo \/ ViewVideo \/ VideoStops \/ Invite \/ RingTold \/ Frame \/ GrabberDies
    \/ FirstPhoto \/ PhotoNotWritten \/ BetterPhoto
    \/ \E r \in Rings : Claims(r) \/ NoFile(r) \/ Records(r) \/ Closes(r) \/ Finishes(r)
Spec == Init /\ [][Next]_vars
Recorder(r) == Claims(r) \/ Closes(r) \/ Finishes(r)
Fairness == \A r \in Rings : WF_vars(Recorder(r))
FairSpec == Spec /\ Fairness

-----------------------------------------------------------------------------
(* Properties.                                                               *)

TypeOK ==
    /\ ring \in 0 .. MaxRings /\ ringing \in {"no", "on", "told"} /\ views \in 0 .. MaxViews
    /\ video \in 0 .. Look /\ grabber \in {"no", "runs", "dead"} /\ frames \in 0 .. MaxFrames
    /\ {request, queue, stats.photo, stats.clip} \subseteq 0 .. MaxRings
    /\ \A r \in Rings : rec[r].step \in {"no", "claim", "wait", "writes", "closing", "drops", "over"}
    /\ photo \in {None} \cup [ring : Rings, step : {"first", "delay"}, first : [of : 0 .. Look, n : 1 .. MaxFrames] \cup {None}]
    /\ onDisk.part \subseteq Rings

\* Photo and clip of a ring show its visitor, and not the picture of a call that was placed
\* before or after (_save_ring_photo, record, start, stop).
ShowsTheVisitor ==
    \A r \in Rings : onDisk.photo[r] \in {0, r} /\ onDisk.clip[r] \subseteq {r}

\* What goes with a notification is of this ring, not of the one before (the "ring" branch
\* clears last_photo and last_clip; _clip_done and _save_ring_photo set them).
NotifiesOwn == ringing = "told" => stats.photo \in {0, ring} /\ stats.clip \in {0, ring}

\* on_done comes once for a clip that began, and no half-written file stays (_record, _finish).
DoneOnce ==
    \A r \in Rings :
        /\ rec[r].done = (IF rec[r].step = "over" THEN 1 ELSE 0)
        /\ rec[r].step \in {"no", "over"} => r \notin onDisk.part
\* A clip that began comes to its end, whatever the video does (CLIP_MAX_S, _end_clip).
ClipEnds == \A r \in Rings : rec[r].step = "claim" ~> rec[r].step = "over"
=============================================================================
