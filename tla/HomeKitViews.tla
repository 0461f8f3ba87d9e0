---------------------------- MODULE HomeKitViews ----------------------------
(***************************************************************************)
(* The views of the HomeKit doorbell (homekit_accessory.py): sessions that   *)
(* the phone prepares, starts and stops, the call each needs, the answer and *)
(* the hang-up of the last one, and the one encoder they share.  The line is *)
(* what the hub shows the accessory of it.                                   *)
(***************************************************************************)
EXTENDS Naturals, Sequences, FiniteSets

CONSTANTS
    Views,         \* sessions
    Smooth,        \* re-encoded video (_smooth)
    OnOpen,        \* a view that opens answers (_answer_on_open)
    Faults,        \* where start_stream may be cancelled; "tap": while it makes the tap;
                   \* "told": a call may end while its answer is told
    Unloads,       \* HomeKit may be turned off
    OthersWatch,   \* bound: a card or /av may watch too
    MaxCalls,      \* bound: rings and calls
    MaxEncoders,   \* bound: encoders that are started
    None

VARIABLES
    line,      \* of the hub: [is, by, auto]; by: who placed or answered the call
    video,     \* video_ready(): packets of this call or preview arrive
    watching,  \* the viewers the hub counts (_stream_viewers)
    calls,
    acc,       \* the accessory: _call_gen, _answered, ...
    view,      \* the sessions
    tc,        \* _transcoder
    job,       \* who holds _transcoder_lock
    queue,     \* who waits for it, in order
    encoders,  \* started so far
    open,      \* the encoders that were started and are not stopped
    lost       \* what nobody can release any more: encoders, taps

vars == <<line, video, watching, calls, acc, view, tc, job, queue, encoders, open, lost>>
encoderVars == <<tc, job, queue, encoders, open, lost>>
lineVars == <<line, video, calls>>

Other == "other"
Busy == line.is \in {"placing", "call"}
\* hub.call_coming
CallComing == line.is # "free" \/ line.auto
\* hub.video_active
VideoActive == line.is = "call" \/ (line.is = "ringing" /\ video)

Session == [known |-> FALSE, start |-> "no", starting |-> FALSE, stopping |-> FALSE,
            close |-> "no", ending |-> FALSE, video |-> "no", audio |-> "no",
            has |-> {}, enc |-> None, reads |-> None, forget |-> FALSE]

Init ==
    /\ line = [is |-> "free", by |-> None, auto |-> FALSE]
    /\ video = FALSE /\ watching \in {{}, IF OthersWatch THEN {Other} ELSE {}} /\ calls = 0
    /\ acc = [gen |-> 0, answered |-> FALSE, answer |-> "no", hangs_up |-> FALSE,
              closed |-> FALSE, off |-> "no"]
    /\ view = [v \in Views |-> Session]
    /\ tc = None /\ job = None /\ queue = <<>> /\ encoders = 0 /\ open = {} /\ lost = {}

\* _live_sessions: open, or opening, and not closing.
LiveIn(vw, v) == vw[v].known /\ (vw[v].starting \/ "proc" \in vw[v].has) /\ ~vw[v].stopping
NoneLive(vw) == \A v \in Views : ~LiveIn(vw, v)

\* _close_session asks for the one close; it does not wait for it.
Closing(s) == [s EXCEPT !.stopping = TRUE, !.close = IF @ = "no" THEN "asked" ELSE @]

\* should_hang_up_for_viewers, and what _hang_up_if_last makes of it.
LastOf_AnyCall(vw, ws, answered) == NoneLive(vw) /\ ws = {} /\ (answered \/ Busy)
LastOf(vw, ws, answered) ==
    NoneLive(vw) /\ ws = {} /\ (answered \/ (line.auto /\ Busy))
HungUp(a) == [a EXCEPT !.answered = FALSE, !.hangs_up = TRUE]
HangUpIfLast(a, vw, ws) == IF LastOf(vw, ws, a.answered) THEN HungUp(a) ELSE a

Job(kind, v) == [kind |-> kind, view |-> v, step |-> "waits", gen |-> None, enc |-> None]

-----------------------------------------------------------------------------
(* The line.  on_video_ended runs as the call or the ring ends.              *)

EndedViews == [v \in Views |-> [view[v] EXCEPT !.ending = @ \/ LiveIn(view, v)]]
OnVideoEnded ==
    IF acc.closed THEN UNCHANGED <<acc, view, queue>>
    ELSE /\ acc' = [acc EXCEPT !.answered = FALSE, !.gen = @ + 1]
         /\ view' = EndedViews
         /\ queue' = Append(queue, Job("stop", None))

LineEnds ==
    /\ line' = [is |-> "free", by |-> None, auto |-> FALSE] /\ video' = FALSE
    /\ OnVideoEnded
    /\ UNCHANGED <<watching, calls, tc, job, encoders, open, lost>>

\* The tasks just created run before anything that takes a message to come.
Idle == ~acc.hangs_up /\ acc.answer # "asked" /\ \A v \in Views : ~view[v].ending

\* ring(): the fleeting preview of a visitor that is new gets an encoder of its own.
Rings ==
    /\ line.is = "free" /\ calls < MaxCalls /\ Idle
    /\ calls' = calls + 1
    /\ line' = [line EXCEPT !.is = "ringing"]
    /\ acc' = IF acc.closed \/ video THEN acc ELSE [acc EXCEPT !.gen = @ + 1]
    /\ UNCHANGED <<video, watching, view, encoderVars>>

\* _prewarm: at most once a ring, when its video comes.
VideoComes ==
    /\ line.is \in {"ringing", "call"} /\ ~video
    /\ video' = TRUE
    /\ queue' = IF line.is = "ringing" /\ Smooth /\ ~acc.closed
                THEN Append(queue, Job("prewarm", None)) ELSE queue
    /\ UNCHANGED <<line, watching, calls, acc, view, tc, job, encoders, open, lost>>

\* Cancelled, declined, timed out, or answered by the Tab.
RingEnds == line.is = "ringing" /\ LineEnds
\* The panel or somebody else hangs up, or the call that a view placed fails.
CallEnds == line.is = "call" /\ (acc.answer = "sent" => "told" \in Faults) /\ LineEnds
CallFails == line.is = "placing" /\ LineEnds
CallConnects ==
    /\ line.is = "placing" /\ line' = [line EXCEPT !.is = "call"]
    /\ UNCHANGED <<video, watching, calls, acc, view, encoderVars>>
\* The card answers.
OtherAnswers ==
    /\ line.is = "ringing"
    /\ line' = [line EXCEPT !.is = "call", !.by = Other]
    /\ UNCHANGED <<video, watching, calls, acc, view, encoderVars>>
OtherLeaves ==
    /\ Other \in watching /\ watching' = watching \ {Other}
    /\ UNCHANGED <<lineVars, acc, view, encoderVars>>

-----------------------------------------------------------------------------
(* Answering and hanging up.                                                 *)

\* _first_voice: whoever presses Talk.
Talks(v) ==
    /\ "bridge" \in view[v].has
    /\ line.is = "ringing" /\ acc.answer = "no"
    /\ acc' = [acc EXCEPT !.answer = "asked"]
    /\ UNCHANGED <<lineVars, watching, view, encoderVars>>

\* _answer: the 200 leaves and the call is up; call_started is told to the hub
\* and to the cards before async_answer returns.
Answers ==
    /\ acc.answer = "asked"
    /\ IF line.is = "ringing" /\ ~acc.answered
       THEN /\ acc' = [acc EXCEPT !.answer = "sent"]
            /\ line' = [line EXCEPT !.is = "call", !.by = "homekit"]
       ELSE acc' = [acc EXCEPT !.answer = "no"] /\ UNCHANGED line
    /\ UNCHANGED <<video, watching, calls, view, encoderVars>>
\* Whether anybody still watches is not looked at.
Answered_Unwatched ==
    /\ acc.answer = "sent"
    /\ acc' = [acc EXCEPT !.answer = "no", !.answered = TRUE]
    /\ UNCHANGED <<lineVars, watching, view, encoderVars>>
Answered ==
    /\ acc.answer = "sent"
    /\ LET a == [acc EXCEPT !.answer = "no", !.answered = TRUE]
       IN acc' = HangUpIfLast(a, view, watching)
    /\ UNCHANGED <<lineVars, watching, view, encoderVars>>

\* _hang_up, a task of its own: the call that is up now.
HangsUp ==
    /\ acc.hangs_up
    /\ line' = IF Busy THEN [is |-> "free", by |-> None, auto |-> FALSE] ELSE [line EXCEPT !.auto = FALSE]
    /\ video' = (video /\ ~Busy)
    /\ IF Busy /\ ~acc.closed
       THEN /\ acc' = [acc EXCEPT !.hangs_up = FALSE, !.answered = FALSE, !.gen = @ + 1]
            /\ view' = EndedViews /\ queue' = Append(queue, Job("stop", None))
       ELSE acc' = [acc EXCEPT !.hangs_up = FALSE] /\ UNCHANGED <<view, queue>>
    /\ UNCHANGED <<watching, calls, tc, job, encoders, open, lost>>

-----------------------------------------------------------------------------
(* A session.  `start` is where start_stream stands, which holds the         *)
(* session's lock; `video` and `audio` are its two halves, side by side.     *)

NeverStarted(s) == s.start = "no" /\ ~s.stopping
\* set_endpoints, with _drop_stale_sessions.
SetEndpoints(v) ==
    /\ acc.off # "over" /\ view[v] = Session
    /\ \E old \in SUBSET { u \in Views : view[u].known /\ (NeverStarted(view[u]) \/ view[u].close = "over") } :
          view' = [u \in Views |->
                     IF u = v THEN [Session EXCEPT !.known = TRUE, !.has = {"a_sock", "v_sock"}]
                     ELSE IF u \notin old THEN view[u]
                     ELSE [IF NeverStarted(view[u]) THEN Closing(view[u]) ELSE view[u] EXCEPT !.known = FALSE]]
    /\ UNCHANGED <<lineVars, watching, acc, encoderVars>>

\* start_stream, up to where stream_opened may wait for a hang-up.
StartStream(v) ==
    /\ acc.off # "over" /\ view[v].known /\ view[v].start = "no" /\ view[v].close = "no"
    /\ view' = [view EXCEPT ![v].start = "hub", ![v].starting = TRUE, ![v].has = @ \cup {"viewer"}]
    /\ watching' = watching \cup {v}
    /\ UNCHANGED <<lineVars, acc, encoderVars>>

\* It returns False: a session that is not closing by now is closed.
Failed(s) == [Closing(s) EXCEPT !.starting = FALSE, !.start = IF s.stopping THEN "over" ELSE "failed"]
Fails(v) == view' = [view EXCEPT ![v] = Failed(@)]

\* With the re-encoder warming up while the call connects.
WaitsForCall(v) ==
    /\ view' = [view EXCEPT ![v].start = "call"]
    /\ queue' = IF Smooth /\ ~video /\ line.is # "ringing" /\ ~acc.closed
                THEN Append(queue, Job("early", v)) ELSE queue

\* stream_opened: a call in view, or one is placed, or none can be.
StreamOpened(v) ==
    /\ view[v].start = "hub"
    /\ \/ /\ CallComing
          /\ UNCHANGED <<line, calls>>
          /\ IF view[v].stopping THEN Fails(v) /\ UNCHANGED queue ELSE WaitsForCall(v)
       \/ /\ ~CallComing /\ calls < MaxCalls
          /\ line' = [is |-> "placing", by |-> "view", auto |-> TRUE] /\ calls' = calls + 1
          /\ IF view[v].stopping THEN Fails(v) /\ UNCHANGED queue ELSE WaitsForCall(v)
       \/ ~CallComing /\ Fails(v) /\ UNCHANGED <<line, calls, queue>>
    /\ UNCHANGED <<video, watching, acc, tc, job, encoders, open, lost>>

CallSeen(v) ==
    /\ view[v].start = "call"
    /\ \/ /\ VideoActive /\ ~view[v].stopping
          /\ view' = [view EXCEPT ![v].start = "picture"]
          /\ acc' = IF OnOpen /\ acc.answer = "no" THEN [acc EXCEPT !.answer = "asked"] ELSE acc
       \/ (~VideoActive \/ view[v].stopping) /\ Fails(v) /\ UNCHANGED acc   \* CALL_WAIT
    /\ UNCHANGED <<lineVars, watching, encoderVars>>

\* The first video packets, or VIDEO_WAIT without them.
PictureSeen(v) ==
    /\ view[v].start = "picture"
    /\ IF view[v].stopping THEN Fails(v)
       ELSE view' = [view EXCEPT ![v].start = "parts", ![v].audio = "tap",
                                 ![v].video = IF video THEN "opening" ELSE "done",
                                 ![v].has = IF video THEN @ \cup {"video"} ELSE @ \ {"v_sock"}]
    /\ UNCHANGED <<lineVars, watching, acc, encoderVars>>

\* _open_video.
VideoOpened(v) ==
    /\ view[v].video = "opening"
    /\ view' = [view EXCEPT ![v].video = IF Smooth THEN "encoder" ELSE "group"]
    /\ queue' = IF Smooth THEN Append(queue, Job("view", v)) ELSE queue
    /\ UNCHANGED <<lineVars, watching, acc, tc, job, encoders, open, lost>>
\* The panel's own packets, without an encoder.
Panel == [id |-> 0, gen |-> 0]
Reads(v, x) == view' = [view EXCEPT ![v].video = "done", ![v].reads = x, ![v].has = @ \cup {"sink"}]
\* `stopping` is looked at before each sleep, and not after it: what comes in the sleep in
\* which the view is closed is still attached.
KeyframeSeen(v) ==
    /\ view[v].video = "keyframe"
    /\ \/ view[v].stopping /\ view' = [view EXCEPT ![v].video = "none"]
       \/ Reads(v, view[v].enc)
       \/ view' = [view EXCEPT ![v].video = "group"]                                    \* KEYFRAME_WAIT
    /\ UNCHANGED <<lineVars, watching, acc, encoderVars>>
GroupSent(v) ==
    /\ view[v].video = "group"
    /\ \/ view[v].stopping /\ view' = [view EXCEPT ![v].video = "none"]
       \/ Reads(v, Panel)
    /\ UNCHANGED <<lineVars, watching, acc, encoderVars>>

\* _open_audio.
TapMade(v) ==
    /\ view[v].audio = "tap"
    /\ view' = [view EXCEPT ![v].audio = IF view[v].stopping THEN "none" ELSE "bridge",
                            ![v].has = @ \cup IF view[v].stopping THEN {"tap"} ELSE {"tap", "bridge"}]
    /\ UNCHANGED <<lineVars, watching, acc, encoderVars>>
BridgeUp(v) ==
    /\ view[v].audio = "bridge"
    /\ view' = [view EXCEPT ![v].audio = IF view[v].stopping THEN "none" ELSE "ffmpeg"]
    /\ UNCHANGED <<lineVars, watching, acc, encoderVars>>
FfmpegUp(v) ==
    /\ view[v].audio = "ffmpeg"
    /\ \/ view' = [view EXCEPT ![v].audio = "done", ![v].has = @ \cup {"proc"}]
       \/ view' = [view EXCEPT ![v].audio = "none"]
    /\ UNCHANGED <<lineVars, watching, acc, encoderVars>>

\* Both halves are through.
Opened(v) ==
    /\ view[v].start = "parts" /\ {view[v].video, view[v].audio} \subseteq {"done", "none"}
    /\ IF "none" \in {view[v].video, view[v].audio} \/ view[v].stopping THEN Fails(v)
       ELSE view' = [view EXCEPT ![v].start = "over", ![v].starting = FALSE]
    /\ UNCHANGED <<lineVars, watching, acc, encoderVars>>

\* The lock's waiters at these places stay, in their order.
Remain(places) ==
    \E f \in [1 .. Cardinality(places) -> places] :
        /\ { f[i] : i \in DOMAIN f } = places /\ \A i, j \in DOMAIN f : i < j => f[i] < f[j]
        /\ queue' = [i \in DOMAIN f |-> queue[f[i]]]
\* Whoever holds the lock is cancelled: a start is undone; a stop, that of an undo too, is cut
\* short, and leaves its encoder to nobody.
JobCut == IF job.step = "start" THEN [job EXCEPT !.step = "undo"] ELSE None
LeftBy(cut) == IF cut /\ job.step \in {"stop", "undo"} THEN {<<"encoder", job.enc.id>>} ELSE {}
\* start_stream is cancelled: its halves too.  The thread that makes a tap goes on.
CutJob(v) == job # None /\ job.kind = "view" /\ job.view = v
StartCancelled(v) ==
    /\ view[v].start \in {"hub", "call", "picture", "parts"} \cap Faults
    /\ view[v].audio = "tap" => "tap" \in Faults
    /\ view' = [view EXCEPT ![v] = [Closing(@) EXCEPT !.starting = FALSE, !.start = "over", !.video = "none", !.audio = "none"]]
    /\ Remain({ i \in DOMAIN queue : queue[i] # Job("view", v) })
    /\ job' = IF CutJob(v) THEN JobCut ELSE job
    /\ lost' = lost \cup LeftBy(CutJob(v)) \cup IF view[v].audio = "tap" THEN {<<"tap", v>>} ELSE {}
    /\ UNCHANGED <<lineVars, watching, acc, tc, encoders, open>>

-----------------------------------------------------------------------------
(* Its end: the phone's stop, ffmpeg's exit, the end of the call.            *)

PhoneStops(v) ==
    /\ view[v].known /\ ~view[v].forget
    /\ view' = [view EXCEPT ![v] = [Closing(@) EXCEPT !.forget = TRUE]]
    /\ UNCHANGED <<lineVars, watching, acc, encoderVars>>
\* _watch
FfmpegExits(v) ==
    /\ "proc" \in view[v].has /\ ~view[v].stopping
    /\ view' = [view EXCEPT ![v] = Closing(@)]
    /\ UNCHANGED <<lineVars, watching, acc, encoderVars>>
EndFromPanel(v) ==
    /\ view[v].ending
    /\ view' = [view EXCEPT ![v] = [Closing(@) EXCEPT !.ending = FALSE]]
    /\ UNCHANGED <<lineVars, watching, acc, encoderVars>>

\* _do_close takes the session's lock, then stops ffmpeg and the bridge.
CloseBegins(v) ==
    /\ view[v].close = "asked" /\ view[v].start \in {"no", "failed", "over"}
    /\ view' = [view EXCEPT ![v].close = "closing"]
    /\ UNCHANGED <<lineVars, watching, acc, encoderVars>>
Closed(v) ==
    /\ view[v].close = "closing"
    /\ view' = [view EXCEPT ![v].close = "over", ![v].has = {}, ![v].reads = None]
    /\ watching' = watching \ {v}
    /\ acc' = IF "viewer" \in view[v].has THEN HangUpIfLast(acc, view', watching') ELSE acc
    /\ UNCHANGED <<lineVars, encoderVars>>
\* pyhap forgets a session that it stopped, or that did not start.
Forgets(v) ==
    /\ view[v].known /\ view[v].close = "over" /\ (view[v].forget \/ view[v].start = "failed")
    /\ view' = [view EXCEPT ![v].known = FALSE, ![v].start = "over"]
    /\ UNCHANGED <<lineVars, watching, acc, encoderVars>>

-----------------------------------------------------------------------------
(* The encoder: _ensure_transcoder and _stop_transcoder, one at a time.      *)

Mine == Head(queue)
Takes == job = None /\ queue # <<>> /\ queue' = Tail(queue)
\* The encoder is of this call, and runs.
Usable == tc # None /\ tc.up /\ tc.gen = acc.gen

\* What the view that asked goes on with.
Told(j, e) ==
    IF j.kind # "view" THEN UNCHANGED view
    ELSE view' = [view EXCEPT ![j.view].enc = e,
                    ![j.view].video = IF view[j.view].stopping THEN "none"
                                      ELSE IF e = None THEN "group" ELSE "keyframe"]
Without(e) == [v \in Views |-> IF view[v].reads = e THEN [view[v] EXCEPT !.reads = None] ELSE view[v]]
Name(e) == [id |-> e.id, gen |-> e.gen]

Reuses ==
    /\ Takes /\ Mine.kind # "stop" /\ Usable
    /\ tc' = [tc EXCEPT !.fed = @ \/ Mine.kind # "early"]
    /\ Told(Mine, Name(tc))
    /\ UNCHANGED <<lineVars, watching, acc, job, encoders, open, lost>>
\* An encoder that died, or an earlier call's, or any at the end of the call.
Retires ==
    /\ Takes /\ tc # None /\ (Mine.kind = "stop" \/ ~Usable)
    /\ job' = [Mine EXCEPT !.step = "stop", !.gen = acc.gen, !.enc = tc]
    /\ tc' = None /\ view' = Without(Name(tc))
    /\ UNCHANGED <<lineVars, watching, acc, encoders, open, lost>>
Goes_on ==
    /\ Takes /\ tc = None
    /\ job' = IF Mine.kind = "stop" THEN None ELSE [Mine EXCEPT !.step = "launch", !.gen = acc.gen]
    /\ UNCHANGED <<lineVars, watching, acc, view, tc, encoders, open, lost>>
Retired ==
    /\ job # None /\ job.step = "stop"
    /\ job' = IF job.kind = "stop" THEN None ELSE [job EXCEPT !.step = "launch", !.enc = None]
    /\ open' = open \ {job.enc.id}
    /\ UNCHANGED <<lineVars, watching, acc, view, tc, queue, encoders, lost>>

Wanted(j) ==
    /\ ~acc.closed
    /\ IF j.kind = "early" THEN CallComing ELSE video
    /\ j.view # None => ~view[j.view].stopping
Launches ==
    /\ job # None /\ job.step = "launch" /\ Wanted(job) /\ encoders < MaxEncoders
    /\ encoders' = encoders + 1 /\ open' = open \cup {encoders'}
    /\ job' = [job EXCEPT !.step = "start", !.enc = [id |-> encoders', gen |-> job.gen, up |-> TRUE, fed |-> FALSE]]
    /\ UNCHANGED <<lineVars, watching, acc, view, tc, queue, lost>>
\* Not wanted (any more), or no SPS and PPS to start early with.
Renounces ==
    /\ job # None /\ job.step = "launch"
    /\ ~Wanted(job) \/ job.kind = "early" \/ encoders = MaxEncoders
    /\ Told(job, None) /\ job' = None
    /\ UNCHANGED <<lineVars, watching, acc, tc, queue, encoders, open, lost>>
\* It listens; an early one is fed when somebody else asks for it.
Current(j) == j.gen = acc.gen /\ ~acc.closed
Started ==
    /\ job # None /\ job.step = "start" /\ Current(job)
    /\ tc' = [job.enc EXCEPT !.fed = job.kind # "early"]
    /\ Told(job, Name(job.enc)) /\ job' = None
    /\ UNCHANGED <<lineVars, watching, acc, queue, encoders, open, lost>>
\* It did not start, or the call ended meanwhile.
StartUndone ==
    /\ job # None /\ job.step = "start"
    /\ job' = [job EXCEPT !.step = "undo"]
    /\ UNCHANGED <<lineVars, watching, acc, view, tc, queue, encoders, open, lost>>
Undone ==
    /\ job # None /\ job.step = "undo"
    /\ IF job.kind = "view" /\ view[job.view].video = "encoder" THEN Told(job, None) ELSE UNCHANGED view
    /\ job' = None /\ open' = open \ {job.enc.id}
    /\ UNCHANGED <<lineVars, watching, acc, tc, queue, encoders, lost>>
EncoderDies ==
    /\ tc # None /\ tc.up /\ tc' = [tc EXCEPT !.up = FALSE]
    /\ UNCHANGED <<lineVars, watching, acc, view, job, queue, encoders, open, lost>>

-----------------------------------------------------------------------------
(* HomeKit is turned off: _stop().                                           *)

\* It cancels its tasks; the starts of views are pyhap's.
CutTask == job # None /\ job.kind # "view"
TurnedOff ==
    /\ Unloads /\ acc.off = "no"
    /\ acc' = [acc EXCEPT !.closed = TRUE, !.off = "views", !.answer = "no", !.hangs_up = FALSE]
    /\ view' = [v \in Views |-> [IF view[v].known THEN Closing(view[v]) ELSE view[v] EXCEPT !.ending = FALSE]]
    /\ Remain({ i \in DOMAIN queue : queue[i].kind = "view" })
    /\ job' = IF CutTask THEN JobCut ELSE job
    /\ lost' = lost \cup LeftBy(CutTask)
    /\ UNCHANGED <<lineVars, watching, tc, encoders, open>>
ViewsClosed ==
    /\ acc.off = "views" /\ \A v \in Views : view[v].close \in {"no", "over"}
    /\ acc' = [acc EXCEPT !.off = "encoder"]
    /\ queue' = Append(queue, Job("stop", None))
    /\ UNCHANGED <<lineVars, watching, view, tc, job, encoders, open, lost>>
\* pyhap stops the sessions it still has.
DriverStops ==
    /\ acc.off = "encoder" /\ tc = None /\ queue = <<>> /\ job = None
    /\ acc' = [acc EXCEPT !.off = "over"]
    /\ view' = [v \in Views |-> IF view[v].known THEN Closing(view[v]) ELSE view[v]]
    /\ UNCHANGED <<lineVars, watching, encoderVars>>

Env == Rings \/ VideoComes \/ RingEnds \/ CallEnds \/ CallFails \/ CallConnects \/ OtherAnswers \/ OtherLeaves
Start(v) == \/ StreamOpened(v) \/ CallSeen(v) \/ PictureSeen(v) \/ VideoOpened(v) \/ KeyframeSeen(v)
            \/ GroupSent(v) \/ TapMade(v) \/ BridgeUp(v) \/ FfmpegUp(v) \/ Opened(v)
End(v) == EndFromPanel(v) \/ CloseBegins(v) \/ Closed(v) \/ Forgets(v)
Phone(v) == SetEndpoints(v) \/ StartStream(v) \/ Talks(v) \/ PhoneStops(v) \/ FfmpegExits(v) \/ StartCancelled(v)
Encoder == Reuses \/ Retires \/ Goes_on \/ Retired \/ Launches \/ Renounces \/ Started \/ StartUndone \/ Undone
Off == TurnedOff \/ ViewsClosed \/ DriverStops
Next == \/ Env \/ Answers \/ Answered \/ HangsUp \/ Encoder \/ EncoderDies \/ Off
        \/ \E v \in Views : Start(v) \/ End(v) \/ Phone(v)
Spec == Init /\ [][Next]_vars

\* asyncio runs every task that can go on; what ffmpeg is asked for comes to an end.
Fairness == /\ \A v \in Views : WF_vars(Start(v)) /\ WF_vars(End(v))
            /\ WF_vars(Encoder) /\ WF_vars(Answers) /\ WF_vars(Answered) /\ WF_vars(HangsUp)
            /\ WF_vars(ViewsClosed) /\ WF_vars(DriverStops)
FairSpec == Spec /\ Fairness

-----------------------------------------------------------------------------
(* Properties.                                                               *)

TypeOK ==
    /\ line \in [is : {"free", "ringing", "placing", "call"}, by : {None, "view", "homekit", Other}, auto : BOOLEAN]
    /\ video \in BOOLEAN /\ watching \subseteq Views \cup {Other} /\ calls \in 0 .. MaxCalls
    /\ acc.answer \in {"no", "asked", "sent"} /\ acc.off \in {"no", "views", "encoder", "over"}
    /\ acc.answered \in BOOLEAN /\ acc.hangs_up \in BOOLEAN /\ acc.closed \in BOOLEAN
    /\ \A v \in Views :
         /\ view[v].start \in {"no", "hub", "call", "picture", "parts", "failed", "over"}
         /\ view[v].close \in {"no", "asked", "closing", "over"}
         /\ view[v].video \in {"no", "opening", "encoder", "keyframe", "group", "done", "none"}
         /\ view[v].audio \in {"no", "tap", "bridge", "ffmpeg", "done", "none"}
         /\ view[v].has \subseteq {"a_sock", "v_sock", "viewer", "video", "sink", "tap", "bridge", "proc"}
         /\ view[v].close # "no" => view[v].stopping
    /\ job # None => job.kind \in {"view", "early", "prewarm", "stop"}
                     /\ job.step \in {"stop", "launch", "start", "undo"}
    /\ \A i \in DOMAIN queue : queue[i].step = "waits"
    /\ encoders \in 0 .. MaxEncoders /\ open \subseteq 1 .. encoders

\* An encoder that was started is the accessory's, or whoever holds the lock stops it.
Held(id) == (tc # None /\ tc.id = id) \/ (job # None /\ job.enc # None /\ job.enc.id = id)
\* A session that was closed, and a start that is over, leave nothing behind: no socket, tap,
\* bridge, ffmpeg, sink or viewer (_do_close, start_stream when it is cancelled); and whatever
\* starts, dies, ends and is cancelled meanwhile, an encoder is somebody's to stop, but one whose
\* stop was cut short (_ensure_transcoder, _stop_transcoder).
Released ==
    /\ \A v \in Views : view[v].close = "over" => view[v].has = {} /\ view[v].reads = None /\ v \notin watching
    /\ \A v \in Views : <<"tap", v>> \notin lost
    /\ \A id \in open : Held(id) \/ <<"encoder", id>> \in lost
\* No encoder is nobody's ("the encoder was nobody's, and ran until Home Assistant restarted":
\* tests/test_homekit_lifecycle.py, of a start that is cancelled midway).
EncodersHeld == \A id \in open : Held(id)

\* A session pyhap does not know any more (stop_stream, _drop_stale_sessions) is closed, or
\* its close is on its way.
NotForgotten == \A v \in Views : ~view[v].known /\ view[v].has # {} => view[v].close # "no"

\* A call that HomeKit answered does not outlive its last view, in whatever order the view
\* closes and the answer is told (_hang_up_if_last, _answer).
EndsWithLastView ==
    line.is = "call" /\ line.by = "homekit" /\ watching = {} /\ ~acc.closed
        => acc.hangs_up \/ acc.answer = "sent" \/ ~NoneLive(view)

\* HomeKit hangs up what it answered, or what a view placed: never the call of a card, though
\* the hang-up is a task of its own (_hang_up).
HangsUpItsOwn == HangsUp /\ Busy /\ ~acc.closed => line.by \in {"view", "homekit"}
HangsUpOwn == [][HangsUpItsOwn]_vars

\* `_answered` is set only while the call that HomeKit answered is up (_answer, on_video_ended).
AnsweredIsUp == acc.answered /\ ~acc.closed => line.is = "call" /\ line.by = "homekit"

\* An encoder of an earlier call is about to go (_ensure_transcoder, whose start the end of a
\* call may overtake), and no view starts to read it but one that is on its way out.
OldEncoderGoes ==
    tc # None /\ (tc.gen # acc.gen \/ line.is = "free") /\ ~acc.closed
        => \E i \in DOMAIN queue : queue[i].kind = "stop"
ReadsItsCall ==
    \A v \in Views : view'[v].reads \notin {None, Panel, view[v].reads}
        => view'[v].reads.gen = acc.gen \/ view[v].ending \/ view[v].stopping
ReadsThisCall == [][ReadsItsCall]_vars

\* What is asked to close closes (_close_session waits for the session's lock and for ffmpeg);
\* HomeKit turned off comes to an end (_stop, async_close_views).
Closes == \A v \in Views : view[v].stopping ~> view[v].close = "over"
TurnsOff == acc.closed ~> acc.off = "over"
=============================================================================
