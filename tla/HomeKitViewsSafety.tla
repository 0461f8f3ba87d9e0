------------------------- MODULE HomeKitViewsSafety -------------------------
(***************************************************************************)
(* The sessions of the HomeKit doorbell (HomeKitViews), for every set of     *)
(* views and every bound: what a session holds is released, an encoder is    *)
(* somebody's to stop unless its stop was cut short, none of an earlier call *)
(* stays, and HomeKit's call does not outlive its last view.                 *)
(* The inductive invariant ViewsInv says of each session where it stands     *)
(* (SessionInv), of the line whose call it is (LineInv), and of the          *)
(* encoder's lock who waits and for what (QueueInv).  With the other parts'  *)
(* invariants it gives the action property KeepsToItsOwn.                    *)
(***************************************************************************)
EXTENDS DoorbellSafety

\* What a session may have.
Parts == {"a_sock", "v_sock", "viewer", "video", "sink", "tap", "bridge", "proc"}
\* An encoder, as whoever reads it knows it.
Name == [id : Nat, gen : Nat]
\* The types of a session and of what it shares.
SessionType ==
    [known : BOOLEAN, start : {"no", "hub", "call", "picture", "parts", "failed", "over"}, starting : BOOLEAN,
     stopping : BOOLEAN, close : {"no", "asked", "closing", "over"}, ending : BOOLEAN,
     video : {"no", "opening", "encoder", "keyframe", "group", "done", "none"},
     audio : {"no", "tap", "bridge", "ffmpeg", "done", "none"},
     has : SUBSET Parts, enc : Name \cup {None}, reads : Name \cup {None}, forget : BOOLEAN]
\* _transcoder.
EncoderType == [id : Nat, gen : Nat, up : BOOLEAN, fed : BOOLEAN]
\* What waits for _transcoder_lock, or holds it, on behalf of the views V.
JobType(V) ==
    [kind : {"view", "early", "prewarm", "stop"}, view : V \cup {None},
     step : {"waits", "stop", "launch", "start", "undo"}, gen : Nat \cup {None}, enc : EncoderType \cup {None}]
\* What a case may be: where a start is cancelled while it makes the tap, the tap is lost; a call
\* may end while its answer is told.  None is neither an encoder nor a job.
Legal(c) ==
    /\ "other" \notin c.views /\ {"tap", "told"} \cap c.faults = {}
    /\ c.calls \in Nat /\ c.encoders \in Nat
    /\ None \notin EncoderType /\ None \notin JobType(c.views)
\* The line, as the hub shows it.
LineType == [is : {"free", "ringing", "placing", "call"}, by : {None, "view", "homekit", "other"}, auto : BOOLEAN]
\* The accessory.
AccType ==
    [gen : Nat, answered : BOOLEAN, answer : {"no", "asked", "sent"}, hangs_up : BOOLEAN, closed : BOOLEAN,
     off : {"no", "views", "encoder", "over"}]
\* Encoder id is the accessory's, or of whoever holds the lock; or its stop was cut short.
IsHeld(id) ==
    \/ tc # None /\ tc.id = id
    \/ job # None /\ job.enc # None /\ job.enc.id = id
    \/ <<"encoder", id>> \in lost
\* An encoder that was started is held; while somebody is about to stop or to start one, the
\* accessory has none, which a start that comes through would push out.
HeldInv(c) ==
    /\ open \subseteq 1..encoders /\ \A id \in open : IsHeld(id)
    /\ job # None => tc = None /\ (job.step \in {"waits", "launch"} => job.enc = None)
    /\ \A v \in c.views : <<"tap", v>> \notin lost
\* The types the steps keep; every encoder is held.
ViewTypes(c) ==
    /\ line \in LineType
    /\ video \in BOOLEAN /\ watching \subseteq c.views \cup (IF c.others THEN {"other"} ELSE {}) /\ calls \in 0..c.calls
    /\ acc \in AccType
    /\ view \in [c.views -> SessionType]
    /\ tc \in EncoderType \cup {None} /\ job \in JobType(c.views) \cup {None}
    /\ queue \in Seq(JobType(c.views)) /\ encoders \in 0..c.encoders /\ HeldInv(c)

\* A session s, of which w says whether the hub counts its view.
SessionOk(s, w) ==
    /\ s.stopping = (s.close # "no")
    /\ s.starting = (s.start \in {"hub", "call", "picture", "parts"})
    /\ s.close \in {"closing", "over"} => ~s.starting
    /\ s.start \in {"no", "hub", "call", "picture"} => s.video = "no" /\ s.audio = "no"
    /\ s.start \in {"failed", "over"} => {s.video, s.audio} \subseteq {"no", "done", "none"}
    /\ ~s.known /\ s.close = "no" => s.start = "no" /\ s.has = {}
    /\ s.close = "over" => s.has = {} /\ s.reads = None
    /\ w = ("viewer" \in s.has)
    /\ s.starting \/ "proc" \in s.has => w
\* What a view that shows something shows is of the call that is up, or its end is on its way.
OfThisCall(s, a, l) ==
    /\ s.start \in {"picture", "parts"} /\ ~s.stopping /\ ~a.closed => s.ending \/ l.is # "free"
    /\ s.video = "keyframe" /\ ~s.stopping => s.enc = None \/ s.enc.gen = a.gen \/ s.ending
\* Every session is in order.
SessionInv(c) == \A v \in c.views : SessionOk(view[v], v \in watching) /\ OfThisCall(view[v], acc, line)

\* Whose call it is, and who hangs it up.
CallBy(who) == line.is = "call" /\ line.by = who
\* A call is up, or one is placed.
Up == line.is \in {"placing", "call"}
\* Only a view places a call; video and the accessory's flags are of the call that is up; while
\* HomeKit is on, its call has an owner: it was answered, is about to be told, or is hung up.
LineInv(c) ==
    /\ line.auto => Up /\ line.by = "view"
    /\ line.is = "placing" => line.by = "view"
    /\ video => line.is \in {"ringing", "call"}
    /\ acc.closed = (acc.off # "no")
    /\ ~acc.closed =>
          /\ acc.hangs_up => line.is = "free" \/ (Up /\ line.by \in {"view", "homekit"})
          /\ acc.answer = "sent" => CallBy("homekit") /\ ~acc.hangs_up /\ ~acc.answered
          /\ acc.answered => CallBy("homekit")
          /\ CallBy("homekit") => acc.answered \/ acc.answer = "sent" \/ acc.hangs_up
          /\ acc.answered /\ ~c.others => watching # {}

\* The lock of the encoder: who waits has not begun, whoever holds it works for the call it
\* began in, and an encoder of an earlier call has a stop behind it.
JobOk(c, vw, j) ==
    /\ j.kind \in {"view", "early"} => j.view \in c.views
    /\ j.kind = "view" => vw[j.view].video = "encoder" \/ (j.step = "undo" /\ vw[j.view].video = "none")
\* Who waits for the lock, and at most once per view.
WaitersInv(c) ==
    /\ \A i \in DOMAIN queue : /\ queue[i].step = "waits" /\ queue[i] = H(c)!Job(queue[i].kind, queue[i].view)
                               /\ JobOk(c, view, queue[i])
    /\ \A i, j \in DOMAIN queue :
          queue[i].kind = "view" /\ queue[j].kind = "view" /\ queue[i].view = queue[j].view => i = j
\* Who holds it.
JobInv(c) ==
    job # None =>
        /\ job.step # "waits" /\ job.gen \in Nat /\ job.gen <= acc.gen /\ JobOk(c, view, job)
        /\ job.step \in {"launch", "start"} => job.kind # "stop"
        /\ job.step = "start" => /\ job.enc \in EncoderType /\ job.enc.gen = job.gen
                                 /\ job.gen = acc.gen /\ ~acc.closed => line.is # "free"
        /\ \A i \in DOMAIN queue : ~(job.kind = "view" /\ queue[i].kind = "view" /\ queue[i].view = job.view)
\* An encoder of an earlier call has a stop behind it.
OldEncoderInv ==
    tc # None =>
        /\ tc.gen <= acc.gen
        /\ (tc.gen # acc.gen \/ line.is = "free") /\ ~acc.closed => \E i \in DOMAIN queue : queue[i].kind = "stop"
\* The lock, its holder and the encoder.
QueueInv(c) == WaitersInv(c) /\ JobInv(c) /\ OldEncoderInv
\* The inductive invariant.
ViewsInv(c) == ViewTypes(c) /\ SessionInv(c) /\ LineInv(c) /\ QueueInv(c)

-----------------------------------------------------------------------------
\* Whoever waits for the encoder still does; whose halves are cut stays so.
Kept(c) == \A u \in c.views : view[u].video \in {"encoder", "none"} => view'[u].video = view[u].video

\* A step that leaves the lock alone, and ends no call, keeps what is known of it.
LEMMA LockStays ==
    ASSUME NEW c, ViewTypes(c), QueueInv(c), UNCHANGED <<queue, job, tc>>, Kept(c),
           acc'.gen = acc.gen, acc.closed => acc'.closed, line'.is = "free" => line.is = "free"
    PROVE  QueueInv(c)'
  <1>1. WaitersInv(c)'
    BY DEF QueueInv, WaitersInv, JobOk, Kept
  <1>2. JobInv(c)'
    BY DEF QueueInv, JobInv, JobOk, Kept
  <1>3. OldEncoderInv'
    BY DEF QueueInv, OldEncoderInv
  <1>4. QED BY <1>1, <1>2, <1>3 DEF QueueInv

\* A step of one session that leaves everything else alone.
LEMMA ViewChanges ==
    ASSUME NEW c, ViewsInv(c), NEW v \in c.views, NEW s \in SessionType,
           view' \in [c.views -> SessionType], view'[v] = s, \A u \in c.views : u # v => view'[u] = view[u],
           UNCHANGED <<line, video, calls, watching, acc, tc, job, queue, encoders, open, lost>>,
           SessionOk(s, v \in watching), OfThisCall(s, acc, line),
           view[v].video \in {"encoder", "none"} => s.video = view[v].video
    PROVE  ViewsInv(c)'
  <1>1. ViewTypes(c)'
    BY DEF ViewsInv, ViewTypes, HeldInv, IsHeld
  <1>2. SessionInv(c)'
    BY DEF ViewsInv, SessionInv
  <1>3. LineInv(c)'
    BY DEF ViewsInv, LineInv, CallBy, Up
  <1>4. Kept(c)
    BY DEF Kept
  <1>5. QueueInv(c)'
    BY <1>4, LockStays DEF ViewsInv
  <1>6. QED BY <1>1, <1>2, <1>3, <1>5 DEF ViewsInv

\* What _close_session makes of session s.
Shut(s, r) ==
    /\ r.stopping /\ r.close = IF s.close = "no" THEN "asked" ELSE s.close
    /\ r.known = s.known /\ r.start = s.start /\ r.starting = s.starting /\ r.ending = s.ending /\ r.video = s.video
    /\ r.audio = s.audio /\ r.has = s.has /\ r.enc = s.enc /\ r.reads = s.reads /\ r.forget = s.forget

\* _close_session asks for the close and changes nothing else.
LEMMA ClosingIs ==
    ASSUME NEW c, NEW s \in SessionType
    PROVE  H(c)!Closing(s) \in SessionType /\ Shut(s, H(c)!Closing(s))
  BY DEF SessionType, Parts, Name, H!Closing, Shut

\* A start that failed is about to close.
LEMMA FailedIs ==
    ASSUME NEW c, NEW s \in SessionType, NEW u, NEW W, SessionOk(s, u \in W), s.starting,
           {s.video, s.audio} \subseteq {"no", "done", "none"}
    PROVE  /\ H(c)!Failed(s) \in SessionType /\ SessionOk(H(c)!Failed(s), u \in W)
           /\ H(c)!Failed(s).stopping /\ H(c)!Failed(s).video = s.video
  <1>. DEFINE r == H(c)!Closing(s)
              y == IF s.stopping THEN "over" ELSE "failed"
              f == [r EXCEPT !.starting = FALSE, !.start = y]
  <1>1. r \in SessionType /\ Shut(s, r)
    BY ClosingIs
  <1>2. H(c)!Failed(s) = f
    BY DEF H!Failed
  <1>0. y \in {"over", "failed"}
    OBVIOUS
  <1>. HIDE DEF r, y
  <1>3. f \in SessionType
    BY <1>0, <1>1 DEF SessionType
  <1>6. /\ f.starting = FALSE /\ f.start = y
        /\ f.known = r.known /\ f.stopping = r.stopping /\ f.close = r.close /\ f.video = r.video
        /\ f.audio = r.audio /\ f.has = r.has /\ f.reads = r.reads
    BY <1>1 DEF SessionType
  <1>. HIDE DEF f
  <1>7. /\ s.close \in {"no", "asked"} /\ s.stopping = (s.close # "no") /\ s.starting
        /\ s.starting = (s.start \in {"hub", "call", "picture", "parts"}) /\ (s.known \/ s.close = "asked")
        /\ u \in W /\ "viewer" \in s.has
    BY DEF SessionType, SessionOk
  <1>4. SessionOk(f, u \in W)
    <2>1. r.stopping /\ r.close \in {"asked"}
      BY <1>1, <1>7 DEF Shut
    <2>2. /\ f.stopping = TRUE /\ f.close = "asked" /\ f.starting = FALSE /\ f.start \in {"over", "failed"}
          /\ f.video = s.video /\ f.audio = s.audio /\ f.has = s.has
      BY <1>0, <1>1, <1>6, <2>1 DEF Shut
    <2>3. f.start \notin {"no", "hub", "call", "picture", "parts"}
      BY <2>2
    <2>4. f.close \notin {"closing", "over", "no"}
      BY <2>2
    <2>5. f.stopping = (f.close # "no") /\ f.starting = (f.start \in {"hub", "call", "picture", "parts"})
      <3>1. (f.close # "no") = TRUE
        BY <2>4
      <3>2. (f.start \in {"hub", "call", "picture", "parts"}) = FALSE
        BY <2>3
      <3>3. f.stopping = TRUE /\ f.starting = FALSE
        BY <2>2
      <3>. QED BY <3>1, <3>2, <3>3
    <2>6. (f.start \in {"failed", "over"} => {f.video, f.audio} \subseteq {"no", "done", "none"})
      BY <2>2
    <2>7. (f.close = "over" => f.has = {} /\ f.reads = None) /\ (f.close \in {"closing", "over"} => ~f.starting)
          /\ (~f.known /\ f.close = "no" => f.start = "no" /\ f.has = {})
          /\ (f.start \in {"no", "hub", "call", "picture"} => f.video = "no" /\ f.audio = "no")
      BY <2>3, <2>4
    <2>8. (u \in W) = ("viewer" \in f.has) /\ (f.starting \/ "proc" \in f.has => u \in W)
      BY <1>7, <2>2
    <2>. QED BY <2>5, <2>6, <2>7, <2>8 DEF SessionOk
  <1>5. f.stopping /\ f.video = s.video
    BY <1>1, <1>6 DEF Shut
  <1>9. QED BY <1>2, <1>3, <1>4, <1>5

\* stop_stream: the close is asked for.
LEMMA PhoneStopsKeeps ==
    ASSUME NEW c, Legal(c), ViewsInv(c), NEW v \in c.views, H(c)!PhoneStops(v)
    PROVE  ViewsInv(c)'
  <1>0. view \in [c.views -> SessionType] /\ view[v] \in SessionType /\ SessionOk(view[v], v \in watching)
      /\ OfThisCall(view[v], acc, line)
    BY DEF ViewsInv, ViewTypes, SessionInv
  <1>. DEFINE r == H(c)!Closing(view[v])
  <1>. DEFINE s == [r EXCEPT !.forget = TRUE]
  <1>1. view' = [view EXCEPT ![v] = s]
    BY <1>0 DEF H!PhoneStops, H!lineVars, H!encoderVars
  <1>8. r \in SessionType /\ Shut(view[v], r)
    BY <1>0, ClosingIs
  <1>. HIDE DEF r
  <1>2. s \in SessionType
    BY <1>8 DEF SessionType, Parts, Name
  <1>3. SessionOk(s, v \in watching)
    BY <1>0, <1>8 DEF SessionType, SessionOk, Shut, H!PhoneStops, H!lineVars, H!encoderVars
  <1>4. OfThisCall(s, acc, line)
    BY <1>0, <1>8 DEF SessionType, SessionOk, OfThisCall, Shut, H!PhoneStops, H!lineVars,
       H!encoderVars
  <1>5. view[v].video \in {"encoder", "none"} => s.video = view[v].video
    BY <1>0, <1>8 DEF SessionType, SessionOk, Shut, H!PhoneStops, H!lineVars, H!encoderVars
  <1>6. UNCHANGED <<line, video, calls, watching, acc, tc, job, queue, encoders, open, lost>>
    BY <1>0 DEF H!PhoneStops, H!lineVars, H!encoderVars
  <1>. HIDE DEF s
  <1>7. /\ view' \in [c.views -> SessionType] /\ view'[v] = s
        /\ \A u \in c.views : u # v => view'[u] = view[u]
    BY <1>0, <1>1, <1>2
  <1>. QED BY <1>2, <1>3, <1>4, <1>5, <1>6, <1>7, ViewChanges

\* _watch sees ffmpeg exit.
LEMMA FfmpegExitsKeeps ==
    ASSUME NEW c, Legal(c), ViewsInv(c), NEW v \in c.views, H(c)!FfmpegExits(v)
    PROVE  ViewsInv(c)'
  <1>0. view \in [c.views -> SessionType] /\ view[v] \in SessionType /\ SessionOk(view[v], v \in watching)
      /\ OfThisCall(view[v], acc, line)
    BY DEF ViewsInv, ViewTypes, SessionInv
  <1>. DEFINE s == [view[v] EXCEPT !.stopping = TRUE, !.close = IF @ = "no" THEN "asked" ELSE @]
  <1>1. view' = [view EXCEPT ![v] = s]
    BY <1>0 DEF H!FfmpegExits, H!lineVars, H!encoderVars, H!Closing
  <1>2. s \in SessionType
    BY <1>0 DEF H!FfmpegExits, H!lineVars, H!encoderVars, H!Closing, SessionType, Parts, Name
  <1>3. SessionOk(s, v \in watching)
    BY <1>0 DEF H!FfmpegExits, H!lineVars, H!encoderVars, H!Closing, SessionType, SessionOk
  <1>4. OfThisCall(s, acc, line)
    BY <1>0 DEF H!FfmpegExits, H!lineVars, H!encoderVars, H!Closing, SessionType, SessionOk,
       OfThisCall
  <1>5. view[v].video \in {"encoder", "none"} => s.video = view[v].video
    BY <1>0 DEF H!FfmpegExits, H!lineVars, H!encoderVars, H!Closing, SessionType, SessionOk
  <1>6. UNCHANGED <<line, video, calls, watching, acc, tc, job, queue, encoders, open, lost>>
    BY <1>0 DEF H!FfmpegExits, H!lineVars, H!encoderVars, H!Closing
  <1>. HIDE DEF s
  <1>7. /\ view' \in [c.views -> SessionType] /\ view'[v] = s
        /\ \A u \in c.views : u # v => view'[u] = view[u]
    BY <1>0, <1>1, <1>2
  <1>. QED BY <1>2, <1>3, <1>4, <1>5, <1>6, <1>7, ViewChanges

\* The task that ends a view as its call ends.
LEMMA EndFromPanelKeeps ==
    ASSUME NEW c, Legal(c), ViewsInv(c), NEW v \in c.views, H(c)!EndFromPanel(v)
    PROVE  ViewsInv(c)'
  <1>0. view \in [c.views -> SessionType] /\ view[v] \in SessionType /\ SessionOk(view[v], v \in watching)
      /\ OfThisCall(view[v], acc, line)
    BY DEF ViewsInv, ViewTypes, SessionInv
  <1>. DEFINE r == H(c)!Closing(view[v])
  <1>. DEFINE s == [r EXCEPT !.ending = FALSE]
  <1>1. view' = [view EXCEPT ![v] = s]
    BY <1>0 DEF H!EndFromPanel, H!lineVars, H!encoderVars
  <1>8. r \in SessionType /\ Shut(view[v], r)
    BY <1>0, ClosingIs
  <1>. HIDE DEF r
  <1>2. s \in SessionType
    BY <1>8 DEF SessionType, Parts, Name
  <1>3. SessionOk(s, v \in watching)
    BY <1>0, <1>8 DEF SessionType, SessionOk, Shut, H!EndFromPanel, H!lineVars, H!encoderVars
  <1>4. OfThisCall(s, acc, line)
    BY <1>0, <1>8 DEF SessionType, SessionOk, OfThisCall, Shut, H!EndFromPanel, H!lineVars,
       H!encoderVars
  <1>5. view[v].video \in {"encoder", "none"} => s.video = view[v].video
    BY <1>0, <1>8 DEF SessionType, SessionOk, Shut, H!EndFromPanel, H!lineVars, H!encoderVars
  <1>6. UNCHANGED <<line, video, calls, watching, acc, tc, job, queue, encoders, open, lost>>
    BY <1>0 DEF H!EndFromPanel, H!lineVars, H!encoderVars
  <1>. HIDE DEF s
  <1>7. /\ view' \in [c.views -> SessionType] /\ view'[v] = s
        /\ \A u \in c.views : u # v => view'[u] = view[u]
    BY <1>0, <1>1, <1>2
  <1>. QED BY <1>2, <1>3, <1>4, <1>5, <1>6, <1>7, ViewChanges

\* _do_close has the lock, since no start holds it.
LEMMA CloseBeginsKeeps ==
    ASSUME NEW c, Legal(c), ViewsInv(c), NEW v \in c.views, H(c)!CloseBegins(v)
    PROVE  ViewsInv(c)'
  <1>0. view \in [c.views -> SessionType] /\ view[v] \in SessionType /\ SessionOk(view[v], v \in watching)
      /\ OfThisCall(view[v], acc, line)
    BY DEF ViewsInv, ViewTypes, SessionInv
  <1>. DEFINE s == [view[v] EXCEPT !.close = "closing"]
  <1>1. view' = [view EXCEPT ![v] = s]
    BY <1>0 DEF H!CloseBegins, H!lineVars, H!encoderVars
  <1>2. s \in SessionType
    BY <1>0 DEF H!CloseBegins, H!lineVars, H!encoderVars, SessionType, Parts, Name
  <1>3. SessionOk(s, v \in watching)
    BY <1>0 DEF H!CloseBegins, H!lineVars, H!encoderVars, SessionType, SessionOk
  <1>4. OfThisCall(s, acc, line)
    BY <1>0 DEF H!CloseBegins, H!lineVars, H!encoderVars, SessionType, SessionOk, OfThisCall
  <1>5. view[v].video \in {"encoder", "none"} => s.video = view[v].video
    BY <1>0 DEF H!CloseBegins, H!lineVars, H!encoderVars, SessionType, SessionOk
  <1>6. UNCHANGED <<line, video, calls, watching, acc, tc, job, queue, encoders, open, lost>>
    BY <1>0 DEF H!CloseBegins, H!lineVars, H!encoderVars
  <1>. HIDE DEF s
  <1>7. /\ view' \in [c.views -> SessionType] /\ view'[v] = s
        /\ \A u \in c.views : u # v => view'[u] = view[u]
    BY <1>0, <1>1, <1>2
  <1>. QED BY <1>2, <1>3, <1>4, <1>5, <1>6, <1>7, ViewChanges

\* pyhap drops a session that is closed.
LEMMA ForgetsKeeps ==
    ASSUME NEW c, Legal(c), ViewsInv(c), NEW v \in c.views, H(c)!Forgets(v)
    PROVE  ViewsInv(c)'
  <1>0. view \in [c.views -> SessionType] /\ view[v] \in SessionType /\ SessionOk(view[v], v \in watching)
      /\ OfThisCall(view[v], acc, line)
    BY DEF ViewsInv, ViewTypes, SessionInv
  <1>. DEFINE s == [view[v] EXCEPT !.known = FALSE, !.start = "over"]
  <1>1. view' = [view EXCEPT ![v] = s]
    BY <1>0 DEF H!Forgets, H!lineVars, H!encoderVars
  <1>2. s \in SessionType
    BY <1>0 DEF H!Forgets, H!lineVars, H!encoderVars, SessionType, Parts, Name
  <1>3. SessionOk(s, v \in watching)
    BY <1>0 DEF H!Forgets, H!lineVars, H!encoderVars, SessionType, SessionOk
  <1>4. OfThisCall(s, acc, line)
    BY <1>0 DEF H!Forgets, H!lineVars, H!encoderVars, SessionType, SessionOk, OfThisCall
  <1>5. view[v].video \in {"encoder", "none"} => s.video = view[v].video
    BY <1>0 DEF H!Forgets, H!lineVars, H!encoderVars, SessionType, SessionOk
  <1>6. UNCHANGED <<line, video, calls, watching, acc, tc, job, queue, encoders, open, lost>>
    BY <1>0 DEF H!Forgets, H!lineVars, H!encoderVars
  <1>. HIDE DEF s
  <1>7. /\ view' \in [c.views -> SessionType] /\ view'[v] = s
        /\ \A u \in c.views : u # v => view'[u] = view[u]
    BY <1>0, <1>1, <1>2
  <1>. QED BY <1>2, <1>3, <1>4, <1>5, <1>6, <1>7, ViewChanges

\* The bridge of the audio is up.
LEMMA BridgeUpKeeps ==
    ASSUME NEW c, Legal(c), ViewsInv(c), NEW v \in c.views, H(c)!BridgeUp(v)
    PROVE  ViewsInv(c)'
  <1>0. view \in [c.views -> SessionType] /\ view[v] \in SessionType /\ SessionOk(view[v], v \in watching)
      /\ OfThisCall(view[v], acc, line)
    BY DEF ViewsInv, ViewTypes, SessionInv
  <1>. DEFINE s == [view[v] EXCEPT !.audio = IF view[v].stopping THEN "none" ELSE "ffmpeg"]
  <1>1. view' = [view EXCEPT ![v] = s]
    BY <1>0 DEF H!BridgeUp, H!lineVars, H!encoderVars
  <1>2. s \in SessionType
    BY <1>0 DEF H!BridgeUp, H!lineVars, H!encoderVars, SessionType, Parts, Name
  <1>3. SessionOk(s, v \in watching)
    BY <1>0 DEF H!BridgeUp, H!lineVars, H!encoderVars, SessionType, SessionOk
  <1>4. OfThisCall(s, acc, line)
    BY <1>0 DEF H!BridgeUp, H!lineVars, H!encoderVars, SessionType, SessionOk, OfThisCall
  <1>5. view[v].video \in {"encoder", "none"} => s.video = view[v].video
    BY <1>0 DEF H!BridgeUp, H!lineVars, H!encoderVars, SessionType, SessionOk
  <1>6. UNCHANGED <<line, video, calls, watching, acc, tc, job, queue, encoders, open, lost>>
    BY <1>0 DEF H!BridgeUp, H!lineVars, H!encoderVars
  <1>. HIDE DEF s
  <1>7. /\ view' \in [c.views -> SessionType] /\ view'[v] = s
        /\ \A u \in c.views : u # v => view'[u] = view[u]
    BY <1>0, <1>1, <1>2
  <1>. QED BY <1>2, <1>3, <1>4, <1>5, <1>6, <1>7, ViewChanges

\* The tap is made, and the bridge unless the view closes.
LEMMA TapMadeKeeps ==
    ASSUME NEW c, Legal(c), ViewsInv(c), NEW v \in c.views, H(c)!TapMade(v)
    PROVE  ViewsInv(c)'
  <1>0. view \in [c.views -> SessionType] /\ view[v] \in SessionType /\ SessionOk(view[v], v \in watching)
      /\ OfThisCall(view[v], acc, line)
    BY DEF ViewsInv, ViewTypes, SessionInv
  <1>. DEFINE s == [view[v] EXCEPT !.audio = IF view[v].stopping THEN "none" ELSE "bridge",
                     !.has = @ \cup IF view[v].stopping THEN {"tap"} ELSE {"tap", "bridge"}]
  <1>1. view' = [view EXCEPT ![v] = s]
    BY <1>0 DEF H!TapMade, H!lineVars, H!encoderVars
  <1>2. s \in SessionType
    BY <1>0 DEF H!TapMade, H!lineVars, H!encoderVars, SessionType, Parts, Name
  <1>3. SessionOk(s, v \in watching)
    BY <1>0 DEF H!TapMade, H!lineVars, H!encoderVars, SessionType, SessionOk
  <1>4. OfThisCall(s, acc, line)
    BY <1>0 DEF H!TapMade, H!lineVars, H!encoderVars, SessionType, SessionOk, OfThisCall
  <1>5. view[v].video \in {"encoder", "none"} => s.video = view[v].video
    BY <1>0 DEF H!TapMade, H!lineVars, H!encoderVars, SessionType, SessionOk
  <1>6. UNCHANGED <<line, video, calls, watching, acc, tc, job, queue, encoders, open, lost>>
    BY <1>0 DEF H!TapMade, H!lineVars, H!encoderVars
  <1>. HIDE DEF s
  <1>7. /\ view' \in [c.views -> SessionType] /\ view'[v] = s
        /\ \A u \in c.views : u # v => view'[u] = view[u]
    BY <1>0, <1>1, <1>2
  <1>. QED BY <1>2, <1>3, <1>4, <1>5, <1>6, <1>7, ViewChanges

\* ffmpeg runs, or does not.
LEMMA FfmpegUpKeeps ==
    ASSUME NEW c, Legal(c), ViewsInv(c), NEW v \in c.views, H(c)!FfmpegUp(v)
    PROVE  ViewsInv(c)'
  <1>0. view \in [c.views -> SessionType] /\ view[v] \in SessionType /\ SessionOk(view[v], v \in watching)
      /\ OfThisCall(view[v], acc, line)
    BY DEF ViewsInv, ViewTypes, SessionInv
  <1>1. CASE view' = [view EXCEPT ![v].audio = "done", ![v].has = @ \cup {"proc"}]
    <2>. DEFINE s == [view[v] EXCEPT !.audio = "done", !.has = @ \cup {"proc"}]
    <2>1. view' = [view EXCEPT ![v] = s]
      BY <1>0, <1>1 DEF H!FfmpegUp, H!lineVars, H!encoderVars
    <2>2. s \in SessionType
      BY <1>0, <1>1 DEF H!FfmpegUp, H!lineVars, H!encoderVars, SessionType, Parts, Name
    <2>3. SessionOk(s, v \in watching)
      BY <1>0, <1>1 DEF H!FfmpegUp, H!lineVars, H!encoderVars, SessionType, SessionOk
    <2>4. OfThisCall(s, acc, line)
      BY <1>0, <1>1 DEF H!FfmpegUp, H!lineVars, H!encoderVars, SessionType, SessionOk, OfThisCall
    <2>5. view[v].video \in {"encoder", "none"} => s.video = view[v].video
      BY <1>0, <1>1 DEF H!FfmpegUp, H!lineVars, H!encoderVars, SessionType, SessionOk
    <2>6. UNCHANGED <<line, video, calls, watching, acc, tc, job, queue, encoders, open, lost>>
      BY <1>0, <1>1 DEF H!FfmpegUp, H!lineVars, H!encoderVars
    <2>. HIDE DEF s
    <2>7. /\ view' \in [c.views -> SessionType] /\ view'[v] = s
          /\ \A u \in c.views : u # v => view'[u] = view[u]
      BY <1>0, <2>1, <2>2
    <2>. QED BY <2>2, <2>3, <2>4, <2>5, <2>6, <2>7, ViewChanges
  <1>2. CASE view' = [view EXCEPT ![v].audio = "none"]
    <2>. DEFINE s == [view[v] EXCEPT !.audio = "none"]
    <2>1. view' = [view EXCEPT ![v] = s]
      BY <1>0, <1>2 DEF H!FfmpegUp, H!lineVars, H!encoderVars
    <2>2. s \in SessionType
      BY <1>0, <1>2 DEF H!FfmpegUp, H!lineVars, H!encoderVars, SessionType, Parts, Name
    <2>3. SessionOk(s, v \in watching)
      BY <1>0, <1>2 DEF H!FfmpegUp, H!lineVars, H!encoderVars, SessionType, SessionOk
    <2>4. OfThisCall(s, acc, line)
      BY <1>0, <1>2 DEF H!FfmpegUp, H!lineVars, H!encoderVars, SessionType, SessionOk, OfThisCall
    <2>5. view[v].video \in {"encoder", "none"} => s.video = view[v].video
      BY <1>0, <1>2 DEF H!FfmpegUp, H!lineVars, H!encoderVars, SessionType, SessionOk
    <2>6. UNCHANGED <<line, video, calls, watching, acc, tc, job, queue, encoders, open, lost>>
      BY <1>0, <1>2 DEF H!FfmpegUp, H!lineVars, H!encoderVars
    <2>. HIDE DEF s
    <2>7. /\ view' \in [c.views -> SessionType] /\ view'[v] = s
          /\ \A u \in c.views : u # v => view'[u] = view[u]
      BY <1>0, <2>1, <2>2
    <2>. QED BY <2>2, <2>3, <2>4, <2>5, <2>6, <2>7, ViewChanges
  <1>. QED BY <1>0, <1>1, <1>2 DEF H!FfmpegUp, H!lineVars, H!encoderVars

\* Both halves are through: the start is over, or it failed.
LEMMA OpenedKeeps ==
    ASSUME NEW c, Legal(c), ViewsInv(c), NEW v \in c.views, H(c)!Opened(v)
    PROVE  ViewsInv(c)'
  <1>0. view \in [c.views -> SessionType] /\ view[v] \in SessionType /\ SessionOk(view[v], v \in watching)
      /\ OfThisCall(view[v], acc, line)
    BY DEF ViewsInv, ViewTypes, SessionInv
  <1>1. CASE "none" \in {view[v].video, view[v].audio} \/ view[v].stopping
    <2>. DEFINE s == H(c)!Failed(view[v])
    <2>1. view' = [view EXCEPT ![v] = s]
      BY <1>0, <1>1 DEF H!Opened, H!lineVars, H!encoderVars, H!Fails
    <2>0. view[v].starting /\ {view[v].video, view[v].audio} \subseteq {"no", "done", "none"}
      BY <1>0, <1>1 DEF H!Opened, H!lineVars, H!encoderVars, H!Fails, SessionOk
    <2>2. s \in SessionType /\ s.stopping
      BY <1>0, <2>0, FailedIs
    <2>3. SessionOk(s, v \in watching)
      BY <1>0, <2>0, FailedIs
    <2>4. OfThisCall(s, acc, line)
      BY <2>2 DEF OfThisCall
    <2>5. view[v].video \in {"encoder", "none"} => s.video = view[v].video
      BY <1>0, <2>0, FailedIs
    <2>6. UNCHANGED <<line, video, calls, watching, acc, tc, job, queue, encoders, open, lost>>
      BY <1>0, <1>1 DEF H!Opened, H!lineVars, H!encoderVars, H!Fails
    <2>. HIDE DEF s
    <2>7. /\ view' \in [c.views -> SessionType] /\ view'[v] = s
          /\ \A u \in c.views : u # v => view'[u] = view[u]
      BY <1>0, <2>1, <2>2
    <2>. QED BY <2>2, <2>3, <2>4, <2>5, <2>6, <2>7, ViewChanges
  <1>2. CASE ~("none" \in {view[v].video, view[v].audio} \/ view[v].stopping)
    <2>. DEFINE s == [view[v] EXCEPT !.start = "over", !.starting = FALSE]
    <2>1. view' = [view EXCEPT ![v] = s]
      BY <1>0, <1>2 DEF H!Opened, H!lineVars, H!encoderVars, H!Fails
    <2>2. s \in SessionType
      BY <1>0, <1>2 DEF H!Opened, H!lineVars, H!encoderVars, H!Fails, SessionType, Parts, Name
    <2>3. SessionOk(s, v \in watching)
      BY <1>0, <1>2 DEF H!Opened, H!lineVars, H!encoderVars, H!Fails, SessionType, SessionOk
    <2>4. OfThisCall(s, acc, line)
      BY <1>0, <1>2 DEF H!Opened, H!lineVars, H!encoderVars, H!Fails, SessionType, SessionOk,
         OfThisCall
    <2>5. view[v].video \in {"encoder", "none"} => s.video = view[v].video
      BY <1>0, <1>2 DEF H!Opened, H!lineVars, H!encoderVars, H!Fails, SessionType, SessionOk
    <2>6. UNCHANGED <<line, video, calls, watching, acc, tc, job, queue, encoders, open, lost>>
      BY <1>0, <1>2 DEF H!Opened, H!lineVars, H!encoderVars, H!Fails
    <2>. HIDE DEF s
    <2>7. /\ view' \in [c.views -> SessionType] /\ view'[v] = s
          /\ \A u \in c.views : u # v => view'[u] = view[u]
      BY <1>0, <2>1, <2>2
    <2>. QED BY <2>2, <2>3, <2>4, <2>5, <2>6, <2>7, ViewChanges
  <1>. QED BY <1>0, <1>1, <1>2 DEF H!Opened, H!lineVars, H!encoderVars, H!Fails

\* The halves of a start begin, with packets or without.
LEMMA PictureSeenKeeps ==
    ASSUME NEW c, Legal(c), ViewsInv(c), NEW v \in c.views, H(c)!PictureSeen(v)
    PROVE  ViewsInv(c)'
  <1>0. view \in [c.views -> SessionType] /\ view[v] \in SessionType /\ SessionOk(view[v], v \in watching)
      /\ OfThisCall(view[v], acc, line)
    BY DEF ViewsInv, ViewTypes, SessionInv
  <1>1. CASE view[v].stopping
    <2>. DEFINE s == H(c)!Failed(view[v])
    <2>1. view' = [view EXCEPT ![v] = s]
      BY <1>0, <1>1 DEF H!PictureSeen, H!lineVars, H!encoderVars, H!Fails
    <2>0. view[v].starting /\ {view[v].video, view[v].audio} \subseteq {"no", "done", "none"}
      BY <1>0, <1>1 DEF H!PictureSeen, H!lineVars, H!encoderVars, H!Fails, SessionOk
    <2>2. s \in SessionType /\ s.stopping
      BY <1>0, <2>0, FailedIs
    <2>3. SessionOk(s, v \in watching)
      BY <1>0, <2>0, FailedIs
    <2>4. OfThisCall(s, acc, line)
      BY <2>2 DEF OfThisCall
    <2>5. view[v].video \in {"encoder", "none"} => s.video = view[v].video
      BY <1>0, <2>0, FailedIs
    <2>6. UNCHANGED <<line, video, calls, watching, acc, tc, job, queue, encoders, open, lost>>
      BY <1>0, <1>1 DEF H!PictureSeen, H!lineVars, H!encoderVars, H!Fails
    <2>. HIDE DEF s
    <2>7. /\ view' \in [c.views -> SessionType] /\ view'[v] = s
          /\ \A u \in c.views : u # v => view'[u] = view[u]
      BY <1>0, <2>1, <2>2
    <2>. QED BY <2>2, <2>3, <2>4, <2>5, <2>6, <2>7, ViewChanges
  <1>2. CASE ~view[v].stopping /\ video
    <2>. DEFINE s == [view[v] EXCEPT !.start = "parts", !.audio = "tap", !.video = "opening", !.has = @ \cup {"video"}]
    <2>1. view' = [view EXCEPT ![v] = s]
      BY <1>0, <1>2 DEF H!PictureSeen, H!lineVars, H!encoderVars, H!Fails
    <2>2. s \in SessionType
      BY <1>0, <1>2 DEF H!PictureSeen, H!lineVars, H!encoderVars, H!Fails, SessionType, Parts, Name
    <2>3. SessionOk(s, v \in watching)
      BY <1>0, <1>2 DEF H!PictureSeen, H!lineVars, H!encoderVars, H!Fails, SessionType, SessionOk
    <2>4. OfThisCall(s, acc, line)
      BY <1>0, <1>2 DEF H!PictureSeen, H!lineVars, H!encoderVars, H!Fails, SessionType, SessionOk,
         OfThisCall
    <2>5. view[v].video \in {"encoder", "none"} => s.video = view[v].video
      BY <1>0, <1>2 DEF H!PictureSeen, H!lineVars, H!encoderVars, H!Fails, SessionType, SessionOk
    <2>6. UNCHANGED <<line, video, calls, watching, acc, tc, job, queue, encoders, open, lost>>
      BY <1>0, <1>2 DEF H!PictureSeen, H!lineVars, H!encoderVars, H!Fails
    <2>. HIDE DEF s
    <2>7. /\ view' \in [c.views -> SessionType] /\ view'[v] = s
          /\ \A u \in c.views : u # v => view'[u] = view[u]
      BY <1>0, <2>1, <2>2
    <2>. QED BY <2>2, <2>3, <2>4, <2>5, <2>6, <2>7, ViewChanges
  <1>3. CASE ~view[v].stopping /\ ~video
    <2>. DEFINE s == [view[v] EXCEPT !.start = "parts", !.audio = "tap", !.video = "done", !.has = @ \ {"v_sock"}]
    <2>1. view' = [view EXCEPT ![v] = s]
      BY <1>0, <1>3 DEF H!PictureSeen, H!lineVars, H!encoderVars, H!Fails
    <2>2. s \in SessionType
      BY <1>0, <1>3 DEF H!PictureSeen, H!lineVars, H!encoderVars, H!Fails, SessionType, Parts, Name
    <2>3. SessionOk(s, v \in watching)
      BY <1>0, <1>3 DEF H!PictureSeen, H!lineVars, H!encoderVars, H!Fails, SessionType, SessionOk
    <2>4. OfThisCall(s, acc, line)
      BY <1>0, <1>3 DEF H!PictureSeen, H!lineVars, H!encoderVars, H!Fails, SessionType, SessionOk,
         OfThisCall
    <2>5. view[v].video \in {"encoder", "none"} => s.video = view[v].video
      BY <1>0, <1>3 DEF H!PictureSeen, H!lineVars, H!encoderVars, H!Fails, SessionType, SessionOk
    <2>6. UNCHANGED <<line, video, calls, watching, acc, tc, job, queue, encoders, open, lost>>
      BY <1>0, <1>3 DEF H!PictureSeen, H!lineVars, H!encoderVars, H!Fails
    <2>. HIDE DEF s
    <2>7. /\ view' \in [c.views -> SessionType] /\ view'[v] = s
          /\ \A u \in c.views : u # v => view'[u] = view[u]
      BY <1>0, <2>1, <2>2
    <2>. QED BY <2>2, <2>3, <2>4, <2>5, <2>6, <2>7, ViewChanges
  <1>. QED BY <1>0, <1>1, <1>2, <1>3 DEF H!PictureSeen, H!lineVars, H!encoderVars, H!Fails

\* A view takes the panel's own packets.
LEMMA GroupSentKeeps ==
    ASSUME NEW c, Legal(c), ViewsInv(c), NEW v \in c.views, H(c)!GroupSent(v)
    PROVE  ViewsInv(c)'
  <1>0. view \in [c.views -> SessionType] /\ view[v] \in SessionType /\ SessionOk(view[v], v \in watching)
      /\ OfThisCall(view[v], acc, line)
    BY DEF ViewsInv, ViewTypes, SessionInv
  <1>1. CASE view[v].stopping /\ view' = [view EXCEPT ![v].video = "none"]
    <2>. DEFINE s == [view[v] EXCEPT !.video = "none"]
    <2>1. view' = [view EXCEPT ![v] = s]
      BY <1>0, <1>1 DEF H!GroupSent, H!lineVars, H!encoderVars, H!Reads, H!Panel
    <2>2. s \in SessionType
      BY <1>0, <1>1 DEF H!GroupSent, H!lineVars, H!encoderVars, H!Reads, H!Panel, SessionType,
         Parts, Name
    <2>3. SessionOk(s, v \in watching)
      BY <1>0, <1>1 DEF H!GroupSent, H!lineVars, H!encoderVars, H!Reads, H!Panel, SessionType,
         SessionOk
    <2>4. OfThisCall(s, acc, line)
      BY <1>0, <1>1 DEF H!GroupSent, H!lineVars, H!encoderVars, H!Reads, H!Panel, SessionType,
         SessionOk, OfThisCall
    <2>5. view[v].video \in {"encoder", "none"} => s.video = view[v].video
      BY <1>0, <1>1 DEF H!GroupSent, H!lineVars, H!encoderVars, H!Reads, H!Panel, SessionType,
         SessionOk
    <2>6. UNCHANGED <<line, video, calls, watching, acc, tc, job, queue, encoders, open, lost>>
      BY <1>0, <1>1 DEF H!GroupSent, H!lineVars, H!encoderVars, H!Reads, H!Panel
    <2>. HIDE DEF s
    <2>7. /\ view' \in [c.views -> SessionType] /\ view'[v] = s
          /\ \A u \in c.views : u # v => view'[u] = view[u]
      BY <1>0, <2>1, <2>2
    <2>. QED BY <2>2, <2>3, <2>4, <2>5, <2>6, <2>7, ViewChanges
  <1>2. CASE H(c)!Reads(v, H(c)!Panel)
    <2>. DEFINE s == [view[v] EXCEPT !.video = "done", !.reads = [id |-> 0, gen |-> 0], !.has = @ \cup {"sink"}]
    <2>1. view' = [view EXCEPT ![v] = s]
      BY <1>0, <1>2 DEF H!GroupSent, H!lineVars, H!encoderVars, H!Reads, H!Panel
    <2>2. s \in SessionType
      BY <1>0, <1>2 DEF H!GroupSent, H!lineVars, H!encoderVars, H!Reads, H!Panel, SessionType,
         Parts, Name
    <2>3. SessionOk(s, v \in watching)
      BY <1>0, <1>2 DEF H!GroupSent, H!lineVars, H!encoderVars, H!Reads, H!Panel, SessionType,
         SessionOk
    <2>4. OfThisCall(s, acc, line)
      BY <1>0, <1>2 DEF H!GroupSent, H!lineVars, H!encoderVars, H!Reads, H!Panel, SessionType,
         SessionOk, OfThisCall
    <2>5. view[v].video \in {"encoder", "none"} => s.video = view[v].video
      BY <1>0, <1>2 DEF H!GroupSent, H!lineVars, H!encoderVars, H!Reads, H!Panel, SessionType,
         SessionOk
    <2>6. UNCHANGED <<line, video, calls, watching, acc, tc, job, queue, encoders, open, lost>>
      BY <1>0, <1>2 DEF H!GroupSent, H!lineVars, H!encoderVars, H!Reads, H!Panel
    <2>. HIDE DEF s
    <2>7. /\ view' \in [c.views -> SessionType] /\ view'[v] = s
          /\ \A u \in c.views : u # v => view'[u] = view[u]
      BY <1>0, <2>1, <2>2
    <2>. QED BY <2>2, <2>3, <2>4, <2>5, <2>6, <2>7, ViewChanges
  <1>. QED BY <1>0, <1>1, <1>2 DEF H!GroupSent, H!lineVars, H!encoderVars, H!Reads, H!Panel

\* A view reads the encoder it was told: it is of this call, or its end is on its way.
LEMMA KeyframeSeenKeeps ==
    ASSUME NEW c, Legal(c), ViewsInv(c), NEW v \in c.views, H(c)!KeyframeSeen(v)
    PROVE  ViewsInv(c)'
  <1>0. view \in [c.views -> SessionType] /\ view[v] \in SessionType /\ SessionOk(view[v], v \in watching)
      /\ OfThisCall(view[v], acc, line)
    BY DEF ViewsInv, ViewTypes, SessionInv
  <1>1. CASE view[v].stopping /\ view' = [view EXCEPT ![v].video = "none"]
    <2>. DEFINE s == [view[v] EXCEPT !.video = "none"]
    <2>1. view' = [view EXCEPT ![v] = s]
      BY <1>0, <1>1 DEF H!KeyframeSeen, H!lineVars, H!encoderVars, H!Reads, H!Panel
    <2>2. s \in SessionType
      BY <1>0, <1>1 DEF H!KeyframeSeen, H!lineVars, H!encoderVars, H!Reads, H!Panel, SessionType,
         Parts, Name
    <2>3. SessionOk(s, v \in watching)
      BY <1>0, <1>1 DEF H!KeyframeSeen, H!lineVars, H!encoderVars, H!Reads, H!Panel, SessionType,
         SessionOk
    <2>4. OfThisCall(s, acc, line)
      BY <1>0, <1>1 DEF H!KeyframeSeen, H!lineVars, H!encoderVars, H!Reads, H!Panel, SessionType,
         SessionOk, OfThisCall
    <2>5. view[v].video \in {"encoder", "none"} => s.video = view[v].video
      BY <1>0, <1>1 DEF H!KeyframeSeen, H!lineVars, H!encoderVars, H!Reads, H!Panel, SessionType,
         SessionOk
    <2>6. UNCHANGED <<line, video, calls, watching, acc, tc, job, queue, encoders, open, lost>>
      BY <1>0, <1>1 DEF H!KeyframeSeen, H!lineVars, H!encoderVars, H!Reads, H!Panel
    <2>. HIDE DEF s
    <2>7. /\ view' \in [c.views -> SessionType] /\ view'[v] = s
          /\ \A u \in c.views : u # v => view'[u] = view[u]
      BY <1>0, <2>1, <2>2
    <2>. QED BY <2>2, <2>3, <2>4, <2>5, <2>6, <2>7, ViewChanges
  <1>2. CASE H(c)!Reads(v, view[v].enc)
    <2>. DEFINE s == [view[v] EXCEPT !.video = "done", !.reads = view[v].enc, !.has = @ \cup {"sink"}]
    <2>1. view' = [view EXCEPT ![v] = s]
      BY <1>0, <1>2 DEF H!KeyframeSeen, H!lineVars, H!encoderVars, H!Reads, H!Panel
    <2>2. s \in SessionType
      BY <1>0, <1>2 DEF H!KeyframeSeen, H!lineVars, H!encoderVars, H!Reads, H!Panel, SessionType,
         Parts, Name
    <2>3. SessionOk(s, v \in watching)
      BY <1>0, <1>2 DEF H!KeyframeSeen, H!lineVars, H!encoderVars, H!Reads, H!Panel, SessionType,
         SessionOk
    <2>4. OfThisCall(s, acc, line)
      BY <1>0, <1>2 DEF H!KeyframeSeen, H!lineVars, H!encoderVars, H!Reads, H!Panel, SessionType,
         SessionOk, OfThisCall
    <2>5. view[v].video \in {"encoder", "none"} => s.video = view[v].video
      BY <1>0, <1>2 DEF H!KeyframeSeen, H!lineVars, H!encoderVars, H!Reads, H!Panel, SessionType,
         SessionOk
    <2>6. UNCHANGED <<line, video, calls, watching, acc, tc, job, queue, encoders, open, lost>>
      BY <1>0, <1>2 DEF H!KeyframeSeen, H!lineVars, H!encoderVars, H!Reads, H!Panel
    <2>. HIDE DEF s
    <2>7. /\ view' \in [c.views -> SessionType] /\ view'[v] = s
          /\ \A u \in c.views : u # v => view'[u] = view[u]
      BY <1>0, <2>1, <2>2
    <2>. QED BY <2>2, <2>3, <2>4, <2>5, <2>6, <2>7, ViewChanges
  <1>3. CASE view' = [view EXCEPT ![v].video = "group"]
    <2>. DEFINE s == [view[v] EXCEPT !.video = "group"]
    <2>1. view' = [view EXCEPT ![v] = s]
      BY <1>0, <1>3 DEF H!KeyframeSeen, H!lineVars, H!encoderVars, H!Reads, H!Panel
    <2>2. s \in SessionType
      BY <1>0, <1>3 DEF H!KeyframeSeen, H!lineVars, H!encoderVars, H!Reads, H!Panel, SessionType,
         Parts, Name
    <2>3. SessionOk(s, v \in watching)
      BY <1>0, <1>3 DEF H!KeyframeSeen, H!lineVars, H!encoderVars, H!Reads, H!Panel, SessionType,
         SessionOk
    <2>4. OfThisCall(s, acc, line)
      BY <1>0, <1>3 DEF H!KeyframeSeen, H!lineVars, H!encoderVars, H!Reads, H!Panel, SessionType,
         SessionOk, OfThisCall
    <2>5. view[v].video \in {"encoder", "none"} => s.video = view[v].video
      BY <1>0, <1>3 DEF H!KeyframeSeen, H!lineVars, H!encoderVars, H!Reads, H!Panel, SessionType,
         SessionOk
    <2>6. UNCHANGED <<line, video, calls, watching, acc, tc, job, queue, encoders, open, lost>>
      BY <1>0, <1>3 DEF H!KeyframeSeen, H!lineVars, H!encoderVars, H!Reads, H!Panel
    <2>. HIDE DEF s
    <2>7. /\ view' \in [c.views -> SessionType] /\ view'[v] = s
          /\ \A u \in c.views : u # v => view'[u] = view[u]
      BY <1>0, <2>1, <2>2
    <2>. QED BY <2>2, <2>3, <2>4, <2>5, <2>6, <2>7, ViewChanges
  <1>. QED BY <1>0, <1>1, <1>2, <1>3 DEF H!KeyframeSeen, H!lineVars, H!encoderVars, H!Reads, H!Panel

\* Somebody joins those who wait for the lock: nobody who waits already; and a call that ends
\* leaves a stop behind.
LEMMA Joins ==
    ASSUME NEW c, ViewTypes(c), QueueInv(c), Kept(c), NEW j \in JobType(c.views), j.step = "waits", j = H(c)!Job(j.kind, j.view),
           queue' = Append(queue, j), UNCHANGED <<job, tc>>, JobOk(c, view', j),
           j.kind = "view" => /\ \A i \in DOMAIN queue : queue[i].kind = "view" => queue[i].view # j.view
                              /\ job # None /\ job.kind = "view" => job.view # j.view,
           acc.gen \in Nat, acc.closed => acc'.closed,
           \/ acc'.gen = acc.gen /\ (line'.is = "free" /\ ~acc'.closed => line.is = "free")
           \/ acc'.gen = acc.gen + 1 /\ j.kind = "stop"
    PROVE  queue' \in Seq(JobType(c.views)) /\ QueueInv(c)'
  <1>. DEFINE S == JobType(c.views)
              n == Len(queue)
  <1>0. queue \in Seq(S) /\ j \in S
    BY DEF ViewTypes
  <1>. HIDE DEF S
  <1>1. /\ queue' \in Seq(S) /\ n \in Nat /\ DOMAIN queue = 1..n /\ DOMAIN queue' = 1..(n + 1)
        /\ queue'[n + 1] = j /\ \A i \in 1..n : queue'[i] = queue[i]
    BY <1>0, AppendFacts
  <1>2. \A i \in DOMAIN queue' : i \in DOMAIN queue \/ i = n + 1
    BY <1>1
  <1>. HIDE DEF n
  <1>3. \A i \in DOMAIN queue' : /\ queue'[i].step = "waits" /\ queue'[i] = H(c)!Job(queue'[i].kind, queue'[i].view)
                                 /\ JobOk(c, view', queue'[i])
    <2>1. SUFFICES ASSUME NEW i \in DOMAIN queue
                   PROVE  /\ queue'[i].step = "waits" /\ queue'[i] = H(c)!Job(queue'[i].kind, queue'[i].view)
                          /\ JobOk(c, view', queue'[i])
      BY <1>1, <1>2
    <2>2. queue'[i] = queue[i]
      BY <1>1
    <2>. QED BY <2>2 DEF QueueInv, WaitersInv, JobOk, Kept
  <1>4. \A i, k \in DOMAIN queue' :
          queue'[i].kind = "view" /\ queue'[k].kind = "view" /\ queue'[i].view = queue'[k].view => i = k
    <2>1. SUFFICES ASSUME NEW i \in DOMAIN queue', NEW k \in DOMAIN queue', queue'[i].kind = "view",
                          queue'[k].kind = "view", queue'[i].view = queue'[k].view, i # k
                   PROVE  FALSE
      OBVIOUS
    <2>2. CASE i \in DOMAIN queue /\ k \in DOMAIN queue
      <3>1. queue'[i] = queue[i] /\ queue'[k] = queue[k]
        BY <1>1, <2>2
      <3>. QED BY <2>1, <2>2, <3>1 DEF QueueInv, WaitersInv
    <2>3. CASE i \in DOMAIN queue /\ k = n + 1
      <3>1. queue'[i] = queue[i] /\ queue'[k] = j
        BY <1>1, <2>3
      <3>. QED BY <2>1, <2>3, <3>1
    <2>4. CASE i = n + 1 /\ k \in DOMAIN queue
      <3>1. queue'[i] = j /\ queue'[k] = queue[k]
        BY <1>1, <2>4
      <3>. QED BY <2>1, <2>4, <3>1
    <2>. QED BY <1>2, <2>1, <2>2, <2>3, <2>4
  <1>5. WaitersInv(c)'
    BY <1>3, <1>4 DEF WaitersInv
  <1>6. JobInv(c)'
    <2>1. SUFFICES ASSUME job # None PROVE JobInv(c)'
      BY DEF JobInv
    <2>2. /\ job.step # "waits" /\ job.gen \in Nat /\ job.gen <= acc.gen /\ JobOk(c, view, job)
          /\ job.step \in {"launch", "start"} => job.kind # "stop"
          /\ job.step = "start" => /\ job.enc \in EncoderType /\ job.enc.gen = job.gen
                                   /\ job.gen = acc.gen /\ ~acc.closed => line.is # "free"
          /\ \A i \in DOMAIN queue : ~(job.kind = "view" /\ queue[i].kind = "view" /\ queue[i].view = job.view)
      BY <2>1 DEF QueueInv, JobInv
    <2>3. job.gen <= acc'.gen /\ (job.gen = acc'.gen => acc'.gen = acc.gen)
      BY <2>2
    <2>4. JobOk(c, view', job)
      BY <2>2 DEF JobOk, Kept
    <2>5. job.step = "start" => (job.gen = acc'.gen /\ ~acc'.closed => line'.is # "free")
      BY <2>2, <2>3
    <2>6. \A i \in DOMAIN queue' : ~(job.kind = "view" /\ queue'[i].kind = "view" /\ queue'[i].view = job.view)
      <3>1. SUFFICES ASSUME NEW i \in DOMAIN queue', job.kind = "view", queue'[i].kind = "view", queue'[i].view = job.view
                     PROVE  FALSE
        OBVIOUS
      <3>2. CASE i \in DOMAIN queue
        <4>1. queue'[i] = queue[i]
          BY <1>1, <3>2
        <4>. QED BY <2>2, <3>1, <3>2, <4>1
      <3>3. CASE i = n + 1
        BY <1>1, <2>1, <3>1, <3>3
      <3>. QED BY <1>2, <3>2, <3>3
    <2>. QED BY <2>2, <2>3, <2>4, <2>5, <2>6 DEF JobInv
  <1>7. OldEncoderInv'
    <2>1. n + 1 \in DOMAIN queue' /\ \A i \in DOMAIN queue : i \in DOMAIN queue' /\ queue'[i] = queue[i]
      BY <1>1
    <2>2. CASE acc'.gen = acc.gen /\ (line'.is = "free" /\ ~acc'.closed => line.is = "free")
      BY <2>1, <2>2 DEF QueueInv, OldEncoderInv
    <2>3. CASE acc'.gen = acc.gen + 1 /\ j.kind = "stop"
      <3>1. tc # None => tc.gen <= acc.gen
        BY DEF QueueInv, OldEncoderInv
      <3>2. tc # None => tc.gen <= acc'.gen
        <4>1. SUFFICES ASSUME tc # None PROVE tc.gen <= acc'.gen
          OBVIOUS
        <4>2. tc.gen \in Nat
          BY <4>1 DEF ViewTypes, EncoderType
        <4>. QED BY <2>3, <3>1, <4>1, <4>2
      <3>3. \E i \in DOMAIN queue' : queue'[i].kind = "stop"
        BY <1>1, <2>1, <2>3
      <3>. QED BY <3>2, <3>3 DEF OldEncoderInv
    <2>. QED BY <2>2, <2>3
  <1>. QED BY <1>1, <1>5, <1>6, <1>7 DEF QueueInv, S

\* But for the view of job j, whose session goes on.
KeptBut(c, j) ==
    \A u \in c.views : view[u].video \in {"encoder", "none"} /\ ~(j.kind = "view" /\ u = j.view)
                          => view'[u].video = view[u].video

\* Whoever is first takes the lock: the rest keep their order and their wait.
LEMMA HeadLeaves ==
    ASSUME NEW c, ViewTypes(c), QueueInv(c), queue # <<>>, queue' = Tail(queue), KeptBut(c, queue[1])
    PROVE  /\ queue' \in Seq(JobType(c.views)) /\ Head(queue) = queue[1] /\ queue[1] \in JobType(c.views)
           /\ queue[1].step = "waits" /\ queue[1] = H(c)!Job(queue[1].kind, queue[1].view)
           /\ JobOk(c, view, queue[1]) /\ WaitersInv(c)'
           /\ \A i \in DOMAIN queue' :
                 ~(queue[1].kind = "view" /\ queue'[i].kind = "view" /\ queue'[i].view = queue[1].view)
           /\ queue[1].kind # "stop" /\ (\E i \in DOMAIN queue : queue[i].kind = "stop")
                 => \E i \in DOMAIN queue' : queue'[i].kind = "stop"
  <1>. DEFINE S == JobType(c.views)
              n == Len(queue)
  <1>0. queue \in Seq(S)
    BY DEF ViewTypes
  <1>. HIDE DEF S
  <1>1. /\ n \in Nat \ {0} /\ DOMAIN queue = 1..n /\ queue[1] = Head(queue) /\ queue[1] \in S
        /\ DOMAIN queue' = 1..(n - 1) /\ \A k \in 1..(n - 1) : queue'[k] = queue[k + 1]
    BY <1>0, TailFacts
  <1>2. queue' \in Seq(S)
    BY <1>0
  <1>. HIDE DEF n
  <1>3. \A i \in DOMAIN queue' : i + 1 \in DOMAIN queue /\ i + 1 # 1 /\ queue'[i] = queue[i + 1]
    BY <1>1
  <1>4. /\ \A i \in DOMAIN queue : /\ queue[i].step = "waits" /\ queue[i] = H(c)!Job(queue[i].kind, queue[i].view)
                                  /\ JobOk(c, view, queue[i])
        /\ \A i, j \in DOMAIN queue :
              queue[i].kind = "view" /\ queue[j].kind = "view" /\ queue[i].view = queue[j].view => i = j
    BY DEF QueueInv, WaitersInv
  <1>5. 1 \in DOMAIN queue
    BY <1>1
  <1>6. \A i \in DOMAIN queue' :
           ~(queue[1].kind = "view" /\ queue'[i].kind = "view" /\ queue'[i].view = queue[1].view)
    <2>1. SUFFICES ASSUME NEW i \in DOMAIN queue', queue[1].kind = "view", queue'[i].kind = "view",
                          queue'[i].view = queue[1].view
                   PROVE  FALSE
      OBVIOUS
    <2>2. queue[i + 1].kind = "view" /\ queue[i + 1].view = queue[1].view /\ i + 1 \in DOMAIN queue /\ i + 1 # 1
      BY <1>3, <2>1
    <2>. QED BY <1>4, <1>5, <2>1, <2>2
  <1>7. WaitersInv(c)'
    <2>1. ASSUME NEW i \in DOMAIN queue'
          PROVE  /\ queue'[i].step = "waits" /\ queue'[i] = H(c)!Job(queue'[i].kind, queue'[i].view)
                 /\ JobOk(c, view', queue'[i])
      <3>1. /\ queue'[i].step = "waits" /\ queue'[i] = H(c)!Job(queue'[i].kind, queue'[i].view)
            /\ JobOk(c, view, queue'[i])
        BY <1>3, <1>4
      <3>. QED BY <1>6, <3>1 DEF JobOk, KeptBut
    <2>2. ASSUME NEW i \in DOMAIN queue', NEW j \in DOMAIN queue', queue'[i].kind = "view",
                 queue'[j].kind = "view", queue'[i].view = queue'[j].view
          PROVE  i = j
      <3>1. i + 1 = j + 1
        BY <1>3, <1>4, <2>2
      <3>. QED BY <1>1, <3>1
    <2>. QED BY <2>1, <2>2 DEF WaitersInv
  <1>8. ASSUME queue[1].kind # "stop", NEW i \in DOMAIN queue, queue[i].kind = "stop"
        PROVE  \E k \in DOMAIN queue' : queue'[k].kind = "stop"
    <2>1. i - 1 \in DOMAIN queue' /\ queue'[i - 1] = queue[i]
      BY <1>1, <1>8
    <2>. QED BY <1>8, <2>1
  <1>. QED BY <1>1, <1>2, <1>4, <1>5, <1>6, <1>7, <1>8 DEF S

\* The job that holds the lock goes on: nobody else's wait changes.
LEMMA WaitersStay ==
    ASSUME NEW c, ViewTypes(c), QueueInv(c), job # None, KeptBut(c, job), queue' = queue
    PROVE  WaitersInv(c)'
  <1>1. ASSUME NEW i \in DOMAIN queue
        PROVE  queue[i].step = "waits" /\ JobOk(c, view', queue[i])
    BY DEF QueueInv, WaitersInv, JobInv, JobOk, KeptBut
  <1>. QED BY <1>1 DEF QueueInv, WaitersInv

\* Of the waiters some stay, in their order.
LEMMA SomeStay ==
    ASSUME NEW c, ViewTypes(c), NEW places \in SUBSET DOMAIN queue, H(c)!Remain(places)
    PROVE  /\ queue' \in Seq(JobType(c.views))
           /\ \E f \in [DOMAIN queue' -> places] :
                 /\ \A i \in DOMAIN queue' : queue'[i] = queue[f[i]]
                 /\ \A i, j \in DOMAIN queue' : f[i] = f[j] => i = j
                 /\ \A k \in places : \E i \in DOMAIN queue' : f[i] = k
  <1>. DEFINE S == JobType(c.views)
              m == Cardinality(places)
  <1>0. queue \in Seq(S)
    BY DEF ViewTypes
  <1>. HIDE DEF S
  <1>1. Len(queue) \in Nat /\ DOMAIN queue = 1..Len(queue) /\ \A k \in DOMAIN queue : queue[k] \in S
    BY <1>0
  <1>2. IsFiniteSet(places)
    <2>1. IsFiniteSet(1..Len(queue))
      BY <1>1, FS_Interval
    <2>. QED BY <1>1, <2>1, FS_Subset
  <1>3. m \in Nat
    BY <1>2, FS_CardinalityType
  <1>4. H(c)!Cardinality(places) = m
    BY DEF H!Cardinality, Cardinality
  <1>. HIDE DEF m
  <1>5. PICK f \in [1..m -> places] :
           /\ { f[i] : i \in DOMAIN f } = places /\ \A i, j \in DOMAIN f : i < j => f[i] < f[j]
           /\ queue' = [i \in DOMAIN f |-> queue[f[i]]]
    BY <1>4 DEF H!Remain
  <1>6. DOMAIN f = 1..m /\ DOMAIN queue' = 1..m
    BY <1>5
  <1>7. queue' \in Seq(S)
    BY <1>1, <1>3, <1>5, <1>6
  <1>8. ASSUME NEW i \in 1..m, NEW j \in 1..m, f[i] = f[j] PROVE i = j
    <2>1. f[i] \in Nat /\ f[j] \in Nat /\ i \in Nat /\ j \in Nat
      BY <1>1, <1>3
    <2>2. ~(i < j) /\ ~(j < i)
      BY <1>5, <1>6, <1>8, <2>1
    <2>. QED BY <2>1, <2>2
  <1>9. \A k \in places : \E i \in 1..m : f[i] = k
    BY <1>5, <1>6
  <1>10. f \in [DOMAIN queue' -> places]
    BY <1>5, <1>6
  <1>11. \A i \in DOMAIN queue' : queue'[i] = queue[f[i]]
    BY <1>5, <1>6
  <1>12. \A i, j \in DOMAIN queue' : f[i] = f[j] => i = j
    BY <1>6, <1>8
  <1>13. \A k \in places : \E i \in DOMAIN queue' : f[i] = k
    BY <1>6, <1>9
  <1>14. \E g \in [DOMAIN queue' -> places] :
           /\ \A i \in DOMAIN queue' : queue'[i] = queue[g[i]]
           /\ \A i, j \in DOMAIN queue' : g[i] = g[j] => i = j
           /\ \A k \in places : \E i \in DOMAIN queue' : g[i] = k
    BY <1>10, <1>11, <1>12, <1>13
  <1>. QED BY <1>7, <1>14 DEF S

-----------------------------------------------------------------------------
\* A step that changes no session, and ends no call, keeps them in order.
LEMMA SessionsStay ==
    ASSUME NEW c, SessionInv(c), view' = view, acc'.gen = acc.gen, acc.closed => acc'.closed,
           line'.is = "free" => line.is = "free", \A v \in c.views : (v \in watching') = (v \in watching)
    PROVE  SessionInv(c)'
  BY DEF SessionInv, OfThisCall

\* A call that was placed connects: nobody's ring becomes a call.
LEMMA CallConnectsKeeps ==
    ASSUME NEW c, Legal(c), ViewsInv(c), H(c)!CallConnects
    PROVE  ViewsInv(c)'
  <1>. USE DEF H!CallConnects, H!encoderVars
  <1>1. /\ line.is = "placing" /\ line' = [line EXCEPT !.is = "call"]
        /\ UNCHANGED <<video, watching, calls, acc, view, tc, job, queue, encoders, open, lost>>
    OBVIOUS
  <1>2. line'.is = "call" /\ line'.by = line.by /\ line'.auto = line.auto
    BY <1>1 DEF ViewsInv, ViewTypes, LineType, AccType
  <1>3. ViewTypes(c)'
    BY <1>1 DEF ViewsInv, ViewTypes, HeldInv, IsHeld, LineType, AccType
  <1>4. SessionInv(c)'
    BY <1>1, <1>2, SessionsStay DEF ViewsInv
  <1>5. LineInv(c)'
    BY <1>1, <1>2 DEF ViewsInv, LineInv, CallBy, Up
  <1>6. QueueInv(c)'
    BY <1>1, <1>2, LockStays DEF ViewsInv, Kept
  <1>. QED BY <1>3, <1>4, <1>5, <1>6 DEF ViewsInv

\* The card answers: the call is not HomeKit's.
LEMMA OtherAnswersKeeps ==
    ASSUME NEW c, Legal(c), ViewsInv(c), H(c)!OtherAnswers
    PROVE  ViewsInv(c)'
  <1>1. /\ line.is = "ringing" /\ line' = [line EXCEPT !.is = "call", !.by = "other"]
        /\ UNCHANGED <<video, watching, calls, acc, view, tc, job, queue, encoders, open, lost>>
    BY DEF H!OtherAnswers, H!encoderVars, H!Other
  <1>2. line'.is = "call" /\ line'.by = "other" /\ line'.auto = line.auto
    BY <1>1 DEF ViewsInv, ViewTypes, LineType, AccType
  <1>3. ViewTypes(c)'
    BY <1>1 DEF ViewsInv, ViewTypes, HeldInv, IsHeld, LineType, AccType
  <1>4. SessionInv(c)'
    BY <1>1, <1>2, SessionsStay DEF ViewsInv
  <1>5. LineInv(c)'
    BY <1>1, <1>2 DEF ViewsInv, LineInv, CallBy, Up
  <1>6. QueueInv(c)'
    BY <1>1, <1>2, LockStays DEF ViewsInv, Kept
  <1>. QED BY <1>3, <1>4, <1>5, <1>6 DEF ViewsInv

\* A card that watched leaves.
LEMMA OtherLeavesKeeps ==
    ASSUME NEW c, Legal(c), ViewsInv(c), H(c)!OtherLeaves
    PROVE  ViewsInv(c)'
  <1>1. /\ "other" \in watching /\ watching' = watching \ {"other"}
        /\ UNCHANGED <<line, video, calls, acc, view, tc, job, queue, encoders, open, lost>>
    BY DEF H!OtherLeaves, H!encoderVars, H!lineVars, H!Other
  <1>2. "other" \notin c.views /\ c.others
    BY <1>1 DEF ViewsInv, ViewTypes, Legal
  <1>3. ViewTypes(c)'
    BY <1>1 DEF ViewsInv, ViewTypes, HeldInv, IsHeld, LineType, AccType
  <1>4. SessionInv(c)'
    BY <1>1, <1>2, SessionsStay DEF ViewsInv
  <1>5. LineInv(c)'
    BY <1>1, <1>2 DEF ViewsInv, LineInv, CallBy, Up
  <1>6. QueueInv(c)'
    BY <1>1, LockStays DEF ViewsInv, Kept
  <1>. QED BY <1>3, <1>4, <1>5, <1>6 DEF ViewsInv

\* Talk asks for an answer.
LEMMA TalksKeeps ==
    ASSUME NEW c, Legal(c), ViewsInv(c), NEW v \in c.views, H(c)!Talks(v)
    PROVE  ViewsInv(c)'
  <1>1. /\ line.is = "ringing" /\ acc.answer = "no" /\ acc' = [acc EXCEPT !.answer = "asked"]
        /\ UNCHANGED <<line, video, calls, watching, view, tc, job, queue, encoders, open, lost>>
    BY DEF H!Talks, H!encoderVars, H!lineVars
  <1>2. /\ acc'.answer = "asked" /\ acc'.gen = acc.gen /\ acc'.closed = acc.closed /\ acc'.off = acc.off
        /\ acc'.answered = acc.answered /\ acc'.hangs_up = acc.hangs_up
    BY <1>1 DEF ViewsInv, ViewTypes, LineType, AccType
  <1>3. ViewTypes(c)'
    BY <1>1 DEF ViewsInv, ViewTypes, HeldInv, IsHeld, LineType, AccType
  <1>4. SessionInv(c)'
    BY <1>1, <1>2, SessionsStay DEF ViewsInv
  <1>5. LineInv(c)'
    BY <1>1, <1>2 DEF ViewsInv, LineInv, CallBy, Up
  <1>6. QueueInv(c)'
    BY <1>1, <1>2, LockStays DEF ViewsInv, Kept
  <1>. QED BY <1>3, <1>4, <1>5, <1>6 DEF ViewsInv

\* The 200 leaves: from here on the call is HomeKit's.
LEMMA AnswersKeeps ==
    ASSUME NEW c, Legal(c), ViewsInv(c), H(c)!Answers
    PROVE  ViewsInv(c)'
  <1>1. acc.answer = "asked" /\ UNCHANGED <<video, calls, watching, view, tc, job, queue, encoders, open, lost>>
    BY DEF H!Answers, H!encoderVars
  <1>0. acc \in AccType /\ line \in LineType
    BY DEF ViewsInv, ViewTypes
  <1>2. CASE line.is = "ringing" /\ ~acc.answered
    <2>1. acc' = [acc EXCEPT !.answer = "sent"] /\ line' = [line EXCEPT !.is = "call", !.by = "homekit"]
      BY <1>2 DEF H!Answers
    <2>2. /\ acc'.answer = "sent" /\ acc'.gen = acc.gen /\ acc'.closed = acc.closed /\ acc'.off = acc.off
          /\ acc'.answered = acc.answered /\ acc'.hangs_up = acc.hangs_up
          /\ line'.is = "call" /\ line'.by = "homekit" /\ line'.auto = line.auto
      BY <1>0, <2>1 DEF LineType, AccType
    <2>3. ViewTypes(c)'
      BY <1>0, <1>1, <2>1 DEF ViewsInv, ViewTypes, HeldInv, IsHeld, LineType, AccType
    <2>4. SessionInv(c)'
      BY <1>1, <2>2, SessionsStay DEF ViewsInv
    <2>5. LineInv(c)'
      BY <1>1, <1>2, <2>2 DEF ViewsInv, LineInv, CallBy, Up
    <2>6. QueueInv(c)'
      BY <1>1, <2>2, LockStays DEF ViewsInv, Kept
    <2>. QED BY <2>3, <2>4, <2>5, <2>6 DEF ViewsInv
  <1>3. CASE ~(line.is = "ringing" /\ ~acc.answered)
    <2>1. acc' = [acc EXCEPT !.answer = "no"] /\ line' = line
      BY <1>3 DEF H!Answers
    <2>2. /\ acc'.answer = "no" /\ acc'.gen = acc.gen /\ acc'.closed = acc.closed /\ acc'.off = acc.off
          /\ acc'.answered = acc.answered /\ acc'.hangs_up = acc.hangs_up
      BY <1>0, <2>1 DEF LineType, AccType
    <2>3. ViewTypes(c)'
      BY <1>0, <1>1, <2>1 DEF ViewsInv, ViewTypes, HeldInv, IsHeld, LineType, AccType
    <2>4. SessionInv(c)'
      BY <1>1, <2>1, <2>2, SessionsStay DEF ViewsInv
    <2>5. LineInv(c)'
      BY <1>1, <2>1, <2>2 DEF ViewsInv, LineInv, CallBy, Up
    <2>6. QueueInv(c)'
      BY <1>1, <2>1, <2>2, LockStays DEF ViewsInv, Kept
    <2>. QED BY <2>3, <2>4, <2>5, <2>6 DEF ViewsInv
  <1>. QED BY <1>2, <1>3

\* _hang_up_if_last decides on the call; all else stays.
LEMMA HangUpIfLastIs ==
    ASSUME NEW c, NEW a \in AccType, NEW vw, NEW ws, NEW b, b = H(c)!HangUpIfLast(a, vw, ws)
    PROVE  /\ b \in AccType /\ b.gen = a.gen /\ b.closed = a.closed /\ b.off = a.off /\ b.answer = a.answer
  BY DEF H!HangUpIfLast, H!HungUp, AccType

\* The answer is told: HomeKit hangs up at once when the last view is gone.
LEMMA AnsweredKeeps ==
    ASSUME NEW c, Legal(c), ViewsInv(c), H(c)!Answered
    PROVE  ViewsInv(c)'
  <1>. DEFINE a == [acc EXCEPT !.answer = "no", !.answered = TRUE]
  <1>0. acc \in AccType /\ line \in LineType
    BY DEF ViewsInv, ViewTypes
  <1>1. /\ acc.answer = "sent" /\ acc' = H(c)!HangUpIfLast(a, view, watching)
        /\ UNCHANGED <<line, video, calls, watching, view, tc, job, queue, encoders, open, lost>>
    BY DEF H!Answered, H!encoderVars, H!lineVars
  <1>2. /\ a \in AccType /\ a.answer = "no" /\ a.answered /\ a.gen = acc.gen /\ a.closed = acc.closed
        /\ a.off = acc.off /\ a.hangs_up = acc.hangs_up
    BY <1>0 DEF AccType
  <1>. HIDE DEF a
  <1>3. /\ acc' \in AccType /\ acc'.gen = acc.gen /\ acc'.closed = acc.closed /\ acc'.off = acc.off
        /\ acc'.answer = "no"
        /\ \/ H(c)!LastOf(view, watching, a.answered) /\ ~acc'.answered /\ acc'.hangs_up
           \/ ~H(c)!LastOf(view, watching, a.answered) /\ acc'.answered /\ acc'.hangs_up = acc.hangs_up
    <2>. DEFINE b == H(c)!HangUpIfLast(a, view, watching)
    <2>5. b \in AccType /\ b.gen = a.gen /\ b.closed = a.closed /\ b.off = a.off /\ b.answer = a.answer
      BY <1>2, HangUpIfLastIs
    <2>6. \/ H(c)!LastOf(view, watching, a.answered) /\ ~b.answered /\ b.hangs_up
          \/ ~H(c)!LastOf(view, watching, a.answered) /\ b = a
      BY <1>2 DEF H!HangUpIfLast, H!HungUp, AccType
    <2>2. acc' = b
      BY <1>1
    <2>. HIDE DEF b
    <2>. QED BY <1>2, <2>2, <2>5, <2>6
  <1>4. ViewTypes(c)'
    BY <1>1, <1>3 DEF ViewsInv, ViewTypes, HeldInv, IsHeld
  <1>5. SessionInv(c)'
    BY <1>1, <1>3, SessionsStay DEF ViewsInv
  <1>6. acc'.answered => watching # {}
    <2>1. SUFFICES ASSUME ~H(c)!LastOf(view, watching, TRUE) PROVE watching # {}
      BY <1>2, <1>3
    <2>2. CASE ~H(c)!NoneLive(view)
      <3>1. PICK v \in c.views : H(c)!LiveIn(view, v)
        BY <2>2 DEF H!NoneLive
      <3>2. SessionOk(view[v], v \in watching) /\ (view[v].starting \/ "proc" \in view[v].has)
        BY <3>1 DEF ViewsInv, SessionInv, H!LiveIn
      <3>. QED BY <3>2 DEF SessionOk
    <2>. QED BY <2>1, <2>2 DEF H!LastOf
  <1>7. LineInv(c)'
    BY <1>1, <1>3, <1>6 DEF ViewsInv, LineInv, CallBy, Up
  <1>8. QueueInv(c)'
    BY <1>1, <1>3, LockStays DEF ViewsInv, Kept
  <1>. QED BY <1>4, <1>5, <1>7, <1>8 DEF ViewsInv

\* A step that changes one session.
LEMMA OneSession ==
    ASSUME NEW c, SessionInv(c), NEW v \in c.views, NEW s, view'[v] = s,
           \A u \in c.views : u # v => view'[u] = view[u] /\ (u \in watching') = (u \in watching),
           SessionOk(s, v \in watching'), OfThisCall(s, acc', line'),
           acc'.gen = acc.gen, acc.closed => acc'.closed, line'.is = "free" => line.is = "free"
    PROVE  SessionInv(c)'
  <1>1. \A u \in c.views : u # v => SessionOk(view'[u], u \in watching') /\ OfThisCall(view'[u], acc', line')
    BY DEF SessionInv, OfThisCall
  <1>. QED BY <1>1 DEF SessionInv

\* start_stream counts the view.
LEMMA StartStreamKeeps ==
    ASSUME NEW c, Legal(c), ViewsInv(c), NEW v \in c.views, H(c)!StartStream(v)
    PROVE  ViewsInv(c)'
  <1>0. view \in [c.views -> SessionType] /\ view[v] \in SessionType /\ SessionOk(view[v], v \in watching)
    BY DEF ViewsInv, ViewTypes, SessionInv
  <1>. DEFINE s == [view[v] EXCEPT !.start = "hub", !.starting = TRUE, !.has = @ \cup {"viewer"}]
  <1>1. /\ view[v].known /\ view[v].start = "no" /\ view[v].close = "no"
        /\ view' = [view EXCEPT ![v] = s] /\ watching' = watching \cup {v}
        /\ UNCHANGED <<line, video, calls, acc, tc, job, queue, encoders, open, lost>>
    BY <1>0 DEF H!StartStream, H!encoderVars, H!lineVars
  <1>2. s \in SessionType
    BY <1>0 DEF SessionType, Parts
  <1>3. SessionOk(s, v \in watching')
    <2>1. /\ s.known = view[v].known /\ s.start = "hub" /\ s.starting = TRUE /\ s.stopping = view[v].stopping
          /\ s.close = "no" /\ s.video = view[v].video /\ s.audio = view[v].audio
          /\ s.has = view[v].has \cup {"viewer"}
      BY <1>0, <1>1 DEF SessionType
    <2>2. view[v].known /\ ~view[v].stopping /\ view[v].video = "no" /\ view[v].audio = "no" /\ v \in watching'
      BY <1>0, <1>1 DEF SessionOk
    <2>. HIDE DEF s
    <2>3. s.stopping = FALSE /\ ("viewer" \in s.has) = TRUE /\ s.known = TRUE
      BY <2>1, <2>2
    <2>. QED BY <2>1, <2>2, <2>3 DEF SessionOk
  <1>4. OfThisCall(s, acc', line')
    BY <1>0, <1>1 DEF SessionType, SessionOk, OfThisCall
  <1>5. view[v].video = "no" /\ s.video = "no"
    BY <1>0, <1>1 DEF SessionType, SessionOk
  <1>. HIDE DEF s
  <1>6. view' \in [c.views -> SessionType] /\ view'[v] = s /\ \A u \in c.views : u # v => view'[u] = view[u]
    BY <1>0, <1>1, <1>2
  <1>7. ViewTypes(c)'
    BY <1>1, <1>6 DEF ViewsInv, ViewTypes, HeldInv, IsHeld
  <1>8. SessionInv(c)'
    BY <1>1, <1>3, <1>4, <1>6, OneSession DEF ViewsInv
  <1>9. LineInv(c)'
    BY <1>1 DEF ViewsInv, LineInv, CallBy, Up
  <1>10. Kept(c)
    BY <1>5, <1>6 DEF Kept
  <1>11. QueueInv(c)'
    BY <1>1, <1>10, LockStays DEF ViewsInv
  <1>. QED BY <1>7, <1>8, <1>9, <1>11 DEF ViewsInv

\* The call that a view waited for is there, or is not.
LEMMA CallSeenKeeps ==
    ASSUME NEW c, Legal(c), ViewsInv(c), NEW v \in c.views, H(c)!CallSeen(v)
    PROVE  ViewsInv(c)'
  <1>0. view \in [c.views -> SessionType] /\ view[v] \in SessionType /\ SessionOk(view[v], v \in watching)
        /\ acc \in AccType /\ line \in LineType
    BY DEF ViewsInv, ViewTypes, SessionInv
  <1>1. /\ view[v].start = "call" /\ UNCHANGED <<line, video, calls, watching, tc, job, queue, encoders, open, lost>>
    BY DEF H!CallSeen, H!encoderVars, H!lineVars
  <1>2. /\ acc' \in AccType /\ acc'.gen = acc.gen /\ acc'.closed = acc.closed /\ acc'.off = acc.off
        /\ acc'.answered = acc.answered /\ acc'.hangs_up = acc.hangs_up
        /\ acc'.answer = acc.answer \/ (acc'.answer = "asked" /\ acc.answer = "no")
    BY <1>0 DEF H!CallSeen, AccType
  <1>3. \E s \in SessionType :
           /\ view' = [view EXCEPT ![v] = s] /\ SessionOk(s, v \in watching) /\ OfThisCall(s, acc', line)
           /\ view[v].video \in {"encoder", "none"} => s.video = view[v].video
    <2>1. CASE H(c)!VideoActive /\ ~view[v].stopping /\ view' = [view EXCEPT ![v].start = "picture"]
      <3>. DEFINE s == [view[v] EXCEPT !.start = "picture"]
      <3>1. view' = [view EXCEPT ![v] = s]
        BY <2>1, <1>0
      <3>2. s \in SessionType
        BY <1>0 DEF SessionType
      <3>3. SessionOk(s, v \in watching)
        BY <1>0, <1>1 DEF SessionType, SessionOk
      <3>4. line.is # "free"
        BY <2>1 DEF H!VideoActive
      <3>5. OfThisCall(s, acc', line) /\ s.video = view[v].video
        BY <1>0, <1>1, <3>4 DEF SessionType, SessionOk, OfThisCall
      <3>. QED BY <3>1, <3>2, <3>3, <3>5
    <2>2. CASE H(c)!Fails(v)
      <3>. DEFINE s == H(c)!Failed(view[v])
      <3>1. view' = [view EXCEPT ![v] = s]
        BY <2>2 DEF H!Fails
      <3>2. view[v].starting /\ {view[v].video, view[v].audio} \subseteq {"no", "done", "none"}
        BY <1>0, <1>1 DEF SessionOk
      <3>3. s \in SessionType /\ s.stopping /\ SessionOk(s, v \in watching) /\ s.video = view[v].video
        BY <1>0, <3>2, FailedIs
      <3>. HIDE DEF s
      <3>4. OfThisCall(s, acc', line)
        BY <3>3 DEF OfThisCall
      <3>. QED BY <3>1, <3>3, <3>4
    <2>. QED BY <2>1, <2>2 DEF H!CallSeen
  <1>4. PICK s \in SessionType :
           /\ view' = [view EXCEPT ![v] = s] /\ SessionOk(s, v \in watching) /\ OfThisCall(s, acc', line)
           /\ view[v].video \in {"encoder", "none"} => s.video = view[v].video
    BY <1>3
  <1>6. view' \in [c.views -> SessionType] /\ view'[v] = s /\ \A u \in c.views : u # v => view'[u] = view[u]
    BY <1>0, <1>4
  <1>7. ViewTypes(c)'
    BY <1>1, <1>2, <1>6 DEF ViewsInv, ViewTypes, HeldInv, IsHeld
  <1>8. SessionInv(c)'
    BY <1>1, <1>2, <1>4, <1>6, OneSession DEF ViewsInv
  <1>9. LineInv(c)'
    BY <1>1, <1>2 DEF ViewsInv, LineInv, CallBy, Up
  <1>10. Kept(c)
    BY <1>4, <1>6 DEF Kept
  <1>11. QueueInv(c)'
    BY <1>1, <1>2, <1>10, LockStays DEF ViewsInv
  <1>. QED BY <1>7, <1>8, <1>9, <1>11 DEF ViewsInv

\* _do_close releases all a session has; the last view hangs up what HomeKit answered.
LEMMA ClosedKeeps ==
    ASSUME NEW c, Legal(c), ViewsInv(c), NEW v \in c.views, H(c)!Closed(v)
    PROVE  ViewsInv(c)'
  <1>0. view \in [c.views -> SessionType] /\ view[v] \in SessionType /\ SessionOk(view[v], v \in watching)
        /\ acc \in AccType /\ line \in LineType
    BY DEF ViewsInv, ViewTypes, SessionInv
  <1>. DEFINE s == [view[v] EXCEPT !.close = "over", !.has = {}, !.reads = None]
  <1>1. /\ view[v].close = "closing" /\ view' = [view EXCEPT ![v] = s] /\ watching' = watching \ {v}
        /\ UNCHANGED <<line, video, calls, tc, job, queue, encoders, open, lost>>
    BY <1>0 DEF H!Closed, H!encoderVars, H!lineVars
  <1>2. s \in SessionType
    BY <1>0 DEF SessionType, Parts
  <1>3. SessionOk(s, v \in watching')
    BY <1>0, <1>1 DEF SessionType, SessionOk
  <1>4. s.video = view[v].video /\ s.stopping /\ ~s.starting /\ s.has = {}
    BY <1>0, <1>1 DEF SessionType, SessionOk
  <1>. HIDE DEF s
  <1>5. OfThisCall(s, acc', line')
    BY <1>4 DEF OfThisCall
  <1>6. view' \in [c.views -> SessionType] /\ view'[v] = s /\ \A u \in c.views : u # v => view'[u] = view[u]
    BY <1>0, <1>1, <1>2
  <1>7. /\ acc' \in AccType /\ acc'.gen = acc.gen /\ acc'.closed = acc.closed /\ acc'.off = acc.off
        /\ acc'.answer = acc.answer
        /\ \/ H(c)!LastOf(view', watching', acc.answered) /\ ~acc'.answered /\ acc'.hangs_up
           \/ /\ acc' = acc
              /\ "viewer" \in view[v].has => ~H(c)!LastOf(view', watching', acc.answered)
    BY <1>0 DEF H!Closed, H!HangUpIfLast, H!HungUp, AccType
  <1>8. ViewTypes(c)'
    BY <1>1, <1>6, <1>7 DEF ViewsInv, ViewTypes, HeldInv, IsHeld
  <1>9. SessionInv(c)'
    BY <1>1, <1>3, <1>5, <1>6, <1>7, OneSession DEF ViewsInv
  <1>10. ASSUME acc' = acc, "viewer" \in view[v].has => ~H(c)!LastOf(view', watching', acc.answered)
         PROVE  LineInv(c)'
    <2>1. acc.answered /\ ~acc.closed /\ ~c.others => watching' # {}
      <3>1. SUFFICES ASSUME acc.answered, ~acc.closed, ~c.others, watching' = {} PROVE FALSE
        OBVIOUS
      <3>2. CASE "viewer" \in view[v].has
        <4>1. PICK u \in c.views : H(c)!LiveIn(view', u)
          BY <1>10, <3>1, <3>2 DEF H!LastOf, H!NoneLive
        <4>2. SessionOk(view'[u], u \in watching') /\ (view'[u].starting \/ "proc" \in view'[u].has)
          BY <1>9, <4>1 DEF SessionInv, H!LiveIn
        <4>. QED BY <3>1, <4>2 DEF SessionOk
      <3>3. CASE "viewer" \notin view[v].has
        <4>1. v \notin watching
          BY <1>0, <3>3 DEF SessionOk
        <4>2. watching # {}
          BY <3>1 DEF ViewsInv, LineInv
        <4>. QED BY <1>1, <3>1, <4>1, <4>2
      <3>. QED BY <3>2, <3>3
    <2>2. acc' = acc /\ line' = line /\ video' = video
      BY <1>1, <1>10
    <2>3. LineInv(c)
      BY DEF ViewsInv
    <2>. QED BY <2>1, <2>2, <2>3 DEF LineInv, CallBy, Up
  <1>11. ASSUME H(c)!LastOf(view', watching', acc.answered), ~acc'.answered, acc'.hangs_up
         PROVE  LineInv(c)'
    <2>1. acc.answered \/ (line.auto /\ Up)
      BY <1>11 DEF H!LastOf, H!Busy, Up
    <2>2. ~acc'.answered /\ acc'.hangs_up
      BY <1>11
    <2>3. acc'.closed = acc.closed /\ acc'.off = acc.off /\ acc'.answer = acc.answer
      BY <1>7
    <2>4. line' = line /\ video' = video /\ LineInv(c)
      BY <1>1 DEF ViewsInv
    <2>. QED BY <2>1, <2>2, <2>3, <2>4 DEF LineInv, CallBy, Up
  <1>12. LineInv(c)'
    BY <1>7, <1>10, <1>11
  <1>13. Kept(c)
    BY <1>4, <1>6 DEF Kept
  <1>14. QueueInv(c)'
    BY <1>1, <1>7, <1>13, LockStays DEF ViewsInv
  <1>. QED BY <1>8, <1>9, <1>12, <1>14 DEF ViewsInv

\* A new job of the lock is of its type.
LEMMA JobIs ==
    ASSUME NEW c, NEW k \in {"view", "early", "prewarm", "stop"}, NEW v \in c.views \cup {None}
    PROVE  /\ H(c)!Job(k, v) \in JobType(c.views)
           /\ H(c)!Job(k, v).kind = k /\ H(c)!Job(k, v).view = v /\ H(c)!Job(k, v).step = "waits"
  BY DEF H!Job, JobType

\* A step by which a view joins the lock, or not.
LEMMA LockJoined ==
    ASSUME NEW c, ViewTypes(c), QueueInv(c), Kept(c), NEW k \in {"early", "prewarm", "stop"}, NEW v \in c.views \cup {None},
           k = "early" => v \in c.views,
           queue' = Append(queue, H(c)!Job(k, v)), UNCHANGED <<job, tc>>, acc.closed => acc'.closed,
           \/ acc'.gen = acc.gen /\ (line'.is = "free" /\ ~acc'.closed => line.is = "free")
           \/ acc'.gen = acc.gen + 1 /\ k = "stop"
    PROVE  queue' \in Seq(JobType(c.views)) /\ QueueInv(c)'
  <1>. DEFINE j == H(c)!Job(k, v)
  <1>0. k \in {"view", "early", "prewarm", "stop"}
    OBVIOUS
  <1>1. j \in JobType(c.views) /\ j.kind = k /\ j.view = v /\ j.step = "waits"
    BY <1>0, JobIs
  <1>2. queue' = Append(queue, j)
    OBVIOUS
  <1>5. j = H(c)!Job(k, v)
    OBVIOUS
  <1>. HIDE DEF j
  <1>3. JobOk(c, view', j) /\ j.kind # "view" /\ (k = "stop" => j.kind = "stop") /\ j = H(c)!Job(j.kind, j.view)
    BY <1>1, <1>5 DEF JobOk
  <1>4. acc.gen \in Nat
    BY DEF ViewTypes, AccType
  <1>. QED BY <1>1, <1>2, <1>3, <1>4, Joins

\* The video comes: the encoder may be warmed up.
LEMMA VideoComesKeeps ==
    ASSUME NEW c, Legal(c), ViewsInv(c), H(c)!VideoComes
    PROVE  ViewsInv(c)'
  <1>1. /\ line.is \in {"ringing", "call"} /\ video' = TRUE
        /\ UNCHANGED <<line, watching, calls, acc, view, tc, job, encoders, open, lost>>
    BY DEF H!VideoComes
  <1>2. queue' \in Seq(JobType(c.views)) /\ QueueInv(c)'
    <2>1. CASE queue' = queue
      <3>1. queue \in Seq(JobType(c.views))
        BY DEF ViewsInv, ViewTypes
      <3>2. QueueInv(c)'
        BY <1>1, <2>1, LockStays DEF ViewsInv, Kept
      <3>. QED BY <2>1, <3>1, <3>2
    <2>2. CASE queue' = Append(queue, H(c)!Job("prewarm", None))
      BY <1>1, <2>2, LockJoined DEF ViewsInv, Kept
    <2>. QED BY <2>1, <2>2 DEF H!VideoComes
  <1>3. ViewTypes(c)'
    BY <1>1, <1>2 DEF ViewsInv, ViewTypes, HeldInv, IsHeld
  <1>4. SessionInv(c)'
    BY <1>1, SessionsStay DEF ViewsInv
  <1>5. LineInv(c)'
    BY <1>1 DEF ViewsInv, LineInv, CallBy, Up
  <1>. QED BY <1>2, <1>3, <1>4, <1>5 DEF ViewsInv

\* A ring: an encoder of before is of an earlier call.
LEMMA RingsKeeps ==
    ASSUME NEW c, Legal(c), ViewsInv(c), H(c)!Rings
    PROVE  ViewsInv(c)'
  <1>0. acc \in AccType /\ line \in LineType /\ view \in [c.views -> SessionType]
    BY DEF ViewsInv, ViewTypes
  <1>1. /\ line.is = "free" /\ calls < c.calls /\ calls' = calls + 1 /\ line' = [line EXCEPT !.is = "ringing"]
        /\ UNCHANGED <<video, watching, view, tc, job, queue, encoders, open, lost>>
    BY DEF H!Rings, H!encoderVars
  <1>2. ~acc.hangs_up /\ acc.answer # "asked" /\ \A v \in c.views : ~view[v].ending
    BY DEF H!Rings, H!Idle
  <1>3. line'.is = "ringing" /\ line'.auto = line.auto /\ line' \in LineType
    BY <1>0, <1>1 DEF LineType
  <1>4. /\ acc' \in AccType /\ acc'.closed = acc.closed /\ acc'.off = acc.off /\ acc'.answered = acc.answered
        /\ acc'.answer = acc.answer /\ acc'.hangs_up = acc.hangs_up
        /\ acc'.gen = acc.gen \/ (~acc.closed /\ acc'.gen = acc.gen + 1)
    BY <1>0 DEF H!Rings, AccType
  <1>5. ViewTypes(c)'
    <2>1. calls' \in 0..c.calls
      BY <1>1 DEF ViewsInv, ViewTypes, Legal
    <2>. QED BY <1>1, <1>3, <1>4, <2>1 DEF ViewsInv, ViewTypes, HeldInv, IsHeld
  <1>6. SessionInv(c)'
    <2>1. ASSUME NEW v \in c.views PROVE SessionOk(view[v], v \in watching) /\ OfThisCall(view[v], acc', line')
      <3>1. SessionOk(view[v], v \in watching) /\ OfThisCall(view[v], acc, line)
        BY DEF ViewsInv, SessionInv
      <3>2. view[v].video = "keyframe" => view[v].start = "parts"
        BY <1>0, <3>1 DEF SessionType, SessionOk
      <3>3. view[v].video = "keyframe" /\ ~view[v].stopping => acc.closed
        BY <1>1, <1>2, <3>1, <3>2 DEF OfThisCall
      <3>. QED BY <1>3, <1>4, <3>1, <3>3 DEF OfThisCall
    <2>. QED BY <1>1, <2>1 DEF SessionInv
  <1>7. LineInv(c)'
    BY <1>1, <1>2, <1>3, <1>4 DEF ViewsInv, LineInv, CallBy, Up
  <1>8. QueueInv(c)'
    <2>1. WaitersInv(c)'
      BY <1>1 DEF ViewsInv, QueueInv, WaitersInv, JobOk
    <2>2. acc.gen \in Nat
      BY <1>0 DEF AccType
    <2>3. JobInv(c)'
      BY <1>1, <1>3, <1>4, <2>2 DEF ViewsInv, QueueInv, JobInv, JobOk
    <2>4. OldEncoderInv'
      <3>1. SUFFICES ASSUME tc # None PROVE OldEncoderInv'
        BY <1>1 DEF OldEncoderInv
      <3>2. tc.gen \in Nat /\ tc.gen <= acc.gen
        BY <3>1 DEF ViewsInv, ViewTypes, EncoderType, QueueInv, OldEncoderInv
      <3>3. ~acc.closed => \E i \in DOMAIN queue : queue[i].kind = "stop"
        BY <1>1, <3>1 DEF ViewsInv, QueueInv, OldEncoderInv
      <3>. QED BY <1>1, <1>4, <2>2, <3>2, <3>3 DEF OldEncoderInv
    <2>. QED BY <2>1, <2>3, <2>4 DEF QueueInv
  <1>. QED BY <1>5, <1>6, <1>7, <1>8 DEF ViewsInv

\* Ending the views of a call keeps every session in order.
LEMMA EndedViewsAre ==
    ASSUME NEW c, ViewsInv(c), NEW a, NEW l
    PROVE  /\ H(c)!EndedViews \in [c.views -> SessionType]
           /\ \A v \in c.views : /\ H(c)!EndedViews[v].video = view[v].video
                                 /\ SessionOk(H(c)!EndedViews[v], v \in watching)
                                 /\ OfThisCall(H(c)!EndedViews[v], a, l)
  <1>0. view \in [c.views -> SessionType]
    BY DEF ViewsInv, ViewTypes
  <1>1. H(c)!EndedViews = [v \in c.views |-> [view[v] EXCEPT !.ending = view[v].ending \/ H(c)!LiveIn(view, v)]]
    BY <1>0 DEF H!EndedViews, SessionType
  <1>2. ASSUME NEW v \in c.views
        PROVE  LET s == [view[v] EXCEPT !.ending = view[v].ending \/ H(c)!LiveIn(view, v)] IN
               s \in SessionType /\ s.video = view[v].video /\ SessionOk(s, v \in watching) /\ OfThisCall(s, a, l)
    <2>. DEFINE e == view[v].ending \/ H(c)!LiveIn(view, v)
                s == [view[v] EXCEPT !.ending = e]
    <2>1. e \in BOOLEAN /\ view[v] \in SessionType /\ SessionOk(view[v], v \in watching)
      BY <1>0 DEF ViewsInv, SessionInv
    <2>2. e = FALSE => ~view[v].ending /\ ~H(c)!LiveIn(view, v)
      OBVIOUS
    <2>. HIDE DEF e
    <2>3. /\ s \in SessionType /\ s.known = view[v].known /\ s.start = view[v].start /\ s.starting = view[v].starting
          /\ s.stopping = view[v].stopping /\ s.close = view[v].close /\ s.ending = e /\ s.video = view[v].video
          /\ s.audio = view[v].audio /\ s.has = view[v].has /\ s.enc = view[v].enc /\ s.reads = view[v].reads
      BY <2>1 DEF SessionType
    <2>. HIDE DEF s
    <2>4. SessionOk(s, v \in watching)
      BY <2>1, <2>3 DEF SessionOk
    <2>5. s.start \in {"picture", "parts"} /\ ~s.stopping => s.ending
      BY <2>1, <2>2, <2>3 DEF SessionOk, H!LiveIn, SessionType
    <2>6. s.video = "keyframe" => s.start = "parts"
      BY <2>1, <2>3 DEF SessionOk, SessionType
    <2>7. OfThisCall(s, a, l)
      BY <2>5, <2>6 DEF OfThisCall
    <2>. QED BY <2>3, <2>4, <2>7 DEF s, e
  <1>. QED BY <1>1, <1>2

\* A call or a ring that is over, told to HomeKit unless it is off.
LEMMA CallOver ==
    ASSUME NEW c, ViewsInv(c), UNCHANGED <<watching, calls, tc, job, encoders, open, lost>>,
           line' \in LineType, line'.is = "free", ~line'.auto, video' = FALSE,
           acc' \in AccType, acc'.closed = acc.closed, acc'.off = acc.off,
           \/ acc.closed /\ acc'.gen = acc.gen /\ view' = view /\ queue' = queue
           \/ /\ ~acc.closed /\ acc'.gen = acc.gen + 1 /\ ~acc'.answered /\ acc'.answer # "sent"
              /\ view' = H(c)!EndedViews /\ queue' = Append(queue, H(c)!Job("stop", None))
    PROVE  ViewsInv(c)'
  <1>1. LineInv(c)'
    <2>1. acc.closed = (acc.off # "no")
      BY DEF ViewsInv, LineInv
    <2>2. ~acc.closed => ~acc'.answered /\ acc'.answer # "sent"
      OBVIOUS
    <2>. QED BY <2>1, <2>2 DEF LineInv, CallBy, Up
  <1>2. CASE acc.closed /\ acc'.gen = acc.gen /\ view' = view /\ queue' = queue
    <2>1. ViewTypes(c)'
      BY <1>2 DEF ViewsInv, ViewTypes, HeldInv, IsHeld
    <2>2. SessionInv(c)'
      BY <1>2 DEF ViewsInv, SessionInv, OfThisCall
    <2>3. QueueInv(c)'
      BY <1>2 DEF ViewsInv, QueueInv, WaitersInv, JobInv, JobOk, OldEncoderInv
    <2>. QED BY <1>1, <2>1, <2>2, <2>3 DEF ViewsInv
  <1>3. CASE /\ ~acc.closed /\ acc'.gen = acc.gen + 1 /\ view' = H(c)!EndedViews
             /\ queue' = Append(queue, H(c)!Job("stop", None))
    <2>1. /\ view' \in [c.views -> SessionType]
          /\ \A v \in c.views : /\ view'[v].video = view[v].video
                                /\ SessionOk(view'[v], v \in watching) /\ OfThisCall(view'[v], acc', line')
      BY <1>3, EndedViewsAre
    <2>2. Kept(c)
      BY <2>1 DEF Kept
    <2>3. queue' \in Seq(JobType(c.views)) /\ QueueInv(c)'
      BY <1>3, <2>2, LockJoined DEF ViewsInv
    <2>4. ViewTypes(c)'
      BY <2>1, <2>3 DEF ViewsInv, ViewTypes, HeldInv, IsHeld
    <2>5. SessionInv(c)'
      BY <2>1 DEF SessionInv
    <2>. QED BY <1>1, <2>3, <2>4, <2>5 DEF ViewsInv
  <1>. QED BY <1>2, <1>3

\* on_video_ended, of the accessory.
LEMMA AccEnds ==
    ASSUME NEW a \in AccType, NEW b,
           \/ b = [a EXCEPT !.answered = FALSE, !.gen = @ + 1]
           \/ b = [a EXCEPT !.hangs_up = FALSE, !.answered = FALSE, !.gen = @ + 1]
    PROVE  b \in AccType /\ b.gen = a.gen + 1 /\ b.closed = a.closed /\ b.off = a.off /\ ~b.answered /\ b.answer = a.answer
  <1>. DEFINE g == a.gen + 1
  <1>1. g \in Nat
    BY DEF AccType
  <1>2. b = [a EXCEPT !.answered = FALSE, !.gen = g] \/ b = [a EXCEPT !.hangs_up = FALSE, !.answered = FALSE, !.gen = g]
    BY DEF AccType
  <1>3. g = a.gen + 1
    OBVIOUS
  <1>. HIDE DEF g
  <1>4. CASE b = [a EXCEPT !.answered = FALSE, !.gen = g]
    BY <1>1, <1>3, <1>4 DEF AccType
  <1>5. CASE b = [a EXCEPT !.hangs_up = FALSE, !.answered = FALSE, !.gen = g]
    BY <1>1, <1>3, <1>5 DEF AccType
  <1>. QED BY <1>2, <1>4, <1>5

\* A call or a ring ends: the views end, and a stop is queued for the encoder.
LEMMA LineEndsKeeps ==
    ASSUME NEW c, Legal(c), ViewsInv(c), H(c)!RingEnds \/ H(c)!CallEnds \/ H(c)!CallFails
    PROVE  ViewsInv(c)'
  <1>0. acc \in AccType
    BY DEF ViewsInv, ViewTypes
  <1>1. ~acc.closed => acc.answer # "sent"
    <2>1. CASE line.is \in {"ringing", "placing"}
      BY <2>1 DEF ViewsInv, LineInv, CallBy
    <2>2. CASE acc.answer # "sent"
      BY <2>2
    <2>. QED BY <2>1, <2>2 DEF H!RingEnds, H!CallEnds, H!CallFails, Legal
  <1>2. /\ line' = [is |-> "free", by |-> None, auto |-> FALSE] /\ video' = FALSE /\ H(c)!OnVideoEnded
        /\ UNCHANGED <<watching, calls, tc, job, encoders, open, lost>>
    BY DEF H!RingEnds, H!CallEnds, H!CallFails, H!LineEnds
  <1>3. line' \in LineType /\ line'.is = "free" /\ ~line'.auto
    BY <1>2 DEF LineType
  <1>4. CASE acc.closed
    <2>1. acc' = acc /\ view' = view /\ queue' = queue
      BY <1>2, <1>4 DEF H!OnVideoEnded
    <2>. QED BY <1>0, <1>2, <1>3, <1>4, <2>1, CallOver
  <1>5. CASE ~acc.closed
    <2>1. /\ acc' = [acc EXCEPT !.answered = FALSE, !.gen = @ + 1] /\ view' = H(c)!EndedViews
          /\ queue' = Append(queue, H(c)!Job("stop", None))
      BY <1>2, <1>5 DEF H!OnVideoEnded
    <2>2. /\ acc' \in AccType /\ acc'.gen = acc.gen + 1 /\ acc'.closed = acc.closed /\ acc'.off = acc.off
          /\ ~acc'.answered /\ acc'.answer # "sent"
      BY <1>0, <1>1, <1>5, <2>1, AccEnds
    <2>. QED BY <1>2, <1>3, <1>5, <2>1, <2>2, CallOver
  <1>. QED BY <1>4, <1>5

\* _hang_up of the call that is up.
LEMMA HangsUpKeeps ==
    ASSUME NEW c, Legal(c), ViewsInv(c), H(c)!HangsUp
    PROVE  ViewsInv(c)'
  <1>0. acc \in AccType /\ line \in LineType
    BY DEF ViewsInv, ViewTypes
  <1>1. acc.hangs_up /\ UNCHANGED <<watching, calls, tc, job, encoders, open, lost>>
    BY DEF H!HangsUp
  <1>2. CASE H(c)!Busy
    <2>1. line' = [is |-> "free", by |-> None, auto |-> FALSE] /\ video' = FALSE
      BY <1>2 DEF H!HangsUp
    <2>2. line' \in LineType /\ line'.is = "free" /\ ~line'.auto
      BY <2>1 DEF LineType
    <2>3. CASE acc.closed
      <3>1. acc' = [acc EXCEPT !.hangs_up = FALSE] /\ view' = view /\ queue' = queue
        BY <1>2, <2>3 DEF H!HangsUp
      <3>2. acc' \in AccType /\ acc'.gen = acc.gen /\ acc'.closed = acc.closed /\ acc'.off = acc.off
        BY <1>0, <3>1 DEF AccType
      <3>. QED BY <1>1, <2>1, <2>2, <2>3, <3>1, <3>2, CallOver
    <2>4. CASE ~acc.closed
      <3>1. /\ acc' = [acc EXCEPT !.hangs_up = FALSE, !.answered = FALSE, !.gen = @ + 1]
            /\ view' = H(c)!EndedViews /\ queue' = Append(queue, H(c)!Job("stop", None))
        BY <1>2, <2>4 DEF H!HangsUp
      <3>2. acc.answer # "sent"
        BY <1>1, <2>4 DEF ViewsInv, LineInv
      <3>3. /\ acc' \in AccType /\ acc'.gen = acc.gen + 1 /\ acc'.closed = acc.closed /\ acc'.off = acc.off
            /\ ~acc'.answered /\ acc'.answer # "sent"
        BY <1>0, <3>1, <3>2, AccEnds
      <3>. QED BY <1>1, <2>1, <2>2, <2>4, <3>1, <3>3, CallOver
    <2>. QED BY <2>3, <2>4
  <1>3. CASE ~H(c)!Busy
    <2>1. line' = [line EXCEPT !.auto = FALSE] /\ video' = video /\ acc' = [acc EXCEPT !.hangs_up = FALSE]
          /\ view' = view /\ queue' = queue
      BY <1>3 DEF H!HangsUp, ViewsInv, ViewTypes
    <2>2. /\ line' \in LineType /\ line'.is = line.is /\ line'.by = line.by /\ ~line'.auto
          /\ acc' \in AccType /\ acc'.gen = acc.gen /\ acc'.closed = acc.closed /\ acc'.off = acc.off
          /\ acc'.answered = acc.answered /\ acc'.answer = acc.answer /\ ~acc'.hangs_up
      BY <1>0, <2>1 DEF LineType, AccType
    <2>3. ViewTypes(c)'
      BY <1>1, <2>1, <2>2 DEF ViewsInv, ViewTypes, HeldInv, IsHeld
    <2>4. SessionInv(c)'
      BY <1>1, <2>1, <2>2, SessionsStay DEF ViewsInv
    <2>5. line.is \notin {"call", "placing"}
      BY <1>3 DEF H!Busy
    <2>6. LineInv(c)'
      BY <1>1, <2>1, <2>2, <2>5 DEF ViewsInv, LineInv, CallBy, Up
    <2>7. QueueInv(c)'
      BY <1>1, <2>1, <2>2, LockStays DEF ViewsInv, Kept
    <2>. QED BY <2>3, <2>4, <2>6, <2>7 DEF ViewsInv
  <1>. QED BY <1>2, <1>3

\* A step that changes every session, each to one in order.
LEMMA SessionsChange ==
    ASSUME NEW c, ViewsInv(c), view' \in [c.views -> SessionType], Kept(c),
           \A u \in c.views : SessionOk(view'[u], u \in watching) /\ OfThisCall(view'[u], acc, line),
           UNCHANGED <<line, video, calls, watching, acc, tc, job, queue, encoders, open, lost>>
    PROVE  ViewsInv(c)'
  <1>1. ViewTypes(c)'
    BY DEF ViewsInv, ViewTypes, HeldInv, IsHeld
  <1>2. SessionInv(c)'
    BY DEF SessionInv
  <1>3. LineInv(c)'
    BY DEF ViewsInv, LineInv, CallBy, Up
  <1>4. QueueInv(c)'
    BY LockStays DEF ViewsInv
  <1>. QED BY <1>1, <1>2, <1>3, <1>4 DEF ViewsInv

\* A session is prepared, and stale ones are dropped.
LEMMA SetEndpointsKeeps ==
    ASSUME NEW c, Legal(c), ViewsInv(c), NEW v \in c.views, H(c)!SetEndpoints(v)
    PROVE  ViewsInv(c)'
  <1>0. view \in [c.views -> SessionType]
    BY DEF ViewsInv, ViewTypes
  <1>1. view[v] = H(c)!Session /\ UNCHANGED <<line, video, calls, watching, acc, tc, job, queue, encoders, open, lost>>
    BY DEF H!SetEndpoints, H!encoderVars, H!lineVars
  <1>. DEFINE new == [H(c)!Session EXCEPT !.known = TRUE, !.has = {"a_sock", "v_sock"}]
              gone(u) == [IF H(c)!NeverStarted(view[u]) THEN H(c)!Closing(view[u]) ELSE view[u] EXCEPT !.known = FALSE]
  <1>2. PICK old \in SUBSET { u \in c.views : view[u].known /\ (H(c)!NeverStarted(view[u]) \/ view[u].close = "over") } :
           view' = [u \in c.views |-> IF u = v THEN new ELSE IF u \notin old THEN view[u] ELSE gone(u)]
    BY DEF H!SetEndpoints
  <1>3. /\ new \in SessionType /\ SessionOk(new, v \in watching) /\ OfThisCall(new, acc, line)
        /\ view[v].video = "no" /\ new.video = "no"
    <2>1. SessionOk(view[v], v \in watching)
      BY DEF ViewsInv, SessionInv
    <2>2. v \notin watching /\ view[v].video = "no"
      BY <1>1, <2>1 DEF H!Session, SessionOk
    <2>3. new \in SessionType
      BY DEF H!Session, SessionType, Parts
    <2>4. /\ new.known = TRUE /\ new.start = "no" /\ new.starting = FALSE /\ new.stopping = FALSE /\ new.close = "no"
          /\ new.video = "no" /\ new.audio = "no" /\ new.has = {"a_sock", "v_sock"}
      BY DEF H!Session
    <2>. HIDE DEF new
    <2>5. SessionOk(new, v \in watching)
      <3>1. (v \in watching) = FALSE /\ ("viewer" \in new.has) = FALSE /\ "proc" \notin new.has
        BY <2>2, <2>4
      <3>2. (new.close # "no") = FALSE /\ (new.start \in {"hub", "call", "picture", "parts"}) = FALSE
        BY <2>4
      <3>3. new.start \notin {"failed", "over"} /\ new.close \notin {"closing", "over"}
        BY <2>4
      <3>. QED BY <2>4, <3>1, <3>2, <3>3 DEF SessionOk
    <2>. QED BY <2>2, <2>3, <2>4, <2>5 DEF OfThisCall
  <1>4. ASSUME NEW u \in old
        PROVE  /\ gone(u) \in SessionType /\ SessionOk(gone(u), u \in watching) /\ OfThisCall(gone(u), acc, line)
               /\ gone(u).video = view[u].video
    <2>1. /\ u \in c.views /\ view[u] \in SessionType /\ SessionOk(view[u], u \in watching)
          /\ H(c)!NeverStarted(view[u]) \/ view[u].close = "over"
      BY <1>0, <1>2 DEF ViewsInv, SessionInv
    <2>. DEFINE r == IF H(c)!NeverStarted(view[u]) THEN H(c)!Closing(view[u]) ELSE view[u]
                s == [r EXCEPT !.known = FALSE]
    <2>2. gone(u) = s
      OBVIOUS
    <2>3. /\ r \in SessionType /\ SessionOk(r, u \in watching) /\ r.stopping /\ r.close # "no" /\ r.video = view[u].video
      <3>1. CASE H(c)!NeverStarted(view[u])
        <4>. DEFINE q == H(c)!Closing(view[u])
        <4>1. q \in SessionType /\ Shut(view[u], q) /\ r = q
          BY <2>1, <3>1, ClosingIs
        <4>. HIDE DEF q, r
        <4>2. view[u].start = "no" /\ view[u].close = "no"
          BY <2>1, <3>1 DEF H!NeverStarted, SessionType, SessionOk
        <4>. QED BY <2>1, <4>1, <4>2 DEF Shut, SessionType, SessionOk
      <3>2. CASE ~H(c)!NeverStarted(view[u])
        <4>1. r = view[u] /\ view[u].close = "over"
          BY <2>1, <3>2
        <4>. QED BY <2>1, <4>1 DEF SessionType, SessionOk
      <3>. QED BY <3>1, <3>2
    <2>. HIDE DEF r
    <2>4. /\ s \in SessionType /\ s.start = r.start /\ s.starting = r.starting /\ s.stopping = r.stopping
          /\ s.close = r.close /\ s.video = r.video /\ s.audio = r.audio /\ s.has = r.has /\ s.reads = r.reads
      BY <2>3 DEF SessionType
    <2>. HIDE DEF s
    <2>5. SessionOk(s, u \in watching) /\ OfThisCall(s, acc, line)
      BY <2>3, <2>4 DEF SessionOk, OfThisCall
    <2>. QED BY <2>2, <2>3, <2>4, <2>5
  <1>. HIDE DEF new, gone
  <1>5. ASSUME NEW u \in c.views
        PROVE  /\ view'[u] \in SessionType /\ SessionOk(view'[u], u \in watching) /\ OfThisCall(view'[u], acc, line)
               /\ view'[u].video = view[u].video
    <2>1. CASE u = v
      BY <1>2, <1>3, <2>1
    <2>2. CASE u # v /\ u \notin old
      BY <1>0, <1>2, <2>2 DEF ViewsInv, SessionInv
    <2>3. CASE u # v /\ u \in old
      BY <1>2, <1>4, <2>3
    <2>. QED BY <2>1, <2>2, <2>3
  <1>6. view' \in [c.views -> SessionType]
    BY <1>2, <1>5
  <1>. QED BY <1>1, <1>5, <1>6, SessionsChange DEF Kept

\* stream_opened finds a call, places one, or fails.
LEMMA StreamOpenedKeeps ==
    ASSUME NEW c, Legal(c), ViewsInv(c), NEW v \in c.views, H(c)!StreamOpened(v)
    PROVE  ViewsInv(c)'
  <1>0. view \in [c.views -> SessionType] /\ view[v] \in SessionType /\ SessionOk(view[v], v \in watching)
        /\ line \in LineType
    BY DEF ViewsInv, ViewTypes, SessionInv
  <1>1. view[v].start = "hub" /\ UNCHANGED <<video, watching, acc, tc, job, encoders, open, lost>>
    BY DEF H!StreamOpened
  <1>2. \/ line' = line /\ calls' = calls
        \/ /\ line.is = "free" /\ ~line.auto /\ calls < c.calls
           /\ line' = [is |-> "placing", by |-> "view", auto |-> TRUE] /\ calls' = calls + 1
    BY <1>0 DEF H!StreamOpened, H!CallComing, LineType
  <1>3. line' \in LineType /\ calls' \in 0..c.calls /\ (line'.is = "free" => line.is = "free")
    <2>1. calls \in 0..c.calls /\ c.calls \in Nat
      BY DEF ViewsInv, ViewTypes, Legal
    <2>2. line' \in LineType /\ (line'.is = "free" => line.is = "free")
      <3>1. CASE line' = line
        BY <1>0, <3>1
      <3>2. CASE line.is = "free" /\ line' = [is |-> "placing", by |-> "view", auto |-> TRUE]
        BY <3>2 DEF LineType
      <3>. QED BY <1>2, <3>1, <3>2
    <2>3. calls' \in 0..c.calls
      BY <1>2, <2>1
    <2>. QED BY <2>2, <2>3
  <1>4. LineInv(c)'
    <2>1. CASE line' = line
      BY <1>1, <2>1 DEF ViewsInv, LineInv, CallBy, Up
    <2>2. CASE line.is = "free" /\ ~line.auto /\ line' = [is |-> "placing", by |-> "view", auto |-> TRUE]
      BY <1>1, <2>2 DEF ViewsInv, LineInv, CallBy, Up
    <2>. QED BY <1>2, <2>1, <2>2
  <1>5. \E s \in SessionType :
           /\ view' = [view EXCEPT ![v] = s] /\ SessionOk(s, v \in watching) /\ OfThisCall(s, acc', line')
           /\ view[v].video \in {"encoder", "none"} => s.video = view[v].video
    <2>1. CASE H(c)!WaitsForCall(v)
      <3>. DEFINE s == [view[v] EXCEPT !.start = "call"]
      <3>1. view' = [view EXCEPT ![v] = s]
        BY <1>0, <2>1 DEF H!WaitsForCall
      <3>2. s \in SessionType
        BY <1>0 DEF SessionType
      <3>3. SessionOk(s, v \in watching)
        BY <1>0, <1>1 DEF SessionType, SessionOk
      <3>4. OfThisCall(s, acc', line') /\ s.video = view[v].video
        BY <1>0, <1>1 DEF SessionType, SessionOk, OfThisCall
      <3>. QED BY <3>1, <3>2, <3>3, <3>4
    <2>2. CASE H(c)!Fails(v)
      <3>. DEFINE s == H(c)!Failed(view[v])
      <3>1. view' = [view EXCEPT ![v] = s]
        BY <2>2 DEF H!Fails
      <3>2. view[v].starting /\ {view[v].video, view[v].audio} \subseteq {"no", "done", "none"}
        BY <1>0, <1>1 DEF SessionOk
      <3>3. s \in SessionType /\ s.stopping /\ SessionOk(s, v \in watching) /\ s.video = view[v].video
        BY <1>0, <3>2, FailedIs
      <3>. HIDE DEF s
      <3>4. OfThisCall(s, acc', line')
        BY <3>3 DEF OfThisCall
      <3>. QED BY <3>1, <3>3, <3>4
    <2>. QED BY <2>1, <2>2 DEF H!StreamOpened
  <1>6. PICK s \in SessionType :
           /\ view' = [view EXCEPT ![v] = s] /\ SessionOk(s, v \in watching) /\ OfThisCall(s, acc', line')
           /\ view[v].video \in {"encoder", "none"} => s.video = view[v].video
    BY <1>5
  <1>7. view' \in [c.views -> SessionType] /\ view'[v] = s /\ \A u \in c.views : u # v => view'[u] = view[u]
    BY <1>0, <1>6
  <1>8. Kept(c)
    BY <1>6, <1>7 DEF Kept
  <1>9. queue' \in Seq(JobType(c.views)) /\ QueueInv(c)'
    <2>1. CASE queue' = queue
      <3>1. queue \in Seq(JobType(c.views))
        BY DEF ViewsInv, ViewTypes
      <3>2. QueueInv(c)'
        BY <1>1, <1>3, <1>8, <2>1, LockStays DEF ViewsInv
      <3>. QED BY <2>1, <3>1, <3>2
    <2>2. CASE queue' = Append(queue, H(c)!Job("early", v))
      BY <1>1, <1>3, <1>8, <2>2, LockJoined DEF ViewsInv
    <2>. QED BY <2>1, <2>2 DEF H!StreamOpened, H!WaitsForCall
  <1>10. ViewTypes(c)'
    BY <1>1, <1>3, <1>7, <1>9 DEF ViewsInv, ViewTypes, HeldInv, IsHeld
  <1>11. SessionInv(c)'
    BY <1>1, <1>3, <1>6, <1>7, OneSession DEF ViewsInv
  <1>. QED BY <1>4, <1>9, <1>10, <1>11 DEF ViewsInv

\* A view joins those who wait for the encoder.
LEMMA VideoOpenedKeeps ==
    ASSUME NEW c, Legal(c), ViewsInv(c), NEW v \in c.views, H(c)!VideoOpened(v)
    PROVE  ViewsInv(c)'
  <1>0. view \in [c.views -> SessionType] /\ view[v] \in SessionType /\ SessionOk(view[v], v \in watching)
        /\ OfThisCall(view[v], acc, line)
    BY DEF ViewsInv, ViewTypes, SessionInv
  <1>1. view[v].video = "opening" /\ UNCHANGED <<line, video, calls, watching, acc, tc, job, encoders, open, lost>>
    BY DEF H!VideoOpened, H!lineVars
  <1>2. PICK x \in {"encoder", "group"} : /\ view' = [view EXCEPT ![v].video = x]
                                         /\ \/ queue' = queue
                                            \/ x = "encoder" /\ queue' = Append(queue, H(c)!Job("view", v))
    BY DEF H!VideoOpened
  <1>. DEFINE s == [view[v] EXCEPT !.video = x]
  <1>3. view' = [view EXCEPT ![v] = s] /\ s \in SessionType
    BY <1>0, <1>2 DEF SessionType
  <1>4. SessionOk(s, v \in watching)
    BY <1>0, <1>1 DEF SessionType, SessionOk
  <1>5. OfThisCall(s, acc', line') /\ s.video = x
    BY <1>0, <1>1 DEF SessionType, OfThisCall
  <1>. HIDE DEF s
  <1>6. view' \in [c.views -> SessionType] /\ view'[v] = s /\ \A u \in c.views : u # v => view'[u] = view[u]
    BY <1>0, <1>3
  <1>7. Kept(c)
    BY <1>1, <1>6 DEF Kept
  <1>8. queue' \in Seq(JobType(c.views)) /\ QueueInv(c)'
    <2>1. CASE queue' = queue
      <3>1. queue \in Seq(JobType(c.views))
        BY DEF ViewsInv, ViewTypes
      <3>2. QueueInv(c)'
        BY <1>1, <1>7, <2>1, LockStays DEF ViewsInv
      <3>. QED BY <2>1, <3>1, <3>2
    <2>2. CASE x = "encoder" /\ queue' = Append(queue, H(c)!Job("view", v))
      <3>. DEFINE j == H(c)!Job("view", v)
      <3>1. j \in JobType(c.views) /\ j.kind = "view" /\ j.view = v /\ j.step = "waits" /\ j = H(c)!Job(j.kind, j.view)
        BY JobIs
      <3>2. queue' = Append(queue, j)
        BY <2>2
      <3>. HIDE DEF j
      <3>3. JobOk(c, view', j)
        BY <1>5, <1>6, <2>2, <3>1 DEF JobOk
      <3>4. \A i \in DOMAIN queue : queue[i].kind = "view" => queue[i].view # v
        BY <1>1 DEF ViewsInv, QueueInv, WaitersInv, JobOk
      <3>5. job # None /\ job.kind = "view" => job.view # v
        BY <1>1 DEF ViewsInv, QueueInv, JobInv, JobOk
      <3>6. acc.gen \in Nat
        BY DEF ViewsInv, ViewTypes, AccType
      <3>. QED BY <1>1, <1>7, <3>1, <3>2, <3>3, <3>4, <3>5, <3>6, Joins DEF ViewsInv
    <2>. QED BY <1>2, <2>1, <2>2
  <1>9. ViewTypes(c)'
    BY <1>1, <1>6, <1>8 DEF ViewsInv, ViewTypes, HeldInv, IsHeld
  <1>10. SessionInv(c)'
    BY <1>1, <1>4, <1>5, <1>6, OneSession DEF ViewsInv
  <1>11. LineInv(c)'
    BY <1>1 DEF ViewsInv, LineInv, CallBy, Up
  <1>. QED BY <1>8, <1>9, <1>10, <1>11 DEF ViewsInv

\* Waiters that are dropped leave the others as they were.
LEMMA WaitersCut ==
    ASSUME NEW c, ViewsInv(c), NEW places \in SUBSET DOMAIN queue, H(c)!Remain(places),
           \A k \in places : queue[k].kind = "view" => view'[queue[k].view].video = view[queue[k].view].video
    PROVE  /\ queue' \in Seq(JobType(c.views)) /\ WaitersInv(c)'
           /\ \A i \in DOMAIN queue' : \E k \in places : queue'[i] = queue[k]
           /\ \A k \in places : \E i \in DOMAIN queue' : queue'[i] = queue[k]
  <1>1. /\ queue' \in Seq(JobType(c.views))
        /\ \E f \in [DOMAIN queue' -> places] :
              /\ \A i \in DOMAIN queue' : queue'[i] = queue[f[i]]
              /\ \A i, j \in DOMAIN queue' : f[i] = f[j] => i = j
              /\ \A k \in places : \E i \in DOMAIN queue' : f[i] = k
    BY SomeStay DEF ViewsInv
  <1>2. PICK f \in [DOMAIN queue' -> places] :
           /\ \A i \in DOMAIN queue' : queue'[i] = queue[f[i]]
           /\ \A i, j \in DOMAIN queue' : f[i] = f[j] => i = j
           /\ \A k \in places : \E i \in DOMAIN queue' : f[i] = k
    BY <1>1
  <1>3. /\ \A i \in DOMAIN queue : /\ queue[i].step = "waits" /\ queue[i] = H(c)!Job(queue[i].kind, queue[i].view)
                                  /\ JobOk(c, view, queue[i])
        /\ \A i, j \in DOMAIN queue :
              queue[i].kind = "view" /\ queue[j].kind = "view" /\ queue[i].view = queue[j].view => i = j
    BY DEF ViewsInv, QueueInv, WaitersInv
  <1>4. ASSUME NEW i \in DOMAIN queue'
        PROVE  /\ queue'[i].step = "waits" /\ queue'[i] = H(c)!Job(queue'[i].kind, queue'[i].view)
               /\ JobOk(c, view', queue'[i])
    <2>1. f[i] \in places /\ f[i] \in DOMAIN queue /\ queue'[i] = queue[f[i]]
      BY <1>2
    <2>2. JobOk(c, view', queue[f[i]])
      BY <1>3, <2>1 DEF JobOk
    <2>. QED BY <1>3, <2>1, <2>2
  <1>5. ASSUME NEW i \in DOMAIN queue', NEW j \in DOMAIN queue', queue'[i].kind = "view", queue'[j].kind = "view",
               queue'[i].view = queue'[j].view
        PROVE  i = j
    <2>1. f[i] = f[j]
      BY <1>2, <1>3, <1>5
    <2>. QED BY <1>2, <2>1
  <1>6. WaitersInv(c)'
    BY <1>4, <1>5 DEF WaitersInv
  <1>7. \A i \in DOMAIN queue' : \E k \in places : queue'[i] = queue[k]
    BY <1>2
  <1>8. \A k \in places : \E i \in DOMAIN queue' : queue'[i] = queue[k]
    BY <1>2
  <1>. QED BY <1>1, <1>6, <1>7, <1>8

\* Whoever holds the lock is cancelled: an encoder that is stopped by nobody is known for it.
LEMMA CutHeld ==
    ASSUME NEW c, Legal(c), HeldInv(c), job \in JobType(c.views) \cup {None}, NEW cut, cut => job # None,
           job' = (IF cut THEN H(c)!JobCut ELSE job), lost' = lost \cup H(c)!LeftBy(cut), UNCHANGED <<tc, encoders, open>>
    PROVE  HeldInv(c)'
  <1>1. CASE ~cut
    <2>1. job' = job /\ lost' = lost
      BY <1>1 DEF H!LeftBy
    <2>. QED BY <2>1 DEF HeldInv, IsHeld
  <1>2. CASE cut
    <2>1. tc = None /\ job # None /\ \A u \in c.views : <<"tap", u>> \notin lost'
      BY <1>2 DEF HeldInv, H!LeftBy
    <2>2. CASE job.step = "start"
      <3>1. job' = [job EXCEPT !.step = "undo"] /\ lost' = lost
        BY <1>2, <2>2 DEF H!JobCut, H!LeftBy
      <3>2. job' \in JobType(c.views) /\ job'.step = "undo" /\ job'.enc = job.enc
        BY <2>1, <3>1 DEF JobType
      <3>3. job' # None
        BY <3>2 DEF Legal
      <3>. QED BY <2>1, <3>1, <3>2, <3>3 DEF HeldInv, IsHeld
    <2>3. CASE job.step \in {"stop", "undo"}
      <3>1. job' = None /\ lost' = lost \cup {<<"encoder", job.enc.id>>}
        BY <1>2, <2>3 DEF H!JobCut, H!LeftBy
      <3>. QED BY <2>1, <3>1 DEF HeldInv, IsHeld
    <2>4. CASE job.step \notin {"start", "stop", "undo"}
      <3>1. job' = None /\ lost' = lost
        BY <1>2, <2>4 DEF H!JobCut, H!LeftBy
      <3>2. job.step = "launch" \/ job.step = "waits"
        BY <2>1, <2>4 DEF JobType
      <3>3. job.enc = None
        BY <2>1, <3>2 DEF HeldInv
      <3>. QED BY <2>1, <3>1, <3>3 DEF HeldInv, IsHeld
    <2>. QED BY <2>2, <2>3, <2>4
  <1>. QED BY <1>1, <1>2

\* A start is cancelled: its job leaves the lock, or is undone.
LEMMA StartCancelledKeeps ==
    ASSUME NEW c, Legal(c), ViewsInv(c), NEW v \in c.views, H(c)!StartCancelled(v)
    PROVE  ViewsInv(c)'
  <1>0. view \in [c.views -> SessionType] /\ view[v] \in SessionType /\ SessionOk(view[v], v \in watching)
    BY DEF ViewsInv, ViewTypes, SessionInv
  <1>. DEFINE r == H(c)!Closing(view[v])
              s == [r EXCEPT !.starting = FALSE, !.start = "over", !.video = "none", !.audio = "none"]
              places == { i \in DOMAIN queue : queue[i] # H(c)!Job("view", v) }
              cut == H(c)!CutJob(v)
  <1>1. /\ view[v].start \in {"hub", "call", "picture", "parts"} \cap c.faults /\ view[v].audio # "tap"
        /\ view' = [view EXCEPT ![v] = s] /\ H(c)!Remain(places)
        /\ job' = IF cut THEN H(c)!JobCut ELSE job
        /\ lost' = lost \cup H(c)!LeftBy(cut)
        /\ UNCHANGED <<line, video, calls, watching, acc, tc, encoders, open>>
    BY DEF H!StartCancelled, H!lineVars, Legal
  <1>2. cut = (job # None /\ job.kind = "view" /\ job.view = v)
    BY DEF H!CutJob
  <1>3. r \in SessionType /\ Shut(view[v], r)
    BY <1>0, ClosingIs
  <1>. HIDE DEF r, cut
  <1>4. /\ s \in SessionType /\ s.known = r.known /\ s.start = "over" /\ s.starting = FALSE /\ s.stopping = r.stopping
        /\ s.close = r.close /\ s.video = "none" /\ s.audio = "none" /\ s.has = r.has /\ s.reads = r.reads
    BY <1>3 DEF SessionType
  <1>. HIDE DEF s
  <1>5. SessionOk(s, v \in watching) /\ OfThisCall(s, acc', line')
    <2>1. view[v].starting /\ view[v].close \notin {"closing", "over"} /\ view[v].stopping = (view[v].close # "no")
      BY <1>0, <1>1 DEF SessionOk
    <2>2. view[v].close \in {"no", "asked"} /\ v \in watching /\ "viewer" \in view[v].has
      BY <1>0, <2>1 DEF SessionOk, SessionType
    <2>3. s.close = "asked" /\ s.stopping = TRUE /\ "viewer" \in s.has
      BY <1>3, <1>4, <2>2 DEF Shut, SessionType
    <2>4. OfThisCall(s, acc', line')
      BY <1>4 DEF OfThisCall
    <2>5. (s.close # "no") = TRUE /\ (s.start \in {"hub", "call", "picture", "parts"}) = FALSE
          /\ (v \in watching) = TRUE /\ ("viewer" \in s.has) = TRUE
      BY <1>4, <2>2, <2>3
    <2>6. s.start \notin {"no", "hub", "call", "picture"} /\ s.close \notin {"no", "closing", "over"}
      BY <1>4, <2>3
    <2>. QED BY <1>4, <2>3, <2>4, <2>5, <2>6 DEF SessionOk
  <1>6. view' \in [c.views -> SessionType] /\ view'[v] = s /\ \A u \in c.views : u # v => view'[u] = view[u]
    BY <1>0, <1>1, <1>4
  <1>7. \A k \in places : queue[k].kind = "view" => queue[k].view # v /\ queue[k].view \in c.views
    BY DEF ViewsInv, QueueInv, WaitersInv, JobOk
  <1>8. places \in SUBSET DOMAIN queue
    OBVIOUS
  <1>9. \A k \in DOMAIN queue : queue[k].kind # "view" => k \in places
    BY JobIs
  <1>. HIDE DEF places
  <1>10. /\ queue' \in Seq(JobType(c.views)) /\ WaitersInv(c)'
         /\ \A i \in DOMAIN queue' : \E k \in places : queue'[i] = queue[k]
         /\ \A k \in places : \E i \in DOMAIN queue' : queue'[i] = queue[k]
    BY <1>1, <1>6, <1>7, <1>8, WaitersCut
  <1>11. job' \in JobType(c.views) \cup {None} /\ JobInv(c)'
    <2>1. job \in JobType(c.views) \cup {None} /\ JobInv(c)
      BY DEF ViewsInv, ViewTypes, QueueInv
    <2>2. CASE ~cut
      <3>1. job' = job /\ (job # None => job.kind # "view" \/ job.view # v)
        BY <1>1, <1>2, <2>2
      <3>2. ASSUME job # None PROVE JobOk(c, view', job)
        BY <1>6, <2>1, <3>1, <3>2 DEF JobInv, JobOk
      <3>3. \A i \in DOMAIN queue' : \E k \in DOMAIN queue : queue'[i] = queue[k]
        BY <1>8, <1>10
      <3>. QED BY <1>1, <2>1, <3>1, <3>2, <3>3 DEF JobInv
    <2>4. CASE job' = None
      BY <2>4 DEF JobInv
    <2>3. CASE cut /\ job' # None
      <3>1. job # None /\ job.kind = "view" /\ job.view = v /\ job' = [job EXCEPT !.step = "undo"]
        BY <1>1, <1>2, <2>3 DEF H!JobCut
      <3>2. job \in JobType(c.views) /\ job.gen \in Nat /\ job.gen <= acc.gen
        BY <2>1, <3>1 DEF JobInv
      <3>3. /\ job' \in JobType(c.views) /\ job'.kind = "view" /\ job'.view = v /\ job'.step = "undo" /\ job'.gen = job.gen
        BY <3>1, <3>2 DEF JobType
      <3>4. JobOk(c, view', job')
        BY <1>4, <1>6, <3>3 DEF JobOk
      <3>5. \A i \in DOMAIN queue' : ~(queue'[i].kind = "view" /\ queue'[i].view = v)
        BY <1>7, <1>10
      <3>. QED BY <1>1, <3>2, <3>3, <3>4, <3>5 DEF JobInv
    <2>. QED BY <2>2, <2>3, <2>4
  <1>12. OldEncoderInv'
    <2>1. ASSUME NEW i \in DOMAIN queue, queue[i].kind = "stop" PROVE \E k \in DOMAIN queue' : queue'[k].kind = "stop"
      BY <1>9, <1>10, <2>1
    <2>. QED BY <1>1, <2>1 DEF ViewsInv, QueueInv, OldEncoderInv
  <1>16. HeldInv(c)'
    BY <1>1, <1>2, CutHeld DEF ViewsInv, ViewTypes
  <1>13. ViewTypes(c)'
    BY <1>1, <1>6, <1>10, <1>11, <1>16 DEF ViewsInv, ViewTypes
  <1>14. SessionInv(c)'
    BY <1>1, <1>5, <1>6, OneSession DEF ViewsInv
  <1>15. LineInv(c)'
    BY <1>1 DEF ViewsInv, LineInv, CallBy, Up
  <1>. QED BY <1>10, <1>11, <1>12, <1>13, <1>14, <1>15 DEF ViewsInv, QueueInv

-----------------------------------------------------------------------------
\* The view that asked goes on with the encoder, or without.
LEMMA ToldIs ==
    ASSUME NEW c, ViewsInv(c), NEW j \in JobType(c.views),
           j.kind = "view" => j.view \in c.views /\ view[j.view].video = "encoder",
           NEW e \in Name \cup {None}, e = None \/ e.gen = acc.gen, H(c)!Told(j, e)
    PROVE  /\ view' \in [c.views -> SessionType] /\ KeptBut(c, j)
           /\ \A u \in c.views : SessionOk(view'[u], u \in watching) /\ OfThisCall(view'[u], acc, line)
  <1>0. view \in [c.views -> SessionType]
    BY DEF ViewsInv, ViewTypes
  <1>1. CASE j.kind # "view"
    <2>1. view' = view
      BY <1>1 DEF H!Told
    <2>2. SessionInv(c)
      BY DEF ViewsInv
    <2>. QED BY <1>0, <2>1, <2>2 DEF SessionInv, KeptBut
  <1>2. CASE j.kind = "view"
    <2>. DEFINE v == j.view
                x == IF view[v].stopping THEN "none" ELSE IF e = None THEN "group" ELSE "keyframe"
                s == [view[v] EXCEPT !.enc = e, !.video = x]
    <2>1. v \in c.views /\ view[v] \in SessionType /\ SessionOk(view[v], v \in watching) /\ OfThisCall(view[v], acc, line)
          /\ view[v].video = "encoder"
      BY <1>0, <1>2 DEF ViewsInv, SessionInv
    <2>2. view' = [view EXCEPT ![v] = s]
      BY <1>0, <1>2, <2>1 DEF H!Told, SessionType
    <2>3. x \in {"none", "group", "keyframe"}
      OBVIOUS
    <2>11. v = j.view
      OBVIOUS
    <2>. HIDE DEF v, x
    <2>4. /\ s \in SessionType /\ s.known = view[v].known /\ s.start = view[v].start /\ s.starting = view[v].starting
          /\ s.stopping = view[v].stopping /\ s.close = view[v].close /\ s.ending = view[v].ending /\ s.video = x
          /\ s.audio = view[v].audio /\ s.has = view[v].has /\ s.enc = e /\ s.reads = view[v].reads
      BY <2>1, <2>3 DEF SessionType
    <2>. HIDE DEF s
    <2>5. view[v].start = "parts"
      BY <2>1 DEF SessionType, SessionOk
    <2>6. SessionOk(s, v \in watching)
      BY <2>1, <2>4, <2>5 DEF SessionOk
    <2>7. OfThisCall(s, acc, line)
      BY <2>1, <2>4 DEF OfThisCall
    <2>8. /\ view' \in [c.views -> SessionType] /\ view'[v] = s /\ \A u \in c.views : u # v => view'[u] = view[u]
      BY <1>0, <2>1, <2>2, <2>4
    <2>9. KeptBut(c, j)
      BY <1>2, <2>8, <2>11 DEF KeptBut
    <2>10. \A u \in c.views : SessionOk(view'[u], u \in watching) /\ OfThisCall(view'[u], acc, line)
      BY <2>6, <2>7, <2>8 DEF ViewsInv, SessionInv
    <2>. QED BY <2>8, <2>9, <2>10
  <1>. QED BY <1>1, <1>2

\* A step of the encoder that leaves the line alone.
LEMMA EncoderMoves ==
    ASSUME NEW c, ViewsInv(c), view' \in [c.views -> SessionType],
           \A u \in c.views : SessionOk(view'[u], u \in watching) /\ OfThisCall(view'[u], acc, line),
           UNCHANGED <<line, video, calls, watching, acc, lost>>, tc' \in EncoderType \cup {None},
           job' \in JobType(c.views) \cup {None}, queue' \in Seq(JobType(c.views)), encoders' \in 0..c.encoders,
           QueueInv(c)', HeldInv(c)'
    PROVE  ViewsInv(c)'
  <1>1. ViewTypes(c)'
    BY DEF ViewsInv, ViewTypes
  <1>2. SessionInv(c)'
    BY DEF SessionInv
  <1>3. LineInv(c)'
    BY DEF ViewsInv, LineInv, CallBy, Up
  <1>. QED BY <1>1, <1>2, <1>3 DEF ViewsInv

\* Whoever is first in the queue wants what its session waits for.
LEMMA MineIs ==
    ASSUME NEW c, ViewsInv(c), H(c)!Takes
    PROVE  /\ job = None /\ queue # <<>> /\ queue' = Tail(queue) /\ H(c)!Mine = queue[1]
           /\ queue[1] \in JobType(c.views) /\ queue[1].step = "waits" /\ queue[1].gen = None
           /\ queue[1].kind \in {"view", "early"} => queue[1].view \in c.views
           /\ queue[1].kind = "view" => view[queue[1].view].video = "encoder"
  <1>1. job = None /\ queue # <<>> /\ queue' = Tail(queue) /\ H(c)!Mine = Head(queue)
    BY DEF H!Takes, H!Mine
  <1>2. queue[1] = Head(queue) /\ 1 \in DOMAIN queue /\ queue[1] \in JobType(c.views)
    <2>. DEFINE S == JobType(c.views)
    <2>1. queue \in Seq(S)
      BY DEF ViewsInv, ViewTypes
    <2>. HIDE DEF S
    <2>2. Len(queue) \in Nat \ {0} /\ DOMAIN queue = 1..Len(queue) /\ queue[1] = Head(queue) /\ queue[1] \in S
      BY <1>1, <2>1, TailFacts
    <2>. QED BY <2>2 DEF S
  <1>3. queue[1].step = "waits" /\ queue[1] = H(c)!Job(queue[1].kind, queue[1].view) /\ JobOk(c, view, queue[1])
    BY <1>2 DEF ViewsInv, QueueInv, WaitersInv
  <1>4. queue[1].gen = None
    BY <1>3 DEF H!Job
  <1>. QED BY <1>1, <1>2, <1>3, <1>4 DEF JobOk

\* The encoder is of this call and runs: whoever asked gets it.
LEMMA ReusesKeeps ==
    ASSUME NEW c, Legal(c), ViewsInv(c), H(c)!Reuses
    PROVE  ViewsInv(c)'
  <1>. DEFINE j == queue[1]
              e == [id |-> tc.id, gen |-> tc.gen]
  <1>0. H(c)!Takes /\ H(c)!Mine.kind # "stop" /\ H(c)!Usable /\ tc' = [tc EXCEPT !.fed = @ \/ H(c)!Mine.kind # "early"]
        /\ H(c)!Told(H(c)!Mine, H(c)!Name(tc)) /\ UNCHANGED <<line, video, calls, watching, acc, job, encoders, open, lost>>
    BY DEF H!Reuses, H!lineVars
  <1>1. /\ job = None /\ queue # <<>> /\ queue' = Tail(queue) /\ H(c)!Mine = j /\ j \in JobType(c.views)
        /\ j.kind = "view" => j.view \in c.views /\ view[j.view].video = "encoder"
    BY <1>0, MineIs
  <1>2. tc # None /\ tc.gen = acc.gen /\ tc \in EncoderType
    BY <1>0 DEF H!Usable, ViewsInv, ViewTypes
  <1>3. e \in Name /\ e.gen = acc.gen /\ H(c)!Name(tc) = e
    BY <1>2 DEF EncoderType, Name, H!Name
  <1>4. tc' \in EncoderType /\ tc'.gen = tc.gen
    <2>1. PICK b \in BOOLEAN : tc' = [tc EXCEPT !.fed = b]
      BY <1>0, <1>2 DEF EncoderType
    <2>. QED BY <1>2, <2>1 DEF EncoderType
  <1>. HIDE DEF e
  <1>5. H(c)!Told(j, e) /\ j.kind # "stop"
    BY <1>0, <1>1, <1>3
  <1>6. /\ view' \in [c.views -> SessionType] /\ KeptBut(c, j)
        /\ \A u \in c.views : SessionOk(view'[u], u \in watching) /\ OfThisCall(view'[u], acc, line)
    BY <1>1, <1>3, <1>5, ToldIs
  <1>7. /\ queue' \in Seq(JobType(c.views)) /\ WaitersInv(c)'
        /\ (\E i \in DOMAIN queue : queue[i].kind = "stop") => \E i \in DOMAIN queue' : queue'[i].kind = "stop"
    BY <1>1, <1>5, <1>6, HeadLeaves DEF ViewsInv
  <1>8. QueueInv(c)'
    <2>1. JobInv(c)'
      BY <1>0, <1>1 DEF JobInv
    <2>2. OldEncoderInv'
      BY <1>0, <1>2, <1>4, <1>7 DEF ViewsInv, QueueInv, OldEncoderInv
    <2>. QED BY <1>7, <2>1, <2>2 DEF QueueInv
  <1>9. job' \in JobType(c.views) \cup {None} /\ encoders' \in 0..c.encoders
    BY <1>0 DEF ViewsInv, ViewTypes
  <1>10. HeldInv(c)'
    <2>1. tc' # None /\ tc'.id = tc.id
      BY <1>0, <1>2, <1>4 DEF EncoderType, Legal
    <2>. QED BY <1>0, <1>1, <2>1 DEF ViewsInv, ViewTypes, HeldInv, IsHeld
  <1>. QED BY <1>0, <1>4, <1>6, <1>7, <1>8, <1>9, <1>10, EncoderMoves

\* An encoder that died, or is of an earlier call, is stopped.
LEMMA RetiresKeeps ==
    ASSUME NEW c, Legal(c), ViewsInv(c), H(c)!Retires
    PROVE  ViewsInv(c)'
  <1>. DEFINE j == queue[1]
  <1>0. H(c)!Takes /\ tc # None /\ job' = [H(c)!Mine EXCEPT !.step = "stop", !.gen = acc.gen, !.enc = tc]
        /\ tc' = None /\ view' = H(c)!Without(H(c)!Name(tc)) /\ UNCHANGED <<line, video, calls, watching, acc, encoders, open, lost>>
    BY DEF H!Retires, H!lineVars
  <1>1. /\ job = None /\ queue # <<>> /\ queue' = Tail(queue) /\ H(c)!Mine = j /\ j \in JobType(c.views)
        /\ j.kind \in {"view", "early"} => j.view \in c.views
        /\ j.kind = "view" => view[j.view].video = "encoder"
    BY <1>0, MineIs
  <1>2. tc \in EncoderType /\ acc.gen \in Nat /\ view \in [c.views -> SessionType] /\ encoders \in 0..c.encoders
    BY <1>0 DEF ViewsInv, ViewTypes, AccType
  <1>3. /\ job' \in JobType(c.views) /\ job'.kind = j.kind /\ job'.view = j.view /\ job'.step = "stop"
        /\ job'.gen = acc.gen
    BY <1>0, <1>1, <1>2 DEF JobType
  <1>4. ASSUME NEW u \in c.views
        PROVE  /\ view'[u] \in SessionType /\ view'[u].video = view[u].video
               /\ SessionOk(view'[u], u \in watching) /\ OfThisCall(view'[u], acc, line)
    <2>1. view[u] \in SessionType /\ SessionOk(view[u], u \in watching) /\ OfThisCall(view[u], acc, line)
      BY <1>2 DEF ViewsInv, SessionInv
    <2>. DEFINE s == [view[u] EXCEPT !.reads = None]
    <2>2. view'[u] = view[u] \/ view'[u] = s
      BY <1>0, <1>2 DEF H!Without
    <2>3. /\ s \in SessionType /\ s.known = view[u].known /\ s.start = view[u].start /\ s.starting = view[u].starting
          /\ s.stopping = view[u].stopping /\ s.close = view[u].close /\ s.ending = view[u].ending
          /\ s.video = view[u].video /\ s.audio = view[u].audio /\ s.has = view[u].has /\ s.enc = view[u].enc
          /\ s.reads = None
      BY <2>1 DEF SessionType
    <2>. HIDE DEF s
    <2>4. SessionOk(s, u \in watching) /\ OfThisCall(s, acc, line)
      BY <2>1, <2>3 DEF SessionOk, OfThisCall
    <2>. QED BY <2>1, <2>2, <2>3, <2>4
  <1>5. view' \in [c.views -> SessionType] /\ KeptBut(c, j)
    <2>1. view' = [u \in c.views |-> view'[u]]
      BY <1>0 DEF H!Without
    <2>. QED BY <1>4, <2>1 DEF KeptBut
  <1>6. /\ queue' \in Seq(JobType(c.views)) /\ WaitersInv(c)'
        /\ \A i \in DOMAIN queue' : ~(j.kind = "view" /\ queue'[i].kind = "view" /\ queue'[i].view = j.view)
    BY <1>1, <1>5, HeadLeaves DEF ViewsInv
  <1>7. JobInv(c)'
    <2>1. JobOk(c, view', job')
      BY <1>1, <1>3, <1>4 DEF JobOk
    <2>2. acc.gen <= acc.gen
      BY <1>2
    <2>. QED BY <1>0, <1>2, <1>3, <1>6, <2>1, <2>2 DEF JobInv
  <1>8. QueueInv(c)'
    BY <1>0, <1>6, <1>7 DEF QueueInv, OldEncoderInv
  <1>9. HeldInv(c)'
    <2>1. job' # None /\ job'.enc = tc
      BY <1>0, <1>1, <1>3 DEF JobType, Legal
    <2>. QED BY <1>0, <1>1, <2>1 DEF ViewsInv, ViewTypes, HeldInv, IsHeld
  <1>. QED BY <1>0, <1>2, <1>3, <1>4, <1>5, <1>6, <1>8, <1>9, EncoderMoves

\* There is no encoder to stop.
LEMMA Goes_onKeeps ==
    ASSUME NEW c, Legal(c), ViewsInv(c), H(c)!Goes_on
    PROVE  ViewsInv(c)'
  <1>. DEFINE j == queue[1]
  <1>0. /\ H(c)!Takes /\ tc = None
        /\ job' = IF H(c)!Mine.kind = "stop" THEN None ELSE [H(c)!Mine EXCEPT !.step = "launch", !.gen = acc.gen]
        /\ UNCHANGED <<line, video, calls, watching, acc, view, tc, encoders, open, lost>>
    BY DEF H!Goes_on, H!lineVars
  <1>1. /\ job = None /\ queue # <<>> /\ queue' = Tail(queue) /\ H(c)!Mine = j /\ j \in JobType(c.views)
        /\ j.kind \in {"view", "early"} => j.view \in c.views
        /\ j.kind = "view" => view[j.view].video = "encoder"
    BY <1>0, MineIs
  <1>2. acc.gen \in Nat /\ view \in [c.views -> SessionType] /\ encoders \in 0..c.encoders
    BY DEF ViewsInv, ViewTypes, AccType
  <1>3. /\ queue' \in Seq(JobType(c.views)) /\ WaitersInv(c)'
        /\ \A i \in DOMAIN queue' : ~(j.kind = "view" /\ queue'[i].kind = "view" /\ queue'[i].view = j.view)
    BY <1>0, <1>1, HeadLeaves DEF ViewsInv, KeptBut
  <1>4. job' \in JobType(c.views) \cup {None} /\ JobInv(c)'
    <2>1. CASE j.kind = "stop"
      BY <1>0, <1>1, <2>1 DEF JobInv
    <2>2. CASE j.kind # "stop"
      <3>1. /\ job' \in JobType(c.views) /\ job'.kind = j.kind /\ job'.view = j.view /\ job'.step = "launch"
            /\ job'.gen = acc.gen
        BY <1>0, <1>1, <1>2, <2>2 DEF JobType
      <3>2. JobOk(c, view', job')
        BY <1>0, <1>1, <3>1 DEF JobOk
      <3>3. acc.gen <= acc.gen
        BY <1>2
      <3>. QED BY <1>0, <1>2, <1>3, <2>2, <3>1, <3>2, <3>3 DEF JobInv
    <2>. QED BY <2>1, <2>2
  <1>5. QueueInv(c)'
    BY <1>0, <1>3, <1>4 DEF QueueInv, OldEncoderInv
  <1>6. \A u \in c.views : SessionOk(view[u], u \in watching) /\ OfThisCall(view[u], acc, line)
    BY DEF ViewsInv, SessionInv
  <1>7. tc' \in EncoderType \cup {None}
    BY <1>0
  <1>8. HeldInv(c)'
    <2>1. j.enc = None
      <3>1. 1 \in DOMAIN queue
        BY <1>1 DEF ViewsInv, ViewTypes
      <3>. QED BY <3>1 DEF ViewsInv, QueueInv, WaitersInv, H!Job
    <2>2. job' # None => job'.enc = None
      BY <1>0, <1>1, <2>1 DEF JobType
    <2>. QED BY <1>0, <1>1, <2>2 DEF ViewsInv, ViewTypes, HeldInv, IsHeld
  <1>. QED BY <1>0, <1>2, <1>3, <1>4, <1>5, <1>6, <1>7, <1>8, EncoderMoves

\* Whoever holds the lock wants what its session waits for.
LEMMA HolderIs ==
    ASSUME NEW c, ViewsInv(c), job # None
    PROVE  /\ job \in JobType(c.views) /\ job.gen \in Nat /\ job.gen <= acc.gen
           /\ job.kind \in {"view", "early"} => job.view \in c.views
           /\ job.kind = "view" /\ job.step # "undo" => view[job.view].video = "encoder"
           /\ \A i \in DOMAIN queue : ~(job.kind = "view" /\ queue[i].kind = "view" /\ queue[i].view = job.view)
           /\ queue \in Seq(JobType(c.views)) /\ encoders \in 0..c.encoders /\ tc \in EncoderType \cup {None}
           /\ view \in [c.views -> SessionType] /\ acc.gen \in Nat
           /\ \A u \in c.views : SessionOk(view[u], u \in watching) /\ OfThisCall(view[u], acc, line)
  BY DEF ViewsInv, ViewTypes, AccType, SessionInv, QueueInv, JobInv, JobOk

\* The holder of the lock goes one step on.
LEMMA HolderGoesOn ==
    ASSUME NEW c, ViewsInv(c), job # None, UNCHANGED <<line, video, calls, watching, acc, view, tc, queue, lost>>,
           HeldInv(c)', job' \in JobType(c.views), job'.kind = job.kind, job'.view = job.view, job'.gen = job.gen,
           job'.step \in {"launch", "start", "undo"}, job'.step \in {"launch", "start"} => job.kind # "stop",
           job.step # "undo",
           job'.step = "start" => /\ job'.enc \in EncoderType /\ job'.enc.gen = job.gen
                                  /\ job.gen = acc.gen /\ ~acc.closed => line.is # "free",
           encoders' \in 0..c.encoders
    PROVE  ViewsInv(c)'
  <1>1. /\ job \in JobType(c.views) /\ job.gen \in Nat /\ job.gen <= acc.gen
        /\ job.kind \in {"view", "early"} => job.view \in c.views
        /\ job.kind = "view" => view[job.view].video = "encoder"
        /\ \A i \in DOMAIN queue : ~(job.kind = "view" /\ queue[i].kind = "view" /\ queue[i].view = job.view)
        /\ queue \in Seq(JobType(c.views)) /\ tc \in EncoderType \cup {None}
        /\ view \in [c.views -> SessionType]
        /\ \A u \in c.views : SessionOk(view[u], u \in watching) /\ OfThisCall(view[u], acc, line)
    BY HolderIs
  <1>2. JobOk(c, view, job')
    BY <1>1 DEF JobOk
  <1>3. JobInv(c)'
    BY <1>1, <1>2 DEF JobInv
  <1>4. WaitersInv(c)'
    BY DEF ViewsInv, QueueInv, WaitersInv
  <1>5. OldEncoderInv'
    BY DEF ViewsInv, QueueInv, OldEncoderInv
  <1>. QED BY <1>1, <1>3, <1>4, <1>5, EncoderMoves DEF QueueInv

\* The holder of the lock is through.
LEMMA HolderIsThrough ==
    ASSUME NEW c, ViewsInv(c), job # None, UNCHANGED <<line, video, calls, watching, acc, queue, encoders, lost>>,
           HeldInv(c)', job' = None, KeptBut(c, job), view' \in [c.views -> SessionType],
           \A u \in c.views : SessionOk(view'[u], u \in watching) /\ OfThisCall(view'[u], acc, line),
           \/ tc' = tc
           \/ tc' \in EncoderType /\ tc'.gen = acc.gen /\ (~acc.closed => line.is # "free")
    PROVE  ViewsInv(c)'
  <1>1. queue \in Seq(JobType(c.views)) /\ encoders \in 0..c.encoders /\ tc \in EncoderType \cup {None} /\ acc.gen \in Nat
    BY HolderIs
  <1>2. WaitersInv(c)'
    BY WaitersStay DEF ViewsInv
  <1>3. JobInv(c)'
    BY DEF JobInv
  <1>4. OldEncoderInv'
    BY <1>1 DEF ViewsInv, QueueInv, OldEncoderInv
  <1>. QED BY <1>1, <1>2, <1>3, <1>4, EncoderMoves DEF QueueInv

\* The encoder has stopped: a new one is launched, if that was asked.
LEMMA RetiredKeeps ==
    ASSUME NEW c, Legal(c), ViewsInv(c), H(c)!Retired
    PROVE  ViewsInv(c)'
  <1>1. /\ job # None /\ job.step = "stop"
        /\ job' = IF job.kind = "stop" THEN None ELSE [job EXCEPT !.step = "launch", !.enc = None]
        /\ open' = open \ {job.enc.id}
        /\ UNCHANGED <<line, video, calls, watching, acc, view, tc, queue, encoders, lost>>
    BY DEF H!Retired, H!lineVars
  <1>2. /\ job \in JobType(c.views) /\ encoders \in 0..c.encoders /\ view \in [c.views -> SessionType]
        /\ \A u \in c.views : SessionOk(view[u], u \in watching) /\ OfThisCall(view[u], acc, line)
    BY <1>1, HolderIs
  <1>5. HeldInv(c)'
    <2>1. job' # None => job'.enc = None
      BY <1>1, <1>2 DEF JobType
    <2>. QED BY <1>1, <2>1 DEF ViewsInv, ViewTypes, HeldInv, IsHeld
  <1>3. CASE job.kind = "stop"
    BY <1>1, <1>2, <1>3, <1>5, HolderIsThrough DEF KeptBut
  <1>4. CASE job.kind # "stop"
    <2>1. /\ job' \in JobType(c.views) /\ job'.kind = job.kind /\ job'.view = job.view /\ job'.gen = job.gen
          /\ job'.step = "launch"
      BY <1>1, <1>2, <1>4 DEF JobType
    <2>. QED BY <1>1, <1>2, <1>4, <1>5, <2>1, HolderGoesOn
  <1>. QED BY <1>3, <1>4

\* A new encoder is launched for the call the job began in.
LEMMA LaunchesKeeps ==
    ASSUME NEW c, Legal(c), ViewsInv(c), H(c)!Launches
    PROVE  ViewsInv(c)'
  <1>. DEFINE e == [id |-> encoders + 1, gen |-> job.gen, up |-> TRUE, fed |-> FALSE]
  <1>1. /\ job # None /\ job.step = "launch" /\ H(c)!Wanted(job) /\ encoders < c.encoders
        /\ encoders' = encoders + 1 /\ open' = open \cup {encoders'}
        /\ UNCHANGED <<line, video, calls, watching, acc, view, tc, queue, lost>>
    BY DEF H!Launches, H!lineVars
  <1>2. job' = [job EXCEPT !.step = "start", !.enc = e]
    BY <1>1 DEF H!Launches
  <1>3. /\ job \in JobType(c.views) /\ job.gen \in Nat /\ encoders \in 0..c.encoders /\ c.encoders \in Nat
    BY <1>1, HolderIs DEF Legal
  <1>4. e \in EncoderType /\ e.gen = job.gen /\ e.id = encoders' /\ encoders' \in 0..c.encoders
    BY <1>1, <1>3 DEF EncoderType
  <1>. HIDE DEF e
  <1>5. /\ job' \in JobType(c.views) /\ job'.kind = job.kind /\ job'.view = job.view /\ job'.gen = job.gen
        /\ job'.step = "start" /\ job'.enc = e
    BY <1>2, <1>3, <1>4 DEF JobType
  <1>6. job.kind # "stop"
    BY <1>1 DEF ViewsInv, QueueInv, JobInv
  <1>7. line.is # "free"
    <2>1. CASE job.kind = "early"
      BY <1>1, <2>1 DEF H!Wanted, H!CallComing, ViewsInv, LineInv, Up
    <2>2. CASE job.kind # "early"
      BY <1>1, <2>2 DEF H!Wanted, ViewsInv, LineInv
    <2>. QED BY <2>1, <2>2
  <1>8. HeldInv(c)'
    <2>1. tc = None /\ open \subseteq 1..encoders /\ \A id \in open : IsHeld(id)
      BY <1>1 DEF ViewsInv, ViewTypes, HeldInv
    <2>2. job' # None /\ job'.enc # None /\ job'.enc.id = encoders'
      BY <1>4, <1>5 DEF Legal
    <2>3. \A id \in open : <<"encoder", id>> \in lost
      <3>1. job.enc = None
        BY <1>1 DEF ViewsInv, ViewTypes, HeldInv
      <3>. QED BY <2>1, <3>1 DEF IsHeld
    <2>4. open' \subseteq 1..encoders'
      BY <1>1, <1>3, <2>1
    <2>5. \A id \in open' : IsHeld(id)'
      BY <1>1, <2>2, <2>3 DEF IsHeld
    <2>. QED BY <1>1, <1>5, <2>1, <2>4, <2>5 DEF ViewsInv, ViewTypes, HeldInv
  <1>. QED BY <1>1, <1>4, <1>5, <1>6, <1>7, <1>8, HolderGoesOn

\* None is wanted any more: the view does without.
LEMMA RenouncesKeeps ==
    ASSUME NEW c, Legal(c), ViewsInv(c), H(c)!Renounces
    PROVE  ViewsInv(c)'
  <1>1. /\ job # None /\ job.step = "launch" /\ H(c)!Told(job, None) /\ job' = None
        /\ UNCHANGED <<line, video, calls, watching, acc, tc, queue, encoders, open, lost>>
    BY DEF H!Renounces, H!lineVars
  <1>2. /\ job \in JobType(c.views)
        /\ job.kind = "view" => job.view \in c.views /\ view[job.view].video = "encoder"
    BY <1>1, HolderIs
  <1>3. /\ view' \in [c.views -> SessionType] /\ KeptBut(c, job)
        /\ \A u \in c.views : SessionOk(view'[u], u \in watching) /\ OfThisCall(view'[u], acc, line)
    BY <1>1, <1>2, ToldIs
  <1>4. HeldInv(c)'
    <2>1. job.enc = None
      BY <1>1 DEF ViewsInv, ViewTypes, HeldInv
    <2>. QED BY <1>1, <2>1 DEF ViewsInv, ViewTypes, HeldInv, IsHeld
  <1>. QED BY <1>1, <1>3, <1>4, HolderIsThrough

\* The encoder is of the call that is up: whoever asked gets it.
LEMMA StartedKeeps ==
    ASSUME NEW c, Legal(c), ViewsInv(c), H(c)!Started
    PROVE  ViewsInv(c)'
  <1>. DEFINE e == [id |-> job.enc.id, gen |-> job.enc.gen]
  <1>1. /\ job # None /\ job.step = "start" /\ job.gen = acc.gen /\ ~acc.closed
        /\ tc' = [job.enc EXCEPT !.fed = job.kind # "early"] /\ H(c)!Told(job, e) /\ job' = None
        /\ UNCHANGED <<line, video, calls, watching, acc, queue, encoders, open, lost>>
    BY DEF H!Started, H!Current, H!Name, H!lineVars
  <1>2. /\ job \in JobType(c.views)
        /\ job.kind = "view" => job.view \in c.views /\ view[job.view].video = "encoder"
    BY <1>1, HolderIs
  <1>3. job.enc \in EncoderType /\ job.enc.gen = acc.gen /\ line.is # "free"
    BY <1>1 DEF ViewsInv, QueueInv, JobInv
  <1>4. e \in Name /\ e.gen = acc.gen
    BY <1>3 DEF Name, EncoderType
  <1>5. tc' \in EncoderType /\ tc'.gen = acc.gen /\ tc'.id = job.enc.id
    <2>1. PICK b \in BOOLEAN : tc' = [job.enc EXCEPT !.fed = b]
      BY <1>1
    <2>. QED BY <1>3, <2>1 DEF EncoderType
  <1>. HIDE DEF e
  <1>6. /\ view' \in [c.views -> SessionType] /\ KeptBut(c, job)
        /\ \A u \in c.views : SessionOk(view'[u], u \in watching) /\ OfThisCall(view'[u], acc, line)
    BY <1>1, <1>2, <1>4, ToldIs
  <1>7. HeldInv(c)'
    <2>1. tc' # None /\ tc = None
      BY <1>1, <1>5 DEF Legal, ViewsInv, ViewTypes, HeldInv
    <2>. QED BY <1>1, <1>5, <2>1 DEF ViewsInv, ViewTypes, HeldInv, IsHeld
  <1>. QED BY <1>1, <1>3, <1>5, <1>6, <1>7, HolderIsThrough

\* The encoder did not start, or its call is over.
LEMMA StartUndoneKeeps ==
    ASSUME NEW c, Legal(c), ViewsInv(c), H(c)!StartUndone
    PROVE  ViewsInv(c)'
  <1>1. /\ job # None /\ job.step = "start" /\ job' = [job EXCEPT !.step = "undo"]
        /\ UNCHANGED <<line, video, calls, watching, acc, view, tc, queue, encoders, open, lost>>
    BY DEF H!StartUndone, H!lineVars
  <1>2. job \in JobType(c.views) /\ encoders \in 0..c.encoders
    BY <1>1, HolderIs
  <1>3. /\ job' \in JobType(c.views) /\ job'.kind = job.kind /\ job'.view = job.view /\ job'.gen = job.gen
        /\ job'.step = "undo" /\ job'.enc = job.enc
    BY <1>1, <1>2 DEF JobType
  <1>4. HeldInv(c)'
    <2>1. job' # None
      BY <1>3 DEF Legal
    <2>. QED BY <1>1, <1>3, <2>1 DEF ViewsInv, ViewTypes, HeldInv, IsHeld
  <1>5. job.step # "undo"
    BY <1>1
  <1>. QED BY <1>1, <1>2, <1>3, <1>4, <1>5, HolderGoesOn

\* What was launched is gone; the view does without.
LEMMA UndoneKeeps ==
    ASSUME NEW c, Legal(c), ViewsInv(c), H(c)!Undone
    PROVE  ViewsInv(c)'
  <1>1. /\ job # None /\ job' = None /\ open' = open \ {job.enc.id}
        /\ UNCHANGED <<line, video, calls, watching, acc, tc, queue, encoders, lost>>
    BY DEF H!Undone, H!lineVars
  <1>5. HeldInv(c)'
    BY <1>1 DEF ViewsInv, ViewTypes, HeldInv, IsHeld
  <1>2. /\ job \in JobType(c.views) /\ view \in [c.views -> SessionType]
        /\ job.kind = "view" => job.view \in c.views
        /\ \A u \in c.views : SessionOk(view[u], u \in watching) /\ OfThisCall(view[u], acc, line)
    BY <1>1, HolderIs
  <1>3. CASE job.kind = "view" /\ view[job.view].video = "encoder" /\ H(c)!Told(job, None)
    <2>1. /\ view' \in [c.views -> SessionType] /\ KeptBut(c, job)
          /\ \A u \in c.views : SessionOk(view'[u], u \in watching) /\ OfThisCall(view'[u], acc, line)
      BY <1>2, <1>3, ToldIs
    <2>. QED BY <1>1, <1>5, <2>1, HolderIsThrough
  <1>4. CASE view' = view
    BY <1>1, <1>2, <1>4, <1>5, HolderIsThrough DEF KeptBut
  <1>. QED BY <1>3, <1>4 DEF H!Undone

\* The encoder dies; the next to ask retires it.
LEMMA EncoderDiesKeeps ==
    ASSUME NEW c, Legal(c), ViewsInv(c), H(c)!EncoderDies
    PROVE  ViewsInv(c)'
  <1>1. /\ tc # None /\ tc' = [tc EXCEPT !.up = FALSE]
        /\ UNCHANGED <<line, video, calls, watching, acc, view, job, queue, encoders, open, lost>>
    BY DEF H!EncoderDies, H!lineVars
  <1>2. /\ tc \in EncoderType /\ job \in JobType(c.views) \cup {None} /\ queue \in Seq(JobType(c.views))
        /\ encoders \in 0..c.encoders /\ view \in [c.views -> SessionType]
        /\ \A u \in c.views : SessionOk(view[u], u \in watching) /\ OfThisCall(view[u], acc, line)
    BY <1>1 DEF ViewsInv, ViewTypes, SessionInv
  <1>3. tc' \in EncoderType /\ tc'.gen = tc.gen /\ tc'.id = tc.id
    BY <1>1, <1>2 DEF EncoderType
  <1>4. QueueInv(c)'
    BY <1>1, <1>3 DEF ViewsInv, QueueInv, WaitersInv, JobInv, OldEncoderInv
  <1>5. HeldInv(c)'
    <2>1. tc' # None
      BY <1>3 DEF Legal
    <2>. QED BY <1>1, <1>3, <2>1 DEF ViewsInv, ViewTypes, HeldInv, IsHeld
  <1>. QED BY <1>1, <1>2, <1>3, <1>4, <1>5, EncoderMoves

-----------------------------------------------------------------------------
\* A session pyhap knows is closed, another stays.
LEMMA KnownClose ==
    ASSUME NEW c, ViewsInv(c), NEW v \in c.views, NEW s, NEW a, NEW l,
           \/ s = [IF view[v].known THEN H(c)!Closing(view[v]) ELSE view[v] EXCEPT !.ending = FALSE]
           \/ s = IF view[v].known THEN H(c)!Closing(view[v]) ELSE view[v],
           a.closed
    PROVE  /\ s \in SessionType /\ s.video = view[v].video /\ SessionOk(s, v \in watching) /\ OfThisCall(s, a, l)
  <1>. DEFINE r == IF view[v].known THEN H(c)!Closing(view[v]) ELSE view[v]
  <1>0. view[v] \in SessionType /\ SessionOk(view[v], v \in watching) /\ OfThisCall(view[v], acc, line)
    BY DEF ViewsInv, ViewTypes, SessionInv
  <1>1. r \in SessionType /\ r.video = view[v].video /\ SessionOk(r, v \in watching) /\ (r.stopping \/ ~r.known)
    <2>1. CASE view[v].known
      <3>. DEFINE q == H(c)!Closing(view[v])
      <3>1. q \in SessionType /\ Shut(view[v], q) /\ r = q
        BY <1>0, <2>1, ClosingIs
      <3>. HIDE DEF q, r
      <3>2. /\ q.close # "no" /\ q.stopping = TRUE /\ (q.close \in {"closing", "over"} => q.close = view[v].close)
            /\ (q.close = "asked" \/ q.close = view[v].close)
        BY <3>1 DEF Shut
      <3>3. (q.close # "no") = TRUE
        BY <3>2
      <3>4. SessionOk(q, v \in watching)
        BY <1>0, <3>1, <3>2, <3>3 DEF Shut, SessionOk
      <3>. QED BY <3>1, <3>2, <3>4 DEF Shut
    <2>2. CASE ~view[v].known
      BY <1>0, <2>2
    <2>. QED BY <2>1, <2>2
  <1>2. s = r \/ s = [r EXCEPT !.ending = FALSE]
    OBVIOUS
  <1>. HIDE DEF r
  <1>3. /\ s \in SessionType /\ s.known = r.known /\ s.start = r.start /\ s.starting = r.starting
        /\ s.stopping = r.stopping /\ s.close = r.close /\ s.video = r.video /\ s.audio = r.audio /\ s.has = r.has
        /\ s.reads = r.reads
    <2>1. CASE s = r
      BY <1>1, <2>1
    <2>2. CASE s = [r EXCEPT !.ending = FALSE]
      BY <1>1, <2>2 DEF SessionType
    <2>. QED BY <1>2, <2>1, <2>2
  <1>4. SessionOk(s, v \in watching)
    BY <1>1, <1>3 DEF SessionOk
  <1>5. s.video = "keyframe" => s.stopping
    BY <1>1, <1>3 DEF SessionOk, SessionType
  <1>. QED BY <1>1, <1>3, <1>4, <1>5 DEF OfThisCall

\* _stop closes every view and cancels its tasks.
LEMMA TurnedOffKeeps ==
    ASSUME NEW c, Legal(c), ViewsInv(c), H(c)!TurnedOff
    PROVE  ViewsInv(c)'
  <1>. DEFINE places == { i \in DOMAIN queue : queue[i].kind = "view" }
  <1>0. /\ acc.off = "no"
        /\ acc' = [acc EXCEPT !.closed = TRUE, !.off = "views", !.answer = "no", !.hangs_up = FALSE]
        /\ H(c)!Remain(places) /\ UNCHANGED <<line, video, calls, watching, tc, encoders, open>>
        /\ view' = [v \in c.views |->
                      [IF view[v].known THEN H(c)!Closing(view[v]) ELSE view[v] EXCEPT !.ending = FALSE]]
        /\ job' = (IF H(c)!CutTask THEN H(c)!JobCut ELSE job) /\ lost' = lost \cup H(c)!LeftBy(H(c)!CutTask)
    BY DEF H!TurnedOff, H!lineVars, Legal
  <1>1. /\ acc \in AccType /\ places \in SUBSET DOMAIN queue /\ job \in JobType(c.views) \cup {None}
        /\ view \in [c.views -> SessionType]
    BY DEF ViewsInv, ViewTypes
  <1>2. acc' \in AccType /\ acc'.closed /\ acc'.off = "views" /\ acc'.gen = acc.gen
    BY <1>0, <1>1 DEF AccType
  <1>3. ASSUME NEW v \in c.views
        PROVE  /\ view'[v] \in SessionType /\ view'[v].video = view[v].video
               /\ SessionOk(view'[v], v \in watching) /\ OfThisCall(view'[v], acc', line)
    <2>1. view'[v] = [IF view[v].known THEN H(c)!Closing(view[v]) ELSE view[v] EXCEPT !.ending = FALSE]
      BY <1>0
    <2>. QED BY <1>2, <2>1, KnownClose
  <1>4. view' \in [c.views -> SessionType] /\ Kept(c)
    BY <1>0, <1>3 DEF Kept
  <1>5. \A k \in places : queue[k].kind = "view" => view'[queue[k].view].video = view[queue[k].view].video
    BY <1>3 DEF ViewsInv, QueueInv, WaitersInv, JobOk
  <1>6. \A k \in places : queue[k].kind = "view" /\ k \in DOMAIN queue
    OBVIOUS
  <1>. HIDE DEF places
  <1>7. /\ queue' \in Seq(JobType(c.views)) /\ WaitersInv(c)'
        /\ \A i \in DOMAIN queue' : \E k \in places : queue'[i] = queue[k]
    BY <1>0, <1>1, <1>5, WaitersCut
  <1>8. job' \in JobType(c.views) \cup {None} /\ JobInv(c)'
    <2>1. CASE job' = None
      BY <2>1 DEF JobInv
    <2>2. CASE job # None /\ job' = job
      <3>1. JobOk(c, view', job)
        BY <1>4, <2>2 DEF ViewsInv, QueueInv, JobInv, JobOk, Kept
      <3>2. \A i \in DOMAIN queue' : \E k \in DOMAIN queue : queue'[i] = queue[k]
        BY <1>6, <1>7
      <3>. QED BY <1>1, <1>2, <2>2, <3>1, <3>2 DEF ViewsInv, QueueInv, JobInv
    <2>3. CASE job # None /\ job.kind # "view" /\ job' = [job EXCEPT !.step = "undo"]
      <3>1. job \in JobType(c.views) /\ job.gen \in Nat /\ job.gen <= acc.gen /\ (job.kind = "early" => job.view \in c.views)
        BY <2>3, HolderIs
      <3>2. /\ job' \in JobType(c.views) /\ job'.kind = job.kind /\ job'.view = job.view /\ job'.gen = job.gen
            /\ job'.step = "undo"
        BY <2>3, <3>1 DEF JobType
      <3>3. JobOk(c, view', job')
        BY <2>3, <3>1, <3>2 DEF JobOk
      <3>. QED BY <1>2, <2>3, <3>1, <3>2, <3>3 DEF JobInv
    <2>4. \/ job' = None
          \/ job # None /\ job' = job
          \/ job # None /\ job.kind # "view" /\ job' = [job EXCEPT !.step = "undo"]
      BY <1>0 DEF H!CutTask, H!JobCut
    <2>. QED BY <2>1, <2>2, <2>3, <2>4
  <1>9. OldEncoderInv'
    BY <1>0, <1>2 DEF ViewsInv, QueueInv, OldEncoderInv
  <1>13. HeldInv(c)'
    <2>1. H(c)!CutTask => job # None
      BY DEF H!CutTask
    <2>. QED BY <1>0, <1>1, <2>1, CutHeld DEF ViewsInv, ViewTypes
  <1>10. ViewTypes(c)'
    BY <1>0, <1>2, <1>4, <1>7, <1>8, <1>13 DEF ViewsInv, ViewTypes
  <1>11. SessionInv(c)'
    BY <1>0, <1>3 DEF SessionInv
  <1>12. LineInv(c)'
    BY <1>0, <1>2 DEF ViewsInv, LineInv, CallBy, Up
  <1>. QED BY <1>7, <1>8, <1>9, <1>10, <1>11, <1>12 DEF ViewsInv, QueueInv

\* Once the views are closed, the encoder is stopped.
LEMMA ViewsClosedKeeps ==
    ASSUME NEW c, Legal(c), ViewsInv(c), H(c)!ViewsClosed
    PROVE  ViewsInv(c)'
  <1>1. /\ acc.off = "views" /\ acc' = [acc EXCEPT !.off = "encoder"] /\ queue' = Append(queue, H(c)!Job("stop", None))
        /\ UNCHANGED <<line, video, calls, watching, view, tc, job, encoders, open, lost>>
    BY DEF H!ViewsClosed, H!lineVars
  <1>2. acc \in AccType /\ acc.closed
    BY <1>1 DEF ViewsInv, ViewTypes, LineInv
  <1>3. acc' \in AccType /\ acc'.off = "encoder" /\ acc'.closed /\ acc'.gen = acc.gen
    BY <1>1, <1>2 DEF AccType
  <1>4. queue' \in Seq(JobType(c.views)) /\ QueueInv(c)'
    BY <1>1, <1>3, LockJoined DEF ViewsInv, Kept
  <1>5. ViewTypes(c)'
    BY <1>1, <1>3, <1>4 DEF ViewsInv, ViewTypes, HeldInv, IsHeld
  <1>6. SessionInv(c)'
    BY <1>1, <1>3, SessionsStay DEF ViewsInv
  <1>7. LineInv(c)'
    BY <1>1, <1>3 DEF ViewsInv, LineInv, CallBy, Up
  <1>. QED BY <1>4, <1>5, <1>6, <1>7 DEF ViewsInv

\* pyhap stops the sessions it still has.
LEMMA DriverStopsKeeps ==
    ASSUME NEW c, Legal(c), ViewsInv(c), H(c)!DriverStops
    PROVE  ViewsInv(c)'
  <1>1. /\ acc.off = "encoder" /\ acc' = [acc EXCEPT !.off = "over"]
        /\ view' = [v \in c.views |-> IF view[v].known THEN H(c)!Closing(view[v]) ELSE view[v]]
        /\ UNCHANGED <<line, video, calls, watching, tc, job, queue, encoders, open, lost>>
    BY DEF H!DriverStops, H!lineVars, H!encoderVars
  <1>2. acc \in AccType /\ acc.closed
    BY <1>1 DEF ViewsInv, ViewTypes, LineInv
  <1>3. acc' \in AccType /\ acc'.off = "over" /\ acc'.closed /\ acc'.gen = acc.gen
    BY <1>1, <1>2 DEF AccType
  <1>4. ASSUME NEW v \in c.views
        PROVE  /\ view'[v] \in SessionType /\ view'[v].video = view[v].video
               /\ SessionOk(view'[v], v \in watching) /\ OfThisCall(view'[v], acc', line)
    <2>1. view'[v] = IF view[v].known THEN H(c)!Closing(view[v]) ELSE view[v]
      BY <1>1
    <2>. QED BY <1>3, <2>1, KnownClose
  <1>5. view' \in [c.views -> SessionType] /\ Kept(c)
    BY <1>1, <1>4 DEF Kept
  <1>6. QueueInv(c)'
    BY <1>1, <1>3, <1>5, LockStays DEF ViewsInv
  <1>7. ViewTypes(c)'
    BY <1>1, <1>3, <1>5 DEF ViewsInv, ViewTypes, HeldInv, IsHeld
  <1>8. SessionInv(c)'
    BY <1>1, <1>4 DEF SessionInv
  <1>9. LineInv(c)'
    BY <1>1, <1>3 DEF ViewsInv, LineInv, CallBy, Up
  <1>. QED BY <1>6, <1>7, <1>8, <1>9 DEF ViewsInv

-----------------------------------------------------------------------------
\* Nothing is known, nobody waits.
LEMMA ViewsInit ==
    ASSUME NEW c, Legal(c), H(c)!Init
    PROVE  ViewsInv(c)
  <1>. DEFINE n == H(c)!Session
  <1>1. /\ line = [is |-> "free", by |-> None, auto |-> FALSE] /\ video = FALSE /\ calls = 0
        /\ watching \in {{}, IF c.others THEN {"other"} ELSE {}}
        /\ acc = [gen |-> 0, answered |-> FALSE, answer |-> "no", hangs_up |-> FALSE, closed |-> FALSE, off |-> "no"]
        /\ view = [v \in c.views |-> n] /\ tc = None /\ job = None /\ queue = <<>> /\ encoders = 0
        /\ open = {} /\ lost = {}
    BY DEF H!Init, H!Other
  <1>2. /\ n \in SessionType /\ n.known = FALSE /\ n.start = "no" /\ n.starting = FALSE /\ n.stopping = FALSE
        /\ n.close = "no" /\ n.video = "no" /\ n.audio = "no" /\ n.has = {}
    BY DEF H!Session, SessionType, Parts
  <1>. HIDE DEF n
  <1>3. ViewTypes(c)
    <2>1. line \in LineType /\ acc \in AccType
      BY <1>1 DEF LineType, AccType
    <2>2. calls \in 0..c.calls /\ encoders \in 0..c.encoders
      BY <1>1 DEF Legal
    <2>3. queue \in Seq(JobType(c.views))
      BY <1>1
    <2>4. HeldInv(c)
      BY <1>1 DEF HeldInv
    <2>. QED BY <1>1, <1>2, <2>1, <2>2, <2>3, <2>4 DEF ViewTypes
  <1>4. SessionInv(c)
    <2>1. ASSUME NEW v \in c.views PROVE SessionOk(view[v], v \in watching) /\ OfThisCall(view[v], acc, line)
      <3>1. view[v] = n /\ v \notin watching
        BY <1>1 DEF Legal
      <3>2. /\ (v \in watching) = FALSE /\ ("viewer" \in n.has) = FALSE /\ (n.close # "no") = FALSE
            /\ (n.start \in {"hub", "call", "picture", "parts"}) = FALSE
        BY <1>2, <3>1
      <3>. QED BY <1>2, <3>1, <3>2 DEF SessionOk, OfThisCall
    <2>. QED BY <2>1 DEF SessionInv
  <1>5. LineInv(c)
    BY <1>1 DEF LineInv, CallBy, Up
  <1>6. QueueInv(c)
    <2>1. DOMAIN queue = {}
      BY <1>1
    <2>. QED BY <1>1, <2>1 DEF QueueInv, WaitersInv, JobInv, OldEncoderInv
  <1>. QED BY <1>3, <1>4, <1>5, <1>6 DEF ViewsInv

\* Every step keeps the invariant.
LEMMA ViewsStep ==
    ASSUME NEW c, Legal(c), ViewsInv(c), H(c)!Next
    PROVE  ViewsInv(c)'
  <1>1. CASE H(c)!Env
    BY <1>1, RingsKeeps, VideoComesKeeps, LineEndsKeeps, CallConnectsKeeps, OtherAnswersKeeps,
       OtherLeavesKeeps DEF H!Env
  <1>2. CASE H(c)!Answers \/ H(c)!Answered \/ H(c)!HangsUp
    BY <1>2, AnswersKeeps, AnsweredKeeps, HangsUpKeeps
  <1>3. CASE H(c)!Encoder \/ H(c)!EncoderDies
    BY <1>3, ReusesKeeps, RetiresKeeps, Goes_onKeeps, RetiredKeeps, LaunchesKeeps, RenouncesKeeps,
       StartedKeeps,
       StartUndoneKeeps, UndoneKeeps, EncoderDiesKeeps DEF H!Encoder
  <1>4. CASE H(c)!Off
    BY <1>4, TurnedOffKeeps, ViewsClosedKeeps, DriverStopsKeeps DEF H!Off
  <1>5. ASSUME NEW v \in c.views, H(c)!Start(v) PROVE ViewsInv(c)'
    BY <1>5, StreamOpenedKeeps, CallSeenKeeps, PictureSeenKeeps, VideoOpenedKeeps,
       KeyframeSeenKeeps, GroupSentKeeps,
       TapMadeKeeps, BridgeUpKeeps, FfmpegUpKeeps, OpenedKeeps DEF H!Start
  <1>6. ASSUME NEW v \in c.views, H(c)!End(v) PROVE ViewsInv(c)'
    BY <1>6, EndFromPanelKeeps, CloseBeginsKeeps, ClosedKeeps, ForgetsKeeps DEF H!End
  <1>7. ASSUME NEW v \in c.views, H(c)!Phone(v) PROVE ViewsInv(c)'
    BY <1>7, SetEndpointsKeeps, StartStreamKeeps, TalksKeeps, PhoneStopsKeeps, FfmpegExitsKeeps,
       StartCancelledKeeps
       DEF H!Phone
  <1>. QED BY <1>1, <1>2, <1>3, <1>4, <1>5, <1>6, <1>7 DEF H!Next

-----------------------------------------------------------------------------
\* No view starts to read an encoder.
ReadsKept(c) == \A u \in c.views : view'[u].reads \in {None, H(c)!Panel, view[u].reads}

\* A step of one session that starts to read no encoder.
LEMMA OneReads ==
    ASSUME NEW c, view \in [c.views -> SessionType], NEW v \in c.views, NEW s,
           view' = [view EXCEPT ![v] = s], s.reads \in {None, H(c)!Panel, view[v].reads}
    PROVE  ReadsKept(c)
  BY DEF ReadsKept

\* A session starts to read an encoder only as its keyframe is seen.
LEMMA SessionReads ==
    ASSUME NEW c, ViewsInv(c), NEW v \in c.views, H(c)!Start(v) \/ H(c)!End(v) \/ H(c)!Phone(v), ~H(c)!KeyframeSeen(v)
    PROVE  ReadsKept(c)
  <1>0. view \in [c.views -> SessionType] /\ view[v] \in SessionType
    BY DEF ViewsInv, ViewTypes
  <1>f. H(c)!Fails(v) => ReadsKept(c)
    <2>1. SUFFICES ASSUME H(c)!Fails(v) PROVE ReadsKept(c)
      OBVIOUS
    <2>. DEFINE r == H(c)!Closing(view[v])
                y == IF view[v].stopping THEN "over" ELSE "failed"
    <2>2. r \in SessionType /\ r.reads = view[v].reads
      BY <1>0, ClosingIs DEF Shut
    <2>3. view' = [view EXCEPT ![v] = [r EXCEPT !.starting = FALSE, !.start = y]]
      BY <1>0, <2>1 DEF H!Fails, H!Failed
    <2>. HIDE DEF r, y
    <2>4. [r EXCEPT !.starting = FALSE, !.start = y].reads = view[v].reads
      BY <2>2 DEF SessionType
    <2>. QED BY <1>0, <2>3, <2>4, OneReads
  <1>1. CASE H(c)!StartStream(v)
    BY <1>0, <1>1 DEF H!StartStream, SessionType, ReadsKept, H!Panel
  <1>2. CASE H(c)!CallSeen(v)
    BY <1>0, <1>f, <1>2 DEF H!CallSeen, SessionType, ReadsKept, H!Panel
  <1>3. CASE H(c)!PictureSeen(v)
    BY <1>0, <1>f, <1>3 DEF H!PictureSeen, SessionType, ReadsKept, H!Panel
  <1>4. CASE H(c)!VideoOpened(v)
    BY <1>0, <1>4 DEF H!VideoOpened, SessionType, ReadsKept, H!Panel
  <1>5. CASE H(c)!GroupSent(v)
    BY <1>0, <1>5 DEF H!GroupSent, H!Reads, H!Panel, SessionType, ReadsKept
  <1>6. CASE H(c)!TapMade(v)
    BY <1>0, <1>6 DEF H!TapMade, SessionType, ReadsKept, H!Panel
  <1>7. CASE H(c)!BridgeUp(v)
    BY <1>0, <1>7 DEF H!BridgeUp, SessionType, ReadsKept, H!Panel
  <1>8. CASE H(c)!FfmpegUp(v)
    BY <1>0, <1>8 DEF H!FfmpegUp, SessionType, ReadsKept, H!Panel
  <1>9. CASE H(c)!Opened(v)
    BY <1>0, <1>f, <1>9 DEF H!Opened, SessionType, ReadsKept, H!Panel
  <1>10. CASE H(c)!StreamOpened(v)
    BY <1>0, <1>f, <1>10 DEF H!StreamOpened, H!WaitsForCall, SessionType, ReadsKept, H!Panel
  <1>11. CASE H(c)!StartCancelled(v)
    BY <1>0, <1>11 DEF H!StartCancelled, H!Closing, SessionType, ReadsKept, H!Panel
  <1>12. CASE H(c)!PhoneStops(v)
    BY <1>0, <1>12 DEF H!PhoneStops, H!Closing, SessionType, ReadsKept, H!Panel
  <1>13. CASE H(c)!FfmpegExits(v)
    BY <1>0, <1>13 DEF H!FfmpegExits, H!Closing, SessionType, ReadsKept, H!Panel
  <1>14. CASE H(c)!EndFromPanel(v)
    BY <1>0, <1>14 DEF H!EndFromPanel, H!Closing, SessionType, ReadsKept, H!Panel
  <1>15. CASE H(c)!CloseBegins(v)
    BY <1>0, <1>15 DEF H!CloseBegins, SessionType, ReadsKept, H!Panel
  <1>16. CASE H(c)!Closed(v)
    BY <1>0, <1>16 DEF H!Closed, SessionType, ReadsKept, H!Panel
  <1>17. CASE H(c)!Forgets(v)
    BY <1>0, <1>17 DEF H!Forgets, SessionType, ReadsKept, H!Panel
  <1>18. CASE H(c)!SetEndpoints(v)
    <2>1. PICK old \in SUBSET { u \in c.views : view[u].known /\ (H(c)!NeverStarted(view[u]) \/ view[u].close = "over") } :
             view' = [u \in c.views |->
                        IF u = v THEN [H(c)!Session EXCEPT !.known = TRUE, !.has = {"a_sock", "v_sock"}]
                        ELSE IF u \notin old THEN view[u]
                        ELSE [IF H(c)!NeverStarted(view[u]) THEN H(c)!Closing(view[u]) ELSE view[u] EXCEPT !.known = FALSE]]
      BY <1>18 DEF H!SetEndpoints
    <2>2. ASSUME NEW u \in c.views PROVE view'[u].reads \in {None, view[u].reads}
      <3>1. CASE u = v
        BY <2>1, <3>1 DEF H!Session
      <3>2. CASE u # v
        <4>. DEFINE r == IF H(c)!NeverStarted(view[u]) THEN H(c)!Closing(view[u]) ELSE view[u]
        <4>1. r \in SessionType /\ r.reads = view[u].reads
          BY <1>0, ClosingIs DEF Shut
        <4>2. view'[u] = view[u] \/ view'[u] = [r EXCEPT !.known = FALSE]
          BY <2>1, <3>2
        <4>. HIDE DEF r
        <4>. QED BY <4>1, <4>2 DEF SessionType
      <3>. QED BY <3>1, <3>2
    <2>. QED BY <2>2 DEF ReadsKept
  <1>19. CASE H(c)!Talks(v)
    BY <1>0, <1>19 DEF H!Talks, ReadsKept
  <1>. QED BY <1>1, <1>2, <1>3, <1>4, <1>5, <1>6, <1>7, <1>8, <1>9, <1>10, <1>11, <1>12, <1>13,
              <1>14, <1>15, <1>16, <1>17, <1>18, <1>19 DEF H!Start, H!End, H!Phone

\* The lock's steps tell an encoder; none starts to read it.
LEMMA EncoderReads ==
    ASSUME NEW c, ViewsInv(c), H(c)!Encoder
    PROVE  ReadsKept(c)
  <1>0. view \in [c.views -> SessionType]
    BY DEF ViewsInv, ViewTypes
  <1>1. ASSUME NEW j, NEW e, H(c)!Told(j, e) PROVE ReadsKept(c)
    BY <1>0, <1>1 DEF H!Told, SessionType, ReadsKept
  <1>2. ASSUME NEW e, view' = H(c)!Without(e) PROVE ReadsKept(c)
    BY <1>0, <1>2 DEF H!Without, SessionType, ReadsKept
  <1>3. CASE UNCHANGED view
    BY <1>3 DEF ReadsKept
  <1>4. CASE H(c)!Reuses
    BY <1>1, <1>2, <1>3, <1>4 DEF H!Reuses
  <1>5. CASE H(c)!Retires
    BY <1>1, <1>2, <1>3, <1>5 DEF H!Retires
  <1>6. CASE H(c)!Goes_on
    BY <1>1, <1>2, <1>3, <1>6 DEF H!Goes_on
  <1>7. CASE H(c)!Retired
    BY <1>1, <1>2, <1>3, <1>7 DEF H!Retired
  <1>8. CASE H(c)!Launches
    BY <1>1, <1>2, <1>3, <1>8 DEF H!Launches
  <1>9. CASE H(c)!Renounces
    BY <1>1, <1>2, <1>3, <1>9 DEF H!Renounces
  <1>10. CASE H(c)!Started
    BY <1>1, <1>2, <1>3, <1>10 DEF H!Started
  <1>11. CASE H(c)!StartUndone
    BY <1>1, <1>2, <1>3, <1>11 DEF H!StartUndone
  <1>12. CASE H(c)!Undone
    BY <1>1, <1>2, <1>3, <1>12 DEF H!Undone
  <1>. QED BY <1>4, <1>5, <1>6, <1>7, <1>8, <1>9, <1>10, <1>11, <1>12 DEF H!Encoder

\* Nor do the line, the answers and HomeKit's end.
LEMMA OtherReads ==
    ASSUME NEW c, ViewsInv(c), H(c)!Env \/ H(c)!Answers \/ H(c)!Answered \/ H(c)!HangsUp \/ H(c)!EncoderDies \/ H(c)!Off
    PROVE  ReadsKept(c)
  <1>0. view \in [c.views -> SessionType]
    BY DEF ViewsInv, ViewTypes
  <1>1. CASE UNCHANGED view
    BY <1>1 DEF ReadsKept
  <1>2. CASE view' = H(c)!EndedViews
    BY <1>0, <1>2 DEF H!EndedViews, SessionType, ReadsKept
  <1>3. ASSUME NEW v \in c.views
        PROVE  LET s == IF view[v].known THEN H(c)!Closing(view[v]) ELSE view[v] IN
               s \in SessionType /\ s.reads = view[v].reads
    BY <1>0, ClosingIs DEF Shut
  <1>4. CASE H(c)!Env
    BY <1>1, <1>2, <1>4 DEF H!Env, H!Rings, H!VideoComes, H!RingEnds, H!CallEnds, H!CallFails,
       H!CallConnects,
       H!OtherAnswers, H!OtherLeaves, H!LineEnds, H!OnVideoEnded
  <1>5. CASE H(c)!Answers \/ H(c)!Answered \/ H(c)!EncoderDies
    BY <1>1, <1>5 DEF H!Answers, H!Answered, H!EncoderDies
  <1>6. CASE H(c)!HangsUp
    BY <1>1, <1>2, <1>6 DEF H!HangsUp
  <1>7. CASE H(c)!TurnedOff
    <2>1. ASSUME NEW v \in c.views PROVE view'[v].reads = view[v].reads
      <3>. DEFINE s == IF view[v].known THEN H(c)!Closing(view[v]) ELSE view[v]
      <3>1. view'[v] = [s EXCEPT !.ending = FALSE]
        BY <1>7 DEF H!TurnedOff
      <3>2. s \in SessionType /\ s.reads = view[v].reads
        BY <1>3
      <3>. HIDE DEF s
      <3>. QED BY <3>1, <3>2 DEF SessionType
    <2>. QED BY <2>1 DEF ReadsKept
  <1>8. CASE H(c)!ViewsClosed
    BY <1>1, <1>8 DEF H!ViewsClosed
  <1>9. CASE H(c)!DriverStops
    <2>1. ASSUME NEW v \in c.views PROVE view'[v].reads = view[v].reads
      BY <1>3, <1>9 DEF H!DriverStops
    <2>. QED BY <2>1 DEF ReadsKept
  <1>. QED BY <1>4, <1>5, <1>6, <1>7, <1>8, <1>9 DEF H!Off

\* A view starts to read the encoder of its call (ReadsItsCall), or it is on its way out.
LEMMA ReadsOwn ==
    ASSUME NEW c, ViewsInv(c), H(c)!Next
    PROVE  H(c)!ReadsItsCall
  <1>1. CASE ReadsKept(c)
    BY <1>1 DEF ReadsKept, H!ReadsItsCall
  <1>2. ASSUME NEW v \in c.views, H(c)!KeyframeSeen(v) PROVE H(c)!ReadsItsCall
    <2>0. view \in [c.views -> SessionType] /\ view[v] \in SessionType /\ OfThisCall(view[v], acc, line)
      BY DEF ViewsInv, ViewTypes, SessionInv
    <2>1. CASE H(c)!Reads(v, view[v].enc)
      <3>1. view[v].enc = None \/ view[v].enc.gen = acc.gen \/ view[v].ending \/ view[v].stopping
        BY <1>2, <2>0, <2>1 DEF H!KeyframeSeen, OfThisCall
      <3>2. view'[v].reads = view[v].enc /\ \A u \in c.views : u # v => view'[u] = view[u]
        BY <2>0, <2>1 DEF H!Reads, SessionType
      <3>. QED BY <3>1, <3>2 DEF H!ReadsItsCall
    <2>2. CASE \E x : view' = [view EXCEPT ![v].video = x]
      <3>1. \A u \in c.views : view'[u].reads = view[u].reads
        BY <2>0, <2>2 DEF SessionType
      <3>. QED BY <3>1 DEF H!ReadsItsCall
    <2>. QED BY <1>2, <2>1, <2>2 DEF H!KeyframeSeen
  <1>3. CASE \E v \in c.views : H(c)!Start(v) \/ H(c)!End(v) \/ H(c)!Phone(v)
    BY <1>1, <1>2, <1>3, SessionReads
  <1>4. CASE H(c)!Encoder
    BY <1>1, <1>4, EncoderReads
  <1>5. CASE H(c)!Env \/ H(c)!Answers \/ H(c)!Answered \/ H(c)!HangsUp \/ H(c)!EncoderDies \/ H(c)!Off
    BY <1>1, <1>5, OtherReads
  <1>. QED BY <1>3, <1>4, <1>5 DEF H!Next

\* HomeKit hangs up what it answered or a view placed (HangsUpItsOwn).
LEMMA HangsUpOwnCall ==
    ASSUME NEW c, ViewsInv(c)
    PROVE  H(c)!HangsUpItsOwn
  BY DEF ViewsInv, LineInv, Up, H!HangsUpItsOwn, H!HangsUp, H!Busy

-----------------------------------------------------------------------------
\* A step of another part.
LEMMA ViewsStay ==
    ASSUME NEW c, ViewsInv(c), UNCHANGED views
    PROVE  ViewsInv(c)'
  <1>1. ViewTypes(c)'
    BY DEF ViewsInv, ViewTypes, HeldInv, IsHeld, views
  <1>2. SessionInv(c)'
    BY DEF ViewsInv, SessionInv, views
  <1>3. LineInv(c)'
    BY DEF ViewsInv, LineInv, CallBy, Up, views
  <1>4. Kept(c)
    BY DEF Kept, views
  <1>5. QueueInv(c)'
    BY <1>4, LockStays DEF ViewsInv, views
  <1>. QED BY <1>1, <1>2, <1>3, <1>5 DEF ViewsInv

\* What the invariant says: what a session held is released, a view that is forgotten closes, an
\* encoder of an earlier call goes; and, where no card watches, the call ends with its last view.
LEMMA ViewsSay ==
    ASSUME NEW c, ViewsInv(c)
    PROVE  /\ H(c)!TypeOK /\ H(c)!Released /\ H(c)!NotForgotten /\ H(c)!OldEncoderGoes
           /\ ~c.others => H(c)!EndsWithLastView /\ H(c)!AnsweredIsUp
  <1>. USE DEF ViewsInv
  <1>1. H(c)!TypeOK
    <2>1. /\ line \in [is : {"free", "ringing", "placing", "call"}, by : {None, "view", "homekit", "other"}, auto : BOOLEAN]
          /\ video \in BOOLEAN /\ watching \subseteq c.views \cup {"other"} /\ calls \in 0..c.calls
      BY DEF ViewTypes, LineType
    <2>2. /\ acc.answer \in {"no", "asked", "sent"} /\ acc.off \in {"no", "views", "encoder", "over"}
          /\ acc.answered \in BOOLEAN /\ acc.hangs_up \in BOOLEAN /\ acc.closed \in BOOLEAN
      BY DEF ViewTypes, AccType
    <2>3. ASSUME NEW v \in c.views
          PROVE  /\ view[v].start \in {"no", "hub", "call", "picture", "parts", "failed", "over"}
                 /\ view[v].close \in {"no", "asked", "closing", "over"}
                 /\ view[v].video \in {"no", "opening", "encoder", "keyframe", "group", "done", "none"}
                 /\ view[v].audio \in {"no", "tap", "bridge", "ffmpeg", "done", "none"}
                 /\ view[v].has \subseteq Parts /\ (view[v].close # "no" => view[v].stopping)
      <3>1. view[v] \in SessionType
        BY DEF ViewTypes
      <3>2. view[v].stopping = (view[v].close # "no")
        BY DEF SessionInv, SessionOk
      <3>. QED BY <3>1, <3>2 DEF SessionType
    <2>4. job # None => job.kind \in {"view", "early", "prewarm", "stop"}
                        /\ job.step \in {"stop", "launch", "start", "undo"}
      BY DEF ViewTypes, QueueInv, JobInv, JobType
    <2>5. (\A i \in DOMAIN queue : queue[i].step = "waits") /\ encoders \in 0..c.encoders
      BY DEF ViewTypes, QueueInv, WaitersInv
    <2>6. open \subseteq 1..encoders
      BY DEF ViewTypes, HeldInv
    <2>. QED BY <2>1, <2>2, <2>3, <2>4, <2>5, <2>6 DEF H!TypeOK, H!Other, Parts
  <1>2. H(c)!Released
    <2>1. ASSUME NEW v \in c.views, view[v].close = "over"
          PROVE  view[v].has = {} /\ view[v].reads = None /\ v \notin watching
      BY <2>1 DEF SessionInv, SessionOk
    <2>. QED BY <2>1 DEF ViewTypes, HeldInv, IsHeld, H!Held, H!Released
  <1>3. H(c)!NotForgotten
    BY DEF SessionInv, SessionOk, H!NotForgotten
  <1>4. H(c)!OldEncoderGoes
    BY DEF QueueInv, OldEncoderInv, H!OldEncoderGoes
  <1>5. ASSUME ~c.others PROVE H(c)!EndsWithLastView /\ H(c)!AnsweredIsUp
    BY <1>5 DEF LineInv, CallBy, H!EndsWithLastView, H!AnsweredIsUp
  <1>. QED BY <1>1, <1>2, <1>3, <1>4, <1>5

\* The case that is about views, if any, keeps the invariant.
ViewsPart == \A n \in DOMAIN ViewCases : case = n => ViewsInv(ViewCases[n])

\* The cases MCDoorbell checks are among those the invariant holds in.
LEMMA CasesLegal == \A n \in DOMAIN ViewCases : Legal(ViewCases[n])
  <1>1. None \notin EncoderType
    BY NoneAssumption DEF EncoderType
  <1>2. ASSUME NEW V \in SUBSET {v1, v2} PROVE None \notin JobType(V)
    <2>1. JobType(V) \subseteq JobType({v1, v2})
      BY DEF JobType
    <2>2. None \notin JobType({v1, v2})
      BY NoneAssumption DEF JobType, EncoderType
    <2>. QED BY <2>1, <2>2
  <1>3. \A n \in DOMAIN ViewCases : ViewCases[n].views \in SUBSET {v1, v2}
    BY DEF ViewCases
  <1>. QED BY <1>1, <1>2, <1>3, ViewsAssumption DEF ViewCases, Legal, Starting

\* The chosen case begins in order.
LEMMA ViewsPartInit == Init => ViewsPart
  <1>. SUFFICES ASSUME Init, NEW n \in DOMAIN ViewCases, case = n PROVE ViewsInv(ViewCases[n])
    BY DEF ViewsPart
  <1>1. H(ViewCases[n])!Init
    BY DEF Init
  <1>. QED BY <1>1, CasesLegal, ViewsInit

\* A step of MCDoorbell is one of the case it is in.
LEMMA ViewsPartStep ==
    ASSUME ViewsPart, [Next]_vars
    PROVE  /\ ViewsPart'
           /\ \A n \in DOMAIN ViewCases : case = n => H(ViewCases[n])!HangsUpItsOwn /\ H(ViewCases[n])!ReadsItsCall
  <1>1. /\ case' = case
        /\ UNCHANGED views \/ \E n \in DOMAIN ViewCases : case = n /\ H(ViewCases[n])!Next
    BY DEF Next, vars
  <1>2. ASSUME NEW n \in DOMAIN ViewCases, case = n
        PROVE  ViewsInv(ViewCases[n])' /\ H(ViewCases[n])!HangsUpItsOwn /\ H(ViewCases[n])!ReadsItsCall
    <2>1. Legal(ViewCases[n]) /\ ViewsInv(ViewCases[n])
      BY <1>2, CasesLegal DEF ViewsPart
    <2>2. CASE UNCHANGED views
      BY <2>1, <2>2, ViewsStay, HangsUpOwnCall DEF views, H!ReadsItsCall
    <2>3. CASE H(ViewCases[n])!Next
      BY <2>1, <2>3, ViewsStep, ReadsOwn, HangsUpOwnCall
    <2>. QED BY <1>1, <1>2, <2>2, <2>3
  <1>. QED BY <1>1, <1>2 DEF ViewsPart

\* The same of any doorbell, with any set of views and any bounds, smooth or not, answering on open or
\* not, with or without a card that watches.
THEOREM DoorbellInOrder ==
    ASSUME NEW CONSTANT c, Legal(c)
    PROVE  H(c)!Spec => [](/\ H(c)!TypeOK /\ H(c)!Released /\ H(c)!NotForgotten /\ H(c)!OldEncoderGoes
                           /\ ~c.others => H(c)!EndsWithLastView /\ H(c)!AnsweredIsUp)
  <1>1. H(c)!Init => ViewsInv(c)
    BY ViewsInit
  <1>2. ViewsInv(c) /\ [H(c)!Next]_(H(c)!vars) => ViewsInv(c)'
    BY ViewsStep, ViewsStay DEF H!vars, views
  <1>3. ViewsInv(c) => /\ H(c)!TypeOK /\ H(c)!Released /\ H(c)!NotForgotten /\ H(c)!OldEncoderGoes
                       /\ ~c.others => H(c)!EndsWithLastView /\ H(c)!AnsweredIsUp
    BY ViewsSay
  <1>. QED BY <1>1, <1>2, <1>3, PTL DEF H!Spec

\* HomeKit's sessions, whatever the order of calls, answers, cancelled starts, encoders and the end
\* of HomeKit (SessionsInOrder), in every case of MCDoorbell.
THEOREM SessionsHold == Spec => []SessionsInOrder
  <1>1. Init => ViewsPart
    BY ViewsPartInit
  <1>2. ViewsPart /\ [Next]_vars => ViewsPart'
    BY ViewsPartStep
  <1>3. ViewsPart => SessionsInOrder
    BY ViewsSay DEF ViewsPart, SessionsInOrder
  <1>. QED BY <1>1, <1>2, <1>3, PTL DEF Spec

-----------------------------------------------------------------------------
\* Without a pair-setup that spans a change of code, whoever pairs first has the code in force
\* (PairsWithCurrent).
LEMMA OwnCode ==
    ASSUME "across" \notin PairFaults, PairInv, [P!Next]_pairing
    PROVE  P!PairsWithCurrent
  <1>. SUFFICES ASSUME NEW k \in Controllers, k \in paired', paired = {}
                PROVE  verifier.code \notin retired \/ unsaved
    BY DEF P!PairsWithCurrent
  <1>1. P!Pair(k)
    BY DEF pairing, P!Next, P!Load, P!StartFails, P!Ready, P!SetupBegins, P!Proved, P!NotProved,
       P!Pair, P!AddController,
       P!Unpair, P!Saved, P!StopBegins, P!Stopped, P!Off, P!Crash
  <1>2. verifier.code = code
    BY <1>1 DEF P!Pair, P!Attempt
  <1>. QED BY <1>2 DEF PairInv, SavesInv

\* Nobody ends or shows what is another's (KeepsToItsOwn): not HomeKit the call of a card, nor the
\* away message another's call, nor a view that stays another call's encoder; voice keeps its order,
\* and a code that was replaced pairs nobody.
THEOREM KeptToItsOwn == ASSUME Orderly, "across" \notin PairFaults PROVE Spec => KeepsToItsOwn
  <1>. DEFINE Inv == ViewsPart /\ DeskPart /\ PairInv /\ TalkInv /\ OrderInv
              Own == /\ \A n \in DOMAIN ViewCases : case = n => H(ViewCases[n])!HangsUpItsOwn /\ H(ViewCases[n])!ReadsItsCall
                     /\ \A n \in DOMAIN DeskCases : case = n => R(DeskCases[n])!HangsUpIts
                     /\ case = "talk" => T!Forward
                     /\ case = "pairing" => P!PairsWithCurrent
  <1>1. Init => Inv
    <2>1. Init => OrderInv
      BY DEF Init, T!Init, OrderInv
    <2>2. Init => DeskPart
      BY DeskInit, LogInit DEF Init, DeskPart
    <2>. QED BY <2>1, <2>2, ViewsPartInit, PairInit, TalkInit DEF Init
  <1>2. ASSUME Inv, [Next]_vars
        PROVE  Inv' /\ Own
    <2>1. PairInv' /\ TalkInv'
      BY <1>2, WholeSteps, PairStep, TalkStep DEF PartSteps
    <2>2. OrderInv' /\ T!Forward
      BY <1>2, WholeSteps, OrderStep DEF PartSteps
    <2>3. DeskPart' /\ \A n \in DOMAIN DeskCases : case = n => R(DeskCases[n])!HangsUpIts
      BY <1>2, DeskPartStep, AwayHangsUpItsOwn DEF DeskPart
    <2>4. /\ ViewsPart'
          /\ \A n \in DOMAIN ViewCases : case = n => H(ViewCases[n])!HangsUpItsOwn /\ H(ViewCases[n])!ReadsItsCall
      BY <1>2, ViewsPartStep
    <2>5. P!PairsWithCurrent
      BY <1>2, WholeSteps, OwnCode DEF PartSteps
    <2>. QED BY <2>1, <2>2, <2>3, <2>4, <2>5
  <1>. QED BY <1>1, <1>2, PTL DEF Spec, KeepsToItsOwn

=============================================================================
