------------------------------ MODULE AvStream ------------------------------
(***************************************************************************)
(* /av (av_stream.py): one ffmpeg for all the clients of the call's video.  *)
(* The first client starts it, the last one stops it (after a grace while   *)
(* the call goes on), the end of the call stops it at once, all under one   *)
(* asyncio lock.  Every await is a step of its own, where the task may also *)
(* be cancelled: Home Assistant cancels a handler whose client left.        *)
(***************************************************************************)
EXTENDS Naturals, Sequences

CONSTANTS
    Clients,   \* handlers of /av, and the decoder of av_passive
    Shielded,  \* clients that leave under asyncio.shield (av_passive)
    Slow,      \* clients that may be slower than the stream
    Stops,     \* tasks that run stop_media()
    Grace,     \* the task _stop_when_idle
    MaxProcs,  \* ffmpeg processes started at most
    MaxCalls,  \* calls with video at most
    Cuttable,  \* the awaits at which a task may be cancelled
    None

VARIABLES
    lock,      \* _av_lock: the holder, then the waiters in order
    at,        \* what each task is suspended on
    proc,      \* av_ffmpeg_proc
    life,      \* the life of each process
    ports,     \* the process that has bound the UDP input ports
    reaping,   \* the process _reap_task is killing
    victim,    \* the process whose exit a stop in progress waits for
    pump,      \* the process that _av_pump reads
    pumping,   \* the processes whose _av_pump_run has not returned
    clients,   \* _av_clients
    ended,     \* clients with None in their queue
    forward,   \* forward_av: RTP is sent to the input ports
    live,      \* media.video_proto.remote_addr is set
    calls,     \* calls with video so far
    cut        \* tasks cancelled

ffmpegVars == <<proc, life, ports, reaping, victim>>
pumpVars == <<pump, pumping>>
clientVars == <<clients, ended>>
callVars == <<live, calls>>
vars == <<lock, at, cut, ffmpegVars, pumpVars, clientVars, forward, callVars>>

Procs == 1 .. MaxProcs
Tasks == Clients \cup Stops \cup {Grace}
\* poll() is None: the process has not exited.
Runs(p) == p # None /\ life[p] \in {"started", "listening", "dying"}

Init ==
    /\ lock = <<>> /\ clients = {} /\ ended = {} /\ cut = {}
    /\ at = [t \in Tasks |-> "out"]
    /\ life = [p \in Procs |-> "unborn"] /\ ports = None /\ reaping = None /\ victim = None
    /\ proc = None /\ pump = None /\ pumping = {}
    /\ forward = FALSE /\ live = FALSE /\ calls = 0

-----------------------------------------------------------------------------
(* A task in the locked section.  `q` is the lock with the task at its      *)
(* head, `a` is `at` with its next stage.                                   *)

Suspends(q, a) == lock' = q /\ at' = a
Returns(q, a) == lock' = Tail(q) /\ at' = a
To(t, stage) == [at EXCEPT ![t] = stage]
Holds(t, stage) == lock # <<>> /\ Head(lock) = t /\ at[t] = stage
\* A cancelled waiter leaves the queue of the lock.
Without(q, t) ==
    LET place == CHOOSE i \in DOMAIN q : q[i] = t
    IN IF \A i \in DOMAIN q : q[i] # t THEN q
       ELSE [i \in 1 .. Len(q) - 1 |-> q[IF i < place THEN i ELSE i + 1]]

\* _cancel_idle_stop() by t: the pending idle stop is cancelled, unless it is t itself.
NoIdle(t, a) == IF t = Grace THEN a ELSE [a EXCEPT ![Grace] = "out"]
NoGrace_Left(t, q) == q
NoGrace(t, q) == IF t = Grace THEN q ELSE Without(q, Grace)

\* end_client() of everyone in S.
EndClients(S) == clients' = clients \ S /\ ended' = ended \cup S
Kill(p) == life' = [life EXCEPT ![p] = IF Runs(p) THEN "dying" ELSE @]

\* _stop_av_ffmpeg_locked() by t up to its await, or to its return when there is no process:
\* then t goes on to `next`.
StopBegins(t, q, next) ==
    /\ forward' = FALSE
    /\ proc' = None /\ victim' = proc
    /\ IF proc = None
       THEN /\ IF next = "sdp" THEN Suspends(NoGrace(t, q), NoIdle(t, To(t, next)))
                               ELSE Returns(NoGrace(t, q), NoIdle(t, To(t, next)))
            /\ UNCHANGED life
       ELSE /\ Suspends(NoGrace(t, q), NoIdle(t, To(t, IF next = "sdp" THEN "replace" ELSE "kill")))
            /\ Kill(proc)
    /\ UNCHANGED <<ports, reaping, pumpVars>>

\* av_subscribe() with the lock: a running stream is shared, else a new one is started.
Restart == proc = None \/ pump \notin pumping
SubscribeRuns(c, q) ==
    \/ /\ ~Restart
       /\ clients' = clients \cup {c}
       /\ Returns(NoGrace(c, q), NoIdle(c, To(c, "on")))
       /\ UNCHANGED <<ffmpegVars, pumpVars, ended, forward>>
    \/ /\ Restart /\ reaping # None
       /\ Suspends(NoGrace(c, q), NoIdle(c, To(c, "reap")))
       /\ UNCHANGED <<ffmpegVars, pumpVars, clientVars, forward>>
    \/ /\ Restart /\ reaping = None
       /\ StopBegins(c, q, "sdp")
       /\ UNCHANGED clientVars

\* av_unsubscribe() with the lock: the last client leaves ffmpeg running for the grace while
\* the call's video comes, and stops it otherwise.
UnsubscribeRuns(c, q) ==
    /\ clients' = clients \ {c}
    /\ ended' = ended \ {c}
    /\ \/ /\ clients' # {}
          /\ Returns(q, To(c, "out"))
          /\ UNCHANGED <<ffmpegVars, pumpVars, forward>>
       \/ /\ clients' = {} /\ proc # None /\ live
          /\ Returns(NoGrace(c, q), [To(c, "out") EXCEPT ![Grace] = "sleep"])
          /\ UNCHANGED <<ffmpegVars, pumpVars, forward>>
       \/ /\ clients' = {} /\ ~(proc # None /\ live)
          /\ StopBegins(c, q, "out")

\* stop_av_ffmpeg(), and _stop_when_idle() after its sleep, with the lock.
StopRuns(t, q) ==
    /\ IF t = Grace /\ clients # {}
       THEN Returns(q, To(t, "out")) /\ UNCHANGED <<ffmpegVars, pumpVars, forward>>
       ELSE StopBegins(t, q, IF t = Grace THEN "out" ELSE "done")
    /\ UNCHANGED clientVars

\* The lock is taken: t waits at `stage`.  A free one is had without suspending.
Queues(t, stage) ==
    /\ lock # <<>>
    /\ Suspends(Append(lock, t), To(t, stage))
    /\ UNCHANGED <<ffmpegVars, pumpVars, clientVars, forward>>

-----------------------------------------------------------------------------
(* Clients.                                                                 *)

\* hub.video_active: the call is still up while its stop_media() runs.
VideoActive == live \/ \E s \in Stops : at[s] \in {"stop", "kill"}

\* A client opens /av while the call's video comes.
Subscribe(c) ==
    /\ at[c] = "out" /\ VideoActive
    /\ (lock = <<>> /\ SubscribeRuns(c, <<c>>)) \/ Queues(c, "sub")
    /\ UNCHANGED <<cut, callVars>>

\* The client leaves, or its queue ends: the finally of _pump_response.
Leave(c) ==
    /\ at[c] = "on"
    /\ (lock = <<>> /\ UnsubscribeRuns(c, <<c>>)) \/ Queues(c, "unsub")
    /\ UNCHANGED <<cut, callVars>>

\* stop_media() at the end of a call: the video is forgotten, then ffmpeg is stopped.
StopMedia(s) ==
    /\ at[s] = "out" /\ live
    /\ live' = FALSE
    /\ (lock = <<>> /\ StopRuns(s, <<s>>)) \/ Queues(s, "stop")
    /\ UNCHANGED <<cut, calls>>

\* setup_media() of a call with video.
CallStarts ==
    /\ ~live /\ calls < MaxCalls
    /\ live' = TRUE /\ calls' = calls + 1
    /\ UNCHANGED <<lock, at, cut, ffmpegVars, pumpVars, clientVars, forward>>

\* AV_IDLE_GRACE is over.
GraceOver ==
    /\ at[Grace] = "sleep"
    /\ (lock = <<>> /\ StopRuns(Grace, <<Grace>>)) \/ Queues(Grace, "stop")
    /\ UNCHANGED <<cut, callVars>>

\* The lock is handed over.
Woken(t) ==
    /\ \/ Holds(t, "sub") /\ SubscribeRuns(t, lock)
       \/ Holds(t, "unsub") /\ UnsubscribeRuns(t, lock)
       \/ Holds(t, "stop") /\ StopRuns(t, lock)
    /\ UNCHANGED <<cut, callVars>>

-----------------------------------------------------------------------------
(* The rest of a stop, and of a start.                                      *)

\* proc.wait(2) is over: the clients are detached here, they do not wait for the pump.
Stopped(t) ==
    /\ \/ Holds(t, "kill") /\ Returns(lock, To(t, IF t \in Stops THEN "done" ELSE "out"))
       \/ Holds(t, "replace") /\ Suspends(lock, To(t, "sdp"))
    /\ life[victim] = "gone"
    /\ EndClients(clients)
    /\ UNCHANGED <<cut, ffmpegVars, pumpVars, forward, callVars>>

\* It is not waited for.
Reaped_Unwaited(c) ==
    /\ Holds(c, "reap")
    /\ StopBegins(c, lock, "sdp")
    /\ UNCHANGED <<cut, clientVars, callVars>>
\* The previous ffmpeg is reaped: the start goes on with its stop.
Reaped(c) ==
    /\ Holds(c, "reap") /\ reaping = None
    /\ StopBegins(c, lock, "sdp")
    /\ UNCHANGED <<cut, clientVars, callVars>>

\* The input SDP is written, or cannot be.
SdpWritten(c) ==
    /\ Holds(c, "sdp")
    /\ \/ \E p \in Procs :
            /\ life[p] = "unborn" /\ \A o \in 1 .. p - 1 : life[o] # "unborn"
            /\ life' = [life EXCEPT ![p] = "spawning"]
            /\ Suspends(lock, To(c, "spawn"))
       \/ Returns(lock, To(c, "out")) /\ UNCHANGED life
    /\ UNCHANGED <<cut, proc, ports, reaping, victim, pumpVars, clientVars, forward, callVars>>

\* Popen returns or raises.
Spawned(c) ==
    /\ Holds(c, "spawn")
    /\ \E p \in Procs :
        /\ life[p] = "spawning" /\ p # reaping
        /\ \/ /\ life' = [life EXCEPT ![p] = "started"]
              /\ proc' = p
              /\ Suspends(lock, To(c, "listen"))
           \/ /\ life' = [life EXCEPT ![p] = "gone"]
              /\ proc' = None
              /\ Returns(lock, To(c, "out"))
    /\ UNCHANGED <<cut, ports, reaping, victim, pumpVars, clientVars, forward, callVars>>

\* The ports are bound, or the wait timed out: RTP is forwarded and the pump starts.
Listens(c) ==
    /\ Holds(c, "listen") /\ Runs(proc)
    /\ forward' = TRUE
    /\ pump' = proc /\ pumping' = pumping \cup {proc}
    /\ clients' = clients \cup {c}
    /\ Returns(lock, To(c, "on"))
    /\ UNCHANGED <<cut, ffmpegVars, ended, callVars>>

\* ffmpeg exited: its stderr is read for at most 2 s, then the client is refused.  The dead
\* process stays in av_ffmpeg_proc.
Exited(c) ==
    /\ \/ Holds(c, "listen") /\ ~Runs(proc) /\ Suspends(lock, To(c, "autopsy"))
       \/ Holds(c, "autopsy") /\ Returns(lock, To(c, "out"))
    /\ UNCHANGED <<cut, ffmpegVars, pumpVars, clientVars, forward, callVars>>

\* Cancelled: what the await leaves behind.
Cut(t) ==
    /\ at[t] \in Cuttable /\ t \notin cut /\ t # Grace
    /\ ~(t \in Shielded /\ at[t] \in {"unsub", "kill"})
    /\ cut' = cut \cup {t}
    /\ lock' = Without(lock, t)
    /\ at' = To(t, IF t \in Stops THEN "done" ELSE "out")
    /\ IF at[t] \in {"spawn", "listen"}
       THEN \E p \in Procs : /\ life[p] = "spawning" \/ p = proc
                             /\ p # reaping
                             /\ reaping' = p /\ proc' = None
                             /\ life' = [life EXCEPT ![p] = IF Runs(p) THEN "dying" ELSE @]
       ELSE UNCHANGED <<proc, life, reaping>>
    /\ UNCHANGED <<ports, victim, pumpVars, clientVars, forward, callVars>>

\* _reap(): waits for the Popen, kills, waits.
Reap ==
    /\ reaping # None
    /\ \/ life[reaping] = "spawning" /\ \E l \in {"dying", "gone"} : life' = [life EXCEPT ![reaping] = l]
          /\ UNCHANGED reaping
       \/ life[reaping] = "gone" /\ reaping' = None /\ UNCHANGED life
    /\ UNCHANGED <<lock, at, cut, proc, ports, victim, pumpVars, clientVars, forward, callVars>>

-----------------------------------------------------------------------------
(* Processes and pumps.                                                     *)

\* ffmpeg opens its input: the ports are bound, or taken and it exits.
Binds(p) ==
    /\ life[p] = "started"
    /\ life' = [life EXCEPT ![p] = IF ports = None THEN "listening" ELSE "gone"]
    /\ ports' = IF ports = None THEN p ELSE ports
    /\ UNCHANGED <<lock, at, cut, proc, reaping, victim, pumpVars, clientVars, forward, callVars>>

\* ffmpeg exits by itself, or because it was killed.
Exits(p) ==
    /\ life[p] \in {"started", "listening", "dying"}
    /\ life' = [life EXCEPT ![p] = "gone"]
    /\ ports' = IF ports = p THEN None ELSE ports
    /\ UNCHANGED <<lock, at, cut, proc, reaping, victim, pumpVars, clientVars, forward, callVars>>

\* read1() of the pump returns nothing, at last: the current pump ends its clients.
MayEnd_Any(p) == TRUE
MayEnd(p) == pump = p
PumpEnds(p) ==
    /\ p \in pumping /\ ~(life[p] \in {"started", "listening"})
    /\ pumping' = pumping \ {p}
    /\ EndClients(IF MayEnd(p) THEN clients ELSE {})
    /\ UNCHANGED <<lock, at, cut, ffmpegVars, pump, forward, callVars>>

\* fanout() finds the queue of a client full.
TooSlow(c) ==
    /\ c \in clients \cap Slow /\ pump \in pumping
    /\ EndClients({c})
    /\ UNCHANGED <<lock, at, cut, ffmpegVars, pumpVars, forward, callVars>>

Next ==
    \/ CallStarts \/ GraceOver \/ Reap
    \/ \E c \in Clients : Subscribe(c) \/ Leave(c) \/ Reaped(c) \/ SdpWritten(c) \/ Spawned(c)
                          \/ Listens(c) \/ Exited(c) \/ TooSlow(c)
    \/ \E s \in Stops : StopMedia(s)
    \/ \E t \in Tasks : Woken(t) \/ Stopped(t) \/ Cut(t)
    \/ \E p \in Procs : Binds(p) \/ Exits(p) \/ PumpEnds(p)

Spec == Init /\ [][Next]_vars

\* Tasks run, processes answer a kill or open their input, read1() returns at the end of the
\* pipe, the grace elapses.
Fairness ==
    /\ WF_vars(GraceOver) /\ WF_vars(Reap)
    /\ \A c \in Clients : WF_vars(Reaped(c) \/ SdpWritten(c) \/ Spawned(c) \/ Listens(c) \/ Exited(c))
    /\ \A t \in Tasks : WF_vars(Woken(t) \/ Stopped(t))
    /\ \A p \in Procs : WF_vars(life[p] = "dying" /\ Exits(p)) /\ WF_vars(Binds(p)) /\ WF_vars(PumpEnds(p))
FairSpec == Spec /\ Fairness

-----------------------------------------------------------------------------
(* Properties.                                                              *)

\* Every variable has its type.
TypeOK ==
    /\ \A i \in DOMAIN lock : lock[i] \in Tasks /\ \A j \in DOMAIN lock : lock[i] = lock[j] => i = j
    /\ at \in [Tasks -> {"out", "sub", "reap", "replace", "sdp", "spawn", "listen", "autopsy", "on",
                          "unsub", "sleep", "stop", "kill", "done"}]
    /\ {proc, ports, reaping, victim, pump} \subseteq Procs \cup {None}
    /\ life \in [Procs -> {"unborn", "spawning", "started", "listening", "dying", "gone"}]
    /\ pumping \subseteq Procs /\ clients \cup ended \subseteq Clients
    /\ forward \in BOOLEAN /\ live \in BOOLEAN /\ calls \in 0 .. MaxCalls /\ cut \subseteq Tasks

\* A new ffmpeg never finds its ports taken by an earlier one ("bind failed"): a start waits
\* until the process a stop killed, or a cancelled start left behind, is gone (stop_av_ffmpeg,
\* _reap, _start_av_ffmpeg).
PortsFree == \A p \in Procs : life[p] = "started" => ports = None

\* When nobody is starting or stopping anything, a running ffmpeg has a client, or will be
\* stopped because it has none (av_subscribe, av_unsubscribe, _stop_when_idle).
Watched ==
    lock = <<>> /\ proc # None /\ life[proc] # "gone"
        => at[Grace] = "sleep" \/ \E c \in Clients : at[c] = "on"

\* RTP is sent to the input ports only when no start is under way ("packets sent before are
\* lost"), and then it is the process of av_ffmpeg_proc that reads there, never one a stop or a
\* cancelled start left dying.  One that exited by itself reads no more, and what is sent is lost
\* until the next start or stop (forward_av, av_ffmpeg_proc).
ForwardedToItsOwn ==
    forward => /\ proc # None /\ life[proc] # "dying" /\ ports \in {proc, None}
               /\ \A c \in Clients : at[c] \notin {"replace", "sdp", "spawn", "listen"}

\* A client is detached by others only when the process its pump reads is finished, or when it
\* is too slow; and only the end of the call takes ffmpeg away from clients (av_unsubscribe and
\* _stop_when_idle look again under the lock, _av_pump_run at av_ffmpeg_proc).
KeepsServing ==
    /\ \A c \in (clients \ clients') \ Slow :
         at[c] = "on" /\ at'[c] = "on" => life[pump] \in {"dying", "gone"}
    /\ proc # None /\ life[proc] = "listening" /\ proc' # proc /\ clients' # {}
         => \E s \in Stops : at'[s] = "kill"
Served == [][KeepsServing]_vars

\* Clients whose ffmpeg is gone are told so, or get another one: none waits for ever on its
\* queue (_av_pump_run, stop_av_ffmpeg).
Unserved == \E c \in Clients : at[c] = "on" /\ c \notin ended
NobodyHangs == (Unserved /\ ~Runs(proc)) ~> (~Unserved \/ Runs(proc))

=============================================================================
