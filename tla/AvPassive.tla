----------------------------- MODULE AvPassive -----------------------------
(***************************************************************************)
(* /av?idle=image (av_passive.py): one encoder for all its clients, which   *)
(* shows the standby picture, or the panel while its video comes.  The task *)
(* _run feeds the encoder and owns the decoder task _decode, a client of    *)
(* av_stream.  Clients come and go under a lock; the last one cancels _run  *)
(* and waits for its `finally`, in which every await may be cancelled.      *)
(***************************************************************************)
EXTENDS Naturals, Sequences

CONSTANTS
    Clients,   \* handlers of /av?idle=image
    Slow,      \* clients that may be slower than the stream
    Unload,    \* the task that unloads the integration
    MaxRuns,   \* encoders started at most
    MaxLive,   \* times the panel's video comes
    Cuttable,  \* the awaits at which a client's handler may be cancelled
    None

VARIABLES
    lock,      \* _lock: the holder, then the waiters in order
    at,        \* what each client and the unload is suspended on
    task,      \* _task, and _enc: the run of the current encoder
    stopping,  \* the run that the holder of the lock is stopping
    run,       \* the stage of each _run
    hit,       \* runs cancelled while in their `finally`
    byCancel,  \* runs that left their loop because they were cancelled (`cancelled`)
    encoder,   \* the encoder process of each run
    pumping,   \* runs whose _pump task has not returned
    decoder,   \* the stage of the _decode task of each run
    clients,   \* _clients
    ended,     \* clients with None in their queue
    live,      \* is_live(): the panel's video comes
    lives,     \* times it has come so far
    cut        \* handlers cancelled

taskVars == <<run, hit, byCancel, encoder, pumping>>
clientVars == <<clients, ended>>
lineVars == <<live, lives>>
vars == <<lock, at, task, stopping, taskVars, decoder, clientVars, lineVars, cut>>

Runs == 1 .. MaxRuns
Tasks == Clients \cup {Unload}

Init ==
    /\ lock = <<>> /\ task = None /\ stopping = None
    /\ at = [t \in Tasks |-> "out"]
    /\ run = [r \in Runs |-> "unborn"] /\ encoder = [r \in Runs |-> "unborn"]
    /\ decoder = [r \in Runs |-> "none"]
    /\ hit = {} /\ byCancel = {} /\ pumping = {}
    /\ clients = {} /\ ended = {} /\ cut = {}
    /\ live = FALSE /\ lives = 0

-----------------------------------------------------------------------------
(* The locked sections.                                                     *)

Suspends(q, t, stage) == lock' = q /\ at' = [at EXCEPT ![t] = stage]
Returns(q, t, stage) == lock' = Tail(q) /\ at' = [at EXCEPT ![t] = stage]
Holds(t, stage) == lock # <<>> /\ Head(lock) = t /\ at[t] = stage
\* A cancelled handler leaves the queue of the lock.
Without(q, t) ==
    LET place == CHOOSE i \in DOMAIN q : q[i] = t
    IN IF \A i \in DOMAIN q : q[i] # t THEN q
       ELSE [i \in 1 .. Len(q) - 1 |-> q[IF i < place THEN i ELSE i + 1]]
Left(t) == IF t = Unload THEN "done" ELSE "out"

\* A decoder is cancelled: it leaves the fan-out of av_stream on its way out.
Cancelled(r) == IF decoder[r] \in {"attach", "decode"} THEN "leaving" ELSE decoder[r]

\* task.cancel(): a run that has not begun never runs its `finally`; one in its loop enters it,
\* with its decoder cancelled; one that is in it already is interrupted there.
Interrupt(r) ==
    \/ /\ run[r] = "new"
       /\ run' = [run EXCEPT ![r] = "done"]
       /\ UNCHANGED <<hit, byCancel, decoder>>
    \/ /\ run[r] \in {"audio", "loop"}
       /\ run' = [run EXCEPT ![r] = "decoder"]
       /\ decoder' = [decoder EXCEPT ![r] = Cancelled(r)]
       /\ byCancel' = byCancel \cup {r}
       /\ UNCHANGED hit
    \/ /\ run[r] \in {"decoder", "wait", "pump"}
       /\ hit' = hit \cup {r}
       /\ UNCHANGED <<run, byCancel, decoder>>
    \/ run[r] = "done" /\ UNCHANGED <<run, hit, byCancel, decoder>>

\* _stop_task(): _task and _enc are forgotten first, then the run is cancelled and awaited.
StopTask(t, q) ==
    \/ task = None /\ Returns(q, t, Left(t)) /\ UNCHANGED <<task, stopping, run, hit, byCancel, decoder>>
    \/ /\ task # None
       /\ task' = None /\ stopping' = task
       /\ Interrupt(task)
       /\ Suspends(q, t, "gather")

\* subscribe(): a dead encoder is replaced.
NeedsEncoder == \A r \in Runs : task = r => run[r] = "done"
SubscribeRuns(c, q) ==
    /\ \/ NeedsEncoder /\ Suspends(q, c, "encoder") /\ UNCHANGED clients
       \/ ~NeedsEncoder /\ Returns(q, c, "on") /\ clients' = clients \cup {c}
    /\ UNCHANGED <<task, stopping, taskVars, decoder, ended>>

\* unsubscribe()
UnsubscribeRuns(c, q) ==
    /\ clients' = clients \ {c} /\ ended' = ended \ {c}
    /\ \/ clients' = {} /\ StopTask(c, q)
       \/ clients' # {} /\ Returns(q, c, "out") /\ UNCHANGED <<task, stopping, run, hit, byCancel, decoder>>
    /\ UNCHANGED <<encoder, pumping>>

\* stop()
StopRuns(t, q) ==
    /\ clients' = {} /\ ended' = ended \cup clients
    /\ StopTask(t, q)
    /\ UNCHANGED <<encoder, pumping>>

\* The lock is taken: t waits at `stage`.  A free one is had without suspending.
Queues(t, stage) ==
    /\ lock # <<>>
    /\ Suspends(Append(lock, t), t, stage)
    /\ UNCHANGED <<task, stopping, taskVars, decoder, clientVars>>

Subscribe(c) ==
    /\ at[c] = "out" /\ at[Unload] = "out"
    /\ (lock = <<>> /\ SubscribeRuns(c, <<c>>)) \/ Queues(c, "sub")
    /\ UNCHANGED <<lineVars, cut>>

\* The client leaves, or its queue ends: the finally of _pump_response.
Leave(c) ==
    /\ at[c] = "on"
    /\ (lock = <<>> /\ UnsubscribeRuns(c, <<c>>)) \/ Queues(c, "unsub")
    /\ UNCHANGED <<lineVars, cut>>

\* async_unload_entry() of the last entry.
Unloads ==
    /\ at[Unload] = "out"
    /\ (lock = <<>> /\ StopRuns(Unload, <<Unload>>)) \/ Queues(Unload, "stop")
    /\ UNCHANGED <<lineVars, cut>>

\* The lock is handed over.
Woken(t) ==
    /\ \/ Holds(t, "sub") /\ SubscribeRuns(t, lock)
       \/ Holds(t, "unsub") /\ UnsubscribeRuns(t, lock)
       \/ Holds(t, "stop") /\ StopRuns(t, lock)
    /\ UNCHANGED <<lineVars, cut>>

\* The standby picture is rendered and the encoder launched, or one of them fails.
Launched(c) ==
    /\ Holds(c, "encoder")
    /\ \/ /\ \E r \in Runs : /\ run[r] = "unborn" /\ \A o \in 1 .. r - 1 : run[o] # "unborn"
                             /\ task' = r
                             /\ run' = [run EXCEPT ![r] = "new"]
                             /\ encoder' = [encoder EXCEPT ![r] = "running"]
          /\ clients' = clients \cup {c}
          /\ Returns(lock, c, "on")
       \/ Returns(lock, c, "out") /\ UNCHANGED <<task, run, encoder, clients>>
    /\ UNCHANGED <<stopping, hit, byCancel, pumping, decoder, ended, lineVars, cut>>

\* The run awaited by _stop_task is over: an encoder it left alive is killed.
Gathered(t) ==
    /\ Holds(t, "gather") /\ run[stopping] = "done"
    /\ \/ /\ encoder[stopping] = "gone"
          /\ Returns(lock, t, Left(t)) /\ stopping' = None
          /\ UNCHANGED encoder
       \/ /\ encoder[stopping] # "gone"
          /\ encoder' = [encoder EXCEPT ![stopping] = "dying"]
          /\ Suspends(lock, t, "reap")
          /\ UNCHANGED stopping
    /\ UNCHANGED <<task, run, hit, byCancel, pumping, decoder, clientVars, lineVars, cut>>
Reaped(t) ==
    /\ Holds(t, "reap") /\ encoder[stopping] = "gone"
    /\ Returns(lock, t, Left(t)) /\ stopping' = None
    /\ UNCHANGED <<task, taskVars, decoder, clientVars, lineVars, cut>>

\* A handler is cancelled.  While it awaits gather(), gather() cancels the run once more.
Cut(c) ==
    /\ at[c] \in Cuttable \ {"out", "on"} /\ c \notin cut
    /\ cut' = cut \cup {c}
    /\ lock' = Without(lock, c)
    /\ at' = [at EXCEPT ![c] = "out"]
    /\ IF at[c] \in {"gather", "reap"} THEN stopping' = None ELSE UNCHANGED stopping
    /\ IF at[c] = "gather" THEN Interrupt(stopping) ELSE UNCHANGED <<run, hit, byCancel, decoder>>
    /\ UNCHANGED <<task, encoder, pumping, clientVars, lineVars>>

-----------------------------------------------------------------------------
(* _run                                                                     *)

Begins(r) ==
    /\ run[r] = "new"
    /\ run' = [run EXCEPT ![r] = "audio"] /\ pumping' = pumping \cup {r}
    /\ UNCHANGED <<lock, at, task, stopping, hit, byCancel, encoder, decoder, clientVars, lineVars, cut>>

\* The encoder takes the audio connection.
AudioIn(r) ==
    /\ run[r] = "audio" /\ encoder[r] = "running"
    /\ run' = [run EXCEPT ![r] = "loop"]
    /\ UNCHANGED <<lock, at, task, stopping, hit, byCancel, encoder, pumping, decoder, clientVars, lineVars, cut>>

\* One turn of the loop.  `gone`: no video for _DEAD_GRACE.
Tick(r) ==
    /\ run[r] = "loop" /\ r \in pumping
    /\ \E gone \in IF live THEN {FALSE} ELSE BOOLEAN :
        decoder' = [decoder EXCEPT ![r] =
                        IF live /\ @ \in {"none", "done"} THEN "attach"
                        ELSE IF gone THEN Cancelled(r) ELSE @]
    /\ UNCHANGED <<lock, at, task, stopping, taskVars, clientVars, lineVars, cut>>

\* The encoder is gone, or never listens: the loop is left for the `finally`.
Broken(r) ==
    /\ \/ run[r] = "loop" /\ (r \notin pumping \/ encoder[r] = "gone")
       \/ run[r] = "audio"
    /\ run' = [run EXCEPT ![r] = "decoder"]
    /\ decoder' = [decoder EXCEPT ![r] = Cancelled(r)]
    /\ UNCHANGED <<lock, at, task, stopping, hit, byCancel, encoder, pumping, clientVars, lineVars, cut>>

\* The `finally`: the decoder, the encoder and the pump are awaited in this order; then the
\* clients of an encoder that died by itself are ended.
DecoderAwaited(r) ==
    /\ run[r] = "decoder" /\ r \notin hit /\ decoder[r] \in {"none", "done"}
    /\ encoder' = [encoder EXCEPT ![r] = IF @ = "running" THEN "dying" ELSE @]
    /\ run' = [run EXCEPT ![r] = "wait"]
    /\ UNCHANGED <<lock, at, task, stopping, hit, byCancel, pumping, decoder, clientVars, lineVars, cut>>
EncoderAwaited(r) ==
    /\ run[r] = "wait" /\ r \notin hit /\ encoder[r] = "gone"
    /\ run' = [run EXCEPT ![r] = "pump"] /\ pumping' = pumping \ {r}
    /\ UNCHANGED <<lock, at, task, stopping, hit, byCancel, encoder, decoder, clientVars, lineVars, cut>>
\* The clients are not told.
Finishes_Silently(r) ==
    /\ run[r] = "pump" /\ r \notin hit
    /\ run' = [run EXCEPT ![r] = "done"]
    /\ UNCHANGED <<lock, at, task, stopping, hit, byCancel, encoder, pumping, decoder, clientVars, lineVars, cut>>
Finishes(r) ==
    /\ run[r] = "pump" /\ r \notin hit
    /\ run' = [run EXCEPT ![r] = "done"]
    /\ IF r \in byCancel THEN UNCHANGED clientVars ELSE clients' = {} /\ ended' = ended \cup clients
    /\ UNCHANGED <<lock, at, task, stopping, hit, byCancel, encoder, pumping, decoder, lineVars, cut>>

\* Cancelled inside the `finally`: the rest of it is skipped.
Unfinished(r) ==
    /\ r \in hit /\ run[r] \in {"decoder", "wait", "pump"}
    /\ run[r] = "decoder" => decoder[r] \in {"none", "done"}
    /\ run' = [run EXCEPT ![r] = "done"]
    /\ UNCHANGED <<lock, at, task, stopping, hit, byCancel, encoder, pumping, decoder, clientVars, lineVars, cut>>

-----------------------------------------------------------------------------
(* _decode, the pump, the processes, the line.                              *)

\* av_subscribe() gives a queue, or the video is over.
Attached(r) ==
    /\ decoder[r] = "attach"
    /\ decoder' = [decoder EXCEPT ![r] = IF live THEN "decode" ELSE "done"]
    /\ UNCHANGED <<lock, at, task, stopping, taskVars, clientVars, lineVars, cut>>
\* The TS ends: the fan-out is left, and joined again if there is video.
StreamEnds(r) ==
    /\ decoder[r] = "decode"
    /\ decoder' = [decoder EXCEPT ![r] = "attach"]
    /\ UNCHANGED <<lock, at, task, stopping, taskVars, clientVars, lineVars, cut>>
DecoderLeaves(r) ==
    /\ decoder[r] = "leaving"
    /\ decoder' = [decoder EXCEPT ![r] = "done"]
    /\ UNCHANGED <<lock, at, task, stopping, taskVars, clientVars, lineVars, cut>>

EncoderExits(r) ==
    /\ encoder[r] \in {"running", "dying"}
    /\ encoder' = [encoder EXCEPT ![r] = "gone"]
    /\ UNCHANGED <<lock, at, task, stopping, run, hit, byCancel, pumping, decoder, clientVars, lineVars, cut>>
PumpEnds(r) ==
    /\ r \in pumping /\ encoder[r] = "gone"
    /\ pumping' = pumping \ {r}
    /\ UNCHANGED <<lock, at, task, stopping, run, hit, byCancel, encoder, decoder, clientVars, lineVars, cut>>
TooSlow(c) ==
    /\ c \in clients \cap Slow /\ pumping # {}
    /\ clients' = clients \ {c} /\ ended' = ended \cup {c}
    /\ UNCHANGED <<lock, at, task, stopping, taskVars, decoder, lineVars, cut>>

VideoComes ==
    /\ ~live /\ lives < MaxLive /\ live' = TRUE /\ lives' = lives + 1
    /\ UNCHANGED <<lock, at, task, stopping, taskVars, decoder, clientVars, cut>>
VideoGoes ==
    /\ live /\ live' = FALSE
    /\ UNCHANGED <<lock, at, task, stopping, taskVars, decoder, clientVars, lives, cut>>

RunSteps(r) == Begins(r) \/ AudioIn(r) \/ Broken(r) \/ DecoderAwaited(r) \/ EncoderAwaited(r)
               \/ Finishes(r) \/ Unfinished(r)
Next ==
    \/ Unloads \/ VideoComes \/ VideoGoes
    \/ \E c \in Clients : Subscribe(c) \/ Leave(c) \/ Launched(c) \/ Cut(c) \/ TooSlow(c)
    \/ \E t \in Tasks : Woken(t) \/ Gathered(t) \/ Reaped(t)
    \/ \E r \in Runs : RunSteps(r) \/ Tick(r) \/ Attached(r) \/ StreamEnds(r)
                       \/ DecoderLeaves(r) \/ EncoderExits(r) \/ PumpEnds(r)
Spec == Init /\ [][Next]_vars
\* Tasks run, processes answer a kill, a decoder gets out of av_stream, a client whose queue has
\* ended leaves.
Fairness ==
    /\ \A t \in Tasks : WF_vars(Woken(t) \/ Gathered(t) \/ Reaped(t))
    /\ \A c \in Clients : WF_vars(Launched(c)) /\ WF_vars(c \in ended /\ Leave(c))
    /\ \A r \in Runs : /\ WF_vars(RunSteps(r)) /\ WF_vars(PumpEnds(r)) /\ WF_vars(DecoderLeaves(r))
                       /\ WF_vars(encoder[r] = "dying" /\ EncoderExits(r)) /\ WF_vars(Tick(r))
FairSpec == Spec /\ Fairness

-----------------------------------------------------------------------------
(* Properties.                                                              *)

TypeOK ==
    /\ \A i \in DOMAIN lock : lock[i] \in Tasks /\ \A j \in DOMAIN lock : lock[i] = lock[j] => i = j
    /\ at \in [Tasks -> {"out", "sub", "encoder", "on", "unsub", "stop", "gather", "reap", "done"}]
    /\ {task, stopping} \subseteq Runs \cup {None}
    /\ run \in [Runs -> {"unborn", "new", "audio", "loop", "decoder", "wait", "pump", "done"}]
    /\ encoder \in [Runs -> {"unborn", "running", "dying", "gone"}]
    /\ decoder \in [Runs -> {"none", "attach", "decode", "leaving", "done"}]
    /\ hit \cup byCancel \cup pumping \subseteq Runs
    /\ clients \cup ended \cup cut \subseteq Clients
    /\ live \in BOOLEAN /\ lives \in 0 .. MaxLive

\* An encoder is never left behind: while it runs, its task does, or the task that stops it will
\* still kill it (_run's `finally`, _stop, which a cancelled handler may leave half way).
EncoderOwned ==
    \A r \in Runs : encoder[r] = "running" => run[r] # "done" \/ stopping = r

\* One encoder at a time is fed (_stop waits for the task before it forgets it).
OneEncoder ==
    \A r, o \in Runs : run[r] \in {"audio", "loop"} /\ run[o] \in {"audio", "loop"} => r = o

\* Without clients the encoder stops (unsubscribe)...
NobodyWatches == (clients = {} /\ task # None) ~> (clients # {} \/ task = None)
\* ... with clients one runs, or they are told the stream is over (subscribe, _run).
Encoding == \E r \in Runs : encoder[r] = "running"
ClientServed == (clients # {} /\ ~Encoding) ~> (clients = {} \/ Encoding)

=============================================================================
