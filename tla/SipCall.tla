------------------------------ MODULE SipCall ------------------------------
(***************************************************************************)
(* The call state of the integration, sip_client.py with the part of       *)
(* hub.py that its broadcasts drive: INVITEs we place (do_call), rings the *)
(* panel places (handle_incoming_invite), answering, declining, hanging up *)
(* and the BYE, CANCEL and ACK handlers.  All of it runs as coroutines of  *)
(* one asyncio event loop that share module variables without a lock.      *)
(*                                                                         *)
(* A coroutine is a task with a program counter and one action per segment *)
(* between two awaits.  `loop` is the task that holds the event loop: an   *)
(* await that cannot suspend keeps the loop, one that can releases it and  *)
(* every other task may run before this one continues.  Which awaits can   *)
(* suspend depends on the transport and on what is connected, so it is the *)
(* constant Yields.  Waits for the panel or for a deadline always release. *)
(*                                                                         *)
(* An operator X_Slip just before an operator X is X with a plausible slip *)
(* in its code, named for the slip.  The specification does not use it;    *)
(* with it in the place of X, properties that PROJECT.json names fail.     *)
(***************************************************************************)
EXTENDS Naturals, Sequences, FiniteSets

CONSTANTS
    Outgoing,   \* Call-IDs of the INVITEs we send
    Incoming,   \* Call-IDs of the INVITEs the panel sends
    Views,      \* the outgoing calls placed with a silence limit ("Vedi esterno")
    Offers,     \* the incoming INVITEs that carry an SDP offer
    Foreign,    \* the calls whose remote SDP _remote_media refuses
    Hangups,    \* requests to hang up: button, card, HomeKit, viewers gone
    LongCalls,  \* TRUE: a call may last until the hub's call timer fires
    Yields,     \* the kinds of await that can suspend
    SendFails,  \* TRUE: send() may raise (TLS down, no route)
    Reinvites,  \* the calls in which, once established, the panel may re-INVITE
    Lossy,      \* our messages that may get lost (local UDP), each on its own
    MaxLoss,    \* how many of them
    None        \* no Call-ID, no SDP, nobody

Cid == Outgoing \cup Incoming

\* What send(), stop_media(), setup_media() and the WebSocket fan-out of a
\* broadcast wait for: the transport lock and drain, the exit of ffmpeg, the
\* RTCP probes of a DEBUG log, a slow client.
AwaitKinds == {"send", "stop", "setup", "emit"}

\* Bound: the panel repeats a 200 after 500 ms, long after do_call has read the first.
QueueBound == 2

\* A "lone BYE" is sent once: that of a 200 nobody wants and that of a hang-up cut short.
\* A "BYE" is do_hangup's, which Timer E repeats.
ToPanel == {"INVITE", "CANCEL", "ACK", "BYE", "lone BYE", "200", "final"}

ASSUME CidAssumption == Outgoing \cap Incoming = {}
ASSUME CallAssumption == /\ Views \subseteq Outgoing
                         /\ Offers \subseteq Incoming
                         /\ Foreign \subseteq Outgoing \cup Offers
ASSUME EnvAssumption == /\ Yields \subseteq AwaitKinds
                        /\ SendFails \in BOOLEAN
                        /\ LongCalls \in BOOLEAN
                        /\ Reinvites \subseteq Outgoing \cup Incoming
                        /\ Lossy \subseteq ToPanel
                        /\ MaxLoss \in 0 .. 3
ASSUME HangupAssumption == "timer" \notin Hangups

----------------------------------------------------------------------------
\* Tasks of the event loop.
Call(o)      == <<"call", o>>          \* do_call
Invite(c)    == <<"invite", c>>        \* handle_incoming_invite, a new ring
Reinvite(c)  == <<"reinvite", c>>      \* handle_incoming_invite, in dialog
Cancel(c)    == <<"cancel", c>>        \* handle_incoming_cancel
Bye(c)       == <<"bye", c>>           \* handle_incoming_bye
Ack(c)       == <<"ack", c>>           \* _media_from_ack
Answer(c)    == <<"answer", c>>        \* do_answer_incoming
Decline(why) == <<"decline", why>>     \* do_decline_incoming
Hangup(h)    == <<"hangup", h>>        \* do_hangup
Timer        == Hangup("timer")        \* hub._call_timeout, which hangs up

DeclineReasons == {"user", "expired", "echo"}  \* 603, 480, 486
HangupIds == Hangups \cup {"timer"}

Task == {Call(o) : o \in Outgoing}
        \cup {<<k, c>> : k \in {"invite", "reinvite", "cancel", "bye", "ack", "answer"},
                         c \in Cid}
        \cup {Decline(w) : w \in DeclineReasons}
        \cup {Hangup(h) : h \in HangupIds}

ASSUME NoneAssumption == None \notin Cid \cup Task

Label == {"idle", "done",
          "invited", "waiting", "accepted", "connected", "started", "keyframe",
          "annulled", "forgotten", "leaving",
          "progress", "preview", "no preview", "ringing", "rung",
          "agreed", "known", "unknown", "terminated", "ended", "told",
          "byeing", "cut", "waiting bye",
          "answered", "answered preview", "up", "refused", "not sent",
          "spawned", "declined", "dropped"}

VARIABLES
    \* sip_client module state
    in_call, calling, call_id, silence_limit, remote_sdp, pending_responses,
    ring,        \* pending_incoming: active, cid, early, resp
    ring_timer,  \* the ring the 90 s timer was armed for, or None
    queue,       \* what do_call has not read yet from its response queue
    media,       \* media_handler: "off", "preview", "full", "limited"
    \* hub state
    was_ringing, call_timer,
    \* the event loop
    loop, pc,
    hung,        \* the call each do_hangup is closing
    \* the panel and the network
    peer, net, lost,
    unclosed     \* history: the dialogs the panel holds because a BYE got lost that
                 \* nothing repeats

lineVars == <<in_call, calling, call_id, silence_limit, remote_sdp>>
ringVars == <<ring, ring_timer>>
hubVars == <<was_ringing, call_timer>>
envVars == <<peer, net, lost, unclosed>>
vars == <<lineVars, pending_responses, queue, ringVars, media, hubVars, loop, pc, hung, envVars>>

----------------------------------------------------------------------------
\* The event loop.

At(t, label) == pc[t] = label /\ loop \in {None, t}

\* A queued response has already scheduled do_call's wake-up: whatever starts now
\* is scheduled behind it.
WakeupDue == \E o \in Outgoing : pc[Call(o)] = "waiting" /\ queue[o] # <<>>

Idle == loop = None /\ ~WakeupDue
Free(t) == pc[t] = "idle" /\ Idle

Await(t, kind, label) == /\ pc' = [pc EXCEPT ![t] = label]
                         /\ loop' = IF kind \in Yields THEN None ELSE t
WaitsAt(t, label) == pc' = [pc EXCEPT ![t] = label] /\ loop' = None
Continues(t, label) == pc' = [pc EXCEPT ![t] = label] /\ loop' = t
Ends(t) == WaitsAt(t, "idle")

----------------------------------------------------------------------------
\* The panel's side of a dialog, and our messages to it.

PeerState == {"none", "trying", "answered",        \* an INVITE of ours
              "calling", "acking", "refusing",     \* an INVITE of the panel
              "up", "down"}

\* The peer of call c in state s after it received message m.  A 200 for an
\* INVITE the panel has cancelled opens a dialog it closes with a BYE.
Reaction(c, s, m) ==
    CASE m = "INVITE" /\ s = "none" -> "trying"
      [] m = "CANCEL" /\ s = "trying" -> "down"
      [] m = "ACK" /\ s = "answered" -> "up"
      [] m \in {"BYE", "lone BYE"} /\ s \in {"answered", "acking", "up"} -> "down"
      [] m = "200" /\ s = "calling" -> IF c \in Offers THEN "up" ELSE "acking"
      [] m = "200" /\ s = "down" -> "refusing"
      [] m = "final" /\ s = "calling" -> "down"
      [] OTHER -> s

\* A lone BYE that does not reach a panel in state s.
Misses(c, s) == IF s \in {"acking", "up"} THEN unclosed \cup {c} ELSE unclosed

Sends(c, m) == \/ /\ peer' = [peer EXCEPT ![c] = Reaction(c, @, m)]
                  /\ UNCHANGED <<lost, unclosed>>
               \/ /\ m \in Lossy /\ lost < MaxLoss
                  /\ lost' = lost + 1
                  /\ unclosed' = IF m = "lone BYE" THEN Misses(c, peer[c]) ELSE unclosed
                  /\ UNCHANGED peer

\* _close_orphan_invite of a 200: an ACK, then a lone BYE; each arrives or gets lost.
AckThenBye(c) == \E ack, bye \in BOOLEAN :
    LET acked == IF ack THEN Reaction(c, peer[c], "ACK") ELSE peer[c]
    IN /\ ack \/ "ACK" \in Lossy
       /\ bye \/ "lone BYE" \in Lossy
       /\ lost' = lost + (IF ack THEN 0 ELSE 1) + (IF bye THEN 0 ELSE 1)
       /\ lost' <= MaxLoss
       /\ peer' = [peer EXCEPT ![c] = IF bye THEN Reaction(c, acked, "lone BYE") ELSE acked]
       /\ unclosed' = IF bye THEN unclosed ELSE Misses(c, acked)
\* Either of the two sends raises.
AckThenByeFails(c) == SendFails /\ (Sends(c, "ACK") \/ UNCHANGED <<peer, lost, unclosed>>)

Message == [type : {"200", "reject"}, cid : Outgoing]
           \cup [type : {"INVITE", "CANCEL", "ACK"}, cid : Incoming]
           \cup [type : {"BYE", "re-INVITE"}, cid : Cid]

Msg(type, c) == [type |-> type, cid |-> c]
InNet(type, c) == \E k \in DOMAIN net : net[k] = Msg(type, c)
Receives(type, c) == /\ net # <<>> /\ Head(net) = Msg(type, c)
                     /\ net' = Tail(net)

Init ==
    /\ in_call = FALSE /\ calling = FALSE
    /\ call_id = None /\ silence_limit = FALSE /\ remote_sdp = None
    /\ pending_responses = {}
    /\ queue = [o \in Outgoing |-> <<>>]
    /\ ring = [active |-> FALSE, cid |-> None, early |-> FALSE, resp |-> "none"]
    /\ ring_timer = None
    /\ media = "off"
    /\ was_ringing = FALSE /\ call_timer = FALSE
    /\ loop = None
    /\ pc = [t \in Task |-> "idle"]
    /\ hung = [h \in HangupIds |-> None]
    /\ peer = [c \in Cid |-> "none"] /\ net = <<>>
    /\ lost = 0 /\ unclosed = {}

----------------------------------------------------------------------------
\* Helpers shared by the handlers.

Busy == in_call \/ calling
Ringing_Answered(c) == ring.cid = c
Ringing(c) == ring.active /\ ring.cid = c

\* An INVITE inside the call that is up.
InDialog(c) == in_call /\ c = call_id

MayCall_WhileRinging == ~Busy
\* The guards of do_call.
MayCall == ~Busy /\ ~ring.active

StaleEnd_Ignored == FALSE
\* hub._handle_broadcast, before it awaits the clients: this call_ended comes so
\* late that the next call has begun.
StaleEnd == Busy

ClearCallState == /\ call_id' = None /\ silence_limit' = FALSE /\ remote_sdp' = None

ClearIf_Always(c) == ClearCallState
ClearIf(c) == IF call_id = c THEN ClearCallState
              ELSE UNCHANGED <<call_id, silence_limit, remote_sdp>>

StopMedia_KeepsPreview == media' = IF media = "preview" THEN media ELSE "off"
\* media.stop_media, up to its wait for ffmpeg.
StopMedia == media' = "off"

\* hub._handle_broadcast, its last lines, which every broadcast reaches: the ring is over.
SettleRing == was_ringing' = (was_ringing /\ ring.active)

\* media.setup_media, whose log lines are broadcasts too.
OpenMedia(kind) == media' = kind /\ SettleRing
SetupMedia(limit) == OpenMedia(IF limit THEN "limited" ELSE "full")

CloseRing_Dropped == ring' = None /\ ring_timer' = None
CloseRing == /\ ring' = [ring EXCEPT !.active = FALSE, !.early = FALSE]
             /\ ring_timer' = None

ArmRingTimer(c) == ring_timer' = c

\* hub._cancel_call_timeout, from a task that goes on at `label`: the timer's own
\* hang-up, if it is under way, is cancelled at its current await.
CancelCallTimer(t, label) ==
    /\ pc' = [pc EXCEPT ![Timer] = "idle", ![t] = label]
    /\ pending_responses' = IF pc[Timer] = "waiting bye"
                            THEN pending_responses \ {hung["timer"]}
                            ELSE pending_responses

----------------------------------------------------------------------------
\* do_call.

\* Up to the INVITE.  A send that raises leaves do_call before its try block.
CallStart(o) ==
    /\ Free(Call(o)) /\ peer[o] = "none"
    /\ MayCall
    /\ calling' = TRUE
    /\ call_id' = o
    /\ silence_limit' = (o \in Views)
    /\ \/ Sends(o, "INVITE") /\ Await(Call(o), "send", "invited")
       \/ SendFails /\ WaitsAt(Call(o), "done") /\ UNCHANGED <<peer, lost, unclosed>>
    /\ UNCHANGED <<in_call, remote_sdp, pending_responses, queue, ringVars, media,
                   hubVars, hung, net>>

\* The response queue exists only once the INVITE has left and a log line has told so.
CallListens(o) ==
    /\ At(Call(o), "invited")
    /\ SettleRing
    /\ pending_responses' = pending_responses \cup {o}
    /\ WaitsAt(Call(o), "waiting")
    /\ UNCHANGED <<lineVars, queue, ringVars, media, call_timer, hung, envVars>>

Waiting(o) == pc[Call(o)] = "waiting" /\ loop = None
Reads(o, what) == /\ Waiting(o) /\ queue[o] # <<>> /\ Head(queue[o]) = what
                  /\ queue' = [queue EXCEPT ![o] = <<>>]

\* Timer A: the INVITE again while no response of any kind has come.
CallRetransmits(o) ==
    /\ Waiting(o) /\ queue[o] = <<>> /\ peer[o] = "none"
    /\ Sends(o, "INVITE")
    /\ UNCHANGED <<lineVars, pending_responses, queue, ringVars, media, hubVars, loop, pc,
                   hung, net>>

\* do_hangup put _CANCEL in the queue.
CallCancelled(o) ==
    /\ Reads(o, "cancel")
    /\ Sends(o, "CANCEL") \/ (SendFails /\ UNCHANGED <<peer, lost, unclosed>>)
    /\ Await(Call(o), "send", "leaving")
    /\ UNCHANGED <<lineVars, pending_responses, ringVars, media, hubVars, hung, net>>

CallRejected(o) ==
    /\ Reads(o, "reject")
    /\ Await(Call(o), "send", "leaving")
    /\ UNCHANGED <<lineVars, pending_responses, ringVars, media, hubVars, hung, envVars>>

\* No answer before the deadline (45 s, answer_timeout or ring_timeout).  What is
\* in the queue then is never read.
CallTimesOut(o) ==
    /\ Waiting(o)
    /\ queue' = [queue EXCEPT ![o] = <<>>]
    /\ pending_responses' = pending_responses \ {o}
    /\ calling' = FALSE
    /\ Sends(o, "CANCEL") \/ (SendFails /\ UNCHANGED <<peer, lost, unclosed>>)
    /\ Await(Call(o), "send", "leaving")
    /\ UNCHANGED <<in_call, call_id, silence_limit, remote_sdp, ringVars, media, hubVars,
                   hung, net>>

\* The 200 OK: refused (media outside the LAN), already hung up, or acknowledged.
CallAnswered(o) ==
    /\ Reads(o, "200")
    /\ \/ /\ o \in Foreign
          /\ AckThenBye(o) /\ Await(Call(o), "send", "leaving")
       \/ /\ o \notin Foreign /\ ~calling
          /\ AckThenBye(o) /\ Await(Call(o), "send", "annulled")
       \/ /\ o \notin Foreign /\ calling
          /\ Sends(o, "ACK") /\ Await(Call(o), "send", "accepted")
       \/ /\ o \in Foreign \/ ~calling
          /\ AckThenByeFails(o) /\ Continues(Call(o), "leaving")
       \/ /\ SendFails /\ UNCHANGED <<peer, lost, unclosed>> /\ Continues(Call(o), "leaving")
    /\ UNCHANGED <<lineVars, pending_responses, ringVars, media, hubVars, hung, net>>

\* Hung up meanwhile: a lone BYE, and _annullata goes on.
Annulled(o) == /\ ~calling
               /\ \/ Sends(o, "lone BYE") /\ Await(Call(o), "send", "annulled")
                  \/ SendFails /\ Continues(Call(o), "leaving") /\ UNCHANGED <<peer, lost, unclosed>>

CallOpensMedia(o) ==
    /\ At(Call(o), "accepted")
    /\ \/ Annulled(o) /\ UNCHANGED <<remote_sdp, media, was_ringing>>
       \/ /\ calling
          /\ remote_sdp' = "offer"
          /\ SetupMedia(silence_limit)
          /\ Await(Call(o), "setup", "connected")
          /\ UNCHANGED <<peer, lost, unclosed>>
    /\ UNCHANGED <<in_call, calling, call_id, silence_limit, pending_responses, queue,
                   ringVars, call_timer, hung, net>>

CallConnects(o) ==
    /\ At(Call(o), "connected")
    /\ \/ Annulled(o) /\ UNCHANGED <<in_call, calling>>
       \/ /\ calling
          /\ in_call' = TRUE /\ calling' = FALSE
          /\ Await(Call(o), "emit", "started")
          /\ UNCHANGED <<peer, lost, unclosed>>
    /\ UNCHANGED <<call_id, silence_limit, remote_sdp, pending_responses, queue, ringVars,
                   media, hubVars, hung, net>>

\* The hub handles call_started; then the keyframe INFO, whose answer is awaited
\* for up to 3 s if there still is a call or a preview to ask for.
CallStarted(o) ==
    /\ At(Call(o), "started")
    /\ call_timer' = TRUE /\ SettleRing
    /\ IF (in_call /\ call_id # None) \/ (ring.active /\ ring.early)
       THEN CancelCallTimer(Call(o), "keyframe") /\ loop' = None
       ELSE CancelCallTimer(Call(o), "leaving") /\ loop' = Call(o)
    /\ UNCHANGED <<lineVars, queue, ringVars, media, hung, envVars>>

CallAnnulled(o) ==
    /\ At(Call(o), "annulled")
    /\ StopMedia
    /\ Await(Call(o), "stop", "forgotten")
    /\ UNCHANGED <<lineVars, pending_responses, queue, ringVars, hubVars, hung, envVars>>

Leaves_Calling(o) == /\ pending_responses' = pending_responses \ {o}
                     /\ UNCHANGED calling
                     /\ WaitsAt(Call(o), "done")
\* The finally block: whatever the way out, the queue goes and calling is cleared.
Leaves(o) == /\ pending_responses' = pending_responses \ {o}
             /\ calling' = FALSE
             /\ WaitsAt(Call(o), "done")

CallForgotten(o) ==
    /\ At(Call(o), "forgotten")
    /\ ClearIf(o)
    /\ Leaves(o)
    /\ UNCHANGED <<in_call, queue, ringVars, media, hubVars, hung, envVars>>

CallLeaves(o) ==
    /\ At(Call(o), "leaving") \/ (pc[Call(o)] = "keyframe" /\ loop = None)
    /\ Leaves(o)
    /\ UNCHANGED <<in_call, call_id, silence_limit, remote_sdp, queue, ringVars, media,
                   hubVars, hung, envVars>>

OrphanReply_AckOnly(o) == Sends(o, "ACK")
\* _close_orphan_invite: a repeated 200 of the call is acknowledged again, one
\* nobody wants is closed.
OrphanReply(o) == IF in_call /\ call_id = o THEN Sends(o, "ACK") ELSE AckThenBye(o)

\* _dispatch_message, a final response to an INVITE of ours: to do_call if it
\* waits, else closed by _close_orphan_invite.  Other readers of the queue (INFO,
\* BYE) drop it: its CSeq is not theirs.
DispatchFinal(o, type) ==
    /\ loop = None
    /\ type \in {"200", "reject"} /\ Receives(type, o)
    /\ Len(queue[o]) < QueueBound
    /\ IF o \notin pending_responses \/ (in_call /\ call_id = o)
       THEN /\ CASE type = "reject" -> UNCHANGED <<peer, lost, unclosed>>
                 [] type = "200" -> OrphanReply(o) \/ AckThenByeFails(o)
            /\ UNCHANGED queue
       ELSE /\ queue' = IF pc[Call(o)] = "waiting" THEN [queue EXCEPT ![o] = Append(@, type)]
                        ELSE queue
            /\ UNCHANGED <<peer, lost, unclosed>>
    /\ UNCHANGED <<lineVars, pending_responses, ringVars, media, hubVars, loop, pc, hung>>

----------------------------------------------------------------------------
\* do_hangup: the call ends locally first, the BYE follows.

EndsLocally(h) ==
    /\ calling' = FALSE
    /\ queue' = IF calling /\ call_id \in pending_responses /\ pc[Call(call_id)] = "waiting"
                THEN [queue EXCEPT ![call_id] = Append(@, "cancel")] ELSE queue
    /\ in_call' = FALSE
    /\ hung' = [hung EXCEPT ![h] = IF in_call THEN call_id ELSE None]
    /\ IF (~in_call \/ call_id = None) /\ ring.active
       THEN UNCHANGED media /\ Continues(Hangup(h), "ended")  \* the preview of a ring stays
       ELSE StopMedia /\ Await(Hangup(h), "stop", "ended")
    /\ UNCHANGED <<call_id, silence_limit, remote_sdp, pending_responses, ringVars, hubVars,
                   envVars>>

\* hub.async_hangup: the call timer is cancelled at once, do_hangup is a new task.
HangupAsked(h) ==
    /\ h \in Hangups /\ Free(Hangup(h))
    /\ call_timer' = FALSE
    /\ CancelCallTimer(Hangup(h), "spawned")
    /\ UNCHANGED <<lineVars, queue, ringVars, media, was_ringing, loop, hung, envVars>>

HangupStart(h) == At(Hangup(h), "spawned") /\ EndsLocally(h)

\* hub._call_timeout, MAX_CALL_DURATION after call_started: it hangs up itself.
TimerFires == LongCalls /\ Free(Timer) /\ call_timer /\ in_call /\ EndsLocally("timer")

\* The call_ended broadcast: not for a call that is up again by now (stale_end).
HangupTells(h) ==
    /\ At(Hangup(h), "ended")
    /\ IF StaleEnd THEN /\ SettleRing
                        /\ Continues(Hangup(h), "byeing")
                   ELSE /\ Await(Hangup(h), "emit", "told")
                        /\ UNCHANGED was_ringing
    /\ UNCHANGED <<lineVars, pending_responses, queue, ringVars, media, call_timer, hung,
                   envVars>>

\* The hub cancels the call timer.  When the timer is the one hanging up, it has
\* cancelled itself and will not survive its next wait.
HangupTold(h) ==
    /\ At(Hangup(h), "told")
    /\ call_timer' = FALSE /\ SettleRing
    /\ CancelCallTimer(Hangup(h), IF h = "timer" THEN "cut" ELSE "byeing")
    /\ loop' = Hangup(h)
    /\ UNCHANGED <<lineVars, queue, ringVars, media, hung, envVars>>

HangupEnds(h) == WaitsAt(Hangup(h), IF h = "timer" THEN "idle" ELSE "done")

\* Nothing to close, or the BYE, and _send_request waits for its answer.  A BYE
\* that cannot be sent closes the call locally all the same.
HangupByes(h) ==
    /\ At(Hangup(h), "byeing")
    /\ \/ /\ hung[h] = None
          /\ HangupEnds(h)
          /\ UNCHANGED <<call_id, silence_limit, remote_sdp, pending_responses, peer, lost, unclosed>>
       \/ /\ hung[h] # None
          /\ Sends(hung[h], "BYE")
          /\ pending_responses' = pending_responses \cup {hung[h]}
          /\ WaitsAt(Hangup(h), "waiting bye")
          /\ UNCHANGED <<call_id, silence_limit, remote_sdp>>
       \/ /\ hung[h] # None /\ SendFails
          /\ pending_responses' = pending_responses \ {hung[h]}
          /\ ClearIf(hung[h])
          /\ HangupEnds(h)
          /\ UNCHANGED <<peer, lost, unclosed>>
    /\ UNCHANGED <<in_call, calling, queue, ringVars, media, hubVars, hung, net>>

\* The cancelled timer: its BYE leaves, then CancelledError at the first wait.
HangupCut ==
    /\ At(Timer, "cut")
    /\ \/ hung["timer"] # None /\ Sends(hung["timer"], "lone BYE")
       \/ (hung["timer"] = None \/ SendFails) /\ UNCHANGED <<peer, lost, unclosed>>
    /\ Ends(Timer)
    /\ UNCHANGED <<lineVars, pending_responses, queue, ringVars, media, hubVars, hung, net>>

ByeReached_Assumed(h) == TRUE
ByeReached(h) == peer[hung[h]] \notin {"answered", "acking", "up"}

\* Timer E of _send_request.
HangupRetransmits(h) ==
    /\ pc[Hangup(h)] = "waiting bye" /\ loop = None
    /\ ~ByeReached(h) /\ hung[h] \in pending_responses
    /\ Sends(hung[h], "BYE")
    /\ UNCHANGED <<lineVars, pending_responses, queue, ringVars, media, hubVars, loop, pc,
                   hung, net>>

\* The BYE was answered or its 5 s are over: four sends go out in 5 s, more than MaxLoss,
\* so one arrived.  Or the queue was taken away: by the panel's own BYE, or by a do_call
\* that comes back from its keyframe request, and the BYE is not sent again.
HangupDone(h) ==
    /\ pc[Hangup(h)] = "waiting bye" /\ loop = None
    /\ \/ ByeReached(h) /\ UNCHANGED unclosed
       \/ /\ ~ByeReached(h) /\ hung[h] \notin pending_responses
          /\ unclosed' = Misses(hung[h], peer[hung[h]])
    /\ pending_responses' = pending_responses \ {hung[h]}
    /\ ClearIf(hung[h])
    /\ HangupEnds(h)
    /\ UNCHANGED <<in_call, calling, queue, ringVars, media, hubVars, hung, peer, net, lost>>

----------------------------------------------------------------------------
\* handle_incoming_invite.

\* An INVITE of no known call: 486 when busy, else a ring.  With an SDP offer the
\* answer is a 183 and the preview opens.  A send that raises leaves the handler
\* with the ring already recorded.
HasOffer(c) == c \in Outgoing \cup Offers

InviteRings(c, type) ==
    /\ type \in {"INVITE", "re-INVITE"} /\ Receives(type, c)
    /\ ~(type = "re-INVITE" /\ InDialog(c))
    /\ c # ring.cid
    /\ Free(Invite(c))
    /\ IF ring.active \/ Busy
       THEN /\ Sends(c, "final") \/ (SendFails /\ UNCHANGED <<peer, lost, unclosed>>)
            /\ UNCHANGED <<ring, loop, pc>>
       ELSE /\ ring' = [active |-> TRUE, cid |-> c, early |-> HasOffer(c), resp |-> "1xx"]
            /\ \/ Await(Invite(c), "send", IF HasOffer(c) THEN "progress" ELSE "ringing")
               \/ SendFails /\ UNCHANGED <<loop, pc>>
            /\ UNCHANGED <<peer, lost, unclosed>>
    /\ UNCHANGED <<lineVars, pending_responses, queue, ring_timer, media, hubVars, hung>>

RepeatsResponse(c) ==
    \/ ring.resp = "200" /\ InDialog(c) /\ Sends(c, "200")
    \/ ring.resp = "final" /\ Sends(c, "final")
    \/ /\ ring.resp = "1xx" \/ (ring.resp = "200" /\ ~InDialog(c)) \/ SendFails
       /\ UNCHANGED <<peer, lost, unclosed>>

\* The INVITE of the last ring again (UDP): the same response, a final one too.  A
\* re-INVITE that comes when its call is over has another branch: 482.
InviteRepeats(c, type) ==
    /\ Idle /\ Receives(type, c)
    /\ c = ring.cid
    /\ \/ type = "re-INVITE" /\ ~InDialog(c) /\ UNCHANGED <<peer, lost, unclosed>>
       \/ type = "INVITE" /\ RepeatsResponse(c)
    /\ UNCHANGED <<lineVars, pending_responses, queue, ringVars, media, hubVars, loop, pc, hung>>

\* The 183 has left: the preview, or none when its SDP is refused.
InvitePreviews(c) ==
    /\ At(Invite(c), "progress")
    /\ IF c \in Foreign
       THEN StopMedia /\ UNCHANGED was_ringing /\ Await(Invite(c), "stop", "no preview")
       ELSE OpenMedia("preview") /\ Await(Invite(c), "setup", "preview")
    /\ UNCHANGED <<lineVars, pending_responses, queue, ringVars, call_timer, hung, envVars>>

\* The ring may have ended while the preview started.
InviteChecks(c) ==
    /\ \/ At(Invite(c), "preview") /\ UNCHANGED ring
       \/ At(Invite(c), "no preview") /\ ring' = [ring EXCEPT !.early = FALSE]
    /\ IF ~Ringing(c) /\ ~in_call
       THEN StopMedia /\ Ends(Invite(c))
       ELSE UNCHANGED media /\ Continues(Invite(c), "ringing")
    /\ UNCHANGED <<lineVars, pending_responses, queue, ring_timer, hubVars, hung, envVars>>

\* The 90 s timer, then the ring broadcast: silent for the echo of our own call.
InviteTells(c) ==
    /\ At(Invite(c), "ringing")
    /\ ArmRingTimer(c)
    /\ IF Busy THEN Continues(Invite(c), "told") ELSE Await(Invite(c), "emit", "told")
    /\ UNCHANGED <<lineVars, pending_responses, queue, ring, media, hubVars, hung, envVars>>

\* The hub rings, or declines the echo with a 486.
InviteTold(c) ==
    /\ At(Invite(c), "told")
    /\ IF Busy
       THEN /\ pc' = [pc EXCEPT ![Invite(c)] = "idle",
                                ![Decline("echo")] = IF @ = "idle" THEN "spawned" ELSE @]
            /\ UNCHANGED was_ringing
       ELSE /\ pc' = [pc EXCEPT ![Invite(c)] = "idle"]
            /\ was_ringing' = ring.active
    /\ loop' = None
    /\ UNCHANGED <<lineVars, pending_responses, queue, ringVars, media, call_timer, hung,
                   envVars>>

\* A re-INVITE of the call: 200 (488 when its media is refused), and the media
\* opens again when the SDP has changed.
ReinviteAgrees(c) ==
    /\ Free(Reinvite(c)) /\ Receives("re-INVITE", c)
    /\ InDialog(c)
    /\ \/ c \notin Foreign /\ Await(Reinvite(c), "send", "agreed")
       \/ (c \in Foreign \/ SendFails) /\ UNCHANGED <<loop, pc>>
    /\ UNCHANGED <<lineVars, pending_responses, queue, ringVars, media, hubVars, hung, peer,
                   lost, unclosed>>

ReinviteOpens(c) ==
    /\ At(Reinvite(c), "agreed")
    /\ IF remote_sdp = "reoffer" THEN UNCHANGED <<remote_sdp, media, was_ringing>>
       ELSE remote_sdp' = "reoffer" /\ SetupMedia(silence_limit)
    /\ Ends(Reinvite(c))
    /\ UNCHANGED <<in_call, calling, call_id, silence_limit, pending_responses, queue,
                   ringVars, call_timer, hung, envVars>>

----------------------------------------------------------------------------
\* The end of a ring: handle_incoming_cancel, do_decline_incoming, an answer that
\* cannot be given, all through _end_ring and the ring_ended broadcast.

CancelArrives(c) ==
    /\ Free(Cancel(c)) /\ Receives("CANCEL", c)
    /\ \/ c = ring.cid /\ Await(Cancel(c), "send", "known")
       \/ (c # ring.cid \/ SendFails) /\ UNCHANGED <<loop, pc>>
    /\ UNCHANGED <<lineVars, pending_responses, queue, ringVars, media, hubVars, hung, peer,
                   lost, unclosed>>

CancelTerminates(c) ==
    /\ At(Cancel(c), "known")
    /\ IF Ringing(c)
       THEN /\ ring' = [ring EXCEPT !.resp = "final"]
            /\ \/ Sends(c, "final") /\ Await(Cancel(c), "send", "terminated")
               \/ SendFails /\ Ends(Cancel(c)) /\ UNCHANGED <<peer, lost, unclosed>>
       ELSE Ends(Cancel(c)) /\ UNCHANGED <<ring, peer, lost, unclosed>>
    /\ UNCHANGED <<lineVars, pending_responses, queue, ring_timer, media, hubVars, hung, net>>

\* From the user (603), the 90 s timer or the preview watch (480), or the hub for
\* the echo of our own call (486).
DeclineStart(why) ==
    /\ \/ why = "user" /\ Free(Decline(why))
       \/ why = "expired" /\ Free(Decline(why)) /\ ring_timer = ring.cid /\ ~in_call
       \/ why = "echo" /\ At(Decline(why), "spawned")
    /\ ring.active
    /\ ring' = [ring EXCEPT !.resp = "final"]
    /\ ring_timer' = IF why = "expired" THEN None ELSE ring_timer
    /\ Sends(ring.cid, "final") \/ (SendFails /\ UNCHANGED <<peer, lost, unclosed>>)
    /\ Await(Decline(why), "send", "terminated")
    /\ UNCHANGED <<lineVars, pending_responses, queue, media, hubVars, hung, net>>

EchoGone ==
    /\ At(Decline("echo"), "spawned") /\ ~ring.active
    /\ Ends(Decline("echo"))
    /\ UNCHANGED <<lineVars, pending_responses, queue, ringVars, media, hubVars, hung, envVars>>

RingEnders == {Cancel(c) : c \in Cid} \cup {Answer(c) : c \in Cid}
              \cup {Decline(w) : w \in DeclineReasons}

\* _end_ring: whatever ring is on is closed, and no media stays outside a call.
RingEnds(t) ==
    /\ At(t, "terminated")
    /\ CloseRing
    /\ pending_responses' = pending_responses \ {ring.cid}
    /\ IF Busy THEN Continues(t, "ended") /\ UNCHANGED media
       ELSE Await(t, "stop", "ended") /\ StopMedia
    /\ UNCHANGED <<lineVars, queue, hubVars, hung, envVars>>

\* A decline during a call of ours is not the end of a ring.
RingEndTells(t) ==
    /\ At(t, "ended")
    /\ IF t \in {Decline(w) : w \in DeclineReasons} /\ Busy
       THEN Ends(t) ELSE Await(t, "emit", "told")
    /\ UNCHANGED <<lineVars, pending_responses, queue, ringVars, media, hubVars, hung, envVars>>

RingEndTold(t) ==
    /\ At(t, "told")
    /\ SettleRing
    /\ Ends(t)
    /\ UNCHANGED <<lineVars, pending_responses, queue, ringVars, media, call_timer, hung,
                   envVars>>

----------------------------------------------------------------------------
\* do_answer_incoming, asked through hub.async_answer or by the away message: the
\* ring is copied and closed before the first await.

AnswerStart(c) ==
    /\ Free(Answer(c)) /\ Ringing(c) /\ ~in_call
    /\ ring_timer' = None
    /\ ring' = [ring EXCEPT !.active = FALSE, !.early = FALSE,
                            !.resp = IF c \in Foreign THEN "final" ELSE "200"]
    /\ \/ /\ c \in Foreign
          /\ Sends(c, "final") \/ (SendFails /\ UNCHANGED <<peer, lost, unclosed>>)
          /\ Await(Answer(c), "send", "terminated")
          /\ UNCHANGED media
       \/ /\ c \notin Foreign
          /\ Sends(c, "200")
          /\ Await(Answer(c), "send", IF ring.early THEN "answered preview" ELSE "answered")
          /\ UNCHANGED media
       \/ /\ c \notin Foreign /\ SendFails
          /\ IF ring.early THEN StopMedia /\ Await(Answer(c), "stop", "ended")
             ELSE UNCHANGED media /\ Continues(Answer(c), "ended")
          /\ UNCHANGED <<peer, lost, unclosed>>
    /\ UNCHANGED <<lineVars, pending_responses, queue, hubVars, hung, net>>

PreviewRuns(c) == pc[Answer(c)] = "answered preview" /\ media # "off"

\* The call is up: the preview gets our voice too, or the media opens now, or with
\* the ACK when the INVITE had no offer.
AnswerConnects(c) ==
    /\ At(Answer(c), "answered") \/ At(Answer(c), "answered preview")
    /\ in_call' = TRUE
    /\ call_id' = c
    /\ remote_sdp' = IF HasOffer(c) THEN "offer" ELSE None
    /\ CASE ~HasOffer(c) -> UNCHANGED <<media, was_ringing>> /\ Continues(Answer(c), "up")
         [] HasOffer(c) /\ PreviewRuns(c) ->
              /\ media' = IF media = "preview" THEN "full" ELSE media
              /\ UNCHANGED was_ringing
              /\ Continues(Answer(c), "up")
         [] OTHER -> SetupMedia(FALSE) /\ Await(Answer(c), "setup", "up")
    /\ UNCHANGED <<calling, silence_limit, pending_responses, queue, ringVars, call_timer,
                   hung, envVars>>

AnswerTells(c) ==
    /\ At(Answer(c), "up")
    /\ Await(Answer(c), "emit", "started")
    /\ UNCHANGED <<lineVars, pending_responses, queue, ringVars, media, hubVars, hung, envVars>>

AnswerTold(c) ==
    /\ At(Answer(c), "started")
    /\ call_timer' = TRUE /\ SettleRing
    /\ CancelCallTimer(Answer(c), "idle") /\ loop' = None
    /\ UNCHANGED <<lineVars, queue, ringVars, media, hung, envVars>>

\* The ACK of a 200 that carried our offer brings the panel's SDP; the task that
\* opens the media runs a turn later and looks again.
AckExpected(c) == in_call /\ c = call_id /\ remote_sdp = None

AckArrives(c) ==
    /\ Free(Ack(c)) /\ Receives("ACK", c)
    /\ pc' = IF AckExpected(c) THEN [pc EXCEPT ![Ack(c)] = "spawned"] ELSE pc
    /\ UNCHANGED <<lineVars, pending_responses, queue, ringVars, media, hubVars, loop, hung,
                   peer, lost, unclosed>>

AckOpens(c) ==
    /\ At(Ack(c), "spawned")
    /\ IF AckExpected(c) THEN remote_sdp' = "offer" /\ SetupMedia(FALSE)
       ELSE UNCHANGED <<remote_sdp, media, was_ringing>>
    /\ Ends(Ack(c))
    /\ UNCHANGED <<in_call, calling, call_id, silence_limit, pending_responses, queue,
                   ringVars, call_timer, hung, envVars>>

----------------------------------------------------------------------------
\* handle_incoming_bye: 481 for a dialog that is not the call.

ByeArrives(c) ==
    /\ Free(Bye(c)) /\ Receives("BYE", c)
    /\ \/ c = call_id /\ Await(Bye(c), "send", "known")
       \/ (c # call_id \/ SendFails) /\ UNCHANGED <<loop, pc>>
    /\ UNCHANGED <<lineVars, pending_responses, queue, ringVars, media, hubVars, hung, peer,
                   lost, unclosed>>

ByeEnds(c) ==
    /\ At(Bye(c), "known")
    /\ in_call' = FALSE
    /\ pending_responses' = pending_responses \ {c}
    /\ ClearCallState
    /\ IF in_call THEN StopMedia /\ Await(Bye(c), "stop", "ended")
       ELSE UNCHANGED media /\ Ends(Bye(c))
    /\ UNCHANGED <<calling, queue, ringVars, hubVars, hung, envVars>>

ByeTells(c) ==
    /\ At(Bye(c), "ended")
    /\ IF StaleEnd THEN SettleRing /\ Ends(Bye(c))
       ELSE Await(Bye(c), "emit", "told") /\ UNCHANGED was_ringing
    /\ UNCHANGED <<lineVars, pending_responses, queue, ringVars, media, call_timer, hung,
                   envVars>>

ByeTold(c) ==
    /\ At(Bye(c), "told")
    /\ call_timer' = FALSE /\ SettleRing
    /\ CancelCallTimer(Bye(c), "idle") /\ loop' = None
    /\ UNCHANGED <<lineVars, queue, ringVars, media, hung, envVars>>

----------------------------------------------------------------------------
\* The panel, its other phones and the network.

Says(type, c) == net' = Append(net, Msg(type, c))
PanelActs == UNCHANGED <<lineVars, pending_responses, queue, ringVars, media, hubVars, loop,
                         pc, hung, lost, unclosed>>

PanelAnswers(o) == /\ peer[o] = "trying"
                   /\ peer' = [peer EXCEPT ![o] = "answered"]
                   /\ Says("200", o) /\ PanelActs

PanelRejects(o) == /\ peer[o] = "trying"
                   /\ peer' = [peer EXCEPT ![o] = "down"]
                   /\ Says("reject", o) /\ PanelActs

\* No ACK for its 200: the panel repeats it.
PanelAnswersAgain(o) == /\ peer[o] = "answered" /\ ~InNet("200", o)
                        /\ Says("200", o) /\ PanelActs /\ UNCHANGED peer

PanelRings(i) == /\ peer[i] = "none"
                 /\ peer' = [peer EXCEPT ![i] = "calling"]
                 /\ Says("INVITE", i) /\ PanelActs

PanelRingsAgain(i) == /\ peer[i] = "calling" /\ ~InNet("INVITE", i)
                      /\ Says("INVITE", i) /\ PanelActs /\ UNCHANGED peer

\* The visitor leaves or somebody else answers; on UDP the CANCEL may get lost.
PanelCancels(i) == /\ peer[i] = "calling"
                   /\ peer' = [peer EXCEPT ![i] = "down"]
                   /\ Says("CANCEL", i) \/ UNCHANGED net
                   /\ PanelActs

PanelAcks(i) == /\ peer[i] = "acking"
                /\ peer' = [peer EXCEPT ![i] = "up"]
                /\ Says("ACK", i) /\ PanelActs

PanelByes(c) == /\ peer[c] \in {"up", "refusing"}
                /\ peer' = [peer EXCEPT ![c] = "down"]
                /\ Says("BYE", c) /\ PanelActs

PanelReinvites(c) == /\ c \in Reinvites /\ peer[c] = "up" /\ ~InNet("re-INVITE", c)
                     /\ Says("re-INVITE", c) /\ PanelActs /\ UNCHANGED peer

----------------------------------------------------------------------------
CallStep(o) ==
    \/ CallStart(o) \/ CallListens(o) \/ CallRetransmits(o) \/ CallCancelled(o)
    \/ CallRejected(o) \/ CallTimesOut(o) \/ CallAnswered(o) \/ CallOpensMedia(o)
    \/ CallConnects(o) \/ CallStarted(o) \/ CallAnnulled(o) \/ CallForgotten(o)
    \/ CallLeaves(o)
    \/ \E type \in {"200", "reject"} : DispatchFinal(o, type)

HangupStep(h) ==
    \/ HangupAsked(h) \/ HangupStart(h) \/ HangupTells(h) \/ HangupTold(h) \/ HangupByes(h)
    \/ HangupRetransmits(h) \/ HangupDone(h)

InviteStep(c) ==
    \/ \E type \in {"INVITE", "re-INVITE"} : InviteRings(c, type) \/ InviteRepeats(c, type)
    \/ InvitePreviews(c) \/ InviteChecks(c) \/ InviteTells(c)
    \/ InviteTold(c) \/ ReinviteAgrees(c) \/ ReinviteOpens(c)

RingEndStep ==
    \/ \E c \in Cid : CancelArrives(c) \/ CancelTerminates(c)
    \/ \E w \in DeclineReasons : DeclineStart(w)
    \/ EchoGone
    \/ \E t \in RingEnders : RingEnds(t) \/ RingEndTells(t) \/ RingEndTold(t)

AnswerStep(c) == \/ AnswerStart(c) \/ AnswerConnects(c) \/ AnswerTells(c) \/ AnswerTold(c)
                 \/ AckArrives(c) \/ AckOpens(c)

ByeStep(c) == ByeArrives(c) \/ ByeEnds(c) \/ ByeTells(c) \/ ByeTold(c)

Panel ==
    \/ \E o \in Outgoing : PanelAnswers(o) \/ PanelRejects(o) \/ PanelAnswersAgain(o)
    \/ \E i \in Incoming : PanelRings(i) \/ PanelRingsAgain(i) \/ PanelCancels(i) \/ PanelAcks(i)
    \/ \E c \in Cid : PanelByes(c) \/ PanelReinvites(c)

Next ==
    \/ \E o \in Outgoing : CallStep(o)
    \/ \E h \in HangupIds : HangupStep(h)
    \/ TimerFires \/ HangupCut
    \/ \E c \in Cid : InviteStep(c) \/ AnswerStep(c) \/ ByeStep(c)
    \/ RingEndStep
    \/ Panel

Spec == Init /\ [][Next]_vars

----------------------------------------------------------------------------
\* Invariants.

TypeOK ==
    /\ in_call \in BOOLEAN /\ calling \in BOOLEAN
    /\ call_id \in Cid \cup {None}
    /\ silence_limit \in BOOLEAN
    /\ remote_sdp \in {"offer", "reoffer", None}
    /\ pending_responses \subseteq Cid
    /\ queue \in [Outgoing -> Seq({"cancel", "200", "reject"})]
    /\ ring \in [active : BOOLEAN, cid : Cid \cup {None}, early : BOOLEAN,
                 resp : {"none", "1xx", "200", "final"}]
    /\ ring_timer \in Cid \cup {None}
    /\ media \in {"off", "preview", "full", "limited"}
    /\ was_ringing \in BOOLEAN /\ call_timer \in BOOLEAN
    /\ loop \in Task \cup {None}
    /\ pc \in [Task -> Label]
    /\ hung \in [HangupIds -> Cid \cup {None}]
    /\ peer \in [Cid -> PeerState]
    /\ net \in Seq(Message)
    /\ lost \in 0 .. MaxLoss
    /\ unclosed \subseteq Cid \cup {None}

\* The line has one use at a time: talking, calling or ringing.  There is one set
\* of media sockets and SRTP keys, which two uses would overwrite.
LineExclusive == /\ ~(in_call /\ calling)
                 /\ ~(in_call /\ ring.active)
                 /\ ~(calling /\ ring.active)

\* Whenever another task can run, media that is open belongs to a call or to a
\* ring: no microphone and no camera stays on after the end.
NoOrphanMedia == loop = None /\ media # "off" => in_call \/ (ring.active /\ ring.early)

\* A call that is up has an identity and the panel knows its dialog: `in_call` is
\* never left behind by a call that another task has cleared.
CallEstablished == loop = None /\ in_call =>
    /\ call_id # None
    /\ peer[call_id] \notin {"none", "trying", "calling"}

\* A call whose remote SDP is known has its media open.
CallHasMedia == loop = None /\ in_call /\ remote_sdp # None => media \in {"full", "limited"}

\* No coroutine has anything left to do before something else happens.
Settled == loop = None /\ \A t \in Task : pc[t] \in {"idle", "done"}

\* Once everything has settled, a dialog the panel holds open is the current call,
\* or the panel's BYE for it is on its way, or the BYE that nothing repeats got lost: the
\* panel is not left busy by anything else.
NoLeakedDialog ==
    Settled => \A c \in Cid \ unclosed : peer[c] \in {"up", "acking"} =>
                   (in_call /\ call_id = c) \/ InNet("BYE", c)

\* A call that has settled is bounded by the hub's timer.
CallTimed == Settled /\ in_call => call_timer

\* A ring that has settled is bounded by its own timer, not by an earlier ring's.
RingTimed == Settled /\ ring.active => ring_timer = ring.cid

\* The hub's _was_ringing follows the ring, or the next one makes no event.
HubKnowsRing == Settled => was_ringing = ring.active

\* `calling` always has a do_call that will clear it.
CallingHasTask ==
    loop = None /\ calling => \E o \in Outgoing :
        o = call_id /\ pc[Call(o)] \notin {"idle", "done", "leaving", "keyframe"}

\* What the line is taken by will end: a call has its maximum-duration timer where the hub is told
\* without a break, a ring its own 90 s timer and `calling` its do_call where no send fails.
EndsAreSet ==
    /\ "emit" \notin Yields => CallTimed
    /\ ~SendFails => RingTimed /\ CallingHasTask

\* A do_call that nobody has hung up still holds `calling` when its answer comes.
CallKept ==
    \A o \in Outgoing : Waiting(o) /\ (\A k \in DOMAIN queue[o] : queue[o][k] # "cancel")
                            => calling /\ call_id = o

\* Only a view may have the silence limit, an answered ring never.
AnsweredUnlimited == in_call /\ call_id \in Incoming => media # "limited"

\* What rings is an INVITE of the panel: a call of ours never turns into a ring.
RingIsIncoming == ring.active => ring.cid \in Incoming

----------------------------------------------------------------------------
\* What the handlers rely on from one await to the next, while sending and opening
\* the media do not suspend them: the inductive form of LineExclusive and
\* NoOrphanMedia.

\* The labels after such an await, where the handler still owes a step that makes
\* what it did complete.
Unbroken == {"accepted", "connected", "answered", "answered preview", "terminated",
             "progress", "preview", "agreed"}

LoopInv == \A t \in Task : pc[t] \in Unbroken => loop = t

\* A handler that answers a ring finds the line as it left it when it sent the 200.
LineInv ==
    /\ LineExclusive
    /\ \A t \in Task : pc[t] \in {"answered", "answered preview"} => ~Busy /\ ~ring.active

\* Media is open for a call, for the preview of a ring, or in the hands of the
\* handler that is running and will hand it over or close it.
MediaInv ==
    /\ media # "off" =>
         \/ in_call
         \/ ring.active /\ ring.early
         \/ \E t \in Task : pc[t] \in {"connected", "answered preview", "terminated"}
    /\ \A t \in Task : pc[t] \in {"accepted", "connected"} => calling
    /\ \A t \in Task : pc[t] = "terminated" => ~Busy
    /\ \A t \in Task : pc[t] = "agreed" => in_call
    /\ \A c \in Cid : pc[Invite(c)] \in {"progress", "preview"} => Ringing(c) /\ ring.early
    /\ \A c \in Cid : pc[Invite(c)] = "no preview" /\ Ringing(c) => media = "off"

\* All of it, of any interleaving of calls, rings and hang-ups: what each handler relies
\* on holds between any two of its steps.
HandlerInv == LoopInv /\ LineInv /\ MediaInv

----------------------------------------------------------------------------
\* Action properties.

\* The final response to a ring is never taken back: neither answered after it was
\* refused or cancelled, nor the reverse.
KeepsFinal == ring'.cid = ring.cid /\ ring.resp \in {"200", "final"} => ring'.resp = ring.resp
FinalIsFinal == [][KeepsFinal]_vars

\* do_hangup sends its BYE until the panel has it ("su UDP ritrasmesso finche' la targa
\* risponde").  It does not: do_call and do_hangup share the queue of the call.
Insists == \A h \in Hangups :
    pc[Hangup(h)] = "waiting bye" /\ pc'[Hangup(h)] # "waiting bye" => ByeReached(h)
ByeRepeated == [][Insists]_vars

----------------------------------------------------------------------------
\* The abstract line, one user at a time.  Between the 200 of an answer and in_call
\* the handler holds the event loop; the line still rings then.

Answering(c) == pc[Answer(c)] \in {"answered", "answered preview"}
Use == CASE in_call -> "talking"
         [] ~in_call /\ calling -> "calling"
         [] ~Busy /\ (ring.active \/ \E c \in Cid : Answering(c)) -> "ringing"
         [] OTHER -> "idle"
User == IF Use = "idle" THEN None ELSE IF Use = "ringing" THEN ring.cid ELSE call_id

Line == INSTANCE IntercomLine WITH Calls <- Cid, use <- Use, user <- User

\* Every step of the handlers is a step of the abstract line or leaves it alone.
LineStep == [Line!Next]_(Line!vars)

\* What holds of any number of calls: a call_id that an earlier attempt clears late (do_call's
\* last lines) may leave a call without its name, but the line is never handed from one call
\* to another, nor taken by one that has not found it idle.
ForgetfulStep == [Line!Next \/ Line!Forgotten]_(Line!vars)
KeepsToTheLine == Line!ForgetfulSpec

----------------------------------------------------------------------------
\* Liveness: what the event loop and the deadlines of the code guarantee.  Every
\* task that can run does, and timers fire; users and the panel owe nothing, but a
\* panel whose 200 was not acknowledged repeats it.

\* A task goes on from the await it is at.
CallGoesOn(o) ==
    \/ CallListens(o) \/ CallRetransmits(o) \/ CallCancelled(o) \/ CallRejected(o)
    \/ CallTimesOut(o) \/ CallAnswered(o) \/ CallOpensMedia(o) \/ CallConnects(o)
    \/ CallStarted(o) \/ CallAnnulled(o) \/ CallForgotten(o) \/ CallLeaves(o)
HangupGoesOn(h) ==
    \/ HangupStart(h) \/ HangupTells(h) \/ HangupTold(h) \/ HangupByes(h)
    \/ HangupRetransmits(h) \/ HangupDone(h)
InviteGoesOn(c) == InvitePreviews(c) \/ InviteChecks(c) \/ InviteTells(c) \/ InviteTold(c)
AnswerGoesOn(c) == AnswerConnects(c) \/ AnswerTells(c) \/ AnswerTold(c)
ByeGoesOn(c) == ByeEnds(c) \/ ByeTells(c) \/ ByeTold(c)
RingEndGoesOn(t) == RingEnds(t) \/ RingEndTells(t) \/ RingEndTold(t)

\* The read loop takes the next datagram.
Dispatch ==
    \/ \E o \in Outgoing : DispatchFinal(o, "200") \/ DispatchFinal(o, "reject")
    \/ \E c \in Cid :
        \/ \E type \in {"INVITE", "re-INVITE"} : InviteRings(c, type) \/ InviteRepeats(c, type)
        \/ ReinviteAgrees(c) \/ CancelArrives(c) \/ AckArrives(c) \/ ByeArrives(c)

\* A hang-up that was asked for, or whose wait is over, and the call timer when it is due are in
\* the ready queue and run in the next turn of the loop, whatever the panel keeps sending.
Fairness ==
    /\ \A o \in Outgoing : WF_vars(CallGoesOn(o)) /\ WF_vars(PanelAnswersAgain(o))
    /\ \A h \in HangupIds : SF_vars(HangupGoesOn(h))
    /\ SF_vars(TimerFires) /\ WF_vars(HangupCut)
    /\ WF_vars(Dispatch)
    /\ \A c \in Cid :
        /\ WF_vars(InviteGoesOn(c)) /\ WF_vars(ReinviteOpens(c)) /\ WF_vars(CancelTerminates(c))
        /\ WF_vars(AnswerGoesOn(c)) /\ WF_vars(AckOpens(c)) /\ WF_vars(ByeGoesOn(c))
    /\ WF_vars(DeclineStart("expired")) /\ WF_vars(DeclineStart("echo")) /\ WF_vars(EchoGone)
    /\ \A t \in RingEnders : WF_vars(RingEndGoesOn(t))

FairSpec == Spec /\ Fairness

\* The line never stays taken for good: every call attempt, every ring and every
\* call ends, by an answer, a deadline or a timer.
LineFreed == []<>(~Busy /\ ~ring.active)

\* A dialog of a call that we ended is closed at the panel too, whatever got lost on the
\* way, unless it was a BYE that nothing repeats: the lone BYE of _close_orphan_invite, or
\* do_hangup's when do_call takes its queue away (ByeRepeated).  The panel then holds the
\* dialog until it gives up by itself.
HangupCloses ==
    \A c \in Cid : [](peer[c] = "up" /\ ~(in_call /\ call_id = c) =>
        <>(peer[c] = "down" \/ (in_call /\ call_id = c) \/ c \in unclosed))

=============================================================================
