------------------------------ MODULE AutoCall ------------------------------
(***************************************************************************)
(* The calls that opening a view places by itself, and how they end: the    *)
(* hub's count of viewers, its auto-call, the delayed hang-up, the guard    *)
(* that keeps a view from joining a call that is being hung up (hub.py).    *)
(* The line is what SipCall says of it, seen from outside: do_call and      *)
(* do_hangup with the points where they suspend.                            *)
(***************************************************************************)
EXTENDS Naturals, Sequences

CONSTANTS
    Views,      \* views that open: /av readers and HomeKit views
    HomeKit,    \* those that are HomeKit views
    User,       \* whoever uses the call buttons: one call, one hang-up
    Casts,      \* bound: who shows up together in a run
    MaxTries,   \* bound: INVITEs of one call, what the 21 s budget has room for
    None

ASSUME ViewAssumption == /\ HomeKit \subseteq Views
                         /\ User \notin Views
                         /\ None \notin Views \cup {User}
ASSUME TriesAssumption == MaxTries \in Nat \ {0}

Caller == Views \cup {User}
ASSUME CastAssumption == Casts \subseteq SUBSET (Caller \cup {"button"})

\* The hang-ups: the delayed one of a view that left, or of an auto-call that
\* connected with nobody left; the one of a HomeKit view; the user's.
Delayed == Views \X {"left", "late"}
Asked == (HomeKit \X {"homekit"}) \cup {<<User, "button">>}
Hangup == Delayed \cup Asked
ASSUME HangupAssumption == Hangup \cap (Views \cup {None}) = {}

VARIABLES
    udp,         \* USE_LOCAL_UDP: the local panel, not the cloud relay
    view,        \* where each view stands
    waits_for,   \* the hang-up a view waits for, or waited for in vain
    viewers,     \* those hub._stream_viewers counts
    auto_called, auto_gen,
    explicit,    \* the user's call is still the latest request (_explicit_gen)
    caller,      \* those who place a call
    tries,
    panel_retry,
    hangup_task, \* the delayed hang-up that a new view cancels
    bye,         \* the hang-ups
    hanging_up,  \* the guard,
    hangup_done, \* the latest hang-up, which it waits for
    settle,      \* its HANGUP_LOCAL_SETTLE timer runs
    in_call, calling,
    holder,      \* the do_call the line belongs to
    panel_bye,   \* handle_incoming_bye waits for stop_media
    fresh,       \* less than LOCAL_UDP_SETTLE since the last dialog
    cooldown,    \* less than AUTO_CALL_COOLDOWN since the last end
    left_since,  \* and the last viewer left after that end
    tasks        \* the tasks created and not run yet: asyncio runs them in order

viewVars == <<view, waits_for, viewers>>
autoVars == <<auto_called, auto_gen, explicit, caller, tries, panel_retry>>
guardVars == <<hangup_task, bye, hanging_up, hangup_done, settle>>
lineVars == <<in_call, calling, holder, panel_bye>>
timeVars == <<fresh, cooldown, left_since>>
envVars == <<tasks, udp>>
vars == <<viewVars, autoVars, guardVars, lineVars, timeVars, envVars>>

Init == \E cast \in Casts :
    /\ udp \in BOOLEAN
    /\ view = [v \in Views |-> IF v \in cast THEN "unopened" ELSE "gone"]
    /\ waits_for = [v \in Views |-> None]
    /\ viewers = {}
    /\ auto_called = FALSE /\ auto_gen = None /\ explicit = FALSE
    /\ caller = [c \in Caller |-> IF c \in cast THEN "none" ELSE "over"]
    /\ tries = [c \in Caller |-> 0]
    /\ panel_retry = FALSE
    /\ hangup_task = None
    /\ bye = [h \in Hangup |-> IF h[1] \in cast \/ h[2] \in cast THEN "none" ELSE "over"]
    /\ hanging_up = FALSE /\ hangup_done = None /\ settle = FALSE
    /\ in_call = FALSE /\ calling = FALSE /\ holder = None /\ panel_bye = FALSE
    /\ fresh = FALSE /\ cooldown = FALSE /\ left_since = FALSE
    /\ tasks = <<>>

\* Seconds pass only when no task waits to run.
Idle == tasks = <<>>
Next_task(t) == tasks # <<>> /\ Head(tasks) = t /\ tasks' = Tail(tasks)

Busy == in_call \/ calling
CallInView == Busy \/ auto_called \/ panel_retry

----------------------------------------------------------------------------
\* The line.

\* The line becomes free (_on_sip_state_change), or an auto-call gives up: what the
\* pause after a call and the settling of the panel count from.  On the cloud
\* nobody answers a BYE: the guard drops HANGUP_LOCAL_SETTLE after the local end.
StateChange(stillBusy, gaveUp) ==
    LET free == Busy /\ ~stillBusy IN
    /\ fresh' = (fresh \/ free)
    /\ cooldown' = (cooldown \/ free \/ gaveUp)
    /\ left_since' = (left_since /\ ~free /\ ~gaveUp)
    /\ settle' = (settle \/ (free /\ hanging_up /\ ~udp))

\* call_ended, handled after stop_media: stale when another call is up.
CallEnded == auto_called' = (auto_called /\ Busy)

\* The panel hangs up; its call_ended comes after stop_media.
PanelByes ==
    /\ in_call /\ ~panel_bye
    /\ in_call' = FALSE /\ panel_bye' = TRUE
    /\ StateChange(calling, FALSE)
    /\ UNCHANGED <<calling, holder, viewVars, autoVars, hangup_task, bye, hanging_up, hangup_done, envVars>>

PanelByeTold ==
    /\ panel_bye
    /\ panel_bye' = FALSE
    /\ CallEnded
    /\ UNCHANGED <<in_call, calling, holder, viewVars, auto_gen, explicit, caller, tries,
                   panel_retry, guardVars, timeVars, envVars>>

----------------------------------------------------------------------------
\* Hang-ups.

BeginHangingUp(h) ==
    /\ hanging_up' = TRUE /\ hangup_done' = h /\ settle' = FALSE
    /\ bye' = [bye EXCEPT ![h] = "started"]
    /\ tasks' = Append(tasks, h)

\* A hang-up that finishes after a newer one started only wakes its own waiters.
Current_Never(h) == FALSE
Current_Any(h) == TRUE
Current(h) == h = hangup_done
EndHangingUp(h) ==
    /\ view' = [v \in Views |-> IF view[v] = "guarded" /\ waits_for[v] = h THEN "woken"
                                                                           ELSE view[v]]
    /\ hanging_up' = (hanging_up /\ ~Current(h))
    /\ settle' = (settle /\ ~Current(h))

\* STREAM_HANGUP_DELAY has passed: nobody watches the call that was placed for a view.
DelayedHangup(d) ==
    /\ d \in Delayed /\ bye[d] = "asked" /\ Idle /\ \A h \in Asked : bye[h] # "asked"
    /\ \/ /\ viewers = {} /\ auto_called /\ Busy
          /\ auto_called' = FALSE
          /\ BeginHangingUp(d)
       \/ /\ ~(viewers = {} /\ auto_called /\ Busy)
          /\ bye' = [bye EXCEPT ![d] = "over"]
          /\ UNCHANGED <<auto_called, hanging_up, hangup_done, settle, tasks>>
    /\ UNCHANGED <<viewVars, auto_gen, explicit, caller, tries, panel_retry, hangup_task,
                   lineVars, timeVars, udp>>

\* async_hangup: the button and the card, the last HomeKit view.
AskedHangup(h) ==
    /\ h \in Asked /\ bye[h] = IF h[1] = User THEN "none" ELSE "asked"
    /\ auto_called' = FALSE /\ explicit' = FALSE
    /\ BeginHangingUp(h)
    /\ UNCHANGED <<viewVars, auto_gen, caller, tries, panel_retry, hangup_task, lineVars,
                   timeVars, udp>>

\* do_hangup: the call is over here at once, then stop_media suspends.
ByeLeaves(h) ==
    /\ Next_task(h)
    /\ in_call' = FALSE /\ calling' = FALSE
    /\ bye' = [bye EXCEPT ![h] = IF in_call THEN "media" ELSE "no dialog"]
    /\ StateChange(FALSE, FALSE)
    /\ UNCHANGED <<holder, panel_bye, viewVars, autoVars, hangup_task, hanging_up, hangup_done, udp>>

\* call_ended, then the BYE, whose answer the guard waits for.
ByeTold(h) ==
    /\ bye[h] = "media"
    /\ CallEnded
    /\ bye' = [bye EXCEPT ![h] = "answer"]
    /\ UNCHANGED <<viewVars, auto_gen, explicit, caller, tries, panel_retry, hangup_task,
                   hanging_up, hangup_done, settle, lineVars, timeVars, envVars>>

ByeFinished(h) ==
    /\ bye[h] \in {"answer", "no dialog"}
    /\ IF bye[h] = "answer" THEN UNCHANGED auto_called ELSE CallEnded
    /\ bye' = [bye EXCEPT ![h] = "over"]
    /\ EndHangingUp(h)
    /\ UNCHANGED <<waits_for, viewers, auto_gen, explicit, caller, tries, panel_retry,
                   hangup_task, hangup_done, lineVars, timeVars, envVars>>

\* HANGUP_LOCAL_SETTLE after the local end.
LocalSettle ==
    /\ settle /\ Idle
    /\ EndHangingUp(hangup_done)
    /\ UNCHANGED <<waits_for, viewers, autoVars, hangup_task, hangup_done, bye, lineVars, timeVars, envVars>>

----------------------------------------------------------------------------
\* Viewers.

\* A call in view, or one to place: the view waits for its video.  Otherwise, in
\* the pause after a call, a quick reopening is refused.
Reflex(v) == v \notin HomeKit /\ left_since /\ cooldown
Accepted(v) ==
    /\ CallInView \/ ~Reflex(v)
    /\ view' = [view EXCEPT ![v] = "waiting"]
    /\ IF CallInView
       THEN UNCHANGED <<auto_called, auto_gen, caller, tasks>>
       ELSE /\ auto_called' = TRUE /\ auto_gen' = v
            /\ caller' = [caller EXCEPT ![v] = "spawned"]
            /\ tasks' = Append(tasks, v)

\* A new viewer cancels the delayed hang-up: for good while it sleeps, but a BYE
\* on its way goes on.
Cancelled_None == {}
Cancelled == IF hangup_task # None /\ bye[hangup_task] = "asked" THEN {hangup_task} ELSE {}

\* stream_opened.
StreamOpened(v) ==
    /\ view[v] = "unopened"
    /\ hangup_task' = None
    /\ bye' = [h \in Hangup |-> IF h \in Cancelled THEN "over" ELSE bye[h]]
    /\ \/ /\ hanging_up
          /\ viewers' = viewers \cup {v}
          /\ view' = [view EXCEPT ![v] = "guarded"]
          /\ waits_for' = [waits_for EXCEPT ![v] = hangup_done]
          /\ UNCHANGED <<auto_called, auto_gen, caller, tasks>>
       \/ /\ ~hanging_up /\ Accepted(v)
          /\ viewers' = viewers \cup {v}
          /\ UNCHANGED waits_for
       \/ /\ ~hanging_up /\ ~CallInView /\ Reflex(v)  \* 503: it counts for nothing
          /\ view' = [view EXCEPT ![v] = "gone"]
          /\ UNCHANGED <<viewers, waits_for, auto_called, auto_gen, caller, tasks>>
    /\ UNCHANGED <<explicit, tries, panel_retry, hanging_up, hangup_done, settle, lineVars,
                   timeVars, udp>>

\* HANGUP_SETTLE has passed.
GuardTimesOut(v) ==
    /\ view[v] = "guarded" /\ Idle
    /\ view' = [view EXCEPT ![v] = "woken"]
    /\ UNCHANGED <<waits_for, viewers, autoVars, guardVars, lineVars, timeVars, envVars>>

\* The rest of stream_opened; a wake-up runs behind the tasks created before it.
\* It looks at the guard once: with another hang-up on its way by now, the view
\* waited in vain.
GuardDrops(v) ==
    /\ view[v] = "woken" /\ Idle
    /\ Accepted(v)
    /\ waits_for' = [waits_for EXCEPT ![v] = IF hanging_up THEN @ ELSE None]
    /\ UNCHANGED <<viewers, explicit, tries, panel_retry, guardVars, lineVars, timeVars, udp>>

\* stream_closed, and the HomeKit view that hangs up at once, besides.
EndsWithViewers == auto_called /\ Busy
Leaves(v) ==
    LET last == viewers = {v} /\ EndsWithViewers
        armed == IF ~last THEN {} ELSE {<<v, "left">>, <<v, "homekit">>} IN
    /\ viewers' = viewers \ {v}
    /\ view' = [view EXCEPT ![v] = "gone"]
    /\ waits_for' = [waits_for EXCEPT ![v] = IF view[v] = "waiting" THEN @ ELSE None]
    /\ left_since' = (cooldown /\ (left_since \/ viewers = {v}))
    /\ hangup_task' = IF last THEN <<v, "left">> ELSE hangup_task
    /\ bye' = [h \in Hangup |-> IF h \in armed THEN "asked" ELSE bye[h]]
    /\ UNCHANGED <<autoVars, hanging_up, hangup_done, settle, lineVars, fresh, cooldown, envVars>>

StreamClosed(v) == view[v] \in {"guarded", "woken", "waiting"} /\ Leaves(v)

\* The quick reopening that waited for the guard.
StreamRefused(v) == view[v] = "woken" /\ Idle /\ ~CallInView /\ Reflex(v) /\ Leaves(v)

----------------------------------------------------------------------------
\* Those who place a call.

StillWanted(c) == /\ ~Busy
                  /\ IF c = User THEN explicit
                                 ELSE auto_gen = c /\ viewers # {} /\ auto_called

\* A call that was not placed, or failed: an auto-call's flag goes, if it is its own.
GivesUp(c) == caller' = [caller EXCEPT ![c] = "over"]
DropsFlag(c) == auto_called' = (auto_called /\ ~(c # User /\ auto_gen = c))
Pauses(c) == cooldown' = (cooldown \/ c # User) /\ left_since' = (left_since /\ c = User)

\* do_call begins: refused while another call is up or being placed.
Dials(c) ==
    IF Busy
    THEN GivesUp(c) /\ UNCHANGED <<calling, holder, tries>>
    ELSE /\ calling' = TRUE /\ holder' = c
         /\ caller' = [caller EXCEPT ![c] = "dialing"]
         /\ tries' = [tries EXCEPT ![c] = @ + 1]

\* _call_panel: on local UDP a panel that settles after the last dialog is waited for.
Places(c) ==
    IF udp /\ fresh
    THEN /\ caller' = [caller EXCEPT ![c] = "settling"] /\ panel_retry' = TRUE
         /\ UNCHANGED <<calling, holder, tries>>
    ELSE Dials(c) /\ UNCHANGED panel_retry

\* async_call: the buttons and the card.
UserCalls ==
    /\ caller[User] = "none"
    /\ Places(User)
    /\ auto_called' = FALSE /\ explicit' = TRUE
    /\ UNCHANGED <<viewVars, auto_gen, guardVars, in_call, panel_bye, timeVars, envVars>>

\* claim_call: the microphone on /audio_ws makes the call that user's.
ClaimCall ==
    /\ auto_called
    /\ auto_called' = FALSE
    /\ UNCHANGED <<viewVars, auto_gen, explicit, caller, tries, panel_retry, guardVars, lineVars,
                   timeVars, envVars>>

\* _do_auto_call.
AutoCalls(v) ==
    /\ Next_task(v)
    /\ Places(v)
    /\ IF caller'[v] = "over"
       THEN Pauses(v) /\ DropsFlag(v)
       ELSE UNCHANGED <<auto_called, cooldown, left_since>>
    /\ UNCHANGED <<viewVars, auto_gen, explicit, guardVars, in_call, panel_bye, fresh, udp>>

\* _settle ends.
CallSettled(c) ==
    /\ caller[c] = "settling" /\ Idle
    /\ panel_retry' = FALSE
    /\ IF StillWanted(c)
       THEN Dials(c) /\ UNCHANGED <<auto_called, cooldown, left_since>>
       ELSE GivesUp(c) /\ DropsFlag(c) /\ Pauses(c) /\ UNCHANGED <<calling, holder, tries>>
    /\ UNCHANGED <<viewVars, auto_gen, explicit, guardVars, in_call, panel_bye, fresh, envVars>>

Holds(c) == caller[c] = "dialing" /\ calling /\ holder = c

CallConnects(c) ==
    /\ Holds(c)
    /\ in_call' = TRUE /\ calling' = FALSE
    /\ caller' = [caller EXCEPT ![c] = "connected"]
    /\ UNCHANGED <<holder, panel_bye, viewVars, auto_called, auto_gen, explicit, tries,
                   panel_retry, guardVars, timeVars, envVars>>

BudgetLeft_OneMore(c) == tries[c] <= MaxTries
BudgetLeft(c) == tries[c] < MaxTries

\* No answer: on local UDP another try, while it is wanted and the budget lasts.
CallUnanswered(c) ==
    LET wanted == IF c = User THEN explicit
                              ELSE auto_gen = c /\ viewers # {} /\ auto_called
        again == udp /\ wanted /\ BudgetLeft(c) IN
    /\ Holds(c) /\ Idle
    /\ calling' = FALSE
    /\ \/ /\ again
          /\ caller' = [caller EXCEPT ![c] = "settling"] /\ panel_retry' = TRUE
          /\ UNCHANGED auto_called
       \/ /\ ~again
          /\ GivesUp(c) /\ DropsFlag(c) /\ UNCHANGED panel_retry
    /\ StateChange(in_call, ~again /\ c # User)
    /\ UNCHANGED <<in_call, holder, panel_bye, viewVars, auto_gen, explicit, tries, hangup_task,
                   bye, hanging_up, hangup_done, envVars>>

\* Refused by the panel, or given up by a do_hangup, which has cleared `calling`:
\* on its way out do_call clears it again, whoever holds it by then.
CallFails(c) ==
    /\ caller[c] = "dialing"
    /\ calling' = FALSE
    /\ GivesUp(c) /\ DropsFlag(c)
    /\ StateChange(in_call, c # User)
    /\ UNCHANGED <<in_call, holder, panel_bye, viewVars, auto_gen, explicit, tries, panel_retry,
                   hangup_task, bye, hanging_up, hangup_done, envVars>>

\* do_call returns.  The viewer may have left before `calling` was up, when its
\* leaving saw no call to hang up.
ComesLate_Never(c) == FALSE
ComesLate(c) ==
    /\ c # User /\ auto_gen = c
    /\ viewers = {} /\ auto_called /\ in_call /\ ~hanging_up
    /\ hangup_task = None \/ bye[hangup_task] = "over"
CallReturns(c) ==
    /\ caller[c] = "connected"
    /\ calling' = FALSE
    /\ GivesUp(c)
    /\ StateChange(in_call, FALSE)
    /\ hangup_task' = IF ComesLate(c) THEN <<c, "late">> ELSE hangup_task
    /\ bye' = [h \in Hangup |-> IF ComesLate(c) /\ h = <<c, "late">> THEN "asked" ELSE bye[h]]
    /\ UNCHANGED <<in_call, holder, panel_bye, viewVars, auto_called, auto_gen, explicit, tries,
                   panel_retry, hanging_up, hangup_done, envVars>>

----------------------------------------------------------------------------
\* Time.

PanelSettled == /\ fresh /\ Idle /\ fresh' = FALSE
                /\ UNCHANGED <<cooldown, left_since, viewVars, autoVars, guardVars, lineVars,
                               envVars>>
CooldownOver == /\ cooldown /\ ~fresh /\ Idle
                /\ cooldown' = FALSE /\ left_since' = FALSE
                /\ UNCHANGED <<fresh, viewVars, autoVars, guardVars, lineVars, envVars>>

Next ==
    \/ \E v \in Views : \/ StreamOpened(v) \/ GuardTimesOut(v) \/ GuardDrops(v)
                        \/ StreamClosed(v) \/ StreamRefused(v) \/ AutoCalls(v)
    \/ \E c \in Caller : \/ CallSettled(c) \/ CallConnects(c) \/ CallUnanswered(c)
                         \/ CallFails(c) \/ CallReturns(c)
    \/ \E h \in Hangup : \/ DelayedHangup(h) \/ AskedHangup(h)
                         \/ ByeLeaves(h) \/ ByeTold(h) \/ ByeFinished(h)
    \/ LocalSettle \/ UserCalls \/ ClaimCall \/ PanelByes \/ PanelByeTold
    \/ PanelSettled \/ CooldownOver

Spec == Init /\ [][Next]_vars

----------------------------------------------------------------------------
\* Properties.

ViewStage == {"unopened", "guarded", "woken", "waiting", "gone"}
CallStage == {"none", "spawned", "settling", "dialing", "connected", "over"}
ByeStage == {"none", "asked", "started", "media", "no dialog", "answer", "over"}

\* Every variable has its type.
TypeOK ==
    /\ udp \in BOOLEAN
    /\ view \in [Views -> ViewStage]
    /\ waits_for \in [Views -> Hangup \cup {None}]
    /\ viewers \subseteq Views
    /\ auto_called \in BOOLEAN /\ auto_gen \in Views \cup {None} /\ explicit \in BOOLEAN
    /\ caller \in [Caller -> CallStage]
    /\ tries \in [Caller -> 0 .. MaxTries]
    /\ panel_retry \in BOOLEAN
    /\ hangup_task \in Delayed \cup {None}
    /\ bye \in [Hangup -> ByeStage]
    /\ hanging_up \in BOOLEAN /\ hangup_done \in Hangup \cup {None} /\ settle \in BOOLEAN
    /\ in_call \in BOOLEAN /\ calling \in BOOLEAN
    /\ holder \in Caller \cup {None} /\ panel_bye \in BOOLEAN
    /\ fresh \in BOOLEAN /\ cooldown \in BOOLEAN /\ left_since \in BOOLEAN
    /\ tasks \in Seq(Views \cup Hangup)

Running == { h \in Hangup : bye[h] \in {"started", "media", "no dialog", "answer"} }

\* The guard is up only for a hang-up that still runs, so it comes down by itself;
\* and a view behind a guard waits for a hang-up that will wake it.
GuardEnds == /\ hanging_up => hangup_done \in Running
             /\ \A v \in Views : view[v] = "guarded" => waits_for[v] \in Running

\* One delayed hang-up sleeps at a time, and it is the one a new view can cancel;
\* with a viewer there is none.
OneDelayed == \A d \in Delayed : bye[d] = "asked" => hangup_task = d /\ viewers = {}

\* A view's call that is up with nobody watching has its hang-up armed, or a view
\* asked for it while the guard was still up.
UnwatchedHasHangup ==
    /\ in_call /\ auto_called /\ viewers = {}
    /\ holder # User /\ waits_for[auto_gen] = None
    /\ \A v \in Views : caller[v] \in {"none", "over"}
    => \E d \in Delayed : bye[d] = "asked"

\* A view that does not wait in vain joins, or asks for, no call that the latest
\* hang-up is about to end; nor, on local UDP, while the panel has not answered
\* its BYE.
NoDyingCall ==
    [][\A v \in Views : view[v] # "waiting" /\ view'[v] = "waiting" /\ waits_for'[v] = None
            => \A h \in Hangup : /\ bye[h] # "started"
                                 /\ udp /\ h = hangup_done => h \notin Running]_vars

\* The end of an earlier call does not touch a newer auto-call.
AutoKept ==
    [][\A v \in Views : panel_bye /\ ~panel_bye' /\ caller[v] = "settling" /\ auto_gen = v
            => auto_called' = auto_called]_vars

=============================================================================
