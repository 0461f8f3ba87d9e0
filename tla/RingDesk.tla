------------------------------ MODULE RingDesk ------------------------------
(***************************************************************************)
(* What the hub makes of a ring (hub.py, ring_media.py): the doorbell event   *)
(* and the webhooks, the line in the ring log and its outcome, the away       *)
(* message, the test ring.  The SIP side is what the hub sees of it: a ring   *)
(* is on, its end or its answer is told a while later.                        *)
(***************************************************************************)
EXTENDS Naturals, Sequences, FiniteSets

CONSTANTS
    MaxRings,     \* bound: visitors
    MaxSims,      \* bound: test rings
    AwayOn,       \* the switch of the away message, at first
    Faults,       \* "overlap": a ring, or a test ring, comes before the end of the one
                  \* before is told; "early": a ring ends before it is told; "both": it is
                  \* answered while its decline is sent; "cut": the away message is
                  \* cancelled while it answers; "disk": the log is not written
    None

VARIABLES
    rung,       \* rings so far
    pending,    \* sip.pending_incoming, while active: [ring, told]
    call,       \* the call that is up: a ring, or 0
    answering,  \* do_answer_incoming: [ring, by, up]
    declining,  \* async_decline, while it sends: a ring, or 0
    endings,    \* rings that are over, ring_ended to be told: [ring, declined]
    hub,        \* _was_ringing, _ring_answered, _ring_declined, _ring_time, missed_count,
                \* _sim_ring, _away_enabled
    away,       \* _away_task: [ring, step]
    hooks,      \* [started, ended]: doorbell events and end webhooks
    announced,  \* rings whose event fired
    log, logq,  \* the log on disk, and the changes waiting for its lock
    truth,      \* what became of each ring
    claimed     \* whoever talks has taken the call

vars == <<rung, pending, call, answering, declining, endings, hub, away, hooks, announced, log, logq, truth, claimed>>
logVars == <<log, logq>>
lineVars == <<rung, pending, call, answering, declining, endings>>

Rings == 1..MaxRings
Ringing == pending # None
IsRinging == Ringing \/ hub.sim
Over(c, declined) == [ring |-> c, declined |-> declined]

Init ==
    /\ rung = 0 /\ pending = None /\ call = 0 /\ answering = None /\ declining = 0 /\ endings = <<>>
    /\ hub = [was |-> FALSE, answered |-> FALSE, declined |-> FALSE, ring |-> 0, missed |-> 0,
              sim |-> FALSE, away_on |-> AwayOn, sims |-> 0]
    /\ away = None /\ hooks = [started |-> 0, ended |-> 0] /\ announced = {}
    /\ log = [c \in Rings |-> None] /\ logq = <<>> /\ truth = [c \in Rings |-> None] /\ claimed = FALSE

\* _ring_over
RingOver(h, k) == <<[h EXCEPT !.was = FALSE], [k EXCEPT !.ended = @ + 1]>>
AfterEvent_StillRings(h, still) == <<h, hooks>>
\* The last lines of _handle_broadcast: the ring is over once nothing rings.
AfterEvent(h, still) == IF h.was /\ ~still THEN RingOver(h, hooks) ELSE <<h, hooks>>
\* _log_outcome: of the ring in _ring_time.
Outcome(h, o) == IF h.ring = 0 THEN logq ELSE Append(logq, [ring |-> h.ring, outcome |-> o])
\* _cancel_away; a task that answers is cut inside do_answer_incoming.
CancelAway == away' = None
MayCancelAway == away # None /\ away.step = "answer" => "cut" \in Faults
Cut == IF away # None /\ away.step = "answer" THEN None ELSE answering

Settled == endings = <<>> /\ answering = None /\ declining = 0
Apart == Settled \/ "overlap" \in Faults

-----------------------------------------------------------------------------
(* The ring and its end.                                                     *)

Invite ==
    /\ rung < MaxRings /\ ~Ringing /\ call = 0 /\ Apart
    /\ rung' = rung + 1 /\ pending' = [ring |-> rung', told |-> FALSE]
    /\ UNCHANGED <<call, answering, declining, endings, hub, away, hooks, announced, logVars, truth, claimed>>

\* The "ring" branch of _handle_broadcast; a test ring ends first.
RingTold ==
    /\ Ringing /\ ~pending.told /\ call = 0 /\ MayCancelAway
    /\ pending' = [pending EXCEPT !.told = TRUE]
    /\ LET c == pending.ring
           h == [hub EXCEPT !.answered = FALSE, !.declined = FALSE]
           s == IF hub.sim THEN RingOver([h EXCEPT !.sim = FALSE], hooks) ELSE <<h, hooks>>
       IN /\ hub' = [s[1] EXCEPT !.was = TRUE, !.ring = c]
          /\ hooks' = IF s[1].was THEN s[2] ELSE [s[2] EXCEPT !.started = @ + 1]
          /\ announced' = IF s[1].was THEN announced ELSE announced \cup {c}
          /\ logq' = Append(logq, [ring |-> c, outcome |-> "missed"])
          /\ truth' = [truth EXCEPT ![c] = "missed"]
          /\ IF hub.away_on THEN away' = [ring |-> c, step |-> "delay"] /\ answering' = Cut
             ELSE UNCHANGED <<away, answering>>
    /\ UNCHANGED <<rung, call, declining, endings, log, claimed>>

\* CANCEL, RING_MAX_S, or the preview that stops; then stop_media.
RingEnds ==
    /\ Ringing /\ (pending.told \/ "early" \in Faults)
    /\ pending' = None /\ endings' = Append(endings, Over(pending.ring, FALSE))
    /\ UNCHANGED <<rung, call, answering, declining, hub, away, hooks, announced, logVars, truth, claimed>>
RingEnded ==
    /\ endings # <<>> /\ MayCancelAway
    /\ endings' = Tail(endings)
    /\ LET e == Head(endings)
           h == [hub EXCEPT !.missed = IF hub.answered \/ hub.declined THEN @ ELSE @ + 1]
           s == AfterEvent(h, IsRinging)
       IN /\ hub' = IF e.declined THEN [s[1] EXCEPT !.declined = TRUE] ELSE s[1]
          /\ hooks' = s[2]
          /\ logq' = IF e.declined THEN Outcome(hub, "declined") ELSE logq
          /\ truth' = IF e.declined THEN [truth EXCEPT ![e.ring] = "declined"] ELSE truth
    /\ CancelAway /\ answering' = Cut
    /\ UNCHANGED <<rung, pending, call, declining, announced, log, claimed>>

-----------------------------------------------------------------------------
(* Answer, decline, talk.                                                    *)

StopSim == LET s == RingOver([hub EXCEPT !.sim = FALSE], hooks) IN hub' = s[1] /\ hooks' = s[2]

\* do_answer_incoming closes the ring before its first await.
Answering(c, by) == pending' = None /\ answering' = [ring |-> c, by |-> by, up |-> FALSE]
\* async_answer
AnswerStopsSim ==
    /\ hub.sim /\ StopSim
    /\ UNCHANGED <<lineVars, away, announced, logVars, truth, claimed>>
TakesFromAway ==
    /\ ~hub.sim /\ away # None /\ call # 0 /\ MayCancelAway
    /\ away' = None /\ answering' = Cut /\ claimed' = TRUE
    /\ hub' = [hub EXCEPT !.answered = TRUE]
    /\ logq' = Outcome(hub, "answered") /\ truth' = [truth EXCEPT ![call] = "answered"]
    /\ UNCHANGED <<rung, pending, call, declining, endings, hooks, announced, log>>
Answer ==
    /\ ~hub.sim /\ call = 0 /\ Ringing /\ (pending.told \/ "early" \in Faults)
    /\ declining # 0 => "both" \in Faults
    /\ Answering(pending.ring, "user")
    /\ UNCHANGED <<rung, call, declining, endings, hub, away, hooks, announced, logVars, truth, claimed>>

\* The 200: sent, or not.
AnswerSent ==
    /\ answering # None /\ ~answering.up
    /\ call' = answering.ring /\ answering' = [answering EXCEPT !.up = TRUE] /\ claimed' = FALSE
    /\ UNCHANGED <<rung, pending, declining, endings, hub, away, hooks, announced, logVars, truth>>
AnswerFails ==
    /\ answering # None /\ ~answering.up /\ answering' = None
    /\ endings' = Append(endings, Over(answering.ring, FALSE))
    /\ away' = IF answering.by = "away" THEN None ELSE away
    /\ UNCHANGED <<rung, pending, call, declining, hub, hooks, announced, logVars, truth, claimed>>
\* call_started, and what the one who answered notes.
AnswerTold ==
    /\ answering # None /\ answering.up /\ answering' = None
    /\ LET s == AfterEvent(hub, IsRinging)
           o == IF answering.by = "away" THEN "away" ELSE "answered"
       IN /\ hub' = [s[1] EXCEPT !.answered = TRUE] /\ hooks' = s[2]
          /\ logq' = Outcome(hub, o) /\ truth' = [truth EXCEPT ![answering.ring] = o]
    /\ away' = IF answering.by = "away" THEN [away EXCEPT !.step = "play"] ELSE away
    /\ UNCHANGED <<rung, pending, call, declining, endings, announced, log, claimed>>
\* The visitor leaves, somebody hangs up: the call_ended that follows.
CallEnds ==
    /\ call # 0 /\ call' = 0
    /\ hub' = [hub EXCEPT !.answered = FALSE]
    /\ UNCHANGED <<rung, pending, answering, declining, endings, away, hooks, announced, logVars, truth, claimed>>

\* async_decline
Decline ==
    /\ ~hub.sim /\ Ringing /\ (pending.told \/ "early" \in Faults) /\ declining = 0
    /\ declining' = pending.ring /\ hub' = [hub EXCEPT !.declined = TRUE]
    /\ UNCHANGED <<rung, pending, call, answering, endings, away, hooks, announced, logVars, truth, claimed>>
\* Without a ring_ended when a call of ours is up by now.
Declined ==
    /\ declining # 0 /\ declining' = 0
    /\ pending' = IF Ringing /\ pending.ring = declining THEN None ELSE pending
    /\ IF call = 0 THEN endings' = Append(endings, Over(declining, TRUE)) /\ UNCHANGED logq
       ELSE logq' = Outcome(hub, "declined") /\ UNCHANGED endings
    /\ UNCHANGED <<rung, call, answering, hub, away, hooks, announced, log, truth, claimed>>

\* claim_call: somebody talks.
Claim ==
    /\ call # 0 /\ ~claimed /\ claimed' = TRUE
    /\ MayCancelAway /\ CancelAway /\ answering' = Cut
    /\ UNCHANGED <<rung, pending, call, declining, endings, hub, hooks, announced, logVars, truth>>

-----------------------------------------------------------------------------
(* The away message, the test ring, the log.                                 *)

\* AWAY_MESSAGE_DELAY, or the voicemail's.
AwayWakes ==
    /\ away # None /\ away.step = "delay"
    /\ away' = IF Ringing /\ pending.ring = away.ring /\ call = 0 THEN [away EXCEPT !.step = "load"] ELSE None
    /\ UNCHANGED <<lineVars, hub, hooks, announced, logVars, truth, claimed>>
\* The file or the voice of the text; without it, better to let it ring.
AwayAnswers ==
    /\ away # None /\ away.step = "load"
    /\ Ringing /\ pending.ring = away.ring /\ (declining # 0 => "both" \in Faults)
    /\ away' = [away EXCEPT !.step = "answer"] /\ Answering(away.ring, "away")
    /\ UNCHANGED <<rung, call, declining, endings, hub, hooks, announced, logVars, truth, claimed>>
AwayGivesUp ==
    /\ away # None /\ away.step = "load" /\ away' = None
    /\ UNCHANGED <<lineVars, hub, hooks, announced, logVars, truth, claimed>>
\* send_pcm is through, or its call is over.
AwayHangsUp ==
    /\ away # None /\ away.step = "play" /\ away' = None
    /\ IF call = away.ring THEN call' = 0 /\ hub' = [hub EXCEPT !.answered = FALSE] ELSE UNCHANGED <<call, hub>>
    /\ UNCHANGED <<rung, pending, answering, declining, endings, hooks, announced, logVars, truth, claimed>>
\* set_away_enabled, on_voicemail_on
AwaySwitched ==
    /\ MayCancelAway
    /\ hub' = [hub EXCEPT !.away_on = ~@]
    /\ IF hub.away_on THEN CancelAway /\ answering' = Cut ELSE UNCHANGED <<away, answering>>
    /\ UNCHANGED <<rung, pending, call, declining, endings, hooks, announced, logVars, truth, claimed>>

SimulateRing ==
    /\ hub.sims < MaxSims /\ ~IsRinging /\ call = 0 /\ Apart
    /\ hub' = [hub EXCEPT !.sim = TRUE, !.sims = @ + 1, !.was = TRUE]
    /\ hooks' = [hooks EXCEPT !.started = @ + 1]
    /\ UNCHANGED <<lineVars, away, announced, logVars, truth, claimed>>
SimEnds ==
    /\ hub.sim /\ StopSim
    /\ UNCHANGED <<lineVars, away, announced, logVars, truth, claimed>>

\* update_ring_log: one at a time, in order; its entry may not be there.
LogWritten ==
    /\ logq # <<>> /\ logq' = Tail(logq)
    /\ LET w == Head(logq)
       IN log' = IF w.outcome = "missed" \/ log[w.ring] # None THEN [log EXCEPT ![w.ring] = w.outcome] ELSE log
    /\ UNCHANGED <<lineVars, hub, away, hooks, announced, truth, claimed>>
LogLost ==
    /\ "disk" \in Faults /\ logq # <<>> /\ logq' = Tail(logq)
    /\ UNCHANGED <<lineVars, hub, away, hooks, announced, log, truth, claimed>>

Told == RingTold \/ RingEnded \/ AnswerSent \/ AnswerFails \/ AnswerTold \/ Declined
Next ==
    \/ Invite \/ RingEnds \/ Told \/ AnswerStopsSim \/ TakesFromAway \/ Answer \/ CallEnds
    \/ Decline \/ Claim \/ AwayWakes \/ AwayAnswers \/ AwayGivesUp \/ AwayHangsUp \/ AwaySwitched
    \/ SimulateRing \/ SimEnds \/ LogWritten \/ LogLost
Spec == Init /\ [][Next]_vars
\* The tasks go on; a ring ends in RING_MAX_S, a test ring after its duration.
Fairness == WF_vars(Told) /\ WF_vars(RingEnds) /\ WF_vars(SimEnds) /\ WF_vars(LogWritten)
            /\ WF_vars(AwayWakes) /\ WF_vars(AwayGivesUp)
FairSpec == Spec /\ Fairness

-----------------------------------------------------------------------------
(* Properties.                                                               *)

TypeOK ==
    /\ rung \in 0 .. MaxRings /\ {call, declining} \subseteq 0 .. MaxRings
    /\ pending \in [ring : Rings, told : BOOLEAN] \cup {None}
    /\ answering \in [ring : Rings, by : {"user", "away"}, up : BOOLEAN] \cup {None}
    /\ endings \in Seq([ring : Rings, declined : BOOLEAN])
    /\ away \in [ring : Rings, step : {"delay", "load", "answer", "play"}] \cup {None}
    /\ hub.was \in BOOLEAN /\ hub.ring \in 0 .. MaxRings /\ hub.missed \in 0 .. MaxRings
    /\ announced \subseteq Rings /\ claimed \in BOOLEAN
    /\ \A c \in Rings : {log[c], truth[c]} \subseteq {None, "missed", "answered", "away", "declined"}

\* Every visitor is announced: the doorbell event and its webhook (the "ring" branch of
\* _handle_broadcast fires them only if _was_ringing was cleared since the ring before).
EveryRingAnnounced == \A c \in Rings : truth[c] # None => c \in announced

\* Between two doorbell events there is one end webhook, and no end without a start, though a
\* test ring, an answer and a ring_ended may each be what ends it (_ring_over, _stop_sim).
HooksPaired == hooks.started = hooks.ended + IF hub.was THEN 1 ELSE 0

\* A ring that was announced is over some time (_was_ringing is cleared).
RingCloses == hub.was ~> ~hub.was

\* Once all is written, the log says what became of each visitor: the outcome goes to the
\* entry of its own ring, found by _ring_time when the event comes (_log_outcome).
OutcomeTrue ==
    logq = <<>> /\ Settled => \A c \in Rings : log[c] = truth[c]

\* The visitors the sensor counts as missed are those nobody answered or declined (the flags
\* _ring_answered and _ring_declined are reset by the ring and read by its end).
MissedTrue ==
    Settled /\ ~IsRinging => hub.missed = Cardinality({ c \in Rings : truth[c] = "missed" })

\* The away message hangs up its own call, and none somebody has taken (claim_call,
\* _cancel_away while the message plays).
HangsUpIts == AwayHangsUp /\ call' # call => truth[call] = "away" /\ ~claimed
HangsUpOwnCall == [][HangsUpIts]_vars
=============================================================================
