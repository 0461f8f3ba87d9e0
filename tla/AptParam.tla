------------------------------- MODULE AptParam -------------------------------
(***************************************************************************)
(* The apartment's parameters (async_set_apt_param of hub.py and the select   *)
(* of the voicemail's delay): SET_APT_PARAMS carries an ID, its reply comes   *)
(* in a MESSAGE of its own, and the panel tells every change to everybody.    *)
(***************************************************************************)
EXTENDS Naturals, Sequences, FiniteSets

CONSTANTS
    Setters,    \* uses of the select, once each
    Values,     \* vm_timeout_values
    Tells,      \* the panel sends APT_PARAMS_CHANGED
    Reorders,   \* MESSAGEs of the panel may overtake each other
    MaxHands,   \* bound: changes made at the panel
    None

VARIABLES
    tab,         \* the panel's vm_timeout
    wire,        \* SET_APT_PARAMS on their way
    news,        \* the panel's MESSAGEs on their way
    answered,    \* the setters whose MESSAGE got its 200
    waiters,     \* _apt_param_waiters, by MSGID: pending or the ERRCODE
    vm_timeout,  \* stats["vm_timeout"]
    op, asked,   \* where each setter stands, and its value
    accepted,    \* (history) the setters whose value the panel took
    crossed,     \* (history) a change was read between a reply and its waiter
    hands

panel == <<tab, wire, news, accepted, hands>>
vars == <<panel, answered, crossed, waiters, vm_timeout, op, asked>>

Init ==
    /\ tab \in Values /\ wire = <<>> /\ news = <<>> /\ answered = {} /\ crossed = FALSE /\ accepted = {} /\ hands = 0
    /\ waiters = [s \in Setters |-> None]
    /\ vm_timeout \in {None, tab}
    /\ op = [s \in Setters |-> "unused"] /\ asked = [s \in Setters |-> None]

\* async_select_option, async_set_apt_param: the MSGID is of this request alone.
Set(s) == \E v \in Values :
    /\ op[s] = "unused"
    /\ op' = [op EXCEPT ![s] = "sent"] /\ asked' = [asked EXCEPT ![s] = v]
    /\ waiters' = [waiters EXCEPT ![s] = "pending"]
    /\ wire' = Append(wire, s)
    /\ UNCHANGED <<tab, news, accepted, hands, answered, crossed, vm_timeout>>

Over(s, how) ==
    /\ op' = [op EXCEPT ![s] = how]
    /\ waiters' = [waiters EXCEPT ![s] = None]

\* The MESSAGE is delivered; or it is not, and the reply is not waited for.
Sent(s) ==
    /\ op[s] = "sent" /\ s \in answered
    /\ op' = [op EXCEPT ![s] = "waiting"]
    /\ UNCHANGED <<panel, answered, crossed, waiters, vm_timeout, asked>>
NotSent(s) ==
    /\ op[s] = "sent" /\ s \notin answered
    /\ Over(s, "failed")
    /\ UNCHANGED <<panel, answered, crossed, vm_timeout, asked>>

\* The reply: only ERR_NONE is a success, and its value is the parameter's.
Succeeds(s) == waiters[s] = "ERR_NONE"
Replied(s) ==
    /\ op[s] = "waiting" /\ waiters[s] \notin {None, "pending"}
    /\ vm_timeout' = IF Succeeds(s) THEN asked[s] ELSE vm_timeout
    /\ Over(s, IF Succeeds(s) THEN "set" ELSE "refused")
    /\ UNCHANGED <<panel, answered, crossed, asked>>
TimedOut(s) ==
    /\ op[s] = "waiting" /\ waiters[s] = "pending"
    /\ Over(s, "failed")
    /\ UNCHANGED <<panel, answered, crossed, vm_timeout, asked>>

-----------------------------------------------------------------------------
(* The panel, and its MESSAGEs.                                               *)

Change(v) == IF Tells THEN <<[k |-> "changed", v |-> v]>> ELSE <<>>
PanelReads == \E ok \in BOOLEAN :
    /\ wire # <<>>
    /\ LET s == Head(wire) IN
       /\ wire' = Tail(wire)
       /\ answered' = answered \cup {s}
       /\ tab' = IF ok THEN asked[s] ELSE tab
       /\ accepted' = IF ok THEN accepted \cup {s} ELSE accepted
       /\ news' = news \o (IF ok THEN Change(asked[s]) ELSE <<>>)
                       \o <<[k |-> "reply", to |-> s, err |-> IF ok THEN "ERR_NONE" ELSE "ERR"]>>
    /\ UNCHANGED <<hands, crossed, waiters, vm_timeout, op, asked>>

Hand == \E v \in Values :
    /\ hands < MaxHands
    /\ hands' = hands + 1
    /\ tab' = v
    /\ news' = news \o Change(v)
    /\ UNCHANGED <<wire, accepted, answered, crossed, waiters, vm_timeout, op, asked>>

\* A reply nobody waits for any more is dropped; one waits for its own ID alone.
Waits(m, s) == m.to = s /\ waiters[s] = "pending"
HandleMessage == \E n \in DOMAIN news :
    /\ Reorders \/ n = 1
    /\ LET m == news[n] IN
       /\ news' = SubSeq(news, 1, n - 1) \o SubSeq(news, n + 1, Len(news))
       /\ vm_timeout' = IF m.k = "changed" THEN m.v ELSE vm_timeout
       /\ crossed' = (crossed \/ (m.k = "changed" /\ \E s \in Setters : waiters[s] \notin {None, "pending"}))
       /\ waiters' = [s \in Setters |-> IF m.k = "reply" /\ Waits(m, s) THEN m.err ELSE waiters[s]]
    /\ UNCHANGED <<tab, wire, accepted, hands, answered, op, asked>>

Next ==
    \/ \E s \in Setters : Set(s) \/ Sent(s) \/ NotSent(s) \/ Replied(s) \/ TimedOut(s)
    \/ PanelReads \/ Hand \/ HandleMessage

Spec == Init /\ [][Next]_vars
-----------------------------------------------------------------------------
TypeOK ==
    /\ vm_timeout \in Values \cup {None}
    /\ \A s \in Setters : (waiters[s] # None) = (op[s] \in {"sent", "waiting"})

\* A user who is told that the delay is set was told so of the value he asked for.
ToldTruly == \A s \in Setters : op[s] = "set" => s \in accepted

\* Once all is delivered the hub knows the panel's delay, if the panel tells of changes
\* and none was read just between a reply and the task that waits for it.
KnowsTheDelay ==
    (news = <<>> /\ wire = <<>> /\ ~crossed /\ vm_timeout # None /\ \A s \in Setters : op[s] \notin {"sent", "waiting"})
        => vm_timeout = tab
=============================================================================
