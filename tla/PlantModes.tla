------------------------------ MODULE PlantModes ------------------------------
(***************************************************************************)
(* The switch of the voicemail (switch.py): the command it sends to the plant,*)
(* the value it supposes meanwhile, the news that comes back in MESSAGEs of   *)
(* its own (plant_messages.py, GET_INIT_STATUS of hub.py), and Home           *)
(* Assistant's own away message, which takes the panel's place.               *)
(***************************************************************************)
EXTENDS Naturals, Sequences, FiniteSets

CONSTANTS
    Users,      \* those who use the switch, once each
    Questions,  \* bound: the hub's own GET_INIT_STATUS, once each
    Configured, \* away_message_configured: the away message is Home Assistant's
    Obeys,      \* the panel carries out the command it answers 200 to
    Announces,  \* and tells of every change
    Replies,    \* it answers GET_INIT_STATUS with the mode
    MaxHands,   \* bound: changes made at the panel itself
    MaxLost,    \* bound: messages lost on either way
    MaxRestarts,\* bound: restarts of Home Assistant
    None

VARIABLES
    tab,              \* the panel: its voicemail is on
    wire,             \* what the hub has sent and the panel has not read
    news,             \* what the panel has sent and the hub has not read
    answered,         \* who has the 200 of what it sent
    voicemail,        \* stats["voicemail"]
    mode_seq,
    away_enabled,
    init_status_sent,
    op,               \* where each use of the switch stands, and the hub's own question
    pending,          \* the command just sent, and the timer of its end
    restored,
    added,            \* the entity is there (async_added_to_hass)
    saved,            \* the state Home Assistant restores
    told, heard,      \* (history) the modes the panel has told, and the last of them
    crossed,          \* one of them while the switch was being used
    hands, lost, restarts

panel == <<tab, wire, news, hands, lost>>
hub == <<voicemail, mode_seq, away_enabled, init_status_sent>>
switch == <<pending, restored, added, saved>>
history == <<told, heard, crossed, restarts>>
vars == <<panel, hub, switch, history, answered, op>>

Tasks == Users \cup Questions
Unused == [at |-> "unused"]
Over == [at |-> "over"]

Init ==
    /\ tab \in BOOLEAN /\ wire = <<>> /\ news = <<>> /\ answered = {}
    /\ voicemail = None /\ mode_seq = 0 /\ away_enabled = TRUE /\ init_status_sent = FALSE
    /\ op = [t \in Tasks |-> Unused]
    /\ pending = None /\ restored = None /\ added = FALSE /\ saved = None
    /\ told = {} /\ heard = None /\ crossed = FALSE /\ hands = 0 /\ lost = 0 /\ restarts = 0

-----------------------------------------------------------------------------
(* The panel, and the way to it and back.                                     *)

Send(t, what) == wire' = Append(wire, [by |-> t, what |-> what])
Tells(kind, on) == Append(news, [kind |-> kind, on |-> on])

\* It reads the next message: its 200 and its news go back apart.
PanelReads ==
    /\ wire # <<>>
    /\ LET m == Head(wire) IN
       /\ wire' = Tail(wire)
       /\ answered' = answered \cup {m.by}
       /\ tab' = IF Obeys /\ m.what # "ask" THEN m.what = "on" ELSE tab
       /\ news' = IF m.what = "ask"
                  THEN (IF Replies THEN Tells("reply", tab) ELSE news)
                  ELSE IF Announces /\ tab' # tab THEN Tells("announced", tab') ELSE news
    /\ UNCHANGED <<hands, lost, hub, switch, history, op>>

\* Somebody uses the panel, or another phone's app.
Hand ==
    /\ hands < MaxHands
    /\ hands' = hands + 1
    /\ tab' = ~tab
    /\ news' = IF Announces THEN Tells("announced", tab') ELSE news
    /\ crossed' = (crossed \/ \E u \in Users : op[u] \notin {Unused, Over})
    /\ UNCHANGED <<wire, lost, hub, switch, told, heard, restarts, answered, op>>

Lose ==
    /\ lost < MaxLost
    /\ lost' = lost + 1
    /\ \/ wire # <<>> /\ wire' = Tail(wire) /\ UNCHANGED news
       \/ news # <<>> /\ news' = Tail(news) /\ UNCHANGED wire
    /\ UNCHANGED <<tab, hands, hub, switch, history, answered, op>>

-----------------------------------------------------------------------------
(* What the switch shows.                                                     *)

Real == voicemail
UsesHA == away_enabled /\ Configured
Shown ==
    IF UsesHA THEN TRUE
    ELSE IF pending # None /\ ~pending.due THEN pending.wanted
    ELSE IF Real # None THEN Real
    ELSE restored
Assumed == ~UsesHA /\ (pending # None \/ Real = None)

\* _on_state_change: what came after the command is the truth, whatever it says.
Answers_Confirmed(p, real, seq) == p # None /\ real = p.wanted /\ seq # p.seq
Answers(p, real, seq) == p # None /\ real # None /\ seq # p.seq
Kept(p, real, seq) == IF Answers(p, real, seq) THEN None ELSE p
StateChange == pending' = IF added THEN Kept(pending, voicemail', mode_seq') ELSE pending

\* A MESSAGE with the mode: VOICEMAIL;ON, VOICEMAIL;OFF or GET_INIT_STATUS_REPLY.
\* Either the panel answers visitors or Home Assistant does (on_voicemail_on).
OneOfTwo(on) == away_enabled /\ ~on
Told(kind) ==
    /\ news # <<>> /\ Head(news).kind = kind
    /\ LET on == Head(news).on IN
       /\ news' = Tail(news)
       /\ voicemail' = on
       /\ mode_seq' = mode_seq + 1
       /\ away_enabled' = OneOfTwo(on)
       /\ told' = told \cup {on}
       /\ heard' = on
    /\ UNCHANGED <<tab, wire, hands, lost, init_status_sent, restored, added, saved, crossed, restarts, answered, op>>
    /\ StateChange
HandleMessage == Told("announced")
InitStatusReply == Told("reply")

-----------------------------------------------------------------------------
(* The commands.                                                              *)

Command(wish) == IF wish = "off" \/ Configured THEN "off" ELSE "on"

\* turn_off silences the away message first; both then send, and mode_seq is read before.
Use(u) == \E wish \in {"on", "off"} :
    /\ added /\ op[u] = Unused
    /\ away_enabled' = (away_enabled /\ wish # "off")
    /\ Send(u, Command(wish))
    /\ op' = [op EXCEPT ![u] = [at |-> "sent", wish |-> wish, seq |-> mode_seq, from |-> mode_seq]]
    /\ UNCHANGED <<tab, news, hands, lost, voicemail, mode_seq, init_status_sent, restored, added, saved,
                   history, answered>>
    /\ StateChange

Sent(u) == op[u].at = "sent"

\* The 200 came: the value is supposed until the timer, and the status is asked for.
Supposed(u) ==
    [wanted |-> Command(op[u].wish) = "on", seq |-> op[u].seq, from |-> op[u].from, due |-> FALSE]
Accepted(u) ==
    /\ Sent(u) /\ u \in answered
    /\ pending' = Kept(Supposed(u), voicemail, mode_seq)
    /\ answered' = answered \ {u}
    /\ Send(u, "ask")
    /\ op' = [op EXCEPT ![u].at = "asking"]
    /\ UNCHANGED <<tab, news, hands, lost, hub, restored, added, saved, history>>

\* No answer, or an error: the command fails, and nothing is supposed.
Failed(u) ==
    /\ Sent(u) /\ u \notin answered
    /\ op' = [op EXCEPT ![u] = Over]
    /\ UNCHANGED <<panel, hub, switch, history, answered>>

\* The question is answered, or not: its mode comes apart.  Then the end of turn_on.
Asked(u) ==
    /\ op[u].at = "asking"
    /\ init_status_sent' = (u \in answered)
    /\ answered' = answered \ {u}
    /\ away_enabled' = IF op[u].wish = "off" THEN away_enabled ELSE Configured
    /\ op' = [op EXCEPT ![u] = Over]
    /\ UNCHANGED <<panel, voicemail, mode_seq, restored, added, saved, history>>
    /\ StateChange

\* The hub asks at its start, and at every keepalive until a question was answered.
HubAsks(q) ==
    /\ ~init_status_sent
    /\ op[q] = Unused /\ \A other \in Questions : op[other] \in {Unused, Over}
    /\ Send(q, "ask")
    /\ op' = [op EXCEPT ![q] = [at |-> "asking"]]
    /\ UNCHANGED <<tab, news, hands, lost, hub, switch, history, answered>>

HubAsked(q) ==
    /\ op[q].at = "asking"
    /\ init_status_sent' = (q \in answered)
    /\ answered' = answered \ {q}
    /\ op' = [op EXCEPT ![q] = Over]
    /\ UNCHANGED <<panel, voicemail, mode_seq, away_enabled, switch, history>>

\* CONFIRM_S after the command: it is not shown any more, then forgotten.
Deadline ==
    /\ pending # None /\ ~pending.due
    /\ pending' = [pending EXCEPT !.due = TRUE]
    /\ UNCHANGED <<panel, hub, restored, added, saved, history, answered, op>>
Expire ==
    /\ pending # None /\ pending.due
    /\ pending' = None
    /\ UNCHANGED <<panel, hub, restored, added, saved, history, answered, op>>

-----------------------------------------------------------------------------
(* Home Assistant stops, or is killed: then it restores what it had last dumped. *)

Attributes == [stato_reale |-> IF Real # None THEN Real ELSE restored, modo |-> UsesHA]

Dump ==
    /\ added /\ restarts < MaxRestarts
    /\ saved # Attributes
    /\ saved' = Attributes
    /\ UNCHANGED <<panel, hub, pending, restored, added, history, answered, op>>

Restart(killed) ==
    /\ added /\ restarts < MaxRestarts
    /\ restarts' = restarts + 1
    /\ saved' = IF killed THEN saved ELSE Attributes
    /\ wire' = <<>> /\ answered' = {} /\ news' \in {news, <<>>}
    /\ voicemail' = None /\ mode_seq' = 0 /\ away_enabled' = TRUE /\ init_status_sent' = FALSE
    /\ op' = [t \in Tasks |-> IF t \in Questions \/ op[t] = Unused THEN Unused ELSE Over]
    /\ pending' = None /\ restored' = None /\ added' = FALSE
    /\ UNCHANGED <<tab, hands, lost, told, heard, crossed>>

\* async_added_to_hass: the hub may have heard of the mode already.
Added ==
    /\ ~added
    /\ added' = TRUE
    /\ away_enabled' = (saved # None /\ saved.modo /\ voicemail # TRUE)
    /\ restored' = IF saved = None THEN None ELSE saved.stato_reale
    /\ UNCHANGED <<panel, voicemail, mode_seq, init_status_sent, pending, saved, history, answered, op>>

Next ==
    \/ PanelReads \/ Hand \/ Lose \/ HandleMessage \/ InitStatusReply
    \/ \E u \in Users : Use(u) \/ Accepted(u) \/ Failed(u) \/ Asked(u)
    \/ (\E q \in Questions : HubAsks(q) \/ HubAsked(q))
    \/ Deadline \/ Expire
    \/ Dump \/ (\E killed \in BOOLEAN : Restart(killed)) \/ Added

Spec == Init /\ [][Next]_vars
-----------------------------------------------------------------------------
Mode == BOOLEAN \cup {None}
TypeOK ==
    /\ voicemail \in Mode /\ restored \in Mode /\ heard \in Mode /\ told \subseteq BOOLEAN
    /\ mode_seq \in Nat /\ {away_enabled, added, init_status_sent, tab} \subseteq BOOLEAN
    /\ pending # None => pending.wanted \in BOOLEAN /\ pending.seq <= mode_seq /\ pending.due \in BOOLEAN

\* News of the mode that came after a command was sent is never hidden by what the
\* switch supposes, even news that came before the command's own 200.
NewsWins == (pending # None /\ voicemail # None) => mode_seq = pending.from

\* What the switch shows without a command in waiting was told by the panel, before the
\* restart or after; without a crash it is the last mode told.
ShowsWhatWasTold ==
    (added /\ pending = None /\ ~UsesHA) =>
        /\ Shown \in told \cup {None}
        /\ Real # None => Shown = heard /\ ~Assumed

AtRest == added /\ init_status_sent /\ wire = <<>> /\ news = <<>> /\ \A t \in Tasks : op[t] \in {Unused, Over}

\* A visitor hears one voicemail: once a panel that obeys and reports is at rest, its own
\* and Home Assistant's are not both on, unless somebody turned it at the panel just while
\* the switch was being used.
OneAnswers == (AtRest /\ ~crossed) => ~(UsesHA /\ tab)
=============================================================================
