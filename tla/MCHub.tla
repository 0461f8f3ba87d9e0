-------------------------------- MODULE MCHub --------------------------------
(***************************************************************************)
(* What the hub does with the line, the plant and the phones, in several      *)
(* cases: the case is chosen in the initial state and stays.  "viewers" is    *)
(* AutoCall; the others are about PlantModes, FindPicg, AptParam,             *)
(* PlantMessages and WsClients, which share no state with it or each other.   *)
(***************************************************************************)
EXTENDS AutoCall, FiniteSets

CONSTANTS
    v1, v2, v3,
    ModeCases,          \* the cases of PlantModes
    SearchCases,        \* ... of FindPicg
    MessageCases,       \* ... of PlantMessages
    Msgs, Window, MaxTime,
    \* AptParam
    Setters, Values, MaxHands,
    \* WsClients
    Phones, Gop, Limit, MaxVideo, MaxVoice

\* The question of the hub's own is not one of the users.
ASSUME ModesAssumption == \A n \in DOMAIN ModeCases :
    "q1" \notin ModeCases[n].users /\ ModeCases[n].configured \in BOOLEAN
\* There is an address to ask; a reply as late as the next probe is told from that one's by
\* what it says alone.
ASSUME SearchAssumption == \A n \in DOMAIN SearchCases : LET c == SearchCases[n] IN
    /\ c.targets \in Seq(STRING) \ {<<>>} /\ c.nicks \in BOOLEAN
    /\ \A j \in DOMAIN c.targets : c.targets[j] # None
    /\ "probe" \in c.late => c.nicks
ASSUME MessagesAssumption ==
    Window \in Nat /\ \A n \in DOMAIN MessageCases : IsFiniteSet(MessageCases[n].doors)
ASSUME PhonesAssumption ==
    /\ Gop \in Seq(STRING) \ {<<>>} /\ Limit \in Nat \ {0}
    /\ \A n \in DOMAIN Gop : Gop[n] # "voice"
\* None is neither a mode, a message or a time, a parameter's value or a reply, nor one of
\* the records and queues it stands in for.
ASSUME NoneAssumption ==
    /\ None \notin BOOLEAN \cup Nat \cup Msgs \cup Values
    /\ None \notin {"s1", "s2", "pending", "resolved", "ERR_NONE", "ERR"}
    /\ None \notin [wanted : BOOLEAN, seq : Nat, from : Nat, due : BOOLEAN]
    /\ None \notin [stato_reale : BOOLEAN \cup {None}, modo : BOOLEAN]
    /\ None \notin Seq([n : Nat, t : {"voice"} \cup { Gop[j] : j \in DOMAIN Gop }])

\* Two views, a view and the user, two views and the hang-up button.
Pairs == {{v1, v2}, {v1, User}, {v2, User}, {v1, v3, "button"}}

VARIABLES
    case,  \* the name of the case
    \* PlantModes
    m_tab, m_wire, m_news, m_answered, m_voicemail, m_mode_seq, m_away_enabled,
    m_init_status_sent, m_op, m_pending, m_restored, m_added, m_saved, m_told, m_heard,
    m_crossed, m_hands, m_lost, m_restarts,
    \* FindPicg
    f_scanning, f_at, f_i, f_delivered, f_replies, f_waiter, f_seq, f_seq0, f_began,
    f_nicknames, f_picg, f_reply_after, f_candidates, f_result,
    \* AptParam
    p_tab, p_wire, p_news, p_answered, p_waiters, p_vm_timeout, p_op, p_asked, p_accepted,
    p_crossed, p_hands,
    \* PlantMessages
    g_now, g_copies, g_last_copy, g_queue, g_handling, g_seen, g_last_sweep, g_silenced,
    g_switches, g_told, g_answered, g_muted, g_door, g_opened, g_door_count,
    \* WsClients
    w_clients, w_state, w_senders, w_resync, w_video, w_voice, w_last, w_smeared

-----------------------------------------------------------------------------
TheModes == [
    \* Somebody turns the voicemail at the panel while the switch is used.
    m_hand    |-> [users |-> {"u1"}, configured |-> TRUE, obeys |-> TRUE, hands |-> 1, lost |-> 0, restarts |-> 0],
    \* Two uses of the switch at once.
    m_two     |-> [users |-> {"u1", "u2"}, configured |-> TRUE, obeys |-> TRUE, hands |-> 0, lost |-> 0, restarts |-> 0],
    \* No away message: the switch is the panel's voicemail alone.
    m_panel   |-> [users |-> {"u1"}, configured |-> FALSE, obeys |-> TRUE, hands |-> 1, lost |-> 1, restarts |-> 0],
    \* A message gets lost on either way.
    m_lost    |-> [users |-> {"u1"}, configured |-> TRUE, obeys |-> TRUE, hands |-> 0, lost |-> 1, restarts |-> 0],
    \* The panel answers 200 and does nothing.
    m_deaf    |-> [users |-> {"u1"}, configured |-> TRUE, obeys |-> FALSE, hands |-> 1, lost |-> 0, restarts |-> 0],
    \* Home Assistant restarts, or is killed.
    m_restart |-> [users |-> {"u1"}, configured |-> TRUE, obeys |-> TRUE, hands |-> 0, lost |-> 0, restarts |-> 1]]

TheSearches == [
    \* The reply does not say whose it is, or nobody replies.
    f_reply |-> [nicks |-> FALSE, targets |-> <<"a", "b", "c">>, answering |-> {"b"}, late |-> {"pause"},
                 picg |-> None, registers |-> TRUE],
    f_none  |-> [nicks |-> FALSE, targets |-> <<"a", "b", "c">>, answering |-> {}, late |-> {"pause"},
                 picg |-> None, registers |-> FALSE],
    \* GET_NICKS_REPLY names the head unit, whoever provoked it, and whenever it comes.
    f_nicks |-> [nicks |-> TRUE, targets |-> <<"a", "b", "c">>, answering |-> {"a", "c"},
                 late |-> {"pause", "probe"}, picg |-> "b", registers |-> TRUE]]

TheMessages == [
    \* Copies of two messages, and a change of panel.
    g_copies |-> [copies |-> 3, doors |-> {}],
    \* Two uses of the door button.
    g_door   |-> [copies |-> 0, doors |-> {"d1", "d2"}]]

\* A group of a parameter set, an IDR and a P.
TheGop == <<"sps", "idr", "p">>

M(c) == INSTANCE PlantModes WITH
    Users <- c.users, Questions <- {"q1"}, Configured <- c.configured, Obeys <- c.obeys,
    Announces <- TRUE, Replies <- TRUE, MaxHands <- c.hands, MaxLost <- c.lost,
    MaxRestarts <- c.restarts, tab <- m_tab, wire <- m_wire, news <- m_news,
    answered <- m_answered, voicemail <- m_voicemail, mode_seq <- m_mode_seq,
    away_enabled <- m_away_enabled, init_status_sent <- m_init_status_sent, op <- m_op,
    pending <- m_pending, restored <- m_restored, added <- m_added, saved <- m_saved,
    told <- m_told, heard <- m_heard, crossed <- m_crossed, hands <- m_hands,
    lost <- m_lost, restarts <- m_restarts
F(c) == INSTANCE FindPicg WITH
    Searchers <- {"s1", "s2"}, Targets <- c.targets, ByContent <- c.nicks,
    Exist <- { c.targets[n] : n \in DOMAIN c.targets }, Answering <- c.answering, Picg <- c.picg,
    LateBy <- c.late,
    Registers <- c.registers, scanning <- f_scanning, at <- f_at, i <- f_i,
    delivered <- f_delivered, replies <- f_replies, waiter <- f_waiter, seq <- f_seq,
    seq0 <- f_seq0, began <- f_began, nicknames <- f_nicknames, picg <- f_picg,
    reply_after <- f_reply_after, candidates <- f_candidates, result <- f_result
\* Uses of the select, and changes at the panel.
P == INSTANCE AptParam WITH
    Tells <- TRUE, Reorders <- FALSE, tab <- p_tab, wire <- p_wire, news <- p_news,
    answered <- p_answered, waiters <- p_waiters, vm_timeout <- p_vm_timeout, op <- p_op,
    asked <- p_asked, accepted <- p_accepted, crossed <- p_crossed, hands <- p_hands
G(c) == INSTANCE PlantMessages WITH
    MaxCopies <- c.copies, Fails <- TRUE, Switches <- 1, Doors <- c.doors, now <- g_now, copies <- g_copies,
    last_copy <- g_last_copy, queue <- g_queue, handling <- g_handling, seen <- g_seen,
    last_sweep <- g_last_sweep, silenced <- g_silenced, switches <- g_switches,
    told <- g_told, answered <- g_answered, muted <- g_muted, door <- g_door,
    opened <- g_opened, door_count <- g_door_count
\* The phones and cards on the WebSocket.
W == INSTANCE WsClients WITH
    Clients <- Phones, clients <- w_clients, state <- w_state, senders <- w_senders,
    resync <- w_resync, video <- w_video, voice <- w_voice, last <- w_last,
    smeared <- w_smeared

InModes == case \in DOMAIN ModeCases
InSearch == case \in DOMAIN SearchCases
InMessages == case \in DOMAIN MessageCases

\* The parts a case is not about.
ViewersIdle == Init /\ udp /\ view[v1] = "unopened" /\ caller[User] = "none"
ModesIdle == M([users |-> {}])!Init /\ m_tab
SearchIdle == F([targets |-> <<>>])!Init
ParamIdle == P!Init /\ p_tab = (CHOOSE v \in Values : TRUE) /\ p_vm_timeout = p_tab
MessagesIdle == G([doors |-> {}])!Init
PhonesIdle == W!Init

HubInit ==
    /\ case \in DOMAIN ModeCases \cup DOMAIN SearchCases \cup DOMAIN MessageCases \cup {"viewers", "param", "phones"}
    /\ IF case = "viewers" THEN Init ELSE ViewersIdle
    /\ (~InModes /\ ModesIdle) \/ (\E n \in DOMAIN ModeCases : case = n /\ M(ModeCases[n])!Init)
    /\ (~InSearch /\ SearchIdle) \/ (\E n \in DOMAIN SearchCases : case = n /\ F(SearchCases[n])!Init)
    /\ (~InMessages /\ MessagesIdle) \/ (\E n \in DOMAIN MessageCases : case = n /\ G(MessageCases[n])!Init)
    /\ IF case = "param" THEN P!Init ELSE ParamIdle
    /\ PhonesIdle

modes ==
    <<m_tab, m_wire, m_news, m_answered, m_voicemail, m_mode_seq, m_away_enabled,
      m_init_status_sent, m_op, m_pending, m_restored, m_added, m_saved, m_told, m_heard,
      m_crossed, m_hands, m_lost, m_restarts>>
search ==
    <<f_scanning, f_at, f_i, f_delivered, f_replies, f_waiter, f_seq, f_seq0, f_began,
      f_nicknames, f_picg, f_reply_after, f_candidates, f_result>>
param ==
    <<p_tab, p_wire, p_news, p_answered, p_waiters, p_vm_timeout, p_op, p_asked, p_accepted,
      p_crossed, p_hands>>
messages ==
    <<g_now, g_copies, g_last_copy, g_queue, g_handling, g_seen, g_last_sweep, g_silenced,
      g_switches, g_told, g_answered, g_muted, g_door, g_opened, g_door_count>>
phones ==
    <<w_clients, w_state, w_senders, w_resync, w_video, w_voice, w_last, w_smeared>>
hubVars == <<case, vars, modes, search, param, messages, phones>>

HubNext ==
    /\ UNCHANGED case
    /\ \/ case = "viewers" /\ Next /\ UNCHANGED <<modes, search, param, messages, phones>>
       \/ /\ \E n \in DOMAIN ModeCases : case = n /\ M(ModeCases[n])!Next
          /\ UNCHANGED <<vars, search, param, messages, phones>>
       \/ /\ \E n \in DOMAIN SearchCases : case = n /\ F(SearchCases[n])!Next
          /\ UNCHANGED <<vars, modes, param, messages, phones>>
       \/ case = "param" /\ P!Next /\ UNCHANGED <<vars, modes, search, messages, phones>>
       \/ /\ \E n \in DOMAIN MessageCases : case = n /\ G(MessageCases[n])!Next
          /\ UNCHANGED <<vars, modes, search, param, phones>>
       \/ case = "phones" /\ W!Next /\ UNCHANGED <<vars, modes, search, param, messages>>
HubSpec == HubInit /\ [][HubNext]_hubVars

-----------------------------------------------------------------------------
(* The properties of the parts, each in its cases; AutoCall's go by their     *)
(* names.                                                                     *)

\* The state of each part has its type.
HubTyped ==
    /\ case = "viewers" => TypeOK
    /\ \A n \in DOMAIN ModeCases : case = n => M(ModeCases[n])!TypeOK
    /\ \A n \in DOMAIN SearchCases : case = n => F(SearchCases[n])!TypeOK
    /\ \A n \in DOMAIN MessageCases : case = n => G(MessageCases[n])!TypeOK
    /\ case = "param" => P!TypeOK
    /\ case = "phones" => W!TypeOK

\* What the plant answers in MESSAGEs of its own is believed for the right command: the
\* panel's mode over what the switch supposes, a parameter told as set only when it is, the
\* head unit named by the reply it provoked; a panel that obeys does not answer visitors
\* besides Home Assistant (switch.py, async_set_apt_param, async_find_picg).
PlantAnswers ==
    /\ \A n \in DOMAIN ModeCases : case = n =>
          /\ M(ModeCases[n])!NewsWins
          /\ M(ModeCases[n])!ShowsWhatWasTold
          /\ ModeCases[n].obeys /\ ModeCases[n].lost = 0 => M(ModeCases[n])!OneAnswers
    /\ \A n \in DOMAIN SearchCases : case = n =>
          /\ F(SearchCases[n])!SearchEnds
          /\ F(SearchCases[n])!NamesTheRight
          /\ F(SearchCases[n])!NothingMissed
    /\ case = "param" => P!ToldTruly /\ P!KnowsTheDelay

\* However often the relay and the plant repeat a message, the hub is told of it once and
\* never answers what it was not told; a door said to be open was opened (_process_request,
\* async_door).
MessagesOnce ==
    \A n \in DOMAIN MessageCases : case = n =>
        /\ G(MessageCases[n])!ToldOnce
        /\ G(MessageCases[n])!NotForgotten
        /\ G(MessageCases[n])!DoorOpens

\* A slow phone loses packets up to the next parameter set, nobody else any
\* (_ws_send_bytes, _drain).
PhonesServed == case = "phones" => W!NoHoles /\ W!OnlyTheSlow

=============================================================================
