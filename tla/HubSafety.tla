------------------------------ MODULE HubSafety ------------------------------
(***************************************************************************)
(* The plant's messages, the answers to the hub's questions, the voicemail's *)
(* switch and the phones (PlantMessages, FindPicg, AptParam, PlantModes,     *)
(* WsClients), for any messages, addresses, users and phones, each by an     *)
(* invariant of its own: a message that was told is still recognised while   *)
(* copies of it may come (MessagesInv); a count that moved tells of a reply  *)
(* to this probe or to the one before (SearchInv); the last change on its    *)
(* way is the panel's delay (ParamInv); the last mode on its way is the      *)
(* panel's (ModesInv); and what waits for a phone has no hole (PhonesInv).   *)
(***************************************************************************)
EXTENDS MCHub, AutoCallSafety, FiniteSetTheorems

-----------------------------------------------------------------------------
(* PlantMessages.                                                            *)

Heard(m) == \E n \in DOMAIN g_told : g_told[n] = m
Awaits(m) == \E n \in DOMAIN g_queue : g_queue[n] = m

MessageTypes ==
    /\ g_now \in Nat
    /\ g_copies \in [Msgs -> Nat] /\ g_last_copy \in [Msgs -> Nat]
    /\ g_queue \in Seq(Msgs) /\ g_handling \in Msgs \cup {None} /\ g_told \in Seq(Msgs)
    /\ g_seen \in [Msgs -> Nat \cup {None}]
    /\ g_answered \subseteq Msgs /\ g_muted \subseteq Msgs

\* No second passes while a request waits; whatever was told or waits has come.
ComesInv ==
    /\ \A m \in Msgs : /\ g_seen[m] # None => g_seen[m] <= g_now
                       /\ Awaits(m) => g_last_copy[m] = g_now
                       /\ Awaits(m) \/ Heard(m) => g_copies[m] > 0

\* A message that was told is noted with its last copy, or is about to be; it is swept when
\* no copy can come any more.
NotedInv ==
    \A m \in Msgs : Heard(m) =>
        \/ g_seen[m] # None /\ (g_seen[m] = g_last_copy[m] \/ (Awaits(m) /\ g_now - g_seen[m] <= Window))
        \/ g_seen[m] = None /\ g_now - g_last_copy[m] > Window

\* What was noted was told, unless the broadcasts were silenced.
BroadcastInv ==
    /\ \A m \in Msgs : (g_seen[m] # None \/ g_handling = m \/ m \in g_answered) => (m \in g_muted \/ Heard(m))
    /\ \A m, n \in DOMAIN g_told : g_told[m] = g_told[n] => m = n

\* How often the panel has opened, by where the use of the button stands.
DoorStages == {"unused", "first", "first_taken", "second", "second_taken", "ok", "failed"}
DoorsInv(c) ==
    /\ g_door \in [c.doors -> DoorStages] /\ g_opened \in [c.doors -> 0..2]
    /\ \A d \in c.doors :
          /\ g_door[d] \in {"unused", "first"} => g_opened[d] = 0
          /\ g_door[d] \in {"first_taken", "second"} => g_opened[d] <= 1
          /\ g_door[d] \in {"first_taken", "second_taken", "ok"} => g_opened[d] >= 1
DoorsCounted(c) == g_door_count = Cardinality({d \in c.doors : g_door[d] = "ok"})

MessagesInv(c) == MessageTypes /\ ComesInv /\ NotedInv /\ BroadcastInv /\ DoorsInv(c) /\ DoorsCounted(c)

-----------------------------------------------------------------------------
(* FindPicg.                                                                 *)

SearchTypes(c) ==
    /\ f_scanning \in {"s1", "s2", None} /\ f_at \in {"idle", "sending", "waiting", "pause"}
    /\ f_i \in 0 .. Len(c.targets) /\ f_replies \subseteq 1 .. Len(c.targets)
    /\ f_waiter \in {None, "pending", "resolved"}
    /\ f_seq \in Nat /\ f_seq0 \in Nat /\ f_began \in Nat /\ f_seq0 <= f_seq
    /\ DOMAIN f_result = {"s1", "s2"}

\* A search that goes on has found nothing yet, and heard nothing that could have told it.
Silent(c) == c.nicks /\ c.picg = None
GoesOn(c) ==
    IF f_at = "idle" THEN f_scanning = None /\ f_waiter = None
    ELSE /\ f_scanning # None /\ f_i > 0 /\ f_picg = None /\ f_candidates = <<>>
         /\ f_at = "pause" => f_i < Len(c.targets)
         /\ (f_seq0 = f_began /\ f_reply_after = None) \/ Silent(c)

\* A reply comes from an address that makes the panel reply, to this probe or to the one before.
Provoked(c) ==
    /\ \A j \in f_replies : c.targets[j] \in c.answering
    /\ c.nicks => f_nicknames = IF f_seq = 0 THEN None ELSE c.picg
    /\ f_waiter = "resolved" => f_seq > 0
    /\ ~c.nicks /\ f_at \in {"sending", "waiting"} =>
          /\ f_waiter = "resolved" => c.targets[f_i] \in c.answering
          /\ f_seq # f_seq0 => c.targets[f_i] \in c.answering \/ (f_i > 1 /\ c.targets[f_i - 1] \in c.answering)
    /\ ~c.nicks /\ f_at = "pause" /\ f_seq # f_seq0 => c.targets[f_i] \in c.answering

SearchInv(c) ==
    SearchTypes(c) /\ GoesOn(c) /\ Provoked(c) /\ F(c)!NamesTheRight /\ F(c)!NothingMissed

-----------------------------------------------------------------------------
(* AptParam.                                                                 *)

ParamNews == [k : {"changed"}, v : Values] \cup [k : {"reply"}, to : Setters, err : {"ERR_NONE", "ERR"}]
ParamTypes ==
    /\ p_tab \in Values /\ p_wire \in Seq(Setters) /\ p_news \in Seq(ParamNews)
    /\ p_vm_timeout \in Values \cup {None} /\ p_accepted \subseteq Setters
    /\ p_waiters \in [Setters -> {None, "pending", "ERR_NONE", "ERR"}]
    /\ p_op \in [Setters -> {"unused", "sent", "waiting", "set", "refused", "failed"}]
    /\ p_asked \in [Setters -> Values \cup {None}]
    /\ \A s \in Setters : (p_waiters[s] # None) = (p_op[s] \in {"sent", "waiting"})

Changed(n) == p_news[n].k = "changed"
Success(n, s) == p_news[n].k = "reply" /\ p_news[n].to = s /\ p_news[n].err = "ERR_NONE"
NoChanges == \A n \in DOMAIN p_news : ~Changed(n)

\* Whatever is on its way for a setter is of the value it asked for.
AskedInv ==
    /\ \A s \in Setters : p_op[s] # "unused" => p_asked[s] \in Values
    /\ \A n \in DOMAIN p_wire : p_op[p_wire[n]] # "unused"
    /\ \A n \in DOMAIN p_news : ~Changed(n) => p_op[p_news[n].to] # "unused"
    /\ \A s \in Setters, n \in DOMAIN p_news : Success(n, s) => s \in p_accepted
    /\ \A s \in Setters : p_waiters[s] = "ERR_NONE" \/ p_op[s] = "set" => s \in p_accepted

\* The last change on its way is the panel's delay, and so is the value of a success with
\* no change behind it; without any, it is what the hub holds or is about to take over.
DelayInv ==
    /\ \A n \in DOMAIN p_news : Changed(n) /\ (\A m \in DOMAIN p_news : m > n => ~Changed(m)) => p_news[n].v = p_tab
    /\ \A s \in Setters, n \in DOMAIN p_news :
          Success(n, s) /\ (\A m \in DOMAIN p_news : m > n => ~Changed(m)) => p_asked[s] = p_tab
    /\ NoChanges /\ ~p_crossed =>
          /\ p_vm_timeout # None => p_vm_timeout = p_tab
          /\ \A s \in Setters : p_waiters[s] = "ERR_NONE" => p_asked[s] = p_tab

ParamInv == ParamTypes /\ AskedInv /\ DelayInv

-----------------------------------------------------------------------------
(* PlantModes.                                                               *)

\* Where a use of the switch, or the hub's own question, may stand.
OpOf(t, v) ==
    \/ v = [at |-> "unused"] \/ v = [at |-> "over"]
    \/ t = "q1" /\ v = [at |-> "asking"]
    \/ t # "q1" /\ v \in [at : {"sent", "asking"}, wish : {"on", "off"}, seq : Nat, from : Nat]
ModeOps(c) == DOMAIN m_op = c.users \cup {"q1"} /\ \A t \in c.users \cup {"q1"} : OpOf(t, m_op[t])
Sendings(c) == [by : c.users \cup {"q1"}, what : {"on", "off", "ask"}]
ModeNews == [kind : {"reply", "announced"}, on : BOOLEAN]
ModeTypes(c) ==
    /\ m_voicemail \in BOOLEAN \cup {None} /\ m_restored \in BOOLEAN \cup {None}
    /\ m_heard \in BOOLEAN \cup {None} /\ m_told \subseteq BOOLEAN /\ m_mode_seq \in Nat
    /\ m_away_enabled \in BOOLEAN /\ m_added \in BOOLEAN /\ m_init_status_sent \in BOOLEAN /\ m_tab \in BOOLEAN
    /\ m_crossed \in BOOLEAN
    /\ m_wire \in Seq(Sendings(c)) /\ m_news \in Seq(ModeNews)
    /\ m_pending = None \/ m_pending \in [wanted : BOOLEAN, seq : Nat, from : Nat, due : BOOLEAN]
    /\ m_saved = None \/ m_saved \in [stato_reale : BOOLEAN \cup {None}, modo : BOOLEAN]

\* What is supposed, or about to be, dates from the command.
PendingInv(c) ==
    /\ m_pending # None => /\ m_added /\ m_pending.seq = m_pending.from /\ m_pending.seq <= m_mode_seq
                           /\ m_voicemail # None => m_mode_seq = m_pending.seq
    /\ \A u \in c.users : m_op[u].at \in {"sent", "asking"} =>
          m_added /\ m_op[u].seq = m_op[u].from /\ m_op[u].seq <= m_mode_seq
    /\ m_voicemail # None => m_voicemail = m_heard /\ m_voicemail \in m_told
    /\ m_restored \in m_told \cup {None}
    /\ m_saved # None => m_saved.stato_reale \in m_told \cup {None}

\* A panel that obeys and tells, on lines that lose nothing.
Sound(c) == c.configured /\ c.obeys /\ c.lost = 0
\* Its last news is its mode; without news, what the hub has been told is.
LastWord ==
    /\ m_lost = 0
    /\ m_news # <<>> => m_news[Len(m_news)].on = m_tab
    /\ m_news = <<>> /\ m_voicemail # None => m_voicemail = m_tab
\* One message at a time from each: the command until its 200, then the question.
WireInv(c) ==
    /\ \A n \in DOMAIN m_wire : /\ m_op[m_wire[n].by].at # "unused" /\ m_wire[n].by \notin m_answered
                                /\ m_wire[n].what # "on"
                                /\ m_op[m_wire[n].by].at = "sent" => m_wire[n].what = "off"
                                /\ m_op[m_wire[n].by].at = "asking" => m_wire[n].what = "ask"
    /\ \A i, j \in DOMAIN m_wire : m_wire[i].by = m_wire[j].by => i = j
    /\ \A t \in m_answered : t \in c.users \cup {"q1"} /\ m_op[t].at # "unused"
\* Who has the 200 of a question has its reply, or the reply is on its way.
AnsweredInv ==
    (m_init_status_sent \/ \E t \in m_answered : m_op[t].at = "asking") => m_news # <<>> \/ m_voicemail # None
\* Once its command was read the panel is off, and Home Assistant answers only then.
OneInv(c) ==
    /\ ~m_crossed => \A u \in c.users : m_op[u].at = "asking" \/ (m_op[u].at = "sent" /\ u \in m_answered) => ~m_tab
    /\ ~m_crossed /\ m_added /\ m_news = <<>> /\ m_voicemail = TRUE => ~m_away_enabled

ModesInv(c) ==
    /\ ModeTypes(c) /\ ModeOps(c) /\ PendingInv(c)
    /\ Sound(c) => LastWord /\ WireInv(c) /\ AnsweredInv /\ OneInv(c)

-----------------------------------------------------------------------------
(* WsClients.                                                                *)

IsPacket(p, k) == p = W!Voice \/ \E n \in 1 .. k : p = W!Nal(n)
\* The video of a queue has no hole, and begins where the phone's ends or anew.
NoVideo(q, from, to) == \A n \in DOMAIN q : from < n /\ n < to => ~W!IsVideo(q[n])
Chained(q, l) ==
    /\ \A i \in DOMAIN q : W!IsVideo(q[i]) /\ NoVideo(q, 0, i) => q[i].t = "sps" \/ l = 0 \/ q[i].n = l + 1
    /\ \A i, j \in DOMAIN q : i < j /\ W!IsVideo(q[i]) /\ W!IsVideo(q[j]) /\ NoVideo(q, i, j) =>
          q[j].t = "sps" \/ q[j].n = q[i].n + 1
Packets == [n : Nat, t : {"voice"} \cup { Gop[j] : j \in DOMAIN Gop }]
Kept(q, l, k) ==
    /\ q \in Seq(Packets) /\ Len(q) <= Limit
    /\ \A n \in DOMAIN q : IsPacket(q[n], k)
    /\ Chained(q, l)
\* It ends with the last NAL, or waits for a parameter set.
Starved(q) == NoVideo(q, 0, Len(q) + 1)
Ends(q, l, k) ==
    /\ \A i \in DOMAIN q : W!IsVideo(q[i]) /\ NoVideo(q, i, Len(q) + 1) => q[i].n = k
    /\ Starved(q) => l = 0 \/ l = k
Served(q, waits, l, k) == Kept(q, l, k) /\ IF waits THEN Starved(q) ELSE Ends(q, l, k)

PhonesInv ==
    /\ w_clients \subseteq Phones /\ w_resync \subseteq Phones /\ w_video \in Nat
    /\ w_state \in [Phones -> {"away", "open", "closed"}]
    /\ w_senders \in [Phones -> {None} \cup Seq(Packets)] /\ w_last \in [Phones -> Nat]
    /\ \A c \in Phones : w_senders[c] = None \/ Len(w_senders[c]) <= Limit
    /\ \A c \in Phones : w_state[c] = "away" => w_senders[c] = None /\ w_last[c] = 0
    /\ \A c \in w_clients : /\ w_state[c] = "open" /\ w_senders[c] # None /\ w_last[c] <= w_video
                            /\ Served(w_senders[c], c \in w_resync, w_last[c], w_video)
    /\ w_smeared = {}

\* The parts, each in its cases.
HubPart ==
    /\ case = "viewers" => HubInv
    /\ \A n \in DOMAIN ModeCases : case = n => ModesInv(ModeCases[n])
    /\ \A n \in DOMAIN SearchCases : case = n => SearchInv(SearchCases[n])
    /\ \A n \in DOMAIN MessageCases : case = n => MessagesInv(MessageCases[n])
    /\ case = "param" => ParamInv
    /\ case = "phones" => PhonesInv
-----------------------------------------------------------------------------
(* Sequences.                                                                *)

\* What is appended is at the end, and the rest stays in place.
LEMMA AppendAt ==
    ASSUME NEW S, NEW q \in Seq(S), NEW x \in S
    PROVE  /\ Append(q, x) \in Seq(S) /\ Len(Append(q, x)) = Len(q) + 1
           /\ DOMAIN Append(q, x) = 1 .. (Len(q) + 1) /\ DOMAIN q = 1 .. Len(q) /\ Len(q) \in Nat
           /\ \A n \in DOMAIN q : Append(q, x)[n] = q[n]
           /\ Append(q, x)[Len(q) + 1] = x
  BY AppendProperties, LenProperties

\* The tail of a queue is the queue, one place on.
LEMMA TailAt ==
    ASSUME NEW S, NEW q \in Seq(S), q # <<>>
    PROVE  /\ Head(q) \in S /\ Head(q) = q[1] /\ 1 \in DOMAIN q
           /\ Tail(q) \in Seq(S) /\ Len(Tail(q)) = Len(q) - 1 /\ Len(q) \in Nat \ {0}
           /\ DOMAIN Tail(q) = 1 .. (Len(q) - 1) /\ DOMAIN q = 1 .. Len(q)
           /\ \A n \in DOMAIN Tail(q) : n + 1 \in DOMAIN q /\ Tail(q)[n] = q[n + 1]
  <1>1. Len(q) \in Nat \ {0} /\ DOMAIN q = 1 .. Len(q)
    BY EmptySeq, LenProperties
  <1>2. Head(q) \in S /\ Tail(q) \in Seq(S) /\ Len(Tail(q)) = Len(q) - 1
    BY HeadTailProperties
  <1>3. Head(q) = q[1] /\ \A n \in 1 .. (Len(q) - 1) : Tail(q)[n] = q[n + 1]
    BY <1>1, HeadTailProperties
  <1>. QED BY <1>1, <1>2, <1>3, LenProperties

\* Induction, where a definition is recursive, is by the least number that fails.
\* A set of naturals that is not empty has a least member.
LEMMA Least == ASSUME NEW T \in SUBSET Nat, T # {} PROVE \E x \in T : \A y \in T : x <= y
  <1>. SUFFICES ASSUME \A x \in T : \E y \in T : ~(x <= y) PROVE FALSE
    OBVIOUS
  <1>. DEFINE Below == { n \in Nat : \A m \in T : n < m }
              Up == [n \in Below |-> n + 1]
  <1>1. PICK k \in T : TRUE
    OBVIOUS
  <1>2. IsFiniteSet(Below) /\ Cardinality(Below) \in Nat
    <2>1. Below \in SUBSET Nat /\ k \in Nat /\ \A n \in Below : n <= k
      BY <1>1
    <2>. QED BY <2>1, FS_BoundedSetOfNaturals, FS_CardinalityType
  <1>3. 0 \in Below
    OBVIOUS
  <1>4. \A n \in Below : n + 1 \in Below \ {0}
    OBVIOUS
  <1>5. Up \in Injection(Below, Below \ {0})
    BY <1>4 DEF Injection, IsInjective
  <1>6. IsFiniteSet(Below \ {0}) /\ Cardinality(Below \ {0}) = Cardinality(Below) - 1
    BY <1>2, <1>3, FS_RemoveElement
  <1>. HIDE DEF Below, Up
  <1>. QED BY <1>2, <1>5, <1>6, FS_Injection

-----------------------------------------------------------------------------
(* PlantMessages: the proofs.                                                *)

LEMMA MessagesInit == ASSUME NEW c, IsFiniteSet(c.doors), G(c)!Init PROVE MessagesInv(c)
  <1>4. \A m : ~Heard(m) /\ ~Awaits(m)
    BY DEF G!Init, Heard, Awaits
  <1>1. MessageTypes /\ ComesInv /\ NotedInv /\ BroadcastInv
    BY <1>4, NoneAssumption DEF G!Init, MessageTypes, ComesInv, NotedInv, BroadcastInv
  <1>2. {d \in c.doors : g_door[d] = "ok"} = {}
    BY DEF G!Init
  <1>3. DoorsInv(c)
    <2>1. g_door = [d \in c.doors |-> "unused"] /\ g_opened = [d \in c.doors |-> 0]
      BY DEF G!Init
    <2>2. g_door \in [c.doors -> DoorStages]
      BY <2>1 DEF DoorStages
    <2>3. g_opened \in [c.doors -> 0..2]
      BY <2>1
    <2>4. \A d \in c.doors : g_door[d] = "unused" /\ g_opened[d] = 0
      BY <2>1
    <2>. QED BY <2>2, <2>3, <2>4 DEF DoorsInv
  <1>5. DoorsCounted(c)
    BY <1>2, FS_EmptySet DEF G!Init, DoorsCounted
  <1>. QED BY <1>1, <1>3, <1>5 DEF MessagesInv

\* A copy comes: it waits, within the window of the copy before.
LEMMA MessageArrives ==
    ASSUME NEW c, NEW m \in Msgs, MessageTypes, ComesInv, NotedInv, BroadcastInv, G(c)!Arrives(m)
    PROVE  (MessageTypes /\ ComesInv /\ NotedInv /\ BroadcastInv)'
  <1>0. UNCHANGED <<g_now, g_handling, g_seen, g_told, g_answered, g_muted>>
    BY DEF G!Arrives
  <1>1. /\ g_queue' = Append(g_queue, m)
        /\ g_copies' = [g_copies EXCEPT ![m] = @ + 1] /\ g_last_copy' = [g_last_copy EXCEPT ![m] = g_now]
        /\ g_copies[m] > 0 => g_now - g_last_copy[m] <= Window
    BY DEF G!Arrives
  <1>2. MessageTypes'
    BY <1>0, <1>1, AppendProperties DEF MessageTypes
  <1>3. \A n \in Msgs : Awaits(n)' => Awaits(n) \/ n = m
    <2>1. g_queue \in Seq(Msgs)
      BY DEF MessageTypes
    <2>. QED BY <1>1, <2>1, AppendAt DEF Awaits
  <1>4. Awaits(m)' /\ \A n \in Msgs : Awaits(n) => Awaits(n)'
    <2>1. g_queue \in Seq(Msgs)
      BY DEF MessageTypes
    <2>. QED BY <1>1, <2>1, AppendAt DEF Awaits
  <1>5. \A n \in Msgs : Heard(n)' = Heard(n)
    BY <1>0 DEF Heard
  <1>6. ComesInv'
    BY <1>0, <1>1, <1>3, <1>5 DEF MessageTypes, ComesInv
  <1>7. NotedInv'
    <2>. SUFFICES ASSUME NEW n \in Msgs, Heard(n) PROVE NotedInv!(n)'
      BY <1>5 DEF NotedInv
    <2>1. CASE n # m
      BY <1>0, <1>1, <1>4, <2>1 DEF NotedInv, MessageTypes
    <2>2. CASE n = m
      <3>1. g_copies[m] > 0 /\ g_now - g_last_copy[m] <= Window
        BY <1>1, <2>2 DEF ComesInv
      <3>2. g_seen[m] # None /\ g_now - g_seen[m] <= Window
        BY <2>2, <3>1, MessagesAssumption DEF NotedInv, MessageTypes
      <3>. QED BY <1>0, <1>4, <2>2, <3>2
    <2>. QED BY <2>1, <2>2
  <1>8. BroadcastInv'
    BY <1>0, <1>5 DEF BroadcastInv
  <1>. QED BY <1>2, <1>6, <1>7, <1>8

\* A request is read: the sweep spares what may still come, and the hub is told of what was
\* not told before.
LEMMA MessageRead ==
    ASSUME NEW c, MessageTypes, ComesInv, NotedInv, BroadcastInv, G(c)!Process
    PROVE  (MessageTypes /\ ComesInv /\ NotedInv /\ BroadcastInv)'
  <1>. DEFINE swept(n) == G(c)!Sweeps /\ G(c)!Old(n)
  <1>2. g_queue \in Seq(Msgs) /\ g_told \in Seq(Msgs) /\ None \notin Nat /\ g_queue # <<>>
    BY NoneAssumption DEF MessageTypes, G!Process
  <1>. PICK m \in Msgs : m = Head(g_queue)
    BY <1>2, TailAt
  <1>0. UNCHANGED <<g_now, g_copies, g_last_copy, g_answered>>
    BY DEF G!Process
  <1>1. /\ g_queue # <<>> /\ g_queue' = Tail(g_queue) /\ g_handling' = m
        /\ g_seen' = [[n \in Msgs |-> IF swept(n) THEN None ELSE g_seen[n]] EXCEPT ![m] = g_now]
        /\ g_told' = IF G(c)!Duplicate(m) \/ g_silenced THEN g_told ELSE Append(g_told, m)
        /\ g_muted' = IF g_silenced /\ ~G(c)!Duplicate(m) THEN g_muted \cup {m} ELSE g_muted
    BY DEF G!Process, G!Noted
  <1>3. m \in Msgs /\ Awaits(m)
    BY <1>1, <1>2, TailAt DEF Awaits
  <1>4. \A n \in Msgs : Awaits(n) => Awaits(n)' \/ n = m
    <2>. SUFFICES ASSUME NEW i \in DOMAIN g_queue, i # 1 PROVE \E j \in DOMAIN g_queue' : g_queue'[j] = g_queue[i]
      BY <1>1, <1>2, TailAt DEF Awaits
    <2>1. i - 1 \in DOMAIN Tail(g_queue) /\ (i - 1) + 1 = i
      BY <1>1, <1>2, TailAt
    <2>2. Tail(g_queue)[i - 1] = g_queue[(i - 1) + 1]
      BY <1>1, <1>2, <2>1, TailAt
    <2>. QED BY <1>1, <2>1, <2>2
  <1>5. \A n \in Msgs : Awaits(n)' => Awaits(n)
    BY <1>1, <1>2, TailAt DEF Awaits
  <1>6. \A n \in Msgs : Heard(n)' <=> Heard(n) \/ (n = m /\ ~G(c)!Duplicate(m) /\ ~g_silenced)
    BY <1>1, <1>2, <1>3, AppendAt DEF Heard
  <1>7. MessageTypes'
    <2>1. g_queue' \in Seq(Msgs) /\ g_handling' \in Msgs /\ g_told' \in Seq(Msgs)
      BY <1>1, <1>2, <1>3, TailAt, AppendAt
    <2>2. g_seen' \in [Msgs -> Nat \cup {None}] /\ g_muted' \subseteq Msgs
      BY <1>1, <1>3 DEF MessageTypes
    <2>. QED BY <1>0, <2>1, <2>2 DEF MessageTypes
  <1>8. \A n \in Msgs : g_seen'[n] = IF n = m THEN g_now ELSE IF swept(n) THEN None ELSE g_seen[n]
    BY <1>1
  <1>9. ComesInv'
    BY <1>0, <1>3, <1>5, <1>6, <1>8 DEF ComesInv, MessageTypes
  <1>10. g_last_copy[m] = g_now /\ g_now \in Nat
    BY <1>3 DEF ComesInv, MessageTypes
  <1>11. NotedInv'
    <2>. SUFFICES ASSUME NEW n \in Msgs, Heard(n)' PROVE NotedInv!(n)'
      BY DEF NotedInv
    <2>1. CASE n = m
      BY <1>0, <1>2, <1>8, <1>10, <2>1
    <2>2. CASE n # m /\ swept(n)
      <3>1. Heard(n)
        BY <1>6, <2>2
      <3>2. g_seen[n] # None /\ g_now - g_seen[n] > Window
        BY <2>2 DEF G!Old
      <3>3. g_seen[n] = g_last_copy[n]
        BY <3>1, <3>2, MessagesAssumption DEF NotedInv, MessageTypes
      <3>. QED BY <1>0, <1>8, <2>2, <3>2, <3>3
    <2>3. CASE n # m /\ ~swept(n)
      BY <1>0, <1>4, <1>6, <1>8, <2>3 DEF NotedInv
    <2>. QED BY <2>1, <2>2, <2>3
  <1>12. G(c)!Duplicate(m) => m \in g_muted \/ Heard(m)
    BY <1>3 DEF BroadcastInv, G!Duplicate
  <1>13. Heard(m) => G(c)!Duplicate(m)
    <2>1. ASSUME Heard(m) PROVE g_seen[m] # None /\ g_now - g_seen[m] <= Window
      <3>1. CASE g_seen[m] # None
        BY <1>10, <2>1, <3>1, MessagesAssumption DEF NotedInv
      <3>2. CASE g_seen[m] = None
        BY <1>10, <2>1, <3>2, MessagesAssumption DEF NotedInv
      <3>. QED BY <3>1, <3>2
    <2>. QED BY <2>1 DEF G!Duplicate
  <1>14. BroadcastInv'
    <2>1. m \in g_muted' \/ Heard(m)'
      <3>1. CASE G(c)!Duplicate(m)
        BY <1>1, <1>3, <1>6, <1>12, <3>1
      <3>2. CASE ~G(c)!Duplicate(m) /\ g_silenced
        BY <1>1, <3>2
      <3>3. CASE ~G(c)!Duplicate(m) /\ ~g_silenced
        BY <1>3, <1>6, <3>3
      <3>. QED BY <3>1, <3>2, <3>3
    <2>2. \A n \in Msgs : n \in g_muted \/ Heard(n) => n \in g_muted' \/ Heard(n)'
      BY <1>1, <1>6
    <2>3. \A n \in Msgs : (g_seen'[n] # None \/ g_handling' = n \/ n \in g_answered') => (n \in g_muted' \/ Heard(n)')
      <3>. SUFFICES ASSUME NEW n \in Msgs, g_seen'[n] # None \/ g_handling' = n \/ n \in g_answered'
                   PROVE  n \in g_muted' \/ Heard(n)'
        OBVIOUS
      <3>1. CASE n = m
        BY <2>1, <3>1
      <3>2. CASE n # m
        <4>1. g_seen[n] # None \/ n \in g_answered
          BY <1>0, <1>1, <1>8, <3>2
        <4>. QED BY <2>2, <4>1 DEF BroadcastInv
      <3>. QED BY <3>1, <3>2
    <2>4. \A i, j \in DOMAIN g_told' : g_told'[i] = g_told'[j] => i = j
      <3>1. CASE G(c)!Duplicate(m) \/ g_silenced
        BY <1>1, <3>1 DEF BroadcastInv
      <3>2. CASE ~G(c)!Duplicate(m) /\ ~g_silenced
        <4>1. \A i \in DOMAIN g_told : g_told[i] # m
          BY <1>13, <3>2 DEF Heard
        <4>2. \A i, j \in DOMAIN g_told : g_told[i] = g_told[j] => i = j
          BY DEF BroadcastInv
        <4>3. g_told' = Append(g_told, m)
          BY <1>1, <3>2
        <4>. QED BY <1>2, <1>3, <4>1, <4>2, <4>3, AppendAt
      <3>. QED BY <3>1, <3>2
    <2>. QED BY <2>3, <2>4 DEF BroadcastInv
  <1>. QED BY <1>7, <1>9, <1>11, <1>14

\* The door opens twice at most for each use, and a use that succeeds is counted once.
LEMMA DoorStep ==
    ASSUME NEW c, IsFiniteSet(c.doors), DoorsInv(c), DoorsCounted(c), NEW d \in c.doors,
           G(c)!Press(d) \/ G(c)!Opens(d) \/ G(c)!Succeeds(d) \/ G(c)!Retry(d) \/ G(c)!Fail(d)
    PROVE  DoorsInv(c)' /\ DoorsCounted(c)'
  <1>. DEFINE Ok == {e \in c.doors : g_door[e] = "ok"}
  <1>0. g_door \in [c.doors -> DoorStages] /\ g_opened \in [c.doors -> 0..2] /\ g_door_count = Cardinality(Ok)
    BY DEF DoorsInv, DoorsCounted
  <1>1. CASE G(c)!Succeeds(d)
    <2>1. /\ g_door[d] \in {"first_taken", "second_taken"} /\ g_door' = [g_door EXCEPT ![d] = "ok"]
          /\ g_door_count' = g_door_count + 1 /\ UNCHANGED g_opened
      BY <1>1 DEF G!Succeeds, G!Stands
    <2>2. IsFiniteSet(Ok) /\ d \notin Ok
      BY <2>1, FS_Subset
    <2>3. {e \in c.doors : g_door'[e] = "ok"} = Ok \cup {d}
      BY <1>0, <2>1
    <2>4. g_door_count' = Cardinality({e \in c.doors : g_door'[e] = "ok"})
      BY <1>0, <2>1, <2>2, <2>3, FS_AddElement
    <2>5. DoorsInv(c)'
      BY <1>0, <2>1 DEF DoorsInv, DoorStages
    <2>. QED BY <2>4, <2>5 DEF DoorsCounted
  <1>2. CASE ~G(c)!Succeeds(d)
    <2>1. PICK stage \in DoorStages : stage # "ok" /\ g_door' = [g_door EXCEPT ![d] = stage]
      BY <1>2 DEF G!Press, G!Opens, G!Retry, G!Fail, G!Stands, G!Taken, DoorStages
    <2>2. g_door[d] # "ok" /\ g_door_count' = g_door_count
      BY <1>2 DEF G!Press, G!Opens, G!Sending, G!Retry, G!Retries, G!Fail
    <2>3. {e \in c.doors : g_door'[e] = "ok"} = Ok
      BY <1>0, <2>1, <2>2
    <2>4. g_door' \in [c.doors -> DoorStages]
      BY <1>0, <2>1
    <2>7. DoorsCounted(c)'
      BY <1>0, <2>2, <2>3 DEF DoorsCounted
    <2>5. CASE G(c)!Opens(d)
      <3>1. /\ g_door[d] \in {"first", "second"} /\ g_opened' = [g_opened EXCEPT ![d] = @ + 1]
            /\ g_door' = [g_door EXCEPT ![d] = IF g_door[d] = "first" THEN "first_taken" ELSE "second_taken"]
        BY <2>5 DEF G!Opens, G!Sending, G!Stands, G!Taken
      <3>2. g_opened[d] \in 0..1
        BY <1>0, <3>1 DEF DoorsInv
      <3>3. g_opened' \in [c.doors -> 0..2]
        BY <1>0, <3>1, <3>2
      <3>. QED BY <1>0, <2>4, <2>7, <3>1, <3>2, <3>3 DEF DoorsInv
    <2>6. CASE ~G(c)!Opens(d)
      <3>1. UNCHANGED g_opened
        BY <1>2, <2>6 DEF G!Press, G!Retry, G!Fail
      <3>2. \/ g_door[d] = "unused" /\ g_door' = [g_door EXCEPT ![d] = "first"]
            \/ g_door[d] \in {"first", "first_taken"} /\ g_door' = [g_door EXCEPT ![d] = "second"]
            \/ g_door' = [g_door EXCEPT ![d] = "failed"]
        BY <1>2, <2>6 DEF G!Press, G!Retry, G!Retries, G!Fail, G!Stands
      <3>. QED BY <1>0, <2>4, <2>7, <3>1, <3>2 DEF DoorsInv
    <2>. QED BY <2>5, <2>6
  <1>. QED BY <1>1, <1>2

LEMMA MessagesStep ==
    ASSUME NEW c, IsFiniteSet(c.doors), MessagesInv(c), [G(c)!Next]_messages
    PROVE  MessagesInv(c)'
  <1>0. MessageTypes /\ ComesInv /\ NotedInv /\ BroadcastInv /\ DoorsInv(c) /\ DoorsCounted(c)
    BY DEF MessagesInv
  <1>1. ASSUME NEW d \in c.doors,
               G(c)!Press(d) \/ G(c)!Opens(d) \/ G(c)!Succeeds(d) \/ G(c)!Retry(d) \/ G(c)!Fail(d)
        PROVE  MessagesInv(c)'
    <2>1. UNCHANGED <<g_now, g_copies, g_last_copy, g_queue, g_handling, g_seen, g_told, g_answered, g_muted>>
      BY <1>1 DEF G!Press, G!Opens, G!Succeeds, G!Retry, G!Fail, G!inVars
    <2>2. (MessageTypes /\ ComesInv /\ NotedInv /\ BroadcastInv)'
      BY <1>0, <2>1 DEF MessageTypes, ComesInv, NotedInv, BroadcastInv, Heard, Awaits
    <2>. QED BY <1>0, <1>1, <2>2, DoorStep DEF MessagesInv
  <1>2. ASSUME UNCHANGED <<g_door, g_opened, g_door_count>> PROVE DoorsInv(c)' /\ DoorsCounted(c)'
    BY <1>0, <1>2 DEF DoorsInv, DoorsCounted
  <1>3. CASE G(c)!Tick
    <2>1. g_queue = <<>> /\ g_now' = g_now + 1
          /\ UNCHANGED <<g_copies, g_last_copy, g_queue, g_handling, g_seen, g_told, g_answered, g_muted>>
      BY <1>3 DEF G!Tick
    <2>2. \A m : ~Awaits(m) /\ ~Awaits(m)' /\ Heard(m)' = Heard(m)
      BY <2>1 DEF Awaits, Heard
    <2>3. (MessageTypes /\ BroadcastInv)'
      BY <1>0, <2>1, <2>2 DEF MessageTypes, BroadcastInv
    <2>4. ComesInv'
      BY <1>0, <2>1, <2>2, NoneAssumption DEF MessageTypes, ComesInv
    <2>5. NotedInv'
      BY <1>0, <2>1, <2>2, MessagesAssumption DEF MessageTypes, NotedInv
    <2>. QED BY <1>2, <1>3, <2>3, <2>4, <2>5 DEF MessagesInv, G!Tick, G!outVars
  <1>4. ASSUME NEW m \in Msgs, G(c)!Arrives(m) PROVE MessagesInv(c)'
    BY <1>0, <1>2, <1>4, MessageArrives DEF MessagesInv, G!Arrives, G!outVars
  <1>5. CASE G(c)!Process
    BY <1>0, <1>2, <1>5, MessageRead DEF MessagesInv, G!Process, G!outVars
  <1>6. CASE G(c)!Answers \/ G(c)!SwitchBegins \/ G(c)!SwitchEnds \/ UNCHANGED messages
    <2>1. UNCHANGED <<g_now, g_copies, g_last_copy, g_queue, g_seen, g_told, g_muted>>
          /\ UNCHANGED <<g_door, g_opened, g_door_count>>
      BY <1>6 DEF G!Answers, G!SwitchBegins, G!SwitchEnds, G!outVars, messages
    <2>2. \A m : Awaits(m)' = Awaits(m) /\ Heard(m)' = Heard(m)
      BY <2>1 DEF Awaits, Heard
    <2>3. \/ UNCHANGED <<g_handling, g_answered>>
          \/ g_handling # None /\ g_answered' \subseteq g_answered \cup {g_handling} /\ g_handling' = None
      BY <1>6 DEF G!Answers, G!SwitchBegins, G!SwitchEnds, messages
    <2>4. MessageTypes'
      BY <1>0, <2>1, <2>3 DEF MessageTypes
    <2>5. (ComesInv /\ NotedInv)'
      BY <1>0, <2>1, <2>2 DEF ComesInv, NotedInv
    <2>6. BroadcastInv'
      BY <1>0, <2>1, <2>2, <2>3, NoneAssumption DEF BroadcastInv, MessageTypes
    <2>. QED BY <1>2, <2>1, <2>4, <2>5, <2>6 DEF MessagesInv
  <1>. QED BY <1>1, <1>3, <1>4, <1>5, <1>6 DEF G!Next

\* What MCHub states of the messages.
LEMMA MessagesOk ==
    ASSUME NEW c, IsFiniteSet(c.doors), MessagesInv(c)
    PROVE  G(c)!TypeOK /\ G(c)!ToldOnce /\ G(c)!NotForgotten /\ G(c)!DoorOpens
  <1>0. MessageTypes /\ ComesInv /\ BroadcastInv /\ DoorsInv(c) /\ DoorsCounted(c)
    BY DEF MessagesInv
  <1>1. {d \in c.doors : g_door[d] = "ok"} \subseteq c.doors
    OBVIOUS
  <1>6. \A S : G(c)!Cardinality(S) = Cardinality(S)
    BY DEF G!Cardinality, Cardinality
  <1>2. g_door_count <= Cardinality(c.doors)
    BY <1>0, <1>1, FS_Subset DEF DoorsCounted
  <1>3. G(c)!TypeOK
    <2>1. \A m \in Msgs : g_seen[m] = None \/ g_seen[m] \in 0 .. g_now
      BY <1>0 DEF MessageTypes, ComesInv
    <2>2. g_handling \in Msgs \cup {None} /\ g_answered \subseteq Msgs /\ g_muted \subseteq Msgs
      BY <1>0 DEF MessageTypes
    <2>. QED BY <1>2, <1>6, <2>1, <2>2 DEF G!TypeOK
  <1>4. G(c)!ToldOnce /\ G(c)!NotForgotten
    BY <1>0 DEF BroadcastInv, MessageTypes, Heard, G!ToldOnce, G!NotForgotten
  <1>5. G(c)!DoorOpens
    <2>1. \A d \in c.doors : g_opened[d] <= 2 /\ (g_door[d] = "ok" => g_opened[d] > 0)
      BY <1>0 DEF DoorsInv
    <2>. QED BY <1>0, <1>6, <2>1 DEF DoorsCounted, G!DoorOpens
  <1>. QED BY <1>3, <1>4, <1>5

-----------------------------------------------------------------------------
(* AptParam: the proofs.                                                     *)

LEMMA ParamInit == ASSUME P!Init PROVE ParamInv
  <1>1. DOMAIN p_news = {} /\ DOMAIN p_wire = {}
    BY DEF P!Init
  <1>2. ParamTypes
    BY NoneAssumption DEF P!Init, ParamTypes
  <1>3. AskedInv
    BY <1>1, NoneAssumption DEF P!Init, AskedInv
  <1>4. DelayInv
    BY <1>1, NoneAssumption DEF P!Init, DelayInv
  <1>. QED BY <1>2, <1>3, <1>4 DEF ParamInv

\* A setter's command leaves, with an ID of its own.
LEMMA ParamSet == ASSUME NEW s \in Setters, ParamInv, P!Set(s) PROVE ParamInv'
  <1>0. ParamTypes /\ AskedInv /\ DelayInv
    BY DEF ParamInv
  <1>1. PICK v \in Values :
          /\ p_op[s] = "unused" /\ p_op' = [p_op EXCEPT ![s] = "sent"] /\ p_asked' = [p_asked EXCEPT ![s] = v]
          /\ p_waiters' = [p_waiters EXCEPT ![s] = "pending"] /\ p_wire' = Append(p_wire, s)
          /\ UNCHANGED <<p_tab, p_news, p_accepted, p_hands, p_answered, p_crossed, p_vm_timeout>>
    BY DEF P!Set
  <1>2. p_wire \in Seq(Setters)
    BY <1>0 DEF ParamTypes
  <1>3. ParamTypes'
    BY <1>0, <1>1, <1>2, AppendAt, NoneAssumption DEF ParamTypes
  <1>4. \A n \in DOMAIN p_news, t \in Setters : Success(n, t) => t # s
    BY <1>0, <1>1 DEF AskedInv, Success, Changed
  <1>5. /\ \A n, t : Success(n, t)' = Success(n, t)
        /\ \A n : Changed(n)' = Changed(n)
        /\ NoChanges' = NoChanges
    BY <1>1 DEF Success, Changed, NoChanges
  <1>6. AskedInv'
    <2>1. \A n \in DOMAIN p_wire' : p_op'[p_wire'[n]] # "unused"
      BY <1>0, <1>1, <1>2, AppendAt DEF AskedInv, ParamTypes
    <2>2. \A t \in Setters : p_op'[t] # "unused" => p_asked'[t] \in Values
      BY <1>0, <1>1 DEF AskedInv, ParamTypes
    <2>3. \A n \in DOMAIN p_news' : ~Changed(n)' => p_op'[p_news'[n].to] # "unused"
      <3>1. \A n \in DOMAIN p_news : ~Changed(n) => p_news[n].to \in Setters
        BY <1>0, ElementOfSeq DEF ParamTypes, ParamNews, Changed
      <3>. QED BY <1>0, <1>1, <1>5, <3>1 DEF AskedInv, ParamTypes
    <2>4. \A t \in Setters : p_waiters'[t] = "ERR_NONE" \/ p_op'[t] = "set" => t \in p_accepted'
      BY <1>0, <1>1 DEF AskedInv, ParamTypes
    <2>5. \A t \in Setters, n \in DOMAIN p_news' : Success(n, t)' => t \in p_accepted'
      BY <1>0, <1>1, <1>5 DEF AskedInv
    <2>. QED BY <2>1, <2>2, <2>3, <2>4, <2>5 DEF AskedInv
  <1>7. DelayInv'
    <2>1. \A t \in Setters : t # s => p_asked'[t] = p_asked[t] /\ p_waiters'[t] = p_waiters[t]
      BY <1>0, <1>1 DEF ParamTypes
    <2>2. p_waiters'[s] # "ERR_NONE"
      BY <1>0, <1>1 DEF ParamTypes
    <2>3. \A t \in Setters, n \in DOMAIN p_news' :
            Success(n, t)' /\ (\A m \in DOMAIN p_news' : m > n => ~Changed(m)') => p_asked'[t] = p_tab'
      BY <1>0, <1>1, <1>4, <1>5, <2>1 DEF DelayInv
    <2>4. NoChanges' /\ ~p_crossed' => /\ p_vm_timeout' # None => p_vm_timeout' = p_tab'
                                       /\ \A t \in Setters : p_waiters'[t] = "ERR_NONE" => p_asked'[t] = p_tab'
      BY <1>0, <1>1, <1>5, <2>1, <2>2 DEF DelayInv
    <2>5. \A n \in DOMAIN p_news' :
            Changed(n)' /\ (\A m \in DOMAIN p_news' : m > n => ~Changed(m)') => p_news'[n].v = p_tab'
      BY <1>0, <1>1, <1>5 DEF DelayInv
    <2>. QED BY <2>3, <2>4, <2>5 DEF DelayInv
  <1>. QED BY <1>3, <1>6, <1>7 DEF ParamInv

\* A setter goes on, or is over; what it reads of its reply is the delay that was set.
LEMMA ParamGoesOn ==
    ASSUME NEW s \in Setters, ParamInv, P!Sent(s) \/ P!NotSent(s) \/ P!Replied(s) \/ P!TimedOut(s)
    PROVE  ParamInv'
  <1>0. ParamTypes /\ AskedInv /\ DelayInv
    BY DEF ParamInv
  <1>1. /\ UNCHANGED <<p_tab, p_wire, p_news, p_accepted, p_asked, p_crossed>>
        /\ p_op[s] \in {"sent", "waiting"}
    BY DEF P!Sent, P!NotSent, P!Replied, P!TimedOut, P!panel
  <1>2. /\ \A n, t : Success(n, t)' = Success(n, t)
        /\ \A n : Changed(n)' = Changed(n)
        /\ NoChanges' = NoChanges
    BY <1>1 DEF Success, Changed, NoChanges
  <1>3. PICK how \in {"waiting", "set", "refused", "failed"}, w \in {p_waiters[s], None} :
          /\ p_op' = [p_op EXCEPT ![s] = how] /\ p_waiters' = [p_waiters EXCEPT ![s] = w]
          /\ (w # None) = (how = "waiting")
          /\ how = "set" => p_waiters[s] = "ERR_NONE"
          /\ p_vm_timeout' \in {p_vm_timeout} \cup (IF p_waiters[s] = "ERR_NONE" THEN {p_asked[s]} ELSE {})
    <2>1. p_waiters[s] # None /\ p_waiters = [p_waiters EXCEPT ![s] = p_waiters[s]]
      BY <1>0, <1>1 DEF ParamTypes
    <2>2. CASE P!Sent(s)
      BY <2>1, <2>2 DEF P!Sent
    <2>3. CASE P!NotSent(s) \/ P!TimedOut(s)
      BY <2>3 DEF P!NotSent, P!TimedOut, P!Over
    <2>4. CASE P!Replied(s)
      BY <2>4 DEF P!Replied, P!Over, P!Succeeds
    <2>. QED BY <2>2, <2>3, <2>4
  <1>4. /\ p_op'[s] = how /\ p_waiters'[s] = w
        /\ \A t \in Setters : t # s => p_op'[t] = p_op[t] /\ p_waiters'[t] = p_waiters[t]
    BY <1>0, <1>3 DEF ParamTypes
  <1>5. ParamTypes'
    <2>1. p_waiters' \in [Setters -> {None, "pending", "ERR_NONE", "ERR"}]
      BY <1>0, <1>3 DEF ParamTypes
    <2>2. p_op' \in [Setters -> {"unused", "sent", "waiting", "set", "refused", "failed"}]
      BY <1>0, <1>3 DEF ParamTypes
    <2>3. p_vm_timeout' \in Values \cup {None}
      BY <1>0, <1>1, <1>3 DEF ParamTypes, AskedInv
    <2>4. \A t \in Setters : (p_waiters'[t] # None) = (p_op'[t] \in {"sent", "waiting"})
      BY <1>0, <1>3, <1>4 DEF ParamTypes
    <2>. QED BY <1>0, <1>1, <2>1, <2>2, <2>3, <2>4 DEF ParamTypes
  <1>6. AskedInv'
    <2>1. \A t \in Setters : p_op'[t] # "unused" <=> p_op[t] # "unused"
      BY <1>1, <1>3, <1>4
    <2>2. \A n \in DOMAIN p_news : ~Changed(n) => p_news[n].to \in Setters
      BY <1>0, ElementOfSeq DEF ParamTypes, ParamNews, Changed
    <2>3. \A n \in DOMAIN p_wire : p_wire[n] \in Setters
      BY <1>0, ElementOfSeq DEF ParamTypes
    <2>4. \A t \in Setters : p_waiters'[t] = "ERR_NONE" \/ p_op'[t] = "set" => t \in p_accepted
      BY <1>0, <1>3, <1>4, NoneAssumption DEF AskedInv
    <2>. QED BY <1>0, <1>1, <1>2, <2>1, <2>2, <2>3, <2>4 DEF AskedInv
  <1>7. DelayInv'
    <2>1. \A t \in Setters : p_waiters'[t] = "ERR_NONE" => p_waiters[t] = "ERR_NONE"
      BY <1>3, <1>4, NoneAssumption
    <2>2. NoChanges /\ ~p_crossed => (p_vm_timeout' # None => p_vm_timeout' = p_tab)
      BY <1>0, <1>3 DEF DelayInv
    <2>3. NoChanges' /\ ~p_crossed' => /\ p_vm_timeout' # None => p_vm_timeout' = p_tab'
                                       /\ \A t \in Setters : p_waiters'[t] = "ERR_NONE" => p_asked'[t] = p_tab'
      BY <1>0, <1>1, <1>2, <2>1, <2>2 DEF DelayInv
    <2>. QED BY <1>0, <1>1, <1>2, <2>3 DEF DelayInv
  <1>. QED BY <1>5, <1>6, <1>7 DEF ParamInv

\* The panel tells a change, its own or one it was asked for: whatever was on its way is
\* behind it.
LEMMA ParamHand == ASSUME ParamInv, P!Hand PROVE ParamInv'
  <1>0. ParamTypes /\ AskedInv /\ DelayInv
    BY DEF ParamInv
  <1>1. PICK v \in Values :
          /\ p_tab' = v /\ p_news' = p_news \o <<[k |-> "changed", v |-> v]>>
          /\ UNCHANGED <<p_wire, p_accepted, p_answered, p_crossed, p_waiters, p_vm_timeout, p_op, p_asked>>
    BY DEF P!Hand, P!Change
  <1>. DEFINE x == [k |-> "changed", v |-> v]
  <1>2. p_news \in Seq(ParamNews) /\ x \in ParamNews
    BY <1>0 DEF ParamTypes, ParamNews
  <1>. PICK L \in Nat : L = Len(p_news)
    BY <1>2, LenProperties
  <1>3. p_news' = Append(p_news, x)
    BY <1>1, <1>2, AppendIsConcat
  <1>4. /\ p_news' \in Seq(ParamNews) /\ DOMAIN p_news' = 1 .. (L + 1) /\ DOMAIN p_news = 1 .. L /\ L \in Nat
        /\ \A n \in DOMAIN p_news : p_news'[n] = p_news[n]
        /\ p_news'[L + 1] = x
    <2>. HIDE DEF x
    <2>. QED BY <1>2, <1>3, AppendAt
  <1>5. Changed(L + 1)' /\ L + 1 \in DOMAIN p_news'
    BY <1>1, <1>4 DEF Changed
  <1>6. ParamTypes'
    BY <1>0, <1>1, <1>4 DEF ParamTypes
  <1>7. \A n \in DOMAIN p_news' : n \in DOMAIN p_news \/ n = L + 1
    BY <1>4
  <1>8. AskedInv'
    <2>1. \A n \in DOMAIN p_news' : ~Changed(n)' => n \in DOMAIN p_news /\ p_news'[n] = p_news[n] /\ ~Changed(n)
      BY <1>4, <1>5, <1>7 DEF Changed
    <2>2. \A t \in Setters, n \in DOMAIN p_news' : Success(n, t)' => n \in DOMAIN p_news /\ Success(n, t)
      BY <1>4, <1>7 DEF Success
    <2>. QED BY <1>0, <1>1, <2>1, <2>2 DEF AskedInv
  <1>9. DelayInv'
    <2>1. \A n \in DOMAIN p_news' : (\A m \in DOMAIN p_news' : m > n => ~Changed(m)') => n = L + 1
      BY <1>4, <1>5, <1>7
    <2>2. \A t : ~Success(L + 1, t)'
      BY <1>4 DEF Success
    <2>3. ~NoChanges'
      BY <1>5 DEF NoChanges
    <2>4. p_news'[L + 1].v = p_tab'
      BY <1>1, <1>4
    <2>. QED BY <2>1, <2>2, <2>3, <2>4 DEF DelayInv
  <1>. QED BY <1>6, <1>8, <1>9 DEF ParamInv

\* A command is read: it is taken, and told to everybody before its reply, or refused.
LEMMA ParamRead == ASSUME ParamInv, P!PanelReads PROVE ParamInv'
  <1>0. ParamTypes /\ AskedInv /\ DelayInv
    BY DEF ParamInv
  <1>1. p_wire \in Seq(Setters) /\ p_wire # <<>> /\ p_news \in Seq(ParamNews)
    BY <1>0 DEF ParamTypes, P!PanelReads
  <1>. PICK s \in Setters : s = Head(p_wire)
    BY <1>1, TailAt
  <1>. DEFINE x == [k |-> "changed", v |-> p_asked[s]]
              yes == [k |-> "reply", to |-> s, err |-> "ERR_NONE"]
              no == [k |-> "reply", to |-> s, err |-> "ERR"]
  <1>. PICK L \in Nat : L = Len(p_news)
    BY <1>1, LenProperties
  <1>2. /\ p_wire' = Tail(p_wire) /\ UNCHANGED <<p_crossed, p_waiters, p_vm_timeout, p_op, p_asked>>
        /\ \/ /\ p_tab' = p_asked[s] /\ p_accepted' = p_accepted \cup {s} /\ p_news' = (p_news \o <<x>>) \o <<yes>>
           \/ /\ p_tab' = p_tab /\ p_accepted' = p_accepted /\ p_news' = (p_news \o <<>>) \o <<no>>
    BY DEF P!PanelReads, P!Change
  <1>3. p_op[s] # "unused" /\ p_asked[s] \in Values
    BY <1>0, <1>1, TailAt DEF AskedInv
  <1>4. p_wire' \in Seq(Setters) /\ \A n \in DOMAIN p_wire' : p_op[p_wire'[n]] # "unused"
    BY <1>0, <1>1, <1>2, TailAt DEF AskedInv
  <1>5. x \in ParamNews /\ yes \in ParamNews /\ no \in ParamNews
    BY <1>3 DEF ParamNews
  <1>6. L \in Nat /\ DOMAIN p_news = 1 .. L
    BY <1>1, LenProperties
  <1>7. CASE /\ p_tab' = p_asked[s] /\ p_accepted' = p_accepted \cup {s} /\ p_news' = (p_news \o <<x>>) \o <<yes>>
    <2>1. p_news' = Append(Append(p_news, x), yes)
      <3>. HIDE DEF x, yes
      <3>1. p_news \o <<x>> = Append(p_news, x) /\ Append(p_news, x) \in Seq(ParamNews)
        BY <1>1, <1>5, AppendIsConcat, AppendAt
      <3>. QED BY <1>5, <1>7, <3>1, AppendIsConcat
    <2>2. /\ p_news' \in Seq(ParamNews) /\ DOMAIN p_news' = 1 .. (L + 2)
          /\ \A n \in DOMAIN p_news : p_news'[n] = p_news[n]
          /\ p_news'[L + 1] = x /\ p_news'[L + 2] = yes
      <3>. HIDE DEF x, yes
      <3>. DEFINE Mid == Append(p_news, x)
      <3>1. /\ Mid \in Seq(ParamNews) /\ Len(Mid) = L + 1 /\ DOMAIN Mid = 1 .. (L + 1)
            /\ \A n \in DOMAIN p_news : Mid[n] = p_news[n]
            /\ Mid[L + 1] = x
        BY <1>1, <1>5, AppendAt
      <3>2. /\ p_news' \in Seq(ParamNews) /\ DOMAIN p_news' = 1 .. (Len(Mid) + 1)
            /\ \A n \in DOMAIN Mid : p_news'[n] = Mid[n]
            /\ p_news'[Len(Mid) + 1] = yes
        <4>. HIDE DEF Mid
        <4>1. p_news' = Append(Mid, yes)
          BY <2>1 DEF Mid
        <4>. QED BY <1>5, <3>1, <4>1, AppendAt
      <3>3. Len(Mid) + 1 = L + 2 /\ L + 1 \in DOMAIN Mid /\ \A n \in DOMAIN p_news : n \in DOMAIN Mid
        BY <1>6, <3>1
      <3>. HIDE DEF Mid
      <3>. QED BY <3>1, <3>2, <3>3
    <2>3. \A n \in DOMAIN p_news' : n \in DOMAIN p_news \/ n = L + 1 \/ n = L + 2
      BY <1>6, <2>2
    <2>4. Changed(L + 1)' /\ ~Changed(L + 2)' /\ L + 1 \in DOMAIN p_news' /\ L + 2 \in DOMAIN p_news'
      BY <1>6, <2>2 DEF Changed
    <2>5. ParamTypes'
      BY <1>0, <1>2, <1>3, <1>4, <1>7, <2>2 DEF ParamTypes
    <2>6. \A t \in Setters, n \in DOMAIN p_news' : Success(n, t)' => (n \in DOMAIN p_news /\ Success(n, t)) \/ (n = L + 2 /\ t = s)
      BY <2>2, <2>3 DEF Success
    <2>7. AskedInv'
      <3>1. \A n \in DOMAIN p_news' : ~Changed(n)' => p_op'[p_news'[n].to] # "unused"
        <4>. SUFFICES ASSUME NEW n \in DOMAIN p_news', ~Changed(n)' PROVE p_op[p_news'[n].to] # "unused"
          BY <1>2
        <4>1. CASE n \in DOMAIN p_news
          BY <1>0, <2>2, <4>1 DEF AskedInv, Changed
        <4>2. CASE n = L + 2
          BY <1>3, <2>2, <4>2
        <4>. QED BY <2>3, <2>4, <4>1, <4>2
      <3>. QED BY <1>0, <1>2, <1>4, <1>7, <2>6, <3>1 DEF AskedInv
    <2>8. DelayInv'
      <3>1. \A n \in DOMAIN p_news' : (\A m \in DOMAIN p_news' : m > n => ~Changed(m)') => n = L + 1 \/ n = L + 2
        BY <1>6, <2>3, <2>4
      <3>2. \A t \in Setters : Success(L + 1, t)' => FALSE
        BY <2>2 DEF Success
      <3>3. \A t \in Setters : Success(L + 2, t)' => t = s
        BY <2>2 DEF Success
      <3>4. p_news'[L + 1].v = p_tab' /\ p_asked'[s] = p_tab'
        BY <1>2, <1>7, <2>2
      <3>5. ~NoChanges'
        BY <2>4 DEF NoChanges
      <3>. QED BY <2>4, <3>1, <3>2, <3>3, <3>4, <3>5 DEF DelayInv
    <2>. QED BY <2>5, <2>7, <2>8 DEF ParamInv
  <1>8. CASE /\ p_tab' = p_tab /\ p_accepted' = p_accepted /\ p_news' = (p_news \o <<>>) \o <<no>>
    <2>1. p_news' = Append(p_news, no)
      <3>. HIDE DEF no
      <3>1. p_news \o <<>> = p_news
        BY <1>1, ConcatEmptySeq
      <3>. QED BY <1>1, <1>5, <1>8, <3>1, AppendIsConcat
    <2>2. /\ p_news' \in Seq(ParamNews) /\ DOMAIN p_news' = 1 .. (L + 1)
          /\ \A n \in DOMAIN p_news : p_news'[n] = p_news[n]
          /\ p_news'[L + 1] = no
      <3>. HIDE DEF no
      <3>. QED BY <1>1, <1>5, <2>1, AppendAt
    <2>3. \A n \in DOMAIN p_news' : n \in DOMAIN p_news \/ n = L + 1
      BY <1>6, <2>2
    <2>4. ~Changed(L + 1)' /\ (\A t : ~Success(L + 1, t)') /\ L + 1 \notin DOMAIN p_news
      BY <1>6, <2>2 DEF Changed, Success
    <2>5. /\ \A n \in DOMAIN p_news : n \in DOMAIN p_news' /\ Changed(n)' = Changed(n)
          /\ \A n \in DOMAIN p_news : \A t : Success(n, t)' = Success(n, t)
      BY <1>6, <2>2 DEF Changed, Success
    <2>6. ParamTypes'
      BY <1>0, <1>2, <1>4, <1>8, <2>2 DEF ParamTypes
    <2>7. AskedInv'
      <3>1. \A n \in DOMAIN p_news' : ~Changed(n)' => p_op'[p_news'[n].to] # "unused"
        BY <1>0, <1>2, <1>3, <2>2, <2>3, <2>5 DEF AskedInv
      <3>2. \A t \in Setters, n \in DOMAIN p_news' : Success(n, t)' => t \in p_accepted
        BY <1>0, <2>3, <2>4, <2>5 DEF AskedInv
      <3>. QED BY <1>0, <1>2, <1>4, <1>8, <3>1, <3>2 DEF AskedInv
    <2>8. DelayInv'
      <3>1. \A n \in DOMAIN p_news' : Changed(n)' \/ (\E t : Success(n, t)') => n \in DOMAIN p_news
        BY <2>3, <2>4
      <3>2. \A n \in DOMAIN p_news :
              (\A m \in DOMAIN p_news' : m > n => ~Changed(m)') => \A m \in DOMAIN p_news : m > n => ~Changed(m)
        BY <2>5
      <3>3. NoChanges' => NoChanges
        BY <2>5 DEF NoChanges
      <3>4. \A n \in DOMAIN p_news' :
              Changed(n)' /\ (\A m \in DOMAIN p_news' : m > n => ~Changed(m)') => p_news'[n].v = p_tab'
        BY <1>0, <1>8, <2>2, <2>5, <3>1, <3>2 DEF DelayInv
      <3>5. \A t \in Setters, n \in DOMAIN p_news' :
              Success(n, t)' /\ (\A m \in DOMAIN p_news' : m > n => ~Changed(m)') => p_asked'[t] = p_tab'
        BY <1>0, <1>2, <1>8, <2>5, <3>1, <3>2 DEF DelayInv
      <3>. QED BY <1>0, <1>2, <1>8, <3>3, <3>4, <3>5 DEF DelayInv
    <2>. QED BY <2>6, <2>7, <2>8 DEF ParamInv
  <1>. QED BY <1>2, <1>7, <1>8

\* The hub reads the panel's next MESSAGE: what it takes over of the last change on its way,
\* or a setter of its reply, is the panel's delay.
LEMMA ParamHears == ASSUME ParamInv, P!HandleMessage PROVE ParamInv'
  <1>0. ParamTypes /\ AskedInv /\ DelayInv
    BY DEF ParamInv
  <1>. DEFINE m == p_news[1]
  <1>1. /\ 1 \in DOMAIN p_news /\ p_news' = SubSeq(p_news, 1, 1 - 1) \o SubSeq(p_news, 1 + 1, Len(p_news))
        /\ p_vm_timeout' = IF m.k = "changed" THEN m.v ELSE p_vm_timeout
        /\ p_crossed' = (p_crossed \/ (m.k = "changed" /\ \E s \in Setters : p_waiters[s] \notin {None, "pending"}))
        /\ p_waiters' = [s \in Setters |-> IF m.k = "reply" /\ m.to = s /\ p_waiters[s] = "pending" THEN m.err ELSE p_waiters[s]]
        /\ UNCHANGED <<p_tab, p_wire, p_accepted, p_op, p_asked>>
    BY DEF P!HandleMessage, P!Waits
  <1>2. p_news \in Seq(ParamNews) /\ p_news # <<>>
    BY <1>0, <1>1 DEF ParamTypes
  <1>3. p_news' = Tail(p_news)
    <2>1. SubSeq(p_news, 1, 1 - 1) = <<>> /\ SubSeq(p_news, 1 + 1, Len(p_news)) = Tail(p_news)
      BY <1>2, SubSeqEmpty, TailIsSubSeq
    <2>. QED BY <1>1, <1>2, <2>1, ConcatEmptySeq, TailAt
  <1>4. /\ p_news' \in Seq(ParamNews) /\ DOMAIN p_news \subseteq Nat /\ DOMAIN p_news' \subseteq Nat
        /\ \A n \in DOMAIN p_news' : n + 1 \in DOMAIN p_news /\ p_news'[n] = p_news[n + 1]
        /\ \A n \in DOMAIN p_news : n > 1 => n - 1 \in DOMAIN p_news' /\ (n - 1) + 1 = n
        /\ \A n \in DOMAIN p_news : n >= 1
    BY <1>2, <1>3, TailAt
  <1>5. /\ \A n \in DOMAIN p_news' : Changed(n)' = Changed(n + 1)
        /\ \A n \in DOMAIN p_news' : \A t : Success(n, t)' = Success(n + 1, t)
    BY <1>4 DEF Changed, Success
  <1>6. m \in ParamNews
    BY <1>1, <1>2, ElementOfSeq
  <1>7. ParamTypes'
    <2>1. p_waiters' \in [Setters -> {None, "pending", "ERR_NONE", "ERR"}]
      BY <1>0, <1>1, <1>6 DEF ParamTypes, ParamNews
    <2>2. \A s \in Setters : p_waiters'[s] # None <=> p_waiters[s] # None
      BY <1>0, <1>1, <1>6, NoneAssumption DEF ParamTypes, ParamNews
    <2>3. p_vm_timeout' \in Values \cup {None}
      BY <1>0, <1>1, <1>6 DEF ParamTypes, ParamNews
    <2>. QED BY <1>0, <1>1, <1>4, <2>1, <2>2, <2>3 DEF ParamTypes
  <1>8. AskedInv'
    <2>1. \A n \in DOMAIN p_news' : ~Changed(n)' => p_op'[p_news'[n].to] # "unused"
      BY <1>0, <1>1, <1>4, <1>5 DEF AskedInv
    <2>2. \A t \in Setters, n \in DOMAIN p_news' : Success(n, t)' => t \in p_accepted
      BY <1>0, <1>4, <1>5 DEF AskedInv
    <2>3. \A t \in Setters : p_waiters'[t] = "ERR_NONE" => p_waiters[t] = "ERR_NONE" \/ Success(1, t)
      BY <1>1 DEF Success
    <2>. QED BY <1>0, <1>1, <2>1, <2>2, <2>3 DEF AskedInv
  <1>9. DelayInv'
    <2>1. \A n \in DOMAIN p_news' :
            (\A j \in DOMAIN p_news' : j > n => ~Changed(j)') => \A j \in DOMAIN p_news : j > n + 1 => ~Changed(j)
      <3>. SUFFICES ASSUME NEW n \in DOMAIN p_news', \A j \in DOMAIN p_news' : j > n => ~Changed(j)',
                           NEW j \in DOMAIN p_news, j > n + 1
                    PROVE  ~Changed(j)
        OBVIOUS
      <3>1. j - 1 \in DOMAIN p_news' /\ j - 1 > n /\ (j - 1) + 1 = j
        BY <1>4
      <3>2. Changed(j - 1)' = Changed((j - 1) + 1)
        BY <1>5, <3>1
      <3>. QED BY <3>1, <3>2
    <2>2. NoChanges' => \A j \in DOMAIN p_news : j > 1 => ~Changed(j)
      <3>. SUFFICES ASSUME NoChanges', NEW j \in DOMAIN p_news, j > 1 PROVE ~Changed(j)
        OBVIOUS
      <3>1. j - 1 \in DOMAIN p_news' /\ (j - 1) + 1 = j
        BY <1>4
      <3>2. Changed(j - 1)' = Changed((j - 1) + 1)
        BY <1>5, <3>1
      <3>. QED BY <3>1, <3>2 DEF NoChanges
    <2>3. \A n \in DOMAIN p_news' :
            Changed(n)' /\ (\A j \in DOMAIN p_news' : j > n => ~Changed(j)') => p_news'[n].v = p_tab'
      BY <1>0, <1>1, <1>4, <1>5, <2>1 DEF DelayInv
    <2>4. \A t \in Setters, n \in DOMAIN p_news' :
            Success(n, t)' /\ (\A j \in DOMAIN p_news' : j > n => ~Changed(j)') => p_asked'[t] = p_tab'
      BY <1>0, <1>1, <1>4, <1>5, <2>1 DEF DelayInv
    <2>5. ASSUME NoChanges', ~p_crossed'
          PROVE  /\ p_vm_timeout' # None => p_vm_timeout' = p_tab'
                 /\ \A t \in Setters : p_waiters'[t] = "ERR_NONE" => p_asked'[t] = p_tab'
      <3>1. CASE Changed(1)
        <4>1. m.k = "changed" /\ m.v = p_tab
          BY <1>0, <1>1, <2>2, <2>5, <3>1 DEF DelayInv, Changed
        <4>2. \A t \in Setters : p_waiters[t] # "ERR_NONE"
          BY <1>1, <2>5, <4>1, NoneAssumption
        <4>. QED BY <1>1, <4>1, <4>2
      <3>2. CASE ~Changed(1)
        <4>1. m.k # "changed" /\ NoChanges /\ ~p_crossed
          <5>1. \A j \in DOMAIN p_news : j = 1 \/ j > 1
            BY <1>4
          <5>. QED BY <1>1, <2>2, <2>5, <3>2, <5>1 DEF NoChanges, Changed
        <4>2. \A t \in Setters : Success(1, t) => p_asked[t] = p_tab
          BY <1>0, <1>1, <2>2, <2>5 DEF DelayInv
        <4>3. \A t \in Setters : p_waiters'[t] = "ERR_NONE" => p_waiters[t] = "ERR_NONE" \/ Success(1, t)
          BY <1>1 DEF Success
        <4>. QED BY <1>0, <1>1, <4>1, <4>2, <4>3 DEF DelayInv
      <3>. QED BY <3>1, <3>2
    <2>. QED BY <2>3, <2>4, <2>5 DEF DelayInv
  <1>. QED BY <1>7, <1>8, <1>9 DEF ParamInv

LEMMA ParamStep == ASSUME ParamInv, [P!Next]_param PROVE ParamInv'
  <1>1. ASSUME UNCHANGED param PROVE ParamInv'
    BY <1>1 DEF param, ParamInv, ParamTypes, AskedInv, DelayInv, NoChanges, Changed, Success
  <1>. QED BY <1>1, ParamSet, ParamGoesOn, ParamRead, ParamHand, ParamHears DEF P!Next

\* What MCHub states of the parameters.
LEMMA ParamOk == ASSUME ParamInv PROVE P!TypeOK /\ P!ToldTruly /\ P!KnowsTheDelay
  <1>0. ParamTypes /\ AskedInv /\ DelayInv
    BY DEF ParamInv
  <1>1. P!TypeOK
    BY <1>0 DEF ParamTypes, P!TypeOK
  <1>2. P!ToldTruly
    BY <1>0 DEF AskedInv, P!ToldTruly
  <1>3. P!KnowsTheDelay
    <2>1. p_news = <<>> => NoChanges
      BY DEF NoChanges
    <2>. QED BY <1>0, <2>1 DEF DelayInv, P!KnowsTheDelay
  <1>. QED BY <1>1, <1>2, <1>3

-----------------------------------------------------------------------------
(* FindPicg: the proofs.                                                     *)

\* What SearchAssumption says of each case.
SearchCase(c) ==
    /\ c.targets \in Seq(STRING) \ {<<>>} /\ c.nicks \in BOOLEAN
    /\ \A j \in DOMAIN c.targets : c.targets[j] # None
    /\ "probe" \in c.late => c.nicks

\* What NamesTheRight and NothingMissed say of one result.
Right(c, r) ==
    /\ r.picg \in {None} \cup (IF c.nicks THEN {c.picg} ELSE c.answering)
    /\ r.candidates # <<>> => F(c)!Named(r) \cap c.answering # {}
    /\ F(c)!Named(r) # {} \/ ~r.heard \/ (c.nicks /\ c.picg = None)

LEMMA SearchResults ==
    ASSUME NEW c, DOMAIN f_result = {"s1", "s2"}
    PROVE  F(c)!NamesTheRight /\ F(c)!NothingMissed
             <=> \A s \in {"s1", "s2"} : f_result[s] # None => Right(c, f_result[s])
  BY DEF F!NamesTheRight, F!NothingMissed, Right

LEMMA SearchResultsNext ==
    ASSUME NEW c, \A s \in {"s1", "s2"} : f_result'[s] # None => Right(c, f_result'[s])
    PROVE  (F(c)!NamesTheRight /\ F(c)!NothingMissed)'
  BY DEF F!NamesTheRight, F!NothingMissed, Right, F!Named

\* A refused search names nobody.
LEMMA SearchRefused ==
    ASSUME NEW c, SearchInv(c), NEW s \in {"s1", "s2"}, f_result' = [f_result EXCEPT ![s] = F(c)!Refused]
    PROVE  DOMAIN f_result' = {"s1", "s2"} /\ (F(c)!NamesTheRight /\ F(c)!NothingMissed)'
  <1>1. DOMAIN f_result = {"s1", "s2"} /\ F(c)!NamesTheRight /\ F(c)!NothingMissed
    BY DEF SearchInv, SearchTypes
  <1>2. \A t \in {"s1", "s2"} : f_result[t] # None => Right(c, f_result[t])
    BY <1>1, SearchResults
  <1>3. Right(c, F(c)!Refused)
    BY DEF Right, F!Refused
  <1>4. \A t \in {"s1", "s2"} : f_result'[t] # None => Right(c, f_result'[t])
    BY <1>1, <1>2, <1>3
  <1>5. DOMAIN f_result' = {"s1", "s2"}
    BY <1>1
  <1>6. (F(c)!NamesTheRight /\ F(c)!NothingMissed)'
    BY <1>4, SearchResultsNext
  <1>. QED BY <1>5, <1>6

\* What one look after an address concludes is right, and a search that goes on has heard
\* nothing that could have told it.
LEMMA SearchConcludes ==
    ASSUME NEW c, SearchCase(c), SearchInv(c), f_at \in {"sending", "waiting"},
           NEW got \in BOOLEAN, got => f_waiter = "resolved"
    PROVE  LET z == F(c)!Conclusion(got) IN
           /\ Right(c, [ok |-> TRUE, picg |-> z.picg, candidates |-> z.candidates, heard |-> f_seq # f_began])
           /\ z.picg = None /\ z.candidates = <<>> => (f_seq = f_began /\ z.after = None) \/ Silent(c)
  <1>. DEFINE z == F(c)!Conclusion(got)
              t == c.targets[f_i]
              late == f_seq # f_seq0 /\ f_reply_after = None
  <1>1. /\ f_picg = None /\ f_i \in 1 .. Len(c.targets)
        /\ (f_seq0 = f_began /\ f_reply_after = None) \/ Silent(c)
        /\ f_seq \in Nat /\ f_seq0 \in Nat /\ f_began \in Nat /\ f_seq0 <= f_seq
    BY DEF SearchInv, SearchTypes, GoesOn
  <1>2. /\ DOMAIN c.targets = 1 .. Len(c.targets) /\ t # None /\ c.targets \in Seq(STRING)
        /\ f_i \in Int /\ Len(c.targets) \in Nat
    BY <1>1, LenProperties DEF SearchCase
  <1>3. CASE c.nicks
    <2>1. f_nicknames = IF f_seq = 0 THEN None ELSE c.picg
      BY <1>3 DEF SearchInv, Provoked
    <2>2. got => f_seq > 0
      BY DEF SearchInv, Provoked
    <2>3. z.candidates = <<>>
      BY <1>3 DEF F!Conclusion
    <2>4. CASE got
      <3>1. z.picg = f_nicknames /\ z.picg = c.picg
        <4>1. z.picg = f_nicknames
          BY <1>2, <1>3, <2>4 DEF F!Conclusion, F!Target
        <4>2. f_nicknames = c.picg
          BY <1>1, <2>1, <2>2, <2>4
        <4>. QED BY <4>1, <4>2
      <3>. QED BY <1>3, <2>3, <3>1 DEF Right, F!Named, Silent
    <2>5. CASE ~got
      <3>1. /\ z.picg = IF late THEN f_nicknames ELSE None
            /\ ~late \/ f_nicknames = None => z.after = f_reply_after
        BY <1>1, <1>3, <2>5 DEF F!Conclusion, F!Target
      <3>2. CASE Silent(c)
        BY <1>3, <2>1, <2>3, <3>1, <3>2 DEF Right, F!Named, Silent
      <3>3. CASE ~Silent(c)
        <4>1. f_seq0 = f_began /\ f_reply_after = None /\ c.picg # None
          BY <1>1, <1>3, <3>3 DEF Silent
        <4>2. CASE f_seq = f_seq0
          BY <1>3, <2>3, <3>1, <4>1, <4>2 DEF Right, F!Named
        <4>3. CASE f_seq # f_seq0
          <5>1. z.picg = c.picg
            BY <1>1, <2>1, <3>1, <4>1, <4>3
          <5>. QED BY <1>3, <2>3, <4>1, <5>1 DEF Right, F!Named
        <4>. QED BY <4>2, <4>3
      <3>. QED BY <3>2, <3>3
    <2>. QED BY <2>4, <2>5
  <1>4. CASE ~c.nicks
    <2>1. f_seq0 = f_began /\ f_reply_after = None
      BY <1>1, <1>4 DEF Silent
    <2>2. CASE got
      <3>1. z.picg = t /\ z.candidates = <<>>
        BY <1>2, <1>4, <2>2 DEF F!Conclusion, F!Target
      <3>2. t \in c.answering
        BY <1>4, <2>2 DEF SearchInv, Provoked
      <3>. QED BY <1>2, <1>4, <3>1, <3>2 DEF Right, F!Named
    <2>3. CASE ~got
      <3>1. /\ z.picg = None /\ z.after = None
            /\ z.candidates = IF f_seq # f_seq0 THEN F(c)!Suspects ELSE <<>>
        BY <1>1, <1>4, <2>1, <2>3 DEF F!Conclusion
      <3>2. CASE f_seq = f_seq0
        BY <1>4, <2>1, <3>1, <3>2 DEF Right, F!Named
      <3>3. CASE f_seq # f_seq0
        <4>1. t \in c.answering \/ (f_i > 1 /\ c.targets[f_i - 1] \in c.answering)
          BY <1>4, <3>3 DEF SearchInv, Provoked
        <4>. PICK k \in Nat : k = IF f_i > 1 THEN f_i - 1 ELSE f_i
          BY <1>1, <1>2
        <4>2. k \in 1 .. f_i /\ (k = f_i \/ k = f_i - 1) /\ (f_i > 1 => k = f_i - 1)
          BY <1>1, <1>2
        <4>3. /\ F(c)!Suspects \in Seq(STRING) /\ Len(F(c)!Suspects) = f_i - k + 1
              /\ \A n \in 1 .. f_i - k + 1 : F(c)!Suspects[n] = c.targets[k + n - 1]
          <5>1. F(c)!Suspects = SubSeq(c.targets, k, f_i)
            BY DEF F!Suspects
          <5>2. \A n \in k .. f_i : c.targets[n] \in STRING
            BY <1>1, <1>2, <4>2, ElementOfSeq
          <5>. QED BY <1>2, <4>2, <5>1, <5>2, SubSeqProperties
        <4>4. PICK n \in DOMAIN F(c)!Suspects : F(c)!Suspects[n] \in c.answering
          <5>1. DOMAIN F(c)!Suspects = 1 .. f_i - k + 1
            BY <4>3, LenProperties
          <5>2. CASE t \in c.answering
            <6>1. f_i - k + 1 \in 1 .. f_i - k + 1 /\ k + (f_i - k + 1) - 1 = f_i
              BY <1>2, <4>2
            <6>. QED BY <4>3, <5>1, <5>2, <6>1
          <5>3. CASE f_i > 1 /\ c.targets[f_i - 1] \in c.answering
            <6>1. 1 \in 1 .. f_i - k + 1 /\ k + 1 - 1 = f_i - 1
              BY <1>2, <4>2, <5>3
            <6>. QED BY <4>3, <5>1, <5>3, <6>1
          <5>. QED BY <4>1, <5>2, <5>3
        <4>5. z.candidates = F(c)!Suspects /\ F(c)!Suspects # <<>>
          BY <3>1, <3>3, <4>4
        <4>. QED BY <1>4, <3>1, <4>4, <4>5 DEF Right, F!Named
      <3>. QED BY <3>2, <3>3
    <2>. QED BY <2>2, <2>3
  <1>. QED BY <1>3, <1>4 DEF SearchCase

\* The look itself: the search is over, or pauses.
LEMMA SearchLooks ==
    ASSUME NEW c, SearchCase(c), SearchInv(c), f_at \in {"sending", "waiting"},
           NEW got \in BOOLEAN, got => f_waiter = "resolved", F(c)!Looks(got)
    PROVE  SearchInv(c)'
  <1>. PICK z : z = F(c)!Conclusion(got)
    OBVIOUS
  <1>. DEFINE r == [ok |-> TRUE, picg |-> z.picg, candidates |-> z.candidates, heard |-> f_seq # f_began]
  <1>1. /\ Right(c, r)
        /\ z.picg = None /\ z.candidates = <<>> => (f_seq = f_began /\ z.after = None) \/ Silent(c)
    BY SearchConcludes
  <1>2. /\ f_seq0' = f_seq /\ f_picg' = z.picg /\ f_reply_after' = z.after /\ f_candidates' = z.candidates
        /\ UNCHANGED <<f_i, f_replies, f_seq, f_began, f_nicknames>>
        /\ \/ F(c)!Ends(r)
           \/ /\ z.picg = None /\ z.candidates = <<>> /\ f_i # Len(c.targets)
              /\ f_at' = "pause" /\ UNCHANGED <<f_scanning, f_result, f_waiter>>
    BY DEF F!Looks
  <1>3. SearchTypes(c) /\ GoesOn(c) /\ Provoked(c) /\ F(c)!NamesTheRight /\ F(c)!NothingMissed
    BY DEF SearchInv
  <1>4. f_scanning \in {"s1", "s2"} /\ f_i \in 1 .. Len(c.targets) /\ DOMAIN f_result = {"s1", "s2"} /\ Len(c.targets) \in Nat
    BY <1>3, LenProperties DEF SearchTypes, GoesOn, SearchCase
  <1>5. CASE F(c)!Ends(r)
    <2>. HIDE DEF r
    <2>1. /\ f_result' = [f_result EXCEPT ![f_scanning] = r] /\ f_scanning' = None /\ f_at' = "idle" /\ f_waiter' = None
      BY <1>5 DEF F!Ends
    <2>2. DOMAIN f_result' = {"s1", "s2"} /\ \A s \in {"s1", "s2"} : f_result'[s] # None => Right(c, f_result'[s])
      BY <1>1, <1>3, <1>4, <2>1, SearchResults
    <2>3. (F(c)!NamesTheRight /\ F(c)!NothingMissed)'
      BY <2>2, SearchResultsNext
    <2>4. SearchTypes(c)'
      BY <1>2, <1>3, <2>1, <2>2 DEF SearchTypes
    <2>5. GoesOn(c)'
      BY <2>1 DEF GoesOn
    <2>6. Provoked(c)'
      BY <1>2, <1>3, <2>1, NoneAssumption DEF Provoked
    <2>. QED BY <2>3, <2>4, <2>5, <2>6 DEF SearchInv
  <1>6. CASE /\ z.picg = None /\ z.candidates = <<>> /\ f_i # Len(c.targets)
             /\ f_at' = "pause" /\ UNCHANGED <<f_scanning, f_result, f_waiter>>
    <2>1. (F(c)!NamesTheRight /\ F(c)!NothingMissed)'
      BY <1>3, <1>4, <1>6, SearchResults, SearchResultsNext
    <2>2. SearchTypes(c)'
      BY <1>2, <1>3, <1>6 DEF SearchTypes
    <2>3. GoesOn(c)'
      BY <1>1, <1>2, <1>4, <1>6, NoneAssumption DEF GoesOn, Silent
    <2>4. Provoked(c)'
      BY <1>2, <1>3, <1>6 DEF Provoked
    <2>. QED BY <2>1, <2>2, <2>3, <2>4 DEF SearchInv
  <1>. QED BY <1>2, <1>5, <1>6

LEMMA SearchInit ==
    ASSUME NEW c, F(c)!Init, SearchCase(c)
    PROVE  SearchInv(c)
  <1>1. Len(c.targets) \in Nat
    BY LenProperties DEF SearchCase
  <1>. QED BY <1>1, NoneAssumption DEF F!Init, SearchInv, SearchTypes, GoesOn, Provoked, F!NamesTheRight, F!NothingMissed

LEMMA SearchStep ==
    ASSUME NEW c, SearchCase(c), SearchInv(c), [F(c)!Next]_search
    PROVE  SearchInv(c)'
  <1>0. SearchTypes(c) /\ GoesOn(c) /\ Provoked(c) /\ F(c)!NamesTheRight /\ F(c)!NothingMissed
    BY DEF SearchInv
  <1>1. Len(c.targets) \in Nat \ {0} /\ DOMAIN c.targets = 1 .. Len(c.targets)
    BY EmptySeq, LenProperties DEF SearchCase
  <1>2. ASSUME UNCHANGED f_result PROVE (F(c)!NamesTheRight /\ F(c)!NothingMissed)'
    BY <1>0, <1>2, SearchResults, SearchResultsNext DEF SearchTypes
  <1>3. ASSUME NEW s \in {"s1", "s2"}, F(c)!Search(s) PROVE SearchInv(c)'
    <2>1. CASE f_scanning # None
      <3>1. /\ f_result' = [f_result EXCEPT ![s] = F(c)!Refused]
            /\ UNCHANGED <<f_scanning, f_at, f_i, f_seq0, f_began, f_picg, f_reply_after, f_candidates, f_waiter,
                           f_replies, f_seq, f_nicknames>>
        BY <1>3, <2>1 DEF F!Search
      <3>2. (SearchTypes(c) /\ GoesOn(c) /\ Provoked(c))'
        BY <1>0, <3>1, SearchRefused DEF SearchTypes, GoesOn, Provoked
      <3>. QED BY <3>1, <3>2, SearchRefused DEF SearchInv
    <2>2. CASE f_scanning = None
      <3>1. /\ f_scanning' = s /\ f_at' = "sending" /\ f_i' = 1 /\ f_seq0' = f_seq /\ f_began' = f_seq
            /\ f_waiter' = "pending" /\ f_picg' = None /\ f_reply_after' = None /\ f_candidates' = <<>>
            /\ UNCHANGED <<f_result, f_replies, f_seq, f_nicknames>>
        BY <1>3, <2>2 DEF F!Search
      <3>2. SearchTypes(c)'
        BY <1>0, <1>1, <3>1 DEF SearchTypes
      <3>3. (GoesOn(c) /\ Provoked(c))'
        BY <1>0, <3>1, NoneAssumption DEF GoesOn, Provoked, SearchTypes
      <3>. QED BY <1>2, <3>1, <3>2, <3>3 DEF SearchInv
    <2>. QED BY <2>1, <2>2
  <1>4. CASE F(c)!Delivered
    <2>1. /\ f_replies' \subseteq f_replies \cup {f_i}
          /\ f_replies' \subseteq f_replies \/ c.targets[f_i] \in c.answering
          /\ f_at = "sending"
          /\ UNCHANGED <<f_scanning, f_at, f_i, f_seq0, f_began, f_picg, f_reply_after, f_candidates, f_result,
                         f_waiter, f_seq, f_nicknames>>
      BY <1>4 DEF F!Delivered, F!Target
    <2>2. f_i \in 1 .. Len(c.targets)
      BY <1>0, <1>1, <2>1 DEF GoesOn, SearchTypes
    <2>3. SearchTypes(c)'
      BY <1>0, <2>1, <2>2 DEF SearchTypes
    <2>4. (GoesOn(c) /\ Provoked(c))'
      BY <1>0, <2>1 DEF GoesOn, Provoked
    <2>. QED BY <1>2, <2>1, <2>3, <2>4 DEF SearchInv
  <1>5. CASE F(c)!Accepted
    <2>1. /\ f_at = "sending" /\ f_at' = "waiting"
          /\ UNCHANGED <<f_scanning, f_i, f_seq0, f_began, f_picg, f_reply_after, f_candidates, f_result,
                         f_waiter, f_seq, f_nicknames, f_replies>>
      BY <1>5 DEF F!Accepted
    <2>2. (SearchTypes(c) /\ GoesOn(c) /\ Provoked(c))'
      BY <1>0, <2>1 DEF SearchTypes, GoesOn, Provoked
    <2>. QED BY <1>2, <2>1, <2>2 DEF SearchInv
  <1>6. CASE F(c)!NotAccepted \/ F(c)!WindowEnds
    BY <1>6, SearchLooks DEF F!NotAccepted, F!WindowEnds
  <1>7. CASE F(c)!Replied
    BY <1>7, SearchLooks DEF F!Replied
  <1>8. CASE F(c)!NotRegistered
    <2>1. /\ f_at = "sending" /\ f_result' = [f_result EXCEPT ![f_scanning] = F(c)!Refused]
          /\ f_scanning' = None /\ f_at' = "idle" /\ f_waiter' = None
          /\ UNCHANGED <<f_i, f_seq0, f_began, f_picg, f_reply_after, f_candidates, f_replies, f_seq, f_nicknames>>
      BY <1>8 DEF F!NotRegistered, F!Ends
    <2>2. f_scanning \in {"s1", "s2"}
      BY <1>0, <2>1 DEF GoesOn, SearchTypes
    <2>3. DOMAIN f_result' = {"s1", "s2"} /\ (F(c)!NamesTheRight /\ F(c)!NothingMissed)'
      BY <2>1, <2>2, SearchRefused
    <2>4. (SearchTypes(c) /\ GoesOn(c) /\ Provoked(c))'
      BY <1>0, <2>1, <2>3, NoneAssumption DEF SearchTypes, GoesOn, Provoked
    <2>. QED BY <2>3, <2>4 DEF SearchInv
  <1>9. CASE F(c)!NextAddress
    <2>1. /\ f_at = "pause" /\ f_at' = "sending" /\ f_i' = f_i + 1 /\ f_waiter' = "pending"
          /\ UNCHANGED <<f_scanning, f_seq0, f_began, f_picg, f_reply_after, f_candidates, f_result, f_replies,
                         f_seq, f_nicknames>>
      BY <1>9 DEF F!NextAddress
    <2>2. f_i \in 1 .. Len(c.targets) - 1 /\ f_i' \in 2 .. Len(c.targets) /\ f_i' - 1 = f_i
      BY <1>0, <1>1, <2>1 DEF GoesOn, SearchTypes
    <2>3. SearchTypes(c)'
      BY <1>0, <1>1, <2>1, <2>2 DEF SearchTypes
    <2>4. GoesOn(c)'
      BY <1>0, <1>1, <2>1, <2>2 DEF GoesOn, Silent
    <2>5. Provoked(c)'
      BY <1>0, <2>1, <2>2 DEF Provoked
    <2>. QED BY <1>2, <2>1, <2>3, <2>4, <2>5 DEF SearchInv
  <1>10. CASE F(c)!Reply
    <2>1. PICK j \in f_replies :
            /\ F(c)!MayCome(j) /\ f_replies' = f_replies \ {j} /\ f_seq' = f_seq + 1
            /\ f_nicknames' = IF c.nicks THEN c.picg ELSE f_nicknames
            /\ f_waiter' = IF f_waiter = "pending" THEN "resolved" ELSE f_waiter
            /\ UNCHANGED <<f_scanning, f_at, f_i, f_seq0, f_began, f_picg, f_reply_after, f_candidates, f_result>>
      BY <1>10 DEF F!Reply, F!Resolved, F!search
    <2>2. SearchTypes(c)'
      BY <1>0, <2>1 DEF SearchTypes
    <2>3. GoesOn(c)'
      BY <1>0, <2>1, NoneAssumption DEF GoesOn, Silent
    <2>4. ~c.nicks /\ f_at # "idle" => c.targets[f_i] \in c.answering
      BY <1>0, <2>1 DEF F!MayCome, SearchCase, Provoked
    <2>5. f_seq' > 0 /\ f_seq' # 0
      BY <1>0, <2>1 DEF SearchTypes
    <2>6. Provoked(c)'
      BY <1>0, <2>1, <2>4, <2>5 DEF Provoked
    <2>. QED BY <1>2, <2>1, <2>2, <2>3, <2>6 DEF SearchInv
  <1>11. CASE UNCHANGED search
    BY <1>0, <1>2, <1>11 DEF search, SearchInv, SearchTypes, GoesOn, Provoked
  <1>. QED BY <1>3, <1>4, <1>5, <1>6, <1>7, <1>8, <1>9, <1>10, <1>11 DEF F!Next

\* What MCHub states of the search.
LEMMA SearchOk ==
    ASSUME NEW c, SearchCase(c), SearchInv(c)
    PROVE  F(c)!TypeOK /\ F(c)!SearchEnds /\ F(c)!NamesTheRight /\ F(c)!NothingMissed
  <1>0. SearchTypes(c) /\ GoesOn(c) /\ F(c)!NamesTheRight /\ F(c)!NothingMissed
    BY DEF SearchInv
  <1>1. F(c)!TypeOK
    BY <1>0 DEF SearchTypes, F!TypeOK
  <1>2. F(c)!SearchEnds
    BY <1>0 DEF GoesOn, F!SearchEnds
  <1>. QED BY <1>0, <1>1, <1>2

-----------------------------------------------------------------------------
(* PlantModes: the proofs.                                                   *)

\* What ModesAssumption says of each case.
ModeCase(c) == "q1" \notin c.users /\ c.configured \in BOOLEAN

LEMMA ModesInit == ASSUME NEW c, ModeCase(c), M(c)!Init PROVE ModesInv(c)
  <1>1. DOMAIN m_wire = {} /\ m_wire = <<>> /\ m_news = <<>>
    BY DEF M!Init
  <1>6. m_wire \in Seq(Sendings(c)) /\ m_news \in Seq(ModeNews)
    BY <1>1, EmptySeq
  <1>2. ModeTypes(c)
    BY <1>6 DEF M!Init, ModeTypes
  <1>3. ModeOps(c) /\ \A t \in c.users \cup {"q1"} : m_op[t].at = "unused"
    BY DEF M!Init, M!Tasks, M!Unused, ModeOps, OpOf
  <1>4. PendingInv(c)
    BY <1>3 DEF M!Init, PendingInv
  <1>5. LastWord /\ WireInv(c) /\ AnsweredInv /\ OneInv(c)
    BY <1>1, <1>3, NoneAssumption DEF M!Init, LastWord, WireInv, AnsweredInv, OneInv
  <1>. QED BY <1>2, <1>3, <1>4, <1>5 DEF ModesInv

\* A task moves on, and the others stay where they stand.
LEMMA TaskMoves ==
    ASSUME NEW c, ModeOps(c), NEW t \in c.users \cup {"q1"}, NEW v, OpOf(t, v), m_op' = [m_op EXCEPT ![t] = v]
    PROVE  /\ ModeOps(c)' /\ m_op'[t] = v
           /\ \A s \in c.users \cup {"q1"} : s # t => m_op'[s] = m_op[s]
  <1>1. /\ DOMAIN m_op' = c.users \cup {"q1"} /\ m_op'[t] = v
        /\ \A s \in c.users \cup {"q1"} : s # t => m_op'[s] = m_op[s]
    BY DEF ModeOps
  <1>2. \A s \in c.users \cup {"q1"} : OpOf(s, m_op'[s])
    BY <1>1 DEF ModeOps
  <1>. QED BY <1>1, <1>2 DEF ModeOps, OpOf

\* A message appended, or a queue without its head.
LEMMA NewsTold ==
    ASSUME NEW on \in BOOLEAN, NEW kind \in {"reply", "announced"}, m_news \in Seq(ModeNews),
           m_news' = Append(m_news, [kind |-> kind, on |-> on])
    PROVE  m_news' \in Seq(ModeNews) /\ m_news' # <<>> /\ m_news'[Len(m_news')].on = on
  <1>. PICK x \in ModeNews : x = [kind |-> kind, on |-> on]
    BY DEF ModeNews
  <1>1. m_news' = Append(m_news, x)
    OBVIOUS
  <1>2. m_news' \in Seq(ModeNews) /\ Len(m_news') = Len(m_news) + 1 /\ m_news'[Len(m_news) + 1] = x /\ Len(m_news) \in Nat
    BY <1>1, AppendAt
  <1>3. m_news' # <<>>
    BY <1>2, EmptySeq
  <1>. QED BY <1>2, <1>3

\* The panel reads a command or a question.
LEMMA ModesRead == ASSUME NEW c, ModeCase(c), ModesInv(c), M(c)!PanelReads PROVE ModesInv(c)'
  <1>0. ModeTypes(c) /\ ModeOps(c) /\ PendingInv(c) /\ m_wire # <<>> /\ m_wire \in Seq(Sendings(c)) /\ m_news \in Seq(ModeNews)
        /\ m_tab \in BOOLEAN
    BY DEF ModesInv, M!PanelReads, ModeTypes
  <1>. PICK e \in Sendings(c) : e = Head(m_wire)
    BY <1>0, TailAt
  <1>1. /\ m_wire' = Tail(m_wire) /\ m_answered' = m_answered \cup {e.by}
        /\ m_tab' = IF c.obeys /\ e.what # "ask" THEN e.what = "on" ELSE m_tab
        /\ m_news' = IF e.what = "ask" THEN Append(m_news, [kind |-> "reply", on |-> m_tab])
                     ELSE IF m_tab' # m_tab THEN Append(m_news, [kind |-> "announced", on |-> m_tab']) ELSE m_news
        /\ UNCHANGED <<m_lost, m_voicemail, m_mode_seq, m_away_enabled, m_init_status_sent, m_op, m_pending,
                       m_restored, m_added, m_saved, m_told, m_heard, m_crossed>>
    BY DEF M!PanelReads, M!Tells, M!hub, M!switch, M!history
  <1>2. m_tab' \in BOOLEAN
    BY <1>0, <1>1
  <1>3. \/ m_news' = m_news /\ m_tab' = m_tab /\ e.what # "ask"
        \/ m_news' # <<>> /\ m_news'[Len(m_news')].on = m_tab' /\ m_news' \in Seq(ModeNews)
    <2>1. CASE e.what = "ask"
      <3>1. m_tab' = m_tab /\ m_news' = Append(m_news, [kind |-> "reply", on |-> m_tab])
        BY <1>1, <2>1
      <3>. QED BY <1>0, <3>1, NewsTold
    <2>2. CASE e.what # "ask" /\ m_tab' # m_tab
      <3>1. m_news' = Append(m_news, [kind |-> "announced", on |-> m_tab'])
        BY <1>1, <2>2
      <3>. QED BY <1>0, <1>2, <3>1, NewsTold
    <2>3. CASE e.what # "ask" /\ m_tab' = m_tab
      BY <1>1, <2>3
    <2>. QED BY <2>1, <2>2, <2>3
  <1>4. m_wire' \in Seq(Sendings(c)) /\ m_news' \in Seq(ModeNews)
    BY <1>0, <1>1, <1>3, TailAt
  <1>5. ModeTypes(c)'
    BY <1>0, <1>1, <1>2, <1>4 DEF ModeTypes
  <1>6. (ModeOps(c) /\ PendingInv(c))'
    BY <1>0, <1>1 DEF ModeOps, OpOf, PendingInv
  <1>7. ASSUME Sound(c) PROVE (LastWord /\ WireInv(c) /\ AnsweredInv /\ OneInv(c))'
    <2>0. LastWord /\ WireInv(c) /\ AnsweredInv /\ OneInv(c)
      BY <1>7 DEF ModesInv
    <2>1. /\ 1 \in DOMAIN m_wire /\ m_wire[1] = e /\ DOMAIN m_wire \subseteq Nat /\ DOMAIN m_wire' \subseteq Nat \ {0}
          /\ \A n \in DOMAIN m_wire' : n + 1 \in DOMAIN m_wire /\ m_wire'[n] = m_wire[n + 1]
      BY <1>0, <1>1, TailAt
    <2>2. /\ m_op[e.by].at # "unused" /\ e.what # "on" /\ e.by \in c.users \cup {"q1"}
          /\ m_op[e.by].at = "sent" => e.what = "off"
          /\ m_op[e.by].at = "asking" => e.what = "ask"
      BY <2>0, <2>1 DEF WireInv, Sendings
    <2>3. e.what # "ask" => m_tab' = FALSE
      BY <1>1, <1>7, <2>2 DEF Sound
    <2>4. LastWord'
      BY <1>1, <1>3, <2>0 DEF LastWord
    <2>5. WireInv(c)'
      <3>1. \A n \in DOMAIN m_wire' : m_wire'[n].by # e.by
        BY <2>0, <2>1 DEF WireInv
      <3>2. \A i, j \in DOMAIN m_wire' : m_wire'[i].by = m_wire'[j].by => i = j
        <4>. SUFFICES ASSUME NEW i \in DOMAIN m_wire', NEW j \in DOMAIN m_wire', m_wire'[i].by = m_wire'[j].by PROVE i = j
          OBVIOUS
        <4>1. i + 1 = j + 1
          BY <2>0, <2>1 DEF WireInv
        <4>. QED BY <2>1, <4>1
      <3>3. \A t \in m_answered' : t \in c.users \cup {"q1"} /\ m_op'[t].at # "unused"
        BY <1>1, <2>0, <2>2 DEF WireInv
      <3>4. \A n \in DOMAIN m_wire' : /\ m_op'[m_wire'[n].by].at # "unused" /\ m_wire'[n].by \notin m_answered'
                                      /\ m_wire'[n].what # "on"
                                      /\ m_op'[m_wire'[n].by].at = "sent" => m_wire'[n].what = "off"
                                      /\ m_op'[m_wire'[n].by].at = "asking" => m_wire'[n].what = "ask"
        BY <1>1, <2>0, <2>1, <3>1 DEF WireInv
      <3>. QED BY <3>2, <3>3, <3>4 DEF WireInv
    <2>6. AnsweredInv'
      <3>1. CASE e.what = "ask"
        BY <1>3, <3>1 DEF AnsweredInv
      <3>2. CASE e.what # "ask"
        <4>1. m_op[e.by].at # "asking"
          BY <2>2, <3>2
        <4>2. m_news' = <<>> => m_news = <<>>
          BY <1>3
        <4>. QED BY <1>1, <2>0, <4>1, <4>2 DEF AnsweredInv
      <3>. QED BY <3>1, <3>2
    <2>7. OneInv(c)'
      <3>1. m_tab' => m_tab /\ e.what = "ask"
        BY <1>1, <1>2, <2>3
      <3>2. m_news' = <<>> => m_news = <<>>
        BY <1>3
      <3>3. \A u \in c.users : m_op[u].at = "sent" /\ u \in m_answered' /\ e.what = "ask" => u \in m_answered
        BY <1>1, <2>2
      <3>. QED BY <1>1, <2>0, <3>1, <3>2, <3>3 DEF OneInv
    <2>. QED BY <2>4, <2>5, <2>6, <2>7
  <1>. QED BY <1>5, <1>6, <1>7 DEF ModesInv, Sound

\* Somebody turns the panel's voicemail, or a message gets lost.
LEMMA ModesHand == ASSUME NEW c, ModeCase(c), ModesInv(c), M(c)!Hand \/ M(c)!Lose PROVE ModesInv(c)'
  <1>0. ModeTypes(c) /\ ModeOps(c) /\ PendingInv(c) /\ m_wire \in Seq(Sendings(c)) /\ m_news \in Seq(ModeNews) /\ m_tab \in BOOLEAN
        /\ m_crossed \in BOOLEAN
    BY DEF ModesInv, ModeTypes
  <1>1. UNCHANGED <<m_voicemail, m_mode_seq, m_away_enabled, m_init_status_sent, m_op, m_pending,
                    m_restored, m_added, m_saved, m_told, m_heard, m_answered>>
    BY DEF M!Hand, M!Lose, M!hub, M!switch, M!history
  <1>2. (ModeOps(c) /\ PendingInv(c))'
    BY <1>0, <1>1 DEF ModeOps, OpOf, PendingInv
  <1>3. CASE M(c)!Hand
    <2>1. /\ m_tab' = ~m_tab /\ m_news' = Append(m_news, [kind |-> "announced", on |-> m_tab'])
          /\ m_crossed' = (m_crossed \/ \E u \in c.users : m_op[u] \notin {M(c)!Unused, M(c)!Over})
          /\ UNCHANGED <<m_wire, m_lost>>
      BY <1>3 DEF M!Hand, M!Tells
    <2>2. m_tab' \in BOOLEAN /\ m_crossed' \in BOOLEAN
      BY <1>0, <2>1
    <2>3. m_news' \in Seq(ModeNews) /\ m_news' # <<>> /\ m_news'[Len(m_news')].on = m_tab'
      BY <1>0, <2>1, <2>2, NewsTold
    <2>4. ModeTypes(c)'
      BY <1>0, <1>1, <2>1, <2>2, <2>3 DEF ModeTypes
    <2>5. ASSUME Sound(c) PROVE (LastWord /\ WireInv(c) /\ AnsweredInv /\ OneInv(c))'
      <3>0. LastWord /\ WireInv(c) /\ AnsweredInv /\ OneInv(c)
        BY <2>5 DEF ModesInv
      <3>1. (LastWord /\ AnsweredInv)'
        BY <2>1, <2>3, <3>0 DEF LastWord, AnsweredInv
      <3>2. WireInv(c)'
        BY <1>1, <2>1, <3>0 DEF WireInv
      <3>3. ~m_crossed' => \A u \in c.users : m_op[u].at \notin {"sent", "asking"}
        <4>1. \A u \in c.users : m_op[u].at \in {"sent", "asking"} => m_op[u] \notin {M(c)!Unused, M(c)!Over}
          BY DEF M!Unused, M!Over
        <4>. QED BY <1>0, <2>1, <4>1
      <3>4. OneInv(c)'
        BY <1>1, <2>3, <3>3 DEF OneInv
      <3>. QED BY <3>1, <3>2, <3>4
    <2>. QED BY <1>2, <2>4, <2>5 DEF ModesInv, Sound
  <1>4. CASE M(c)!Lose
    <2>1. /\ m_lost < c.lost /\ m_lost' = m_lost + 1
          /\ \/ m_wire # <<>> /\ m_wire' = Tail(m_wire) /\ UNCHANGED m_news
             \/ m_news # <<>> /\ m_news' = Tail(m_news) /\ UNCHANGED m_wire
          /\ UNCHANGED <<m_tab, m_crossed>>
      BY <1>4 DEF M!Lose, M!history
    <2>2. m_wire' \in Seq(Sendings(c)) /\ m_news' \in Seq(ModeNews)
      BY <1>0, <2>1, TailAt
    <2>3. ModeTypes(c)'
      BY <1>0, <1>1, <2>1, <2>2 DEF ModeTypes
    <2>4. ~Sound(c)
      BY <2>1 DEF ModesInv, Sound, LastWord
    <2>. QED BY <1>2, <2>3, <2>4 DEF ModesInv, Sound
  <1>. QED BY <1>3, <1>4

\* The hub is told the mode: what was supposed gives way to it.
LEMMA ModesTold ==
    ASSUME NEW c, ModeCase(c), ModesInv(c), M(c)!HandleMessage \/ M(c)!InitStatusReply
    PROVE  ModesInv(c)'
  <1>0. ModeTypes(c) /\ ModeOps(c) /\ PendingInv(c) /\ m_news \in Seq(ModeNews) /\ m_news # <<>>
    BY DEF ModesInv, ModeTypes, M!HandleMessage, M!InitStatusReply, M!Told
  <1>. PICK on \in BOOLEAN : on = Head(m_news).on
    <2>1. Head(m_news) \in ModeNews
      BY <1>0, TailAt
    <2>. QED BY <2>1 DEF ModeNews
  <1>1. /\ m_news' = Tail(m_news) /\ m_voicemail' = on /\ m_mode_seq' = m_mode_seq + 1
        /\ m_away_enabled' = (m_away_enabled /\ ~on) /\ m_told' = m_told \cup {on} /\ m_heard' = on
        /\ UNCHANGED <<m_tab, m_wire, m_lost, m_init_status_sent, m_restored, m_added, m_saved, m_crossed,
                       m_answered, m_op>>
    BY DEF M!HandleMessage, M!InitStatusReply, M!Told, M!OneOfTwo
  <1>2. m_pending' = IF m_added THEN M(c)!Kept(m_pending, m_voicemail', m_mode_seq') ELSE m_pending
    BY DEF M!HandleMessage, M!InitStatusReply, M!Told, M!StateChange
  <1>3. m_pending' = None
    <2>1. CASE m_pending = None
      BY <1>2, <2>1 DEF M!Kept, M!Answers
    <2>2. CASE m_pending # None
      <3>1. m_added /\ m_pending.seq <= m_mode_seq /\ m_pending.seq \in Nat /\ m_mode_seq \in Nat
        BY <1>0, <2>2 DEF PendingInv, ModeTypes
      <3>2. m_voicemail' # None /\ m_mode_seq' # m_pending.seq
        BY <1>1, <3>1, NoneAssumption
      <3>. QED BY <1>2, <2>2, <3>1, <3>2 DEF M!Kept, M!Answers
    <2>. QED BY <2>1, <2>2
  <1>4. /\ m_news' \in Seq(ModeNews) /\ Len(m_news') = Len(m_news) - 1 /\ Len(m_news) \in Nat \ {0}
        /\ m_news[1] = Head(m_news)
        /\ \A n \in 1 .. Len(m_news) - 1 : m_news'[n] = m_news[n + 1]
    BY <1>0, <1>1, TailAt
  <1>5. ModeTypes(c)'
    <2>1. m_away_enabled' \in BOOLEAN
      BY <1>1
    <2>2. m_mode_seq' \in Nat
      BY <1>0, <1>1 DEF ModeTypes
    <2>. QED BY <1>0, <1>1, <1>3, <1>4, <2>1, <2>2 DEF ModeTypes
  <1>6. (ModeOps(c) /\ PendingInv(c))'
    <2>1. ModeOps(c)'
      BY <1>0, <1>1 DEF ModeOps, OpOf
    <2>2. \A u \in c.users : m_op[u].at \in {"sent", "asking"} =>
             m_added /\ m_op[u].seq = m_op[u].from /\ m_op[u].seq <= m_mode_seq + 1
      <3>. SUFFICES ASSUME NEW u \in c.users, m_op[u].at \in {"sent", "asking"}
                    PROVE  m_added /\ m_op[u].seq = m_op[u].from /\ m_op[u].seq <= m_mode_seq + 1
        OBVIOUS
      <3>1. m_op[u].seq \in Nat
        BY <1>0 DEF ModeOps, OpOf, ModeCase
      <3>. QED BY <1>0, <3>1 DEF PendingInv, ModeTypes
    <2>3. PendingInv(c)'
      BY <1>0, <1>1, <1>3, <2>2, NoneAssumption DEF PendingInv
    <2>. QED BY <2>1, <2>3
  <1>7. ASSUME Sound(c) PROVE (LastWord /\ WireInv(c) /\ AnsweredInv /\ OneInv(c))'
    <2>0. LastWord /\ WireInv(c) /\ AnsweredInv /\ OneInv(c)
      BY <1>7 DEF ModesInv
    <2>1. LastWord'
      <3>1. CASE Len(m_news) = 1
        <4>1. m_news' = <<>> /\ on = m_tab
          BY <1>0, <1>4, <2>0, <3>1, EmptySeq DEF LastWord
        <4>. QED BY <1>1, <2>0, <4>1 DEF LastWord
      <3>2. CASE Len(m_news) # 1
        <4>1. /\ Len(m_news') \in 1 .. Len(m_news) - 1 /\ Len(m_news') + 1 = Len(m_news)
              /\ m_news' # <<>>
          BY <1>4, <3>2, EmptySeq
        <4>2. m_news'[Len(m_news')].on = m_tab
          BY <1>0, <1>4, <2>0, <4>1 DEF LastWord
        <4>. QED BY <1>1, <2>0, <4>1, <4>2 DEF LastWord
      <3>. QED BY <3>1, <3>2
    <2>2. WireInv(c)'
      BY <1>1, <2>0 DEF WireInv
    <2>3. AnsweredInv'
      BY <1>1, NoneAssumption DEF AnsweredInv
    <2>4. OneInv(c)'
      BY <1>1, <2>0 DEF OneInv
    <2>. QED BY <2>1, <2>2, <2>3, <2>4
  <1>. QED BY <1>5, <1>6, <1>7 DEF ModesInv, Sound

\* A task sends its next message when its last one has been read, or is over.
LEMMA WireMoves ==
    ASSUME NEW c, WireInv(c), m_wire \in Seq(Sendings(c)), NEW t \in c.users \cup {"q1"},
           m_answered' \subseteq m_answered \ {t},
           \A s \in c.users \cup {"q1"} : s # t => m_op'[s] = m_op[s],
           \/ m_wire' = m_wire /\ m_op'[t].at = "over"
           \/ /\ m_op[t].at = "unused" \/ t \in m_answered
              /\ \/ m_wire' = Append(m_wire, [by |-> t, what |-> "off"]) /\ m_op'[t].at = "sent"
                 \/ m_wire' = Append(m_wire, [by |-> t, what |-> "ask"]) /\ m_op'[t].at = "asking"
    PROVE  WireInv(c)'
  <1>1. \A n \in DOMAIN m_wire : m_wire[n].by \in c.users \cup {"q1"}
    <2>1. \A n \in DOMAIN m_wire : m_wire[n] \in Sendings(c)
      BY ElementOfSeq
    <2>. QED BY <2>1 DEF Sendings
  <1>2. \A s \in m_answered' : s \in c.users \cup {"q1"} /\ m_op'[s].at # "unused"
    BY DEF WireInv
  <1>3. CASE m_wire' = m_wire /\ m_op'[t].at = "over"
    <2>1. \A n \in DOMAIN m_wire : m_op'[m_wire[n].by] = m_op[m_wire[n].by] \/ m_wire[n].by = t
      BY <1>1
    <2>2. \A n \in DOMAIN m_wire' : /\ m_op'[m_wire'[n].by].at # "unused" /\ m_wire'[n].by \notin m_answered'
                                    /\ m_wire'[n].what # "on"
                                    /\ m_op'[m_wire'[n].by].at = "sent" => m_wire'[n].what = "off"
                                    /\ m_op'[m_wire'[n].by].at = "asking" => m_wire'[n].what = "ask"
      BY <1>3, <2>1 DEF WireInv
    <2>. QED BY <1>2, <1>3, <2>2 DEF WireInv
  <1>4. CASE /\ m_op[t].at = "unused" \/ t \in m_answered
             /\ \/ m_wire' = Append(m_wire, [by |-> t, what |-> "off"]) /\ m_op'[t].at = "sent"
                \/ m_wire' = Append(m_wire, [by |-> t, what |-> "ask"]) /\ m_op'[t].at = "asking"
    <2>. PICK x \in Sendings(c) : /\ m_wire' = Append(m_wire, x) /\ x.by = t
                                  /\ (x.what = "off" /\ m_op'[t].at = "sent") \/ (x.what = "ask" /\ m_op'[t].at = "asking")
      BY <1>4 DEF Sendings
    <2>. PICK L \in Nat : L = Len(m_wire)
      BY LenProperties
    <2>1. /\ DOMAIN m_wire' = 1 .. (L + 1) /\ DOMAIN m_wire = 1 .. L
          /\ \A n \in DOMAIN m_wire : m_wire'[n] = m_wire[n]
          /\ m_wire'[L + 1] = x
      BY AppendAt
    <2>2. \A n \in DOMAIN m_wire : m_wire[n].by # t
      BY <1>4 DEF WireInv
    <2>3. \A n \in DOMAIN m_wire' : (n \in DOMAIN m_wire /\ m_wire'[n] = m_wire[n]) \/ (n = L + 1 /\ m_wire'[n] = x)
      BY <2>1
    <2>4. \A n \in DOMAIN m_wire : m_op'[m_wire[n].by] = m_op[m_wire[n].by]
      BY <1>1, <2>2
    <2>5. \A n \in DOMAIN m_wire' : /\ m_op'[m_wire'[n].by].at # "unused" /\ m_wire'[n].by \notin m_answered'
                                    /\ m_wire'[n].what # "on"
                                    /\ m_op'[m_wire'[n].by].at = "sent" => m_wire'[n].what = "off"
                                    /\ m_op'[m_wire'[n].by].at = "asking" => m_wire'[n].what = "ask"
      <3>. SUFFICES ASSUME NEW n \in DOMAIN m_wire'
                    PROVE  /\ m_op'[m_wire'[n].by].at # "unused" /\ m_wire'[n].by \notin m_answered'
                           /\ m_wire'[n].what # "on"
                           /\ m_op'[m_wire'[n].by].at = "sent" => m_wire'[n].what = "off"
                           /\ m_op'[m_wire'[n].by].at = "asking" => m_wire'[n].what = "ask"
        OBVIOUS
      <3>1. CASE n \in DOMAIN m_wire /\ m_wire'[n] = m_wire[n]
        BY <2>4, <3>1 DEF WireInv
      <3>2. CASE n = L + 1 /\ m_wire'[n] = x
        BY <3>2
      <3>. QED BY <2>3, <3>1, <3>2
    <2>6. \A i, j \in DOMAIN m_wire' : m_wire'[i].by = m_wire'[j].by => i = j
      BY <2>2, <2>3 DEF WireInv
    <2>. QED BY <1>2, <2>5, <2>6 DEF WireInv
  <1>. QED BY <1>3, <1>4

\* What is left of the command supposed, when nothing was told.
LEMMA PendingKept ==
    ASSUME NEW c, M(c)!StateChange, UNCHANGED <<m_voicemail, m_mode_seq>>
    PROVE  m_pending' = m_pending \/ m_pending' = None
  BY DEF M!StateChange, M!Kept

\* The switch is used.
LEMMA ModesUse == ASSUME NEW c, ModeCase(c), ModesInv(c), NEW u \in c.users, M(c)!Use(u) PROVE ModesInv(c)'
  <1>0. ModeTypes(c) /\ ModeOps(c) /\ PendingInv(c) /\ m_wire \in Seq(Sendings(c)) /\ m_mode_seq \in Nat
    BY DEF ModesInv, ModeTypes
  <1>. PICK wish \in {"on", "off"} :
         /\ m_added /\ m_op[u] = M(c)!Unused /\ m_away_enabled' = (m_away_enabled /\ wish # "off")
         /\ m_wire' = Append(m_wire, [by |-> u, what |-> M(c)!Command(wish)])
         /\ m_op' = [m_op EXCEPT ![u] = [at |-> "sent", wish |-> wish, seq |-> m_mode_seq, from |-> m_mode_seq]]
         /\ UNCHANGED <<m_tab, m_news, m_lost, m_voicemail, m_mode_seq, m_init_status_sent, m_restored, m_added,
                        m_saved, m_told, m_heard, m_crossed, m_answered>>
    BY DEF M!Use, M!Send, M!history
  <1>1. m_pending' = m_pending \/ m_pending' = None
    BY PendingKept DEF M!Use
  <1>2. M(c)!Command(wish) \in {"on", "off"} /\ (Sound(c) => M(c)!Command(wish) = "off")
    BY DEF M!Command, Sound
  <1>. DEFINE v == [at |-> "sent", wish |-> wish, seq |-> m_mode_seq, from |-> m_mode_seq]
  <1>3. OpOf(u, v) /\ v.at = "sent" /\ v.seq = m_mode_seq /\ v.from = m_mode_seq
    BY <1>0 DEF OpOf, ModeCase
  <1>4. /\ ModeOps(c)' /\ m_op'[u] = v
        /\ \A s \in c.users \cup {"q1"} : s # u => m_op'[s] = m_op[s]
    <2>. HIDE DEF v
    <2>1. m_op' = [m_op EXCEPT ![u] = v] /\ u \in c.users \cup {"q1"}
      BY DEF v
    <2>. QED BY <1>0, <1>3, <2>1, TaskMoves
  <1>5. ModeTypes(c)'
    <2>1. [by |-> u, what |-> M(c)!Command(wish)] \in Sendings(c)
      BY <1>2 DEF Sendings
    <2>2. m_wire' \in Seq(Sendings(c))
      BY <1>0, <2>1, AppendAt
    <2>. QED BY <1>0, <1>1, <2>2 DEF ModeTypes
  <1>6. PendingInv(c)'
    BY <1>0, <1>1, <1>3, <1>4 DEF PendingInv
  <1>7. ASSUME Sound(c) PROVE (LastWord /\ WireInv(c) /\ AnsweredInv /\ OneInv(c))'
    <2>0. LastWord /\ WireInv(c) /\ AnsweredInv /\ OneInv(c)
      BY <1>7 DEF ModesInv
    <2>1. m_op[u].at = "unused" /\ u \notin m_answered
      BY <2>0 DEF WireInv, M!Unused
    <2>2. WireInv(c)'
      BY <1>0, <1>2, <1>3, <1>4, <1>7, <2>0, <2>1, WireMoves
    <2>3. \A s \in m_answered : m_op'[s] = m_op[s]
      BY <1>4, <2>0, <2>1 DEF WireInv
    <2>4. (LastWord /\ AnsweredInv)'
      BY <2>0, <2>3 DEF LastWord, AnsweredInv
    <2>5. OneInv(c)'
      BY <1>3, <1>4, <2>0, <2>1 DEF OneInv
    <2>. QED BY <2>2, <2>4, <2>5
  <1>. QED BY <1>4, <1>5, <1>6, <1>7 DEF ModesInv, Sound

\* The command is answered: its value is supposed, and the mode is asked for.
LEMMA ModesAccepted == ASSUME NEW c, ModeCase(c), ModesInv(c), NEW u \in c.users, M(c)!Accepted(u) PROVE ModesInv(c)'
  <1>0. ModeTypes(c) /\ ModeOps(c) /\ PendingInv(c) /\ m_wire \in Seq(Sendings(c)) /\ m_mode_seq \in Nat
    BY DEF ModesInv, ModeTypes
  <1>1. /\ m_op[u].at = "sent" /\ u \in m_answered
        /\ m_pending' = M(c)!Kept(M(c)!Supposed(u), m_voicemail, m_mode_seq)
        /\ m_answered' = m_answered \ {u}
        /\ m_wire' = Append(m_wire, [by |-> u, what |-> "ask"])
        /\ m_op' = [m_op EXCEPT ![u].at = "asking"]
        /\ UNCHANGED <<m_tab, m_news, m_lost, m_voicemail, m_mode_seq, m_away_enabled, m_init_status_sent, m_restored,
                       m_added, m_saved, m_told, m_heard, m_crossed>>
    BY DEF M!Accepted, M!Sent, M!Send, M!hub, M!history
  <1>2. m_op[u] \in [at : {"sent", "asking"}, wish : {"on", "off"}, seq : Nat, from : Nat]
    BY <1>0, <1>1 DEF ModeOps, OpOf
  <1>. PICK v : v = [m_op[u] EXCEPT !.at = "asking"]
    OBVIOUS
  <1>3. OpOf(u, v) /\ v.at = "asking" /\ v.seq = m_op[u].seq /\ v.from = m_op[u].from
    BY <1>2 DEF OpOf, ModeCase
  <1>4. /\ ModeOps(c)' /\ m_op'[u] = v
        /\ \A s \in c.users \cup {"q1"} : s # u => m_op'[s] = m_op[s]
    <2>1. m_op' = [m_op EXCEPT ![u] = v]
      BY <1>1
    <2>2. u \in c.users \cup {"q1"} /\ ModeOps(c) /\ OpOf(u, v)
      BY <1>0, <1>3
    <2>. QED BY <2>1, <2>2, TaskMoves
  <1>5. /\ m_added /\ m_op[u].seq = m_op[u].from /\ m_op[u].seq <= m_mode_seq
    BY <1>0, <1>1 DEF PendingInv
  <1>6. \/ m_pending' = None
        \/ /\ m_pending' \in [wanted : BOOLEAN, seq : Nat, from : Nat, due : BOOLEAN]
           /\ m_pending'.seq = m_op[u].seq /\ m_pending'.from = m_op[u].from
           /\ m_voicemail # None => m_mode_seq = m_op[u].seq
    <2>. DEFINE p == M(c)!Supposed(u)
    <2>1. p \in [wanted : BOOLEAN, seq : Nat, from : Nat, due : BOOLEAN] /\ p.seq = m_op[u].seq /\ p.from = m_op[u].from
      BY <1>2 DEF M!Supposed
    <2>2. p # None
      BY <2>1, NoneAssumption
    <2>. HIDE DEF p
    <2>3. m_pending' = IF p # None /\ m_voicemail # None /\ m_mode_seq # p.seq THEN None ELSE p
      BY <1>1 DEF M!Kept, M!Answers, p
    <2>. QED BY <2>1, <2>2, <2>3
  <1>7. ModeTypes(c)'
    <2>1. [by |-> u, what |-> "ask"] \in Sendings(c)
      BY DEF Sendings
    <2>2. m_wire' \in Seq(Sendings(c))
      BY <1>0, <1>1, <2>1, AppendAt
    <2>3. m_pending' = None \/ m_pending' \in [wanted : BOOLEAN, seq : Nat, from : Nat, due : BOOLEAN]
      BY <1>6
    <2>. QED BY <1>0, <1>1, <2>2, <2>3 DEF ModeTypes
  <1>8. PendingInv(c)'
    <2>1. m_pending' # None => /\ m_added' /\ m_pending'.seq = m_pending'.from /\ m_pending'.seq <= m_mode_seq'
                               /\ m_voicemail' # None => m_mode_seq' = m_pending'.seq
      BY <1>1, <1>5, <1>6
    <2>2. \A s \in c.users : m_op'[s].at \in {"sent", "asking"} =>
             m_added' /\ m_op'[s].seq = m_op'[s].from /\ m_op'[s].seq <= m_mode_seq'
      BY <1>0, <1>1, <1>3, <1>4, <1>5 DEF PendingInv
    <2>. QED BY <1>0, <1>1, <2>1, <2>2 DEF PendingInv
  <1>9. ASSUME Sound(c) PROVE (LastWord /\ WireInv(c) /\ AnsweredInv /\ OneInv(c))'
    <2>0. LastWord /\ WireInv(c) /\ AnsweredInv /\ OneInv(c)
      BY <1>9 DEF ModesInv
    <2>2. WireInv(c)'
      BY <1>0, <1>1, <1>3, <1>4, <2>0, WireMoves
    <2>3. \A s \in m_answered' : s \in m_answered /\ m_op'[s] = m_op[s]
      BY <1>1, <1>4, <2>0 DEF WireInv
    <2>4. (LastWord /\ AnsweredInv)'
      BY <1>1, <2>0, <2>3 DEF LastWord, AnsweredInv
    <2>5. OneInv(c)'
      BY <1>1, <1>3, <1>4, <2>0 DEF OneInv
    <2>. QED BY <2>2, <2>4, <2>5
  <1>. QED BY <1>4, <1>7, <1>8, <1>9 DEF ModesInv, Sound

\* A command fails; or a question is over, and what follows it is done.
LEMMA ModesOver ==
    ASSUME NEW c, ModeCase(c), ModesInv(c), NEW t \in c.users \cup {"q1"},
           (t \in c.users /\ (M(c)!Failed(t) \/ M(c)!Asked(t))) \/ (t = "q1" /\ M(c)!HubAsked(t))
    PROVE  ModesInv(c)'
  <1>0. ModeTypes(c) /\ ModeOps(c) /\ PendingInv(c) /\ m_wire \in Seq(Sendings(c))
    BY DEF ModesInv, ModeTypes
  <1>1. /\ m_op' = [m_op EXCEPT ![t] = M(c)!Over] /\ m_answered' = m_answered \ {t}
        /\ UNCHANGED <<m_tab, m_wire, m_news, m_lost, m_voicemail, m_mode_seq, m_restored, m_added, m_saved,
                       m_told, m_heard, m_crossed>>
    BY DEF M!Failed, M!Asked, M!HubAsked, M!Sent, M!panel, M!hub, M!switch, M!history
  <1>2. m_pending' = m_pending \/ m_pending' = None
    BY PendingKept DEF M!Failed, M!Asked, M!HubAsked, M!switch
  <1>3. m_init_status_sent' = m_init_status_sent \/ (m_op[t].at = "asking" /\ m_init_status_sent' = (t \in m_answered))
    BY DEF M!Failed, M!Asked, M!HubAsked, M!hub
  <1>4. \/ m_away_enabled' = m_away_enabled
        \/ t \in c.users /\ m_op[t].at = "asking" /\ m_away_enabled' = c.configured
    BY DEF M!Failed, M!Asked, M!HubAsked, M!hub
  <1>. PICK v : v = M(c)!Over
    OBVIOUS
  <1>9. OpOf(t, v) /\ v.at = "over"
    BY DEF M!Over, OpOf
  <1>5. /\ ModeOps(c)' /\ m_op'[t] = v
        /\ \A s \in c.users \cup {"q1"} : s # t => m_op'[s] = m_op[s]
    BY <1>0, <1>1, <1>9, TaskMoves
  <1>6. ModeTypes(c)'
    <2>1. m_init_status_sent' \in BOOLEAN
      <3>1. m_init_status_sent \in BOOLEAN
        BY <1>0 DEF ModeTypes
      <3>2. (t \in m_answered) \in BOOLEAN
        OBVIOUS
      <3>. QED BY <1>3, <3>1, <3>2, Zenon
    <2>2. m_away_enabled' \in BOOLEAN
      BY <1>0, <1>4 DEF ModeTypes, ModeCase
    <2>. QED BY <1>0, <1>1, <1>2, <2>1, <2>2 DEF ModeTypes
  <1>7. PendingInv(c)'
    BY <1>0, <1>1, <1>2, <1>5, <1>9 DEF PendingInv
  <1>8. ASSUME Sound(c) PROVE (LastWord /\ WireInv(c) /\ AnsweredInv /\ OneInv(c))'
    <2>0. LastWord /\ WireInv(c) /\ AnsweredInv /\ OneInv(c)
      BY <1>8 DEF ModesInv
    <2>1. WireInv(c)'
      BY <1>0, <1>1, <1>5, <1>9, <2>0, WireMoves
    <2>2. \A s \in m_answered' : s \in m_answered /\ m_op'[s] = m_op[s]
      BY <1>1, <1>5, <2>0 DEF WireInv
    <2>3. AnsweredInv'
      BY <1>1, <1>3, <2>0, <2>2 DEF AnsweredInv
    <2>4. LastWord'
      BY <1>1, <2>0 DEF LastWord
    <2>5. OneInv(c)'
      <3>1. ~m_crossed => \A s \in c.users : m_op'[s].at = "asking" \/ (m_op'[s].at = "sent" /\ s \in m_answered') => ~m_tab
        BY <1>1, <1>5, <1>9, <2>0 DEF OneInv
      <3>2. ~m_crossed /\ m_added /\ m_news = <<>> /\ m_voicemail = TRUE => ~m_away_enabled'
        <4>1. CASE m_away_enabled' = m_away_enabled
          BY <2>0, <4>1 DEF OneInv
        <4>2. CASE t \in c.users /\ m_op[t].at = "asking"
          <5>1. ~m_crossed => ~m_tab
            BY <2>0, <4>2 DEF OneInv
          <5>2. m_news = <<>> /\ m_voicemail = TRUE => m_tab
            BY <2>0, NoneAssumption DEF LastWord
          <5>. QED BY <5>1, <5>2
        <4>. QED BY <1>4, <4>1, <4>2
      <3>. QED BY <1>1, <3>1, <3>2 DEF OneInv
    <2>. QED BY <2>1, <2>3, <2>4, <2>5
  <1>. QED BY <1>5, <1>6, <1>7, <1>8 DEF ModesInv, Sound

\* The hub asks on its own.
LEMMA ModesHubAsks == ASSUME NEW c, ModeCase(c), ModesInv(c), M(c)!HubAsks("q1") PROVE ModesInv(c)'
  <1>0. ModeTypes(c) /\ ModeOps(c) /\ PendingInv(c) /\ m_wire \in Seq(Sendings(c))
    BY DEF ModesInv, ModeTypes
  <1>1. /\ m_op["q1"] = M(c)!Unused /\ m_wire' = Append(m_wire, [by |-> "q1", what |-> "ask"])
        /\ m_op' = [m_op EXCEPT !["q1"] = [at |-> "asking"]]
        /\ UNCHANGED <<m_tab, m_news, m_lost, m_voicemail, m_mode_seq, m_away_enabled, m_init_status_sent, m_restored,
                       m_added, m_saved, m_told, m_heard, m_crossed, m_answered, m_pending>>
    BY DEF M!HubAsks, M!Send, M!hub, M!switch, M!history
  <1>. PICK v : v = [at |-> "asking"]
    OBVIOUS
  <1>9. OpOf("q1", v) /\ v.at = "asking"
    BY DEF OpOf
  <1>2. /\ ModeOps(c)' /\ m_op'["q1"] = v
        /\ \A s \in c.users \cup {"q1"} : s # "q1" => m_op'[s] = m_op[s]
    BY <1>0, <1>1, <1>9, TaskMoves
  <1>3. \A u \in c.users : m_op'[u] = m_op[u]
    BY <1>2 DEF ModeCase
  <1>4. ModeTypes(c)'
    <2>1. [by |-> "q1", what |-> "ask"] \in Sendings(c)
      BY DEF Sendings
    <2>2. m_wire' \in Seq(Sendings(c))
      BY <1>0, <1>1, <2>1, AppendAt
    <2>. QED BY <1>0, <1>1, <2>2 DEF ModeTypes
  <1>5. PendingInv(c)'
    BY <1>0, <1>1, <1>3 DEF PendingInv
  <1>6. ASSUME Sound(c) PROVE (LastWord /\ WireInv(c) /\ AnsweredInv /\ OneInv(c))'
    <2>0. LastWord /\ WireInv(c) /\ AnsweredInv /\ OneInv(c)
      BY <1>6 DEF ModesInv
    <2>1. m_op["q1"].at = "unused" /\ "q1" \notin m_answered
      BY <1>1, <2>0 DEF WireInv, M!Unused
    <2>2. WireInv(c)'
      BY <1>0, <1>1, <1>2, <1>9, <2>0, <2>1, WireMoves
    <2>3. \A s \in m_answered : m_op'[s] = m_op[s]
      BY <1>2, <2>0, <2>1 DEF WireInv
    <2>4. (LastWord /\ AnsweredInv)'
      BY <1>1, <2>0, <2>3 DEF LastWord, AnsweredInv
    <2>5. OneInv(c)'
      BY <1>1, <1>3, <2>0 DEF OneInv
    <2>. QED BY <2>2, <2>4, <2>5
  <1>. QED BY <1>2, <1>4, <1>5, <1>6 DEF ModesInv, Sound

\* What Home Assistant dumps of the switch was told by the panel.
LEMMA ModesAttributes ==
    ASSUME NEW c, ModeCase(c), ModesInv(c)
    PROVE  /\ M(c)!Attributes \in [stato_reale : BOOLEAN \cup {None}, modo : BOOLEAN]
           /\ M(c)!Attributes.stato_reale \in m_told \cup {None}
  <1>. PICK real : real = IF m_voicemail # None THEN m_voicemail ELSE m_restored
    OBVIOUS
  <1>. PICK ha : ha = (m_away_enabled /\ c.configured)
    OBVIOUS
  <1>1. M(c)!Attributes = [stato_reale |-> real, modo |-> ha]
    BY DEF M!Attributes, M!Real, M!UsesHA
  <1>2. real \in BOOLEAN \cup {None} /\ real \in m_told \cup {None}
    BY DEF ModesInv, ModeTypes, PendingInv
  <1>3. ha \in BOOLEAN
    OBVIOUS
  <1>. QED BY <1>1, <1>2, <1>3

\* The timer of what is supposed, a dump, a restart, or the entity comes.
LEMMA ModesRests ==
    ASSUME NEW c, ModeCase(c), ModesInv(c),
           M(c)!Deadline \/ M(c)!Expire \/ M(c)!Dump \/ UNCHANGED modes
    PROVE  ModesInv(c)'
  <1>0. ModeTypes(c) /\ ModeOps(c) /\ PendingInv(c)
    BY DEF ModesInv
  <1>1. UNCHANGED <<m_tab, m_wire, m_news, m_lost, m_voicemail, m_mode_seq, m_away_enabled, m_init_status_sent,
                    m_restored, m_added, m_told, m_heard, m_crossed, m_answered, m_op>>
    BY DEF M!Deadline, M!Expire, M!Dump, M!panel, M!hub, M!history, modes
  <1>2. \/ m_pending' = m_pending \/ m_pending' = None
        \/ m_pending # None /\ m_pending' = [m_pending EXCEPT !.due = TRUE]
    BY DEF M!Deadline, M!Expire, M!Dump, modes
  <1>3. m_saved' = m_saved \/ m_saved' = M(c)!Attributes
    BY DEF M!Deadline, M!Expire, M!Dump, modes
  <1>4. \/ m_pending' = None
        \/ /\ m_pending # None /\ m_pending' \in [wanted : BOOLEAN, seq : Nat, from : Nat, due : BOOLEAN]
           /\ m_pending'.seq = m_pending.seq /\ m_pending'.from = m_pending.from
    <2>1. CASE m_pending = None
      BY <1>2, <2>1
    <2>2. CASE m_pending # None /\ m_pending' = m_pending
      BY <1>0, <2>2 DEF ModeTypes
    <2>3. CASE m_pending # None /\ m_pending' = [m_pending EXCEPT !.due = TRUE]
      <3>1. m_pending \in [wanted : BOOLEAN, seq : Nat, from : Nat, due : BOOLEAN]
        BY <1>0, <2>3 DEF ModeTypes
      <3>2. PICK p \in [wanted : BOOLEAN, seq : Nat, from : Nat, due : BOOLEAN] : p = m_pending
        BY <3>1
      <3>3. [p EXCEPT !.due = TRUE] \in [wanted : BOOLEAN, seq : Nat, from : Nat, due : BOOLEAN]
        OBVIOUS
      <3>4. [p EXCEPT !.due = TRUE].seq = p.seq /\ [p EXCEPT !.due = TRUE].from = p.from
        OBVIOUS
      <3>. QED BY <2>3, <3>2, <3>3, <3>4
    <2>. QED BY <1>2, <2>1, <2>2, <2>3
  <1>5. ModeTypes(c)'
    <2>1. m_pending' = None \/ m_pending' \in [wanted : BOOLEAN, seq : Nat, from : Nat, due : BOOLEAN]
      BY <1>4
    <2>2. m_saved' = None \/ m_saved' \in [stato_reale : BOOLEAN \cup {None}, modo : BOOLEAN]
      BY <1>0, <1>3, ModesAttributes DEF ModeTypes
    <2>. QED BY <1>0, <1>1, <2>1, <2>2 DEF ModeTypes
  <1>6. PendingInv(c)'
    <2>1. m_saved' # None => m_saved'.stato_reale \in m_told \cup {None}
      BY <1>0, <1>3, ModesAttributes DEF PendingInv
    <2>. QED BY <1>0, <1>1, <1>4, <2>1 DEF PendingInv
  <1>7. ModeOps(c)'
    BY <1>0, <1>1 DEF ModeOps, OpOf
  <1>8. ASSUME Sound(c) PROVE (LastWord /\ WireInv(c) /\ AnsweredInv /\ OneInv(c))'
    <2>0. LastWord /\ WireInv(c) /\ AnsweredInv /\ OneInv(c)
      BY <1>8 DEF ModesInv
    <2>. QED BY <1>1, <2>0 DEF LastWord, WireInv, AnsweredInv, OneInv
  <1>. QED BY <1>5, <1>6, <1>7, <1>8 DEF ModesInv, Sound

LEMMA ModesRestart ==
    ASSUME NEW c, ModeCase(c), ModesInv(c), NEW killed \in BOOLEAN, M(c)!Restart(killed)
    PROVE  ModesInv(c)'
  <1>0. ModeTypes(c) /\ ModeOps(c) /\ PendingInv(c)
    BY DEF ModesInv
  <1>1. /\ m_wire' = <<>> /\ m_answered' = {} /\ (m_news' = m_news \/ m_news' = <<>>)
        /\ m_voicemail' = None /\ m_mode_seq' = 0 /\ m_away_enabled' = TRUE /\ m_init_status_sent' = FALSE
        /\ m_pending' = None /\ m_restored' = None /\ m_added' = FALSE
        /\ m_saved' = m_saved \/ m_saved' = M(c)!Attributes
    BY DEF M!Restart
  <1>8. UNCHANGED <<m_tab, m_lost, m_told, m_heard, m_crossed>>
    BY DEF M!Restart
  <1>2. m_op' = [t \in c.users \cup {"q1"} |-> IF t \in {"q1"} \/ m_op[t] = M(c)!Unused THEN M(c)!Unused ELSE M(c)!Over]
    BY DEF M!Restart, M!Tasks
  <1>3. DOMAIN m_op' = c.users \cup {"q1"} /\ \A t \in c.users \cup {"q1"} : m_op'[t] \in {[at |-> "unused"], [at |-> "over"]}
    BY <1>2 DEF M!Unused, M!Over
  <1>4. ModeOps(c)' /\ \A t \in c.users : m_op'[t].at \notin {"sent", "asking"}
    <2>1. \A t \in c.users : m_op'[t].at \notin {"sent", "asking"}
      BY <1>3
    <2>2. \A t \in c.users \cup {"q1"} : OpOf(t, m_op'[t])
      BY <1>3 DEF OpOf
    <2>. QED BY <1>3, <2>1, <2>2 DEF ModeOps, OpOf
  <1>5. ModeTypes(c)'
    <2>1. m_saved' = None \/ m_saved' \in [stato_reale : BOOLEAN \cup {None}, modo : BOOLEAN]
      BY <1>0, <1>1, ModesAttributes DEF ModeTypes
    <2>2. m_wire' \in Seq(Sendings(c)) /\ m_news' \in Seq(ModeNews)
      BY <1>0, <1>1, EmptySeq DEF ModeTypes
    <2>. QED BY <1>0, <1>1, <1>8, <2>1, <2>2 DEF ModeTypes
  <1>6. PendingInv(c)'
    <2>1. m_saved' # None => m_saved'.stato_reale \in m_told \cup {None}
      BY <1>0, <1>1, ModesAttributes DEF PendingInv
    <2>. QED BY <1>1, <1>4, <1>8, <2>1 DEF PendingInv
  <1>7. ASSUME Sound(c) PROVE (LastWord /\ WireInv(c) /\ AnsweredInv /\ OneInv(c))'
    <2>0. LastWord
      BY <1>7 DEF ModesInv
    <2>1. LastWord'
      BY <1>1, <1>8, <2>0 DEF LastWord
    <2>2. WireInv(c)' /\ AnsweredInv'
      BY <1>1 DEF WireInv, AnsweredInv
    <2>3. OneInv(c)'
      BY <1>1, <1>4 DEF OneInv
    <2>. QED BY <2>1, <2>2, <2>3
  <1>. QED BY <1>4, <1>5, <1>6, <1>7 DEF ModesInv, Sound

LEMMA ModesAdded == ASSUME NEW c, ModeCase(c), ModesInv(c), M(c)!Added PROVE ModesInv(c)'
  <1>0. ModeTypes(c) /\ ModeOps(c) /\ PendingInv(c)
    BY DEF ModesInv
  <1>1. /\ ~m_added /\ m_added' = TRUE
        /\ m_away_enabled' = (m_saved # None /\ m_saved.modo /\ m_voicemail # TRUE)
        /\ m_restored' = IF m_saved = None THEN None ELSE m_saved.stato_reale
        /\ UNCHANGED <<m_tab, m_wire, m_news, m_lost, m_voicemail, m_mode_seq, m_init_status_sent, m_pending, m_saved,
                       m_told, m_heard, m_crossed, m_answered, m_op>>
    BY DEF M!Added, M!panel, M!history
  <1>2. m_restored' \in BOOLEAN \cup {None} /\ m_restored' \in m_told \cup {None}
    BY <1>0, <1>1 DEF ModeTypes, PendingInv
  <1>3. m_away_enabled' \in BOOLEAN /\ (m_voicemail = TRUE => ~m_away_enabled')
    BY <1>1
  <1>4. ModeTypes(c)'
    BY <1>0, <1>1, <1>2, <1>3 DEF ModeTypes
  <1>5. (ModeOps(c) /\ PendingInv(c))'
    BY <1>0, <1>1, <1>2 DEF ModeOps, OpOf, PendingInv
  <1>6. ASSUME Sound(c) PROVE (LastWord /\ WireInv(c) /\ AnsweredInv /\ OneInv(c))'
    <2>0. LastWord /\ WireInv(c) /\ AnsweredInv /\ OneInv(c)
      BY <1>6 DEF ModesInv
    <2>. QED BY <1>1, <1>3, <2>0 DEF LastWord, WireInv, AnsweredInv, OneInv
  <1>. QED BY <1>4, <1>5, <1>6 DEF ModesInv, Sound

LEMMA ModesStep == ASSUME NEW c, ModeCase(c), ModesInv(c), [M(c)!Next]_modes PROVE ModesInv(c)'
  <1>1. ASSUME NEW q \in {"q1"}, M(c)!HubAsks(q) \/ M(c)!HubAsked(q) PROVE ModesInv(c)'
    BY <1>1, ModesHubAsks, ModesOver
  <1>2. ASSUME NEW u \in c.users, M(c)!Use(u) \/ M(c)!Accepted(u) \/ M(c)!Failed(u) \/ M(c)!Asked(u) PROVE ModesInv(c)'
    BY <1>2, ModesUse, ModesAccepted, ModesOver
  <1>. QED BY <1>1, <1>2, ModesRead, ModesHand, ModesTold, ModesRests, ModesRestart, ModesAdded DEF M!Next

\* What MCHub states of the switch.
LEMMA ModesOk ==
    ASSUME NEW c, ModeCase(c), ModesInv(c)
    PROVE  /\ M(c)!TypeOK /\ M(c)!NewsWins /\ M(c)!ShowsWhatWasTold
           /\ c.obeys /\ c.lost = 0 => M(c)!OneAnswers
  <1>0. ModeTypes(c) /\ ModeOps(c) /\ PendingInv(c)
    BY DEF ModesInv
  <1>1. M(c)!TypeOK
    BY <1>0 DEF ModeTypes, PendingInv, M!TypeOK, M!Mode
  <1>2. M(c)!NewsWins
    BY <1>0 DEF PendingInv, M!NewsWins
  <1>3. M(c)!ShowsWhatWasTold
    <2>. SUFFICES ASSUME m_added, m_pending = None, ~M(c)!UsesHA
                  PROVE  /\ M(c)!Shown \in m_told \cup {None}
                         /\ m_voicemail # None => M(c)!Shown = m_heard /\ ~M(c)!Assumed
      BY DEF M!ShowsWhatWasTold, M!Real
    <2>1. M(c)!Shown = IF m_voicemail # None THEN m_voicemail ELSE m_restored
      BY DEF M!Shown, M!Real
    <2>2. m_voicemail # None => ~M(c)!Assumed
      BY DEF M!Assumed, M!Real
    <2>. QED BY <1>0, <2>1, <2>2 DEF PendingInv
  <1>4. ASSUME c.obeys, c.lost = 0 PROVE M(c)!OneAnswers
    <2>. SUFFICES ASSUME M(c)!AtRest, ~m_crossed, M(c)!UsesHA, m_tab PROVE FALSE
      BY DEF M!OneAnswers
    <2>1. m_added /\ m_init_status_sent /\ m_news = <<>> /\ m_away_enabled /\ c.configured
      BY DEF M!AtRest, M!UsesHA
    <2>2. LastWord /\ AnsweredInv /\ OneInv(c)
      BY <1>4, <2>1 DEF ModesInv, Sound
    <2>3. m_voicemail # None
      BY <2>1, <2>2 DEF AnsweredInv
    <2>4. m_voicemail = TRUE
      BY <1>0, <2>1, <2>2, <2>3 DEF LastWord, ModeTypes
    <2>. QED BY <2>1, <2>2, <2>4 DEF OneInv
  <1>. QED BY <1>1, <1>2, <1>3, <1>4

-----------------------------------------------------------------------------
(* WsClients: the proofs.                                                    *)

\* What the panel repeats is video, and each NAL has its number.
LEMMA NalIs ==
    ASSUME NEW n \in Nat \ {0}
    PROVE  W!Nal(n) \in Packets /\ W!Nal(n).n = n /\ W!IsVideo(W!Nal(n))
  <1>1. Len(Gop) \in Nat \ {0} /\ DOMAIN Gop = 1 .. Len(Gop)
    BY PhonesAssumption, EmptySeq, LenProperties
  <1>2. (n - 1) % Len(Gop) \in 0 .. (Len(Gop) - 1)
    BY <1>1
  <1>. PICK j : j = ((n - 1) % Len(Gop)) + 1
    OBVIOUS
  <1>3. j \in DOMAIN Gop /\ Gop[j] # "voice"
    BY <1>1, <1>2, PhonesAssumption
  <1>4. W!Nal(n) = [n |-> n, t |-> Gop[j]]
    BY DEF W!Nal
  <1>. QED BY <1>3, <1>4 DEF W!IsVideo, Packets

\* Voice is not.
LEMMA VoiceIs == W!Voice \in Packets /\ ~W!IsVideo(W!Voice)
  <1>1. W!Voice = [n |-> 0, t |-> "voice"]
    BY DEF W!Voice
  <1>. QED BY <1>1 DEF W!IsVideo, Packets

\* A packet at the end is after all others.
LEMMA BehindAll ==
    ASSUME NEW q \in Seq(Packets), NEW p \in Packets, NEW r, r = Append(q, p)
    PROVE  /\ \A i \in Nat : \A j \in 0 .. (Len(q) + 1) : NoVideo(r, i, j) <=> NoVideo(q, i, j)
           /\ \A i \in 0 .. Len(q) : NoVideo(r, i, Len(r) + 1) <=> NoVideo(q, i, Len(q) + 1) /\ ~W!IsVideo(p)
  <1>1. /\ Len(q) \in Nat /\ Len(r) = Len(q) + 1 /\ DOMAIN q = 1 .. Len(q) /\ DOMAIN r = 1 .. (Len(q) + 1)
        /\ \A n \in DOMAIN q : r[n] = q[n]
        /\ r[Len(q) + 1] = p
    BY AppendAt
  <1>2. ASSUME NEW i \in Nat, NEW j \in 0 .. (Len(q) + 1) PROVE NoVideo(r, i, j) <=> NoVideo(q, i, j)
    BY <1>1 DEF NoVideo
  <1>3. ASSUME NEW i \in 0 .. Len(q) PROVE NoVideo(r, i, Len(r) + 1) <=> NoVideo(q, i, Len(q) + 1) /\ ~W!IsVideo(p)
    BY <1>1 DEF NoVideo
  <1>. QED BY <1>2, <1>3

\* One packet behind the others, when it is voice, begins anew or follows: no hole.
LEMMA KeptBehind ==
    ASSUME NEW q, NEW l \in Nat, NEW k \in Nat, NEW h \in Nat, k <= h, l <= k,
           Kept(q, l, k), Len(q) < Limit, NEW p \in Packets, IsPacket(p, h),
           W!IsVideo(p) => p.t = "sps" \/ (Ends(q, l, k) /\ p.n = k + 1),
           NEW r, r = Append(q, p)
    PROVE  Kept(r, l, h)
  <1>0. q \in Seq(Packets) /\ Chained(q, l)
    BY DEF Kept
  <1>1. /\ r \in Seq(Packets)
        /\ Len(q) \in Nat /\ Len(r) = Len(q) + 1 /\ DOMAIN q = 1 .. Len(q) /\ DOMAIN r = 1 .. (Len(q) + 1)
        /\ \A n \in DOMAIN q : r[n] = q[n]
        /\ r[Len(q) + 1] = p
    BY <1>0, AppendAt
  <1>2. /\ \A i \in Nat : \A j \in 0 .. (Len(q) + 1) : NoVideo(r, i, j) <=> NoVideo(q, i, j)
    BY <1>0, BehindAll
  <1>3. Len(r) <= Limit
    BY <1>1, PhonesAssumption
  <1>4. ASSUME NEW n \in DOMAIN r PROVE IsPacket(r[n], h)
    <2>1. CASE n = Len(q) + 1
      BY <1>1, <2>1
    <2>2. CASE n \in DOMAIN q
      BY <1>1, <2>2 DEF Kept, IsPacket
    <2>. QED BY <1>1, <2>1, <2>2
  <1>7. ASSUME NEW i \in DOMAIN r, W!IsVideo(r[i]), NoVideo(r, 0, i) PROVE r[i].t = "sps" \/ l = 0 \/ r[i].n = l + 1
    <2>1. CASE i \in DOMAIN q
      BY <1>0, <1>1, <1>2, <1>7, <2>1 DEF Chained
    <2>2. CASE i = Len(q) + 1
      <3>1. NoVideo(q, 0, Len(q) + 1)
        BY <1>1, <1>2, <1>7, <2>2
      <3>. QED BY <1>1, <1>7, <2>2, <3>1 DEF Ends, Starved
    <2>. QED BY <1>1, <2>1, <2>2
  <1>8. ASSUME NEW i \in DOMAIN r, NEW j \in DOMAIN r, i < j, W!IsVideo(r[i]), W!IsVideo(r[j]), NoVideo(r, i, j)
        PROVE  r[j].t = "sps" \/ r[j].n = r[i].n + 1
    <2>1. CASE j \in DOMAIN q
      BY <1>0, <1>1, <1>2, <1>8, <2>1 DEF Chained
    <2>2. CASE j = Len(q) + 1
      <3>1. i \in DOMAIN q /\ NoVideo(q, i, Len(q) + 1)
        BY <1>1, <1>2, <1>8, <2>2
      <3>. QED BY <1>1, <1>8, <2>2, <3>1 DEF Ends
    <2>. QED BY <1>1, <2>1, <2>2
  <1>9. Chained(r, l)
    BY <1>7, <1>8 DEF Chained
  <1>. QED BY <1>1, <1>3, <1>4, <1>9 DEF Kept

\* What no phone waits for has no hole.
LEMMA KeptNothing ==
    ASSUME NEW l, NEW k
    PROVE  Kept(<<>>, l, k) /\ Starved(<<>>) /\ (l = 0 \/ l = k => Ends(<<>>, l, k)) /\ Len(<<>>) < Limit
  <1>1. <<>> \in Seq(Packets) /\ Len(<<>>) = 0 /\ DOMAIN <<>> = {}
    BY EmptySeq
  <1>2. Chained(<<>>, l) /\ Starved(<<>>)
    BY <1>1 DEF Chained, Starved, NoVideo
  <1>3. l = 0 \/ l = k => Ends(<<>>, l, k)
    BY <1>1 DEF Ends
  <1>. QED BY <1>1, <1>2, <1>3, PhonesAssumption DEF Kept

\* Voice at the end changes nothing of the video.
LEMMA VoiceBehind ==
    ASSUME NEW q, NEW l \in Nat, NEW k \in Nat, l <= k, Kept(q, l, k), Len(q) < Limit,
           NEW r, r = Append(q, W!Voice)
    PROVE  Kept(r, l, k) /\ (Starved(q) => Starved(r)) /\ (Ends(q, l, k) => Ends(r, l, k))
  <1>0. q \in Seq(Packets) /\ IsPacket(W!Voice, k)
    BY DEF Kept, IsPacket
  <1>1. /\ Len(q) \in Nat /\ Len(r) = Len(q) + 1 /\ DOMAIN q = 1 .. Len(q) /\ DOMAIN r = 1 .. (Len(q) + 1)
        /\ \A n \in DOMAIN q : r[n] = q[n]
        /\ r[Len(q) + 1] = W!Voice
    BY <1>0, AppendAt, VoiceIs
  <1>2. \A i \in 0 .. Len(q) : NoVideo(r, i, Len(r) + 1) <=> NoVideo(q, i, Len(q) + 1)
    BY <1>0, BehindAll, VoiceIs
  <1>. PICK p \in Packets : p = W!Voice
    BY VoiceIs
  <1>3. Kept(r, l, k)
    <2>1. ~W!IsVideo(p) /\ IsPacket(p, k) /\ k <= k /\ r = Append(q, p)
      BY <1>0, VoiceIs
    <2>. QED BY <2>1, KeptBehind
  <1>4. Starved(r) <=> Starved(q)
    BY <1>1, <1>2 DEF Starved
  <1>5. ASSUME NEW i \in DOMAIN r, W!IsVideo(r[i]), NoVideo(r, i, Len(r) + 1)
        PROVE  i \in DOMAIN q /\ r[i] = q[i] /\ NoVideo(q, i, Len(q) + 1)
    BY <1>1, <1>2, <1>5, VoiceIs
  <1>6. Ends(q, l, k) => Ends(r, l, k)
    BY <1>4, <1>5 DEF Ends
  <1>. QED BY <1>3, <1>4, <1>6

\* The next NAL at the end: the queue ends with it.
LEMMA NalBehind ==
    ASSUME NEW q, NEW l \in Nat, NEW k \in Nat, l <= k, Kept(q, l, k), Len(q) < Limit,
           NEW p, p = W!Nal(k + 1), p.t = "sps" \/ Ends(q, l, k), NEW r, r = Append(q, p)
    PROVE  Kept(r, l, k + 1) /\ Ends(r, l, k + 1)
  <1>0. q \in Seq(Packets) /\ p \in Packets /\ p.n = k + 1 /\ W!IsVideo(p) /\ IsPacket(p, k + 1)
    BY NalIs DEF Kept, IsPacket
  <1>1. /\ Len(q) \in Nat /\ Len(r) = Len(q) + 1 /\ DOMAIN q = 1 .. Len(q) /\ DOMAIN r = 1 .. (Len(q) + 1)
        /\ r[Len(q) + 1] = p
    BY <1>0, AppendAt
  <1>2. \A i \in 0 .. Len(q) : ~NoVideo(r, i, Len(r) + 1)
    BY <1>0, BehindAll
  <1>3. Kept(r, l, k + 1)
    <2>1. k + 1 \in Nat /\ k <= k + 1
      OBVIOUS
    <2>2. p.t = "sps" \/ (Ends(q, l, k) /\ p.n = k + 1)
      BY <1>0
    <2>. QED BY <1>0, <2>1, <2>2, KeptBehind
  <1>. QED BY <1>0, <1>1, <1>2, <1>3 DEF Ends, Starved

\* Voice is queued behind what waits; a full queue is dropped first.
LEMMA VoiceQueued ==
    ASSUME NEW q, NEW waits, NEW l \in Nat, NEW k \in Nat, l <= k, Served(q, waits, l, k),
           NEW s, s = W!Queued([q |-> q, waits |-> waits], W!Voice)
    PROVE  Served(s.q, s.waits, l, k)
  <1>1. s.q = Append(W!Dropped(q), W!Voice) /\ (s.waits <=> waits \/ Len(q) >= Limit)
    BY VoiceIs DEF W!Queued
  <1>2. Kept(q, l, k) /\ Len(q) \in Nat
    BY LenProperties DEF Served, Kept
  <1>4. CASE Len(q) >= Limit
    <2>1. Kept(s.q, l, k) /\ Starved(s.q)
      BY <1>1, <1>4, KeptNothing, VoiceBehind DEF W!Dropped
    <2>. QED BY <1>1, <1>4, <2>1 DEF Served
  <1>5. CASE ~(Len(q) >= Limit)
    <2>1. Kept(s.q, l, k) /\ (Starved(q) => Starved(s.q)) /\ (Ends(q, l, k) => Ends(s.q, l, k))
      BY <1>1, <1>2, <1>5, VoiceBehind, PhonesAssumption DEF W!Dropped
    <2>. QED BY <1>1, <1>5, <2>1 DEF Served
  <1>. QED BY <1>4, <1>5

\* So is the next NAL, unless the phone waits for a parameter set and this is none.
LEMMA NalQueued ==
    ASSUME NEW q, NEW waits, NEW l \in Nat, NEW k \in Nat, l <= k, Served(q, waits, l, k),
           NEW s, s = W!Queued([q |-> q, waits |-> waits], W!Nal(k + 1))
    PROVE  Served(s.q, s.waits, l, k + 1)
  <1>. PICK p : p = W!Nal(k + 1)
    OBVIOUS
  <1>0. W!IsVideo(p)
    BY NalIs
  <1>2. Kept(q, l, k) /\ Len(q) \in Nat
    BY LenProperties DEF Served, Kept
  <1>3. CASE (waits \/ Len(q) >= Limit) /\ p.t # "sps"
    <2>0. s.q = W!Dropped(q) /\ s.waits
      BY <1>0, <1>3 DEF W!Queued
    <2>1. CASE Len(q) >= Limit
      BY <2>0, <2>1, KeptNothing DEF W!Dropped, Served
    <2>2. CASE ~(Len(q) >= Limit)
      <3>1. s.q = q /\ Starved(q)
        BY <1>3, <2>0, <2>2 DEF W!Dropped, Served
      <3>2. Kept(q, l, k + 1)
        BY <1>2 DEF Kept, IsPacket
      <3>. QED BY <2>0, <3>1, <3>2 DEF Served
    <2>. QED BY <2>1, <2>2
  <1>4. CASE ~((waits \/ Len(q) >= Limit) /\ p.t # "sps")
    <2>0. s.q = Append(W!Dropped(q), p) /\ ~s.waits
      BY <1>0, <1>4 DEF W!Queued
    <2>1. CASE Len(q) >= Limit
      <3>1. Kept(s.q, l, k + 1) /\ Ends(s.q, l, k + 1)
        BY <1>4, <2>0, <2>1, KeptNothing, NalBehind DEF W!Dropped
      <3>. QED BY <2>0, <3>1 DEF Served
    <2>2. CASE ~(Len(q) >= Limit)
      <3>1. Len(q) < Limit /\ (p.t = "sps" \/ Ends(q, l, k))
        BY <1>2, <1>4, <2>2, PhonesAssumption DEF Served
      <3>2. Kept(s.q, l, k + 1) /\ Ends(s.q, l, k + 1)
        BY <1>2, <2>0, <2>2, <3>1, NalBehind DEF W!Dropped
      <3>. QED BY <2>0, <3>2 DEF Served
    <2>. QED BY <2>1, <2>2
  <1>. QED BY <1>3, <1>4

\* Packets are offered one after the other.
LEMMA OfferedInTurn ==
    ASSUME NEW c, NEW packets, Len(packets) \in Nat
    PROVE  \E Q : /\ W!Offered(c, packets) = Q[Len(packets)] /\ Q[0] = W!Now(c)
                  /\ \A n \in 1 .. Len(packets) : Q[n] = W!Queued(Q[n - 1], packets[n])
  <1>. DEFINE Turns(f, k) == f = [n \in 0 .. k |-> IF n = 0 THEN W!Now(c) ELSE W!Queued(f[n - 1], packets[n])]
              Never == { k \in Nat : ~\E f : Turns(f, k) }
  <1>1. Turns([n \in 0 .. 0 |-> W!Now(c)], 0)
    OBVIOUS
  <1>2. ASSUME NEW k \in Nat, NEW f, Turns(f, k) PROVE \E g : Turns(g, k + 1)
    <2>. DEFINE g == [n \in 0 .. (k + 1) |-> IF n \in 0 .. k THEN f[n] ELSE W!Queued(f[k], packets[k + 1])]
    <2>1. \A n \in 0 .. k : g[n] = f[n]
      OBVIOUS
    <2>2. \A n \in 0 .. k : f[n] = IF n = 0 THEN W!Now(c) ELSE W!Queued(f[n - 1], packets[n])
      BY <1>2
    <2>3. \A n \in 0 .. (k + 1) : g[n] = IF n = 0 THEN W!Now(c) ELSE W!Queued(g[n - 1], packets[n])
      BY <2>1, <2>2
    <2>4. g = [n \in 0 .. (k + 1) |-> IF n = 0 THEN W!Now(c) ELSE W!Queued(g[n - 1], packets[n])]
      BY <2>3
    <2>. QED BY <2>4
  <1>3. Never = {}
    <2>. SUFFICES ASSUME Never # {} PROVE FALSE
      OBVIOUS
    <2>1. PICK k \in Never : \A j \in Never : k <= j
      BY Least
    <2>2. k # 0
      BY <1>1
    <2>3. k - 1 \in Nat /\ k - 1 \notin Never
      BY <2>1, <2>2
    <2>4. PICK f : Turns(f, k - 1)
      BY <2>3
    <2>5. \E g : Turns(g, (k - 1) + 1)
      BY <1>2, <2>3, <2>4
    <2>6. (k - 1) + 1 = k
      BY <2>3
    <2>. QED BY <2>5, <2>6
  <1>4. PICK f : Turns(f, Len(packets))
    BY <1>3
  <1>. DEFINE Q == CHOOSE g : Turns(g, Len(packets))
  <1>5. Turns(Q, Len(packets))
    BY <1>4
  <1>6. W!Offered(c, packets) = Q[Len(packets)]
    BY DEF W!Offered
  <1>7. Q[0] = W!Now(c) /\ \A n \in 1 .. Len(packets) : Q[n] = W!Queued(Q[n - 1], packets[n])
    <2>. HIDE DEF Q
    <2>. QED BY <1>5
  <1>. QED BY <1>6, <1>7

\* Who is handed one packet has it queued.
LEMMA OfferedOne ==
    ASSUME NEW c, NEW p PROVE W!Offered(c, <<p>>) = W!Queued(W!Now(c), p)
  <1>1. Len(<<p>>) = 1 /\ <<p>>[1] = p
    OBVIOUS
  <1>2. PICK Q : /\ W!Offered(c, <<p>>) = Q[1] /\ Q[0] = W!Now(c)
                 /\ \A n \in 1 .. 1 : Q[n] = W!Queued(Q[n - 1], <<p>>[n])
    BY <1>1, OfferedInTurn
  <1>3. 1 \in 1 .. 1 /\ 1 - 1 = 0
    OBVIOUS
  <1>. QED BY <1>1, <1>2, <1>3

\* What a new phone is handed: the NALs since the last parameter set, if there was one.
LEMMA GroupIs ==
    ASSUME w_video \in Nat
    PROVE  \/ W!Group = <<>>
           \/ \E first \in 1 .. w_video : W!Group = [k \in 1 .. w_video - first + 1 |-> W!Nal(first + k - 1)]
  <1>. DEFINE starts == { n \in 1 .. w_video : W!Nal(n).t = "sps" }
              first == CHOOSE n \in starts : \A m \in starts : m <= n
  <1>1. CASE starts = {}
    BY <1>1 DEF W!Group
  <1>2. CASE starts # {}
    <2>1. { w_video - n : n \in starts } \in SUBSET Nat /\ { w_video - n : n \in starts } # {}
      BY <1>2
    <2>2. PICK x \in { w_video - n : n \in starts } : \A y \in { w_video - n : n \in starts } : x <= y
      BY <2>1, Least
    <2>3. PICK n \in starts : x = w_video - n
      BY <2>2
    <2>4. \A m \in starts : m <= n
      BY <2>2, <2>3
    <2>5. first \in starts
      BY <2>4
    <2>6. W!Group = [k \in 1 .. w_video - first + 1 |-> W!Nal(first + k - 1)]
      BY <1>2 DEF W!Group
    <2>. QED BY <2>5, <2>6
  <1>. QED BY <1>1, <1>2

\* A new phone's queue, after the group it is handed.
LEMMA GroupServed ==
    ASSUME NEW c, w_video \in Nat, w_senders[c] = None
    PROVE  Served(W!Offered(c, W!Group).q, W!Offered(c, W!Group).waits, 0, w_video)
  <1>1. W!Now(c) = [q |-> <<>>, waits |-> FALSE]
    BY DEF W!Now
  <1>2. ASSUME NEW k \in Nat PROVE Served(<<>>, FALSE, 0, k)
    BY KeptNothing DEF Served
  <1>3. CASE W!Group = <<>>
    <2>1. W!Offered(c, <<>>) = W!Now(c)
      <3>1. Len(<<>>) = 0
        BY EmptySeq
      <3>2. PICK Q : W!Offered(c, <<>>) = Q[0] /\ Q[0] = W!Now(c)
        BY <3>1, OfferedInTurn
      <3>. QED BY <3>2
    <2>2. W!Offered(c, W!Group).q = <<>> /\ ~W!Offered(c, W!Group).waits
      BY <1>1, <1>3, <2>1
    <2>3. Kept(<<>>, 0, w_video) /\ Ends(<<>>, 0, w_video)
      BY KeptNothing
    <2>. QED BY <2>2, <2>3 DEF Served
  <1>4. ASSUME NEW first \in 1 .. w_video, W!Group = [k \in 1 .. w_video - first + 1 |-> W!Nal(first + k - 1)]
        PROVE  Served(W!Offered(c, W!Group).q, W!Offered(c, W!Group).waits, 0, w_video)
    <2>. PICK packets : packets = W!Group
      OBVIOUS
    <2>. PICK L \in Nat : L = w_video - first + 1
      OBVIOUS
    <2>1. Len(packets) = L /\ \A n \in 1 .. L : packets[n] = W!Nal((first - 1 + (n - 1)) + 1)
      <3>1. packets = [k \in 1 .. L |-> W!Nal(first + k - 1)]
        BY <1>4
      <3>2. \A n \in 1 .. L : first + n - 1 = (first - 1 + (n - 1)) + 1
        OBVIOUS
      <3>. QED BY <3>1, <3>2
    <2>2. PICK Q : /\ W!Offered(c, packets) = Q[L] /\ Q[0] = W!Now(c)
                   /\ \A n \in 1 .. L : Q[n] = W!Queued(Q[n - 1], packets[n])
      <3>1. Len(packets) \in Nat
        BY <2>1
      <3>2. \A x : Len(x) \in Nat => \E Q : /\ W!Offered(c, x) = Q[Len(x)] /\ Q[0] = W!Now(c)
                                           /\ \A n \in 1 .. Len(x) : Q[n] = W!Queued(Q[n - 1], x[n])
        BY OfferedInTurn, Zenon
      <3>3. \E Q : /\ W!Offered(c, packets) = Q[Len(packets)] /\ Q[0] = W!Now(c)
                   /\ \A n \in 1 .. Len(packets) : Q[n] = W!Queued(Q[n - 1], packets[n])
        BY <3>1, <3>2
      <3>. QED BY <2>1, <3>3, Zenon
    <2>. DEFINE Good(n) == \E q, waits : Q[n] = [q |-> q, waits |-> waits] /\ Served(q, waits, 0, first - 1 + n)
                Bad == { n \in 0 .. L : ~Good(n) }
    <2>3. Good(0)
      <3>1. Served(<<>>, FALSE, 0, first - 1 + 0)
        <4>1. first - 1 + 0 \in Nat
          OBVIOUS
        <4>. QED BY <1>2, <4>1
      <3>. QED BY <1>1, <2>2, <3>1
    <2>4. ASSUME NEW n \in 1 .. L, Good(n - 1) PROVE Good(n)
      <3>1. PICK q, waits : Q[n - 1] = [q |-> q, waits |-> waits] /\ Served(q, waits, 0, first - 1 + (n - 1))
        BY <2>4
      <3>. PICK s : s = W!Queued([q |-> q, waits |-> waits], W!Nal((first - 1 + (n - 1)) + 1))
        OBVIOUS
      <3>2. Q[n] = s
        BY <2>1, <2>2, <3>1
      <3>3. Served(s.q, s.waits, 0, (first - 1 + (n - 1)) + 1)
        <4>1. first - 1 + (n - 1) \in Nat /\ 0 <= first - 1 + (n - 1)
          OBVIOUS
        <4>. QED BY <3>1, <4>1, NalQueued
      <3>4. (first - 1 + (n - 1)) + 1 = first - 1 + n
        OBVIOUS
      <3>5. s = [q |-> s.q, waits |-> s.waits]
        BY DEF W!Queued
      <3>. QED BY <3>2, <3>3, <3>4, <3>5
    <2>5. Bad = {}
      <3>. SUFFICES ASSUME Bad # {} PROVE FALSE
        OBVIOUS
      <3>0. Bad \in SUBSET Nat
        OBVIOUS
      <3>1. PICK n \in Bad : \A m \in Bad : n <= m
        BY <3>0, Least
      <3>2. n # 0
        BY <2>3, <3>1
      <3>3. n \in 1 .. L /\ n - 1 \in 0 .. L /\ n - 1 \notin Bad
        BY <3>1, <3>2
      <3>. QED BY <2>4, <3>3, <3>1
    <2>6. Good(L)
      BY <2>5
    <2>7. first - 1 + L = w_video
      OBVIOUS
    <2>8. PICK q, waits : Q[L] = [q |-> q, waits |-> waits] /\ Served(q, waits, 0, w_video)
      BY <2>6, <2>7
    <2>. QED BY <2>2, <2>8
  <1>. QED BY <1>3, <1>4, GroupIs

\* Who is handed packets is offered them; the others' queues stay, and those who left have none.
LEMMA HandIs ==
    ASSUME NEW packets, NEW to, W!Hand(packets, to), w_clients' \subseteq Phones
    PROVE  /\ \A c \in Phones \ w_clients' : w_senders'[c] = None
           /\ \A c \in w_clients' \cap to : /\ w_senders'[c] = W!Offered(c, packets).q
                                            /\ c \in w_resync' <=> W!Offered(c, packets).waits
           /\ \A c \in w_clients' \ to : w_senders[c] # None =>
                 w_senders'[c] = w_senders[c] /\ (c \in w_resync' <=> c \in w_resync)
           /\ \A c \in w_clients' \ to : w_senders[c] = None => w_senders'[c] = None
           /\ w_resync' \subseteq w_clients' /\ DOMAIN w_senders' = Phones
  BY DEF W!Hand, W!Now

LEMMA PhonesInit == ASSUME W!Init PROVE PhonesInv
  BY DEF W!Init, PhonesInv

\* A packet for all: what waits for each stays without a hole.
LEMMA PhonesOffered ==
    ASSUME PhonesInv, NEW p, W!Hand(<<p>>, w_clients),
           w_video' \in Nat, w_video <= w_video', UNCHANGED <<w_clients, w_state, w_last, w_smeared>>,
           \A q, waits, l : LET s == W!Queued([q |-> q, waits |-> waits], p) IN
              l \in Nat /\ l <= w_video /\ Served(q, waits, l, w_video) => Served(s.q, s.waits, l, w_video')
    PROVE  PhonesInv'
  <1>1. /\ \A c \in Phones \ w_clients : w_senders'[c] = None
        /\ \A c \in w_clients : /\ w_senders'[c] = W!Offered(c, <<p>>).q
                                /\ c \in w_resync' <=> W!Offered(c, <<p>>).waits
        /\ w_resync' \subseteq w_clients /\ DOMAIN w_senders' = Phones
    BY HandIs DEF PhonesInv
  <1>2. ASSUME NEW c \in w_clients PROVE Served(w_senders'[c], c \in w_resync', w_last[c], w_video')
    <2>1. /\ w_last[c] \in Nat /\ w_last[c] <= w_video /\ w_senders[c] # None
          /\ Served(w_senders[c], c \in w_resync, w_last[c], w_video)
      BY <1>2 DEF PhonesInv
    <2>2. W!Now(c) = [q |-> w_senders[c], waits |-> c \in w_resync]
      BY <2>1 DEF W!Now
    <2>. PICK s : s = W!Queued([q |-> w_senders[c], waits |-> c \in w_resync], p)
      OBVIOUS
    <2>3. Served(s.q, s.waits, w_last[c], w_video')
      BY <2>1
    <2>4. w_senders'[c] = s.q /\ (c \in w_resync' <=> s.waits)
      BY <1>1, <2>2, OfferedOne
    <2>. QED BY <2>3, <2>4 DEF Served
  <1>3. \A c \in w_clients : /\ w_senders'[c] \in Seq(Packets) /\ Len(w_senders'[c]) <= Limit /\ w_senders'[c] # None
                             /\ w_last[c] <= w_video'
    <2>1. \A c \in w_clients : w_senders'[c] \in Seq(Packets) /\ Len(w_senders'[c]) <= Limit
      BY <1>2 DEF Served, Kept
    <2>2. \A c \in w_clients : w_last[c] <= w_video /\ w_last[c] \in Nat /\ w_video \in Nat
      BY DEF PhonesInv
    <2>. QED BY <2>1, <2>2, NoneAssumption DEF Packets
  <1>4. /\ w_senders' \in [Phones -> {None} \cup Seq(Packets)] /\ w_resync' \subseteq Phones
        /\ \A c \in Phones : w_senders'[c] = None \/ Len(w_senders'[c]) <= Limit
    <2>1. w_senders' = [c \in Phones |-> w_senders'[c]]
      BY DEF W!Hand
    <2>. QED BY <1>1, <1>3, <2>1 DEF PhonesInv
  <1>5. \A c \in Phones : w_state[c] = "away" => w_senders'[c] = None
    BY <1>1 DEF PhonesInv
  <1>. QED BY <1>2, <1>3, <1>4, <1>5 DEF PhonesInv

LEMMA PhonesVideo == ASSUME PhonesInv, W!Video PROVE PhonesInv'
  <1>1. /\ w_video' = w_video + 1 /\ w_clients' = w_clients /\ W!Hand(<<W!Nal(w_video + 1)>>, w_clients)
        /\ w_state' = w_state /\ w_last' = w_last /\ w_smeared' = w_smeared
    BY DEF W!Video
  <1>2. w_video \in Nat /\ w_video' \in Nat /\ w_video <= w_video'
    BY <1>1 DEF PhonesInv
  <1>3. ASSUME NEW q, NEW waits, NEW l \in Nat, l <= w_video, Served(q, waits, l, w_video),
               NEW s, s = W!Queued([q |-> q, waits |-> waits], W!Nal(w_video + 1))
        PROVE  Served(s.q, s.waits, l, w_video')
    BY <1>1, <1>2, <1>3, NalQueued
  <1>. QED BY <1>1, <1>2, <1>3, PhonesOffered

LEMMA PhonesSpeech == ASSUME PhonesInv, W!Speech PROVE PhonesInv'
  <1>1. /\ w_video' = w_video /\ w_clients' = w_clients /\ W!Hand(<<W!Voice>>, w_clients)
        /\ w_state' = w_state /\ w_last' = w_last /\ w_smeared' = w_smeared
    BY DEF W!Speech
  <1>2. w_video \in Nat /\ w_video' \in Nat /\ w_video <= w_video'
    BY <1>1 DEF PhonesInv
  <1>3. ASSUME NEW q, NEW waits, NEW l \in Nat, l <= w_video, Served(q, waits, l, w_video),
               NEW s, s = W!Queued([q |-> q, waits |-> waits], W!Voice)
        PROVE  Served(s.q, s.waits, l, w_video')
    BY <1>1, <1>2, <1>3, VoiceQueued
  <1>. QED BY <1>1, <1>2, <1>3, PhonesOffered

\* A new phone is handed the group so far; the others keep what they have.
LEMMA PhonesOpens == ASSUME PhonesInv, NEW o \in Phones, W!Opens(o) PROVE PhonesInv'
  <1>0. /\ w_state[o] = "away" /\ w_state' = [w_state EXCEPT ![o] = "open"] /\ w_clients' = w_clients \cup {o}
        /\ W!Hand(W!Group, {o}) /\ UNCHANGED <<w_video, w_last, w_smeared>>
    BY DEF W!Opens
  <1>1. o \notin w_clients /\ w_senders[o] = None /\ w_last[o] = 0 /\ w_clients' \subseteq Phones /\ w_video \in Nat
    BY <1>0 DEF PhonesInv
  <1>2. /\ \A c \in Phones \ w_clients' : w_senders'[c] = None
        /\ w_senders'[o] = W!Offered(o, W!Group).q /\ (o \in w_resync' <=> W!Offered(o, W!Group).waits)
        /\ \A c \in w_clients : w_senders[c] # None => w_senders'[c] = w_senders[c] /\ (c \in w_resync' <=> c \in w_resync)
        /\ w_resync' \subseteq w_clients' /\ DOMAIN w_senders' = Phones
    BY <1>0, <1>1, HandIs
  <1>3. Served(w_senders'[o], o \in w_resync', w_last[o], w_video)
    BY <1>1, <1>2, GroupServed DEF Served
  <1>4. ASSUME NEW c \in w_clients PROVE Served(w_senders'[c], c \in w_resync', w_last[c], w_video)
    <2>1. w_senders[c] # None /\ Served(w_senders[c], c \in w_resync, w_last[c], w_video)
      BY DEF PhonesInv
    <2>. QED BY <1>2, <2>1 DEF Served
  <1>5. \A c \in w_clients' : /\ Served(w_senders'[c], c \in w_resync', w_last[c], w_video)
                              /\ w_senders'[c] \in Seq(Packets) /\ Len(w_senders'[c]) <= Limit /\ w_senders'[c] # None
                              /\ w_last[c] <= w_video
    <2>1. \A c \in w_clients' : /\ Served(w_senders'[c], c \in w_resync', w_last[c], w_video) /\ w_last[c] <= w_video
      BY <1>0, <1>1, <1>3, <1>4 DEF PhonesInv
    <2>. QED BY <2>1, NoneAssumption DEF Served, Kept, Packets
  <1>6. /\ w_senders' \in [Phones -> {None} \cup Seq(Packets)] /\ w_resync' \subseteq Phones
        /\ \A c \in Phones : w_senders'[c] = None \/ Len(w_senders'[c]) <= Limit
    <2>1. w_senders' = [c \in Phones |-> w_senders'[c]]
      BY <1>0 DEF W!Hand
    <2>. QED BY <1>1, <1>2, <1>5, <2>1
  <1>7. /\ w_state' \in [Phones -> {"away", "open", "closed"}]
        /\ \A c \in w_clients' : w_state'[c] = "open"
        /\ \A c \in Phones : w_state'[c] = "away" => w_senders'[c] = None /\ w_last[c] = 0
    BY <1>0, <1>1, <1>2 DEF PhonesInv
  <1>. QED BY <1>0, <1>1, <1>5, <1>6, <1>7 DEF PhonesInv

\* The first in the queue goes out: it follows what the phone has, and the rest follows it.
LEMMA PhonesSends == ASSUME PhonesInv, NEW o \in Phones, W!Sends(o) PROVE PhonesInv'
  <1>. PICK q : q = w_senders[o]
    OBVIOUS
  <1>. PICK p : p = Head(q)
    OBVIOUS
  <1>0. /\ o \in w_clients /\ q # None /\ q # <<>>
        /\ w_senders' = [w_senders EXCEPT ![o] = Tail(q)]
        /\ w_last' = IF W!IsVideo(p) /\ (w_last[o] # 0 \/ p.t = "sps") THEN [w_last EXCEPT ![o] = p.n] ELSE w_last
        /\ w_smeared' = IF W!IsVideo(p) /\ ~W!Follows(o, p) THEN w_smeared \cup {o} ELSE w_smeared
        /\ UNCHANGED <<w_clients, w_state, w_resync, w_video>>
    BY DEF W!Sends
  <1>1. /\ Kept(q, w_last[o], w_video) /\ IF o \in w_resync THEN Starved(q) ELSE Ends(q, w_last[o], w_video)
        /\ w_last[o] \in Nat /\ w_video \in Nat /\ w_last[o] <= w_video
    BY <1>0 DEF PhonesInv, Served
  <1>2. q \in Seq(Packets)
    BY <1>1 DEF Kept
  <1>. PICK r : r = Tail(q)
    OBVIOUS
  <1>3. /\ p \in Packets /\ p = q[1] /\ 1 \in DOMAIN q /\ r \in Seq(Packets) /\ Len(r) = Len(q) - 1
        /\ Len(q) \in Nat \ {0} /\ DOMAIN r = 1 .. (Len(q) - 1) /\ DOMAIN q = 1 .. Len(q)
        /\ \A n \in DOMAIN r : n + 1 \in DOMAIN q /\ r[n] = q[n + 1]
    BY <1>0, <1>2, TailAt
  <1>4. W!IsVideo(p) => W!Follows(o, p)
    <2>1. NoVideo(q, 0, 1)
      BY <1>3 DEF NoVideo
    <2>. QED BY <1>1, <1>3, <2>1 DEF Kept, Chained, W!Follows
  <1>5. W!IsVideo(p) => p.n \in 1 .. w_video
    BY <1>1, <1>3, NalIs, VoiceIs DEF Kept, IsPacket
  <1>. PICK l : l = w_last'[o]
    OBVIOUS
  <1>6. /\ l = (IF W!IsVideo(p) /\ (w_last[o] # 0 \/ p.t = "sps") THEN p.n ELSE w_last[o])
        /\ l \in Nat /\ l <= w_video /\ w_last' = [w_last EXCEPT ![o] = l]
    <2>1. w_last \in [Phones -> Nat] /\ o \in Phones
      BY DEF PhonesInv
    <2>2. CASE W!IsVideo(p) /\ (w_last[o] # 0 \/ p.t = "sps")
      <3>1. w_last' = [w_last EXCEPT ![o] = p.n] /\ p.n \in Nat /\ p.n <= w_video
        BY <1>0, <1>1, <1>5, <2>2
      <3>2. l = p.n
        BY <2>1, <3>1
      <3>. QED BY <2>2, <3>1, <3>2
    <2>3. CASE ~(W!IsVideo(p) /\ (w_last[o] # 0 \/ p.t = "sps"))
      BY <1>0, <1>1, <2>1, <2>3
    <2>. QED BY <2>2, <2>3
  <1>18. \A m \in DOMAIN q : m # 1 => m - 1 \in DOMAIN r /\ q[m] = r[m - 1]
    <2>. SUFFICES ASSUME NEW m \in DOMAIN q, m # 1 PROVE m - 1 \in DOMAIN r /\ q[m] = r[m - 1]
      OBVIOUS
    <2>1. m - 1 \in DOMAIN r /\ (m - 1) + 1 = m
      BY <1>3
    <2>. QED BY <1>3, <2>1
  <1>7. \A i, j \in 0 .. Len(q) : NoVideo(r, i, j) <=> NoVideo(q, i + 1, j + 1)
    <2>. SUFFICES ASSUME NEW i \in 0 .. Len(q), NEW j \in 0 .. Len(q) PROVE NoVideo(r, i, j) <=> NoVideo(q, i + 1, j + 1)
      OBVIOUS
    <2>1. ASSUME NoVideo(q, i + 1, j + 1), NEW n \in DOMAIN r, i < n, n < j PROVE ~W!IsVideo(r[n])
      BY <1>3, <2>1 DEF NoVideo
    <2>2. ASSUME NoVideo(r, i, j), NEW m \in DOMAIN q, i + 1 < m, m < j + 1 PROVE ~W!IsVideo(q[m])
      <3>1. m - 1 \in DOMAIN r /\ q[m] = r[m - 1] /\ i < m - 1 /\ m - 1 < j
        BY <1>3, <1>18, <2>2
      <3>. QED BY <2>2, <3>1 DEF NoVideo
    <2>. QED BY <2>1, <2>2 DEF NoVideo
  <1>8. \A j \in 0 .. Len(q) : NoVideo(q, 0, j + 1) <=> (j = 0 \/ (~W!IsVideo(p) /\ NoVideo(r, 0, j)))
    <2>. SUFFICES ASSUME NEW j \in 0 .. Len(q) PROVE NoVideo(q, 0, j + 1) <=> (j = 0 \/ (~W!IsVideo(p) /\ NoVideo(r, 0, j)))
      OBVIOUS
    <2>1. CASE j = 0
      BY <1>3, <2>1 DEF NoVideo
    <2>2. CASE j # 0
      <3>1. NoVideo(q, 0, j + 1) <=> ~W!IsVideo(p) /\ NoVideo(q, 1, j + 1)
        BY <1>3, <2>2 DEF NoVideo
      <3>2. NoVideo(r, 0, j) <=> NoVideo(q, 1, j + 1)
        <4>1. 0 \in 0 .. Len(q) /\ 0 + 1 = 1
          BY <1>3
        <4>. QED BY <1>7, <4>1
      <3>. QED BY <2>2, <3>1, <3>2
    <2>. QED BY <2>1, <2>2
  <1>9. Chained(r, l)
    <2>1. ASSUME NEW i \in DOMAIN r, W!IsVideo(r[i]), NoVideo(r, 0, i) PROVE r[i].t = "sps" \/ l = 0 \/ r[i].n = l + 1
      <3>1. i + 1 \in DOMAIN q /\ r[i] = q[i + 1] /\ i \in 0 .. Len(q) /\ 0 \in 0 .. Len(q) /\ 1 < i + 1
        BY <1>3
      <3>2. CASE W!IsVideo(p)
        <4>1. NoVideo(q, 1, i + 1)
          BY <1>7, <2>1, <3>1
        <4>2. q[i + 1].t = "sps" \/ q[i + 1].n = q[1].n + 1
          BY <1>1, <1>3, <2>1, <3>1, <3>2, <4>1 DEF Kept, Chained
        <4>. QED BY <1>3, <1>6, <3>1, <3>2, <4>2
      <3>3. CASE ~W!IsVideo(p)
        <4>1. NoVideo(q, 0, i + 1)
          BY <1>8, <2>1, <3>1, <3>3
        <4>. QED BY <1>1, <1>6, <2>1, <3>1, <3>3, <4>1 DEF Kept, Chained
      <3>. QED BY <3>2, <3>3
    <2>2. ASSUME NEW i \in DOMAIN r, NEW j \in DOMAIN r, i < j, W!IsVideo(r[i]), W!IsVideo(r[j]), NoVideo(r, i, j)
          PROVE  r[j].t = "sps" \/ r[j].n = r[i].n + 1
      <3>1. /\ i + 1 \in DOMAIN q /\ r[i] = q[i + 1] /\ j + 1 \in DOMAIN q /\ r[j] = q[j + 1] /\ i + 1 < j + 1
            /\ i \in 0 .. Len(q) /\ j \in 0 .. Len(q)
        BY <1>3, <2>2
      <3>2. NoVideo(q, i + 1, j + 1)
        BY <1>7, <2>2, <3>1
      <3>. QED BY <1>1, <2>2, <3>1, <3>2 DEF Kept, Chained
    <2>. QED BY <2>1, <2>2 DEF Chained
  <1>10. Kept(r, l, w_video)
    <2>1. Len(r) <= Limit
      BY <1>1, <1>3, PhonesAssumption DEF Kept
    <2>. QED BY <1>1, <1>3, <1>9, <2>1 DEF Kept
  <1>11. Len(q) \in 0 .. Len(q) /\ Len(r) + 1 = Len(q) /\ 0 \in 0 .. Len(q)
    BY <1>3
  <1>12. Starved(q) => Starved(r)
    BY <1>8, <1>11, <1>3 DEF Starved
  <1>13. Ends(q, w_last[o], w_video) => Ends(r, l, w_video)
    <2>. SUFFICES ASSUME Ends(q, w_last[o], w_video) PROVE Ends(r, l, w_video)
      OBVIOUS
    <2>1. ASSUME NEW i \in DOMAIN r, W!IsVideo(r[i]), NoVideo(r, i, Len(r) + 1) PROVE r[i].n = w_video
      <3>1. i + 1 \in DOMAIN q /\ r[i] = q[i + 1] /\ i \in 0 .. Len(q)
        BY <1>3
      <3>2. NoVideo(q, i + 1, Len(q) + 1)
        BY <1>7, <1>11, <2>1, <3>1
      <3>. QED BY <2>1, <3>1, <3>2 DEF Ends
    <2>2. ASSUME Starved(r) PROVE l = 0 \/ l = w_video
      <3>1. NoVideo(r, 0, Len(q))
        BY <1>11, <2>2 DEF Starved
      <3>2. CASE W!IsVideo(p)
        <4>1. NoVideo(q, 1, Len(q) + 1)
          BY <1>7, <1>11, <3>1
        <4>2. p.n = w_video
          BY <1>3, <3>2, <4>1 DEF Ends
        <4>3. l = p.n \/ l = 0
          BY <1>1, <1>6, <3>2
        <4>. QED BY <4>2, <4>3
      <3>3. CASE ~W!IsVideo(p)
        <4>1. Starved(q)
          BY <1>8, <1>11, <3>1, <3>3 DEF Starved
        <4>. QED BY <1>6, <3>3, <4>1 DEF Ends
      <3>. QED BY <3>2, <3>3
    <2>. QED BY <2>1, <2>2 DEF Ends
  <1>14. ASSUME NEW c \in w_clients
         PROVE  Served(w_senders'[c], c \in w_resync', w_last'[c], w_video) /\ w_last'[c] <= w_video /\ w_senders'[c] # None
    <2>1. CASE c = o
      <3>1. w_senders'[c] = r /\ w_last'[c] = l
        BY <1>0, <1>6, <2>1 DEF PhonesInv
      <3>2. Served(r, c \in w_resync, l, w_video)
        BY <1>1, <1>10, <1>12, <1>13, <2>1 DEF Served
      <3>3. r # None
        BY <1>3, NoneAssumption DEF Packets
      <3>. QED BY <1>0, <1>6, <3>1, <3>2, <3>3
    <2>2. CASE c # o
      <3>1. w_senders'[c] = w_senders[c] /\ w_last'[c] = w_last[c]
        BY <1>0, <1>6, <2>2 DEF PhonesInv
      <3>. QED BY <1>0, <3>1 DEF PhonesInv
    <2>. QED BY <2>1, <2>2
  <1>15. /\ w_senders' \in [Phones -> {None} \cup Seq(Packets)] /\ w_last' \in [Phones -> Nat]
         /\ \A c \in Phones : w_senders'[c] = None \/ Len(w_senders'[c]) <= Limit
    BY <1>0, <1>3, <1>6, <1>10 DEF PhonesInv, Kept
  <1>16. \A c \in Phones : w_state[c] = "away" => w_senders'[c] = None /\ w_last'[c] = 0
    BY <1>0, <1>6 DEF PhonesInv
  <1>17. w_smeared' = {}
    BY <1>0, <1>4 DEF PhonesInv
  <1>. QED BY <1>0, <1>14, <1>15, <1>16, <1>17 DEF PhonesInv

LEMMA PhonesLeaves == ASSUME PhonesInv, NEW o \in Phones, W!Leaves(o) PROVE PhonesInv'
  BY DEF PhonesInv, W!Leaves, Served, Kept, Ends, Starved

LEMMA PhonesStep == ASSUME PhonesInv, [W!Next]_phones PROVE PhonesInv'
  <1>1. CASE W!Next
    BY <1>1, PhonesVideo, PhonesSpeech, PhonesOpens, PhonesSends, PhonesLeaves DEF W!Next
  <1>2. CASE UNCHANGED phones
    BY <1>2 DEF PhonesInv, phones, Served, Kept, Ends, Starved
  <1>. QED BY <1>1, <1>2

\* What MCHub states of the phones.
LEMMA PhonesOk == ASSUME PhonesInv PROVE W!TypeOK /\ W!NoHoles /\ W!OnlyTheSlow
  <1>1. W!TypeOK /\ W!NoHoles
    BY DEF PhonesInv, W!TypeOK, W!NoHoles
  <1>2. W!OnlyTheSlow
    <2>. SUFFICES ASSUME NEW c \in w_clients, c \in w_resync, NEW n \in DOMAIN w_senders[c]
                  PROVE  ~W!IsVideo(w_senders[c][n])
      BY DEF W!OnlyTheSlow
    <2>. PICK q : q = w_senders[c]
      OBVIOUS
    <2>1. q \in Seq(Packets) /\ Starved(q)
      BY DEF PhonesInv, Served, Kept
    <2>2. n \in 1 .. Len(q) /\ Len(q) \in Nat
      BY <2>1, LenProperties
    <2>. QED BY <2>1, <2>2 DEF Starved, NoVideo
  <1>. QED BY <1>1, <1>2

-----------------------------------------------------------------------------
(* The hub.                                                                  *)

LEMMA CasesAre ==
    /\ \A n \in DOMAIN ModeCases : ModeCase(ModeCases[n])
    /\ \A n \in DOMAIN SearchCases : SearchCase(SearchCases[n])
    /\ \A n \in DOMAIN MessageCases : IsFiniteSet(MessageCases[n].doors)
  BY ModesAssumption, SearchAssumption, MessagesAssumption DEF ModeCase, SearchCase

LEMMA HubStarted == ASSUME HubInit PROVE HubPart
  <1>1. case = "viewers" => HubInv
    BY Started DEF HubInit
  <1>2. ASSUME NEW n \in DOMAIN ModeCases, case = n PROVE ModesInv(ModeCases[n])
    <2>1. M(ModeCases[n])!Init
      BY <1>2 DEF HubInit, InModes
    <2>. QED BY <2>1, CasesAre, ModesInit
  <1>3. ASSUME NEW n \in DOMAIN SearchCases, case = n PROVE SearchInv(SearchCases[n])
    <2>1. F(SearchCases[n])!Init
      BY <1>3 DEF HubInit, InSearch
    <2>. QED BY <2>1, CasesAre, SearchInit
  <1>4. ASSUME NEW n \in DOMAIN MessageCases, case = n PROVE MessagesInv(MessageCases[n])
    <2>1. G(MessageCases[n])!Init
      BY <1>4 DEF HubInit, InMessages
    <2>. QED BY <2>1, CasesAre, MessagesInit
  <1>5. case = "param" => ParamInv
    BY ParamInit DEF HubInit
  <1>6. PhonesInv
    BY PhonesInit DEF HubInit, PhonesIdle
  <1>. QED BY <1>1, <1>2, <1>3, <1>4, <1>5, <1>6 DEF HubPart

\* A step of one part leaves the others alone; the case stays.
LEMMA HubGoesOn == ASSUME HubPart, [HubNext]_hubVars PROVE HubPart'
  <1>0. case' = case
    BY DEF HubNext, hubVars
  <1>1. ASSUME case = "viewers" PROVE HubInv'
    <2>1. [Next]_vars
      BY DEF HubNext, hubVars
    <2>. QED BY <1>1, <2>1, HubKept DEF HubPart
  <1>2. ASSUME NEW n \in DOMAIN ModeCases, case = n PROVE ModesInv(ModeCases[n])'
    <2>1. [M(ModeCases[n])!Next]_modes
      BY <1>2 DEF HubNext, hubVars
    <2>. QED BY <1>2, <2>1, CasesAre, ModesStep DEF HubPart
  <1>3. ASSUME NEW n \in DOMAIN SearchCases, case = n PROVE SearchInv(SearchCases[n])'
    <2>1. [F(SearchCases[n])!Next]_search
      BY <1>3 DEF HubNext, hubVars
    <2>. QED BY <1>3, <2>1, CasesAre, SearchStep DEF HubPart
  <1>4. ASSUME NEW n \in DOMAIN MessageCases, case = n PROVE MessagesInv(MessageCases[n])'
    <2>1. [G(MessageCases[n])!Next]_messages
      BY <1>4 DEF HubNext, hubVars
    <2>. QED BY <1>4, <2>1, CasesAre, MessagesStep DEF HubPart
  <1>5. ASSUME case = "param" PROVE ParamInv'
    <2>1. [P!Next]_param
      BY DEF HubNext, hubVars
    <2>. QED BY <1>5, <2>1, ParamStep DEF HubPart
  <1>6. ASSUME case = "phones" PROVE PhonesInv'
    <2>1. [W!Next]_phones
      BY DEF HubNext, hubVars
    <2>. QED BY <1>6, <2>1, PhonesStep DEF HubPart
  <1>. QED BY <1>0, <1>1, <1>2, <1>3, <1>4, <1>5, <1>6 DEF HubPart

\* Every part of the hub is as its invariant says.
THEOREM PartsAlways == HubSpec => []HubPart
  <1>1. HubInit => HubPart
    BY HubStarted
  <1>2. HubPart /\ [HubNext]_hubVars => HubPart'
    BY HubGoesOn
  <1>. QED BY <1>1, <1>2, PTL DEF HubSpec

\* Every part keeps its types: counters, queues, tables and the flags of the switch, the
\* search, the parameter, the messages and the phones (switch.py, hub.py, sip_client.py,
\* __init__.py).
THEOREM PartsTyped == HubSpec => []HubTyped
  <1>1. HubPart => HubTyped
    <2>. SUFFICES ASSUME HubPart PROVE HubTyped
      OBVIOUS
    <2>1. case = "viewers" => TypeOK
      BY DEF HubPart, HubInv
    <2>2. \A n \in DOMAIN ModeCases : case = n => M(ModeCases[n])!TypeOK
      BY CasesAre, ModesOk DEF HubPart
    <2>3. \A n \in DOMAIN SearchCases : case = n => F(SearchCases[n])!TypeOK
      BY CasesAre, SearchOk DEF HubPart
    <2>4. \A n \in DOMAIN MessageCases : case = n => G(MessageCases[n])!TypeOK
      BY CasesAre, MessagesOk DEF HubPart
    <2>5. /\ case = "param" => P!TypeOK
          /\ case = "phones" => W!TypeOK
      BY ParamOk, PhonesOk DEF HubPart
    <2>. QED BY <2>1, <2>2, <2>3, <2>4, <2>5 DEF HubTyped
  <1>. QED BY <1>1, PartsAlways, PTL

\* What the plant answers is believed for the right command, whoever uses the switch, the
\* select and the search, and in whatever order the answers come (switch.py,
\* async_set_apt_param, async_find_picg).
THEOREM AnswersBelieved == HubSpec => []PlantAnswers
  <1>1. HubPart => PlantAnswers
    <2>. SUFFICES ASSUME HubPart PROVE PlantAnswers
      OBVIOUS
    <2>1. ASSUME NEW n \in DOMAIN ModeCases, case = n
          PROVE  /\ M(ModeCases[n])!NewsWins
                 /\ M(ModeCases[n])!ShowsWhatWasTold
                 /\ ModeCases[n].obeys /\ ModeCases[n].lost = 0 => M(ModeCases[n])!OneAnswers
      BY <2>1, CasesAre, ModesOk DEF HubPart
    <2>2. ASSUME NEW n \in DOMAIN SearchCases, case = n
          PROVE  /\ F(SearchCases[n])!SearchEnds
                 /\ F(SearchCases[n])!NamesTheRight
                 /\ F(SearchCases[n])!NothingMissed
      BY <2>2, CasesAre, SearchOk DEF HubPart
    <2>3. case = "param" => P!ToldTruly /\ P!KnowsTheDelay
      BY ParamOk DEF HubPart
    <2>. QED BY <2>1, <2>2, <2>3 DEF PlantAnswers
  <1>. QED BY <1>1, PartsAlways, PTL

\* However often a message is repeated, the hub is told of it once, answers nothing it was
\* not told, and says of a door that it is open only when it is (_process_request,
\* async_door).
THEOREM ToldOfOnce == HubSpec => []MessagesOnce
  <1>1. HubPart => MessagesOnce
    BY CasesAre, MessagesOk DEF HubPart, MessagesOnce
  <1>. QED BY <1>1, PartsAlways, PTL

\* No phone is sent a NAL that follows a hole, and one that reads in time waits for no
\* parameter set, however slow the others are (_ws_send_bytes, _drain).
THEOREM NoPhoneWaits == HubSpec => []PhonesServed
  <1>1. HubPart => PhonesServed
    BY PhonesOk DEF HubPart, PhonesServed
  <1>. QED BY <1>1, PartsAlways, PTL
=============================================================================
