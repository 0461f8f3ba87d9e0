------------------------------- MODULE WsClients -------------------------------
(***************************************************************************)
(* The phones and cards on the WebSocket (__init__.py, views.py): one queue   *)
(* and one sender for each, so that a slow one loses its own packets and      *)
(* nobody else waits.  What the media loops hand over is video NALs, numbered  *)
(* here, and voice.                                                          *)
(***************************************************************************)
EXTENDS Naturals, Sequences, FiniteSets

CONSTANTS
    Clients,
    Gop,        \* what the panel repeats: a sequence of NAL types, "sps" first
    Limit,      \* WS_CLIENT_QUEUE
    MaxVideo,   \* bound: NALs of the stream
    MaxVoice,   \* bound: packets of voice
    None

VARIABLES
    clients,    \* audio_ws_clients
    state,      \* of each connection: "away", "open", "closed"
    senders,    \* its queue, or None
    resync,
    video,      \* NALs so far
    voice,
    last,       \* (history) the last NAL each client was sent, since its first SPS
    smeared     \* (history) those sent a NAL that follows a hole

vars == <<clients, state, senders, resync, video, voice, last, smeared>>

Init ==
    /\ clients = {} /\ state = [c \in Clients |-> "away"]
    /\ senders = [c \in Clients |-> None] /\ resync = {}
    /\ video = 0 /\ voice = 0
    /\ last = [c \in Clients |-> 0] /\ smeared = {}

Nal(n) == [n |-> n, t |-> Gop[((n - 1) % Len(Gop)) + 1]]
Voice == [n |-> 0, t |-> "voice"]
IsVideo(p) == p.t # "voice"

-----------------------------------------------------------------------------
(* _ws_send_bytes.                                                            *)

\* One client's queue and whether it waits for an SPS, after a packet: a full queue is
\* dropped whole.
Dropped_Oldest(q) == IF Len(q) >= Limit THEN Tail(q) ELSE q
Dropped(q) == IF Len(q) >= Limit THEN <<>> ELSE q
Queued(s, p) ==
    LET waits == s.waits \/ Len(s.q) >= Limit
        skips == waits /\ IsVideo(p) /\ p.t # "sps"
    IN IF skips THEN [q |-> Dropped(s.q), waits |-> TRUE]
       ELSE [q |-> Append(Dropped(s.q), p), waits |-> waits /\ ~IsVideo(p)]

Now(c) ==
    [q |-> IF senders[c] = None THEN <<>> ELSE senders[c], waits |-> c \in resync /\ senders[c] # None]
Offered(c, packets) ==
    LET Q[n \in 0 .. Len(packets)] == IF n = 0 THEN Now(c) ELSE Queued(Q[n - 1], packets[n])
    IN Q[Len(packets)]

\* The senders of clients that are gone are stopped first.
Hand(packets, to) ==
    LET After(c) == IF c \in to THEN Offered(c, packets) ELSE Now(c)
    IN /\ senders' = [c \in Clients |->
                        IF c \notin clients' THEN None
                        ELSE IF senders[c] = None /\ c \notin to THEN None ELSE After(c).q]
       /\ resync' = { c \in clients' : After(c).waits }

Video ==
    /\ video < MaxVideo
    /\ video' = video + 1
    /\ UNCHANGED clients
    /\ Hand(<<Nal(video + 1)>>, clients)
    /\ UNCHANGED <<state, voice, last, smeared>>
Speech ==
    /\ voice < MaxVoice
    /\ voice' = voice + 1
    /\ UNCHANGED clients
    /\ Hand(<<Voice>>, clients)
    /\ UNCHANGED <<state, video, last, smeared>>

\* A new connection is handed the group so far (replay_gop_ws), and only it.
Group ==
    LET starts == { n \in 1 .. video : Nal(n).t = "sps" }
    IN IF starts = {} THEN <<>>
       ELSE LET first == CHOOSE n \in starts : \A m \in starts : m <= n
            IN [k \in 1 .. video - first + 1 |-> Nal(first + k - 1)]
Opens(c) ==
    /\ state[c] = "away"
    /\ state' = [state EXCEPT ![c] = "open"]
    /\ clients' = clients \cup {c}
    /\ Hand(Group, {c})
    /\ UNCHANGED <<video, voice, last, smeared>>

-----------------------------------------------------------------------------
(* _drain, one client at a time, as fast as it reads.                         *)

Follows(c, p) == p.t = "sps" \/ last[c] = 0 \/ p.n = last[c] + 1
Sends(c) ==
    /\ c \in clients /\ senders[c] # None /\ senders[c] # <<>>
    /\ LET p == Head(senders[c]) IN
       /\ senders' = [senders EXCEPT ![c] = Tail(@)]
       /\ last' = IF IsVideo(p) /\ (last[c] # 0 \/ p.t = "sps") THEN [last EXCEPT ![c] = p.n] ELSE last
       /\ smeared' = IF IsVideo(p) /\ ~Follows(c, p) THEN smeared \cup {c} ELSE smeared
    /\ UNCHANGED <<clients, state, resync, video, voice>>

\* A send that fails, or the end of the connection: its sender is stopped at the next packet.
Leaves(c) ==
    /\ state[c] = "open"
    /\ state' = [state EXCEPT ![c] = "closed"]
    /\ clients' = clients \ {c}
    /\ UNCHANGED <<senders, resync, video, voice, last, smeared>>

Next ==
    \/ Video \/ Speech
    \/ \E c \in Clients : Opens(c) \/ Sends(c) \/ Leaves(c)

Spec == Init /\ [][Next]_vars
-----------------------------------------------------------------------------
TypeOK ==
    /\ clients \subseteq Clients /\ resync \subseteq Clients
    /\ \A c \in Clients : senders[c] = None \/ Len(senders[c]) <= Limit

\* A client is sent a NAL only after the one before it: what a slow client loses ends at an
\* SPS, and so does what it lost of the group it was handed when it came.
NoHoles == smeared = {}

\* A client that lost packets waits for the next SPS, and no other client does.
OnlyTheSlow == \A c \in clients : (c \in resync /\ senders[c] # None) =>
    \A n \in DOMAIN senders[c] : ~IsVideo(senders[c][n])
=============================================================================
