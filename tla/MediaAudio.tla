----------------------------- MODULE MediaAudio -----------------------------
(***************************************************************************)
(* The voice of the panel (RTPAudioProtocol, media_handler.py): 20 ms blocks *)
(* put back in order, a lost one replaced by the one before, a sender that   *)
(* jumps followed after a few packets, and the queue to the WebSocket.       *)
(***************************************************************************)
EXTENDS Integers, Sequences, FiniteSets

CONSTANTS
    SeqMod,       \* 2^16
    ReorderMax,   \* REORDER_MAX, 3
    ConcealMax,   \* CONCEAL_MAX, 3
    ResyncLate,   \* RESYNC_LATE, 5
    QueueSize,    \* of audio_buffer, 50
    Starts,       \* first sequence numbers
    Flight,       \* bound: packets on the path at a time
    MaxSent,      \* bound: packets sent
    MaxStreams,   \* bound: streams (SSRCs), over all calls
    MaxCalls,     \* bound: calls
    MaxJumps,     \* bound: jumps of the sender within an SSRC
    None

VARIABLES
    call, open,            \* calls so far; remote_addr is set
    stream, seq, sent, jumps,   \* the sender: its SSRC, next number, packets and jumps so far
    wire,                  \* packets on the path
    next, ssrc, buf, late, \* _a_next, _a_ssrc, _a_buf, _a_late
    looping,               \* in the loop of _reorder
    audio_buffer,          \* the blocks for the WebSocket, each with its call
    told,                  \* the block _audio_broadcast is sending
    steady,                \* history: every gap was filled and nothing was resynchronised ...
    first, blocks          \* history: ... since the packet `first`; blocks played since

sender == <<stream, seq, sent, jumps>>
order == <<next, ssrc, buf, late, looping>>
played == <<steady, first, blocks>>
vars == <<call, open, sender, wire, order, audio_buffer, told, played>>

Back(p) == (next - p.seq) % SeqMod
Ahead(p) == (p.seq - next) % SeqMod
Half == SeqMod \div 2

Init ==
    /\ call = 0 /\ open = FALSE
    /\ stream = 0 /\ seq \in Starts /\ sent = 0 /\ jumps = 0 /\ wire = {}
    /\ next = None /\ ssrc = None /\ buf = {} /\ late = 0 /\ looping = FALSE
    /\ audio_buffer = <<>> /\ told = None
    /\ steady = FALSE /\ first = None /\ blocks = 0

ResetOrder == next' = None /\ ssrc' = None /\ buf' = {} /\ late' = 0

\* setup_media(): another _audio_broadcast task is started.
SetupMedia ==
    /\ ~looping /\ ~open /\ call < MaxCalls /\ stream < MaxStreams
    /\ call' = call + 1 /\ open' = TRUE
    /\ stream' = stream + 1 /\ seq' \in Starts
    /\ ResetOrder
    /\ UNCHANGED <<sent, jumps, wire, looping, audio_buffer, told, played>>

\* The queue is not emptied.
StopMedia_KeepsQueue ==
    /\ ~looping /\ open
    /\ open' = FALSE /\ told' = None /\ UNCHANGED audio_buffer
    /\ ResetOrder
    /\ UNCHANGED <<call, sender, wire, looping, played>>

\* stop_media(): the task is cancelled, the queue emptied.
StopMedia ==
    /\ ~looping /\ open
    /\ open' = FALSE /\ told' = None /\ audio_buffer' = <<>>
    /\ ResetOrder
    /\ UNCHANGED <<call, sender, wire, looping, played>>

Send ==
    /\ ~looping /\ stream > 0 /\ sent < MaxSent /\ Cardinality(wire) < Flight
    /\ wire' = wire \cup {[ssrc |-> stream, n |-> sent, seq |-> seq, jump |-> jumps]}
    /\ seq' = (seq + 1) % SeqMod /\ sent' = sent + 1
    /\ UNCHANGED <<call, open, stream, jumps, order, audio_buffer, told, played>>

\* A B2BUA or a relay goes on from another number, or with another SSRC.
Jump ==
    /\ ~looping /\ sent > 0
    /\ seq' \in Starts
    /\ \/ jumps < MaxJumps /\ jumps' = jumps + 1 /\ UNCHANGED stream
       \/ stream < MaxStreams /\ stream' = stream + 1 /\ UNCHANGED jumps
    /\ UNCHANGED <<call, open, sent, wire, order, audio_buffer, told, played>>

Vanishes(p) ==
    /\ ~looping /\ wire' = wire \ {p}
    /\ UNCHANGED <<call, open, sender, order, audio_buffer, told, played>>

-----------------------------------------------------------------------------
(* _reorder: the packet goes into the buffer, then the loop runs until it    *)
(* returns.                                                                  *)

Starting(p) == p.ssrc # ssrc \/ next = None
Late(p) == ~Starting(p) /\ Back(p) \in 1 .. Half - 1

Waits(p, b) ==
    /\ late' = 0
    /\ IF \E q \in b : q.seq = p.seq THEN buf' = b /\ UNCHANGED looping
       ELSE buf' = b \cup {p} /\ looping' = TRUE
Begins(p) ==
    /\ Starting(p)
    /\ ssrc' = p.ssrc /\ next' = p.seq /\ Waits(p, {})
    /\ steady' = TRUE /\ first' = p /\ blocks' = 0
OnTime(p) ==
    /\ ~Starting(p) /\ ~Late(p)
    /\ Waits(p, buf)
    /\ UNCHANGED <<next, ssrc, played>>
TooLate(p) ==
    /\ Late(p) /\ late + 1 < ResyncLate
    /\ late' = late + 1
    /\ UNCHANGED <<next, ssrc, buf, looping, played>>
Resyncs(p) ==
    /\ Late(p) /\ late + 1 >= ResyncLate
    /\ next' = p.seq /\ Waits(p, {})
    /\ steady' = FALSE
    /\ UNCHANGED <<ssrc, first, blocks>>

Arrives(p) ==
    /\ ~looping
    /\ wire' \in {wire, wire \ {p}}
    /\ \/ open /\ (Begins(p) \/ OnTime(p) \/ TooLate(p) \/ Resyncs(p))
       \/ ~open /\ UNCHANGED <<order, played>>
    /\ UNCHANGED <<call, open, sender, audio_buffer, told>>

\* _emit(): a full queue loses its oldest block.
Emitted(q, k) == LET r == q \o [i \in 1 .. k |-> call] IN
                 IF Len(r) > QueueSize THEN SubSeq(r, Len(r) - QueueSize + 1, Len(r)) ELSE r

InTurn == { p \in buf : p.seq = next }
Plays(p) ==
    /\ looping /\ p \in InTurn
    /\ buf' = buf \ {p} /\ next' = (next + 1) % SeqMod
    /\ audio_buffer' = Emitted(audio_buffer, 1) /\ blocks' = IF steady THEN blocks + 1 ELSE 0
    /\ UNCHANGED <<call, open, sender, wire, ssrc, late, looping, told, steady, first>>

\* The missing ones are given up and filled in, up to a limit.
Conceals ==
    /\ looping /\ InTurn = {} /\ Cardinality(buf) > ReorderMax
    /\ \E p \in buf : LET gap == Ahead(p)
                          fill == IF gap <= ConcealMax THEN gap ELSE ConcealMax IN
        /\ \A q \in buf : gap <= Ahead(q)
        /\ next' = p.seq
        /\ steady' = (steady /\ fill = gap)
        /\ audio_buffer' = Emitted(audio_buffer, fill) /\ blocks' = IF steady' THEN blocks + fill ELSE 0
    /\ UNCHANGED <<call, open, sender, wire, ssrc, buf, late, looping, told, first>>

Rests ==
    /\ looping /\ InTurn = {} /\ Cardinality(buf) <= ReorderMax
    /\ looping' = FALSE
    /\ UNCHANGED <<call, open, sender, wire, next, ssrc, buf, late, audio_buffer, told, played>>

-----------------------------------------------------------------------------
(* _audio_broadcast                                                          *)

Takes ==
    /\ ~looping /\ open /\ told = None /\ audio_buffer # <<>>
    /\ told' = Head(audio_buffer) /\ audio_buffer' = Tail(audio_buffer)
    /\ UNCHANGED <<call, open, sender, wire, order, played>>
Told ==
    /\ ~looping /\ told # None /\ told' = None
    /\ UNCHANGED <<call, open, sender, wire, order, audio_buffer, played>>

Next ==
    \/ SetupMedia \/ StopMedia \/ Send \/ Jump
    \/ \E p \in wire : Arrives(p) \/ Vanishes(p)
    \/ \E p \in buf : Plays(p)
    \/ Conceals \/ Rests \/ Takes \/ Told
Spec == Init /\ [][Next]_vars

-----------------------------------------------------------------------------
(* Properties.                                                               *)

TypeOK ==
    /\ call \in Nat /\ open \in BOOLEAN
    /\ stream \in Nat /\ seq \in 0 .. SeqMod - 1 /\ sent \in Nat /\ jumps \in Nat
    /\ wire \cup buf \subseteq [ssrc : Nat, n : Nat, seq : 0 .. SeqMod - 1, jump : Nat]
    /\ next \in 0 .. SeqMod - 1 \cup {None} /\ ssrc \in Nat \cup {None}
    /\ late \in 0 .. ResyncLate - 1 /\ looping \in BOOLEAN
    /\ audio_buffer \in Seq(Nat) /\ told \in Nat \cup {None}
    /\ steady \in BOOLEAN /\ blocks \in Nat

\* Between two packets at most REORDER_MAX wait, none of them the one that is due: the loop
\* of _reorder gives up a gap, however the numbers jump, and holds no voice back.
HeldFew == ~looping => Cardinality(buf) <= ReorderMax /\ InTurn = {}

\* While the numbers run on and no gap is too long to fill, every packet is played at its
\* time: once, in order, as many blocks after the first as it was sent after it (_reorder,
\* _conceal).
PlaysInTime == \A p \in buf : Plays(p) /\ steady /\ p.jump = first.jump => blocks = p.n - first.n
InTime == [][PlaysInTime]_vars

\* The WebSocket gets the voice of the call that is open, though the queue outlives the
\* call and _audio_broadcast is started again for each (setup_media, stop_media).
TakesCurrent == Takes => told' = call
VoiceOfCall == [][TakesCurrent]_vars

=============================================================================
