----------------------------- MODULE MediaVideo -----------------------------
(***************************************************************************)
(* The video of a call (RTPVideoProtocol, media_handler.py): RTP packets of  *)
(* the panel put back in order, H.264 NAL units put together from them, the  *)
(* queue of the WebSocket viewers, and the group of pictures kept for those  *)
(* who come late.  The panel repeats a fixed group; the path loses, repeats  *)
(* and reorders its packets.                                                 *)
(***************************************************************************)
EXTENDS Integers, Sequences, FiniteSets

CONSTANTS
    SeqMod,      \* 2^16
    BufSize,     \* REORDER_BUF_SIZE, 512
    QueueSize,   \* of _nal_queue, 500
    MaxGop,      \* messages kept in _gop_msgs, 150
    Groups,      \* what a panel may repeat: sequences of [t, part]
    Panels,
    Starts,      \* first sequence numbers
    Flight,      \* bound: packets on the path at a time
    MaxSent,     \* bound: packets of one stream
    MaxStreams,  \* bound: streams (SSRCs), over all calls
    MaxCalls,    \* bound: calls
    MaxJoins,    \* bound: viewers that come late
    None

VARIABLES
    call,      \* calls so far
    open,      \* remote_addr is set
    panel,     \* of this call
    group,     \* what the panels repeat
    start, stream, sent,   \* the stream: its first number, its SSRC, its packets so far
    begun,     \* history: the first stream of the call
    wire,      \* packets on the path
    next, ssrc, buf, gap, looping,   \* _next_seq, _ssrc, _reorder_buf, _gap_at, in the loop
    fua,       \* _fua_buf and _fua_expected_seq: the packets collected
    gop,       \* _gop: packets for /av; gop_ts
    out,       \* _last_sps ... _nal_queue: see Fresh
    item,      \* what _nal_sender is sending
    joins,
    short,     \* history: a replay found the queue full
    dec        \* history: what each viewer was sent last

panelVars == <<panel, group, start, stream, sent, begun>>
order == <<next, ssrc, buf, gap, looping>>
vars == <<call, open, panelVars, wire, order, fua, gop, out, item, joins, short, dec>>

Viewers == {"first", "late"}

-----------------------------------------------------------------------------
(* The packets.  Packet n of a stream holds member n of the repeated group.  *)

Kind(n) == group[(n % Len(group)) + 1]
\* SPS, PPS and IDR have one timestamp; every other picture has its own.
Picture(n) == Kind(n).t \in {"idr", "p"} /\ Kind(n).part \in {"whole", "end"}
Stamp(n) == CHOOSE m \in n .. n + Len(group) : Picture(m) /\ \A o \in n .. m - 1 : ~Picture(o)
\* The picture before, and the packets of the NAL unit that packet n ends.
Before(n) == CHOOSE m \in n - Len(group) .. n - 1 : Picture(m) /\ \A o \in m + 1 .. n - 1 : ~Picture(o)
Starting(n) == CHOOSE m \in n - Len(group) .. n :
                  Kind(m).part \in {"whole", "start"} /\ \A o \in m + 1 .. n : Kind(o).part \notin {"whole", "start"}
Whole(n) == Starting(n) .. n

-----------------------------------------------------------------------------
(* _emit_nal, _flush_params_and_idr and _queue_nal, as functions of the state *)
(* `o`.  A NAL unit is [t, panel, at]; `at` is its stream and last packet.    *)

\* What setup_media leaves of it.
Fresh(o, p) == [o EXCEPT
    !.sps = IF p \in o.stored THEN p ELSE None, !.pps = IF p \in o.stored THEN p ELSE None,
    !.ready = FALSE, !.pending = None, !.drop = FALSE, !.hdr = <<>>, !.gop = <<>>]

ToAll(x) == [to |-> "all", nal |-> x]
AllOf(s) == [i \in DOMAIN s |-> ToAll(s[i])]
Param(t, p) == [t |-> t, panel |-> p, at |-> None]

Remembered(o, x) ==
    CASE x.t = "sps" -> [o EXCEPT !.hdr = <<x>>]
      [] x.t = "pps" -> [o EXCEPT !.hdr = Append(@, x)]
      [] x.t = "idr" -> [o EXCEPT !.gop = Append(o.hdr, x), !.drop = FALSE]
      [] x.t = "p"   -> [o EXCEPT !.gop = IF @ = <<>> \/ Len(@) = MaxGop THEN <<>> ELSE Append(@, x)]

\* With room for one more.
\* A full queue is emptied and goes on from the next IDR, or from this one.
Queue(o, x) ==
    LET r == Remembered(o, x) IN
    IF Len(r.queue) < QueueSize THEN [r EXCEPT !.queue = Append(@, ToAll(x))]
    ELSE IF x.t = "idr" THEN [r EXCEPT !.queue = AllOf(r.gop)]
    ELSE [r EXCEPT !.drop = TRUE, !.gop = <<>>, !.queue = IF x.t = "p" THEN <<>> ELSE <<ToAll(x)>>]

Params(o) == Queue(Queue(o, Param("sps", o.sps)), Param("pps", o.pps))
Flush(o) ==
    LET f == [Params(o) EXCEPT !.ready = TRUE] IN
    IF f.pending = None THEN f ELSE [Queue(f, f.pending) EXCEPT !.pending = None]

Learn(o, x) ==
    LET l == IF x.t = "sps" THEN [o EXCEPT !.sps = x.panel] ELSE [o EXCEPT !.pps = x.panel]
    IN IF None \in {l.sps, l.pps} THEN l ELSE [l EXCEPT !.stored = @ \cup {x.panel}]

EmitParam(o, x) == LET l == Learn(o, x) IN IF None \in {l.sps, l.pps} THEN l ELSE Flush(l)
EmitIdr(o, x) ==
    LET i == [o EXCEPT !.drop = FALSE] IN
    IF i.ready THEN Queue(Params(i), x) ELSE [i EXCEPT !.pending = x]
EmitPicture(o, x) == IF o.drop \/ ~o.ready THEN o ELSE Queue(o, x)

EmitNal(o, x) ==
    CASE x.t \in {"sps", "pps"} -> EmitParam(o, x)
      [] x.t = "idr" -> EmitIdr(o, x)
      [] x.t = "p" -> EmitPicture(o, x)

Lost_Unmarked(o) == o
\* _lost()
Lost(o) == [o EXCEPT !.drop = TRUE]

\* _depacketize: the NAL units of packet p.
Emits(p) ==
    IF Kind(p.n).t = "stap" THEN EmitNal(EmitNal(out, Param("sps", panel)), Param("pps", panel))
    ELSE IF Kind(p.n).t \in {"sps", "pps"} THEN EmitNal(out, Param(Kind(p.n).t, panel))
    ELSE EmitNal(out, [t |-> Kind(p.n).t, panel |-> panel, at |-> <<p.ssrc, p.n>>])

-----------------------------------------------------------------------------

Init ==
    /\ call = 0 /\ open = FALSE /\ panel \in Panels /\ group \in Groups
    /\ start \in Starts /\ stream = 0 /\ sent = 0 /\ begun = 0
    /\ wire = {}
    /\ next = None /\ ssrc = None /\ buf = {} /\ gap = "none" /\ looping = FALSE
    /\ fua = {} /\ gop = [ts |-> None, rtp |-> {}]
    /\ out = [sps |-> None, pps |-> None, stored |-> {}, ready |-> FALSE, pending |-> None,
              drop |-> FALSE, hdr |-> <<>>, gop |-> <<>>, queue |-> <<>>]
    /\ item = None /\ joins = 0 /\ short = FALSE
    /\ dec = [v \in Viewers |-> [here |-> v = "first", sps |-> None, pps |-> None, at |-> None]]

NewStream == stream' = stream + 1 /\ sent' \in 0 .. Len(group) - 1 /\ start' \in Starts

\* setup_media(), with a panel that is in the middle of its group.  What the path still held
\* of the call before came while no call was open.
SetupMedia ==
    /\ ~looping /\ ~open /\ call < MaxCalls /\ stream < MaxStreams
    /\ call' = call + 1 /\ open' = TRUE
    /\ panel' \in Panels /\ NewStream /\ begun' = stream'
    /\ out' = Fresh(out, panel')
    /\ next' = None /\ buf' = {} /\ gap' = "none"
    /\ fua' = {} /\ gop' = [ts |-> None, rtp |-> {}]
    /\ wire' = {}
    /\ UNCHANGED <<group, ssrc, looping, item, joins, short, dec>>

\* stop_media(): what is queued for the viewers stays.
StopMedia ==
    /\ ~looping /\ open
    /\ open' = FALSE /\ fua' = {} /\ gop' = [ts |-> None, rtp |-> {}]
    /\ out' = [out EXCEPT !.gop = <<>>, !.hdr = <<>>]
    /\ UNCHANGED <<call, panelVars, wire, order, item, joins, short, dec>>

\* The panel's encoder or the relay starts again, with an IDR.
Restart ==
    /\ ~looping /\ open /\ stream < MaxStreams /\ sent > 0
    /\ NewStream /\ sent' = 0
    /\ UNCHANGED <<call, open, panel, group, begun, wire, order, fua, gop, out, item, joins, short, dec>>

Send ==
    /\ ~looping /\ stream > 0 /\ sent < MaxSent /\ Cardinality(wire) < Flight
    /\ wire' = wire \cup {[ssrc |-> stream, n |-> sent, seq |-> (start + sent) % SeqMod]}
    /\ sent' = sent + 1
    /\ UNCHANGED <<call, open, panel, group, start, stream, begun, order, fua, gop, out, item, joins, short, dec>>

Vanishes(p) ==
    /\ ~looping /\ wire' = wire \ {p}
    /\ UNCHANGED <<call, open, panelVars, order, fua, gop, out, item, joins, short, dec>>

-----------------------------------------------------------------------------
(* datagram_received and _reorder: the packet goes into the buffer, then the *)
(* loop runs until it returns.                                               *)

Resyncs(p) == next # None /\ p.ssrc # ssrc
Late(p) == next # None /\ p.ssrc = ssrc /\ (next - p.seq) % SeqMod \in 1 .. SeqMod \div 2
Waiting(p) == p \in IF Resyncs(p) THEN {} ELSE buf

\* _cache_gop
Resets(n) == Kind(n).t \in {"sps", "pps", "stap"} \/ (Kind(n).t = "idr" /\ Kind(n).part \in {"whole", "start"})
Cached(p) ==
    IF Resets(p.n) /\ gop.ts # <<p.ssrc, Stamp(p.n)>>
    THEN [ts |-> <<p.ssrc, Stamp(p.n)>>, rtp |-> {p}]
    ELSE IF gop.ts = None THEN gop ELSE [gop EXCEPT !.rtp = @ \cup {p}]

Reorder(p) ==
    /\ open /\ ~Late(p)
    /\ next' = IF next = None \/ Resyncs(p) THEN p.seq ELSE next
    /\ ssrc' = IF next = None \/ Resyncs(p) THEN p.ssrc ELSE ssrc
    /\ buf' = (IF Resyncs(p) THEN {} ELSE buf) \cup {p}
    /\ fua' = IF Resyncs(p) THEN {} ELSE fua
    /\ gop' = IF Waiting(p) THEN gop ELSE Cached(p)
    /\ looping' = TRUE
    /\ UNCHANGED gap
Ignored(p) == (~open \/ Late(p)) /\ UNCHANGED <<order, fua, gop>>

Arrives(p) ==
    /\ ~looping
    /\ wire' \in {wire, wire \ {p}}
    /\ Reorder(p) \/ Ignored(p)
    /\ UNCHANGED <<call, open, panelVars, out, item, joins, short, dec>>

First(f) == CHOOSE p \in f : \A q \in f : p.n <= q.n
Continues(p) == fua # {} /\ p.seq = (First(fua).seq + Cardinality(fua)) % SeqMod
Depacketize(p) ==
    \/ Kind(p.n).part = "whole" /\ out' = Emits(p) /\ UNCHANGED fua
    \/ Kind(p.n).part = "start" /\ fua' = {p} /\ UNCHANGED out
    \/ Kind(p.n).part = "mid" /\ Continues(p) /\ fua' = fua \cup {p} /\ UNCHANGED out
    \/ Kind(p.n).part = "end" /\ Continues(p) /\ fua' = {} /\ out' = Emits(p)
    \/ Kind(p.n).part \in {"mid", "end"} /\ fua = {} /\ UNCHANGED <<fua, out>>
    \/ /\ Kind(p.n).part \in {"mid", "end"} /\ fua # {} /\ ~Continues(p)
       /\ fua' = {} /\ out' = Lost(out)

InTurn == { p \in buf : p.seq = next }
Pops(p) ==
    /\ looping /\ p \in InTurn
    /\ buf' = buf \ {p} /\ next' = (next + 1) % SeqMod /\ gap' = "none"
    /\ Depacketize(p)
    /\ UNCHANGED <<call, open, panelVars, wire, ssrc, looping, gop, item, joins, short, dec>>

\* The gap will not be filled: to the first packet there is.
GivesUp == buf # {} /\ (Cardinality(buf) > BufSize \/ gap = "old")
Ahead(p) == (p.seq - next) % SeqMod
Skips ==
    /\ looping /\ InTurn = {} /\ GivesUp
    /\ \E p \in buf : (\A q \in buf : Ahead(p) <= Ahead(q)) /\ next' = p.seq
    /\ gap' = "none" /\ out' = Lost(out)
    /\ UNCHANGED <<call, open, panelVars, wire, ssrc, buf, looping, fua, gop, item, joins, short, dec>>

Rests ==
    /\ looping /\ InTurn = {} /\ ~GivesUp
    /\ looping' = FALSE
    /\ gap' = IF buf # {} /\ gap = "none" THEN "young" ELSE gap
    /\ UNCHANGED <<call, open, panelVars, wire, next, ssrc, buf, fua, gop, out, item, joins, short, dec>>

\* REORDER_WAIT passes.
Ages ==
    /\ ~looping /\ gap = "young" /\ gap' = "old"
    /\ UNCHANGED <<call, open, panelVars, wire, next, ssrc, buf, looping, fua, gop, out, item, joins, short, dec>>

-----------------------------------------------------------------------------
(* _nal_sender and its viewers.                                              *)

Takes ==
    /\ ~looping /\ item = None /\ out.queue # <<>>
    /\ item' = Head(out.queue) /\ out' = [out EXCEPT !.queue = Tail(@)]
    /\ UNCHANGED <<call, open, panelVars, wire, order, fua, gop, joins, short, dec>>

Told(v) == dec[v].here /\ item.to \in {"all", v}
HasParams(v) == dec[v].sps = item.nal.panel /\ dec[v].pps = item.nal.panel
Sent ==
    /\ ~looping /\ item # None
    /\ dec' = [v \in Viewers |->
                 IF ~Told(v) THEN dec[v]
                 ELSE CASE item.nal.t = "sps" -> [dec[v] EXCEPT !.sps = item.nal.panel]
                        [] item.nal.t = "pps" -> [dec[v] EXCEPT !.pps = item.nal.panel]
                        [] item.nal.t = "idr" -> [dec[v] EXCEPT !.at = IF HasParams(v) THEN item.nal.at ELSE None]
                        [] item.nal.t = "p" -> [dec[v] EXCEPT !.at = IF @ = None THEN None ELSE item.nal.at]]
    /\ item' = None
    /\ UNCHANGED <<call, open, panelVars, wire, order, fua, gop, out, joins, short>>

\* replay_gop_ws(): a full queue cuts it short.
Replay(q) == LET r == [i \in DOMAIN out.gop |-> [to |-> "late", nal |-> out.gop[i]]]
             IN q \o SubSeq(r, 1, IF Len(r) < QueueSize - Len(q) THEN Len(r) ELSE QueueSize - Len(q))
Joins ==
    /\ ~looping /\ ~dec["late"].here /\ joins < MaxJoins
    /\ joins' = joins + 1 /\ short' = (Len(out.queue \o out.gop) > QueueSize)
    /\ dec' = [dec EXCEPT !["late"].here = TRUE]
    /\ out' = [out EXCEPT !.queue = Replay(@)]
    /\ UNCHANGED <<call, open, panelVars, wire, order, fua, gop, item>>

Next ==
    \/ SetupMedia \/ StopMedia \/ Restart \/ Send
    \/ \E p \in wire : Arrives(p) \/ Vanishes(p)
    \/ \E p \in buf : Pops(p)
    \/ Skips \/ Rests \/ Ages \/ Takes \/ Sent \/ Joins
Spec == Init /\ [][Next]_vars

-----------------------------------------------------------------------------
(* Properties.                                                               *)

TypeOK ==
    /\ call \in 0 .. MaxCalls /\ open \in BOOLEAN
    /\ panel \in Panels /\ group \in Groups /\ start \in 0 .. SeqMod - 1
    /\ stream \in 0 .. MaxStreams /\ sent \in Nat /\ begun \in 0 .. stream
    /\ wire \cup buf \cup fua \cup gop.rtp \subseteq [ssrc : 1 .. stream, n : Nat, seq : 0 .. SeqMod - 1]
    /\ next \in 0 .. SeqMod - 1 \cup {None} /\ ssrc \in 0 .. stream \cup {None}
    /\ gap \in {"none", "young", "old"} /\ looping \in BOOLEAN
    /\ {out.sps, out.pps} \subseteq Panels \cup {None} /\ out.stored \subseteq Panels
    /\ out.ready \in BOOLEAN /\ out.drop \in BOOLEAN
    /\ Len(out.queue) <= QueueSize /\ Len(out.gop) <= MaxGop
    /\ joins \in 0 .. MaxJoins /\ short \in BOOLEAN

\* In the first stream of a call, before the panel starts another (begun), a viewer that
\* decodes gets a picture that refers to the one before right after that one:
\* what was lost, dropped from the queue or left out of the replay leaves out everything
\* until the next IDR with its parameter sets (_lost, _emit_nal, _queue_nal, replay_gop_ws).
InChain(v) ==
    Told(v) /\ item.nal.t = "p" /\ dec[v].at # None
        => dec[v].at = <<item.nal.at[1], Before(item.nal.at[2])>>
KeepsChain == Sent /\ stream = begun => InChain("first") /\ (short \/ InChain("late"))
FollowsChain == [][KeepsChain]_vars

\* A NAL unit put together from FU-A fragments has all of its fragments, and none of
\* another stream, whatever was lost or came late (_depacketize, _reorder).
KeepsWhole ==
    \A p \in buf : Pops(p) /\ Kind(p.n).part = "end" /\ Continues(p)
        => { q.n : q \in fua } \cup {p.n} = Whole(p.n) /\ \A q \in fua : q.ssrc = p.ssrc
WholeNals == [][KeepsWhole]_vars

\* The group kept for /av (replay_gop) has every packet of its IDR once the viewers of the
\* WebSocket were given that IDR: ffmpeg decodes it at once.
ReplayWhole ==
    ~looping => \A i \in DOMAIN out.gop :
        LET x == out.gop[i] IN
        x.t = "idr" /\ gop.ts = x.at => Whole(x.at[2]) \subseteq { p.n : p \in gop.rtp }
=============================================================================
