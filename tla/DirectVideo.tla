----------------------------- MODULE DirectVideo ----------------------------
(***************************************************************************)
(* The panel's video as one HomeKit phone gets it (DirectVideo of             *)
(* homekit_video.py): the group in memory first, then every packet as it      *)
(* arrives, restamped with numbers and times of our own.                      *)
(***************************************************************************)
EXTENDS Integers, Sequences, FiniteSets, SequencesExt

CONSTANTS
    SeqSize,       \* of a sequence number
    TimeSize,      \* of a timestamp
    Ticks,         \* of one frame: _FRAME_TICKS
    PerFrame,      \* packets of a frame
    Starts,        \* the panel's first numbers
    Added,         \* packets of parameter sets we may add: 0, 1
    Flight,        \* bound: packets of a stream on their way at once
    Sent,          \* bound: packets of a stream
    Streams,       \* bound: streams
    Reorders,      \* packets of one stream may overtake each other
    None

VARIABLES
    panel,    \* the panel's stream: [ssrc, first, count]
    flight,   \* packets on their way
    seen,     \* packets of the group, as they came
    dv,       \* the session
    out       \* sent to the phone: [packet, number, time]

vars == <<panel, flight, seen, dv, out>>

Packet(ssrc, first, i) ==
    [ssrc |-> ssrc, seq |-> (first + i) % SeqSize, ts |-> ((i \div PerFrame) * Ticks) % TimeSize]

Init ==
    /\ \E s \in Starts : panel = [ssrc |-> 1, first |-> s, count |-> 0]
    /\ flight = {} /\ seen = <<>> /\ out = {}
    /\ dv = [begun |-> FALSE, seq_off |-> 0, ts_map |-> <<>>, anchor |-> None, last_ts |-> None,
             last_seq |-> None, panel_ssrc |-> None, old_ssrc |-> None]

Behind(a, b, mod) == ((a - b) % mod) * 2 >= mod

\* The panel, and what the relay does to the order.
Send ==
    /\ panel.count < Sent /\ Cardinality(flight) < Flight
    /\ panel' = [panel EXCEPT !.count = @ + 1]
    /\ flight' = flight \cup {Packet(panel.ssrc, panel.first, panel.count)}
    /\ UNCHANGED <<seen, dv, out>>
\* The stream restarts, with numbers and times of its own.
Restart ==
    /\ panel.ssrc < Streams /\ panel.count > 0
    /\ \E s \in Starts : panel' = [ssrc |-> panel.ssrc + 1, first |-> s, count |-> 0]
    /\ UNCHANGED <<flight, seen, dv, out>>
\* A packet comes, at most OLD_STREAM_GRACE later than one of the next stream.
Comes(p) ==
    /\ p \in flight
    /\ Reorders \/ \A q \in flight : q.ssrc = p.ssrc => ~Behind(q.seq, p.seq, SeqSize)
Lost(p) ==
    /\ p \in flight /\ flight' = flight \ {p}
    /\ UNCHANGED <<panel, seen, dv, out>>
\* _gop_ts: the time of the key packet the group begins with.
gop_ts == IF seen = <<>> THEN None ELSE seen[1].ts
\* Before the session: media_handler's group.  A key packet of another time begins it
\* anew; everything else goes on it, a packet of the next stream too.
Cached(p) ==
    /\ ~dv.begun /\ Comes(p) /\ flight' = flight \ {p}
    /\ \/ p.ts # gop_ts /\ seen' = <<p>>
       \/ seen' = IF seen = <<>> THEN seen ELSE Append(seen, p)
    /\ UNCHANGED <<panel, dv, out>>

\* _gop_in_sequence_order: by the distance from the first number.
Distance(a, base) == LET d == (a - base) % SeqSize IN IF d * 2 >= SeqSize THEN d - SeqSize ELSE d
InOrder(packets) ==
    SortSeq(packets, LAMBDA p, q : Distance(p.seq, packets[1].seq) < Distance(q.seq, packets[1].seq))
\* The group's times in the order they are met.
TimesMet(group) ==
    [t \in { group[i].ts : i \in DOMAIN group } |->
        Cardinality({ group[j].ts : j \in 1 .. SelectInSeq(group, LAMBDA p : p.ts = t) }) - 1]
\* begin()
Begin(prefix) ==
    LET group == InOrder(seen)
        ts_map == TimesMet(group)
        added == [ssrc |-> 0, seq |-> 0, ts |-> group[1].ts]
        last == group[Len(group)]
    IN /\ ~dv.begun
       /\ IF group = <<>> THEN dv' = [dv EXCEPT !.begun = TRUE] /\ UNCHANGED out
          ELSE /\ dv' = [dv EXCEPT !.begun = TRUE, !.ts_map = ts_map,
                                   !.anchor = <<last.ts, ts_map[last.ts]>>, !.panel_ssrc = last.ssrc,
                                   !.last_ts = ts_map[last.ts], !.last_seq = last.seq]
               /\ out' = { [packet |-> p, number |-> p.seq, time |-> ts_map[p.ts]] : p \in ToSet(group) }
                         \cup { [packet |-> added, number |-> (group[1].seq - 1) % SeqSize, time |-> 0] : i \in 1..prefix }
       /\ UNCHANGED <<panel, flight, seen>>

\* The first number of the new stream is the last one of the old.
Follow_SameNumber(d, p) ==
    [d EXCEPT !.old_ssrc = d.panel_ssrc, !.panel_ssrc = p.ssrc,
              !.anchor = <<p.ts, IF d.last_ts = None THEN 0 ELSE (d.last_ts + Ticks) % TimeSize>>,
              !.seq_off = IF d.last_seq = None THEN @ ELSE (d.last_seq - p.seq) % SeqSize,
              !.ts_map = <<>>]
\* _follow_new_stream
Follow(d, p) ==
    [d EXCEPT !.old_ssrc = d.panel_ssrc, !.panel_ssrc = p.ssrc,
              !.anchor = <<p.ts, IF d.last_ts = None THEN 0 ELSE (d.last_ts + Ticks) % TimeSize>>,
              !.seq_off = IF d.last_seq = None THEN @ ELSE (d.last_seq + 1 - p.seq) % SeqSize,
              !.ts_map = <<>>]
Followed(p) ==
    IF dv.panel_ssrc \in {None, p.ssrc} THEN [dv EXCEPT !.panel_ssrc = p.ssrc] ELSE Follow(dv, p)
\* The frame was in the group, or it is measured from the anchor.
Anchored(d, p) == IF d.anchor = None /\ p.ts \notin DOMAIN d.ts_map THEN [d EXCEPT !.anchor = <<p.ts, 0>>] ELSE d
TimeOf(d, p) ==
    IF p.ts \in DOMAIN d.ts_map THEN d.ts_map[p.ts] ELSE (d.anchor[2] + p.ts - d.anchor[1]) % TimeSize
TooOld(d, p) == p.ts \notin DOMAIN d.ts_map /\ Behind(p.ts, d.anchor[1], TimeSize)
OfOldStream(p) == dv.old_ssrc = p.ssrc

\* on_live
OnLive(p) ==
    /\ dv.begun /\ Comes(p) /\ flight' = flight \ {p}
    /\ IF OfOldStream(p) THEN UNCHANGED <<dv, out>>
       ELSE LET d == Anchored(Followed(p), p)
                n == (p.seq + d.seq_off) % SeqSize
            IN IF TooOld(d, p) THEN dv' = d /\ UNCHANGED out
               ELSE /\ dv' = [d EXCEPT !.last_ts = TimeOf(d, p), !.last_seq = n]
                    /\ out' = out \cup {[packet |-> p, number |-> n, time |-> TimeOf(d, p)]}
    /\ UNCHANGED <<panel, seen>>

Next ==
    \/ Send \/ Restart
    \/ \E p \in flight : Lost(p) \/ Cached(p) \/ OnLive(p)
    \/ \E prefix \in Added : Begin(prefix)
Spec == Init /\ [][Next]_vars

-----------------------------------------------------------------------------
(* Properties.                                                               *)

TypeOK ==
    /\ panel \in [ssrc : 1 .. Streams, first : Starts, count : 0 .. Sent]
    /\ flight \subseteq [ssrc : 1 .. panel.ssrc, seq : 0 .. SeqSize - 1, ts : 0 .. TimeSize - 1]
    /\ \A o \in out : o.number \in 0 .. SeqSize - 1 /\ o.time \in 0 .. TimeSize - 1
    /\ dv.seq_off \in 0 .. SeqSize - 1 /\ {dv.panel_ssrc, dv.old_ssrc} \subseteq 1 .. panel.ssrc \cup {None}

\* The group in memory is of one stream.  It is not when the panel's stream restarts and
\* no key packet of the new one has come: _cache_gop goes on with the old group.
OneStream == \A i, j \in DOMAIN seen : seen[i].ssrc = seen[j].ssrc

\* What homekit_video.py says of the phone's stream ("continuous sequence numbers"): all
\* numbers lie within a run as long as what the panel sent.  A group of two streams breaks it.
NumbersContinue == \A x, y \in out : Distance(x.number, y.number) <= Streams * Sent

\* The phone's numbers go on over the hand-over and over a restart, and never come twice
\* (begin, _send, _follow_new_stream).
NumberOnce == OneStream => NumbersContinue /\ \A x, y \in out : x.number = y.number => x = y

\* One time for every packet of a frame, and a time of its own for each frame, before and
\* after the hand-over from the group in memory to the live packets (begin, on_live, _send).
TimePerFrame ==
    OneStream => \A x, y \in out :
        x.packet.ssrc # 0 /\ y.packet.ssrc # 0 =>
            (x.time = y.time <=> x.packet.ssrc = y.packet.ssrc /\ x.packet.ts = y.packet.ts)

\* The phone's order is the panel's, in numbers and in times, although both wrap and
\* packets overtake each other (_send, _gop_in_sequence_order).
OrderKept ==
    OneStream => \A x, y \in out :
        x.packet.ssrc = y.packet.ssrc /\ x # y =>
            /\ Behind(x.number, y.number, SeqSize) = Behind(x.packet.seq, y.packet.seq, SeqSize)
            /\ (x.time - y.time) * (x.packet.ts - y.packet.ts) >= 0

=============================================================================
