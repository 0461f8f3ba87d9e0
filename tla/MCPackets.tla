------------------------------ MODULE MCPackets ------------------------------
(***************************************************************************)
(* The packets of a call, in several cases: the case is chosen in the initial *)
(* state and stays.  Each is about one of the five parts that handle packets *)
(* (Srtp, MediaVideo, MediaAudio, DirectVideo, AudioTap), which share no      *)
(* state; the others stay as they begin.                                     *)
(***************************************************************************)
EXTENDS Srtp

VARIABLES
    case,  \* the name of the case
    \* MediaVideo
    v_call, v_open, v_panel, v_group, v_start, v_stream, v_sent, v_begun, v_wire,
    v_next, v_ssrc, v_buf, v_gap, v_looping, v_fua, v_gop, v_out, v_item, v_joins,
    v_short, v_dec,
    \* MediaAudio
    a_call, a_open, a_stream, a_seq, a_sent, a_jumps, a_wire, a_next, a_ssrc, a_buf,
    a_late, a_looping, a_audio_buffer, a_told, a_steady, a_first, a_blocks,
    \* DirectVideo
    d_panel, d_flight, d_seen, d_dv, d_out,
    \* AudioTap
    t_now, t_stream, t_flight, t_tap, t_filled, t_out, t_twice

-----------------------------------------------------------------------------
(* What the panel repeats: a group with the parameter sets apart, one with a  *)
(* STAP-A, and one with IDRs of one packet.                                   *)

Packet(t) == [t |-> t, part |-> "whole"]
Part(t, p) == [t |-> t, part |-> p]
Apart == << Packet("sps"), Packet("pps"), Part("idr", "start"), Part("idr", "end"),
            Packet("p"), Part("p", "start"), Part("p", "end") >>
Stap == << Packet("stap"), Part("idr", "start"), Part("idr", "mid"), Part("idr", "end"), Packet("p") >>
Short == << Packet("sps"), Packet("pps"), Packet("idr"), Packet("p"), Packet("pps"), Packet("idr"), Packet("p") >>

VideoCases == [
    \* Packets overtake each other, get lost and come twice.
    v_order   |-> [groups |-> {Apart, Stap}, panels |-> {"A"}, flight |-> 3, sent |-> 6, streams |-> 1,
                   calls |-> 1, joins |-> 0, queue |-> 20],
    \* The queue of the WebSocket is full, and a viewer comes late.
    v_viewers |-> [groups |-> {Short}, panels |-> {"A"}, flight |-> 1, sent |-> 8, streams |-> 1,
                   calls |-> 1, joins |-> 1, queue |-> 4],
    \* Two calls, with two panels or one.
    v_calls   |-> [groups |-> {Short}, panels |-> {"A", "B"}, flight |-> 1, sent |-> 4, streams |-> 2,
                   calls |-> 2, joins |-> 0, queue |-> 20],
    \* The panel's stream begins again in a call.
    v_restart |-> [groups |-> {Stap}, panels |-> {"A"}, flight |-> 2, sent |-> 3, streams |-> 2,
                   calls |-> 1, joins |-> 0, queue |-> 20]]

AudioCases == [
    \* Packets overtake each other, get lost and come twice, and the sender jumps.
    a_order |-> [starts |-> {2, 14}, flight |-> 2, sent |-> 5, streams |-> 1, calls |-> 1, jumps |-> 1, queue |-> 1],
    \* Two calls of three streams.
    a_calls |-> [starts |-> {2, 14}, flight |-> 1, sent |-> 4, streams |-> 3, calls |-> 2, jumps |-> 1, queue |-> 2]]

DirectCases == [
    \* One stream, its packets in any order.
    d_order |-> [starts |-> {30}, added |-> {0}, flight |-> 3, sent |-> 6, streams |-> 1, reorders |-> TRUE],
    \* The stream restarts, and late packets of the old one come after the new one's.
    d_restart |-> [starts |-> {30, 3}, added |-> {0, 1}, flight |-> 2, sent |-> 3, streams |-> 2, reorders |-> FALSE]]

TapCases == [
    \* A long stall of the relay.
    t_stall |-> [late |-> 3, time |-> 8, streams |-> 1],
    \* The panel's stream restarts with a clock of its own.
    t_restart |-> [late |-> 4, time |-> 5, streams |-> 2]]

V(c) == INSTANCE MediaVideo WITH
    SeqMod <- 16, BufSize <- 2, QueueSize <- c.queue, MaxGop <- 5, Groups <- c.groups,
    Panels <- c.panels, Starts <- {14}, Flight <- c.flight, MaxSent <- c.sent,
    MaxStreams <- c.streams, MaxCalls <- c.calls, MaxJoins <- c.joins, call <- v_call,
    open <- v_open, panel <- v_panel, group <- v_group, start <- v_start, stream <- v_stream,
    sent <- v_sent, begun <- v_begun, wire <- v_wire, next <- v_next, ssrc <- v_ssrc,
    buf <- v_buf, gap <- v_gap, looping <- v_looping, fua <- v_fua, gop <- v_gop, out <- v_out,
    item <- v_item, joins <- v_joins, short <- v_short, dec <- v_dec
A(c) == INSTANCE MediaAudio WITH
    SeqMod <- 16, ReorderMax <- 2, ConcealMax <- 1, ResyncLate <- 3, QueueSize <- c.queue,
    Starts <- c.starts, Flight <- c.flight, MaxSent <- c.sent, MaxStreams <- c.streams,
    MaxCalls <- c.calls, MaxJumps <- c.jumps, call <- a_call, open <- a_open,
    stream <- a_stream, seq <- a_seq, sent <- a_sent, jumps <- a_jumps, wire <- a_wire,
    next <- a_next, ssrc <- a_ssrc, buf <- a_buf, late <- a_late, looping <- a_looping,
    audio_buffer <- a_audio_buffer, told <- a_told, steady <- a_steady, first <- a_first,
    blocks <- a_blocks
D(c) == INSTANCE DirectVideo WITH
    SeqSize <- 32, TimeSize <- 64, Ticks <- 3, PerFrame <- 2, Starts <- c.starts,
    Added <- c.added, Flight <- c.flight, Sent <- c.sent, Streams <- c.streams,
    Reorders <- c.reorders, panel <- d_panel, flight <- d_flight, seen <- d_seen, dv <- d_dv,
    out <- d_out
T(c) == INSTANCE AudioTap WITH
    Size <- 64, Fill_after <- 2, Ahead <- 3, Behind <- 6, Start <- 60, MaxLate <- c.late,
    MaxTime <- c.time, Streams <- c.streams, now <- t_now, stream <- t_stream,
    flight <- t_flight, tap <- t_tap, filled <- t_filled, out <- t_out, twice <- t_twice

InVideo == case \in DOMAIN VideoCases
InAudio == case \in DOMAIN AudioCases
InDirect == case \in DOMAIN DirectCases
InTap == case \in DOMAIN TapCases

\* The parts a case is not about.
VideoIdle == V(VideoCases.v_viewers)!Init
AudioIdle == A([AudioCases.a_order EXCEPT !.starts = {2}])!Init
DirectIdle == D(DirectCases.d_order)!Init
TapIdle == T(TapCases.t_stall)!Init

\* Srtp is the case "srtp".
SrtpIdle == Init /\ network = (CHOOSE n \in Networks : TRUE) /\ seq = 0

PacketsInit ==
    /\ case \in DOMAIN VideoCases \cup DOMAIN AudioCases \cup DOMAIN DirectCases \cup DOMAIN TapCases \cup {"srtp"}
    /\ IF case = "srtp" THEN Init ELSE SrtpIdle
    /\ (~InVideo /\ VideoIdle) \/ (\E n \in DOMAIN VideoCases : case = n /\ V(VideoCases[n])!Init)
    /\ (~InAudio /\ AudioIdle) \/ (\E n \in DOMAIN AudioCases : case = n /\ A(AudioCases[n])!Init)
    /\ (~InDirect /\ DirectIdle) \/ (\E n \in DOMAIN DirectCases : case = n /\ D(DirectCases[n])!Init)
    /\ (~InTap /\ TapIdle) \/ (\E n \in DOMAIN TapCases : case = n /\ T(TapCases[n])!Init)

video ==
    <<v_call, v_open, v_panel, v_group, v_start, v_stream, v_sent, v_begun, v_wire,
      v_next, v_ssrc, v_buf, v_gap, v_looping, v_fua, v_gop, v_out, v_item, v_joins,
      v_short, v_dec>>
audio ==
    <<a_call, a_open, a_stream, a_seq, a_sent, a_jumps, a_wire, a_next, a_ssrc, a_buf,
      a_late, a_looping, a_audio_buffer, a_told, a_steady, a_first, a_blocks>>
direct ==
    <<d_panel, d_flight, d_seen, d_dv, d_out>>
tap ==
    <<t_now, t_stream, t_flight, t_tap, t_filled, t_out, t_twice>>
packetVars == <<case, vars, video, audio, direct, tap>>

PacketsNext ==
    /\ UNCHANGED case
    /\ \/ case = "srtp" /\ Next /\ UNCHANGED <<video, audio, direct, tap>>
       \/ /\ \E n \in DOMAIN VideoCases : case = n /\ V(VideoCases[n])!Next
          /\ UNCHANGED <<vars, audio, direct, tap>>
       \/ /\ \E n \in DOMAIN AudioCases : case = n /\ A(AudioCases[n])!Next
          /\ UNCHANGED <<vars, video, direct, tap>>
       \/ /\ \E n \in DOMAIN DirectCases : case = n /\ D(DirectCases[n])!Next
          /\ UNCHANGED <<vars, video, audio, tap>>
       \/ /\ \E n \in DOMAIN TapCases : case = n /\ T(TapCases[n])!Next
          /\ UNCHANGED <<vars, video, audio, direct>>
PacketsSpec == PacketsInit /\ [][PacketsNext]_packetVars

-----------------------------------------------------------------------------
(* The properties of the parts, each in its cases; Srtp's go by their names.  *)

\* The invariants of the parts.  What the phone gets has one number for each packet, one
\* time for each frame and the panel's order, unless its group was of two streams
\* (DirectVideo; mixed_group shows that case); voice and silence never share a
\* moment, and a stall does not add to the delay (AudioTap).
PhoneMedia ==
    /\ \A n \in DOMAIN VideoCases : case = n => V(VideoCases[n])!TypeOK
    /\ \A n \in DOMAIN AudioCases : case = n => A(AudioCases[n])!TypeOK
    /\ \A n \in DOMAIN DirectCases : case = n =>
          /\ D(DirectCases[n])!TypeOK
          /\ D(DirectCases[n])!NumberOnce
          /\ D(DirectCases[n])!TimePerFrame
          /\ D(DirectCases[n])!OrderKept
    /\ \A n \in DOMAIN TapCases : case = n =>
          T(TapCases[n])!TypeOK /\ T(TapCases[n])!NoOverlap /\ T(TapCases[n])!DelayBounded

\* A decoding viewer gets every picture after the one it refers to, as long as the stream is
\* the one it began with, and no NAL unit is put together from less than all of its
\* fragments (_lost, _depacketize, _queue_nal).
PicturesDecode ==
    [][\A n \in DOMAIN VideoCases : case = n =>
          V(VideoCases[n])!KeepsChain /\ V(VideoCases[n])!KeepsWhole]_packetVars

\* Every voice packet is played once, in order and at its time; what is still queued of a
\* call is not told to the next one's viewers.  A block counts as of the call it was taken
\* out of the buffer in (_reorder, _conceal, _audio_broadcast).
VoiceInTime ==
    [][\A n \in DOMAIN AudioCases : case = n =>
          A(AudioCases[n])!PlaysInTime /\ A(AudioCases[n])!TakesCurrent]_packetVars

=============================================================================
