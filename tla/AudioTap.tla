------------------------------ MODULE AudioTap ------------------------------
(***************************************************************************)
(* The street's audio for one HomeKit view (AudioTap of homekit_media.py):    *)
(* the panel's packets restamped with our clock, silence where they do not    *)
(* come.  Time and timestamps are counted in slots of 20 ms, 160 samples.     *)
(***************************************************************************)
EXTENDS Integers, Sequences, FiniteSets

CONSTANTS
    Size,          \* of a timestamp
    Fill_after,    \* FILL_AFTER
    Ahead,         \* RESYNC_AHEAD
    Behind,        \* RESYNC_BEHIND
    Start,         \* our first timestamp
    MaxLate,       \* bound: slots the relay may hold a packet
    MaxTime,       \* bound: slots
    Streams,       \* bound: the panel's streams
    None

VARIABLES
    now,
    stream,     \* the panel's: [ssrc, from], from being its clock at slot 0
    flight,     \* packets on their way, in order: [ssrc, ts, at]
    tap,        \* _last_ts, _last_at, _offset, _panel_ssrc, _fill_end, _last_audio
    filled,     \* the filler had its turn in this slot
    out,        \* the timestamps sent: [ts, voice]
    twice       \* a timestamp was sent twice

vars == <<now, stream, flight, tap, filled, out, twice>>

Signed(x) == LET y == x % Size IN IF 2 * y >= Size THEN y - Size ELSE y

Init ==
    /\ now = 0 /\ stream = [ssrc |-> 1, from |-> 0] /\ flight = <<>> /\ filled = FALSE
    /\ tap = [last_ts |-> Start, last_at |-> None, offset |-> None, panel_ssrc |-> None,
              fill_end |-> None, last_audio |-> -Fill_after, ties |-> 0]
    /\ out = {} /\ twice = FALSE

\* _now_ts
NowTs ==
    IF tap.last_at = None THEN tap.last_ts
    ELSE (tap.last_ts + (IF now > tap.last_at THEN now - tap.last_at ELSE 1)) % Size

\* _emit
Emit(t, ts, voice) ==
    /\ tap' = IF t.last_at = None \/ Signed(ts - t.last_ts) > 0
              THEN [t EXCEPT !.last_ts = ts, !.last_at = now] ELSE t
    /\ out' = out \cup {[ts |-> ts, voice |-> voice]}
    /\ twice' = (twice \/ \E x \in out : x.ts = ts)

\* Time passes, and the panel says something or, as in a preview, nothing.
Tick ==
    /\ now < MaxTime /\ now' = now + 1 /\ filled' = FALSE
    /\ \A i \in DOMAIN flight : now - flight[i].at < MaxLate
    /\ \/ UNCHANGED flight
       \/ flight' = Append(flight, [ssrc |-> stream.ssrc, ts |-> (stream.from + now) % Size, at |-> now'])
    /\ UNCHANGED <<stream, tap, out, twice>>
\* Its stream restarts, with a clock of its own.
Restart ==
    /\ stream.ssrc < Streams
    /\ \E f \in {0, Size \div 2} : stream' = [ssrc |-> stream.ssrc + 1, from |-> f]
    /\ UNCHANGED <<now, flight, tap, filled, out, twice>>

\* _send: drift is judged before silence is.
Drift(p) == Signed(p.ts + tap.offset - NowTs)
Follows(p) == tap.offset # None /\ p.ssrc = tap.panel_ssrc /\ Drift(p) <= Ahead /\ Drift(p) >= -Behind
InSilence(p) == tap.fill_end # None /\ Signed(p.ts + tap.offset - tap.fill_end) < 0
Sent ==
    /\ flight # <<>> /\ flight' = Tail(flight)
    /\ LET p == Head(flight)
           heard == [tap EXCEPT !.last_audio = now]
           tied == [heard EXCEPT !.offset = (NowTs - p.ts) % Size, !.panel_ssrc = p.ssrc, !.ties = @ + 1]
       IN IF ~Follows(p) THEN Emit(tied, NowTs, TRUE)
          ELSE IF InSilence(p) THEN tap' = heard /\ UNCHANGED <<out, twice>>
          ELSE Emit(heard, (p.ts + tap.offset) % Size, TRUE)
    /\ UNCHANGED <<now, stream, filled>>
Dropped ==
    /\ flight # <<>> /\ flight' = Tail(flight)
    /\ UNCHANGED <<now, stream, tap, filled, out, twice>>

\* _fill_once; a loop that stalled skips its turn.
FillOnce ==
    /\ ~filled /\ filled' = TRUE
    /\ IF now - tap.last_audio < Fill_after THEN UNCHANGED <<tap, out, twice>>
       ELSE Emit([tap EXCEPT !.fill_end = (NowTs + 1) % Size], NowTs, FALSE)
    /\ UNCHANGED <<now, stream, flight>>

Next == Tick \/ Restart \/ Sent \/ Dropped \/ FillOnce
Spec == Init /\ [][Next]_vars

-----------------------------------------------------------------------------
(* Properties.                                                               *)

TypeOK ==
    /\ now \in 0 .. MaxTime /\ stream.ssrc \in 1 .. Streams /\ filled \in BOOLEAN
    /\ \A i \in DOMAIN flight : flight[i].ts \in 0 .. Size - 1 /\ flight[i].at \in 0 .. now
    /\ tap.last_ts \in 0 .. Size - 1 /\ tap.last_at \in 0 .. now \cup {None}
    /\ {tap.offset, tap.fill_end} \subseteq 0 .. Size - 1 \cup {None}
    /\ out \subseteq [ts : 0 .. Size - 1, voice : BOOLEAN]

\* Voice and silence never share a moment: what comes late is dropped where
\* silence went out in its place (_send, _fill_once).
NoOverlap == ~twice

\* A stall does not add to the phone's delay: our clock runs ahead of time by
\* what the packet it was tied to was late, and no more (the class comment,
\* "after a stall the panel's late burst is not stacked behind the silence").
DelayBounded == Signed(tap.last_ts - Start) <= now + tap.ties * (MaxLate + 1)
=============================================================================
