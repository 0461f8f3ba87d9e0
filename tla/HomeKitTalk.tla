---------------------------- MODULE HomeKitTalk -----------------------------
(***************************************************************************)
(* The voice of a HomeKit view (AudioBridge of homekit_audio.py): packets     *)
(* from the phone, the decoder that is started when they come and exits in    *)
(* silence, and the voice it sends on to the outdoor station.                 *)
(***************************************************************************)
EXTENDS Naturals, Sequences, FiniteSets

CONSTANTS
    MaxHeld,       \* of _talk_pending
    MaxFailures,   \* TALK_MAX_FAILURES
    LoudFrames,    \* VOICE_ANSWER_MS, in frames
    MaxVoice,      \* bound: packets of voice
    MaxDecoders    \* bound: decoders started

VARIABLES
    sent,      \* packets from the phone so far
    held,      \* _talk_pending
    launch,    \* _start_talk_decoder: "no", or where it stands
    ready,     \* _talk_ready
    proc,      \* _talk_proc; 0 is None
    alive,     \* decoders that run
    watched,   \* decoders whose exit _watch_talk_decoder awaits
    pipe,      \* what the decoder has decoded: <<decoder, packet>>
    pumps,     \* decoders whose pipe _pump_pcm reads
    said,      \* the last packet that went to the outdoor station
    loud,      \* _loud_ms, in frames
    fired,     \* _voice_fired
    fails, made,
    stop       \* "no", "stopping", "over"

vars == <<sent, held, launch, ready, proc, alive, watched, pipe, pumps, said, loud, fired, fails, made, stop>>
voiceVars == <<said, loud, fired>>
decoderVars == <<proc, alive, watched, pumps, made>>

Init ==
    /\ sent = 0 /\ held = <<>> /\ launch = "no" /\ ready = FALSE
    /\ proc = 0 /\ alive = {} /\ watched = {} /\ pipe = <<>> /\ pumps = {}
    /\ said = 0 /\ loud = 0 /\ fired = FALSE /\ fails = 0 /\ made = 0 /\ stop = "no"

\* What is sent to the decoder's port; nobody is there when it has exited.
Into(packets) == IF proc \in alive THEN pipe \o [i \in DOMAIN packets |-> <<proc, packets[i]>>] ELSE pipe
Hold(n) == IF Len(held) < MaxHeld THEN Append(held, n) ELSE Append(Tail(held), n)

\* _from_phone, with _deliver_voice.
Voice ==
    /\ sent < MaxVoice /\ stop # "over" /\ sent' = sent + 1
    /\ IF ready THEN pipe' = Into(<<sent'>>) /\ UNCHANGED <<held, launch>>
       ELSE /\ held' = Hold(sent')
            /\ launch' = IF launch = "no" /\ stop = "no" /\ fails < MaxFailures THEN "file" ELSE launch
            /\ UNCHANGED pipe
    /\ UNCHANGED <<ready, voiceVars, decoderVars, fails, stop>>

\* _start_talk_decoder once its second is over, up to its SDP file.
Written ==
    /\ launch = "file" /\ launch' = "spawn"
    /\ UNCHANGED <<sent, held, ready, pipe, voiceVars, decoderVars, fails, stop>>
Spawned ==
    /\ launch = "spawn" /\ made < MaxDecoders
    /\ made' = made + 1 /\ proc' = made' /\ alive' = alive \cup {made'} /\ pumps' = pumps \cup {made'}
    /\ launch' = "listen"
    /\ UNCHANGED <<sent, held, ready, watched, pipe, voiceVars, fails, stop>>
\* It listens: it gets what was held.
Listens ==
    /\ launch = "listen" /\ proc \in alive
    /\ ready' = TRUE /\ pipe' = Into(held) /\ held' = <<>>
    /\ watched' = watched \cup {proc} /\ fails' = 0 /\ launch' = "no"
    /\ UNCHANGED <<sent, proc, alive, pumps, made, voiceVars, stop>>
\* It could not be started, or exited first.
LaunchFails ==
    /\ launch \in {"file", "spawn"} \/ (launch = "listen" /\ proc \notin alive)
    /\ launch' = "no" /\ fails' = fails + 1
    /\ UNCHANGED <<sent, held, ready, pipe, voiceVars, decoderVars, stop>>

\* Ten seconds without voice.
Exits(d) ==
    /\ d \in alive /\ alive' = alive \ {d}
    /\ UNCHANGED <<sent, held, launch, ready, proc, watched, pumps, made, pipe, voiceVars, fails, stop>>
\* _watch_talk_decoder
ExitSeen(d) ==
    /\ d \in watched \ alive /\ watched' = watched \ {d}
    /\ IF proc = d THEN ready' = FALSE /\ proc' = 0 ELSE UNCHANGED <<ready, proc>>
    /\ UNCHANGED <<sent, held, launch, alive, pumps, made, pipe, voiceVars, fails, stop>>

\* _pump_pcm, with _note_voice.
Pumped ==
    /\ pipe # <<>> /\ pipe' = Tail(pipe)
    /\ IF Head(pipe)[1] \in pumps
       THEN /\ said' = Head(pipe)[2]
            /\ \E l \in (IF fired THEN {loud} ELSE {0, loud + 1}) :
                  loud' = l /\ fired' = (fired \/ l >= LoudFrames)
       ELSE UNCHANGED voiceVars
    /\ UNCHANGED <<sent, held, launch, ready, decoderVars, fails, stop>>

\* stop() cancels the tasks and kills the decoder; then it closes the sockets.
StopBegins ==
    /\ stop = "no" /\ stop' = "stopping"
    /\ launch' = "no" /\ watched' = {} /\ pumps' = {}
    /\ alive' = alive \ {proc}
    /\ UNCHANGED <<sent, held, ready, proc, made, pipe, voiceVars, fails>>
StopEnds ==
    /\ stop = "stopping" /\ stop' = "over"
    /\ UNCHANGED <<sent, held, launch, ready, pipe, voiceVars, decoderVars, fails>>

Next == \/ Voice \/ Written \/ Spawned \/ Listens \/ LaunchFails \/ Pumped \/ StopBegins \/ StopEnds
        \/ \E d \in 1..MaxDecoders : Exits(d) \/ ExitSeen(d)
Spec == Init /\ [][Next]_vars
\* asyncio runs its tasks; a decoder that was started listens or exits.
Fairness == WF_vars(Written) /\ WF_vars(Listens) /\ WF_vars(LaunchFails)
            /\ \A d \in 1..MaxDecoders : WF_vars(ExitSeen(d))
FairSpec == Spec /\ Fairness

-----------------------------------------------------------------------------
(* Properties.                                                               *)

TypeOK ==
    /\ sent \in 0..MaxVoice /\ held \in Seq(1..MaxVoice) /\ Len(held) <= MaxHeld
    /\ launch \in {"no", "file", "spawn", "listen"} /\ ready \in BOOLEAN /\ made \in 0..MaxDecoders
    /\ proc \in 0..MaxDecoders /\ alive \cup watched \cup pumps \subseteq 1..made
    /\ pipe \in Seq((1..made) \X (1..MaxVoice)) /\ said \in 0..MaxVoice
    /\ loud \in 0..LoudFrames /\ fired \in BOOLEAN
    /\ fails \in 0..MaxFailures /\ stop \in {"no", "stopping", "over"}

\* Two decoders never run at once, and none outlives the view (_deliver_voice,
\* _launch_talk_decoder, _watch_talk_decoder, stop).
OneDecoder == Cardinality(alive) <= 1 /\ (stop # "no" => alive = {})

\* The street hears the voice in the order it was spoken, once, and what was
\* held back for the decoder before what came after (_deliver_voice).
Forward == said' = said \/ said' > said
VoiceInOrder == [][Forward]_vars

\* A decoder that exited is noticed: the next Talk starts another one, unless
\* it failed too often (_watch_talk_decoder).
Restarts == ready /\ proc \notin alive ~> ~ready \/ stop # "no"
=============================================================================
