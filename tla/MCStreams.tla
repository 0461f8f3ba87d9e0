------------------------------ MODULE MCStreams ------------------------------
(***************************************************************************)
(* The two services that hand out a stream of ffmpeg: /av during a call       *)
(* (AvStream) and its standby (AvPassive).  The case is chosen in the initial *)
(* state and stays; the service it is not about stays idle.                  *)
(***************************************************************************)
EXTENDS Integers, Sequences

CONSTANTS
    c1, c2, s1,
    \* AvStream
    Clients, Shielded, Slow, Stops, Grace, MaxProcs, MaxCalls, Cuttable,
    \* AvPassive, with the same clients
    Laggards, Unload, MaxRuns, MaxLive, StandbyCuttable,
    None

\* The tasks are different.
ASSUME TasksAssumption ==
    /\ Grace \notin Clients \cup Stops /\ Clients \cap Stops = {}
    /\ Unload \notin Clients
\* The awaits at which a cancellation leaves nothing running: not a client's `finally` and the
\* wait for a process a stop has killed, nor, in the standby, the wait for a run.
ASSUME CuttableAssumption ==
    /\ Cuttable \subseteq {"sub", "reap", "replace", "sdp", "spawn", "listen", "autopsy", "stop"}
    /\ StandbyCuttable \subseteq {"sub", "unsub", "encoder", "reap"}
ASSUME BoundsAssumption == {MaxProcs, MaxCalls, MaxRuns, MaxLive} \subseteq Nat /\ None \notin Nat

VARIABLES
    case,  \* "live" or "standby"
    \* AvStream
    lock, at, proc, life, ports, reaping, victim, pump, pumping, clients, ended, forward,
    live, calls, cut,
    \* AvPassive
    p_lock, p_at, task, stopping, run, hit, byCancel, encoder, p_pumping, decoder, p_clients,
    p_ended, p_live, lives, p_cut

onCall == <<lock, at, proc, life, ports, reaping, victim, pump, pumping, clients, ended, forward,
            live, calls, cut>>
standby == <<p_lock, p_at, task, stopping, run, hit, byCancel, encoder, p_pumping, decoder, p_clients,
             p_ended, p_live, lives, p_cut>>

Live == INSTANCE AvStream
Standby == INSTANCE AvPassive WITH
    Slow <- Laggards, Cuttable <- StandbyCuttable,
    lock <- p_lock, at <- p_at, pumping <- p_pumping, clients <- p_clients, ended <- p_ended,
    live <- p_live, cut <- p_cut

Init == case \in {"live", "standby"} /\ Live!Init /\ Standby!Init
Next ==
    /\ UNCHANGED case
    /\ \/ case = "live" /\ Live!Next /\ UNCHANGED standby
       \/ case = "standby" /\ Standby!Next /\ UNCHANGED onCall
vars == <<case, onCall, standby>>
Spec == Init /\ [][Next]_vars
FairSpec == Spec /\ Live!Fairness /\ Standby!Fairness

-----------------------------------------------------------------------------

\* The state of each service has its type.
TypeOK == Live!TypeOK /\ Standby!TypeOK
\* Nothing is left of a stream that is over: no start of ffmpeg finds its ports taken by a
\* process that is still dying, no ffmpeg runs that nobody watches or will stop, no RTP is sent to
\* one that is being stopped or started, and an encoder of the standby is fed alone and owned.
NoneLeftRunning ==
    Live!PortsFree /\ Live!Watched /\ Live!ForwardedToItsOwn /\ Standby!EncoderOwned /\ Standby!OneEncoder
\* Nobody takes a running ffmpeg away from its clients but the end of the call.
Served == [][Live!KeepsServing]_vars
\* A client whose ffmpeg is gone is told, or gets another; an encoder without clients stops.
NobodyHangs == Live!NobodyHangs /\ Standby!NobodyWatches /\ Standby!ClientServed
=============================================================================
