----------------------------- MODULE MCSipCases -----------------------------
(***************************************************************************)
(* SipCall in several environments: the case is chosen in the initial state *)
(* and stays.  Each one adds a difficulty to a small set of calls, and      *)
(* `holds` names the invariants the code keeps under it.                    *)
(***************************************************************************)
CONSTANTS o1, o2, i1, i2, h1, None

VARIABLES
    case,  \* the name of the case
    in_call, calling, call_id, silence_limit, remote_sdp, pending_responses, queue,
    ring, ring_timer, media, was_ringing, call_timer, loop, pc, hung, peer, net, lost, unclosed

vars == <<case, in_call, calling, call_id, silence_limit, remote_sdp, pending_responses, queue,
    ring, ring_timer, media, was_ringing, call_timer, loop, pc, hung, peer, net, lost, unclosed>>

\* One call of ours, one ring with an offer, one hang-up; only stop_media() suspends.
Plain == [out |-> {o1}, in |-> {i1}, views |-> {}, offers |-> {i1}, foreign |-> {},
          yields |-> {"stop"}, fails |-> FALSE, reinvites |-> {}, lossy |-> {}, losses |-> 0,
          holds |-> {"CallEstablished", "NoLeakedDialog", "RefinesLine"}]

Cases == [
    call_vs_ring |-> Plain,
    \* Two calls of ours, the second with an SDP that _remote_media refuses.
    two_calls    |-> [Plain EXCEPT !.out = {o1, o2}, !.in = {}, !.offers = {}, !.foreign = {o2},
                        !.holds = {"NoLeakedDialog"}],
    \* Two rings, one with a preview: the panel may still repeat what belongs to the first.
    two_rings    |-> [Plain EXCEPT !.out = {}, !.in = {i1, i2},
                        !.holds = {"HubKnowsRing"}],
    \* The SDP comes with the ACK.
    late_offer   |-> [Plain EXCEPT !.offers = {}, !.holds = {"CallEstablished", "RefinesLine"}],
    \* The broadcasts suspend as well.
    slow_client  |-> [Plain EXCEPT !.yields = {"stop", "emit"},
                        !.holds = {"NoLeakedDialog", "RefinesLine"}],
    \* The panel re-INVITEs in the call, which may be a view.
    reinvite     |-> [Plain EXCEPT !.reinvites = {o1, i1}, !.views = {o1}, !.holds = {}],
    \* Every send() may raise.
    failing_send |-> [Plain EXCEPT !.fails = TRUE, !.holds = {"CallHasMedia"}],
    \* Two of our messages get lost.
    lossy_udp    |-> [Plain EXCEPT !.losses = 2, !.holds = {"NoLeakedDialog", "RefinesLine"},
                        !.lossy = {"INVITE", "CANCEL", "ACK", "BYE", "lone BYE", "200", "final"}]]

S(c) == INSTANCE SipCall WITH
    Outgoing <- c.out, Incoming <- c.in, Views <- c.views, Offers <- c.offers,
    Foreign <- c.foreign, Hangups <- {h1}, LongCalls <- FALSE, Yields <- c.yields,
    SendFails <- c.fails, Reinvites <- c.reinvites, Lossy <- c.lossy, MaxLoss <- c.losses

Init == \E n \in DOMAIN Cases : case = n /\ S(Cases[n])!Init
Next == \E n \in DOMAIN Cases : case = n /\ S(Cases[n])!Next /\ UNCHANGED case
Spec == Init /\ [][Next]_vars

Keeping(P) == { n \in DOMAIN Cases : P \in Cases[n].holds }

\* The invariants of SipCall, in the cases that keep them.

\* A call is whole: in_call is never left behind by a call that another task has cleared,
\* and a call whose remote SDP is known has its media open.
CallIsWhole ==
    /\ \A n \in Keeping("CallEstablished") : case = n => S(Cases[n])!CallEstablished
    /\ \A n \in Keeping("CallHasMedia") : case = n => S(Cases[n])!CallHasMedia
\* Once everything has settled, both neighbours know what has become of the line: the panel
\* is not left busy by a call that is over here, and the hub rings when, and only when, the
\* line does.
NeighboursAgree ==
    /\ \A n \in Keeping("NoLeakedDialog") : case = n => S(Cases[n])!NoLeakedDialog
    /\ \A n \in Keeping("HubKnowsRing") : case = n => S(Cases[n])!HubKnowsRing
\* The calls implement the abstract line, IntercomLine: from its initial state, every
\* step is one of its steps or leaves it alone; in every case, one of its steps or the
\* forgetting of the line's user.
RefinesLine ==
    /\ \A n \in DOMAIN Cases : case = n => S(Cases[n])!Line!Init
    /\ [][/\ \A n \in Keeping("RefinesLine") : case = n => S(Cases[n])!LineStep
          /\ \A n \in DOMAIN Cases : case = n => S(Cases[n])!ForgetfulStep]_vars

=============================================================================
