---------------------------- MODULE SipCallSafety ----------------------------
(***************************************************************************)
(* Type correctness of SipCall, one use of the line at a time, and no      *)
(* media without a use, for any calls, rings, hang-ups, losses and         *)
(* interleavings.  TypeOK is kept by every step of every handler: one      *)
(* lemma per operation of the event loop (Sends, Await, ...), then one per *)
(* group of actions.  LineExclusive alone is not inductive, because        *)
(* do_call sets in_call after an await and do_answer_incoming after the    *)
(* ring is closed; what makes it true is that a handler between such an    *)
(* await and the assignment holds the event loop, alone (LoopInv), and     *)
(* finds the line as it left it (LineInv, MediaInv): HandlerInv.           *)
(*                                                                         *)
(* Then SipCall implements IntercomLine, but for the user a call may       *)
(* forget, and a ring keeps the final response it was given.  No handler   *)
(* hands the line over: every step moves it in one of the ways of VarMoves, *)
(* and only an answer starts to pick up (PcMoves).  With HandlerInv and    *)
(* with AnswerInv, who picks up has its own ring to answer, this is a step *)
(* of the abstract line or a stutter (KeptStep).                           *)
(*                                                                         *)
(* Last, whatever takes the line has something that will end it            *)
(* (EndsAreSet).  The hub's timer: from in_call on, it runs, or the hub    *)
(* has still to be told of the call, or a hang-up is about to end it       *)
(* (TimedInv).  The ring's timer: it is armed, or the INVITE's handler     *)
(* has still to do so, or somebody is closing the ring (ArmedInv).         *)
(* `calling`: its do_call waits or holds the loop, and nobody else has     *)
(* anything to do with that call (HeldInv, Apart).                         *)
(***************************************************************************)
EXTENDS SipCall, TLAPS

-----------------------------------------------------------------------------
(* Types.                                                                    *)

\* The handlers are tasks.
LEMMA Tasks ==
    /\ \A o \in Outgoing : Call(o) \in Task
    /\ \A c \in Cid : /\ Invite(c) \in Task /\ Reinvite(c) \in Task /\ Cancel(c) \in Task
                      /\ Bye(c) \in Task /\ Ack(c) \in Task /\ Answer(c) \in Task
    /\ \A w \in DeclineReasons : Decline(w) \in Task
    /\ \A h \in HangupIds : Hangup(h) \in Task
    /\ Timer \in Task
    /\ \A t \in RingEnders : t \in Task
  BY DEF Task, Call, Invite, Reinvite, Cancel, Bye, Ack, Answer, Decline, Hangup, Timer,
         HangupIds, RingEnders, DeclineReasons

\* The panel's reaction to a message is a state of the panel.
LEMMA ReactionType ==
    \A c, m : \A s \in PeerState : Reaction(c, s, m) \in PeerState
  <1>. SUFFICES ASSUME NEW c, NEW m, NEW s \in PeerState
                PROVE  Reaction(c, s, m) \in PeerState
    OBVIOUS
  <1>1. Reaction(c, s, m) \in {"trying", "up", "down", "acking", "refusing", s}
    BY Zenon DEF Reaction
  <1>. QED BY <1>1 DEF PeerState

\* The dialogs the panel is left with are calls.
LEMMA MissesType ==
    ASSUME TypeOK, NEW c \in Cid \cup {None}, NEW s
    PROVE  Misses(c, s) \subseteq Cid \cup {None}
  <1>1. unclosed \subseteq Cid \cup {None}
    BY DEF TypeOK
  <1>. QED BY <1>1 DEF Misses

\* send() moves the peer of one call, or loses the message within the bound.
LEMMA SendsType ==
    ASSUME TypeOK, NEW c \in Cid \cup {None}, NEW m, Sends(c, m)
    PROVE  /\ peer' \in [Cid -> PeerState] /\ lost' \in 0 .. MaxLoss
           /\ unclosed' \subseteq Cid \cup {None}
  <1>1. CASE UNCHANGED <<lost, unclosed>> /\ peer' = [peer EXCEPT ![c] = Reaction(c, @, m)]
    <2>1. peer' \in [Cid -> PeerState]
      BY <1>1, ReactionType DEF TypeOK
    <2>2. QED BY <1>1, <2>1 DEF TypeOK
  <1>2. CASE /\ lost < MaxLoss /\ lost' = lost + 1 /\ UNCHANGED peer
             /\ unclosed' = IF m = "lone BYE" THEN Misses(c, peer[c]) ELSE unclosed
    <2>1. lost' \in 0 .. MaxLoss
      <3>1. lost \in Nat /\ MaxLoss \in Nat
        BY EnvAssumption DEF TypeOK
      <3>2. lost < MaxLoss /\ lost' = lost + 1
        BY <1>2
      <3>. QED BY <3>1, <3>2
    <2>2. peer' \in [Cid -> PeerState] /\ unclosed \subseteq Cid \cup {None}
      BY <1>2 DEF TypeOK
    <2>. QED BY <1>2, <2>1, <2>2, MissesType
  <1>3. QED BY <1>1, <1>2 DEF Sends

\* So does the ACK and BYE of a 200 that nobody wants, each message on its own.
LEMMA AckThenByeType ==
    ASSUME TypeOK, NEW c \in Cid, AckThenBye(c) \/ AckThenByeFails(c)
    PROVE  /\ peer' \in [Cid -> PeerState] /\ lost' \in 0 .. MaxLoss
           /\ unclosed' \subseteq Cid \cup {None}
  <1>1. CASE AckThenBye(c)
    <2>1. PICK ack \in BOOLEAN, bye \in BOOLEAN :
            LET acked == IF ack THEN Reaction(c, peer[c], "ACK") ELSE peer[c]
            IN /\ lost' = lost + (IF ack THEN 0 ELSE 1) + (IF bye THEN 0 ELSE 1)
               /\ lost' <= MaxLoss
               /\ peer' = [peer EXCEPT ![c] = IF bye THEN Reaction(c, acked, "lone BYE") ELSE acked]
               /\ unclosed' = IF bye THEN unclosed ELSE Misses(c, acked)
      BY <1>1 DEF AckThenBye
    <2>. DEFINE acked == IF ack THEN Reaction(c, peer[c], "ACK") ELSE peer[c]
    <2>2. acked \in PeerState
      BY ReactionType DEF TypeOK
    <2>3. peer' \in [Cid -> PeerState]
      BY <2>1, <2>2, ReactionType DEF TypeOK
    <2>4. lost' \in 0 .. MaxLoss
      <3>1. lost \in Nat /\ MaxLoss \in Nat
        BY EnvAssumption DEF TypeOK
      <3>2. /\ lost' = lost + (IF ack THEN 0 ELSE 1) + (IF bye THEN 0 ELSE 1)
            /\ lost' <= MaxLoss
        BY <2>1
      <3>. QED BY <3>1, <3>2
    <2>5. unclosed' \subseteq Cid \cup {None}
      <3>1. unclosed \subseteq Cid \cup {None}
        BY DEF TypeOK
      <3>. QED BY <2>1, <3>1, MissesType
    <2>. QED BY <2>3, <2>4, <2>5
  <1>2. CASE AckThenByeFails(c)
    BY <1>2, SendsType DEF AckThenByeFails, TypeOK
  <1>. QED BY <1>1, <1>2

\* An await moves the program counter of the task that reached it.
LEMMA AwaitType ==
    ASSUME TypeOK, NEW t \in Task, NEW k, NEW l \in Label,
           Await(t, k, l) \/ WaitsAt(t, l) \/ Continues(t, l)
    PROVE  pc' \in [Task -> Label] /\ loop' \in Task \cup {None}
  BY DEF TypeOK, Await, WaitsAt, Continues

\* Cancelling the call timer stops the timer's own hang-up and drops its queue.
LEMMA CancelType ==
    ASSUME TypeOK, NEW t \in Task, NEW l \in Label, CancelCallTimer(t, l)
    PROVE  pc' \in [Task -> Label] /\ pending_responses' \subseteq Cid
  BY Tasks DEF TypeOK, CancelCallTimer, Label

\* Taking the oldest message leaves a sequence of messages.
LEMMA ReceivesType ==
    ASSUME TypeOK, NEW type, NEW c, Receives(type, c)
    PROVE  net' \in Seq(Message)
  BY DEF TypeOK, Receives

\* Adding a message leaves a sequence of messages.
LEMMA SaysType ==
    ASSUME TypeOK, NEW type, NEW c, Msg(type, c) \in Message, Says(type, c)
    PROVE  net' \in Seq(Message)
  BY DEF TypeOK, Says

\* A response appended for a call whose queue may not exist is well typed.
LEMMA QueueType ==
    ASSUME TypeOK, NEW c, NEW r \in {"cancel", "200", "reject"},
           queue' = [queue EXCEPT ![c] = Append(@, r)]
    PROVE  queue' \in [Outgoing -> Seq({"cancel", "200", "reject"})]
  <1>1. CASE c \in Outgoing BY <1>1 DEF TypeOK
  <1>2. CASE c \notin Outgoing BY <1>2 DEF TypeOK
  <1>3. QED BY <1>1, <1>2

\* The local end of a call, in do_hangup.
LEMMA EndsLocallyType == ASSUME TypeOK, NEW h \in HangupIds, EndsLocally(h) PROVE TypeOK'
  <1>1. UNCHANGED <<call_id, silence_limit, remote_sdp, pending_responses, ring, ring_timer,
                    was_ringing, call_timer, peer, net, lost, unclosed>>
    BY DEF EndsLocally, ringVars, hubVars, envVars
  <1>2. pc' \in [Task -> Label] /\ loop' \in Task \cup {None}
    BY AwaitType, Tasks DEF EndsLocally, Label
  <1>3. queue' \in [Outgoing -> Seq({"cancel", "200", "reject"})]
    <2>1. queue' = queue \/ queue' = [queue EXCEPT ![call_id] = Append(@, "cancel")]
      BY DEF EndsLocally
    <2>2. QED BY <2>1, QueueType DEF TypeOK
  <1>4. hung' \in [HangupIds -> Cid \cup {None}]
    BY DEF EndsLocally, TypeOK
  <1>5. /\ in_call' \in BOOLEAN /\ calling' \in BOOLEAN
        /\ media' \in {"off", "preview", "full", "limited"}
    BY DEF EndsLocally, TypeOK, StopMedia
  <1>. QED BY <1>1, <1>2, <1>3, <1>4, <1>5 DEF TypeOK

\* do_call and the dispatch of its responses keep the types.
LEMMA CallType ==
    ASSUME TypeOK, NEW o \in Outgoing, CallStep(o)
    PROVE  TypeOK'
  <1>1. CASE CallStart(o)
    <2>1. UNCHANGED <<in_call, remote_sdp, pending_responses, queue, ring, ring_timer,
                      media, was_ringing, call_timer, hung, net>>
      BY <1>1 DEF CallStart, ringVars, hubVars
    <2>2. pc' \in [Task -> Label] /\ loop' \in Task \cup {None}
      BY <1>1, AwaitType, Tasks DEF CallStart, TypeOK, Label, DeclineReasons
    <2>3. /\ peer' \in [Cid -> PeerState] /\ lost' \in 0 .. MaxLoss
          /\ unclosed' \subseteq Cid \cup {None}
      BY <1>1, SendsType DEF CallStart, TypeOK, Cid
    <2>4. calling' \in BOOLEAN /\ call_id' \in Cid \cup {None} /\ silence_limit' \in BOOLEAN
      BY <1>1 DEF CallStart, TypeOK, Cid
    <2>. QED BY <2>1, <2>2, <2>3, <2>4 DEF TypeOK
  <1>2. CASE CallListens(o)
    <2>1. UNCHANGED <<in_call, calling, call_id, silence_limit, remote_sdp, queue, ring,
                      ring_timer, media, call_timer, hung, peer, lost, unclosed, net>>
      BY <1>2 DEF CallListens, lineVars, ringVars, envVars
    <2>2. pc' \in [Task -> Label] /\ loop' \in Task \cup {None}
      BY <1>2, AwaitType, Tasks DEF CallListens, TypeOK, Label, DeclineReasons
    <2>3. pending_responses' \subseteq Cid
      BY <1>2 DEF CallListens, TypeOK, Cid
    <2>4. was_ringing' \in BOOLEAN
      BY <1>2 DEF CallListens, SettleRing, TypeOK
    <2>. QED BY <2>1, <2>2, <2>3, <2>4 DEF TypeOK
  <1>3. CASE CallRetransmits(o)
    <2>1. UNCHANGED <<in_call, calling, call_id, silence_limit, remote_sdp,
                      pending_responses, queue, ring, ring_timer, media, was_ringing,
                      call_timer, hung, loop, pc, net>>
      BY <1>3 DEF CallRetransmits, lineVars, ringVars, hubVars
    <2>2. /\ peer' \in [Cid -> PeerState] /\ lost' \in 0 .. MaxLoss
          /\ unclosed' \subseteq Cid \cup {None}
      BY <1>3, SendsType DEF CallRetransmits, TypeOK, Cid
    <2>. QED BY <2>1, <2>2 DEF TypeOK
  <1>4. CASE CallCancelled(o)
    <2>1. UNCHANGED <<in_call, calling, call_id, silence_limit, remote_sdp,
                      pending_responses, ring, ring_timer, media, was_ringing, call_timer,
                      hung, net>>
      BY <1>4 DEF CallCancelled, lineVars, ringVars, hubVars
    <2>2. pc' \in [Task -> Label] /\ loop' \in Task \cup {None}
      BY <1>4, AwaitType, Tasks DEF CallCancelled, TypeOK, Label, DeclineReasons
    <2>3. /\ peer' \in [Cid -> PeerState] /\ lost' \in 0 .. MaxLoss
          /\ unclosed' \subseteq Cid \cup {None}
      BY <1>4, SendsType DEF CallCancelled, TypeOK, Cid
    <2>4. queue' \in [Outgoing -> Seq({"cancel", "200", "reject"})]
      BY <1>4, QueueType DEF CallCancelled, Reads, TypeOK
    <2>. QED BY <2>1, <2>2, <2>3, <2>4 DEF TypeOK
  <1>5. CASE CallRejected(o)
    <2>1. UNCHANGED <<in_call, calling, call_id, silence_limit, remote_sdp,
                      pending_responses, ring, ring_timer, media, was_ringing, call_timer,
                      hung, peer, lost, unclosed, net>>
      BY <1>5 DEF CallRejected, lineVars, ringVars, hubVars, envVars
    <2>2. pc' \in [Task -> Label] /\ loop' \in Task \cup {None}
      BY <1>5, AwaitType, Tasks DEF CallRejected, TypeOK, Label, DeclineReasons
    <2>3. queue' \in [Outgoing -> Seq({"cancel", "200", "reject"})]
      BY <1>5, QueueType DEF CallRejected, Reads, TypeOK
    <2>. QED BY <2>1, <2>2, <2>3 DEF TypeOK
  <1>6. CASE CallTimesOut(o)
    <2>1. UNCHANGED <<in_call, call_id, silence_limit, remote_sdp, ring, ring_timer, media,
                      was_ringing, call_timer, hung, net>>
      BY <1>6 DEF CallTimesOut, ringVars, hubVars
    <2>2. pc' \in [Task -> Label] /\ loop' \in Task \cup {None}
      BY <1>6, AwaitType, Tasks DEF CallTimesOut, TypeOK, Label, DeclineReasons
    <2>3. /\ peer' \in [Cid -> PeerState] /\ lost' \in 0 .. MaxLoss
          /\ unclosed' \subseteq Cid \cup {None}
      BY <1>6, SendsType DEF CallTimesOut, TypeOK, Cid
    <2>4. pending_responses' \subseteq Cid
      BY <1>6 DEF CallTimesOut, TypeOK, Cid
    <2>5. queue' \in [Outgoing -> Seq({"cancel", "200", "reject"})]
      BY <1>6, QueueType DEF CallTimesOut, TypeOK
    <2>6. calling' \in BOOLEAN
      BY <1>6 DEF CallTimesOut, TypeOK, Cid
    <2>. QED BY <2>1, <2>2, <2>3, <2>4, <2>5, <2>6 DEF TypeOK
  <1>7. CASE CallAnswered(o)
    <2>1. UNCHANGED <<in_call, calling, call_id, silence_limit, remote_sdp,
                      pending_responses, ring, ring_timer, media, was_ringing, call_timer,
                      hung, net>>
      BY <1>7 DEF CallAnswered, lineVars, ringVars, hubVars
    <2>2. pc' \in [Task -> Label] /\ loop' \in Task \cup {None}
      BY <1>7, AwaitType, Tasks DEF CallAnswered, TypeOK, Label, DeclineReasons
    <2>3. /\ peer' \in [Cid -> PeerState] /\ lost' \in 0 .. MaxLoss
          /\ unclosed' \subseteq Cid \cup {None}
      BY <1>7, SendsType, AckThenByeType DEF CallAnswered, TypeOK, Cid
    <2>4. queue' \in [Outgoing -> Seq({"cancel", "200", "reject"})]
      BY <1>7, QueueType DEF CallAnswered, Reads, TypeOK
    <2>. QED BY <2>1, <2>2, <2>3, <2>4 DEF TypeOK
  <1>8. CASE CallOpensMedia(o)
    <2>1. UNCHANGED <<in_call, calling, call_id, silence_limit, pending_responses, queue,
                      ring, ring_timer, call_timer, hung, net>>
      BY <1>8 DEF CallOpensMedia, ringVars
    <2>2. pc' \in [Task -> Label] /\ loop' \in Task \cup {None}
      BY <1>8, AwaitType, Tasks DEF CallOpensMedia, Annulled, TypeOK, Label, DeclineReasons
    <2>3. /\ peer' \in [Cid -> PeerState] /\ lost' \in 0 .. MaxLoss
          /\ unclosed' \subseteq Cid \cup {None}
      BY <1>8, SendsType DEF CallOpensMedia, Annulled, TypeOK, Cid
    <2>4. media' \in {"off", "preview", "full", "limited"}
      BY <1>8 DEF CallOpensMedia, SetupMedia, OpenMedia, TypeOK
    <2>5. remote_sdp' \in {"offer", "reoffer", None}
      BY <1>8 DEF CallOpensMedia, TypeOK, Cid
    <2>6. was_ringing' \in BOOLEAN
      BY <1>8 DEF CallOpensMedia, SetupMedia, OpenMedia, SettleRing, TypeOK
    <2>. QED BY <2>1, <2>2, <2>3, <2>4, <2>5, <2>6 DEF TypeOK
  <1>9. CASE CallConnects(o)
    <2>1. UNCHANGED <<call_id, silence_limit, remote_sdp, pending_responses, queue, ring,
                      ring_timer, media, was_ringing, call_timer, hung, net>>
      BY <1>9 DEF CallConnects, ringVars, hubVars
    <2>2. pc' \in [Task -> Label] /\ loop' \in Task \cup {None}
      BY <1>9, AwaitType, Tasks DEF CallConnects, Annulled, TypeOK, Label, DeclineReasons
    <2>3. /\ peer' \in [Cid -> PeerState] /\ lost' \in 0 .. MaxLoss
          /\ unclosed' \subseteq Cid \cup {None}
      BY <1>9, SendsType DEF CallConnects, Annulled, TypeOK, Cid
    <2>4. in_call' \in BOOLEAN /\ calling' \in BOOLEAN
      BY <1>9 DEF CallConnects, TypeOK, Cid
    <2>. QED BY <2>1, <2>2, <2>3, <2>4 DEF TypeOK
  <1>10. CASE CallStarted(o)
    <2>1. UNCHANGED <<in_call, calling, call_id, silence_limit, remote_sdp, queue, ring,
                      ring_timer, media, hung, peer, lost, unclosed, net>>
      BY <1>10 DEF CallStarted, lineVars, ringVars, envVars
    <2>2. pc' \in [Task -> Label] /\ loop' \in Task \cup {None}
      <3>1. \E l \in Label : CancelCallTimer(Call(o), l) /\ loop' \in {None, Call(o)}
        BY <1>10 DEF CallStarted, Label
      <3>2. QED BY <3>1, CancelType, Tasks
    <2>3. pending_responses' \subseteq Cid
      BY <1>10, CancelType, Tasks DEF CallStarted, Label, TypeOK, Cid
    <2>4. was_ringing' \in BOOLEAN /\ call_timer' \in BOOLEAN
      BY <1>10 DEF CallStarted, SettleRing, TypeOK, Cid
    <2>. QED BY <2>1, <2>2, <2>3, <2>4 DEF TypeOK
  <1>11. CASE CallAnnulled(o)
    <2>1. UNCHANGED <<in_call, calling, call_id, silence_limit, remote_sdp,
                      pending_responses, queue, ring, ring_timer, was_ringing, call_timer,
                      hung, peer, lost, unclosed, net>>
      BY <1>11 DEF CallAnnulled, lineVars, ringVars, hubVars, envVars
    <2>2. pc' \in [Task -> Label] /\ loop' \in Task \cup {None}
      BY <1>11, AwaitType, Tasks DEF CallAnnulled, TypeOK, Label, DeclineReasons
    <2>3. media' \in {"off", "preview", "full", "limited"}
      BY <1>11 DEF CallAnnulled, StopMedia, TypeOK
    <2>. QED BY <2>1, <2>2, <2>3 DEF TypeOK
  <1>12. CASE CallForgotten(o)
    <2>1. UNCHANGED <<in_call, queue, ring, ring_timer, media, was_ringing, call_timer,
                      hung, peer, lost, unclosed, net>>
      BY <1>12 DEF CallForgotten, ringVars, hubVars, envVars
    <2>2. pc' \in [Task -> Label] /\ loop' \in Task \cup {None}
      BY <1>12, AwaitType, Tasks DEF CallForgotten, Leaves, TypeOK, Label, DeclineReasons
    <2>3. pending_responses' \subseteq Cid
      BY <1>12 DEF CallForgotten, Leaves, TypeOK, Cid
    <2>4. calling' \in BOOLEAN /\ call_id' \in Cid \cup {None}
          /\ silence_limit' \in BOOLEAN /\ remote_sdp' \in {"offer", "reoffer", None}
      BY <1>12 DEF CallForgotten, Leaves, ClearCallState, ClearIf, TypeOK, Cid
    <2>. QED BY <2>1, <2>2, <2>3, <2>4 DEF TypeOK
  <1>13. CASE CallLeaves(o)
    <2>1. UNCHANGED <<in_call, call_id, silence_limit, remote_sdp, queue, ring, ring_timer,
                      media, was_ringing, call_timer, hung, peer, lost, unclosed, net>>
      BY <1>13 DEF CallLeaves, ringVars, hubVars, envVars
    <2>2. pc' \in [Task -> Label] /\ loop' \in Task \cup {None}
      BY <1>13, AwaitType, Tasks DEF CallLeaves, Leaves, TypeOK, Label, DeclineReasons
    <2>3. pending_responses' \subseteq Cid
      BY <1>13 DEF CallLeaves, Leaves, TypeOK, Cid
    <2>4. calling' \in BOOLEAN
      BY <1>13 DEF CallLeaves, Leaves, TypeOK, Cid
    <2>. QED BY <2>1, <2>2, <2>3, <2>4 DEF TypeOK
  <1>14. ASSUME NEW type \in {"200", "reject"}, DispatchFinal(o, type)
         PROVE  TypeOK'
    <2>1. UNCHANGED <<in_call, calling, call_id, silence_limit, remote_sdp,
                      pending_responses, ring, ring_timer, media, was_ringing, call_timer,
                      hung, loop, pc>>
      BY <1>14 DEF DispatchFinal, lineVars, ringVars, hubVars
    <2>2. /\ peer' \in [Cid -> PeerState] /\ lost' \in 0 .. MaxLoss
          /\ unclosed' \subseteq Cid \cup {None}
      BY <1>14, SendsType, AckThenByeType DEF DispatchFinal, OrphanReply, TypeOK, Cid
    <2>3. net' \in Seq(Message)
      BY <1>14, ReceivesType DEF DispatchFinal
    <2>4. queue' \in [Outgoing -> Seq({"cancel", "200", "reject"})]
      BY <1>14, QueueType DEF DispatchFinal, TypeOK
    <2>. QED BY <2>1, <2>2, <2>3, <2>4 DEF TypeOK
  <1>. QED BY <1>1, <1>2, <1>3, <1>4, <1>5, <1>6, <1>7, <1>8, <1>9, <1>10, <1>11, <1>12,
              <1>13, <1>14 DEF CallStep

\* So does do_hangup.
LEMMA HangupType ==
    ASSUME TypeOK, NEW h \in HangupIds, HangupStep(h)
    PROVE  TypeOK'
  <1>1. CASE HangupAsked(h)
    <2>1. UNCHANGED <<in_call, calling, call_id, silence_limit, remote_sdp, queue, ring,
                      ring_timer, media, was_ringing, hung, loop, peer, lost, unclosed, net>>
      BY <1>1 DEF HangupAsked, lineVars, ringVars, envVars
    <2>2. pc' \in [Task -> Label]
      BY <1>1, AwaitType, CancelType, Tasks DEF HangupAsked, TypeOK, Label, DeclineReasons
    <2>3. pending_responses' \subseteq Cid
      BY <1>1, CancelType, Tasks DEF HangupAsked, Label, TypeOK, Cid
    <2>4. call_timer' \in BOOLEAN
      BY <1>1 DEF HangupAsked, TypeOK, Cid
    <2>. QED BY <2>1, <2>2, <2>3, <2>4 DEF TypeOK
  <1>2. CASE HangupStart(h)
    BY <1>2, EndsLocallyType DEF HangupStart
  <1>3. CASE HangupTells(h)
    <2>1. UNCHANGED <<in_call, calling, call_id, silence_limit, remote_sdp,
                      pending_responses, queue, ring, ring_timer, media, call_timer, hung,
                      peer, lost, unclosed, net>>
      BY <1>3 DEF HangupTells, lineVars, ringVars, envVars
    <2>2. pc' \in [Task -> Label] /\ loop' \in Task \cup {None}
      BY <1>3, AwaitType, Tasks DEF HangupTells, TypeOK, Label, DeclineReasons
    <2>3. was_ringing' \in BOOLEAN
      BY <1>3 DEF HangupTells, SettleRing, TypeOK, Cid
    <2>. QED BY <2>1, <2>2, <2>3 DEF TypeOK
  <1>4. CASE HangupTold(h)
    <2>1. UNCHANGED <<in_call, calling, call_id, silence_limit, remote_sdp, queue, ring,
                      ring_timer, media, hung, peer, lost, unclosed, net>>
      BY <1>4 DEF HangupTold, lineVars, ringVars, envVars
    <2>2. pc' \in [Task -> Label] /\ loop' \in Task \cup {None}
      BY <1>4, AwaitType, CancelType, Tasks DEF HangupTold, TypeOK, Label, DeclineReasons
    <2>3. pending_responses' \subseteq Cid
      BY <1>4, CancelType, Tasks DEF HangupTold, Label, TypeOK, Cid
    <2>4. was_ringing' \in BOOLEAN /\ call_timer' \in BOOLEAN
      BY <1>4 DEF HangupTold, SettleRing, TypeOK, Cid
    <2>. QED BY <2>1, <2>2, <2>3, <2>4 DEF TypeOK
  <1>5. CASE HangupByes(h)
    <2>1. UNCHANGED <<in_call, calling, queue, ring, ring_timer, media, was_ringing,
                      call_timer, hung, net>>
      BY <1>5 DEF HangupByes, ringVars, hubVars
    <2>2. pc' \in [Task -> Label] /\ loop' \in Task \cup {None}
      BY <1>5, AwaitType, Tasks DEF HangupByes, HangupEnds, TypeOK, Label, DeclineReasons
    <2>3. /\ peer' \in [Cid -> PeerState] /\ lost' \in 0 .. MaxLoss
          /\ unclosed' \subseteq Cid \cup {None}
      BY <1>5, SendsType DEF HangupByes, TypeOK, Cid
    <2>4. pending_responses' \subseteq Cid
      <3>1. hung[h] \in Cid \cup {None}
        BY DEF TypeOK
      <3>2. \/ pending_responses' \subseteq pending_responses
            \/ /\ hung[h] # None
               /\ pending_responses' = pending_responses \cup {hung[h]}
        BY <1>5 DEF HangupByes
      <3>3. QED BY <3>1, <3>2 DEF TypeOK
    <2>5. call_id' \in Cid \cup {None} /\ silence_limit' \in BOOLEAN
          /\ remote_sdp' \in {"offer", "reoffer", None}
      BY <1>5 DEF HangupByes, ClearCallState, ClearIf, TypeOK, Cid
    <2>. QED BY <2>1, <2>2, <2>3, <2>4, <2>5 DEF TypeOK
  <1>6. CASE HangupRetransmits(h)
    <2>1. UNCHANGED <<in_call, calling, call_id, silence_limit, remote_sdp,
                      pending_responses, queue, ring, ring_timer, media, was_ringing,
                      call_timer, hung, loop, pc, net>>
      BY <1>6 DEF HangupRetransmits, lineVars, ringVars, hubVars
    <2>2. /\ peer' \in [Cid -> PeerState] /\ lost' \in 0 .. MaxLoss
          /\ unclosed' \subseteq Cid \cup {None}
      BY <1>6, SendsType DEF HangupRetransmits, TypeOK, Cid
    <2>. QED BY <2>1, <2>2 DEF TypeOK
  <1>7. CASE HangupDone(h)
    <2>1. UNCHANGED <<in_call, calling, queue, ring, ring_timer, media, was_ringing,
                      call_timer, hung, peer, lost, net>>
      BY <1>7 DEF HangupDone, ringVars, hubVars
    <2>2. pc' \in [Task -> Label] /\ loop' \in Task \cup {None}
      BY <1>7, AwaitType, Tasks DEF HangupDone, HangupEnds, TypeOK, Label, DeclineReasons
    <2>3. pending_responses' \subseteq Cid
      BY <1>7 DEF HangupDone, TypeOK, Cid
    <2>4. call_id' \in Cid \cup {None} /\ silence_limit' \in BOOLEAN
          /\ remote_sdp' \in {"offer", "reoffer", None}
      BY <1>7 DEF HangupDone, ClearCallState, ClearIf, TypeOK, Cid
    <2>5. unclosed' \subseteq Cid \cup {None}
      <3>1. hung[h] \in Cid \cup {None} /\ unclosed \subseteq Cid \cup {None}
        BY DEF TypeOK
      <3>. QED BY <1>7, <3>1, MissesType DEF HangupDone
    <2>. QED BY <2>1, <2>2, <2>3, <2>4, <2>5 DEF TypeOK
  <1>. QED BY <1>1, <1>2, <1>3, <1>4, <1>5, <1>6, <1>7 DEF HangupStep

\* So does the hub's call timer.
LEMMA TimerType ==
    ASSUME TypeOK, TimerFires \/ HangupCut
    PROVE  TypeOK'
  <1>1. CASE TimerFires
    BY <1>1, EndsLocallyType DEF TimerFires, Timer, HangupIds
  <1>2. CASE HangupCut
    <2>1. UNCHANGED <<in_call, calling, call_id, silence_limit, remote_sdp,
                      pending_responses, queue, ring, ring_timer, media, was_ringing,
                      call_timer, hung, net>>
      BY <1>2 DEF HangupCut, lineVars, ringVars, hubVars
    <2>2. pc' \in [Task -> Label] /\ loop' \in Task \cup {None}
      BY <1>2, AwaitType, Tasks DEF HangupCut, Ends, TypeOK, Label, DeclineReasons
    <2>3. /\ peer' \in [Cid -> PeerState] /\ lost' \in 0 .. MaxLoss
          /\ unclosed' \subseteq Cid \cup {None}
      BY <1>2, SendsType DEF HangupCut, TypeOK, Cid, HangupIds
    <2>. QED BY <2>1, <2>2, <2>3 DEF TypeOK
  <1>. QED BY <1>1, <1>2

\* So do the handlers of an INVITE.
LEMMA InviteType ==
    ASSUME TypeOK, NEW c \in Cid, InviteStep(c)
    PROVE  TypeOK'
  <1>1. ASSUME NEW type \in {"INVITE", "re-INVITE"}, InviteRings(c, type)
         PROVE  TypeOK'
    <2>1. UNCHANGED <<in_call, calling, call_id, silence_limit, remote_sdp,
                      pending_responses, queue, ring_timer, media, was_ringing, call_timer,
                      hung>>
      BY <1>1 DEF InviteRings, lineVars, hubVars
    <2>2. pc' \in [Task -> Label] /\ loop' \in Task \cup {None}
      BY <1>1, AwaitType, Tasks DEF InviteRings, TypeOK, Label, DeclineReasons
    <2>3. /\ peer' \in [Cid -> PeerState] /\ lost' \in 0 .. MaxLoss
          /\ unclosed' \subseteq Cid \cup {None}
      BY <1>1, SendsType DEF InviteRings, TypeOK, Cid
    <2>4. net' \in Seq(Message)
      BY <1>1, ReceivesType DEF InviteRings
    <2>5. ring' \in [active : BOOLEAN, cid : Cid \cup {None}, early : BOOLEAN,
                    resp : {"none", "1xx", "200", "final"}]
      <3>1. CASE UNCHANGED ring
        BY <3>1 DEF TypeOK
      <3>2. CASE ring' = [active |-> TRUE, cid |-> c, early |-> HasOffer(c), resp |-> "1xx"]
        <4>1. HasOffer(c) \in BOOLEAN
          BY DEF HasOffer
        <4>2. QED BY <3>2, <4>1
      <3>3. QED BY <1>1, <3>1, <3>2 DEF InviteRings
    <2>. QED BY <2>1, <2>2, <2>3, <2>4, <2>5 DEF TypeOK
  <1>2. ASSUME NEW type \in {"INVITE", "re-INVITE"}, InviteRepeats(c, type)
         PROVE  TypeOK'
    <2>1. UNCHANGED <<in_call, calling, call_id, silence_limit, remote_sdp,
                      pending_responses, queue, ring, ring_timer, media, was_ringing,
                      call_timer, hung, loop, pc>>
      BY <1>2 DEF InviteRepeats, lineVars, ringVars, hubVars
    <2>2. /\ peer' \in [Cid -> PeerState] /\ lost' \in 0 .. MaxLoss
          /\ unclosed' \subseteq Cid \cup {None}
      BY <1>2, SendsType DEF InviteRepeats, RepeatsResponse, TypeOK, Cid
    <2>3. net' \in Seq(Message)
      BY <1>2, ReceivesType DEF InviteRepeats
    <2>. QED BY <2>1, <2>2, <2>3 DEF TypeOK
  <1>3. CASE InvitePreviews(c)
    <2>1. UNCHANGED <<in_call, calling, call_id, silence_limit, remote_sdp,
                      pending_responses, queue, ring, ring_timer, call_timer,
                      hung, peer, lost, unclosed, net>>
      BY <1>3 DEF InvitePreviews, lineVars, ringVars, envVars
    <2>2. pc' \in [Task -> Label] /\ loop' \in Task \cup {None}
      BY <1>3, AwaitType, Tasks DEF InvitePreviews, TypeOK, Label, DeclineReasons
    <2>3. media' \in {"off", "preview", "full", "limited"}
      BY <1>3 DEF InvitePreviews, StopMedia, OpenMedia, TypeOK
    <2>4. was_ringing' \in BOOLEAN
      BY <1>3 DEF InvitePreviews, OpenMedia, SettleRing, TypeOK
    <2>. QED BY <2>1, <2>2, <2>3, <2>4 DEF TypeOK
  <1>4. CASE InviteChecks(c)
    <2>1. UNCHANGED <<in_call, calling, call_id, silence_limit, remote_sdp,
                      pending_responses, queue, ring_timer, was_ringing, call_timer, hung,
                      peer, lost, unclosed, net>>
      BY <1>4 DEF InviteChecks, lineVars, hubVars, envVars
    <2>2. pc' \in [Task -> Label] /\ loop' \in Task \cup {None}
      BY <1>4, AwaitType, Tasks DEF InviteChecks, Ends, TypeOK, Label, DeclineReasons
    <2>3. media' \in {"off", "preview", "full", "limited"}
      BY <1>4 DEF InviteChecks, StopMedia, TypeOK
    <2>4. ring' \in [active : BOOLEAN, cid : Cid \cup {None}, early : BOOLEAN,
                    resp : {"none", "1xx", "200", "final"}]
      BY <1>4 DEF InviteChecks, TypeOK, Cid
    <2>. QED BY <2>1, <2>2, <2>3, <2>4 DEF TypeOK
  <1>5. CASE InviteTells(c)
    <2>1. UNCHANGED <<in_call, calling, call_id, silence_limit, remote_sdp,
                      pending_responses, queue, ring, media, was_ringing, call_timer, hung,
                      peer, lost, unclosed, net>>
      BY <1>5 DEF InviteTells, lineVars, hubVars, envVars
    <2>2. pc' \in [Task -> Label] /\ loop' \in Task \cup {None}
      BY <1>5, AwaitType, Tasks DEF InviteTells, TypeOK, Label, DeclineReasons
    <2>3. ring_timer' \in Cid \cup {None}
      BY <1>5 DEF InviteTells, ArmRingTimer, TypeOK, Cid
    <2>. QED BY <2>1, <2>2, <2>3 DEF TypeOK
  <1>6. CASE InviteTold(c)
    <2>1. UNCHANGED <<in_call, calling, call_id, silence_limit, remote_sdp,
                      pending_responses, queue, ring, ring_timer, media, call_timer, hung,
                      peer, lost, unclosed, net>>
      BY <1>6 DEF InviteTold, lineVars, ringVars, envVars
    <2>2. pc' \in [Task -> Label] /\ loop' \in Task \cup {None}
      <3>1. CASE Busy
        <4>1. PICK l \in Label :
                pc' = [pc EXCEPT ![Invite(c)] = "idle", ![Decline("echo")] = l]
          <5>. DEFINE told == [pc EXCEPT ![Invite(c)] = "idle"]
          <5>1. told \in [Task -> Label] /\ Decline("echo") \in Task
            BY Tasks DEF TypeOK, Label, DeclineReasons
          <5>2. pc' = [told EXCEPT ![Decline("echo")] = IF @ = "idle" THEN "spawned" ELSE @]
            BY <1>6, <3>1 DEF InviteTold
          <5>3. told[Decline("echo")] \in Label /\ "spawned" \in Label
            BY <5>1 DEF Label
          <5>4. QED BY <5>2, <5>3
        <4>2. loop' = None
          BY <1>6 DEF InviteTold
        <4>3. QED BY <4>1, <4>2, Tasks DEF TypeOK, Label
      <3>2. CASE ~Busy
        BY <1>6, <3>2, Tasks DEF InviteTold, TypeOK, Label
      <3>3. QED BY <3>1, <3>2
    <2>3. was_ringing' \in BOOLEAN
      BY <1>6 DEF InviteTold, TypeOK, Cid
    <2>. QED BY <2>1, <2>2, <2>3 DEF TypeOK
  <1>7. CASE ReinviteAgrees(c)
    <2>1. UNCHANGED <<in_call, calling, call_id, silence_limit, remote_sdp,
                      pending_responses, queue, ring, ring_timer, media, was_ringing,
                      call_timer, hung, peer, lost, unclosed>>
      BY <1>7 DEF ReinviteAgrees, lineVars, ringVars, hubVars
    <2>2. pc' \in [Task -> Label] /\ loop' \in Task \cup {None}
      BY <1>7, AwaitType, Tasks DEF ReinviteAgrees, TypeOK, Label, DeclineReasons
    <2>3. net' \in Seq(Message)
      BY <1>7, ReceivesType DEF ReinviteAgrees
    <2>. QED BY <2>1, <2>2, <2>3 DEF TypeOK
  <1>8. CASE ReinviteOpens(c)
    <2>1. UNCHANGED <<in_call, calling, call_id, silence_limit, pending_responses, queue,
                      ring, ring_timer, call_timer, hung, peer, lost, unclosed, net>>
      BY <1>8 DEF ReinviteOpens, ringVars, envVars
    <2>2. pc' \in [Task -> Label] /\ loop' \in Task \cup {None}
      BY <1>8, AwaitType, Tasks DEF ReinviteOpens, Ends, TypeOK, Label, DeclineReasons
    <2>3. media' \in {"off", "preview", "full", "limited"}
      BY <1>8 DEF ReinviteOpens, SetupMedia, OpenMedia, TypeOK
    <2>4. remote_sdp' \in {"offer", "reoffer", None}
      BY <1>8 DEF ReinviteOpens, TypeOK, Cid
    <2>5. was_ringing' \in BOOLEAN
      BY <1>8 DEF ReinviteOpens, SetupMedia, OpenMedia, SettleRing, TypeOK
    <2>. QED BY <2>1, <2>2, <2>3, <2>4, <2>5 DEF TypeOK
  <1>. QED BY <1>1, <1>2, <1>3, <1>4, <1>5, <1>6, <1>7, <1>8 DEF InviteStep

\* So do the ways a ring ends.
LEMMA RingEndType ==
    ASSUME TypeOK, RingEndStep
    PROVE  TypeOK'
  <1>1. ASSUME NEW c \in Cid, CancelArrives(c)
         PROVE  TypeOK'
    <2>1. UNCHANGED <<in_call, calling, call_id, silence_limit, remote_sdp,
                      pending_responses, queue, ring, ring_timer, media, was_ringing,
                      call_timer, hung, peer, lost, unclosed>>
      BY <1>1 DEF CancelArrives, lineVars, ringVars, hubVars
    <2>2. pc' \in [Task -> Label] /\ loop' \in Task \cup {None}
      BY <1>1, AwaitType, Tasks DEF CancelArrives, TypeOK, Label, DeclineReasons
    <2>3. net' \in Seq(Message)
      BY <1>1, ReceivesType DEF CancelArrives
    <2>. QED BY <2>1, <2>2, <2>3 DEF TypeOK
  <1>2. ASSUME NEW c \in Cid, CancelTerminates(c)
         PROVE  TypeOK'
    <2>1. UNCHANGED <<in_call, calling, call_id, silence_limit, remote_sdp,
                      pending_responses, queue, ring_timer, media, was_ringing, call_timer,
                      hung, net>>
      BY <1>2 DEF CancelTerminates, lineVars, hubVars
    <2>2. pc' \in [Task -> Label] /\ loop' \in Task \cup {None}
      BY <1>2, AwaitType, Tasks DEF CancelTerminates, Ends, TypeOK, Label, DeclineReasons
    <2>3. /\ peer' \in [Cid -> PeerState] /\ lost' \in 0 .. MaxLoss
          /\ unclosed' \subseteq Cid \cup {None}
      BY <1>2, SendsType DEF CancelTerminates, TypeOK, Cid
    <2>4. ring' \in [active : BOOLEAN, cid : Cid \cup {None}, early : BOOLEAN,
                    resp : {"none", "1xx", "200", "final"}]
      BY <1>2 DEF CancelTerminates, TypeOK, Cid
    <2>. QED BY <2>1, <2>2, <2>3, <2>4 DEF TypeOK
  <1>3. ASSUME NEW w \in DeclineReasons, DeclineStart(w)
         PROVE  TypeOK'
    <2>1. UNCHANGED <<in_call, calling, call_id, silence_limit, remote_sdp,
                      pending_responses, queue, media, was_ringing, call_timer, hung, net>>
      BY <1>3 DEF DeclineStart, lineVars, hubVars
    <2>2. pc' \in [Task -> Label] /\ loop' \in Task \cup {None}
      BY <1>3, AwaitType, Tasks DEF DeclineStart, TypeOK, Label, DeclineReasons
    <2>3. /\ peer' \in [Cid -> PeerState] /\ lost' \in 0 .. MaxLoss
          /\ unclosed' \subseteq Cid \cup {None}
      BY <1>3, SendsType DEF DeclineStart, TypeOK, Cid
    <2>4. ring' \in [active : BOOLEAN, cid : Cid \cup {None}, early : BOOLEAN,
                    resp : {"none", "1xx", "200", "final"}]
      BY <1>3 DEF DeclineStart, TypeOK, Cid
    <2>5. ring_timer' \in Cid \cup {None}
      BY <1>3 DEF DeclineStart, TypeOK, Cid
    <2>. QED BY <2>1, <2>2, <2>3, <2>4, <2>5 DEF TypeOK
  <1>4. CASE EchoGone
    <2>1. UNCHANGED <<in_call, calling, call_id, silence_limit, remote_sdp,
                      pending_responses, queue, ring, ring_timer, media, was_ringing,
                      call_timer, hung, peer, lost, unclosed, net>>
      BY <1>4 DEF EchoGone, lineVars, ringVars, hubVars, envVars
    <2>2. pc' \in [Task -> Label] /\ loop' \in Task \cup {None}
      BY <1>4, AwaitType, Tasks DEF EchoGone, Ends, TypeOK, Label, DeclineReasons
    <2>. QED BY <2>1, <2>2 DEF TypeOK
  <1>5. ASSUME NEW t \in RingEnders, RingEnds(t)
         PROVE  TypeOK'
    <2>1. UNCHANGED <<in_call, calling, call_id, silence_limit, remote_sdp, queue,
                      was_ringing, call_timer, hung, peer, lost, unclosed, net>>
      BY <1>5 DEF RingEnds, lineVars, hubVars, envVars
    <2>2. pc' \in [Task -> Label] /\ loop' \in Task \cup {None}
      BY <1>5, AwaitType, Tasks DEF RingEnds, TypeOK, Label, DeclineReasons
    <2>3. pending_responses' \subseteq Cid
      BY <1>5 DEF RingEnds, TypeOK, Cid
    <2>4. media' \in {"off", "preview", "full", "limited"}
      BY <1>5 DEF RingEnds, StopMedia, TypeOK
    <2>5. ring' \in [active : BOOLEAN, cid : Cid \cup {None}, early : BOOLEAN,
                    resp : {"none", "1xx", "200", "final"}]
      BY <1>5 DEF RingEnds, CloseRing, TypeOK, Cid
    <2>6. ring_timer' \in Cid \cup {None}
      BY <1>5 DEF RingEnds, CloseRing, TypeOK, Cid
    <2>. QED BY <2>1, <2>2, <2>3, <2>4, <2>5, <2>6 DEF TypeOK
  <1>6. ASSUME NEW t \in RingEnders, RingEndTells(t)
         PROVE  TypeOK'
    <2>1. UNCHANGED <<in_call, calling, call_id, silence_limit, remote_sdp,
                      pending_responses, queue, ring, ring_timer, media, was_ringing,
                      call_timer, hung, peer, lost, unclosed, net>>
      BY <1>6 DEF RingEndTells, lineVars, ringVars, hubVars, envVars
    <2>2. pc' \in [Task -> Label] /\ loop' \in Task \cup {None}
      BY <1>6, AwaitType, Tasks DEF RingEndTells, Ends, TypeOK, Label, DeclineReasons
    <2>. QED BY <2>1, <2>2 DEF TypeOK
  <1>7. ASSUME NEW t \in RingEnders, RingEndTold(t)
         PROVE  TypeOK'
    <2>1. UNCHANGED <<in_call, calling, call_id, silence_limit, remote_sdp,
                      pending_responses, queue, ring, ring_timer, media, call_timer, hung,
                      peer, lost, unclosed, net>>
      BY <1>7 DEF RingEndTold, lineVars, ringVars, envVars
    <2>2. pc' \in [Task -> Label] /\ loop' \in Task \cup {None}
      BY <1>7, AwaitType, Tasks DEF RingEndTold, Ends, TypeOK, Label, DeclineReasons
    <2>3. was_ringing' \in BOOLEAN
      BY <1>7 DEF RingEndTold, SettleRing, TypeOK, Cid
    <2>. QED BY <2>1, <2>2, <2>3 DEF TypeOK
  <1>. QED BY <1>1, <1>2, <1>3, <1>4, <1>5, <1>6, <1>7 DEF RingEndStep

\* So do do_answer_incoming and the ACK.
LEMMA AnswerType ==
    ASSUME TypeOK, NEW c \in Cid, AnswerStep(c)
    PROVE  TypeOK'
  <1>1. CASE AnswerStart(c)
    <2>1. UNCHANGED <<in_call, calling, call_id, silence_limit, remote_sdp,
                      pending_responses, queue, was_ringing, call_timer, hung, net>>
      BY <1>1 DEF AnswerStart, lineVars, hubVars
    <2>2. pc' \in [Task -> Label] /\ loop' \in Task \cup {None}
      BY <1>1, AwaitType, Tasks DEF AnswerStart, TypeOK, Label, DeclineReasons
    <2>3. /\ peer' \in [Cid -> PeerState] /\ lost' \in 0 .. MaxLoss
          /\ unclosed' \subseteq Cid \cup {None}
      BY <1>1, SendsType DEF AnswerStart, TypeOK, Cid
    <2>4. media' \in {"off", "preview", "full", "limited"}
      BY <1>1 DEF AnswerStart, StopMedia, TypeOK
    <2>5. ring' \in [active : BOOLEAN, cid : Cid \cup {None}, early : BOOLEAN,
                    resp : {"none", "1xx", "200", "final"}]
      BY <1>1 DEF AnswerStart, TypeOK, Cid
    <2>6. ring_timer' \in Cid \cup {None}
      BY <1>1 DEF AnswerStart, TypeOK, Cid
    <2>. QED BY <2>1, <2>2, <2>3, <2>4, <2>5, <2>6 DEF TypeOK
  <1>2. CASE AnswerConnects(c)
    <2>1. UNCHANGED <<calling, silence_limit, pending_responses, queue, ring, ring_timer,
                      call_timer, hung, peer, lost, unclosed, net>>
      BY <1>2 DEF AnswerConnects, ringVars, envVars
    <2>2. pc' \in [Task -> Label] /\ loop' \in Task \cup {None}
      BY <1>2, AwaitType, Tasks DEF AnswerConnects, TypeOK, Label, DeclineReasons
    <2>3. media' \in {"off", "preview", "full", "limited"}
      BY <1>2 DEF AnswerConnects, SetupMedia, OpenMedia, TypeOK
    <2>4. in_call' \in BOOLEAN /\ call_id' \in Cid \cup {None} /\ remote_sdp' \in {"offer",
          "reoffer", None}
      BY <1>2 DEF AnswerConnects, TypeOK, Cid
    <2>5. was_ringing' \in BOOLEAN
      BY <1>2 DEF AnswerConnects, SetupMedia, OpenMedia, SettleRing, TypeOK
    <2>. QED BY <2>1, <2>2, <2>3, <2>4, <2>5 DEF TypeOK
  <1>3. CASE AnswerTells(c)
    <2>1. UNCHANGED <<in_call, calling, call_id, silence_limit, remote_sdp,
                      pending_responses, queue, ring, ring_timer, media, was_ringing,
                      call_timer, hung, peer, lost, unclosed, net>>
      BY <1>3 DEF AnswerTells, lineVars, ringVars, hubVars, envVars
    <2>2. pc' \in [Task -> Label] /\ loop' \in Task \cup {None}
      BY <1>3, AwaitType, Tasks DEF AnswerTells, TypeOK, Label, DeclineReasons
    <2>. QED BY <2>1, <2>2 DEF TypeOK
  <1>4. CASE AnswerTold(c)
    <2>1. UNCHANGED <<in_call, calling, call_id, silence_limit, remote_sdp, queue, ring,
                      ring_timer, media, hung, peer, lost, unclosed, net>>
      BY <1>4 DEF AnswerTold, lineVars, ringVars, envVars
    <2>2. pc' \in [Task -> Label] /\ loop' \in Task \cup {None}
      BY <1>4, AwaitType, CancelType, Tasks DEF AnswerTold, TypeOK, Label, DeclineReasons
    <2>3. pending_responses' \subseteq Cid
      BY <1>4, CancelType, Tasks DEF AnswerTold, Label, TypeOK, Cid
    <2>4. was_ringing' \in BOOLEAN /\ call_timer' \in BOOLEAN
      BY <1>4 DEF AnswerTold, SettleRing, TypeOK, Cid
    <2>. QED BY <2>1, <2>2, <2>3, <2>4 DEF TypeOK
  <1>5. CASE AckArrives(c)
    <2>1. UNCHANGED <<in_call, calling, call_id, silence_limit, remote_sdp,
                      pending_responses, queue, ring, ring_timer, media, was_ringing,
                      call_timer, hung, loop, peer, lost, unclosed>>
      BY <1>5 DEF AckArrives, lineVars, ringVars, hubVars
    <2>2. pc' \in [Task -> Label]
      BY <1>5, AwaitType, Tasks DEF AckArrives, TypeOK, Label, DeclineReasons
    <2>3. net' \in Seq(Message)
      BY <1>5, ReceivesType DEF AckArrives
    <2>. QED BY <2>1, <2>2, <2>3 DEF TypeOK
  <1>6. CASE AckOpens(c)
    <2>1. UNCHANGED <<in_call, calling, call_id, silence_limit, pending_responses, queue,
                      ring, ring_timer, call_timer, hung, peer, lost, unclosed, net>>
      BY <1>6 DEF AckOpens, ringVars, envVars
    <2>2. pc' \in [Task -> Label] /\ loop' \in Task \cup {None}
      BY <1>6, AwaitType, Tasks DEF AckOpens, Ends, TypeOK, Label, DeclineReasons
    <2>3. media' \in {"off", "preview", "full", "limited"}
      BY <1>6 DEF AckOpens, SetupMedia, OpenMedia, TypeOK
    <2>4. remote_sdp' \in {"offer", "reoffer", None}
      BY <1>6 DEF AckOpens, TypeOK, Cid
    <2>5. was_ringing' \in BOOLEAN
      BY <1>6 DEF AckOpens, SetupMedia, OpenMedia, SettleRing, TypeOK
    <2>. QED BY <2>1, <2>2, <2>3, <2>4, <2>5 DEF TypeOK
  <1>. QED BY <1>1, <1>2, <1>3, <1>4, <1>5, <1>6 DEF AnswerStep

\* So does handle_incoming_bye.
LEMMA ByeType ==
    ASSUME TypeOK, NEW c \in Cid, ByeStep(c)
    PROVE  TypeOK'
  <1>1. CASE ByeArrives(c)
    <2>1. UNCHANGED <<in_call, calling, call_id, silence_limit, remote_sdp,
                      pending_responses, queue, ring, ring_timer, media, was_ringing,
                      call_timer, hung, peer, lost, unclosed>>
      BY <1>1 DEF ByeArrives, lineVars, ringVars, hubVars
    <2>2. pc' \in [Task -> Label] /\ loop' \in Task \cup {None}
      BY <1>1, AwaitType, Tasks DEF ByeArrives, TypeOK, Label, DeclineReasons
    <2>3. net' \in Seq(Message)
      BY <1>1, ReceivesType DEF ByeArrives
    <2>. QED BY <2>1, <2>2, <2>3 DEF TypeOK
  <1>2. CASE ByeEnds(c)
    <2>1. UNCHANGED <<calling, queue, ring, ring_timer, was_ringing, call_timer, hung,
                      peer, lost, unclosed, net>>
      BY <1>2 DEF ByeEnds, ringVars, hubVars, envVars
    <2>2. pc' \in [Task -> Label] /\ loop' \in Task \cup {None}
      BY <1>2, AwaitType, Tasks DEF ByeEnds, Ends, TypeOK, Label, DeclineReasons
    <2>3. pending_responses' \subseteq Cid
      BY <1>2 DEF ByeEnds, TypeOK, Cid
    <2>4. media' \in {"off", "preview", "full", "limited"}
      BY <1>2 DEF ByeEnds, StopMedia, TypeOK
    <2>5. in_call' \in BOOLEAN /\ call_id' \in Cid \cup {None}
          /\ silence_limit' \in BOOLEAN /\ remote_sdp' \in {"offer", "reoffer", None}
      BY <1>2 DEF ByeEnds, ClearCallState, TypeOK, Cid
    <2>. QED BY <2>1, <2>2, <2>3, <2>4, <2>5 DEF TypeOK
  <1>3. CASE ByeTells(c)
    <2>1. UNCHANGED <<in_call, calling, call_id, silence_limit, remote_sdp,
                      pending_responses, queue, ring, ring_timer, media, call_timer, hung,
                      peer, lost, unclosed, net>>
      BY <1>3 DEF ByeTells, lineVars, ringVars, envVars
    <2>2. pc' \in [Task -> Label] /\ loop' \in Task \cup {None}
      BY <1>3, AwaitType, Tasks DEF ByeTells, Ends, TypeOK, Label, DeclineReasons
    <2>3. was_ringing' \in BOOLEAN
      BY <1>3 DEF ByeTells, SettleRing, TypeOK, Cid
    <2>. QED BY <2>1, <2>2, <2>3 DEF TypeOK
  <1>4. CASE ByeTold(c)
    <2>1. UNCHANGED <<in_call, calling, call_id, silence_limit, remote_sdp, queue, ring,
                      ring_timer, media, hung, peer, lost, unclosed, net>>
      BY <1>4 DEF ByeTold, lineVars, ringVars, envVars
    <2>2. pc' \in [Task -> Label] /\ loop' \in Task \cup {None}
      BY <1>4, AwaitType, CancelType, Tasks DEF ByeTold, TypeOK, Label, DeclineReasons
    <2>3. pending_responses' \subseteq Cid
      BY <1>4, CancelType, Tasks DEF ByeTold, Label, TypeOK, Cid
    <2>4. was_ringing' \in BOOLEAN /\ call_timer' \in BOOLEAN
      BY <1>4 DEF ByeTold, SettleRing, TypeOK, Cid
    <2>. QED BY <2>1, <2>2, <2>3, <2>4 DEF TypeOK
  <1>. QED BY <1>1, <1>2, <1>3, <1>4 DEF ByeStep

\* So do the panel and the network.
LEMMA PanelType ==
    ASSUME TypeOK, Panel
    PROVE  TypeOK'
  <1>1. ASSUME NEW o \in Outgoing, PanelAnswers(o)
         PROVE  TypeOK'
    <2>1. UNCHANGED <<in_call, calling, call_id, silence_limit, remote_sdp,
                      pending_responses, queue, ring, ring_timer, media, was_ringing,
                      call_timer, hung, loop, pc, lost, unclosed>>
      BY <1>1 DEF PanelAnswers, PanelActs, lineVars, ringVars, hubVars
    <2>2. peer' \in [Cid -> PeerState]
      BY <1>1 DEF PanelAnswers, TypeOK, PeerState, Cid
    <2>3. net' \in Seq(Message)
      BY <1>1, SaysType DEF PanelAnswers, Message, Msg, Cid, TypeOK
    <2>. QED BY <2>1, <2>2, <2>3 DEF TypeOK
  <1>2. ASSUME NEW o \in Outgoing, PanelRejects(o)
         PROVE  TypeOK'
    <2>1. UNCHANGED <<in_call, calling, call_id, silence_limit, remote_sdp,
                      pending_responses, queue, ring, ring_timer, media, was_ringing,
                      call_timer, hung, loop, pc, lost, unclosed>>
      BY <1>2 DEF PanelRejects, PanelActs, lineVars, ringVars, hubVars
    <2>2. peer' \in [Cid -> PeerState]
      BY <1>2 DEF PanelRejects, TypeOK, PeerState, Cid
    <2>3. net' \in Seq(Message)
      BY <1>2, SaysType DEF PanelRejects, Message, Msg, Cid, TypeOK
    <2>. QED BY <2>1, <2>2, <2>3 DEF TypeOK
  <1>3. ASSUME NEW o \in Outgoing, PanelAnswersAgain(o)
         PROVE  TypeOK'
    <2>1. UNCHANGED <<in_call, calling, call_id, silence_limit, remote_sdp,
                      pending_responses, queue, ring, ring_timer, media, was_ringing,
                      call_timer, hung, loop, pc, peer, lost, unclosed>>
      BY <1>3 DEF PanelAnswersAgain, PanelActs, lineVars, ringVars, hubVars
    <2>2. net' \in Seq(Message)
      BY <1>3, SaysType DEF PanelAnswersAgain, Message, Msg, Cid, TypeOK
    <2>. QED BY <2>1, <2>2 DEF TypeOK
  <1>4. ASSUME NEW i \in Incoming, PanelRings(i)
         PROVE  TypeOK'
    <2>1. UNCHANGED <<in_call, calling, call_id, silence_limit, remote_sdp,
                      pending_responses, queue, ring, ring_timer, media, was_ringing,
                      call_timer, hung, loop, pc, lost, unclosed>>
      BY <1>4 DEF PanelRings, PanelActs, lineVars, ringVars, hubVars
    <2>2. peer' \in [Cid -> PeerState]
      BY <1>4 DEF PanelRings, TypeOK, PeerState, Cid
    <2>3. net' \in Seq(Message)
      BY <1>4, SaysType DEF PanelRings, Message, Msg, Cid, TypeOK
    <2>. QED BY <2>1, <2>2, <2>3 DEF TypeOK
  <1>5. ASSUME NEW i \in Incoming, PanelRingsAgain(i)
         PROVE  TypeOK'
    <2>1. UNCHANGED <<in_call, calling, call_id, silence_limit, remote_sdp,
                      pending_responses, queue, ring, ring_timer, media, was_ringing,
                      call_timer, hung, loop, pc, peer, lost, unclosed>>
      BY <1>5 DEF PanelRingsAgain, PanelActs, lineVars, ringVars, hubVars
    <2>2. net' \in Seq(Message)
      BY <1>5, SaysType DEF PanelRingsAgain, Message, Msg, Cid, TypeOK
    <2>. QED BY <2>1, <2>2 DEF TypeOK
  <1>6. ASSUME NEW i \in Incoming, PanelCancels(i)
         PROVE  TypeOK'
    <2>1. UNCHANGED <<in_call, calling, call_id, silence_limit, remote_sdp,
                      pending_responses, queue, ring, ring_timer, media, was_ringing,
                      call_timer, hung, loop, pc, lost, unclosed>>
      BY <1>6 DEF PanelCancels, PanelActs, lineVars, ringVars, hubVars
    <2>2. peer' \in [Cid -> PeerState]
      BY <1>6 DEF PanelCancels, TypeOK, PeerState, Cid
    <2>3. net' \in Seq(Message)
      BY <1>6, SaysType DEF PanelCancels, Message, Msg, Cid, TypeOK
    <2>. QED BY <2>1, <2>2, <2>3 DEF TypeOK
  <1>7. ASSUME NEW i \in Incoming, PanelAcks(i)
         PROVE  TypeOK'
    <2>1. UNCHANGED <<in_call, calling, call_id, silence_limit, remote_sdp,
                      pending_responses, queue, ring, ring_timer, media, was_ringing,
                      call_timer, hung, loop, pc, lost, unclosed>>
      BY <1>7 DEF PanelAcks, PanelActs, lineVars, ringVars, hubVars
    <2>2. peer' \in [Cid -> PeerState]
      BY <1>7 DEF PanelAcks, TypeOK, PeerState, Cid
    <2>3. net' \in Seq(Message)
      BY <1>7, SaysType DEF PanelAcks, Message, Msg, Cid, TypeOK
    <2>. QED BY <2>1, <2>2, <2>3 DEF TypeOK
  <1>8. ASSUME NEW c \in Cid, PanelByes(c)
         PROVE  TypeOK'
    <2>1. UNCHANGED <<in_call, calling, call_id, silence_limit, remote_sdp,
                      pending_responses, queue, ring, ring_timer, media, was_ringing,
                      call_timer, hung, loop, pc, lost, unclosed>>
      BY <1>8 DEF PanelByes, PanelActs, lineVars, ringVars, hubVars
    <2>2. peer' \in [Cid -> PeerState]
      BY <1>8 DEF PanelByes, TypeOK, PeerState, Cid
    <2>3. net' \in Seq(Message)
      BY <1>8, SaysType DEF PanelByes, Message, Msg, Cid, TypeOK
    <2>. QED BY <2>1, <2>2, <2>3 DEF TypeOK
  <1>9. ASSUME NEW c \in Cid, PanelReinvites(c)
         PROVE  TypeOK'
    <2>1. UNCHANGED <<in_call, calling, call_id, silence_limit, remote_sdp,
                      pending_responses, queue, ring, ring_timer, media, was_ringing,
                      call_timer, hung, loop, pc, peer, lost, unclosed>>
      BY <1>9 DEF PanelReinvites, PanelActs, lineVars, ringVars, hubVars
    <2>2. net' \in Seq(Message)
      BY <1>9, SaysType DEF PanelReinvites, Message, Msg, Cid, TypeOK
    <2>. QED BY <2>1, <2>2 DEF TypeOK
  <1>. QED BY <1>1, <1>2, <1>3, <1>4, <1>5, <1>6, <1>7, <1>8, <1>9 DEF Panel

\* Before anything happened the state is well typed.
LEMMA InitType == ASSUME Init PROVE TypeOK
  <1>1. queue \in [Outgoing -> Seq({"cancel", "200", "reject"})]
    BY DEF Init
  <1>2. net \in Seq(Message) /\ lost \in 0 .. MaxLoss /\ unclosed \subseteq Cid \cup {None}
    BY EnvAssumption DEF Init
  <1>3. pc \in [Task -> Label] /\ hung \in [HangupIds -> Cid \cup {None}]
    BY DEF Init, Label
  <1>4. peer \in [Cid -> PeerState]
    BY DEF Init, PeerState
  <1>5. ring \in [active : BOOLEAN, cid : Cid \cup {None}, early : BOOLEAN,
                  resp : {"none", "1xx", "200", "final"}]
    BY DEF Init
  <1>. QED BY <1>1, <1>2, <1>3, <1>4, <1>5 DEF Init, TypeOK

\* A step of the system, or none, keeps the types.
LEMMA NextType == TypeOK /\ [Next]_vars => TypeOK'
  <1>. SUFFICES ASSUME TypeOK, [Next]_vars PROVE TypeOK'
    OBVIOUS
  <1>1. CASE UNCHANGED vars
    BY <1>1 DEF TypeOK, vars, lineVars, ringVars, hubVars, envVars
  <1>2. CASE Next
    BY <1>2, CallType, HangupType, TimerType, InviteType, RingEndType, AnswerType, ByeType,
       PanelType DEF Next
  <1>3. QED BY <1>1, <1>2

\* Whatever the calls, the faults and the awaits that suspend, sip_client's module
\* variables, the hub's flags and the handlers' progress keep their types.
THEOREM TypeCorrect == Spec => []TypeOK
  BY InitType, NextType, PTL DEF Spec

-----------------------------------------------------------------------------
(* One use of the line.                                                      *)

\* Sending and probing RTCP go straight on, as they do on UDP and outside DEBUG.
\* Every other await (stopping ffmpeg, a slow panel in the broadcast) may suspend.
Unsuspended == {"send", "setup"} \cap Yields = {}

\* No task but t has a step to complete; no task at all has.
Quiet(t) == \A u \in Task \ {t} : pc[u] \notin Unbroken
AllQuiet == \A u \in Task : pc[u] \notin Unbroken

\* Only the task that holds the event loop can have a step to complete.
LEMMA Alone ==
    ASSUME TypeOK, LoopInv, NEW t \in Task, loop \in {None, t}
    PROVE  Quiet(t) /\ (loop = None => AllQuiet)
  BY NoneAssumption DEF LoopInv, Quiet, AllQuiet

\* t moved to one of the labels and, by LoopInv, nobody else has a step to complete.
Moves(t, labels) ==
    /\ LoopInv' /\ Quiet(t)'
    /\ pc'[t] \in labels
    /\ \A u \in Task \ {t} : pc'[u] \in {pc[u], "idle", "spawned"}

\* A step of t that keeps the loop where the next label needs it.
LEMMA StepLoop ==
    ASSUME TypeOK, LoopInv, NEW t \in Task, loop \in {None, t}, NEW l,
           \A u \in Task \ {t} : pc'[u] \in {pc[u], "idle", "spawned"},
           pc'[t] = l, l \in Unbroken => loop' = t
    PROVE  Moves(t, {l})
  BY Alone DEF Moves, LoopInv, Quiet, Unbroken

\* An await that can suspend leads to a label with nothing owed.
LEMMA AwaitLoop ==
    ASSUME TypeOK, LoopInv, NEW t \in Task, loop \in {None, t}, NEW k, NEW l \in Label,
           Await(t, k, l), l \in Unbroken => k \notin Yields
    PROVE  Moves(t, {l})
  <1>1. /\ \A u \in Task \ {t} : pc'[u] = pc[u]
        /\ pc'[t] = l
        /\ l \in Unbroken => loop' = t
    BY DEF Await, TypeOK
  <1>2. QED BY <1>1, StepLoop

\* Between two awaits the task keeps the loop.
LEMMA ContinueLoop ==
    ASSUME TypeOK, LoopInv, NEW t \in Task, loop \in {None, t}, NEW l \in Label,
           Continues(t, l)
    PROVE  Moves(t, {l})
  <1>1. /\ \A u \in Task \ {t} : pc'[u] = pc[u]
        /\ pc'[t] = l
        /\ loop' = t
    BY DEF Continues, TypeOK
  <1>2. QED BY <1>1, StepLoop

\* A task waits for an event only at a label with nothing owed.
LEMMA WaitLoop ==
    ASSUME TypeOK, LoopInv, NEW t \in Task, loop \in {None, t},
           NEW l \in Label \ Unbroken, WaitsAt(t, l)
    PROVE  Moves(t, {l})
  <1>1. /\ \A u \in Task \ {t} : pc'[u] = pc[u]
        /\ pc'[t] = l
    BY DEF WaitsAt, TypeOK
  <1>2. QED BY <1>1, StepLoop

\* Cancelling the call timer can only take its hang-up off the loop's hands.
LEMMA CancelLoop ==
    ASSUME TypeOK, LoopInv, NEW t \in Task, loop \in {None, t},
           NEW l \in Label \ Unbroken, CancelCallTimer(t, l)
    PROVE  Moves(t, {l})
  <1>1. /\ \A u \in Task \ {t} : pc'[u] \in {pc[u], "idle"}
        /\ pc'[t] = l
    BY Tasks DEF CancelCallTimer, TypeOK
  <1>2. QED BY <1>1, StepLoop

\* A handler that returns at once leaves the loop free.
LEMMA StillLoop ==
    ASSUME TypeOK, LoopInv, NEW t \in Task, loop \in {None, t}, pc[t] = "idle",
           UNCHANGED <<loop, pc>>
    PROVE  Moves(t, {"idle"})
  <1>1. pc'[t] = "idle" /\ \A u \in Task \ {t} : pc'[u] = pc[u]
    OBVIOUS
  <1>2. QED BY <1>1, StepLoop DEF Unbroken

\* A step of the panel alone keeps the invariant.
LEMMA Unmoved ==
    ASSUME HandlerInv, UNCHANGED <<in_call, calling, ring, media, loop, pc>>
    PROVE  HandlerInv'
  BY DEF HandlerInv, LoopInv, LineInv, LineExclusive, MediaInv, Busy, Ringing

\* The handler of an INVITE is not another task.
LEMMA InviteNames ==
    \A c \in Cid :
        /\ \A o \in Outgoing : Call(o) # Invite(c)
        /\ \A d \in Cid : /\ Answer(d) # Invite(c) /\ Reinvite(d) # Invite(c)
                          /\ Cancel(d) # Invite(c) /\ Bye(d) # Invite(c)
                          /\ Ack(d) # Invite(c)
                          /\ d # c => Invite(d) # Invite(c)
        /\ \A w \in DeclineReasons : Decline(w) # Invite(c)
        /\ \A h \in HangupIds : Hangup(h) # Invite(c)
        /\ Timer # Invite(c)
        /\ \A t \in RingEnders : t # Invite(c)
  BY DEF Call, Invite, Reinvite, Cancel, Bye, Ack, Answer, Decline, Hangup, Timer,
     RingEnders

\* do_call and the dispatch of its responses keep the invariant.
LEMMA CallSafe ==
    ASSUME TypeOK, Unsuspended, HandlerInv, NEW o \in Outgoing, CallStep(o)
    PROVE  HandlerInv'
  <1>. USE DEF HandlerInv
  <1>1. CASE CallStart(o)
    <2>1. Call(o) \in Task /\ loop \in {None, Call(o)}
      BY <1>1, Tasks DEF CallStart, Free, Idle
    <2>2. Moves(Call(o), {"invited", "done"})
      BY <1>1, <2>1, AwaitLoop, WaitLoop DEF CallStart, Moves, Unsuspended, Label, Unbroken
    <2>3. LineInv'
      BY <1>1, <2>1, <2>2, Alone DEF CallStart, MayCall, Free, Idle, ringVars, Moves,
         Quiet, AllQuiet, Unbroken, LineInv, LineExclusive, Busy
    <2>4. MediaInv'
      BY <1>1, <2>1, <2>2, Alone, Tasks, InviteNames DEF CallStart, MayCall, Free, Idle,
         ringVars, Moves, Quiet, AllQuiet, Unbroken, LineInv, LineExclusive, MediaInv,
         Busy, Ringing
    <2>. QED BY <2>2, <2>3, <2>4 DEF Moves
  <1>2. CASE CallListens(o)
    <2>1. Call(o) \in Task /\ loop \in {None, Call(o)}
      BY <1>2, Tasks DEF CallListens, At
    <2>2. Moves(Call(o), {"waiting"})
      BY <1>2, <2>1, WaitLoop DEF CallListens, Moves, Unsuspended, Label, Unbroken
    <2>3. LineInv'
      BY <1>2, <2>1, <2>2, Alone DEF CallListens, At, lineVars, ringVars, Moves, Quiet,
         AllQuiet, Unbroken, LineInv, LineExclusive, Busy
    <2>4. MediaInv'
      BY <1>2, <2>1, <2>2, Alone, Tasks, InviteNames DEF CallListens, At, lineVars,
         ringVars, Moves, Quiet, AllQuiet, Unbroken, LineInv, LineExclusive, MediaInv,
         Busy, Ringing
    <2>. QED BY <2>2, <2>3, <2>4 DEF Moves
  <1>3. CASE CallRetransmits(o)
    <2>1. UNCHANGED <<in_call, calling, ring, media, loop, pc>>
      BY <1>3 DEF CallRetransmits, Waiting, lineVars, ringVars, hubVars
    <2>. QED BY <2>1, Unmoved
  <1>4. CASE CallCancelled(o)
    <2>1. Call(o) \in Task /\ loop \in {None, Call(o)}
      BY <1>4, Tasks DEF CallCancelled, Waiting, Reads
    <2>2. Moves(Call(o), {"leaving"})
      BY <1>4, <2>1, AwaitLoop DEF CallCancelled, Moves, Unsuspended, Label, Unbroken
    <2>3. LineInv'
      BY <1>4, <2>1, <2>2, Alone DEF CallCancelled, Waiting, Reads, lineVars, ringVars,
         Moves, Quiet, AllQuiet, Unbroken, LineInv, LineExclusive, Busy
    <2>4. MediaInv'
      BY <1>4, <2>1, <2>2, Alone, Tasks, InviteNames DEF CallCancelled, Waiting, Reads,
         lineVars, ringVars, Moves, Quiet, AllQuiet, Unbroken, LineInv, LineExclusive,
         MediaInv, Busy, Ringing
    <2>. QED BY <2>2, <2>3, <2>4 DEF Moves
  <1>5. CASE CallRejected(o)
    <2>1. Call(o) \in Task /\ loop \in {None, Call(o)}
      BY <1>5, Tasks DEF CallRejected, Waiting, Reads
    <2>2. Moves(Call(o), {"leaving"})
      BY <1>5, <2>1, AwaitLoop DEF CallRejected, Moves, Unsuspended, Label, Unbroken
    <2>3. LineInv'
      BY <1>5, <2>1, <2>2, Alone DEF CallRejected, Waiting, Reads, lineVars, ringVars,
         Moves, Quiet, AllQuiet, Unbroken, LineInv, LineExclusive, Busy
    <2>4. MediaInv'
      BY <1>5, <2>1, <2>2, Alone, Tasks, InviteNames DEF CallRejected, Waiting, Reads,
         lineVars, ringVars, Moves, Quiet, AllQuiet, Unbroken, LineInv, LineExclusive,
         MediaInv, Busy, Ringing
    <2>. QED BY <2>2, <2>3, <2>4 DEF Moves
  <1>6. CASE CallTimesOut(o)
    <2>1. Call(o) \in Task /\ loop \in {None, Call(o)}
      BY <1>6, Tasks DEF CallTimesOut, Waiting
    <2>2. Moves(Call(o), {"leaving"})
      BY <1>6, <2>1, AwaitLoop DEF CallTimesOut, Moves, Unsuspended, Label, Unbroken
    <2>3. LineInv'
      BY <1>6, <2>1, <2>2, Alone DEF CallTimesOut, Waiting, ringVars, Moves, Quiet,
         AllQuiet, Unbroken, LineInv, LineExclusive, Busy
    <2>4. MediaInv'
      BY <1>6, <2>1, <2>2, Alone, Tasks, InviteNames DEF CallTimesOut, Waiting, ringVars,
         Moves, Quiet, AllQuiet, Unbroken, LineInv, LineExclusive, MediaInv, Busy, Ringing
    <2>. QED BY <2>2, <2>3, <2>4 DEF Moves
  <1>7. CASE CallAnswered(o)
    <2>1. Call(o) \in Task /\ loop \in {None, Call(o)}
      BY <1>7, Tasks DEF CallAnswered, Waiting, Reads
    <2>2. Moves(Call(o), {"leaving", "annulled", "accepted"})
      BY <1>7, <2>1, AwaitLoop, ContinueLoop DEF CallAnswered, Moves, Unsuspended, Label,
         Unbroken
    <2>3. LineInv'
      BY <1>7, <2>1, <2>2, Alone DEF CallAnswered, Waiting, Reads, lineVars, ringVars,
         Moves, Quiet, AllQuiet, Unbroken, LineInv, LineExclusive, Busy
    <2>4. MediaInv'
      <3>1. pc'[Call(o)] = "accepted" => calling
        BY <1>7, <2>1, AwaitLoop, ContinueLoop DEF CallAnswered, Moves, Unsuspended, Label,
           Unbroken
      <3>2. UNCHANGED <<in_call, calling, ring, media>>
        BY <1>7 DEF CallAnswered, lineVars, ringVars
      <3>3. loop = None
        BY <1>7 DEF CallAnswered, Reads, Waiting
      <3>4. QED BY <2>1, <2>2, <3>1, <3>2, <3>3, Alone, Tasks, InviteNames
                DEF Moves, Quiet, AllQuiet, Unbroken, LineInv, LineExclusive, MediaInv,
                Busy, Ringing
    <2>. QED BY <2>2, <2>3, <2>4 DEF Moves
  <1>8. CASE CallOpensMedia(o)
    <2>1. Call(o) \in Task /\ loop \in {None, Call(o)}
      BY <1>8, Tasks DEF CallOpensMedia, At
    <2>2. Moves(Call(o), {"connected", "annulled", "leaving"})
      BY <1>8, <2>1, AwaitLoop, ContinueLoop DEF CallOpensMedia, Annulled, Moves,
         Unsuspended, Label, Unbroken
    <2>3. LineInv'
      BY <1>8, <2>1, <2>2, Alone DEF CallOpensMedia, At, ringVars, Moves, Quiet, AllQuiet,
         Unbroken, LineInv, LineExclusive, Busy
    <2>4. MediaInv'
      <3>1. calling /\ pc[Call(o)] = "accepted"
        BY <1>8, <2>1 DEF CallOpensMedia, At, MediaInv
      <3>2. Await(Call(o), "setup", "connected")
        BY <1>8, <3>1 DEF CallOpensMedia, Annulled
      <3>3. Moves(Call(o), {"connected"})
        BY <2>1, <3>2, AwaitLoop DEF Unsuspended, Label
      <3>4. UNCHANGED <<in_call, calling, ring>>
        BY <1>8 DEF CallOpensMedia, ringVars
      <3>5. ~(\E c \in Cid : Ringing(c))
        BY <3>1 DEF LineInv, LineExclusive, Ringing
      <3>6. QED BY <2>1, <3>1, <3>3, <3>4, <3>5, Tasks, InviteNames
                DEF Moves, Quiet, AllQuiet, Unbroken, LineInv, LineExclusive, MediaInv,
                Busy, Ringing
    <2>. QED BY <2>2, <2>3, <2>4 DEF Moves
  <1>9. CASE CallConnects(o)
    <2>1. Call(o) \in Task /\ loop \in {None, Call(o)}
      BY <1>9, Tasks DEF CallConnects, At
    <2>2. Moves(Call(o), {"started", "annulled", "leaving"})
      BY <1>9, <2>1, AwaitLoop, ContinueLoop DEF CallConnects, Annulled, Moves,
         Unsuspended, Label, Unbroken
    <2>3. LineInv'
      <3>1. calling /\ pc[Call(o)] = "connected"
        BY <1>9, <2>1 DEF CallConnects, At, MediaInv
      <3>2. in_call' = TRUE /\ calling' = FALSE /\ UNCHANGED ring
        BY <1>9, <3>1 DEF CallConnects, Annulled, ringVars
      <3>3. QED BY <2>2, <3>1, <3>2 DEF Moves, Quiet, AllQuiet, Unbroken, LineInv,
                   LineExclusive, Busy
    <2>4. MediaInv'
      <3>1. calling /\ pc[Call(o)] = "connected"
        BY <1>9, <2>1 DEF CallConnects, At, MediaInv
      <3>2. in_call' = TRUE /\ UNCHANGED <<ring, media>>
        BY <1>9, <3>1 DEF CallConnects, Annulled, ringVars
      <3>3. ~(\E c \in Cid : Ringing(c)')
        BY <3>1, <3>2 DEF LineInv, LineExclusive, Ringing
      <3>4. QED BY <2>1, <2>2, <3>2, <3>3, Tasks, InviteNames DEF Moves, Quiet, AllQuiet,
                   Unbroken, MediaInv
    <2>. QED BY <2>2, <2>3, <2>4 DEF Moves
  <1>10. CASE CallStarted(o)
    <2>1. Call(o) \in Task /\ loop \in {None, Call(o)}
      BY <1>10, Tasks DEF CallStarted, At
    <2>2. Moves(Call(o), {"keyframe", "leaving"})
      BY <1>10, <2>1, CancelLoop DEF CallStarted, Moves, Unsuspended, Label, Unbroken
    <2>3. LineInv'
      BY <1>10, <2>1, <2>2, Alone DEF CallStarted, At, lineVars, ringVars, Moves, Quiet,
         AllQuiet, Unbroken, LineInv, LineExclusive, Busy
    <2>4. MediaInv'
      BY <1>10, <2>1, <2>2, Alone, Tasks, InviteNames DEF CallStarted, At, lineVars,
         ringVars, Moves, Quiet, AllQuiet, Unbroken, LineInv, LineExclusive, MediaInv,
         Busy, Ringing
    <2>. QED BY <2>2, <2>3, <2>4 DEF Moves
  <1>11. CASE CallAnnulled(o)
    <2>1. Call(o) \in Task /\ loop \in {None, Call(o)}
      BY <1>11, Tasks DEF CallAnnulled, At
    <2>2. Moves(Call(o), {"forgotten"})
      BY <1>11, <2>1, AwaitLoop DEF CallAnnulled, Moves, Unsuspended, Label, Unbroken
    <2>3. LineInv'
      BY <1>11, <2>1, <2>2, Alone DEF CallAnnulled, At, lineVars, ringVars, Moves, Quiet,
         AllQuiet, Unbroken, LineInv, LineExclusive, Busy
    <2>4. MediaInv'
      BY <1>11, <2>1, <2>2, Alone, Tasks, InviteNames DEF CallAnnulled, StopMedia, At,
         lineVars, ringVars, Moves, Quiet, AllQuiet, Unbroken, LineInv, LineExclusive,
         MediaInv, Busy, Ringing
    <2>. QED BY <2>2, <2>3, <2>4 DEF Moves
  <1>12. CASE CallForgotten(o)
    <2>1. Call(o) \in Task /\ loop \in {None, Call(o)}
      BY <1>12, Tasks DEF CallForgotten, At
    <2>2. Moves(Call(o), {"done"})
      BY <1>12, <2>1, WaitLoop DEF CallForgotten, Leaves, Moves, Unsuspended, Label,
         Unbroken
    <2>3. LineInv'
      BY <1>12, <2>1, <2>2, Alone DEF CallForgotten, Leaves, At, ringVars, Moves, Quiet,
         AllQuiet, Unbroken, LineInv, LineExclusive, Busy
    <2>4. MediaInv'
      BY <1>12, <2>1, <2>2, Alone, Tasks, InviteNames DEF CallForgotten, Leaves, At,
         ringVars, Moves, Quiet, AllQuiet, Unbroken, LineInv, LineExclusive, MediaInv,
         Busy, Ringing
    <2>. QED BY <2>2, <2>3, <2>4 DEF Moves
  <1>13. CASE CallLeaves(o)
    <2>1. Call(o) \in Task /\ loop \in {None, Call(o)}
      BY <1>13, Tasks DEF CallLeaves, At
    <2>2. Moves(Call(o), {"done"})
      BY <1>13, <2>1, WaitLoop DEF CallLeaves, Leaves, Moves, Unsuspended, Label, Unbroken
    <2>3. LineInv'
      BY <1>13, <2>1, <2>2, Alone DEF CallLeaves, Leaves, At, ringVars, Moves, Quiet,
         AllQuiet, Unbroken, LineInv, LineExclusive, Busy
    <2>4. MediaInv'
      BY <1>13, <2>1, <2>2, Alone, Tasks, InviteNames DEF CallLeaves, Leaves, At, ringVars,
         Moves, Quiet, AllQuiet, Unbroken, LineInv, LineExclusive, MediaInv, Busy, Ringing
    <2>. QED BY <2>2, <2>3, <2>4 DEF Moves
  <1>14. ASSUME NEW type \in {"200", "reject"}, DispatchFinal(o, type)
         PROVE  HandlerInv'
    <2>1. UNCHANGED <<in_call, calling, ring, media, loop, pc>>
      BY <1>14 DEF DispatchFinal, lineVars, ringVars, hubVars
    <2>. QED BY <2>1, Unmoved
  <1>. QED BY <1>1, <1>2, <1>3, <1>4, <1>5, <1>6, <1>7, <1>8, <1>9, <1>10, <1>11, <1>12,
              <1>13, <1>14 DEF CallStep

\* So does do_hangup.
LEMMA HangupSafe ==
    ASSUME TypeOK, Unsuspended, HandlerInv, NEW h \in HangupIds, HangupStep(h)
    PROVE  HandlerInv'
  <1>. USE DEF HandlerInv
  <1>1. CASE HangupAsked(h)
    <2>1. Hangup(h) \in Task /\ loop \in {None, Hangup(h)}
      BY <1>1, Tasks DEF HangupAsked, Free, Idle
    <2>2. Moves(Hangup(h), {"spawned"})
      BY <1>1, <2>1, CancelLoop DEF HangupAsked, Moves, Unsuspended, Label, Unbroken
    <2>3. LineInv'
      BY <1>1, <2>1, <2>2, Alone DEF HangupAsked, Free, Idle, lineVars, ringVars, Moves,
         Quiet, AllQuiet, Unbroken, LineInv, LineExclusive, Busy
    <2>4. MediaInv'
      BY <1>1, <2>1, <2>2, Alone, Tasks, InviteNames DEF HangupAsked, Free, Idle, lineVars,
         ringVars, Moves, Quiet, AllQuiet, Unbroken, LineInv, LineExclusive, MediaInv,
         Busy, Ringing
    <2>. QED BY <2>2, <2>3, <2>4 DEF Moves
  <1>2. CASE HangupStart(h)
    <2>1. Hangup(h) \in Task /\ loop \in {None, Hangup(h)}
      BY <1>2, Tasks DEF HangupStart, At
    <2>2. Moves(Hangup(h), {"ended"})
      BY <1>2, <2>1, AwaitLoop, ContinueLoop DEF HangupStart, EndsLocally, Moves,
         Unsuspended, Label, Unbroken
    <2>3. LineInv'
      BY <1>2, <2>1, <2>2, Alone DEF HangupStart, EndsLocally, At, ringVars, Moves, Quiet,
         AllQuiet, Unbroken, LineInv, LineExclusive, Busy
    <2>4. MediaInv'
      BY <1>2, <2>1, <2>2, Alone, Tasks, InviteNames DEF HangupStart, EndsLocally,
         StopMedia, At, ringVars, Moves, Quiet, AllQuiet, Unbroken, LineInv, LineExclusive,
         MediaInv, Busy, Ringing
    <2>. QED BY <2>2, <2>3, <2>4 DEF Moves
  <1>3. CASE HangupTells(h)
    <2>1. Hangup(h) \in Task /\ loop \in {None, Hangup(h)}
      BY <1>3, Tasks DEF HangupTells, At
    <2>2. Moves(Hangup(h), {"byeing", "told"})
      BY <1>3, <2>1, AwaitLoop, ContinueLoop DEF HangupTells, Moves, Unsuspended, Label,
         Unbroken
    <2>3. LineInv'
      BY <1>3, <2>1, <2>2, Alone DEF HangupTells, StaleEnd, At, lineVars, ringVars, Moves,
         Quiet, AllQuiet, Unbroken, LineInv, LineExclusive, Busy
    <2>4. MediaInv'
      BY <1>3, <2>1, <2>2, Alone, Tasks, InviteNames DEF HangupTells, StaleEnd, At,
         lineVars, ringVars, Moves, Quiet, AllQuiet, Unbroken, LineInv, LineExclusive,
         MediaInv, Busy, Ringing
    <2>. QED BY <2>2, <2>3, <2>4 DEF Moves
  <1>4. CASE HangupTold(h)
    <2>1. Hangup(h) \in Task /\ loop \in {None, Hangup(h)}
      BY <1>4, Tasks DEF HangupTold, At
    <2>2. Moves(Hangup(h), {"cut", "byeing"})
      BY <1>4, <2>1, CancelLoop DEF HangupTold, Moves, Unsuspended, Label, Unbroken
    <2>3. LineInv'
      BY <1>4, <2>1, <2>2, Alone DEF HangupTold, At, lineVars, ringVars, Moves, Quiet,
         AllQuiet, Unbroken, LineInv, LineExclusive, Busy
    <2>4. MediaInv'
      BY <1>4, <2>1, <2>2, Alone, Tasks, InviteNames DEF HangupTold, At, lineVars,
         ringVars, Moves, Quiet, AllQuiet, Unbroken, LineInv, LineExclusive, MediaInv,
         Busy, Ringing
    <2>. QED BY <2>2, <2>3, <2>4 DEF Moves
  <1>5. CASE HangupByes(h)
    <2>1. Hangup(h) \in Task /\ loop \in {None, Hangup(h)}
      BY <1>5, Tasks DEF HangupByes, At
    <2>2. Moves(Hangup(h), {"waiting bye", "idle", "done"})
      BY <1>5, <2>1, WaitLoop DEF HangupByes, HangupEnds, Moves, Unsuspended, Label,
         Unbroken
    <2>3. LineInv'
      BY <1>5, <2>1, <2>2, Alone DEF HangupByes, At, ringVars, Moves, Quiet, AllQuiet,
         Unbroken, LineInv, LineExclusive, Busy
    <2>4. MediaInv'
      BY <1>5, <2>1, <2>2, Alone, Tasks, InviteNames DEF HangupByes, At, ringVars, Moves,
         Quiet, AllQuiet, Unbroken, LineInv, LineExclusive, MediaInv, Busy, Ringing
    <2>. QED BY <2>2, <2>3, <2>4 DEF Moves
  <1>6. CASE HangupRetransmits(h)
    <2>1. UNCHANGED <<in_call, calling, ring, media, loop, pc>>
      BY <1>6 DEF HangupRetransmits, lineVars, ringVars, hubVars
    <2>. QED BY <2>1, Unmoved
  <1>7. CASE HangupDone(h)
    <2>1. Hangup(h) \in Task /\ loop \in {None, Hangup(h)}
      BY <1>7, Tasks DEF HangupDone
    <2>2. Moves(Hangup(h), {"idle", "done"})
      BY <1>7, <2>1, WaitLoop DEF HangupDone, HangupEnds, Moves, Unsuspended, Label,
         Unbroken
    <2>3. LineInv'
      BY <1>7, <2>1, <2>2, Alone DEF HangupDone, ringVars, Moves, Quiet, AllQuiet,
         Unbroken, LineInv, LineExclusive, Busy
    <2>4. MediaInv'
      BY <1>7, <2>1, <2>2, Alone, Tasks, InviteNames DEF HangupDone, ringVars, Moves,
         Quiet, AllQuiet, Unbroken, LineInv, LineExclusive, MediaInv, Busy, Ringing
    <2>. QED BY <2>2, <2>3, <2>4 DEF Moves
  <1>. QED BY <1>1, <1>2, <1>3, <1>4, <1>5, <1>6, <1>7 DEF HangupStep

\* So does the hub's call timer.
LEMMA TimerSafe ==
    ASSUME TypeOK, Unsuspended, HandlerInv, TimerFires \/ HangupCut
    PROVE  HandlerInv'
  <1>. USE DEF HandlerInv
  <1>1. CASE TimerFires
    <2>1. Timer \in Task /\ loop \in {None, Timer}
      BY <1>1, Tasks DEF TimerFires, Free, Idle
    <2>2. Moves(Timer, {"ended"})
      <3>1. Moves(Hangup("timer"), {"ended"})
        BY <1>1, <2>1, AwaitLoop, ContinueLoop
           DEF TimerFires, EndsLocally, Timer, Moves, Label, Unbroken
      <3>2. QED BY <3>1 DEF Timer
    <2>3. LineInv'
      BY <1>1, <2>1, <2>2, Alone DEF TimerFires, EndsLocally, Free, Idle, ringVars, Moves,
         Quiet, AllQuiet, Unbroken, LineInv, LineExclusive, Busy
    <2>4. MediaInv'
      BY <1>1, <2>1, <2>2, Alone, Tasks, InviteNames DEF TimerFires, EndsLocally,
         StopMedia, Free, Idle, ringVars, Moves, Quiet, AllQuiet, Unbroken, LineInv,
         LineExclusive, MediaInv, Busy, Ringing
    <2>. QED BY <2>2, <2>3, <2>4 DEF Moves
  <1>2. CASE HangupCut
    <2>1. Timer \in Task /\ loop \in {None, Timer}
      BY <1>2, Tasks DEF HangupCut, At
    <2>2. Moves(Timer, {"idle"})
      BY <1>2, <2>1, WaitLoop DEF HangupCut, Ends, Moves, Unsuspended, Label, Unbroken
    <2>3. LineInv'
      BY <1>2, <2>1, <2>2, Alone DEF HangupCut, At, lineVars, ringVars, Moves, Quiet,
         AllQuiet, Unbroken, LineInv, LineExclusive, Busy
    <2>4. MediaInv'
      BY <1>2, <2>1, <2>2, Alone, Tasks, InviteNames DEF HangupCut, At, lineVars, ringVars,
         Moves, Quiet, AllQuiet, Unbroken, LineInv, LineExclusive, MediaInv, Busy, Ringing
    <2>. QED BY <2>2, <2>3, <2>4 DEF Moves
  <1>. QED BY <1>1, <1>2

\* So do the handlers of an INVITE.
LEMMA InviteSafe ==
    ASSUME TypeOK, Unsuspended, HandlerInv, NEW c \in Cid, InviteStep(c)
    PROVE  HandlerInv'
  <1>. USE DEF HandlerInv
  <1>1. ASSUME NEW type \in {"INVITE", "re-INVITE"}, InviteRings(c, type)
         PROVE  HandlerInv'
    <2>1. Invite(c) \in Task /\ loop \in {None, Invite(c)}
      BY <1>1, Tasks DEF InviteRings, Free, Idle
    <2>2. Moves(Invite(c), {"progress", "ringing", "idle"})
      BY <1>1, <2>1, AwaitLoop, StillLoop DEF InviteRings, Free, Idle, Moves, Unsuspended,
         Label, Unbroken
    <2>3. LineInv'
      BY <1>1, <2>1, <2>2, Alone DEF InviteRings, Free, Idle, lineVars, Moves, Quiet,
         AllQuiet, Unbroken, LineInv, LineExclusive, Busy
    <2>4. MediaInv'
      <3>1. loop = None /\ AllQuiet
        BY <1>1, <2>1, Alone DEF InviteRings, Free, Idle
      <3>2. CASE ring.active \/ Busy
        BY <1>1, <2>1, <2>2, <3>2, Tasks, InviteNames DEF InviteRings, Free, lineVars,
           Moves, Quiet, AllQuiet, Unbroken, LineInv, LineExclusive, MediaInv, Busy, Ringing
      <3>3. CASE ~(ring.active \/ Busy)
        <4>1. media = "off"
          BY <3>1, <3>3 DEF MediaInv, AllQuiet, Unbroken, Busy
        <4>2. ring' = [active |-> TRUE, cid |-> c, early |-> HasOffer(c), resp |-> "1xx"]
              /\ UNCHANGED <<in_call, calling, media>>
          BY <1>1, <3>3 DEF InviteRings, lineVars
        <4>3. pc'[Invite(c)] = "progress" => HasOffer(c)
          BY <1>1, <2>1, <3>3, AwaitLoop, StillLoop
             DEF InviteRings, Free, Moves, Unsuspended, Label, Unbroken
        <4>4. \A d \in Cid : pc'[Invite(d)] \in {"progress", "preview"} => d = c
          BY <2>1, <2>2, Tasks, InviteNames DEF Moves, Quiet, Unbroken
        <4>5. \A u \in Task : pc'[u] \notin {"accepted", "connected", "terminated",
              "agreed",
                                            "preview", "answered preview"}
          BY <2>1, <2>2 DEF Moves, Quiet, Unbroken
        <4>6. QED BY <4>1, <4>2, <4>3, <4>4, <4>5, Tasks DEF MediaInv, Ringing
      <3>4. QED BY <3>2, <3>3
    <2>. QED BY <2>2, <2>3, <2>4 DEF Moves
  <1>2. ASSUME NEW type \in {"INVITE", "re-INVITE"}, InviteRepeats(c, type)
         PROVE  HandlerInv'
    <2>1. UNCHANGED <<in_call, calling, ring, media, loop, pc>>
      BY <1>2 DEF InviteRepeats, lineVars, ringVars, hubVars
    <2>. QED BY <2>1, Unmoved
  <1>3. CASE InvitePreviews(c)
    <2>1. Invite(c) \in Task /\ loop \in {None, Invite(c)}
      BY <1>3, Tasks DEF InvitePreviews, OpenMedia, At
    <2>2. Moves(Invite(c), {"no preview", "preview"})
      BY <1>3, <2>1, AwaitLoop DEF InvitePreviews, OpenMedia, Moves, Unsuspended, Label, Unbroken
    <2>3. LineInv'
      BY <1>3, <2>1, <2>2, Alone DEF InvitePreviews, OpenMedia, At, lineVars, ringVars, Moves, Quiet,
         AllQuiet, Unbroken, LineInv, LineExclusive, Busy
    <2>4. MediaInv'
      <3>1. /\ pc[Invite(c)] = "progress" /\ Ringing(c) /\ ring.early
            /\ UNCHANGED <<in_call, calling, ring>>
        BY <1>3 DEF InvitePreviews, OpenMedia, At, MediaInv, lineVars, ringVars
      <3>2. \/ media' = "off" /\ pc'[Invite(c)] = "no preview"
            \/ media' = "preview" /\ pc'[Invite(c)] = "preview"
        BY <1>3, <2>1, AwaitLoop DEF InvitePreviews, OpenMedia, StopMedia, Moves, Unsuspended, Label,
           Unbroken
      <3>3. \A d \in Cid : Ringing(d)' => d = c
        BY <3>1 DEF Ringing
      <3>4. QED BY <2>1, <2>2, <3>1, <3>2, <3>3, Tasks, InviteNames DEF Moves, Quiet,
                   AllQuiet, Unbroken, MediaInv, Ringing
    <2>. QED BY <2>2, <2>3, <2>4 DEF Moves
  <1>4. CASE InviteChecks(c)
    <2>1. Invite(c) \in Task /\ loop \in {None, Invite(c)}
      BY <1>4, Tasks DEF InviteChecks, At
    <2>2. Moves(Invite(c), {"ringing", "idle"})
      BY <1>4, <2>1, ContinueLoop, WaitLoop DEF InviteChecks, Ends, Moves, Unsuspended,
         Label, Unbroken
    <2>3. LineInv'
      <3>1. UNCHANGED <<in_call, calling>> /\ ring'.active = ring.active
        BY <1>4 DEF InviteChecks, lineVars, TypeOK
      <3>2. QED BY <2>2, <3>1 DEF Moves, Quiet, AllQuiet, Unbroken, LineInv, LineExclusive,
                   Busy
    <2>4. MediaInv'
      <3>1. /\ UNCHANGED <<in_call, calling>>
            /\ ring'.active = ring.active /\ ring'.cid = ring.cid
            /\ ring' = ring \/ pc[Invite(c)] = "no preview"
        BY <1>4 DEF InviteChecks, At, lineVars, TypeOK
      <3>2. \A u \in Task : pc'[u] \notin Unbroken
        BY <2>1, <2>2 DEF Moves, Quiet, Unbroken
      <3>3. \A d \in Cid : pc'[Invite(d)] = "no preview" =>
                pc[Invite(d)] = "no preview" /\ d # c
        BY <2>1, <2>2, Tasks, InviteNames DEF Moves
      <3>4. media' # "off" => media' = media /\ (Ringing(c) \/ in_call)
        BY <1>4 DEF InviteChecks, StopMedia
      <3>5. media' # "off" => in_call' \/ (ring'.active /\ ring'.early)
        <4>1. CASE pc[Invite(c)] = "preview"
          BY <3>1, <3>4, <4>1 DEF MediaInv, Ringing
        <4>2. CASE pc[Invite(c)] = "no preview"
          BY <3>1, <3>4, <4>2 DEF MediaInv
        <4>3. QED BY <1>4, <4>1, <4>2 DEF InviteChecks, At
      <3>6. \A d \in Cid : pc'[Invite(d)] = "no preview" /\ Ringing(d)' => media' = "off"
        BY <3>1, <3>3, <3>4 DEF MediaInv, Ringing
      <3>7. QED BY <3>2, <3>5, <3>6, Tasks DEF MediaInv, Unbroken
    <2>. QED BY <2>2, <2>3, <2>4 DEF Moves
  <1>5. CASE InviteTells(c)
    <2>1. Invite(c) \in Task /\ loop \in {None, Invite(c)}
      BY <1>5, Tasks DEF InviteTells, At
    <2>2. Moves(Invite(c), {"told"})
      BY <1>5, <2>1, AwaitLoop, ContinueLoop DEF InviteTells, Moves, Unsuspended, Label,
         Unbroken
    <2>3. LineInv'
      BY <1>5, <2>1, <2>2, Alone DEF InviteTells, At, lineVars, Moves, Quiet, AllQuiet,
         Unbroken, LineInv, LineExclusive, Busy
    <2>4. MediaInv'
      BY <1>5, <2>1, <2>2, Alone, Tasks, InviteNames DEF InviteTells, At, lineVars, Moves,
         Quiet, AllQuiet, Unbroken, LineInv, LineExclusive, MediaInv, Busy, Ringing
    <2>. QED BY <2>2, <2>3, <2>4 DEF Moves
  <1>6. CASE InviteTold(c)
    <2>1. Invite(c) \in Task /\ loop \in {None, Invite(c)}
      BY <1>6, Tasks DEF InviteTold, At
    <2>2. Moves(Invite(c), {"idle"})
      <3>1. pc[Invite(c)] = "told"
        BY <1>6 DEF InviteTold, At
      <3>2. \A u \in Task \ {Invite(c)} : pc'[u] \in {pc[u], "spawned"}
        BY <1>6, Tasks DEF InviteTold, DeclineReasons, TypeOK
      <3>3. pc'[Invite(c)] = "idle"
        BY <1>6, <2>1, Tasks, InviteNames DEF InviteTold, DeclineReasons, TypeOK
      <3>4. QED BY <2>1, <3>2, <3>3, StepLoop DEF Unbroken
    <2>3. LineInv'
      BY <1>6, <2>1, <2>2, Alone DEF InviteTold, At, lineVars, ringVars, Moves, Quiet,
         AllQuiet, Unbroken, LineInv, LineExclusive, Busy
    <2>4. MediaInv'
      BY <1>6, <2>1, <2>2, Alone, Tasks, InviteNames DEF InviteTold, At, lineVars,
         ringVars, Moves, Quiet, AllQuiet, Unbroken, LineInv, LineExclusive, MediaInv,
         Busy, Ringing
    <2>. QED BY <2>2, <2>3, <2>4 DEF Moves
  <1>7. CASE ReinviteAgrees(c)
    <2>1. Reinvite(c) \in Task /\ loop \in {None, Reinvite(c)}
      BY <1>7, Tasks DEF ReinviteAgrees, Free, Idle
    <2>2. Moves(Reinvite(c), {"agreed", "idle"})
      BY <1>7, <2>1, AwaitLoop, StillLoop DEF ReinviteAgrees, Free, Idle, Moves,
         Unsuspended, Label, Unbroken
    <2>3. LineInv'
      BY <1>7, <2>1, <2>2, Alone DEF ReinviteAgrees, Free, Idle, lineVars, ringVars, Moves,
         Quiet, AllQuiet, Unbroken, LineInv, LineExclusive, Busy
    <2>4. MediaInv'
      <3>1. in_call /\ UNCHANGED <<in_call, calling, ring, media>>
        BY <1>7 DEF ReinviteAgrees, InDialog, lineVars, ringVars
      <3>2. AllQuiet
        BY <1>7, <2>1, Alone DEF ReinviteAgrees, Free, Idle
      <3>3. QED BY <2>1, <2>2, <3>1, <3>2, Tasks, InviteNames DEF Moves, Quiet, AllQuiet,
                   Unbroken, MediaInv, Ringing
    <2>. QED BY <2>2, <2>3, <2>4 DEF Moves
  <1>8. CASE ReinviteOpens(c)
    <2>1. Reinvite(c) \in Task /\ loop \in {None, Reinvite(c)}
      BY <1>8, Tasks DEF ReinviteOpens, At
    <2>2. Moves(Reinvite(c), {"idle"})
      BY <1>8, <2>1, WaitLoop DEF ReinviteOpens, Ends, Moves, Unsuspended, Label, Unbroken
    <2>3. LineInv'
      BY <1>8, <2>1, <2>2, Alone DEF ReinviteOpens, At, ringVars, Moves, Quiet, AllQuiet,
         Unbroken, LineInv, LineExclusive, Busy
    <2>4. MediaInv'
      BY <1>8, <2>1, <2>2, Alone, Tasks, InviteNames DEF ReinviteOpens, SetupMedia, OpenMedia, At,
         ringVars, Moves, Quiet, AllQuiet, Unbroken, LineInv, LineExclusive, MediaInv,
         Busy, Ringing
    <2>. QED BY <2>2, <2>3, <2>4 DEF Moves
  <1>. QED BY <1>1, <1>2, <1>3, <1>4, <1>5, <1>6, <1>7, <1>8 DEF InviteStep

\* So do the ways a ring ends.
LEMMA RingEndSafe ==
    ASSUME TypeOK, Unsuspended, HandlerInv, RingEndStep
    PROVE  HandlerInv'
  <1>. USE DEF HandlerInv
  <1>1. ASSUME NEW c \in Cid, CancelArrives(c)
         PROVE  HandlerInv'
    <2>1. Cancel(c) \in Task /\ loop \in {None, Cancel(c)}
      BY <1>1, Tasks DEF CancelArrives, Free, Idle
    <2>2. Moves(Cancel(c), {"known", "idle"})
      BY <1>1, <2>1, AwaitLoop, StillLoop DEF CancelArrives, Free, Idle, Moves,
         Unsuspended, Label, Unbroken
    <2>3. LineInv'
      BY <1>1, <2>1, <2>2, Alone DEF CancelArrives, Free, Idle, lineVars, ringVars, Moves,
         Quiet, AllQuiet, Unbroken, LineInv, LineExclusive, Busy
    <2>4. MediaInv'
      BY <1>1, <2>1, <2>2, Alone, Tasks, InviteNames DEF CancelArrives, Free, Idle,
         lineVars, ringVars, Moves, Quiet, AllQuiet, Unbroken, LineInv, LineExclusive,
         MediaInv, Busy, Ringing
    <2>. QED BY <2>2, <2>3, <2>4 DEF Moves
  <1>2. ASSUME NEW c \in Cid, CancelTerminates(c)
         PROVE  HandlerInv'
    <2>1. Cancel(c) \in Task /\ loop \in {None, Cancel(c)}
      BY <1>2, Tasks DEF CancelTerminates, At
    <2>2. Moves(Cancel(c), {"terminated", "idle"})
      BY <1>2, <2>1, AwaitLoop, WaitLoop DEF CancelTerminates, Ends, Moves, Unsuspended,
         Label, Unbroken
    <2>3. LineInv'
      BY <1>2, <2>1, <2>2, Alone DEF CancelTerminates, Ringing, At, lineVars, Moves, Quiet,
         AllQuiet, Unbroken, LineInv, LineExclusive, Busy
    <2>4. MediaInv'
      <3>1. /\ UNCHANGED <<in_call, calling, media>>
            /\ ring'.active = ring.active /\ ring'.cid = ring.cid
            /\ ring'.early = ring.early
        BY <1>2 DEF CancelTerminates, lineVars, TypeOK
      <3>2. pc'[Cancel(c)] = "terminated" => ~Busy
        <4>1. CASE Ringing(c)
          BY <4>1 DEF Ringing, LineInv, LineExclusive, Busy
        <4>2. CASE ~Ringing(c)
          <5>1. WaitsAt(Cancel(c), "idle")
            BY <1>2, <4>2 DEF CancelTerminates, Ends
          <5>2. QED BY <5>1, <2>1, Tasks DEF WaitsAt, TypeOK
        <4>3. QED BY <4>1, <4>2
      <3>3. Quiet(Cancel(c)) /\ pc[Cancel(c)] \notin Unbroken
        BY <1>2, <2>1, Alone DEF CancelTerminates, At, Unbroken
      <3>4. QED BY <2>1, <2>2, <3>1, <3>2, <3>3, Tasks, InviteNames
                DEF Moves, Quiet, AllQuiet, Unbroken, MediaInv, Ringing, Busy
    <2>. QED BY <2>2, <2>3, <2>4 DEF Moves
  <1>3. ASSUME NEW w \in DeclineReasons, DeclineStart(w)
         PROVE  HandlerInv'
    <2>1. Decline(w) \in Task /\ loop \in {None, Decline(w)}
      BY <1>3, Tasks DEF DeclineStart, At, Free, Idle
    <2>2. Moves(Decline(w), {"terminated"})
      BY <1>3, <2>1, AwaitLoop DEF DeclineStart, Moves, Unsuspended, Label, Unbroken
    <2>3. LineInv'
      BY <1>3, <2>1, <2>2, Alone DEF DeclineStart, At, Free, Idle, lineVars, Moves, Quiet,
         AllQuiet, Unbroken, LineInv, LineExclusive, Busy
    <2>4. MediaInv'
      <3>1. /\ ring.active /\ UNCHANGED <<in_call, calling, media>>
            /\ ring'.active = ring.active /\ ring'.cid = ring.cid
            /\ ring'.early = ring.early
        BY <1>3 DEF DeclineStart, lineVars, TypeOK
      <3>2. ~Busy
        BY <3>1 DEF LineInv, LineExclusive, Busy
      <3>3. Quiet(Decline(w)) /\ pc[Decline(w)] \notin Unbroken
        BY <1>3, <2>1, Alone DEF DeclineStart, Free, At, Unbroken
      <3>4. QED BY <2>1, <2>2, <3>1, <3>2, <3>3, Tasks, InviteNames
                DEF Moves, Quiet, AllQuiet, Unbroken, MediaInv, Ringing, Busy
    <2>. QED BY <2>2, <2>3, <2>4 DEF Moves
  <1>4. CASE EchoGone
    <2>1. Decline("echo") \in Task /\ loop \in {None, Decline("echo")}
      BY <1>4, Tasks DEF EchoGone, At, DeclineReasons
    <2>2. Moves(Decline("echo"), {"idle"})
      BY <1>4, <2>1, WaitLoop DEF EchoGone, Ends, Moves, Unsuspended, Label, Unbroken
    <2>3. LineInv'
      BY <1>4, <2>1, <2>2, Alone DEF EchoGone, At, lineVars, ringVars, Moves, Quiet,
         AllQuiet, Unbroken, LineInv, LineExclusive, Busy
    <2>4. MediaInv'
      BY <1>4, <2>1, <2>2, Alone, Tasks, InviteNames DEF EchoGone, At, lineVars, ringVars,
         Moves, Quiet, AllQuiet, Unbroken, LineInv, LineExclusive, MediaInv, Busy, Ringing
    <2>. QED BY <2>2, <2>3, <2>4 DEF Moves
  <1>5. ASSUME NEW t \in RingEnders, RingEnds(t)
         PROVE  HandlerInv'
    <2>1. t \in Task /\ loop \in {None, t}
      BY <1>5, Tasks DEF RingEnds, At
    <2>2. Moves(t, {"ended"})
      BY <1>5, <2>1, AwaitLoop, ContinueLoop DEF RingEnds, Moves, Unsuspended, Label,
         Unbroken
    <2>3. LineInv'
      <3>1. UNCHANGED <<in_call, calling>> /\ ring'.active = FALSE
        BY <1>5 DEF RingEnds, CloseRing, lineVars, TypeOK
      <3>2. QED BY <2>1, <2>2, <3>1 DEF Moves, Quiet, AllQuiet, Unbroken, LineInv,
                   LineExclusive, Busy
    <2>4. MediaInv'
      BY <1>5, <2>1, <2>2, Alone, Tasks, InviteNames DEF RingEnds, CloseRing, StopMedia,
         At, lineVars, Moves, Quiet, AllQuiet, Unbroken, LineInv, LineExclusive, MediaInv,
         Busy, Ringing
    <2>. QED BY <2>2, <2>3, <2>4 DEF Moves
  <1>6. ASSUME NEW t \in RingEnders, RingEndTells(t)
         PROVE  HandlerInv'
    <2>1. t \in Task /\ loop \in {None, t}
      BY <1>6, Tasks DEF RingEndTells, At
    <2>2. Moves(t, {"told", "idle"})
      BY <1>6, <2>1, AwaitLoop, WaitLoop DEF RingEndTells, Ends, Moves, Unsuspended, Label,
         Unbroken
    <2>3. LineInv'
      BY <1>6, <2>1, <2>2, Alone DEF RingEndTells, At, lineVars, ringVars, Moves, Quiet,
         AllQuiet, Unbroken, LineInv, LineExclusive, Busy
    <2>4. MediaInv'
      BY <1>6, <2>1, <2>2, Alone, Tasks, InviteNames DEF RingEndTells, At, lineVars,
         ringVars, Moves, Quiet, AllQuiet, Unbroken, LineInv, LineExclusive, MediaInv,
         Busy, Ringing
    <2>. QED BY <2>2, <2>3, <2>4 DEF Moves
  <1>7. ASSUME NEW t \in RingEnders, RingEndTold(t)
         PROVE  HandlerInv'
    <2>1. t \in Task /\ loop \in {None, t}
      BY <1>7, Tasks DEF RingEndTold, At
    <2>2. Moves(t, {"idle"})
      BY <1>7, <2>1, WaitLoop DEF RingEndTold, Ends, Moves, Unsuspended, Label, Unbroken
    <2>3. LineInv'
      BY <1>7, <2>1, <2>2, Alone DEF RingEndTold, At, lineVars, ringVars, Moves, Quiet,
         AllQuiet, Unbroken, LineInv, LineExclusive, Busy
    <2>4. MediaInv'
      BY <1>7, <2>1, <2>2, Alone, Tasks, InviteNames DEF RingEndTold, At, lineVars,
         ringVars, Moves, Quiet, AllQuiet, Unbroken, LineInv, LineExclusive, MediaInv,
         Busy, Ringing
    <2>. QED BY <2>2, <2>3, <2>4 DEF Moves
  <1>. QED BY <1>1, <1>2, <1>3, <1>4, <1>5, <1>6, <1>7 DEF RingEndStep

\* So do do_answer_incoming and the ACK.
LEMMA AnswerSafe ==
    ASSUME TypeOK, Unsuspended, HandlerInv, NEW c \in Cid, AnswerStep(c)
    PROVE  HandlerInv'
  <1>. USE DEF HandlerInv
  <1>1. CASE AnswerStart(c)
    <2>1. Answer(c) \in Task /\ loop \in {None, Answer(c)}
      BY <1>1, Tasks DEF AnswerStart, Free, Idle
    <2>2. Moves(Answer(c), {"terminated", "answered preview", "answered", "ended"})
      BY <1>1, <2>1, AwaitLoop, ContinueLoop DEF AnswerStart, Moves, Unsuspended, Label,
         Unbroken
    <2>3. LineInv'
      <3>1. ring.active /\ UNCHANGED <<in_call, calling>> /\ ring'.active = FALSE
        BY <1>1 DEF AnswerStart, Ringing, lineVars, TypeOK
      <3>2. QED BY <2>1, <2>2, <3>1 DEF Moves, Quiet, AllQuiet, Unbroken, LineInv,
                   LineExclusive, Busy
    <2>4. MediaInv'
      <3>1. /\ ring.active /\ UNCHANGED <<in_call, calling>>
            /\ ring'.active = FALSE
        BY <1>1 DEF AnswerStart, Ringing, lineVars, TypeOK
      <3>2. ~Busy /\ ~Busy'
        BY <3>1 DEF LineInv, LineExclusive, Busy
      <3>3. AllQuiet /\ Quiet(Answer(c))'
        BY <1>1, <2>1, <2>2, Alone DEF AnswerStart, Free, Idle, Moves
      <3>4. media # "off" => ring.early
        BY <3>2, <3>3 DEF MediaInv, AllQuiet, Unbroken, Busy
      <3>5. media' # "off" => pc'[Answer(c)] \in {"answered preview", "terminated"}
        BY <1>1, <2>1, <3>4, AwaitLoop, ContinueLoop
           DEF AnswerStart, StopMedia, Moves, Unsuspended, Label, Unbroken
      <3>6. \A d \in Cid : pc'[Invite(d)] \notin Unbroken
        BY <2>1, <3>3, Tasks, InviteNames DEF Quiet
      <3>7. \A d \in Cid : ~Ringing(d)'
        BY <3>1 DEF Ringing
      <3>8. QED BY <2>1, <2>2, <3>2, <3>3, <3>5, <3>6, <3>7 DEF Moves, Quiet, Unbroken,
                   MediaInv
    <2>. QED BY <2>2, <2>3, <2>4 DEF Moves
  <1>2. CASE AnswerConnects(c)
    <2>1. Answer(c) \in Task /\ loop \in {None, Answer(c)}
      BY <1>2, Tasks DEF AnswerConnects, At
    <2>2. Moves(Answer(c), {"up"})
      BY <1>2, <2>1, AwaitLoop, ContinueLoop DEF AnswerConnects, Moves, Unsuspended, Label,
         Unbroken
    <2>3. LineInv'
      BY <1>2, <2>1, <2>2, Alone DEF AnswerConnects, At, ringVars, Moves, Quiet, AllQuiet,
         Unbroken, LineInv, LineExclusive, Busy
    <2>4. MediaInv'
      BY <1>2, <2>1, <2>2, Alone, Tasks, InviteNames DEF AnswerConnects, SetupMedia, OpenMedia, At,
         ringVars, Moves, Quiet, AllQuiet, Unbroken, LineInv, LineExclusive, MediaInv,
         Busy, Ringing
    <2>. QED BY <2>2, <2>3, <2>4 DEF Moves
  <1>3. CASE AnswerTells(c)
    <2>1. Answer(c) \in Task /\ loop \in {None, Answer(c)}
      BY <1>3, Tasks DEF AnswerTells, At
    <2>2. Moves(Answer(c), {"started"})
      BY <1>3, <2>1, AwaitLoop DEF AnswerTells, Moves, Unsuspended, Label, Unbroken
    <2>3. LineInv'
      BY <1>3, <2>1, <2>2, Alone DEF AnswerTells, At, lineVars, ringVars, Moves, Quiet,
         AllQuiet, Unbroken, LineInv, LineExclusive, Busy
    <2>4. MediaInv'
      BY <1>3, <2>1, <2>2, Alone, Tasks, InviteNames DEF AnswerTells, At, lineVars,
         ringVars, Moves, Quiet, AllQuiet, Unbroken, LineInv, LineExclusive, MediaInv,
         Busy, Ringing
    <2>. QED BY <2>2, <2>3, <2>4 DEF Moves
  <1>4. CASE AnswerTold(c)
    <2>1. Answer(c) \in Task /\ loop \in {None, Answer(c)}
      BY <1>4, Tasks DEF AnswerTold, At
    <2>2. Moves(Answer(c), {"idle"})
      BY <1>4, <2>1, CancelLoop DEF AnswerTold, Moves, Unsuspended, Label, Unbroken
    <2>3. LineInv'
      BY <1>4, <2>1, <2>2, Alone DEF AnswerTold, At, lineVars, ringVars, Moves, Quiet,
         AllQuiet, Unbroken, LineInv, LineExclusive, Busy
    <2>4. MediaInv'
      BY <1>4, <2>1, <2>2, Alone, Tasks, InviteNames DEF AnswerTold, At, lineVars,
         ringVars, Moves, Quiet, AllQuiet, Unbroken, LineInv, LineExclusive, MediaInv,
         Busy, Ringing
    <2>. QED BY <2>2, <2>3, <2>4 DEF Moves
  <1>5. CASE AckArrives(c)
    <2>1. Ack(c) \in Task /\ loop \in {None, Ack(c)}
      BY <1>5, Tasks DEF AckArrives, Free, Idle
    <2>2. Moves(Ack(c), {"spawned", "idle"})
      <3>1. pc[Ack(c)] = "idle" /\ UNCHANGED loop
        BY <1>5 DEF AckArrives, Free
      <3>2. \/ pc' = [pc EXCEPT ![Ack(c)] = "spawned"]
            \/ pc' = pc
        BY <1>5 DEF AckArrives
      <3>3. pc'[Ack(c)] \in {"spawned", "idle"}
            /\ \A u \in Task \ {Ack(c)} : pc'[u] = pc[u]
        BY <2>1, <3>1, <3>2 DEF TypeOK
      <3>4. PICK l \in {"spawned", "idle"} : pc'[Ack(c)] = l
        BY <3>3
      <3>5. Moves(Ack(c), {l})
        BY <2>1, <3>3, <3>4, StepLoop DEF Unbroken
      <3>6. QED BY <3>5 DEF Moves
    <2>3. LineInv'
      BY <1>5, <2>1, <2>2, Alone DEF AckArrives, Free, Idle, lineVars, ringVars, Moves,
         Quiet, AllQuiet, Unbroken, LineInv, LineExclusive, Busy
    <2>4. MediaInv'
      BY <1>5, <2>1, <2>2, Alone, Tasks, InviteNames DEF AckArrives, Free, Idle, lineVars,
         ringVars, Moves, Quiet, AllQuiet, Unbroken, LineInv, LineExclusive, MediaInv,
         Busy, Ringing
    <2>. QED BY <2>2, <2>3, <2>4 DEF Moves
  <1>6. CASE AckOpens(c)
    <2>1. Ack(c) \in Task /\ loop \in {None, Ack(c)}
      BY <1>6, Tasks DEF AckOpens, At
    <2>2. Moves(Ack(c), {"idle"})
      BY <1>6, <2>1, WaitLoop DEF AckOpens, Ends, Moves, Unsuspended, Label, Unbroken
    <2>3. LineInv'
      BY <1>6, <2>1, <2>2, Alone DEF AckOpens, At, ringVars, Moves, Quiet, AllQuiet,
         Unbroken, LineInv, LineExclusive, Busy
    <2>4. MediaInv'
      <3>1. UNCHANGED <<in_call, calling, ring>> /\ (media' = media \/ in_call)
        BY <1>6 DEF AckOpens, AckExpected, ringVars
      <3>2. in_call => \A d \in Cid : ~Ringing(d)
        BY DEF LineInv, LineExclusive, Ringing
      <3>3. Quiet(Ack(c)) /\ pc[Ack(c)] \notin Unbroken
        BY <1>6, <2>1, Alone DEF AckOpens, At, Unbroken
      <3>4. QED BY <2>1, <2>2, <3>1, <3>2, <3>3, Tasks, InviteNames
                DEF Moves, Quiet, AllQuiet, Unbroken, MediaInv, Ringing
    <2>. QED BY <2>2, <2>3, <2>4 DEF Moves
  <1>. QED BY <1>1, <1>2, <1>3, <1>4, <1>5, <1>6 DEF AnswerStep

\* So does handle_incoming_bye.
LEMMA ByeSafe ==
    ASSUME TypeOK, Unsuspended, HandlerInv, NEW c \in Cid, ByeStep(c)
    PROVE  HandlerInv'
  <1>. USE DEF HandlerInv
  <1>1. CASE ByeArrives(c)
    <2>1. Bye(c) \in Task /\ loop \in {None, Bye(c)}
      BY <1>1, Tasks DEF ByeArrives, Free, Idle
    <2>2. Moves(Bye(c), {"known", "idle"})
      BY <1>1, <2>1, AwaitLoop, StillLoop DEF ByeArrives, Free, Idle, Moves, Unsuspended,
         Label, Unbroken
    <2>3. LineInv'
      BY <1>1, <2>1, <2>2, Alone DEF ByeArrives, Free, Idle, lineVars, ringVars, Moves,
         Quiet, AllQuiet, Unbroken, LineInv, LineExclusive, Busy
    <2>4. MediaInv'
      BY <1>1, <2>1, <2>2, Alone, Tasks, InviteNames DEF ByeArrives, Free, Idle, lineVars,
         ringVars, Moves, Quiet, AllQuiet, Unbroken, LineInv, LineExclusive, MediaInv,
         Busy, Ringing
    <2>. QED BY <2>2, <2>3, <2>4 DEF Moves
  <1>2. CASE ByeEnds(c)
    <2>1. Bye(c) \in Task /\ loop \in {None, Bye(c)}
      BY <1>2, Tasks DEF ByeEnds, At
    <2>2. Moves(Bye(c), {"ended", "idle"})
      BY <1>2, <2>1, AwaitLoop, WaitLoop DEF ByeEnds, Ends, Moves, Unsuspended, Label,
         Unbroken
    <2>3. LineInv'
      BY <1>2, <2>1, <2>2, Alone DEF ByeEnds, At, ringVars, Moves, Quiet, AllQuiet,
         Unbroken, LineInv, LineExclusive, Busy
    <2>4. MediaInv'
      BY <1>2, <2>1, <2>2, Alone, Tasks, InviteNames DEF ByeEnds, StopMedia, At, ringVars,
         Moves, Quiet, AllQuiet, Unbroken, LineInv, LineExclusive, MediaInv, Busy, Ringing
    <2>. QED BY <2>2, <2>3, <2>4 DEF Moves
  <1>3. CASE ByeTells(c)
    <2>1. Bye(c) \in Task /\ loop \in {None, Bye(c)}
      BY <1>3, Tasks DEF ByeTells, At
    <2>2. Moves(Bye(c), {"told", "idle"})
      BY <1>3, <2>1, AwaitLoop, WaitLoop DEF ByeTells, Ends, Moves, Unsuspended, Label,
         Unbroken
    <2>3. LineInv'
      BY <1>3, <2>1, <2>2, Alone DEF ByeTells, StaleEnd, At, lineVars, ringVars, Moves,
         Quiet, AllQuiet, Unbroken, LineInv, LineExclusive, Busy
    <2>4. MediaInv'
      BY <1>3, <2>1, <2>2, Alone, Tasks, InviteNames DEF ByeTells, StaleEnd, At, lineVars,
         ringVars, Moves, Quiet, AllQuiet, Unbroken, LineInv, LineExclusive, MediaInv,
         Busy, Ringing
    <2>. QED BY <2>2, <2>3, <2>4 DEF Moves
  <1>4. CASE ByeTold(c)
    <2>1. Bye(c) \in Task /\ loop \in {None, Bye(c)}
      BY <1>4, Tasks DEF ByeTold, At
    <2>2. Moves(Bye(c), {"idle"})
      BY <1>4, <2>1, CancelLoop DEF ByeTold, Moves, Unsuspended, Label, Unbroken
    <2>3. LineInv'
      BY <1>4, <2>1, <2>2, Alone DEF ByeTold, At, lineVars, ringVars, Moves, Quiet,
         AllQuiet, Unbroken, LineInv, LineExclusive, Busy
    <2>4. MediaInv'
      BY <1>4, <2>1, <2>2, Alone, Tasks, InviteNames DEF ByeTold, At, lineVars, ringVars,
         Moves, Quiet, AllQuiet, Unbroken, LineInv, LineExclusive, MediaInv, Busy, Ringing
    <2>. QED BY <2>2, <2>3, <2>4 DEF Moves
  <1>. QED BY <1>1, <1>2, <1>3, <1>4 DEF ByeStep

\* So do the panel and the network.
LEMMA PanelSafe ==
    ASSUME TypeOK, Unsuspended, HandlerInv, Panel
    PROVE  HandlerInv'
  <1>. USE DEF HandlerInv
  <1>1. ASSUME NEW o \in Outgoing, PanelAnswers(o)
         PROVE  HandlerInv'
    <2>1. UNCHANGED <<in_call, calling, ring, media, loop, pc>>
      BY <1>1 DEF PanelAnswers, PanelActs, lineVars, ringVars, hubVars
    <2>. QED BY <2>1, Unmoved
  <1>2. ASSUME NEW o \in Outgoing, PanelRejects(o)
         PROVE  HandlerInv'
    <2>1. UNCHANGED <<in_call, calling, ring, media, loop, pc>>
      BY <1>2 DEF PanelRejects, PanelActs, lineVars, ringVars, hubVars
    <2>. QED BY <2>1, Unmoved
  <1>3. ASSUME NEW o \in Outgoing, PanelAnswersAgain(o)
         PROVE  HandlerInv'
    <2>1. UNCHANGED <<in_call, calling, ring, media, loop, pc>>
      BY <1>3 DEF PanelAnswersAgain, PanelActs, lineVars, ringVars, hubVars
    <2>. QED BY <2>1, Unmoved
  <1>4. ASSUME NEW i \in Incoming, PanelRings(i)
         PROVE  HandlerInv'
    <2>1. UNCHANGED <<in_call, calling, ring, media, loop, pc>>
      BY <1>4 DEF PanelRings, PanelActs, lineVars, ringVars, hubVars
    <2>. QED BY <2>1, Unmoved
  <1>5. ASSUME NEW i \in Incoming, PanelRingsAgain(i)
         PROVE  HandlerInv'
    <2>1. UNCHANGED <<in_call, calling, ring, media, loop, pc>>
      BY <1>5 DEF PanelRingsAgain, PanelActs, lineVars, ringVars, hubVars
    <2>. QED BY <2>1, Unmoved
  <1>6. ASSUME NEW i \in Incoming, PanelCancels(i)
         PROVE  HandlerInv'
    <2>1. UNCHANGED <<in_call, calling, ring, media, loop, pc>>
      BY <1>6 DEF PanelCancels, PanelActs, lineVars, ringVars, hubVars
    <2>. QED BY <2>1, Unmoved
  <1>7. ASSUME NEW i \in Incoming, PanelAcks(i)
         PROVE  HandlerInv'
    <2>1. UNCHANGED <<in_call, calling, ring, media, loop, pc>>
      BY <1>7 DEF PanelAcks, PanelActs, lineVars, ringVars, hubVars
    <2>. QED BY <2>1, Unmoved
  <1>8. ASSUME NEW c \in Cid, PanelByes(c)
         PROVE  HandlerInv'
    <2>1. UNCHANGED <<in_call, calling, ring, media, loop, pc>>
      BY <1>8 DEF PanelByes, PanelActs, lineVars, ringVars, hubVars
    <2>. QED BY <2>1, Unmoved
  <1>9. ASSUME NEW c \in Cid, PanelReinvites(c)
         PROVE  HandlerInv'
    <2>1. UNCHANGED <<in_call, calling, ring, media, loop, pc>>
      BY <1>9 DEF PanelReinvites, PanelActs, lineVars, ringVars, hubVars
    <2>. QED BY <2>1, Unmoved
  <1>. QED BY <1>1, <1>2, <1>3, <1>4, <1>5, <1>6, <1>7, <1>8, <1>9 DEF Panel

\* Before anything happened no task has a step to complete and the line is idle.
LEMMA InitSafe == Init => HandlerInv
  <1>. SUFFICES ASSUME Init PROVE HandlerInv
    OBVIOUS
  <1>1. \A t \in Task : pc[t] = "idle"
    BY DEF Init
  <1>2. \A c \in Cid : Invite(c) \in Task
    BY Tasks
  <1>. QED BY <1>1, <1>2 DEF Init, HandlerInv, LoopInv, LineInv, LineExclusive, MediaInv,
              Unbroken, Busy

\* A step of the system, or none, keeps the invariant.
LEMMA NextSafe ==
    ASSUME Unsuspended, TypeOK, HandlerInv, [Next]_vars
    PROVE  HandlerInv'
  <1>1. CASE UNCHANGED vars
    BY <1>1, Unmoved DEF vars, lineVars, ringVars, hubVars, envVars
  <1>2. CASE Next
    BY <1>2, CallSafe, HangupSafe, TimerSafe, InviteSafe, RingEndSafe, AnswerSafe, ByeSafe,
       PanelSafe DEF Next
  <1>3. QED BY <1>1, <1>2

\* Every handler of sip_client.py, at every await, keeps what the others rely on:
\* the loop is held where a step is owed, the line is as it was left, the media
\* belong to somebody.
THEOREM HandlersAgree == ASSUME Unsuspended PROVE Spec => []HandlerInv
  <1>1. TypeOK /\ HandlerInv /\ [Next]_vars => HandlerInv'
    BY NextSafe
  <1>2. QED BY InitSafe, TypeCorrect, <1>1, PTL DEF Spec

\* do_call, do_answer_incoming and handle_incoming_invite never have two uses of
\* the line at once: talking, calling and ringing exclude each other.
THEOREM OneUse == ASSUME Unsuspended PROVE Spec => []LineExclusive
  <1>1. HandlerInv => LineExclusive
    BY DEF HandlerInv, LineInv
  <1>2. QED BY HandlersAgree, <1>1, PTL

\* Whenever the event loop is free, microphone and camera are open only for a call
\* or for a ring with a preview: every path through do_hangup, handle_incoming_bye,
\* _end_ring and do_call's cleanup stops the media it leaves behind.
THEOREM MediaOwned == ASSUME Unsuspended PROVE Spec => []NoOrphanMedia
  <1>1. TypeOK /\ HandlerInv => NoOrphanMedia
    <2>. SUFFICES ASSUME TypeOK, HandlerInv, loop = None, media # "off"
                  PROVE  in_call \/ (ring.active /\ ring.early)
      BY DEF NoOrphanMedia
    <2>1. \A t \in Task : pc[t] \notin Unbroken
      BY NoneAssumption DEF HandlerInv, LoopInv
    <2>. QED BY <2>1 DEF HandlerInv, MediaInv, Unbroken
  <1>2. QED BY HandlersAgree, TypeCorrect, <1>1, PTL

-----------------------------------------------------------------------------
(* The line.                                                               *)

\* How a step may move the line: a call begins on a free line with the loop free, connects as the
\* call it was or as the ring that is answered, and changes its user only so; a ring begins on a
\* free line, and keeps its call while it is on.
VarMoves ==
    /\ in_call' => \/ in_call
                   \/ calling /\ ~calling' /\ UNCHANGED call_id
                   \/ \E c \in Cid : Answering(c) /\ call_id' = c
    /\ calling' => calling \/ (~Busy /\ ~ring.active /\ loop = None /\ call_id' \in Cid)
    /\ ring'.active => ring.active \/ (~Busy /\ loop = None /\ ring'.cid \in Cid)
    /\ UNCHANGED ring \/ ring'.cid = ring.cid \/ (~ring.active /\ loop = None)
    /\ Busy => call_id' \in {call_id, None} \/ \E c \in Cid : Answering(c)
\* Where an answer has stopped the ring and has not yet set in_call.
Picks == {"answered", "answered preview"}
\* Only the answer of a ring that is on gets there.
PcMoves ==
    \A c \in Cid : pc'[Answer(c)] \in Picks => pc[Answer(c)] = pc'[Answer(c)] \/ Ringing(c)

\* A handler goes on elsewhere.
LEMMA GoesMoves ==
    ASSUME TypeOK, NEW t \in Task, NEW l, l \notin Picks, pc' = [pc EXCEPT ![t] = l]
    PROVE  PcMoves
  BY DEF PcMoves

\* So does one that cancels the hub's timer.
LEMMA CancelMoves ==
    ASSUME TypeOK, NEW t \in Task, NEW l, l \notin Picks, CancelCallTimer(t, l)
    PROVE  PcMoves
  <1>1. \A u \in Task : pc'[u] \in {pc[u], "idle", l}
    BY DEF CancelCallTimer, TypeOK
  <1>2. QED BY <1>1, Tasks DEF PcMoves, Picks

\* do_call takes a free line, connects, and clears what it holds.
LEMMA CallMoves ==
    ASSUME TypeOK, NEW o \in Outgoing, CallStep(o)
    PROVE  VarMoves /\ PcMoves
  <1>1. PcMoves
    <2>1. CASE CallStart(o)
      BY <2>1, Tasks, GoesMoves DEF CallStart, Await, WaitsAt, Picks
    <2>2. CASE CallListens(o)
      BY <2>2, Tasks, GoesMoves DEF CallListens, WaitsAt, Picks
    <2>3. CASE CallRetransmits(o)
      BY <2>3 DEF CallRetransmits, PcMoves
    <2>4. CASE CallCancelled(o)
      BY <2>4, Tasks, GoesMoves DEF CallCancelled, Await, Picks
    <2>5. CASE CallRejected(o)
      BY <2>5, Tasks, GoesMoves DEF CallRejected, Await, Picks
    <2>6. CASE CallTimesOut(o)
      BY <2>6, Tasks, GoesMoves DEF CallTimesOut, Await, Picks
    <2>7. CASE CallAnswered(o)
      BY <2>7, Tasks, GoesMoves DEF CallAnswered, Await, Continues, Picks
    <2>8. CASE CallOpensMedia(o)
      BY <2>8, Tasks, GoesMoves DEF CallOpensMedia, Annulled, Await, Continues, Picks
    <2>9. CASE CallConnects(o)
      BY <2>9, Tasks, GoesMoves DEF CallConnects, Annulled, Await, Continues, Picks
    <2>10. CASE CallStarted(o)
      BY <2>10, Tasks, CancelMoves DEF CallStarted, Picks
    <2>11. CASE CallAnnulled(o)
      BY <2>11, Tasks, GoesMoves DEF CallAnnulled, Await, Picks
    <2>12. CASE CallForgotten(o)
      BY <2>12, Tasks, GoesMoves DEF CallForgotten, Leaves, WaitsAt, Picks
    <2>13. CASE CallLeaves(o)
      BY <2>13, Tasks, GoesMoves DEF CallLeaves, Leaves, WaitsAt, Picks
    <2>14. ASSUME NEW type \in {"200", "reject"}, DispatchFinal(o, type)
          PROVE  PcMoves
      BY <2>14 DEF DispatchFinal, PcMoves
    <2>. QED BY <2>1, <2>2, <2>3, <2>4, <2>5, <2>6, <2>7, <2>8, <2>9, <2>10, <2>11, <2>12,
                <2>13, <2>14 DEF CallStep
  <1>2. VarMoves
    BY DEF CallStep, CallStart, CallListens, CallRetransmits, CallCancelled, CallRejected,
       CallTimesOut, CallAnswered, CallOpensMedia, CallConnects, CallStarted, CallAnnulled,
       CallForgotten, CallLeaves, DispatchFinal, Leaves, ClearIf, ClearCallState, MayCall,
       Free, Idle, Cid, VarMoves, lineVars, ringVars
  <1>. QED BY <1>1, <1>2

\* do_hangup and hub.async_hangup only let go of the line.
LEMMA HangupMoves ==
    ASSUME TypeOK, NEW h \in HangupIds, HangupStep(h)
    PROVE  VarMoves /\ PcMoves
  <1>1. PcMoves
    <2>1. CASE HangupAsked(h)
      BY <2>1, Tasks, CancelMoves DEF HangupAsked, Picks
    <2>2. CASE HangupStart(h)
      BY <2>2, Tasks, GoesMoves DEF HangupStart, EndsLocally, Await, Continues, Picks
    <2>3. CASE HangupTells(h)
      BY <2>3, Tasks, GoesMoves DEF HangupTells, Await, Continues, Picks
    <2>4. CASE HangupTold(h)
      BY <2>4, Tasks, CancelMoves DEF HangupTold, Picks
    <2>5. CASE HangupByes(h)
      BY <2>5, Tasks, GoesMoves DEF HangupByes, HangupEnds, WaitsAt, Picks
    <2>6. CASE HangupRetransmits(h)
      BY <2>6 DEF HangupRetransmits, PcMoves
    <2>7. CASE HangupDone(h)
      <3>1. \E l \in {"idle", "done"} : pc' = [pc EXCEPT ![Hangup(h)] = l]
        BY <2>7 DEF HangupDone, HangupEnds, WaitsAt
      <3>2. QED BY <3>1, Tasks, GoesMoves DEF Picks
    <2>. QED BY <2>1, <2>2, <2>3, <2>4, <2>5, <2>6, <2>7 DEF HangupStep
  <1>2. VarMoves
    <2>1. CASE HangupAsked(h)
      BY <2>1 DEF HangupAsked, VarMoves, lineVars, ringVars
    <2>2. CASE HangupStart(h)
      BY <2>2 DEF HangupStart, EndsLocally, VarMoves, ringVars
    <2>3. CASE HangupTells(h)
      BY <2>3 DEF HangupTells, VarMoves, lineVars, ringVars
    <2>4. CASE HangupTold(h)
      BY <2>4 DEF HangupTold, VarMoves, lineVars, ringVars
    <2>5. CASE HangupByes(h)
      BY <2>5 DEF HangupByes, ClearIf, ClearCallState, VarMoves, ringVars
    <2>6. CASE HangupRetransmits(h)
      BY <2>6 DEF HangupRetransmits, VarMoves, lineVars, ringVars
    <2>7. CASE HangupDone(h)
      BY <2>7 DEF HangupDone, ClearIf, ClearCallState, VarMoves, ringVars
    <2>. QED BY <2>1, <2>2, <2>3, <2>4, <2>5, <2>6, <2>7 DEF HangupStep
  <1>. QED BY <1>1, <1>2

\* The hub's call timer ends the call it is of, and takes nothing.
LEMMA TimerMoves ==
    ASSUME TypeOK, TimerFires \/ HangupCut
    PROVE  VarMoves /\ PcMoves
  <1>1. PcMoves
    <2>1. CASE TimerFires
      BY <2>1, Tasks, GoesMoves DEF TimerFires, EndsLocally, Timer, Await, Continues, Picks
    <2>2. CASE HangupCut
      BY <2>2, Tasks, GoesMoves DEF HangupCut, Ends, WaitsAt, Picks
    <2>. QED BY <2>1, <2>2
  <1>2. VarMoves
    <2>1. CASE TimerFires
      BY <2>1 DEF TimerFires, EndsLocally, VarMoves, ringVars
    <2>2. CASE HangupCut
      BY <2>2 DEF HangupCut, VarMoves, lineVars, ringVars
    <2>. QED BY <2>1, <2>2
  <1>. QED BY <1>1, <1>2

\* handle_incoming_invite rings on a free line, and a re-INVITE moves nothing.
LEMMA InviteMoves ==
    ASSUME TypeOK, NEW c \in Cid, InviteStep(c)
    PROVE  VarMoves /\ PcMoves
  <1>1. PcMoves
    <2>1. ASSUME NEW type \in {"INVITE", "re-INVITE"}, InviteRings(c, type)
          PROVE  PcMoves
      BY <2>1, Tasks, GoesMoves DEF InviteRings, Await, PcMoves, Picks
    <2>2. ASSUME NEW type \in {"INVITE", "re-INVITE"}, InviteRepeats(c, type)
          PROVE  PcMoves
      BY <2>2 DEF InviteRepeats, PcMoves
    <2>3. CASE InvitePreviews(c)
      BY <2>3, Tasks, GoesMoves DEF InvitePreviews, Await, Picks
    <2>4. CASE InviteChecks(c)
      BY <2>4, Tasks, GoesMoves DEF InviteChecks, Ends, WaitsAt, Continues, Picks
    <2>5. CASE InviteTells(c)
      BY <2>5, Tasks, GoesMoves DEF InviteTells, Await, Continues, Picks
    <2>6. CASE InviteTold(c)
      <3>1. \A u \in Task : pc'[u] \in {pc[u], "idle", "spawned"}
        <4>1. CASE Busy
          <5>1. pc' = [pc EXCEPT ![Invite(c)] = "idle",
                                 ![Decline("echo")] = IF @ = "idle" THEN "spawned" ELSE @]
            BY <2>6, <4>1 DEF InviteTold
          <5>2. QED BY <5>1 DEF TypeOK
        <4>2. CASE ~Busy
          BY <2>6, <4>2 DEF InviteTold, TypeOK
        <4>3. QED BY <4>1, <4>2
      <3>2. QED BY <3>1, Tasks DEF PcMoves, Picks
    <2>7. CASE ReinviteAgrees(c)
      BY <2>7, Tasks, GoesMoves DEF ReinviteAgrees, Await, PcMoves, Picks
    <2>8. CASE ReinviteOpens(c)
      BY <2>8, Tasks, GoesMoves DEF ReinviteOpens, Ends, WaitsAt, Picks
    <2>. QED BY <2>1, <2>2, <2>3, <2>4, <2>5, <2>6, <2>7, <2>8 DEF InviteStep
  <1>2. VarMoves
    <2>1. ASSUME NEW type \in {"INVITE", "re-INVITE"}, InviteRings(c, type)
          PROVE  VarMoves
      BY <2>1 DEF InviteRings, Free, Idle, VarMoves, lineVars
    <2>2. ASSUME NEW type \in {"INVITE", "re-INVITE"}, InviteRepeats(c, type)
          PROVE  VarMoves
      BY <2>2 DEF InviteRepeats, VarMoves, lineVars, ringVars
    <2>3. CASE InvitePreviews(c)
      BY <2>3 DEF InvitePreviews, VarMoves, lineVars, ringVars
    <2>4. CASE InviteChecks(c)
      BY <2>4 DEF InviteChecks, VarMoves, lineVars, TypeOK
    <2>5. CASE InviteTells(c)
      BY <2>5 DEF InviteTells, VarMoves, lineVars
    <2>6. CASE InviteTold(c)
      BY <2>6 DEF InviteTold, VarMoves, lineVars, ringVars
    <2>7. CASE ReinviteAgrees(c)
      BY <2>7 DEF ReinviteAgrees, VarMoves, lineVars, ringVars
    <2>8. CASE ReinviteOpens(c)
      BY <2>8 DEF ReinviteOpens, VarMoves, ringVars
    <2>. QED BY <2>1, <2>2, <2>3, <2>4, <2>5, <2>6, <2>7, <2>8 DEF InviteStep
  <1>. QED BY <1>1, <1>2

\* CANCEL, a decline and the end of the preview close the ring.
LEMMA RingEndMoves ==
    ASSUME TypeOK, RingEndStep
    PROVE  VarMoves /\ PcMoves
  <1>1. PcMoves
    <2>1. ASSUME NEW c \in Cid, CancelArrives(c)
          PROVE  PcMoves
      BY <2>1, Tasks, GoesMoves DEF CancelArrives, Await, PcMoves, Picks
    <2>2. ASSUME NEW c \in Cid, CancelTerminates(c)
          PROVE  PcMoves
      BY <2>2, Tasks, GoesMoves DEF CancelTerminates, Ends, Await, WaitsAt, Picks
    <2>3. ASSUME NEW w \in DeclineReasons, DeclineStart(w)
          PROVE  PcMoves
      BY <2>3, Tasks, GoesMoves DEF DeclineStart, Await, PcMoves, Picks
    <2>4. CASE EchoGone
      <3>1. Decline("echo") \in Task
        BY Tasks DEF DeclineReasons
      <3>2. QED BY <2>4, <3>1, GoesMoves DEF EchoGone, Ends, WaitsAt, Picks
    <2>5. ASSUME NEW t \in RingEnders, RingEnds(t)
          PROVE  PcMoves
      BY <2>5, Tasks, GoesMoves DEF RingEnds, Await, Continues, Picks
    <2>6. ASSUME NEW t \in RingEnders, RingEndTells(t)
          PROVE  PcMoves
      BY <2>6, Tasks, GoesMoves DEF RingEndTells, Ends, Await, WaitsAt, Picks
    <2>7. ASSUME NEW t \in RingEnders, RingEndTold(t)
          PROVE  PcMoves
      BY <2>7, Tasks, GoesMoves DEF RingEndTold, Ends, WaitsAt, Picks
    <2>. QED BY <2>1, <2>2, <2>3, <2>4, <2>5, <2>6, <2>7 DEF RingEndStep
  <1>2. VarMoves
    <2>1. ASSUME NEW c \in Cid, CancelArrives(c)
          PROVE  VarMoves
      BY <2>1 DEF CancelArrives, VarMoves, lineVars, ringVars
    <2>2. ASSUME NEW c \in Cid, CancelTerminates(c)
          PROVE  VarMoves
      BY <2>2 DEF CancelTerminates, VarMoves, lineVars, TypeOK
    <2>3. ASSUME NEW w \in DeclineReasons, DeclineStart(w)
          PROVE  VarMoves
      BY <2>3 DEF DeclineStart, VarMoves, lineVars
    <2>4. CASE EchoGone
      BY <2>4 DEF EchoGone, VarMoves, lineVars, ringVars
    <2>5. ASSUME NEW t \in RingEnders, RingEnds(t)
          PROVE  VarMoves
      BY <2>5 DEF RingEnds, CloseRing, VarMoves, lineVars
    <2>6. ASSUME NEW t \in RingEnders, RingEndTells(t)
          PROVE  VarMoves
      BY <2>6 DEF RingEndTells, VarMoves, lineVars, ringVars
    <2>7. ASSUME NEW t \in RingEnders, RingEndTold(t)
          PROVE  VarMoves
      BY <2>7 DEF RingEndTold, VarMoves, lineVars, ringVars
    <2>. QED BY <2>1, <2>2, <2>3, <2>4, <2>5, <2>6, <2>7 DEF RingEndStep
  <1>. QED BY <1>1, <1>2

\* do_answer_incoming picks up its own ring, and is in a call with it.
LEMMA AnswerMoves ==
    ASSUME TypeOK, NEW c \in Cid, AnswerStep(c)
    PROVE  VarMoves /\ PcMoves
  <1>1. PcMoves
    <2>1. CASE AnswerStart(c)
      <3>1. Ringing(c) /\ \E l : pc' = [pc EXCEPT ![Answer(c)] = l]
        BY <2>1 DEF AnswerStart, Await, Continues
      <3>2. \A d \in Cid : d # c => Answer(d) # Answer(c)
        BY DEF Answer
      <3>3. QED BY <3>1, <3>2 DEF PcMoves
    <2>2. CASE AnswerConnects(c)
      BY <2>2, Tasks, GoesMoves DEF AnswerConnects, Await, Continues, Picks
    <2>3. CASE AnswerTells(c)
      <3>1. pc' = [pc EXCEPT ![Answer(c)] = "started"]
        BY <2>3 DEF AnswerTells, Await
      <3>2. QED BY <3>1, Tasks, GoesMoves DEF Picks
    <2>4. CASE AnswerTold(c)
      BY <2>4, Tasks, CancelMoves DEF AnswerTold, Picks
    <2>5. CASE AckArrives(c)
      <3>1. \A u \in Task : pc'[u] \in {pc[u], "spawned"}
        BY <2>5 DEF AckArrives
      <3>2. QED BY <3>1, Tasks DEF PcMoves, Picks
    <2>6. CASE AckOpens(c)
      BY <2>6, Tasks, GoesMoves, CancelMoves DEF AckOpens, Ends, WaitsAt, Picks
    <2>. QED BY <2>1, <2>2, <2>3, <2>4, <2>5, <2>6 DEF AnswerStep
  <1>2. VarMoves
    <2>1. CASE AnswerStart(c)
      BY <2>1 DEF AnswerStart, VarMoves, lineVars, TypeOK
    <2>2. CASE AnswerConnects(c)
      BY <2>2 DEF AnswerConnects, At, Answering, VarMoves, ringVars
    <2>3. CASE AnswerTells(c)
      BY <2>3 DEF AnswerTells, VarMoves, lineVars, ringVars
    <2>4. CASE AnswerTold(c)
      BY <2>4 DEF AnswerTold, VarMoves, lineVars, ringVars
    <2>5. CASE AckArrives(c)
      BY <2>5 DEF AckArrives, VarMoves, lineVars, ringVars
    <2>6. CASE AckOpens(c)
      BY <2>6 DEF AckOpens, VarMoves, ringVars
    <2>. QED BY <2>1, <2>2, <2>3, <2>4, <2>5, <2>6 DEF AnswerStep
  <1>. QED BY <1>1, <1>2

\* handle_incoming_bye lets go of the line.
LEMMA ByeMoves ==
    ASSUME TypeOK, NEW c \in Cid, ByeStep(c)
    PROVE  VarMoves /\ PcMoves
  <1>1. PcMoves
    <2>1. CASE ByeArrives(c)
      BY <2>1, Tasks, GoesMoves DEF ByeArrives, Await, PcMoves, Picks
    <2>2. CASE ByeEnds(c)
      BY <2>2, Tasks, GoesMoves DEF ByeEnds, Ends, Await, WaitsAt, Picks
    <2>3. CASE ByeTells(c)
      BY <2>3, Tasks, GoesMoves DEF ByeTells, Ends, Await, WaitsAt, Picks
    <2>4. CASE ByeTold(c)
      BY <2>4, Tasks, CancelMoves DEF ByeTold, Picks
    <2>. QED BY <2>1, <2>2, <2>3, <2>4 DEF ByeStep
  <1>2. VarMoves
    BY DEF ByeStep, ByeArrives, ByeEnds, ByeTells, ByeTold, ClearCallState, VarMoves,
       lineVars, ringVars
  <1>. QED BY <1>1, <1>2

\* The panel and the network do not touch the line.
LEMMA PanelMoves ==
    ASSUME TypeOK, Panel
    PROVE  VarMoves /\ PcMoves
  <1>1. PcMoves
    <2>1. ASSUME NEW o \in Outgoing, PanelAnswers(o)
          PROVE  PcMoves
      BY <2>1 DEF PanelAnswers, PanelActs, PcMoves
    <2>2. ASSUME NEW o \in Outgoing, PanelRejects(o)
          PROVE  PcMoves
      BY <2>2 DEF PanelRejects, PanelActs, PcMoves
    <2>3. ASSUME NEW o \in Outgoing, PanelAnswersAgain(o)
          PROVE  PcMoves
      BY <2>3 DEF PanelAnswersAgain, PanelActs, PcMoves
    <2>4. ASSUME NEW i \in Incoming, PanelRings(i)
          PROVE  PcMoves
      BY <2>4 DEF PanelRings, PanelActs, PcMoves
    <2>5. ASSUME NEW i \in Incoming, PanelRingsAgain(i)
          PROVE  PcMoves
      BY <2>5 DEF PanelRingsAgain, PanelActs, PcMoves
    <2>6. ASSUME NEW i \in Incoming, PanelCancels(i)
          PROVE  PcMoves
      BY <2>6 DEF PanelCancels, PanelActs, PcMoves
    <2>7. ASSUME NEW i \in Incoming, PanelAcks(i)
          PROVE  PcMoves
      BY <2>7 DEF PanelAcks, PanelActs, PcMoves
    <2>8. ASSUME NEW c \in Cid, PanelByes(c)
          PROVE  PcMoves
      BY <2>8 DEF PanelByes, PanelActs, PcMoves
    <2>9. ASSUME NEW c \in Cid, PanelReinvites(c)
          PROVE  PcMoves
      BY <2>9 DEF PanelReinvites, PanelActs, PcMoves
    <2>. QED BY <2>1, <2>2, <2>3, <2>4, <2>5, <2>6, <2>7, <2>8, <2>9 DEF Panel
  <1>2. VarMoves
    BY DEF Panel, PanelAnswers, PanelRejects, PanelAnswersAgain, PanelRings,
       PanelRingsAgain, PanelCancels, PanelAcks, PanelByes, PanelReinvites, PanelActs,
       VarMoves, lineVars, ringVars
  <1>. QED BY <1>1, <1>2

\* Every step moves the line in one of these ways.
LEMMA NextMoves ==
    ASSUME TypeOK, [Next]_vars
    PROVE  VarMoves /\ PcMoves
  <1>1. CASE UNCHANGED vars
    BY <1>1 DEF vars, lineVars, ringVars, VarMoves, PcMoves
  <1>2. CASE Next
    BY <1>2, CallMoves, HangupMoves, TimerMoves, InviteMoves, RingEndMoves, AnswerMoves,
       ByeMoves, PanelMoves DEF Next
  <1>3. QED BY <1>1, <1>2

\* Who picks up does so for the ring that was closed last: its own.
AnswerInv == \A c \in Cid : Answering(c) => ring.cid = c

\* Between the 200 and in_call the handler holds the loop, the line is free and the ring closed.
LEMMA AnswerHolds ==
    ASSUME HandlerInv, NEW c \in Cid, Answering(c)
    PROVE  loop # None /\ ~Busy /\ ~ring.active
  BY Tasks, NoneAssumption DEF HandlerInv, LoopInv, LineInv, Answering, Unbroken

\* Until then nobody else rings or picks up.
LEMMA AnswerKept ==
    ASSUME TypeOK, HandlerInv, AnswerInv, VarMoves, PcMoves
    PROVE  AnswerInv'
  <1>. SUFFICES ASSUME NEW c \in Cid, Answering(c)'
                PROVE  ring'.cid = c
    BY DEF AnswerInv
  <1>1. Answering(c) \/ Ringing(c)
    BY DEF PcMoves, Picks, Answering
  <1>2. CASE Answering(c)
    BY <1>2, AnswerHolds DEF AnswerInv, VarMoves
  <1>3. CASE Ringing(c)
    BY <1>3 DEF VarMoves, Ringing
  <1>4. QED BY <1>1, <1>2, <1>3

\* The uses IntercomLine knows, one by one.
UseIs == LET rings == ring.active \/ \E c \in Cid : Answering(c) IN
    /\ in_call => Use = "talking" /\ User = call_id
    /\ ~in_call /\ calling => Use = "calling" /\ User = call_id
    /\ ~Busy /\ rings => Use = "ringing" /\ User = ring.cid
    /\ ~Busy /\ ~rings => Use = "idle" /\ User = None

\* The mapping of IntercomLine takes each of them to its user.
LEMMA Uses == UseIs /\ UseIs'
  <1>1. UseIs
    BY DEF UseIs, Use, User, Busy
  <1>2. UseIs'
    BY DEF UseIs, Use, User, Busy
  <1>3. QED BY <1>1, <1>2

\* A step that moves the line so is one of IntercomLine's, a stutter, or a call that forgets who
\* holds it.
LEMMA KeptStep ==
    ASSUME TypeOK, HandlerInv, HandlerInv', AnswerInv, VarMoves, PcMoves
    PROVE  ForgetfulStep
  <1>. DEFINE Picking == \E c \in Cid : Answering(c)
  <1>1. Picking => loop # None /\ ~Busy /\ ~ring.active
    BY AnswerHolds
  <1>2. Picking' => (~Busy /\ ~ring.active)'
    BY Tasks DEF HandlerInv, LineInv, Answering
  <1>3. Picking' => Picking \/ ring.active
    BY DEF PcMoves, Picks, Answering, Ringing
  <1>4. LineExclusive /\ LineExclusive'
    BY DEF HandlerInv, LineInv
  <1>5. UseIs /\ UseIs'
    BY Uses
  <1>. USE DEF Line!Next, Line!vars, Line!Taken, Line!PickedUp, Line!Freed, Line!Forgotten
  <1>6. CASE in_call
    <2>1. Use = "talking" /\ User = call_id
      BY <1>5, <1>6 DEF UseIs
    <2>2. in_call' => Use' = "talking" /\ User' \in {call_id, None}
      BY <1>1, <1>5, <1>6 DEF UseIs, VarMoves
    <2>3. ~in_call' => Use' = "idle" /\ User' = None
      BY <1>1, <1>3, <1>4, <1>5, <1>6 DEF UseIs, VarMoves, Busy, LineExclusive
    <2>4. QED BY <2>1, <2>2, <2>3 DEF ForgetfulStep
  <1>7. CASE calling
    <2>1. Use = "calling" /\ User = call_id
      BY <1>4, <1>5, <1>7 DEF UseIs, LineExclusive
    <2>2. in_call' => Use' = "talking" /\ User' = call_id
      BY <1>1, <1>4, <1>5, <1>7 DEF UseIs, VarMoves, LineExclusive
    <2>3. ~in_call' /\ calling' => Use' = "calling" /\ User' \in {call_id, None}
      BY <1>1, <1>5, <1>7 DEF UseIs, VarMoves
    <2>4. ~in_call' /\ ~calling' => Use' = "idle" /\ User' = None
      BY <1>1, <1>3, <1>4, <1>5, <1>7 DEF UseIs, VarMoves, Busy, LineExclusive
    <2>5. QED BY <2>1, <2>2, <2>3, <2>4 DEF ForgetfulStep
  <1>8. CASE ~Busy /\ (ring.active \/ Picking)
    <2>1. Use = "ringing" /\ User = ring.cid
      BY <1>5, <1>8 DEF UseIs
    <2>2. in_call' => Use' = "talking" /\ User' = ring.cid
      BY <1>5, <1>8 DEF UseIs, VarMoves, AnswerInv
    <2>3. ~calling'
      BY <1>1, <1>8 DEF VarMoves, Busy
    <2>4. ~in_call' /\ (ring.active \/ Picking)' => Use' = "ringing" /\ User' = ring.cid
      BY <1>1, <1>5, <1>8 DEF UseIs, VarMoves, Busy
    <2>5. ~in_call' /\ ~(ring.active \/ Picking)' => Use' = "idle" /\ User' = None
      BY <1>5, <2>3 DEF UseIs, Busy
    <2>6. QED BY <2>1, <2>2, <2>4, <2>5 DEF ForgetfulStep
  <1>9. CASE ~Busy /\ ~ring.active /\ ~Picking
    <2>1. Use = "idle" /\ User = None
      BY <1>5, <1>9 DEF UseIs
    <2>2. ~in_call' /\ ~Picking'
      BY <1>3, <1>9 DEF VarMoves, Busy
    <2>3. calling' => Use' = "calling" /\ User' \in Cid
      BY <1>5, <1>9 DEF UseIs, VarMoves
    <2>4. ~calling' /\ ring'.active => Use' = "ringing" /\ User' \in Cid
      BY <1>5, <1>9 DEF UseIs, VarMoves, Busy
    <2>5. ~calling' /\ ~ring'.active => Use' = "idle" /\ User' = None
      BY <1>5, <2>2 DEF UseIs, Busy
    <2>6. QED BY <2>1, <2>3, <2>4, <2>5 DEF ForgetfulStep
  <1>. QED BY <1>6, <1>7, <1>8, <1>9 DEF Busy

\* At first the line is idle.
LEMMA InitUse == Init => Use = "idle" /\ User = None
  <1>. SUFFICES ASSUME Init PROVE Use = "idle" /\ User = None
    OBVIOUS
  <1>1. ~Busy /\ ~ring.active
    BY DEF Init, Busy
  <1>2. \A c \in Cid : ~Answering(c)
    BY Tasks DEF Init, Answering
  <1>3. QED BY <1>1, <1>2, Uses DEF UseIs

\* At first nobody picks up.
LEMMA InitAnswer == Init => AnswerInv
  BY Tasks DEF Init, AnswerInv, Answering

\* SipCall implements IntercomLine (_in_call, _calling and the ring as one line with one user), but
\* that a call may lose its user's name (ForgetfulSpec: _clear_call_state of a call that was
\* annulled): the line never passes from one user to another without being free, whatever arrives in whatever
\* order (KeepsToTheLine). It is assumed that sending and the RTCP probes do not suspend.
THEOREM NeverHandedOver == ASSUME Unsuspended PROVE Spec => KeepsToTheLine
  <1>0. Init => Line!Init
    BY InitUse DEF Line!Init
  <1>1. TypeOK /\ HandlerInv /\ AnswerInv /\ [Next]_vars => AnswerInv'
    BY NextMoves, AnswerKept
  <1>2. TypeOK /\ HandlerInv /\ HandlerInv' /\ AnswerInv /\ [Next]_vars => ForgetfulStep
    BY NextMoves, KeptStep
  <1>3. QED BY InitAnswer, TypeCorrect, HandlersAgree, <1>0, <1>1, <1>2, PTL DEF Spec,
               KeepsToTheLine, Line!ForgetfulSpec, ForgetfulStep

-----------------------------------------------------------------------------
(* The final response.                                                       *)

\* A ring that is on has had only provisional answers, unless the handler that runs gave
\* the final one and is about to close it.
ProvisionalInv == ring.active => ring.resp = "1xx" \/ \E t \in Task : pc[t] = "terminated"

\* The ring that is on is closed, with the response it was given.
Closes(t) == ~ring'.active /\ ring'.cid = ring.cid /\ ring'.resp = ring.resp
\* What may happen while a handler that gave a final response is about to close the ring.
ClosingMoves(t) == UNCHANGED <<ring, pc>> \/ Closes(t)
\* What may happen to the response otherwise: a new ring begins with a provisional one; a ring that
\* is on keeps its own, or a handler is about to close it.
RingMoves ==
    /\ ~ring.active => ring'.cid # ring.cid \/ ring'.resp = ring.resp
    /\ ring'.active => \/ ring.active /\ ring'.resp = ring.resp
                       \/ ring'.resp = "1xx"
                       \/ \E t \in Task : pc'[t] = "terminated"

\* While a ring is about to be closed, do_call waits.
LEMMA CallClosing ==
    ASSUME TypeOK, NEW u \in Task, loop = u, pc[u] = "terminated", NEW o \in Outgoing, CallStep(o)
    PROVE  ClosingMoves(u)
  BY NoneAssumption DEF CallStep, CallStart, CallListens, CallRetransmits, CallCancelled,
     CallRejected, CallTimesOut, CallAnswered, CallOpensMedia, CallConnects, CallStarted,
     CallAnnulled, CallForgotten, CallLeaves, DispatchFinal, At, Free, Idle, Waiting, Reads

\* do_call gives a ring no response.
LEMMA CallRing ==
    ASSUME TypeOK, ~SendFails, NEW o \in Outgoing, CallStep(o)
    PROVE  RingMoves
  BY DEF CallStep, CallStart, CallListens, CallRetransmits, CallCancelled, CallRejected,
     CallTimesOut, CallAnswered, CallOpensMedia, CallConnects, CallStarted, CallAnnulled,
     CallForgotten, CallLeaves, DispatchFinal, RingMoves, ringVars

\* So does do_hangup.
LEMMA HangupClosing ==
    ASSUME TypeOK, NEW u \in Task, loop = u, pc[u] = "terminated", NEW h \in HangupIds, HangupStep(h)
    PROVE  ClosingMoves(u)
  <1>1. CASE HangupAsked(h)
    BY <1>1, NoneAssumption DEF HangupAsked, Free, Idle
  <1>2. CASE HangupStart(h)
    BY <1>2, NoneAssumption DEF HangupStart, At
  <1>3. CASE HangupTells(h)
    BY <1>3, NoneAssumption DEF HangupTells, At
  <1>4. CASE HangupTold(h)
    BY <1>4, NoneAssumption DEF HangupTold, At
  <1>5. CASE HangupByes(h)
    BY <1>5, NoneAssumption DEF HangupByes, At
  <1>6. CASE HangupRetransmits(h)
    BY <1>6 DEF HangupRetransmits, ClosingMoves, ringVars
  <1>7. CASE HangupDone(h)
    BY <1>7, NoneAssumption DEF HangupDone
  <1>. QED BY <1>1, <1>2, <1>3, <1>4, <1>5, <1>6, <1>7 DEF HangupStep

\* Nor does do_hangup.
LEMMA HangupRing ==
    ASSUME TypeOK, ~SendFails, NEW h \in HangupIds, HangupStep(h)
    PROVE  RingMoves
  <1>1. CASE HangupAsked(h)
    BY <1>1 DEF HangupAsked, RingMoves, ringVars
  <1>2. CASE HangupStart(h)
    BY <1>2 DEF HangupStart, EndsLocally, RingMoves, ringVars
  <1>3. CASE HangupTells(h)
    BY <1>3 DEF HangupTells, RingMoves, ringVars
  <1>4. CASE HangupTold(h)
    BY <1>4 DEF HangupTold, RingMoves, ringVars
  <1>5. CASE HangupByes(h)
    BY <1>5 DEF HangupByes, RingMoves, ringVars
  <1>6. CASE HangupRetransmits(h)
    BY <1>6 DEF HangupRetransmits, RingMoves, ringVars
  <1>7. CASE HangupDone(h)
    BY <1>7 DEF HangupDone, RingMoves, ringVars
  <1>. QED BY <1>1, <1>2, <1>3, <1>4, <1>5, <1>6, <1>7 DEF HangupStep

\* So does the hub's timer.
LEMMA TimerClosing ==
    ASSUME TypeOK, NEW u \in Task, loop = u, pc[u] = "terminated", TimerFires \/ HangupCut
    PROVE  ClosingMoves(u)
  <1>1. CASE TimerFires
    BY <1>1, NoneAssumption DEF TimerFires, Free, Idle
  <1>2. CASE HangupCut
    BY <1>2, NoneAssumption DEF HangupCut, At
  <1>. QED BY <1>1, <1>2

\* Nor does the hub's timer.
LEMMA TimerRing ==
    ASSUME TypeOK, ~SendFails, TimerFires \/ HangupCut
    PROVE  RingMoves
  <1>1. CASE TimerFires
    BY <1>1 DEF TimerFires, EndsLocally, RingMoves, ringVars
  <1>2. CASE HangupCut
    BY <1>2 DEF HangupCut, RingMoves, ringVars
  <1>. QED BY <1>1, <1>2

\* So does the handler of an INVITE.
LEMMA InviteClosing ==
    ASSUME TypeOK, NEW u \in Task, loop = u, pc[u] = "terminated", NEW c \in Cid, InviteStep(c)
    PROVE  ClosingMoves(u)
  <1>1. ASSUME NEW type \in {"INVITE", "re-INVITE"}, InviteRings(c, type)
        PROVE  ClosingMoves(u)
    BY <1>1, NoneAssumption DEF InviteRings, Free, Idle
  <1>2. ASSUME NEW type \in {"INVITE", "re-INVITE"}, InviteRepeats(c, type)
        PROVE  ClosingMoves(u)
    BY <1>2 DEF InviteRepeats, ClosingMoves, ringVars
  <1>3. CASE InvitePreviews(c)
    BY <1>3, NoneAssumption DEF InvitePreviews, OpenMedia, At
  <1>4. CASE InviteChecks(c)
    BY <1>4, NoneAssumption DEF InviteChecks, At
  <1>5. CASE InviteTells(c)
    BY <1>5, NoneAssumption DEF InviteTells, At
  <1>6. CASE InviteTold(c)
    BY <1>6, NoneAssumption DEF InviteTold, At
  <1>7. CASE ReinviteAgrees(c)
    BY <1>7, NoneAssumption DEF ReinviteAgrees, Free, Idle
  <1>8. CASE ReinviteOpens(c)
    BY <1>8, NoneAssumption DEF ReinviteOpens, At
  <1>. QED BY <1>1, <1>2, <1>3, <1>4, <1>5, <1>6, <1>7, <1>8 DEF InviteStep

\* An INVITE begins a ring with 180; a repeated one gets the response there is.
LEMMA InviteRing ==
    ASSUME TypeOK, ~SendFails, NEW c \in Cid, InviteStep(c)
    PROVE  RingMoves
  <1>1. ASSUME NEW type \in {"INVITE", "re-INVITE"}, InviteRings(c, type)
        PROVE  RingMoves
    BY <1>1 DEF InviteRings, RingMoves
  <1>2. ASSUME NEW type \in {"INVITE", "re-INVITE"}, InviteRepeats(c, type)
        PROVE  RingMoves
    BY <1>2 DEF InviteRepeats, RingMoves, ringVars
  <1>3. CASE InvitePreviews(c)
    BY <1>3 DEF InvitePreviews, RingMoves, ringVars
  <1>4. CASE InviteChecks(c)
    BY <1>4 DEF InviteChecks, RingMoves, TypeOK
  <1>5. CASE InviteTells(c)
    BY <1>5 DEF InviteTells, RingMoves
  <1>6. CASE InviteTold(c)
    BY <1>6 DEF InviteTold, RingMoves, ringVars
  <1>7. CASE ReinviteAgrees(c)
    BY <1>7 DEF ReinviteAgrees, RingMoves, ringVars
  <1>8. CASE ReinviteOpens(c)
    BY <1>8 DEF ReinviteOpens, RingMoves, ringVars
  <1>. QED BY <1>1, <1>2, <1>3, <1>4, <1>5, <1>6, <1>7, <1>8 DEF InviteStep

\* The end of a ring closes it.
LEMMA RingEndClosing ==
    ASSUME TypeOK, NEW u \in Task, loop = u, pc[u] = "terminated", RingEndStep
    PROVE  ClosingMoves(u)
  <1>1. ASSUME NEW c \in Cid, CancelArrives(c)
        PROVE  ClosingMoves(u)
    BY <1>1, NoneAssumption DEF CancelArrives, Free, Idle
  <1>2. ASSUME NEW c \in Cid, CancelTerminates(c)
        PROVE  ClosingMoves(u)
    BY <1>2, NoneAssumption DEF CancelTerminates, At
  <1>3. ASSUME NEW w \in DeclineReasons, DeclineStart(w)
        PROVE  ClosingMoves(u)
    BY <1>3, NoneAssumption DEF DeclineStart, At, Free, Idle
  <1>4. CASE EchoGone
    BY <1>4 DEF EchoGone, ClosingMoves, Closes, ringVars
  <1>5. ASSUME NEW t \in RingEnders, RingEnds(t)
        PROVE  ClosingMoves(u)
    BY <1>5 DEF RingEnds, ClosingMoves, Closes, CloseRing
  <1>6. ASSUME NEW t \in RingEnders, RingEndTells(t)
        PROVE  ClosingMoves(u)
    BY <1>6, NoneAssumption DEF RingEndTells, At
  <1>7. ASSUME NEW t \in RingEnders, RingEndTold(t)
        PROVE  ClosingMoves(u)
    BY <1>7, NoneAssumption DEF RingEndTold, At
  <1>. QED BY <1>1, <1>2, <1>3, <1>4, <1>5, <1>6, <1>7 DEF RingEndStep

\* A CANCEL or a decline gives the final response of its ring and is about to close it.
LEMMA RingEndRing ==
    ASSUME TypeOK, ~SendFails, RingEndStep
    PROVE  RingMoves
  <1>1. ASSUME NEW c \in Cid, CancelArrives(c)
        PROVE  RingMoves
    BY <1>1 DEF CancelArrives, RingMoves, ringVars
  <1>2. ASSUME NEW c \in Cid, CancelTerminates(c)
        PROVE  RingMoves
    BY <1>2, Tasks DEF CancelTerminates, RingMoves, Ringing, TypeOK, Await
  <1>3. ASSUME NEW w \in DeclineReasons, DeclineStart(w)
        PROVE  RingMoves
    BY <1>3, Tasks DEF DeclineStart, RingMoves, TypeOK, Await
  <1>4. CASE EchoGone
    BY <1>4 DEF EchoGone, RingMoves, ringVars
  <1>5. ASSUME NEW t \in RingEnders, RingEnds(t)
        PROVE  RingMoves
    BY <1>5 DEF RingEnds, RingMoves, CloseRing
  <1>6. ASSUME NEW t \in RingEnders, RingEndTells(t)
        PROVE  RingMoves
    BY <1>6 DEF RingEndTells, RingMoves, ringVars
  <1>7. ASSUME NEW t \in RingEnders, RingEndTold(t)
        PROVE  RingMoves
    BY <1>7 DEF RingEndTold, RingMoves, ringVars
  <1>. QED BY <1>1, <1>2, <1>3, <1>4, <1>5, <1>6, <1>7 DEF RingEndStep

\* An answer waits for the loop.
LEMMA AnswerClosing ==
    ASSUME TypeOK, NEW u \in Task, loop = u, pc[u] = "terminated", NEW c \in Cid, AnswerStep(c)
    PROVE  ClosingMoves(u)
  <1>1. CASE AnswerStart(c)
    BY <1>1, NoneAssumption DEF AnswerStart, Free, Idle
  <1>2. CASE AnswerConnects(c)
    BY <1>2, NoneAssumption DEF AnswerConnects, At
  <1>3. CASE AnswerTells(c)
    BY <1>3, NoneAssumption DEF AnswerTells, At
  <1>4. CASE AnswerTold(c)
    BY <1>4, NoneAssumption DEF AnswerTold, At
  <1>5. CASE AckArrives(c)
    BY <1>5, NoneAssumption DEF AckArrives, Free, Idle
  <1>6. CASE AckOpens(c)
    BY <1>6, NoneAssumption DEF AckOpens, At
  <1>. QED BY <1>1, <1>2, <1>3, <1>4, <1>5, <1>6 DEF AnswerStep

\* The 200 goes to a ring that is on, which is closed with it.
LEMMA AnswerRing ==
    ASSUME TypeOK, ~SendFails, NEW c \in Cid, AnswerStep(c)
    PROVE  RingMoves
  <1>1. CASE AnswerStart(c)
    BY <1>1 DEF AnswerStart, RingMoves, Ringing, TypeOK
  <1>2. CASE AnswerConnects(c)
    BY <1>2 DEF AnswerConnects, RingMoves, ringVars
  <1>3. CASE AnswerTells(c)
    BY <1>3 DEF AnswerTells, RingMoves, ringVars
  <1>4. CASE AnswerTold(c)
    BY <1>4 DEF AnswerTold, RingMoves, ringVars
  <1>5. CASE AckArrives(c)
    BY <1>5 DEF AckArrives, RingMoves, ringVars
  <1>6. CASE AckOpens(c)
    BY <1>6 DEF AckOpens, RingMoves, ringVars
  <1>. QED BY <1>1, <1>2, <1>3, <1>4, <1>5, <1>6 DEF AnswerStep

\* A BYE waits for the loop.
LEMMA ByeClosing ==
    ASSUME TypeOK, NEW u \in Task, loop = u, pc[u] = "terminated", NEW c \in Cid, ByeStep(c)
    PROVE  ClosingMoves(u)
  <1>1. CASE ByeArrives(c)
    BY <1>1, NoneAssumption DEF ByeArrives, Free, Idle
  <1>2. CASE ByeEnds(c)
    BY <1>2, NoneAssumption DEF ByeEnds, At
  <1>3. CASE ByeTells(c)
    BY <1>3, NoneAssumption DEF ByeTells, At
  <1>4. CASE ByeTold(c)
    BY <1>4, NoneAssumption DEF ByeTold, At
  <1>. QED BY <1>1, <1>2, <1>3, <1>4 DEF ByeStep

\* A BYE gives a ring no response.
LEMMA ByeRing ==
    ASSUME TypeOK, ~SendFails, NEW c \in Cid, ByeStep(c)
    PROVE  RingMoves
  <1>1. CASE ByeArrives(c)
    BY <1>1 DEF ByeArrives, RingMoves, ringVars
  <1>2. CASE ByeEnds(c)
    BY <1>2 DEF ByeEnds, RingMoves, ringVars
  <1>3. CASE ByeTells(c)
    BY <1>3 DEF ByeTells, RingMoves, ringVars
  <1>4. CASE ByeTold(c)
    BY <1>4 DEF ByeTold, RingMoves, ringVars
  <1>. QED BY <1>1, <1>2, <1>3, <1>4 DEF ByeStep

\* The panel may act, and changes neither the ring nor who runs.
LEMMA PanelClosing ==
    ASSUME TypeOK, NEW u \in Task, loop = u, pc[u] = "terminated", Panel
    PROVE  ClosingMoves(u)
  BY DEF Panel, PanelAnswers, PanelRejects, PanelAnswersAgain, PanelRings, PanelRingsAgain,
     PanelCancels, PanelAcks, PanelByes, PanelReinvites, ClosingMoves, ringVars, PanelActs

\* The panel gives none itself.
LEMMA PanelRing ==
    ASSUME TypeOK, ~SendFails, Panel
    PROVE  RingMoves
  BY DEF Panel, PanelAnswers, PanelRejects, PanelAnswersAgain, PanelRings, PanelRingsAgain,
     PanelCancels, PanelAcks, PanelByes, PanelReinvites, RingMoves, ringVars, PanelActs

\* While a ring is about to be closed, every step leaves it as it is or closes it.
LEMMA NextClosing ==
    ASSUME TypeOK, NEW u \in Task, loop = u, pc[u] = "terminated", [Next]_vars
    PROVE  ClosingMoves(u)
  <1>1. CASE UNCHANGED vars
    BY <1>1 DEF vars, ringVars, ClosingMoves
  <1>2. CASE Next
    BY <1>2, CallClosing, HangupClosing, TimerClosing, InviteClosing, RingEndClosing,
       AnswerClosing, ByeClosing, PanelClosing DEF Next
  <1>3. QED BY <1>1, <1>2

\* With every send successful, a response changes only so.
LEMMA NextRing ==
    ASSUME TypeOK, ~SendFails, [Next]_vars
    PROVE  RingMoves
  <1>1. CASE UNCHANGED vars
    BY <1>1 DEF vars, ringVars, RingMoves
  <1>2. CASE Next
    BY <1>2, CallRing, HangupRing, TimerRing, InviteRing, RingEndRing, AnswerRing, ByeRing,
       PanelRing DEF Next
  <1>3. QED BY <1>1, <1>2

\* A final response stays, and only provisional ones are followed by another.
LEMMA RingStep ==
    ASSUME TypeOK, HandlerInv, ProvisionalInv, ~SendFails, [Next]_vars
    PROVE  ProvisionalInv' /\ KeepsFinal
  <1>1. CASE \E u \in Task : pc[u] = "terminated"
    <2>1. PICK u \in Task : pc[u] = "terminated"
      BY <1>1
    <2>2. loop = u
      BY <2>1 DEF HandlerInv, LoopInv, Unbroken
    <2>3. ClosingMoves(u)
      BY <2>1, <2>2, NextClosing
    <2>4. QED BY <2>3 DEF ClosingMoves, Closes, ProvisionalInv, KeepsFinal
  <1>2. CASE ~\E u \in Task : pc[u] = "terminated"
    BY <1>2, NextRing DEF RingMoves, ProvisionalInv, KeepsFinal
  <1>3. QED BY <1>1, <1>2

\* A ring answers each INVITE once for good: after a final response none of another kind is sent
\* (FinalIsFinal), provided that no send fails, and sending and the RTCP probes do not suspend.
THEOREM FinalKept == ASSUME Unsuspended, ~SendFails PROVE Spec => FinalIsFinal
  <1>1. Init => ProvisionalInv
    BY DEF Init, ProvisionalInv
  <1>2. TypeOK /\ HandlerInv /\ ProvisionalInv /\ [Next]_vars => ProvisionalInv' /\ KeepsFinal
    BY RingStep
  <1>3. QED BY TypeCorrect, HandlersAgree, <1>1, <1>2, PTL DEF Spec, FinalIsFinal

-----------------------------------------------------------------------------
(* What takes the line will end.                                            *)

\* While a task holds the event loop, do_call goes on only if it is that task.
LEMMA CallHeld ==
    ASSUME TypeOK, NEW u \in Task, loop = u, NEW o \in Outgoing, CallStep(o)
    PROVE  u = Call(o)
  BY NoneAssumption DEF CallStep, CallStart, CallListens, CallRetransmits, CallCancelled,
     CallRejected, CallTimesOut, CallAnswered, CallOpensMedia, CallConnects, CallStarted,
     CallAnnulled, CallForgotten, CallLeaves, DispatchFinal, At, Free, Idle, Waiting, Reads

\* So does do_hangup.
LEMMA HangupHeld ==
    ASSUME TypeOK, NEW u \in Task, loop = u, NEW h \in HangupIds, HangupStep(h)
    PROVE  u = Hangup(h)
  BY NoneAssumption DEF HangupStep, HangupAsked, HangupStart, HangupTells, HangupTold, HangupByes,
     HangupRetransmits, HangupDone, At, Free, Idle

\* So does the hub's timer.
LEMMA TimerHeld ==
    ASSUME TypeOK, NEW u \in Task, loop = u, TimerFires \/ HangupCut
    PROVE  u = Timer /\ HangupCut
  BY NoneAssumption DEF TimerFires, HangupCut, At, Free, Idle

\* So does the handler of an INVITE.
LEMMA InviteHeld ==
    ASSUME TypeOK, NEW u \in Task, loop = u, NEW c \in Cid, InviteStep(c)
    PROVE  u \in {Invite(c), Reinvite(c)}
  BY NoneAssumption DEF InviteStep, InviteRings, InviteRepeats, InvitePreviews, InviteChecks,
     InviteTells, InviteTold, ReinviteAgrees, ReinviteOpens, At, Free, Idle

\* So does who ends a ring.
LEMMA RingEndHeld ==
    ASSUME TypeOK, NEW u \in Task, loop = u, RingEndStep
    PROVE  u \in RingEnders
  BY NoneAssumption DEF RingEndStep, CancelArrives, CancelTerminates, DeclineStart, EchoGone,
     RingEnds, RingEndTells, RingEndTold, At, Free, Idle, RingEnders, DeclineReasons

\* So does an answer.
LEMMA AnswerHeld ==
    ASSUME TypeOK, NEW u \in Task, loop = u, NEW c \in Cid, AnswerStep(c)
    PROVE  u \in {Answer(c), Ack(c)}
  BY NoneAssumption DEF AnswerStep, AnswerStart, AnswerConnects, AnswerTells, AnswerTold,
     AckArrives, AckOpens, At, Free, Idle

\* So does the handler of a BYE.
LEMMA ByeHeld ==
    ASSUME TypeOK, NEW u \in Task, loop = u, NEW c \in Cid, ByeStep(c)
    PROVE  u = Bye(c)
  BY NoneAssumption DEF ByeStep, ByeArrives, ByeEnds, ByeTells, ByeTold, At, Free, Idle

\* Whoever holds the loop goes on, or it is the panel that acts.
LEMMA HeldByCall ==
    ASSUME TypeOK, NEW o \in Outgoing, loop = Call(o), [Next]_vars
    PROVE  CallStep(o) \/ Panel \/ UNCHANGED vars
  <1>1. Call(o) \in Task
    BY Tasks
  <1>2. ASSUME NEW p \in Outgoing, CallStep(p) PROVE CallStep(o)
    BY <1>1, <1>2, CallHeld DEF Call
  <1>3. \A h \in HangupIds : ~HangupStep(h)
    BY <1>1, HangupHeld DEF Call, Hangup
  <1>4. ~(TimerFires \/ HangupCut)
    BY <1>1, TimerHeld DEF Call, Timer, Hangup
  <1>5. \A c \in Cid : ~InviteStep(c)
    BY <1>1, InviteHeld DEF Call, Invite, Reinvite
  <1>6. \A c \in Cid : ~AnswerStep(c)
    BY <1>1, AnswerHeld DEF Call, Answer, Ack
  <1>7. \A c \in Cid : ~ByeStep(c)
    BY <1>1, ByeHeld DEF Call, Bye
  <1>8. ~RingEndStep
    BY <1>1, RingEndHeld DEF Call, RingEnders, Cancel, Answer, Decline
  <1>. QED BY <1>2, <1>3, <1>4, <1>5, <1>6, <1>7, <1>8 DEF Next

\* So does the handler of an INVITE.
LEMMA HeldByInvite ==
    ASSUME TypeOK, NEW c \in Cid, loop = Invite(c), [Next]_vars
    PROVE  InviteStep(c) \/ Panel \/ UNCHANGED vars
  <1>1. Invite(c) \in Task
    BY Tasks
  <1>2. ASSUME NEW d \in Cid, InviteStep(d) PROVE InviteStep(c)
    BY <1>1, <1>2, InviteHeld DEF Invite, Reinvite
  <1>3. \A h \in HangupIds : ~HangupStep(h)
    BY <1>1, HangupHeld DEF Invite, Hangup
  <1>4. ~(TimerFires \/ HangupCut)
    BY <1>1, TimerHeld DEF Invite, Timer, Hangup
  <1>5. \A o \in Outgoing : ~CallStep(o)
    BY <1>1, CallHeld DEF Call, Invite
  <1>6. \A d \in Cid : ~AnswerStep(d)
    BY <1>1, AnswerHeld DEF Invite, Answer, Ack
  <1>7. \A d \in Cid : ~ByeStep(d)
    BY <1>1, ByeHeld DEF Invite, Bye
  <1>8. ~RingEndStep
    BY <1>1, RingEndHeld DEF Invite, RingEnders, Cancel, Answer, Decline
  <1>. QED BY <1>2, <1>3, <1>4, <1>5, <1>6, <1>7, <1>8 DEF Next

\* So does the handler of a BYE.
LEMMA HeldByBye ==
    ASSUME TypeOK, NEW c \in Cid, loop = Bye(c), [Next]_vars
    PROVE  ByeStep(c) \/ Panel \/ UNCHANGED vars
  <1>1. Bye(c) \in Task
    BY Tasks
  <1>2. ASSUME NEW d \in Cid, ByeStep(d) PROVE ByeStep(c)
    BY <1>1, <1>2, ByeHeld DEF Bye
  <1>3. \A h \in HangupIds : ~HangupStep(h)
    BY <1>1, HangupHeld DEF Bye, Hangup
  <1>4. ~(TimerFires \/ HangupCut)
    BY <1>1, TimerHeld DEF Bye, Timer, Hangup
  <1>5. \A o \in Outgoing : ~CallStep(o)
    BY <1>1, CallHeld DEF Call, Bye
  <1>6. \A d \in Cid : ~AnswerStep(d)
    BY <1>1, AnswerHeld DEF Bye, Answer, Ack
  <1>7. \A d \in Cid : ~InviteStep(d)
    BY <1>1, InviteHeld DEF Invite, Bye, Reinvite
  <1>8. ~RingEndStep
    BY <1>1, RingEndHeld DEF Bye, RingEnders, Cancel, Answer, Decline
  <1>. QED BY <1>2, <1>3, <1>4, <1>5, <1>6, <1>7, <1>8 DEF Next

\* So does do_hangup, unless it is the hub's timer and is cut.
LEMMA HeldByHangup ==
    ASSUME TypeOK, NEW h \in HangupIds, loop = Hangup(h), [Next]_vars
    PROVE  HangupStep(h) \/ HangupCut \/ Panel \/ UNCHANGED vars
  <1>1. Hangup(h) \in Task
    BY Tasks
  <1>2. ASSUME NEW g \in HangupIds, HangupStep(g) PROVE HangupStep(h)
    BY <1>1, <1>2, HangupHeld DEF Hangup
  <1>3. TimerFires => HangupCut
    BY <1>1, TimerHeld
  <1>4. \A c \in Cid : ~ByeStep(c)
    BY <1>1, ByeHeld DEF Bye, Hangup
  <1>5. \A o \in Outgoing : ~CallStep(o)
    BY <1>1, CallHeld DEF Call, Hangup
  <1>6. \A d \in Cid : ~AnswerStep(d)
    BY <1>1, AnswerHeld DEF Hangup, Answer, Ack
  <1>7. \A d \in Cid : ~InviteStep(d)
    BY <1>1, InviteHeld DEF Invite, Hangup, Reinvite
  <1>8. ~RingEndStep
    BY <1>1, RingEndHeld DEF Hangup, RingEnders, Cancel, Answer, Decline
  <1>. QED BY <1>2, <1>3, <1>4, <1>5, <1>6, <1>7, <1>8 DEF Next

-----------------------------------------------------------------------------
\* A step moves only tasks of T, and may stop the hang-up of the hub's timer.
Only(T) == \A u \in Task \ T : pc'[u] = pc[u] \/ (u = Timer /\ pc'[u] = "idle")

\* A handler goes on elsewhere.
LEMMA GoesOnly ==
    ASSUME TypeOK, NEW t \in Task, NEW T, t \in T, NEW l, pc' = [pc EXCEPT ![t] = l]
    PROVE  Only(T)
  BY DEF Only, TypeOK

\* So does one that cancels the hub's timer.
LEMMA CancelOnly ==
    ASSUME TypeOK, NEW t \in Task, NEW T, t \in T, NEW l, CancelCallTimer(t, l)
    PROVE  Only(T)
  BY DEF Only, TypeOK, CancelCallTimer

\* do_call moves itself.
LEMMA CallOnly ==
    ASSUME TypeOK, NEW o \in Outgoing, CallStep(o)
    PROVE  Only({Call(o)})
  <1>0. Call(o) \in Task
    BY Tasks
  <1>1. CASE UNCHANGED pc
    BY <1>1 DEF Only
  <1>2. CASE \E l : pc' = [pc EXCEPT ![Call(o)] = l]
    BY <1>0, <1>2, GoesOnly
  <1>3. CASE \E l : CancelCallTimer(Call(o), l)
    BY <1>0, <1>3, CancelOnly
  <1>4. UNCHANGED pc \/ (\E l : pc' = [pc EXCEPT ![Call(o)] = l]) \/ (\E l : CancelCallTimer(Call(o), l))
    BY DEF CallStep, CallStart, CallListens, CallRetransmits, CallCancelled,
     CallRejected, CallTimesOut, CallAnswered, CallOpensMedia, CallConnects, CallStarted,
     CallAnnulled, CallForgotten, CallLeaves, DispatchFinal, Annulled, Leaves, Await, WaitsAt, Continues
  <1>. QED BY <1>1, <1>2, <1>3, <1>4

\* do_hangup moves itself.
LEMMA HangupOnly ==
    ASSUME TypeOK, NEW h \in HangupIds, HangupStep(h)
    PROVE  Only({Hangup(h)})
  <1>0. Hangup(h) \in Task
    BY Tasks
  <1>1. CASE UNCHANGED pc
    BY <1>1 DEF Only
  <1>2. CASE \E l : pc' = [pc EXCEPT ![Hangup(h)] = l]
    BY <1>0, <1>2, GoesOnly
  <1>3. CASE \E l : CancelCallTimer(Hangup(h), l)
    BY <1>0, <1>3, CancelOnly
  <1>4. UNCHANGED pc \/ (\E l : pc' = [pc EXCEPT ![Hangup(h)] = l]) \/ (\E l : CancelCallTimer(Hangup(h), l))
    BY DEF HangupStep, HangupAsked, HangupStart, HangupTells, HangupTold, HangupByes, EndsLocally,
     HangupRetransmits, HangupDone, HangupEnds, Await, WaitsAt, Continues
  <1>. QED BY <1>1, <1>2, <1>3, <1>4

\* So does the hub's timer.
LEMMA TimerOnly ==
    ASSUME TypeOK, TimerFires \/ HangupCut
    PROVE  Only({Timer})
  <1>1. Timer \in Task
    BY Tasks
  <1>2. CASE TimerFires
    <2>1. pc' = [pc EXCEPT ![Timer] = "ended"]
      BY <1>2 DEF TimerFires, EndsLocally, Timer, Await, Continues
    <2>. QED BY <1>1, <2>1, GoesOnly
  <1>3. CASE HangupCut
    <2>1. pc' = [pc EXCEPT ![Timer] = "idle"]
      BY <1>3 DEF HangupCut, Ends, WaitsAt
    <2>. QED BY <1>1, <2>1, GoesOnly
  <1>. QED BY <1>2, <1>3

\* The handler of an INVITE moves itself, and may have the echo of our own call declined.
LEMMA InviteOnly ==
    ASSUME TypeOK, NEW c \in Cid, InviteStep(c)
    PROVE  Only({Invite(c), Reinvite(c), Decline("echo")})
  <1>0. Invite(c) \in Task /\ Reinvite(c) \in Task
    BY Tasks
  <1>1. CASE UNCHANGED pc
    BY <1>1 DEF Only
  <1>2. CASE \E l : pc' = [pc EXCEPT ![Invite(c)] = l]
    BY <1>0, <1>2, GoesOnly
  <1>3. CASE \E l : pc' = [pc EXCEPT ![Reinvite(c)] = l]
    BY <1>0, <1>3, GoesOnly
  <1>4. CASE InviteTold(c)
    <2>1. \A u \in Task \ {Invite(c), Reinvite(c), Decline("echo")} : pc'[u] = pc[u]
      BY <1>0, <1>4 DEF InviteTold, TypeOK
    <2>. QED BY <2>1 DEF Only
  <1>5. ASSUME NEW type, InviteRings(c, type) PROVE UNCHANGED pc \/ \E l : pc' = [pc EXCEPT ![Invite(c)] = l]
    BY <1>5 DEF InviteRings, Await
  <1>6. ASSUME NEW type, InviteRepeats(c, type) PROVE UNCHANGED pc
    BY <1>6 DEF InviteRepeats
  <1>7. CASE InvitePreviews(c) \/ InviteChecks(c) \/ InviteTells(c)
    BY <1>2, <1>7 DEF InvitePreviews, InviteChecks, InviteTells, Ends, Await, WaitsAt, Continues
  <1>8. CASE ReinviteAgrees(c) \/ ReinviteOpens(c)
    BY <1>1, <1>3, <1>8 DEF ReinviteAgrees, ReinviteOpens, Ends, Await, WaitsAt
  <1>9. (\E type \in {"INVITE", "re-INVITE"} : InviteRings(c, type) \/ InviteRepeats(c, type))
        \/ (InvitePreviews(c) \/ InviteChecks(c) \/ InviteTells(c)) \/ InviteTold(c)
        \/ (ReinviteAgrees(c) \/ ReinviteOpens(c))
    BY DEF InviteStep
  <1>. QED BY <1>1, <1>2, <1>4, <1>5, <1>6, <1>7, <1>8, <1>9

\* The end of a ring moves who ends it.
LEMMA RingEndOnly ==
    ASSUME TypeOK, RingEndStep
    PROVE  Only(RingEnders)
  <1>1. CASE UNCHANGED pc
    BY <1>1 DEF Only
  <1>2. CASE \E t \in RingEnders : \E l : pc' = [pc EXCEPT ![t] = l]
    <2>1. PICK t \in RingEnders : \E l : pc' = [pc EXCEPT ![t] = l]
      BY <1>2
    <2>2. t \in Task
      BY Tasks
    <2>. QED BY <2>1, <2>2, GoesOnly
  <1>3. (\A c \in Cid : Cancel(c) \in RingEnders) /\ \A w \in DeclineReasons : Decline(w) \in RingEnders
    BY DEF RingEnders
  <1>4. "echo" \in DeclineReasons
    BY DEF DeclineReasons
  <1>5. ASSUME NEW t \in RingEnders, RingEnds(t) \/ RingEndTells(t) \/ RingEndTold(t)
        PROVE  Only(RingEnders)
    <2>1. \E l : pc' = [pc EXCEPT ![t] = l]
      BY <1>5 DEF RingEnds, RingEndTells, RingEndTold, Ends, Await, WaitsAt, Continues
    <2>. QED BY <1>2, <2>1
  <1>6. ASSUME NEW c \in Cid, CancelArrives(c) \/ CancelTerminates(c)
        PROVE  Only(RingEnders)
    <2>1. UNCHANGED pc \/ \E l : pc' = [pc EXCEPT ![Cancel(c)] = l]
      BY <1>6 DEF CancelArrives, CancelTerminates, Ends, Await, WaitsAt
    <2>. QED BY <1>1, <1>2, <1>3, <2>1
  <1>7. ASSUME NEW w \in DeclineReasons, DeclineStart(w) \/ (w = "echo" /\ EchoGone)
        PROVE  Only(RingEnders)
    <2>1. \E l : pc' = [pc EXCEPT ![Decline(w)] = l]
      BY <1>7 DEF DeclineStart, EchoGone, Ends, Await, WaitsAt
    <2>. QED BY <1>2, <1>3, <2>1
  <1>. QED BY <1>4, <1>5, <1>6, <1>7 DEF RingEndStep

\* An answer moves itself.
LEMMA AnswerOnly ==
    ASSUME TypeOK, NEW c \in Cid, AnswerStep(c)
    PROVE  Only({Answer(c), Ack(c)})
  <1>0. Answer(c) \in Task /\ Ack(c) \in Task
    BY Tasks
  <1>1. CASE UNCHANGED pc
    BY <1>1 DEF Only
  <1>2. CASE \E l : pc' = [pc EXCEPT ![Answer(c)] = l]
    BY <1>0, <1>2, GoesOnly
  <1>3. CASE \E l : pc' = [pc EXCEPT ![Ack(c)] = l]
    BY <1>0, <1>3, GoesOnly
  <1>4. CASE \E l : CancelCallTimer(Answer(c), l)
    BY <1>0, <1>4, CancelOnly
  <1>5. UNCHANGED pc \/ (\E l : pc' = [pc EXCEPT ![Answer(c)] = l]) \/ (\E l : pc' = [pc EXCEPT ![Ack(c)] = l])
        \/ \E l : CancelCallTimer(Answer(c), l)
    BY DEF AnswerStep, AnswerStart, AnswerConnects, AnswerTells, AnswerTold,
     AckArrives, AckOpens, Ends, Await, WaitsAt, Continues
  <1>. QED BY <1>1, <1>2, <1>3, <1>4, <1>5

\* So does the handler of a BYE.
LEMMA ByeOnly ==
    ASSUME TypeOK, NEW c \in Cid, ByeStep(c)
    PROVE  Only({Bye(c)})
  <1>0. Bye(c) \in Task
    BY Tasks
  <1>1. CASE UNCHANGED pc
    BY <1>1 DEF Only
  <1>2. CASE \E l : pc' = [pc EXCEPT ![Bye(c)] = l]
    BY <1>0, <1>2, GoesOnly
  <1>3. CASE \E l : CancelCallTimer(Bye(c), l)
    BY <1>0, <1>3, CancelOnly
  <1>4. UNCHANGED pc \/ (\E l : pc' = [pc EXCEPT ![Bye(c)] = l]) \/ (\E l : CancelCallTimer(Bye(c), l))
    BY DEF ByeStep, ByeArrives, ByeEnds, ByeTells, ByeTold, Ends, Await, WaitsAt, Continues
  <1>. QED BY <1>1, <1>2, <1>3, <1>4

\* The panel moves none.
LEMMA PanelStill ==
    ASSUME Panel
    PROVE  UNCHANGED <<lineVars, pending_responses, queue, ringVars, media, hubVars, loop, pc, hung, lost, unclosed>>
  BY DEF Panel, PanelAnswers, PanelRejects, PanelAnswersAgain, PanelRings, PanelRingsAgain,
     PanelCancels, PanelAcks, PanelByes, PanelReinvites, PanelActs

\* Nobody else moves a do_call.
LEMMA MovedByCall ==
    ASSUME TypeOK, NEW o \in Outgoing, [Next]_vars, pc'[Call(o)] # pc[Call(o)]
    PROVE  CallStep(o)
  <1>0. Call(o) \in Task
    BY Tasks
  <1>1. \A T : Only(T) => Call(o) \in T
    BY <1>0 DEF Only, Call, Timer, Hangup
  <1>2. Call(o) \notin RingEnders
    BY DEF Call, RingEnders, Cancel, Answer, Decline
  <1>3. \A p \in Outgoing : CallStep(p) => p = o
    BY <1>1, CallOnly DEF Call
  <1>4. ~(TimerFires \/ HangupCut)
    BY <1>1, TimerOnly DEF Timer, Hangup, Call
  <1>5. \A d \in Cid : ~ByeStep(d)
    BY <1>1, ByeOnly DEF Bye, Call
  <1>6. \A d \in Cid : ~InviteStep(d)
    BY <1>1, InviteOnly DEF Call, Invite, Reinvite, Decline
  <1>7. \A d \in Cid : ~AnswerStep(d)
    BY <1>1, AnswerOnly DEF Call, Answer, Ack
  <1>8. \A h \in HangupIds : ~HangupStep(h)
    BY <1>1, HangupOnly DEF Hangup, Call
  <1>9. ~RingEndStep
    BY <1>1, <1>2, RingEndOnly
  <1>10. ~Panel /\ ~UNCHANGED vars
    BY PanelStill DEF vars
  <1>. QED BY <1>3, <1>4, <1>5, <1>6, <1>7, <1>8, <1>9, <1>10 DEF Next

\* Nor the handler of a BYE.
LEMMA MovedByBye ==
    ASSUME TypeOK, NEW c \in Cid, [Next]_vars, pc'[Bye(c)] # pc[Bye(c)]
    PROVE  ByeStep(c)
  <1>0. Bye(c) \in Task
    BY Tasks
  <1>1. \A T : Only(T) => Bye(c) \in T
    BY <1>0 DEF Only, Bye, Timer, Hangup
  <1>2. Bye(c) \notin RingEnders
    BY DEF Bye, RingEnders, Cancel, Answer, Decline
  <1>3. \A d \in Cid : ByeStep(d) => d = c
    BY <1>1, ByeOnly DEF Bye
  <1>4. ~(TimerFires \/ HangupCut)
    BY <1>1, TimerOnly DEF Timer, Hangup, Bye
  <1>5. \A o \in Outgoing : ~CallStep(o)
    BY <1>1, CallOnly DEF Bye, Call
  <1>6. \A d \in Cid : ~InviteStep(d)
    BY <1>1, InviteOnly DEF Bye, Invite, Reinvite, Decline
  <1>7. \A d \in Cid : ~AnswerStep(d)
    BY <1>1, AnswerOnly DEF Bye, Answer, Ack
  <1>8. \A h \in HangupIds : ~HangupStep(h)
    BY <1>1, HangupOnly DEF Hangup, Bye
  <1>9. ~RingEndStep
    BY <1>1, <1>2, RingEndOnly
  <1>10. ~Panel /\ ~UNCHANGED vars
    BY PanelStill DEF vars
  <1>. QED BY <1>3, <1>4, <1>5, <1>6, <1>7, <1>8, <1>9, <1>10 DEF Next

-----------------------------------------------------------------------------
(* A call has its timer.                                                     *)

\* Who tells the hub of a call that began, and who will end one.
Starting == \/ \E o \in Outgoing : pc[Call(o)] = "started"
            \/ \E c \in Cid : pc[Answer(c)] \in {"up", "started"}
Stopping == \E h \in Hangups : pc[Hangup(h)] = "spawned"
BoundedInv == in_call => call_timer \/ Starting \/ Stopping
\* Who has told the hub of the end of a call, at once, and no other has begun.
Enders == {Hangup(h) : h \in HangupIds} \cup {Bye(c) : c \in Cid}
ToldInv == \A t \in Enders : pc[t] = "told" => loop = t /\ ~in_call
TimedInv == BoundedInv /\ ToldInv

\* A hang-up gets there from its broadcast alone.
LEMMA HangupTelling ==
    ASSUME TypeOK, ToldInv, "emit" \notin Yields, [Next]_vars, NEW h \in HangupIds, pc'[Hangup(h)] = "told"
    PROVE  loop' = Hangup(h) /\ ~in_call'
  <1>0. Hangup(h) \in Task /\ Hangup(h) \in Enders
    BY Tasks DEF Enders
  <1>1. CASE pc[Hangup(h)] = "told"
    <2>1. loop = Hangup(h) /\ ~in_call
      BY <1>0, <1>1 DEF ToldInv
    <2>2. ~HangupStep(h)
      <3>1. SUFFICES ASSUME HangupStep(h) PROVE FALSE
        OBVIOUS
      <3>2. HangupTold(h)
        BY <1>1, <2>1, <3>1, NoneAssumption, <1>0 DEF HangupStep, HangupAsked, HangupStart, HangupTells,
           HangupByes, HangupRetransmits, HangupDone, At, Free
      <3>3. pc'[Hangup(h)] \in {"cut", "byeing"}
        BY <1>0, <3>2 DEF HangupTold, CancelCallTimer, TypeOK
      <3>. QED BY <3>3
    <2>3. ~HangupCut
      BY <1>0, <1>1, <2>1, NoneAssumption DEF HangupCut, At
    <2>4. Panel \/ UNCHANGED vars
      BY <2>1, <2>2, <2>3, HeldByHangup
    <2>. QED BY <2>1, <2>4, PanelStill DEF vars, lineVars
  <1>2. CASE pc[Hangup(h)] # "told"
    <2>1. HangupStep(h)
      <3>1. \A T : Only(T) => Hangup(h) \in T
        BY <1>0, <1>2 DEF Only
      <3>2. Hangup(h) \notin RingEnders
        BY DEF Hangup, RingEnders, Cancel, Answer, Decline
      <3>3. \A g \in HangupIds : HangupStep(g) => g = h
        BY <3>1, HangupOnly DEF Hangup
      <3>4. ~(TimerFires \/ HangupCut)
        <4>1. TimerFires \/ HangupCut => pc'[Timer] \in {"ended", "idle"}
          BY Tasks DEF TimerFires, HangupCut, EndsLocally, Await, Continues, Ends, WaitsAt, TypeOK, Timer
        <4>. QED BY <3>1, <4>1, TimerOnly
      <3>5. \A o \in Outgoing : ~CallStep(o)
        BY <3>1, CallOnly DEF Hangup, Call
      <3>6. \A c \in Cid : ~InviteStep(c)
        BY <3>1, InviteOnly DEF Hangup, Invite, Reinvite, Decline
      <3>7. \A c \in Cid : ~AnswerStep(c)
        BY <3>1, AnswerOnly DEF Hangup, Answer, Ack
      <3>8. \A c \in Cid : ~ByeStep(c)
        BY <3>1, ByeOnly DEF Hangup, Bye
      <3>9. ~RingEndStep
        BY <3>1, <3>2, RingEndOnly
      <3>10. ~Panel /\ ~UNCHANGED vars
        BY <1>2, PanelStill DEF vars
      <3>. QED BY <3>3, <3>4, <3>5, <3>6, <3>7, <3>8, <3>9, <3>10 DEF Next
    <2>2. HangupTells(h) /\ ~StaleEnd
      BY <1>0, <2>1 DEF HangupStep, HangupAsked, HangupStart, HangupTells, HangupTold, HangupByes, EndsLocally,
           HangupRetransmits, HangupDone, HangupEnds, CancelCallTimer, Await, Continues, WaitsAt, TypeOK
    <2>. QED BY <2>2 DEF HangupTells, Await, StaleEnd, Busy, lineVars
  <1>. QED BY <1>1, <1>2

\* So does the handler of a BYE.
LEMMA ByeTelling ==
    ASSUME TypeOK, ToldInv, "emit" \notin Yields, [Next]_vars, NEW c \in Cid, pc'[Bye(c)] = "told"
    PROVE  loop' = Bye(c) /\ ~in_call'
  <1>0. Bye(c) \in Task /\ Bye(c) \in Enders
    BY Tasks DEF Enders
  <1>1. CASE pc[Bye(c)] = "told"
    <2>1. loop = Bye(c) /\ ~in_call
      BY <1>0, <1>1 DEF ToldInv
    <2>2. ~ByeStep(c)
      <3>1. SUFFICES ASSUME ByeStep(c) PROVE FALSE
        OBVIOUS
      <3>2. ByeTold(c)
        BY <1>1, <2>1, <3>1, <1>0 DEF ByeStep, ByeArrives, ByeEnds, ByeTells, At, Free
      <3>3. pc'[Bye(c)] = "idle"
        BY <1>0, <3>2 DEF ByeTold, CancelCallTimer, TypeOK
      <3>. QED BY <3>3
    <2>3. Panel \/ UNCHANGED vars
      BY <2>1, <2>2, HeldByBye
    <2>. QED BY <2>1, <2>3, PanelStill DEF vars, lineVars
  <1>2. CASE pc[Bye(c)] # "told"
    <2>1. ByeStep(c)
      BY <1>2, MovedByBye
    <2>2. ByeTells(c) /\ ~StaleEnd
      BY <1>0, <1>2, <2>1 DEF ByeStep, ByeArrives, ByeEnds, ByeTells, ByeTold, Ends, CancelCallTimer, Await,
         WaitsAt, TypeOK
    <2>. QED BY <2>2 DEF ByeTells, Await, StaleEnd, Busy, lineVars
  <1>. QED BY <1>1, <1>2

\* A hang-up that is asked for is not the timer's.
LEMMA HangupNames == \A h \in Hangups : h \in HangupIds /\ Hangup(h) \in Task /\ Hangup(h) # Timer
  <1>1. \A h \in Hangups : h # "timer"
    BY HangupAssumption
  <1>. QED BY <1>1, Tasks DEF HangupIds, Hangup, Timer

\* A step that lets in_call, call_timer and the tasks of Starting and Stopping alone.
LEMMA BoundedStays ==
    ASSUME BoundedInv, in_call' => in_call, UNCHANGED call_timer,
           \A o \in Outgoing : pc[Call(o)] = "started" => pc'[Call(o)] = "started",
           \A c \in Cid : pc[Answer(c)] \in {"up", "started"} => pc'[Answer(c)] \in {"up", "started"},
           \A h \in Hangups : pc[Hangup(h)] = "spawned" => pc'[Hangup(h)] = "spawned"
    PROVE  BoundedInv'
  BY DEF BoundedInv, Starting, Stopping

\* do_call tells the hub what it began, and the hub arms its timer.
LEMMA CallBounded ==
    ASSUME TypeOK, BoundedInv, NEW o \in Outgoing, CallStep(o)
    PROVE  BoundedInv'
  <1>0. Call(o) \in Task
    BY Tasks
  <1>1. CASE CallStarted(o)
    BY <1>1 DEF CallStarted, BoundedInv
  <1>2. CASE CallConnects(o) /\ calling
    BY <1>0, <1>2 DEF CallConnects, Annulled, Await, BoundedInv, Starting, TypeOK
  <1>3. CASE ~CallStarted(o) /\ ~(CallConnects(o) /\ calling)
    <2>1. UNCHANGED <<in_call, call_timer>>
      BY <1>3 DEF CallStep, CallStart, CallListens, CallRetransmits, CallCancelled,
         CallRejected, CallTimesOut, CallAnswered, CallOpensMedia, CallConnects,
         CallAnnulled, CallForgotten, CallLeaves, DispatchFinal, lineVars, hubVars
    <2>2. pc[Call(o)] # "started" \/ UNCHANGED pc
      BY <1>3 DEF CallStep, CallStart, CallListens, CallRetransmits, CallCancelled,
         CallRejected, CallTimesOut, CallAnswered, CallOpensMedia, CallConnects,
         CallAnnulled, CallForgotten, CallLeaves, DispatchFinal, At, Free, Waiting, Reads
    <2>3. \A p \in Outgoing : pc[Call(p)] = "started" => pc'[Call(p)] = "started"
      BY <2>2, CallOnly, Tasks DEF Only, Call, Timer, Hangup
    <2>4. \A c \in Cid : pc'[Answer(c)] = pc[Answer(c)]
      BY CallOnly, Tasks DEF Only, Call, Answer, Timer, Hangup
    <2>5. \A h \in Hangups : pc'[Hangup(h)] = pc[Hangup(h)]
      BY CallOnly, HangupNames DEF Only, Hangup, Call
    <2>. QED BY <2>1, <2>3, <2>4, <2>5, BoundedStays
  <1>. QED BY <1>1, <1>2, <1>3

\* A hang-up cancels the timer of a call it is about to end, or of one that is over.
LEMMA HangupBounded ==
    ASSUME TypeOK, BoundedInv, ToldInv, NEW h \in HangupIds, HangupStep(h)
    PROVE  BoundedInv'
  <1>0. Hangup(h) \in Task /\ Hangup(h) \in Enders
    BY Tasks DEF Enders
  <1>1. CASE HangupAsked(h)
    BY <1>0, <1>1 DEF HangupAsked, CancelCallTimer, BoundedInv, Stopping, TypeOK
  <1>2. CASE HangupStart(h)
    BY <1>2 DEF HangupStart, EndsLocally, BoundedInv
  <1>3. CASE HangupTold(h)
    BY <1>0, <1>3 DEF HangupTold, At, ToldInv, BoundedInv, lineVars
  <1>4. CASE ~HangupAsked(h) /\ ~HangupStart(h) /\ ~HangupTold(h)
    <2>1. UNCHANGED <<in_call, call_timer>>
      BY <1>4 DEF HangupStep, HangupTells, HangupByes, HangupRetransmits, HangupDone, lineVars, hubVars
    <2>2. pc[Hangup(h)] # "spawned" \/ UNCHANGED pc
      BY <1>4 DEF HangupStep, HangupTells, HangupByes, HangupRetransmits, HangupDone, At
    <2>3. \A p \in Outgoing : pc'[Call(p)] = pc[Call(p)]
      BY HangupOnly, Tasks DEF Only, Call, Timer, Hangup
    <2>4. \A c \in Cid : pc'[Answer(c)] = pc[Answer(c)]
      BY HangupOnly, Tasks DEF Only, Answer, Timer, Hangup
    <2>5. \A g \in Hangups : pc[Hangup(g)] = "spawned" => pc'[Hangup(g)] = "spawned"
      BY <2>2, HangupOnly, HangupNames DEF Only, Hangup
    <2>. QED BY <2>1, <2>3, <2>4, <2>5, BoundedStays
  <1>. QED BY <1>1, <1>2, <1>3, <1>4

\* The hub's timer ends the call; cut, it goes.
LEMMA TimerBounded ==
    ASSUME TypeOK, BoundedInv, TimerFires \/ HangupCut
    PROVE  BoundedInv'
  <1>1. CASE TimerFires
    BY <1>1 DEF TimerFires, EndsLocally, BoundedInv
  <1>2. CASE HangupCut
    <2>1. UNCHANGED <<in_call, call_timer>>
      BY <1>2 DEF HangupCut, lineVars, hubVars
    <2>2. \A p \in Outgoing : pc'[Call(p)] = pc[Call(p)]
      BY TimerOnly, Tasks DEF Only, Call, Timer, Hangup
    <2>3. \A c \in Cid : pc'[Answer(c)] = pc[Answer(c)]
      BY TimerOnly, Tasks DEF Only, Answer, Timer, Hangup
    <2>4. \A g \in Hangups : pc'[Hangup(g)] = pc[Hangup(g)]
      BY TimerOnly, HangupNames DEF Only
    <2>. QED BY <2>1, <2>2, <2>3, <2>4, BoundedStays
  <1>. QED BY <1>1, <1>2

\* An INVITE changes no call.
LEMMA InviteBounded ==
    ASSUME TypeOK, BoundedInv, NEW c \in Cid, InviteStep(c)
    PROVE  BoundedInv'
  <1>1. UNCHANGED <<in_call, call_timer>>
    BY DEF InviteStep, InviteRings, InviteRepeats, InvitePreviews, InviteChecks,
       InviteTells, InviteTold, ReinviteAgrees, ReinviteOpens, lineVars, hubVars
  <1>2. \A p \in Outgoing : pc'[Call(p)] = pc[Call(p)]
    BY InviteOnly, Tasks DEF Only, Call, Timer, Hangup, Invite, Reinvite, Decline
  <1>3. \A d \in Cid : pc'[Answer(d)] = pc[Answer(d)]
    BY InviteOnly, Tasks DEF Only, Answer, Timer, Hangup, Invite, Reinvite, Decline
  <1>4. \A g \in Hangups : pc'[Hangup(g)] = pc[Hangup(g)]
    BY InviteOnly, HangupNames DEF Only, Hangup, Invite, Reinvite, Decline
  <1>. QED BY <1>1, <1>2, <1>3, <1>4, BoundedStays

\* Nor does the end of a ring.
LEMMA RingEndBounded ==
    ASSUME TypeOK, BoundedInv, RingEndStep
    PROVE  BoundedInv'
  <1>1. UNCHANGED <<in_call, call_timer>>
    BY DEF RingEndStep, CancelArrives, CancelTerminates, DeclineStart, EchoGone,
       RingEnds, RingEndTells, RingEndTold, lineVars, hubVars
  <1>2. \A p \in Outgoing : pc'[Call(p)] = pc[Call(p)]
    BY RingEndOnly, Tasks DEF Only, Call, Timer, Hangup, RingEnders, Cancel, Answer, Decline
  <1>3. \A d \in Cid : pc[Answer(d)] \in {"up", "started"} => pc'[Answer(d)] = pc[Answer(d)]
    <2>. SUFFICES ASSUME NEW d \in Cid, pc[Answer(d)] \in {"up", "started"}
                  PROVE  pc'[Answer(d)] = pc[Answer(d)]
      OBVIOUS
    <2>1. \A l : \A t \in RingEnders : t # Answer(d) /\ pc' = [pc EXCEPT ![t] = l] => pc'[Answer(d)] = pc[Answer(d)]
      BY Tasks DEF TypeOK
    <2>. QED BY <2>1, Tasks DEF RingEndStep, CancelArrives, CancelTerminates, DeclineStart, EchoGone,
       RingEnds, RingEndTells, RingEndTold, At, Await, WaitsAt, Continues, Ends, Cancel, Answer, Decline, TypeOK
  <1>4. \A g \in Hangups : pc'[Hangup(g)] = pc[Hangup(g)]
    <2>1. \A g \in Hangups : Hangup(g) \notin RingEnders
      BY DEF Hangup, RingEnders, Cancel, Answer, Decline
    <2>. QED BY <2>1, RingEndOnly, HangupNames DEF Only
  <1>. QED BY <1>1, <1>2, <1>3, <1>4, BoundedStays

\* An answer tells the hub what it began.
LEMMA AnswerBounded ==
    ASSUME TypeOK, BoundedInv, NEW c \in Cid, AnswerStep(c)
    PROVE  BoundedInv'
  <1>0. Answer(c) \in Task
    BY Tasks
  <1>1. CASE AnswerConnects(c) \/ AnswerTells(c)
    <2>1. pc'[Answer(c)] \in {"up", "started"}
      BY <1>0, <1>1 DEF AnswerConnects, AnswerTells, Await, Continues, TypeOK
    <2>. QED BY <2>1 DEF BoundedInv, Starting
  <1>2. CASE AnswerTold(c)
    BY <1>2 DEF AnswerTold, BoundedInv
  <1>3. CASE AnswerStart(c) \/ AckArrives(c) \/ AckOpens(c)
    <2>1. UNCHANGED <<in_call, call_timer>>
      BY <1>3 DEF AnswerStart, AckArrives, AckOpens, lineVars, hubVars
    <2>2. pc[Answer(c)] \in {"up", "started"} => pc'[Answer(c)] = pc[Answer(c)]
      BY <1>3, Tasks DEF AnswerStart, AckArrives, AckOpens, Free, Ends, WaitsAt, Answer, Ack, TypeOK
    <2>3. \A p \in Outgoing : pc'[Call(p)] = pc[Call(p)]
      BY AnswerOnly, Tasks DEF Only, Call, Timer, Hangup, Answer, Ack
    <2>4. \A d \in Cid : pc[Answer(d)] \in {"up", "started"} => pc'[Answer(d)] = pc[Answer(d)]
      BY <2>2, AnswerOnly, Tasks DEF Only, Answer, Timer, Hangup, Ack
    <2>5. \A g \in Hangups : pc'[Hangup(g)] = pc[Hangup(g)]
      BY AnswerOnly, HangupNames DEF Only, Hangup, Answer, Ack
    <2>. QED BY <2>1, <2>3, <2>4, <2>5, BoundedStays
  <1>. QED BY <1>1, <1>2, <1>3 DEF AnswerStep

\* A BYE ends its call before the hub cancels the timer.
LEMMA ByeBounded ==
    ASSUME TypeOK, BoundedInv, ToldInv, NEW c \in Cid, ByeStep(c)
    PROVE  BoundedInv'
  <1>0. Bye(c) \in Enders
    BY DEF Enders
  <1>1. CASE ByeTold(c)
    BY <1>0, <1>1 DEF ByeTold, At, ToldInv, BoundedInv, lineVars
  <1>2. CASE ByeArrives(c) \/ ByeEnds(c) \/ ByeTells(c)
    <2>1. UNCHANGED call_timer /\ (in_call' => in_call)
      BY <1>2 DEF ByeArrives, ByeEnds, ByeTells, lineVars, hubVars
    <2>2. \A p \in Outgoing : pc'[Call(p)] = pc[Call(p)]
      BY ByeOnly, Tasks DEF Only, Call, Timer, Hangup, Bye
    <2>3. \A d \in Cid : pc'[Answer(d)] = pc[Answer(d)]
      BY ByeOnly, Tasks DEF Only, Answer, Timer, Hangup, Bye
    <2>4. \A g \in Hangups : pc'[Hangup(g)] = pc[Hangup(g)]
      BY ByeOnly, HangupNames DEF Only, Hangup, Bye
    <2>. QED BY <2>1, <2>2, <2>3, <2>4, BoundedStays
  <1>. QED BY <1>1, <1>2 DEF ByeStep

\* A call that is up keeps its timer, or will be told to the hub, or is about to be ended.
LEMMA TimedStep ==
    ASSUME TypeOK, TimedInv, "emit" \notin Yields, [Next]_vars
    PROVE  TimedInv'
  <1>. USE DEF TimedInv
  <1>1. ToldInv'
    BY HangupTelling, ByeTelling DEF ToldInv, Enders
  <1>2. CASE Panel \/ UNCHANGED vars
    BY <1>1, <1>2, PanelStill DEF vars, lineVars, hubVars, BoundedInv, Starting, Stopping
  <1>. QED BY <1>1, <1>2, CallBounded, HangupBounded, TimerBounded, InviteBounded, RingEndBounded, AnswerBounded,
              ByeBounded DEF Next

-----------------------------------------------------------------------------
(* A ring has its timer.                                                     *)

\* Where the handler of an INVITE has recorded its ring and not yet armed its timer.
Arming == {"progress", "preview", "no preview", "ringing"}
ArmedInv ==
    ring.active => \/ ring_timer = ring.cid
                   \/ \E c \in Cid : c = ring.cid /\ pc[Invite(c)] \in Arming
                   \/ \E t \in Task : pc[t] = "terminated"
\* About to arm it, its ring is the one that is on, if any is.
RingingInv == \A c \in Cid : pc[Invite(c)] = "ringing" => loop = Invite(c) /\ (ring.active => ring.cid = c)

\* Only the INVITE's own handler gets there, and it holds the loop until the timer is armed.
LEMMA RingingStep ==
    ASSUME TypeOK, Unsuspended, ~SendFails, HandlerInv, RingingInv, [Next]_vars
    PROVE  RingingInv'
  <1>. SUFFICES ASSUME NEW c \in Cid, pc'[Invite(c)] = "ringing"
                PROVE  loop' = Invite(c) /\ (ring'.active => ring'.cid = c)
    BY DEF RingingInv
  <1>0. Invite(c) \in Task /\ Invite(c) # Timer
    BY Tasks DEF Invite, Timer, Hangup
  <1>1. CASE pc[Invite(c)] = "ringing"
    <2>1. loop = Invite(c) /\ (ring.active => ring.cid = c)
      BY <1>1 DEF RingingInv
    <2>2. ~InviteStep(c)
      <3>1. SUFFICES ASSUME InviteStep(c) PROVE FALSE
        OBVIOUS
      <3>2. InviteTells(c) \/ ReinviteOpens(c)
        BY <1>0, <1>1, <2>1, <3>1, NoneAssumption DEF InviteStep, InviteRings, InviteRepeats, InvitePreviews, InviteChecks,
           InviteTold, ReinviteAgrees, At, Free, Idle
      <3>3. ~ReinviteOpens(c)
        BY <1>0, <2>1, NoneAssumption DEF ReinviteOpens, At, Invite, Reinvite
      <3>4. pc'[Invite(c)] = "told"
        BY <1>0, <3>2, <3>3 DEF InviteTells, Continues, Await, TypeOK
      <3>. QED BY <3>4
    <2>3. Panel \/ UNCHANGED vars
      BY <2>1, <2>2, HeldByInvite
    <2>. QED BY <2>1, <2>3, PanelStill DEF vars, ringVars
  <1>2. CASE pc[Invite(c)] # "ringing"
    <2>0. \A T : Only(T) => Invite(c) \in T
      BY <1>0, <1>2 DEF Only
    <2>1. InviteStep(c)
      <3>2. Invite(c) \notin RingEnders
        BY DEF Invite, RingEnders, Cancel, Answer, Decline
      <3>3. \A d \in Cid : InviteStep(d) => d = c
        BY <2>0, InviteOnly DEF Invite, Reinvite, Decline
      <3>4. ~(TimerFires \/ HangupCut)
        BY <2>0, TimerOnly DEF Timer, Hangup, Invite
      <3>5. \A o \in Outgoing : ~CallStep(o)
        BY <2>0, CallOnly DEF Invite, Call
      <3>6. \A d \in Cid : ~ByeStep(d)
        BY <2>0, ByeOnly DEF Bye, Invite
      <3>7. \A d \in Cid : ~AnswerStep(d)
        BY <2>0, AnswerOnly DEF Invite, Answer, Ack
      <3>8. \A h \in HangupIds : ~HangupStep(h)
        BY <2>0, HangupOnly DEF Hangup, Invite
      <3>9. ~RingEndStep
        BY <2>0, <3>2, RingEndOnly
      <3>10. ~Panel /\ ~UNCHANGED vars
        BY <1>2, PanelStill DEF vars
      <3>. QED BY <3>3, <3>4, <3>5, <3>6, <3>7, <3>8, <3>9, <3>10 DEF Next
    <2>2. (\E type : InviteRings(c, type)) \/ InviteChecks(c)
      <3>1. \A type : ~InviteRepeats(c, type)
        BY <1>2 DEF InviteRepeats
      <3>2. ~InvitePreviews(c) /\ ~InviteTells(c)
        BY <1>0, <1>2 DEF InvitePreviews, InviteTells, Await, Continues, TypeOK
      <3>3. ~InviteTold(c)
        <4>1. InviteTold(c) => pc'[Invite(c)] = "idle"
          BY <1>0 DEF InviteTold, TypeOK, Invite, Decline
        <4>. QED BY <4>1
      <3>4. ~ReinviteAgrees(c) /\ ~ReinviteOpens(c)
        <4>1. Reinvite(c) # Invite(c)
          BY DEF Reinvite, Invite
        <4>. QED BY <1>0, <1>2, <4>1, Tasks DEF ReinviteAgrees, ReinviteOpens, Await, Ends, WaitsAt, TypeOK
      <3>. QED BY <2>1, <3>1, <3>2, <3>3, <3>4 DEF InviteStep
    <2>3. ASSUME NEW type, InviteRings(c, type)
          PROVE  loop' = Invite(c) /\ (ring'.active => ring'.cid = c)
      BY <1>0, <1>2, <2>3 DEF InviteRings, Await, Unsuspended, TypeOK
    <2>4. CASE InviteChecks(c)
      <3>1. loop' = Invite(c) /\ (Ringing(c) \/ in_call)
        BY <1>0, <2>4 DEF InviteChecks, Ends, WaitsAt, Continues, TypeOK
      <3>2. ring'.active = ring.active /\ ring'.cid = ring.cid
        BY <2>4 DEF InviteChecks, TypeOK
      <3>. QED BY <3>1, <3>2 DEF Ringing, HandlerInv, LineInv, LineExclusive
    <2>. QED BY <2>2, <2>3, <2>4
  <1>. QED BY <1>1, <1>2

\* A step that lets the ring, its timer and the handlers of INVITEs alone.
LEMMA ArmedStays ==
    ASSUME ArmedInv, UNCHANGED <<ring, ring_timer>>, ~ \E t \in Task : pc[t] = "terminated",
           \A c \in Cid : pc'[Invite(c)] = pc[Invite(c)]
    PROVE  ArmedInv'
  BY DEF ArmedInv

\* A ring that is on has its timer, or its handler will arm it, or it is about to be closed.
LEMMA ArmedStep ==
    ASSUME TypeOK, Unsuspended, ~SendFails, HandlerInv, RingingInv, ArmedInv, [Next]_vars
    PROVE  ArmedInv'
  <1>1. CASE \E u \in Task : pc[u] = "terminated"
    <2>1. PICK u \in Task : pc[u] = "terminated"
      BY <1>1
    <2>2. loop = u
      BY <2>1 DEF HandlerInv, LoopInv, Unbroken
    <2>3. ClosingMoves(u)
      BY <2>1, <2>2, NextClosing
    <2>. QED BY <2>1, <2>3 DEF ClosingMoves, Closes, ArmedInv
  <1>2. CASE ~\E u \in Task : pc[u] = "terminated"
    <2>1. CASE Panel \/ UNCHANGED vars
      BY <2>1, PanelStill, <1>2, ArmedStays DEF vars, ringVars
    <2>2. ASSUME NEW o \in Outgoing, CallStep(o) PROVE ArmedInv'
      <3>1. UNCHANGED <<ring, ring_timer>>
        BY <2>2 DEF CallStep, CallStart, CallListens, CallRetransmits, CallCancelled, CallRejected,
           CallTimesOut, CallAnswered, CallOpensMedia, CallConnects, CallStarted,
           CallAnnulled, CallForgotten, CallLeaves, DispatchFinal, ringVars
      <3>2. \A c \in Cid : pc'[Invite(c)] = pc[Invite(c)]
        BY <2>2, CallOnly, Tasks DEF Only, Call, Invite, Timer, Hangup
      <3>. QED BY <1>2, <3>1, <3>2, ArmedStays
    <2>3. ASSUME NEW h \in HangupIds, HangupStep(h) PROVE ArmedInv'
      <3>1. UNCHANGED <<ring, ring_timer>>
        BY <2>3 DEF HangupStep, HangupAsked, HangupStart, HangupTells, HangupTold, HangupByes, EndsLocally,
           HangupRetransmits, HangupDone, ringVars
      <3>2. \A c \in Cid : pc'[Invite(c)] = pc[Invite(c)]
        BY <2>3, HangupOnly, Tasks DEF Only, Invite, Timer, Hangup
      <3>. QED BY <1>2, <3>1, <3>2, ArmedStays
    <2>4. CASE TimerFires \/ HangupCut
      <3>1. UNCHANGED <<ring, ring_timer>>
        BY <2>4 DEF TimerFires, HangupCut, EndsLocally, ringVars
      <3>2. \A c \in Cid : pc'[Invite(c)] = pc[Invite(c)]
        BY <2>4, TimerOnly, Tasks DEF Only, Invite, Timer, Hangup
      <3>. QED BY <1>2, <3>1, <3>2, ArmedStays
    <2>5. ASSUME NEW d \in Cid, ByeStep(d) PROVE ArmedInv'
      <3>1. UNCHANGED <<ring, ring_timer>>
        BY <2>5 DEF ByeStep, ByeArrives, ByeEnds, ByeTells, ByeTold, ringVars
      <3>2. \A c \in Cid : pc'[Invite(c)] = pc[Invite(c)]
        BY <2>5, ByeOnly, Tasks DEF Only, Invite, Timer, Hangup, Bye
      <3>. QED BY <1>2, <3>1, <3>2, ArmedStays
    <2>6. ASSUME NEW d \in Cid, AnswerStep(d) PROVE ArmedInv'
      <3>1. CASE AnswerStart(d)
        BY <3>1 DEF AnswerStart, ArmedInv, TypeOK
      <3>2. CASE ~AnswerStart(d)
        <4>1. UNCHANGED <<ring, ring_timer>>
          BY <2>6, <3>2 DEF AnswerStep, AnswerConnects, AnswerTells, AnswerTold, AckArrives, AckOpens, ringVars
        <4>2. \A c \in Cid : pc'[Invite(c)] = pc[Invite(c)]
          BY <2>6, AnswerOnly, Tasks DEF Only, Invite, Timer, Hangup, Answer, Ack
        <4>. QED BY <1>2, <4>1, <4>2, ArmedStays
      <3>. QED BY <3>1, <3>2
    <2>7. CASE RingEndStep
      <3>1. ASSUME NEW t \in Task, pc'[t] = "terminated" PROVE ArmedInv'
        BY <3>1 DEF ArmedInv
      <3>2. ASSUME NEW c \in Cid, CancelTerminates(c) PROVE ArmedInv' \/ UNCHANGED <<ring, ring_timer>>
        BY <3>1, <3>2, Tasks DEF CancelTerminates, Await, Ends, WaitsAt, TypeOK
      <3>3. ASSUME NEW w \in DeclineReasons, DeclineStart(w) PROVE ArmedInv'
        BY <3>1, <3>3, Tasks DEF DeclineStart, Await, TypeOK
      <3>4. \A t \in RingEnders : ~RingEnds(t)
        BY <1>2, Tasks DEF RingEnds, At
      <3>5. ArmedInv' \/ UNCHANGED <<ring, ring_timer>>
        BY <2>7, <3>2, <3>3, <3>4 DEF RingEndStep, CancelArrives, EchoGone, RingEndTells, RingEndTold, ringVars
      <3>6. \A c \in Cid : pc'[Invite(c)] = pc[Invite(c)]
        BY <2>7, RingEndOnly, Tasks DEF Only, Invite, Timer, Hangup, RingEnders, Cancel, Answer, Decline
      <3>. QED BY <1>2, <3>5, <3>6, ArmedStays
    <2>8. ASSUME NEW c \in Cid, InviteStep(c) PROVE ArmedInv'
      <3>0. Invite(c) \in Task /\ Reinvite(c) # Invite(c) /\ Decline("echo") # Invite(c)
        BY Tasks DEF Invite, Reinvite, Decline
      <3>1. \A d \in Cid : d # c => pc'[Invite(d)] = pc[Invite(d)]
        BY <2>8, InviteOnly, Tasks DEF Only, Invite, Timer, Hangup, Reinvite, Decline
      <3>2. ASSUME NEW type, InviteRings(c, type) PROVE ArmedInv'
        <4>1. CASE ring.active \/ Busy
          BY <1>2, <3>2, <4>1, ArmedStays DEF InviteRings
        <4>2. CASE ~(ring.active \/ Busy)
          <5>1. ring'.cid = c
            BY <3>2, <4>2 DEF InviteRings
          <5>2. pc' = [pc EXCEPT ![Invite(c)] = IF HasOffer(c) THEN "progress" ELSE "ringing"]
            BY <3>2, <4>2 DEF InviteRings, Await
          <5>3. pc'[Invite(c)] \in Arming
            BY <3>0, <5>2 DEF Arming, TypeOK
          <5>. QED BY <5>1, <5>3 DEF ArmedInv
        <4>. QED BY <4>1, <4>2
      <3>3. ASSUME NEW type, InviteRepeats(c, type) PROVE ArmedInv'
        BY <1>2, <3>3, ArmedStays DEF InviteRepeats, ringVars
      <3>4. CASE InvitePreviews(c)
        <4>1. UNCHANGED <<ring, ring_timer>> /\ pc'[Invite(c)] \in Arming
          BY <3>0, <3>4 DEF InvitePreviews, Await, Arming, TypeOK, ringVars
        <4>. QED BY <1>2, <3>1, <4>1 DEF ArmedInv
      <3>5. CASE InviteChecks(c)
        <4>1. ring'.active = ring.active /\ ring'.cid = ring.cid /\ UNCHANGED ring_timer
          BY <3>5 DEF InviteChecks, TypeOK
        <4>2. Ringing(c) => pc'[Invite(c)] \in Arming
          BY <3>0, <3>5 DEF InviteChecks, Continues, Arming, TypeOK
        <4>. QED BY <1>2, <3>1, <4>1, <4>2 DEF ArmedInv, Ringing
      <3>6. CASE InviteTells(c)
        <4>1. UNCHANGED ring /\ ring_timer' = c /\ pc[Invite(c)] = "ringing"
          BY <3>6 DEF InviteTells, ArmRingTimer, At
        <4>. QED BY <4>1 DEF ArmedInv, RingingInv
      <3>7. CASE InviteTold(c) \/ ReinviteAgrees(c) \/ ReinviteOpens(c)
        <4>1. UNCHANGED <<ring, ring_timer>>
          BY <3>7 DEF InviteTold, ReinviteAgrees, ReinviteOpens, ringVars
        <4>2. pc[Invite(c)] \in Arming => pc'[Invite(c)] = pc[Invite(c)]
          BY <3>0, <3>7, Tasks DEF InviteTold, ReinviteAgrees, ReinviteOpens, At, Await, Ends, WaitsAt, Arming, TypeOK
        <4>. QED BY <1>2, <3>1, <4>1, <4>2 DEF ArmedInv
      <3>. QED BY <2>8, <3>2, <3>3, <3>4, <3>5, <3>6, <3>7 DEF InviteStep
    <2>. QED BY <2>1, <2>2, <2>3, <2>4, <2>5, <2>6, <2>7, <2>8 DEF Next
  <1>. QED BY <1>1, <1>2

-----------------------------------------------------------------------------
(* `calling` has its do_call.                                                *)

\* The panel has not ended the call o of ours, no ring is its echo and no hang-up is closing it.
Apart(o) ==
    /\ peer[o] \in {"none", "trying", "answered", "down"}
    /\ ring.cid # o
    /\ \A h \in HangupIds : hung[h] # o
    /\ ~InNet("BYE", o) /\ ~InNet("re-INVITE", o)
\* A call that was never placed is known to nobody.
FreshInv == \A o \in Outgoing : pc[Call(o)] = "idle" =>
                /\ Apart(o)
                /\ peer[o] = "none" /\ call_id # o
\* Where its do_call holds `calling`: before it waits and after, it has the event loop too.
Held(o) ==
    \/ pc[Call(o)] = "invited" /\ loop = Call(o) /\ Apart(o)
    \/ pc[Call(o)] = "waiting" /\ o \in pending_responses /\ Apart(o)
    \/ pc[Call(o)] \in {"accepted", "connected", "leaving"} /\ loop = Call(o)
HeldInv == calling => call_id \in Outgoing /\ Held(call_id)
\* A BYE is not for a call that is still being placed.
ByeInv == \A c \in Cid : pc[Bye(c)] = "known" => loop = Bye(c) /\ ~calling

\* What another task's step leaves of a call o that it has nothing to do with.
Spared(o) ==
    /\ Apart(o)'
    /\ call_id # o => call_id' # o
    /\ peer[o] = "none" => peer'[o] = "none"
    /\ calling' /\ call_id = o => call_id' = o
    /\ calling' /\ call_id = o /\ o \in pending_responses => o \in pending_responses'

\* A message to another call leaves the peer of this one as it is.
LEMMA SentElsewhere ==
    ASSUME TypeOK, NEW o \in Outgoing, NEW c, c # o, NEW m, Sends(c, m)
    PROVE  peer'[o] = peer[o]
  BY DEF Sends, TypeOK, Cid

\* Nor does the closing of another call's dialog.
LEMMA ClosedElsewhere ==
    ASSUME TypeOK, NEW o \in Outgoing, NEW c, c # o, AckThenBye(c) \/ AckThenByeFails(c)
    PROVE  peer'[o] = peer[o]
  <1>1. CASE AckThenBye(c)
    <2>1. \E s : peer' = [peer EXCEPT ![c] = s]
      BY <1>1 DEF AckThenBye
    <2>. QED BY <2>1 DEF TypeOK, Cid
  <1>2. CASE AckThenByeFails(c)
    BY <1>2, SentElsewhere DEF AckThenByeFails
  <1>. QED BY <1>1, <1>2

\* Closing a dialog that was never begun leaves it so.
LEMMA ClosedUnbegun ==
    ASSUME TypeOK, NEW o \in Outgoing, peer[o] = "none", AckThenBye(o) \/ AckThenByeFails(o)
    PROVE  peer'[o] = "none"
  <1>1. \A m : m # "INVITE" => Reaction(o, "none", m) = "none"
    BY DEF Reaction
  <1>2. \A m : m # "INVITE" /\ Sends(o, m) => peer'[o] = "none"
    BY <1>1 DEF Sends, TypeOK, Cid
  <1>3. CASE AckThenBye(o)
    <2>. DEFINE Acked(ack) == IF ack THEN Reaction(o, peer[o], "ACK") ELSE peer[o]
    <2>1. \E ack, bye \in BOOLEAN :
            peer' = [peer EXCEPT ![o] = IF bye THEN Reaction(o, Acked(ack), "lone BYE") ELSE Acked(ack)]
      BY <1>3 DEF AckThenBye
    <2>2. \A ack : Acked(ack) = "none"
      BY <1>1
    <2>3. Reaction(o, "none", "lone BYE") = "none"
      BY <1>1
    <2>. HIDE DEF Acked
    <2>4. peer' = [peer EXCEPT ![o] = "none"]
      BY <2>1, <2>2, <2>3
    <2>. QED BY <2>4 DEF TypeOK, Cid
  <1>4. CASE AckThenByeFails(o)
    BY <1>2, <1>4 DEF AckThenByeFails
  <1>. QED BY <1>3, <1>4

\* A message that is handled brings no other.
LEMMA NoneComes ==
    ASSUME TypeOK, NEW type, NEW c, NEW k, NEW o, Receives(k, c), ~InNet(type, o)
    PROVE  ~InNet(type, o)'
  <1>. DEFINE m == Msg(type, o)
  <1>1. \A j \in DOMAIN net : net[j] # m
    BY DEF InNet
  <1>2. net \in Seq(Message) /\ net # <<>> /\ net' = Tail(net)
    BY DEF Receives, TypeOK
  <1>3. \A j \in DOMAIN net' : j + 1 \in DOMAIN net /\ net'[j] = net[j + 1]
    BY <1>2
  <1>4. \A j \in DOMAIN net' : net'[j] # m
    BY <1>1, <1>3
  <1>. QED BY <1>4 DEF InNet, Msg

\* What the panel says is not what it does not say.
LEMMA NoneSaid ==
    ASSUME TypeOK, NEW type, NEW c, NEW k, NEW o, Says(k, c), ~InNet(type, o), k # type \/ c # o
    PROVE  ~InNet(type, o)'
  <1>. DEFINE m == Msg(type, o)
  <1>. DEFINE n == Msg(k, c)
  <1>1. \A j \in DOMAIN net : net[j] # m
    BY DEF InNet
  <1>2. n # m
    BY DEF Msg
  <1>3. net \in Seq(Message) /\ net' = Append(net, n)
    BY DEF Says, TypeOK
  <1>. HIDE DEF m, n
  <1>4. \A j \in DOMAIN net' : net'[j] # m
    BY <1>1, <1>2, <1>3
  <1>. QED BY <1>4 DEF InNet, Msg, m

\* A step that has to do with neither the ring, the hang-ups, the network nor the call.
LEMMA ApartStays ==
    ASSUME NEW o \in Outgoing, Apart(o), ring'.cid # o, UNCHANGED hung, peer'[o] = peer[o],
           UNCHANGED net \/ \E k, c : Receives(k, c), TypeOK
    PROVE  Apart(o)'
  <1>1. ~InNet("BYE", o)' /\ ~InNet("re-INVITE", o)'
    BY NoneComes DEF Apart, InNet
  <1>. QED BY <1>1 DEF Apart

\* A hang-up closes calls that were up, and takes `calling` from the one that is placed.
LEMMA HangupSpared ==
    ASSUME TypeOK, NEW o \in Outgoing, Apart(o), call_id # o \/ ~in_call, NEW h \in HangupIds,
           HangupStep(h) \/ TimerFires \/ HangupCut
    PROVE  Spared(o)
  <1>0. o # None /\ "timer" \in HangupIds
    BY NoneAssumption DEF Cid, HangupIds
  <1>1. ASSUME NEW g \in HangupIds, EndsLocally(g) PROVE Spared(o)
    <2>1. \A f \in HangupIds : hung'[f] # o
      BY <1>0, <1>1 DEF EndsLocally, TypeOK, Apart
    <2>2. UNCHANGED <<ring, net, peer, call_id>> /\ ~calling'
      BY <1>1 DEF EndsLocally, ringVars, envVars
    <2>. QED BY <2>1, <2>2 DEF Spared, Apart, InNet
  <1>2. CASE HangupAsked(h) \/ HangupTells(h) \/ HangupTold(h)
    <2>1. UNCHANGED <<ring, net, peer, hung, call_id>>
      BY <1>2 DEF HangupAsked, HangupTells, HangupTold, ringVars, envVars, lineVars
    <2>2. o \in pending_responses => o \in pending_responses'
      BY <1>0, <1>2 DEF HangupAsked, HangupTells, HangupTold, CancelCallTimer, Apart
    <2>. QED BY <2>1, <2>2, ApartStays DEF Spared, Apart
  <1>3. CASE HangupByes(h) \/ HangupRetransmits(h) \/ HangupDone(h)
    <2>1. UNCHANGED <<ring, net, hung>>
      BY <1>3 DEF HangupByes, HangupRetransmits, HangupDone, ringVars, envVars
    <2>2. hung[h] # o
      BY DEF Apart
    <2>3. peer'[o] = peer[o]
      BY <1>3, <2>2, SentElsewhere DEF HangupByes, HangupRetransmits, HangupDone, envVars
    <2>4. call_id' = call_id \/ (call_id = hung[h] /\ call_id' = None)
      BY <1>3 DEF HangupByes, HangupRetransmits, HangupDone, ClearIf, ClearCallState, lineVars
    <2>5. o \in pending_responses => o \in pending_responses'
      BY <1>3, <2>2 DEF HangupByes, HangupRetransmits, HangupDone
    <2>. QED BY <1>0, <2>1, <2>2, <2>3, <2>4, <2>5, ApartStays DEF Spared, Apart
  <1>4. CASE HangupCut
    <2>1. UNCHANGED <<ring, net, hung, call_id, pending_responses>>
      BY <1>4 DEF HangupCut, ringVars, lineVars
    <2>2. hung["timer"] # o
      BY <1>0 DEF Apart
    <2>3. peer'[o] = peer[o]
      BY <1>4, <2>2, SentElsewhere DEF HangupCut
    <2>. QED BY <2>1, <2>3, ApartStays DEF Spared, Apart
  <1>. QED BY <1>0, <1>1, <1>2, <1>3, <1>4 DEF HangupStep, HangupStart, TimerFires

\* An INVITE of the panel is a ring of its own.
LEMMA InviteSpared ==
    ASSUME TypeOK, NEW o \in Outgoing, Apart(o), NEW c \in Cid, InviteStep(c)
    PROVE  Spared(o)
  <1>1. UNCHANGED <<call_id, calling, pending_responses, hung>>
    BY DEF InviteStep, InviteRings, InviteRepeats, InvitePreviews, InviteChecks,
       InviteTells, InviteTold, ReinviteAgrees, ReinviteOpens, lineVars
  <1>2. ASSUME NEW type, InviteRings(c, type) PROVE c # o
    <2>1. InNet(type, c)
      BY <1>2 DEF InviteRings, Receives, InNet, TypeOK
    <2>2. \A k \in DOMAIN net : net[k].type = "INVITE" => net[k].cid \in Incoming
      <3>1. \A m \in Message : m.type = "INVITE" => m.cid \in Incoming
        BY DEF Message
      <3>2. \A k \in DOMAIN net : net[k] \in Message
        BY DEF TypeOK
      <3>. QED BY <3>1, <3>2
    <2>3. type = "INVITE" => c \in Incoming
      BY <2>1, <2>2 DEF InNet, Msg
    <2>. QED BY <1>2, <2>1, <2>3, CidAssumption DEF InviteRings, Apart
  <1>3. ASSUME NEW type, InviteRepeats(c, type) PROVE c # o
    BY <1>3 DEF InviteRepeats, Apart
  <1>4. ring'.cid # o
    <2>1. ASSUME NEW type, InviteRings(c, type) PROVE ring'.cid # o
      BY <1>2, <2>1 DEF InviteRings, Apart
    <2>2. InviteChecks(c) => ring'.cid = ring.cid
      BY DEF InviteChecks, TypeOK
    <2>. QED BY <2>1, <2>2 DEF InviteStep, InviteRepeats, InvitePreviews,
            InviteTells, InviteTold, ReinviteAgrees, ReinviteOpens, ringVars, Apart
  <1>5. peer'[o] = peer[o]
    BY <1>2, <1>3, SentElsewhere DEF InviteStep, InviteRings, InviteRepeats, InvitePreviews, InviteChecks,
       InviteTells, InviteTold, ReinviteAgrees, ReinviteOpens, envVars, RepeatsResponse
  <1>6. UNCHANGED net \/ \E k, d : Receives(k, d)
    BY DEF InviteStep, InviteRings, InviteRepeats, InvitePreviews, InviteChecks,
       InviteTells, InviteTold, ReinviteAgrees, ReinviteOpens, envVars
  <1>. QED BY <1>1, <1>4, <1>5, <1>6, ApartStays DEF Spared

\* The end of a ring is about that ring.
LEMMA RingEndSpared ==
    ASSUME TypeOK, NEW o \in Outgoing, Apart(o), RingEndStep
    PROVE  Spared(o)
  <1>1. UNCHANGED <<call_id, calling, hung>>
    BY DEF RingEndStep, CancelArrives, CancelTerminates, DeclineStart, EchoGone,
       RingEnds, RingEndTells, RingEndTold, lineVars
  <1>2. ring'.cid = ring.cid
    BY DEF RingEndStep, CancelArrives, CancelTerminates, DeclineStart, EchoGone,
       RingEnds, RingEndTells, RingEndTold, ringVars, CloseRing, TypeOK
  <1>3. peer'[o] = peer[o]
    BY SentElsewhere DEF RingEndStep, CancelArrives, CancelTerminates, DeclineStart, EchoGone,
       RingEnds, RingEndTells, RingEndTold, envVars, Ringing, Apart
  <1>4. UNCHANGED net \/ \E k, d : Receives(k, d)
    BY DEF RingEndStep, CancelArrives, CancelTerminates, DeclineStart, EchoGone,
       RingEnds, RingEndTells, RingEndTold, envVars
  <1>5. o \in pending_responses => o \in pending_responses'
    BY DEF RingEndStep, CancelArrives, CancelTerminates, DeclineStart, EchoGone,
       RingEnds, RingEndTells, RingEndTold, Apart
  <1>. QED BY <1>1, <1>2, <1>3, <1>4, <1>5, ApartStays DEF Spared, Apart

\* An answer gives the line to its ring, which is not this call, and finds it free.
LEMMA AnswerSpared ==
    ASSUME TypeOK, HandlerInv, AnswerInv, NEW o \in Outgoing, Apart(o), call_id # o \/ calling,
           NEW c \in Cid, AnswerStep(c)
    PROVE  Spared(o)
  <1>0. o # None /\ "timer" \in HangupIds /\ Answer(c) \in Task
    BY NoneAssumption, Tasks DEF Cid, HangupIds
  <1>1. UNCHANGED hung /\ ring'.cid = ring.cid
    BY DEF AnswerStep, AnswerStart, AnswerConnects, AnswerTells, AnswerTold,
       AckArrives, AckOpens, ringVars, TypeOK
  <1>2. peer'[o] = peer[o]
    BY SentElsewhere DEF AnswerStep, AnswerStart, AnswerConnects, AnswerTells, AnswerTold,
       AckArrives, AckOpens, envVars, Ringing, Apart
  <1>3. UNCHANGED net \/ \E k, d : Receives(k, d)
    BY DEF AnswerStep, AnswerStart, AnswerConnects, AnswerTells, AnswerTold,
       AckArrives, AckOpens, envVars
  <1>4. o \in pending_responses => o \in pending_responses'
    BY <1>0 DEF AnswerStep, AnswerStart, AnswerConnects, AnswerTells, AnswerTold,
       AckArrives, AckOpens, CancelCallTimer, Apart
  <1>5. UNCHANGED call_id \/ (call_id' # o /\ ~calling)
    <2>1. ASSUME AnswerConnects(c) PROVE call_id' # o /\ ~calling
      <3>1. Answering(c)
        BY <2>1 DEF AnswerConnects, At, Answering
      <3>2. c = ring.cid
        BY <3>1 DEF AnswerInv
      <3>3. ~calling
        BY <1>0, <3>1 DEF Answering, HandlerInv, LineInv, Busy
      <3>. QED BY <2>1, <3>2, <3>3 DEF AnswerConnects, Apart
    <2>. QED BY <2>1 DEF AnswerStep, AnswerStart, AnswerTells, AnswerTold, AckArrives, AckOpens, lineVars
  <1>6. UNCHANGED calling
    BY DEF AnswerStep, AnswerStart, AnswerConnects, AnswerTells, AnswerTold, AckArrives, AckOpens, lineVars
  <1>. QED BY <1>1, <1>2, <1>3, <1>4, <1>5, <1>6, ApartStays DEF Spared, Apart

\* A BYE ends a call that is up.
LEMMA ByeSpared ==
    ASSUME TypeOK, ByeInv, NEW o \in Outgoing, Apart(o), call_id # o \/ calling,
           NEW c \in Cid, ByeStep(c)
    PROVE  Spared(o)
  <1>0. o # None /\ "timer" \in HangupIds /\ Bye(c) \in Task
    BY NoneAssumption, Tasks DEF Cid, HangupIds
  <1>1. UNCHANGED <<hung, ring, peer, calling>>
    BY DEF ByeStep, ByeArrives, ByeEnds, ByeTells, ByeTold, ringVars, envVars, lineVars
  <1>3. UNCHANGED net \/ \E k, d : Receives(k, d)
    BY DEF ByeStep, ByeArrives, ByeEnds, ByeTells, ByeTold, envVars
  <1>4. CASE ByeEnds(c)
    <2>1. ~calling /\ call_id' = None
      BY <1>4 DEF ByeEnds, At, ByeInv, ClearCallState
    <2>. QED BY <1>0, <1>1, <1>3, <2>1, ApartStays DEF Spared, Apart
  <1>5. CASE ~ByeEnds(c)
    <2>1. UNCHANGED call_id
      BY <1>5 DEF ByeStep, ByeArrives, ByeTells, ByeTold, lineVars
    <2>2. o \in pending_responses => o \in pending_responses'
      BY <1>0, <1>5 DEF ByeStep, ByeArrives, ByeTells, ByeTold, CancelCallTimer, Apart
    <2>. QED BY <1>1, <1>3, <2>1, <2>2, ApartStays DEF Spared, Apart
  <1>. QED BY <1>4, <1>5

\* The panel has nothing to end.
LEMMA PanelSpared ==
    ASSUME TypeOK, NEW o \in Outgoing, Apart(o), Panel
    PROVE  Spared(o)
  <1>1. UNCHANGED <<call_id, calling, pending_responses, hung, ring>>
    BY PanelStill DEF lineVars, ringVars
  <1>2. UNCHANGED net \/ \E k, c : Says(k, c) /\ (c # o \/ k \notin {"BYE", "re-INVITE"})
    BY DEF Panel, PanelAnswers, PanelRejects, PanelAnswersAgain, PanelRings, PanelRingsAgain,
       PanelCancels, PanelAcks, PanelByes, PanelReinvites, Apart
  <1>3. ~InNet("BYE", o)' /\ ~InNet("re-INVITE", o)'
    BY <1>2, NoneSaid DEF Apart, InNet
  <1>4. peer'[o] \in {"none", "trying", "answered", "down"} /\ (peer[o] = "none" => peer'[o] = "none")
    BY CidAssumption DEF Panel, PanelAnswers, PanelRejects, PanelAnswersAgain, PanelRings, PanelRingsAgain,
       PanelCancels, PanelAcks, PanelByes, PanelReinvites, Apart, TypeOK, Cid
  <1>. QED BY <1>1, <1>3, <1>4 DEF Spared, Apart

\* Another do_call has its own call.
LEMMA CallSpared ==
    ASSUME TypeOK, NEW o \in Outgoing, Apart(o), call_id # o \/ calling, NEW p \in Outgoing, p # o, CallStep(p)
    PROVE  Spared(o)
  <1>0. o # None /\ "timer" \in HangupIds
    BY NoneAssumption DEF Cid, HangupIds
  <1>1. UNCHANGED <<hung, ring>>
    BY DEF CallStep, CallStart, CallListens, CallRetransmits, CallCancelled,
       CallRejected, CallTimesOut, CallAnswered, CallOpensMedia, CallConnects, CallStarted,
       CallAnnulled, CallForgotten, CallLeaves, DispatchFinal, ringVars
  <1>2. peer'[o] = peer[o]
    <2>1. CASE CallAnswered(p)
      <3>1. AckThenBye(p) \/ AckThenByeFails(p) \/ Sends(p, "ACK") => peer'[o] = peer[o]
        BY SentElsewhere, ClosedElsewhere
      <3>. QED BY <2>1, <3>1 DEF CallAnswered
    <2>2. ASSUME NEW type, DispatchFinal(p, type) PROVE peer'[o] = peer[o]
      <3>1. OrphanReply(p) \/ AckThenByeFails(p) => peer'[o] = peer[o]
        BY SentElsewhere, ClosedElsewhere DEF OrphanReply
      <3>. QED BY <2>2, <3>1 DEF DispatchFinal
    <2>. QED BY <2>1, <2>2, SentElsewhere DEF CallStep, CallStart, CallListens, CallRetransmits,
       CallCancelled, CallRejected, CallTimesOut, CallOpensMedia, CallConnects, CallStarted,
       CallAnnulled, CallForgotten, CallLeaves, Annulled, envVars
  <1>3. UNCHANGED net \/ \E k, d : Receives(k, d)
    BY DEF CallStep, CallStart, CallListens, CallRetransmits, CallCancelled,
       CallRejected, CallTimesOut, CallAnswered, CallOpensMedia, CallConnects, CallStarted,
       CallAnnulled, CallForgotten, CallLeaves, DispatchFinal, envVars
  <1>4. o \in pending_responses => o \in pending_responses'
    BY <1>0 DEF CallStep, CallStart, CallListens, CallRetransmits, CallCancelled,
       CallRejected, CallTimesOut, CallAnswered, CallOpensMedia, CallConnects, CallStarted,
       CallAnnulled, CallForgotten, CallLeaves, Leaves, DispatchFinal, CancelCallTimer, Apart
  <1>5. UNCHANGED call_id \/ (call_id' = p /\ ~calling) \/ (call_id' = None /\ ~calling')
    BY DEF CallStep, CallStart, CallListens, CallRetransmits, CallCancelled,
       CallRejected, CallTimesOut, CallAnswered, CallOpensMedia, CallConnects, CallStarted,
       CallAnnulled, CallForgotten, CallLeaves, Leaves, DispatchFinal, lineVars, MayCall, Busy,
       ClearIf, ClearCallState
  <1>. QED BY <1>0, <1>1, <1>2, <1>3, <1>4, <1>5, ApartStays DEF Spared, Apart

\* Whatever do_call does not do itself spares a call that is not up.
LEMMA OthersSpare ==
    ASSUME TypeOK, HandlerInv, AnswerInv, ByeInv, NEW o \in Outgoing, Apart(o), call_id # o \/ calling,
           Next, ~CallStep(o)
    PROVE  Spared(o)
  <1>0. call_id # o \/ ~in_call
    BY DEF HandlerInv, LineInv, LineExclusive
  <1>1. "timer" \in HangupIds
    BY DEF HangupIds
  <1>. QED BY <1>0, <1>1, CallSpared, HangupSpared, InviteSpared, RingEndSpared, AnswerSpared, ByeSpared, PanelSpared DEF Next

\* A call is placed once.
LEMMA FreshStep ==
    ASSUME TypeOK, HandlerInv, AnswerInv, ByeInv, FreshInv, [Next]_vars
    PROVE  FreshInv'
  <1>. SUFFICES ASSUME NEW o \in Outgoing, pc'[Call(o)] = "idle"
                PROVE  Apart(o)' /\ peer'[o] = "none" /\ call_id' # o
    BY DEF FreshInv
  <1>0. Call(o) \in Task /\ o # None
    BY Tasks, NoneAssumption DEF Cid
  <1>1. CallStep(o) => pc[Call(o)] = "idle" /\ \E type : DispatchFinal(o, type)
    BY <1>0 DEF CallStep, CallStart, CallListens, CallRetransmits, CallCancelled,
       CallRejected, CallTimesOut, CallAnswered, CallOpensMedia, CallConnects, CallStarted,
       CallAnnulled, CallForgotten, CallLeaves, DispatchFinal, Annulled, Leaves, CancelCallTimer,
       Await, WaitsAt, Continues, At, Waiting, Reads, Free, TypeOK
  <1>2. pc[Call(o)] = "idle"
    BY <1>1, MovedByCall
  <1>3. Apart(o) /\ peer[o] = "none" /\ call_id # o
    BY <1>2 DEF FreshInv
  <1>4. CASE UNCHANGED vars
    BY <1>3, <1>4 DEF vars, lineVars, ringVars, envVars, Apart, InNet
  <1>5. CASE Next /\ ~CallStep(o)
    BY <1>3, <1>5, OthersSpare DEF Spared
  <1>6. CASE CallStep(o)
    <2>1. PICK type : DispatchFinal(o, type)
      BY <1>1, <1>6
    <2>2. peer'[o] = "none"
      <3>1. Sends(o, "ACK") => peer'[o] = "none"
        BY <1>3 DEF Sends, Reaction, TypeOK, Cid
      <3>2. OrphanReply(o) \/ AckThenByeFails(o) => peer'[o] = "none"
        BY <1>3, <3>1, ClosedUnbegun DEF OrphanReply
      <3>. QED BY <1>3, <2>1, <3>1, <3>2 DEF DispatchFinal
    <2>3. UNCHANGED <<ring, hung, call_id>> /\ Receives(type, o)
      BY <2>1 DEF DispatchFinal, ringVars, lineVars
    <2>. QED BY <1>3, <2>2, <2>3, ApartStays DEF Apart
  <1>. QED BY <1>4, <1>5, <1>6

\* Nobody else begins a call.
LEMMA CallingStarts ==
    ASSUME ~calling, calling', [Next]_vars
    PROVE  \E o \in Outgoing : CallStart(o)
  <1>1. ASSUME NEW o \in Outgoing, CallStep(o) PROVE CallStart(o)
    BY <1>1 DEF CallStep, CallListens, CallRetransmits, CallCancelled,
       CallRejected, CallTimesOut, CallAnswered, CallOpensMedia, CallConnects, CallStarted,
       CallAnnulled, CallForgotten, CallLeaves, Leaves, DispatchFinal, lineVars
  <1>2. \A h \in HangupIds : ~HangupStep(h)
    BY DEF HangupStep, HangupAsked, HangupStart, HangupTells, HangupTold, HangupByes, EndsLocally,
       HangupRetransmits, HangupDone, lineVars
  <1>3. ~(TimerFires \/ HangupCut)
    BY DEF TimerFires, HangupCut, EndsLocally, lineVars
  <1>4. \A c \in Cid : ~InviteStep(c)
    BY DEF InviteStep, InviteRings, InviteRepeats, InvitePreviews, InviteChecks,
       InviteTells, InviteTold, ReinviteAgrees, ReinviteOpens, lineVars
  <1>5. \A c \in Cid : ~AnswerStep(c)
    BY DEF AnswerStep, AnswerStart, AnswerConnects, AnswerTells, AnswerTold, AckArrives, AckOpens, lineVars
  <1>6. \A c \in Cid : ~ByeStep(c)
    BY DEF ByeStep, ByeArrives, ByeEnds, ByeTells, ByeTold, lineVars
  <1>7. ~RingEndStep
    BY DEF RingEndStep, CancelArrives, CancelTerminates, DeclineStart, EchoGone,
       RingEnds, RingEndTells, RingEndTold, lineVars
  <1>8. ~Panel /\ ~UNCHANGED vars
    BY PanelStill DEF vars, lineVars
  <1>. QED BY <1>1, <1>2, <1>3, <1>4, <1>5, <1>6, <1>7, <1>8 DEF Next

\* do_call goes on from where it held `calling` to where it does next, or clears it.
LEMMA HeldGoes ==
    ASSUME TypeOK, Unsuspended, ~SendFails, HandlerInv, NEW o \in Outgoing, calling, call_id = o, Held(o),
           CallStep(o), calling'
    PROVE  call_id' = o /\ Held(o)'
  <1>0. Call(o) \in Task /\ Call(o) # None /\ ~in_call
    BY Tasks, NoneAssumption DEF HandlerInv, LineInv, LineExclusive
  <1>1. CASE CallListens(o)
    BY <1>0, <1>1 DEF CallListens, At, Held, WaitsAt, lineVars, ringVars, envVars, Apart, InNet, TypeOK
  <1>2. CASE CallRetransmits(o)
    <2>1. peer[o] = "none" /\ pc[Call(o)] = "waiting" /\ loop = None
      BY <1>2 DEF CallRetransmits, Waiting
    <2>2. peer'[o] \in {"none", "trying"}
      BY <1>2, <2>1 DEF CallRetransmits, Sends, Reaction, TypeOK, Cid
    <2>. QED BY <1>0, <1>2, <2>1, <2>2 DEF CallRetransmits, Held, lineVars, ringVars, Apart, InNet
  <1>3. CASE CallCancelled(o) \/ CallRejected(o) \/ CallAnswered(o)
    <2>1. pc'[Call(o)] \in {"leaving", "accepted"} /\ loop' = Call(o)
      BY <1>0, <1>3 DEF CallCancelled, CallRejected, CallAnswered, AckThenByeFails, Await, Unsuspended, TypeOK
    <2>. QED BY <1>3, <2>1 DEF CallCancelled, CallRejected, CallAnswered, lineVars, Held
  <1>4. CASE CallOpensMedia(o)
    <2>1. pc'[Call(o)] = "connected" /\ loop' = Call(o)
      BY <1>0, <1>4 DEF CallOpensMedia, Annulled, Await, Unsuspended, TypeOK
    <2>. QED BY <1>4, <2>1 DEF CallOpensMedia, Held
  <1>5. \A type : ~DispatchFinal(o, type) \/ Held(o)'
    <2>. SUFFICES ASSUME NEW type, DispatchFinal(o, type) PROVE Held(o)'
      OBVIOUS
    <2>1. loop = None /\ UNCHANGED <<loop, pc, pending_responses, ring, hung>> /\ Receives(type, o)
      BY DEF DispatchFinal, ringVars
    <2>2. pc[Call(o)] = "waiting" /\ o \in pending_responses /\ Apart(o)
      BY <1>0, <2>1 DEF Held
    <2>3. UNCHANGED peer
      BY <1>0, <2>2 DEF DispatchFinal
    <2>. QED BY <2>1, <2>2, <2>3, ApartStays DEF Held, Apart
  <1>6. ~CallStart(o) /\ ~CallStarted(o) /\ ~CallAnnulled(o)
    BY <1>0 DEF CallStart, CallStarted, CallAnnulled, Free, At, Held
  <1>7. ~CallTimesOut(o) /\ ~CallConnects(o) /\ ~CallForgotten(o) /\ ~CallLeaves(o)
    BY DEF CallTimesOut, CallConnects, Annulled, CallForgotten, CallLeaves, Leaves
  <1>8. (\E type : DispatchFinal(o, type)) => call_id' = o
    BY DEF DispatchFinal, lineVars
  <1>. QED BY <1>1, <1>2, <1>3, <1>4, <1>5, <1>6, <1>7, <1>8 DEF CallStep

\* A do_call holds `calling` until it clears it, whatever the others do.
LEMMA HeldStep ==
    ASSUME TypeOK, Unsuspended, ~SendFails, HandlerInv, AnswerInv, ByeInv, FreshInv, HeldInv, [Next]_vars
    PROVE  HeldInv'
  <1>. SUFFICES ASSUME calling' PROVE call_id' \in Outgoing /\ Held(call_id)'
    BY DEF HeldInv
  <1>1. CASE ~calling
    <2>1. PICK o \in Outgoing : CallStart(o)
      BY <1>1, CallingStarts
    <2>2. Call(o) \in Task
      BY Tasks
    <2>3. Apart(o) /\ peer[o] = "none"
      BY <2>1 DEF CallStart, Free, FreshInv
    <2>4. call_id' = o /\ pc'[Call(o)] = "invited" /\ loop' = Call(o)
      BY <2>1, <2>2 DEF CallStart, Await, Unsuspended, TypeOK
    <2>5. peer'[o] \in {"none", "trying"}
      BY <2>1, <2>3 DEF CallStart, Sends, Reaction, TypeOK, Cid
    <2>6. Apart(o)'
      BY <2>1, <2>3, <2>5 DEF CallStart, Apart, InNet, ringVars
    <2>. QED BY <2>4, <2>6 DEF Held
  <1>2. CASE calling
    <2>0. call_id \in Outgoing /\ Held(call_id)
      BY <1>2 DEF HeldInv
    <2>. DEFINE o == call_id
    <2>1. CASE UNCHANGED vars
      BY <2>0, <2>1 DEF vars, lineVars, ringVars, envVars, Held, Apart, InNet
    <2>2. CASE CallStep(o)
      BY <1>2, <2>0, <2>2, HeldGoes
    <2>3. CASE Next /\ ~CallStep(o) /\ ~UNCHANGED vars
      <3>1. pc'[Call(o)] = pc[Call(o)]
        BY <2>0, <2>3, MovedByCall
      <3>2. CASE loop = Call(o)
        <4>1. Panel
          BY <2>0, <2>3, <3>2, HeldByCall
        <4>2. UNCHANGED <<call_id, loop, pc, pending_responses>>
          BY <4>1, PanelStill DEF lineVars
        <4>3. Apart(o) => Apart(o)'
          BY <2>0, <4>1, <4>2, PanelSpared DEF Spared
        <4>. QED BY <2>0, <3>1, <4>2, <4>3 DEF Held
      <3>3. CASE loop # Call(o)
        <4>1. pc[Call(o)] = "waiting" /\ o \in pending_responses /\ Apart(o)
          BY <2>0, <3>3 DEF Held
        <4>2. Spared(o)
          BY <1>2, <2>0, <2>3, <4>1, OthersSpare
        <4>3. call_id' = o /\ o \in pending_responses' /\ Apart(o)'
          BY <1>2, <4>1, <4>2 DEF Spared
        <4>. QED BY <2>0, <3>1, <4>1, <4>3 DEF Held
      <3>. QED BY <3>2, <3>3
    <2>. QED BY <2>1, <2>2, <2>3
  <1>. QED BY <1>1, <1>2

\* A BYE that is handled found the call up, and handling it keeps the loop.
LEMMA ByeStays ==
    ASSUME TypeOK, Unsuspended, ~SendFails, HeldInv, ByeInv, [Next]_vars
    PROVE  ByeInv'
  <1>. SUFFICES ASSUME NEW c \in Cid, pc'[Bye(c)] = "known"
                PROVE  loop' = Bye(c) /\ ~calling'
    BY DEF ByeInv
  <1>0. Bye(c) \in Task
    BY Tasks
  <1>1. CASE pc[Bye(c)] = "known"
    <2>1. loop = Bye(c) /\ ~calling
      BY <1>1 DEF ByeInv
    <2>2. ~ByeStep(c)
      <3>1. SUFFICES ASSUME ByeStep(c) PROVE FALSE
        OBVIOUS
      <3>2. ByeEnds(c)
        BY <1>1, <3>1 DEF ByeStep, ByeArrives, ByeTells, ByeTold, At, Free
      <3>. QED BY <1>0, <3>2 DEF ByeEnds, Await, Ends, WaitsAt, TypeOK
    <2>3. Panel \/ UNCHANGED vars
      BY <2>1, <2>2, HeldByBye
    <2>. QED BY <2>1, <2>3, PanelStill DEF vars, lineVars
  <1>2. CASE pc[Bye(c)] # "known"
    <2>1. ByeArrives(c)
      BY <1>0, <1>2, MovedByBye DEF ByeStep, ByeEnds, ByeTells, ByeTold, CancelCallTimer, Await, Ends, WaitsAt, TypeOK
    <2>2. c = call_id /\ loop' = Bye(c) /\ loop = None /\ InNet("BYE", c) /\ UNCHANGED calling
      <3>1. pc' # pc
        BY <1>2
      <3>2. c = call_id /\ Await(Bye(c), "send", "known")
        BY <2>1, <3>1 DEF ByeArrives
      <3>3. net # <<>> /\ Head(net) = Msg("BYE", c) /\ net \in Seq(Message)
        BY <2>1 DEF ByeArrives, Receives, TypeOK
      <3>4. 1 \in DOMAIN net /\ net[1] = Msg("BYE", c)
        BY <3>3
      <3>. QED BY <2>1, <3>2, <3>4 DEF ByeArrives, Await, Unsuspended, Free, Idle, InNet, lineVars
    <2>3. ~calling
      <3>1. calling => c \in Outgoing /\ Held(c)
        BY <2>2 DEF HeldInv
      <3>2. c \in Outgoing => Call(c) # None
        BY Tasks, NoneAssumption
      <3>. QED BY <2>2, <3>1, <3>2 DEF Held, Apart
    <2>. QED BY <2>2, <2>3
  <1>. QED BY <1>1, <1>2

-----------------------------------------------------------------------------
\* What holds between any two steps of any number of calls, rings and hang-ups.
HubToldInv == "emit" \notin Yields => TimedInv
AllSentInv == ~SendFails => ArmedInv /\ RingingInv /\ FreshInv /\ HeldInv /\ ByeInv

\* At first nobody has the line.
LEMMA InitEnds == Init => HubToldInv /\ AllSentInv
  <1>1. Init => HubToldInv
    BY Tasks DEF Init, HubToldInv, TimedInv, BoundedInv, ToldInv, Enders
  <1>2. Init => ArmedInv
    BY DEF Init, ArmedInv
  <1>3. Init => RingingInv /\ ByeInv
    BY Tasks DEF Init, RingingInv, ByeInv
  <1>4. Init => FreshInv
    BY NoneAssumption DEF Init, FreshInv, Apart, InNet, Cid
  <1>5. Init => HeldInv
    BY DEF Init, HeldInv
  <1>. QED BY <1>1, <1>2, <1>3, <1>4, <1>5 DEF AllSentInv

\* Once everything has settled, only what ends the use of the line is left.
LEMMA EndsFollow == ASSUME HubToldInv, AllSentInv PROVE EndsAreSet
  <1>1. Settled /\ TimedInv => (in_call => call_timer)
    BY HangupNames, Tasks DEF Settled, TimedInv, BoundedInv, Starting, Stopping
  <1>2. Settled /\ ArmedInv => (ring.active => ring_timer = ring.cid)
    BY Tasks DEF Settled, ArmedInv, Arming
  <1>3. HeldInv => CallingHasTask
    <2>. SUFFICES ASSUME HeldInv, loop = None, calling
                  PROVE  call_id \in Outgoing /\ pc[Call(call_id)] = "waiting"
      BY DEF CallingHasTask
    <2>1. call_id \in Outgoing /\ Held(call_id)
      BY DEF HeldInv
    <2>2. Call(call_id) # None
      BY <2>1, Tasks, NoneAssumption
    <2>. QED BY <2>1, <2>2 DEF Held
  <1>. QED BY <1>1, <1>2, <1>3 DEF HubToldInv, AllSentInv, EndsAreSet, CallTimed, RingTimed

\* Nothing takes the line that will not end: a call that is up has the hub's timer, a ring its own
\* 90 s timer and `calling` its do_call (EndsAreSet), provided that sending and the RTCP probes do
\* not suspend; the first also that the hub is told without a break, the others that no send fails.
THEOREM EndsSet == ASSUME Unsuspended PROVE Spec => []EndsAreSet
  <1>1. TypeOK /\ HubToldInv /\ [Next]_vars => HubToldInv'
    BY TimedStep DEF HubToldInv
  <1>2. TypeOK /\ HandlerInv /\ AnswerInv /\ AllSentInv /\ [Next]_vars => AllSentInv'
    BY ArmedStep, RingingStep, FreshStep, HeldStep, ByeStays DEF AllSentInv
  <1>3. TypeOK /\ HandlerInv /\ AnswerInv /\ [Next]_vars => AnswerInv'
    BY NextMoves, AnswerKept
  <1>4. HubToldInv /\ AllSentInv => EndsAreSet
    BY EndsFollow
  <1>. QED BY <1>1, <1>2, <1>3, <1>4, TypeCorrect, HandlersAgree, InitEnds, InitAnswer, PTL DEF Spec
=============================================================================
