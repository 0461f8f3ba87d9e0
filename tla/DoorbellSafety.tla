--------------------------- MODULE DoorbellSafety ---------------------------
(***************************************************************************)
(* The parts of the doorbell, for any number of visitors, test rings, codes, *)
(* packets, decoders and frames, each by an invariant of its own.  The ring  *)
(* desk (RingDesk): each visitor is announced, counted and logged as what it *)
(* came to.  One ring is told, answered or over at a time (PhaseInv); what   *)
(* it came to so far is in the flags (FlagInv), and the count and the log    *)
(* are behind by that ring and by the queue (CountedInv, LogInv).  The setup *)
(* code, the voice and the pictures (HomeKitPairing, HomeKitTalk,            *)
(* RingFiles): the code in force is the last one saved or about to be        *)
(* (PairInv), the decoder that runs is the one that is named (TalkInv), what *)
(* is held and piped is in order (OrderInv), and what is filmed is of the    *)
(* visitor at the door (FilesInv).                                           *)
(***************************************************************************)
EXTENDS MCDoorbell, FiniteSetTheorems, SequenceTheorems, TLAPS

-----------------------------------------------------------------------------
(* RingDesk: the visitors.                                                   *)

\* The bounds of rung, and what a visit may come to.
Visitors == 1..MaxRings
Outcomes == {"missed", "answered", "away", "declined"}
\* What the desk reads and writes of the hub.
HubType == [was : BOOLEAN, answered : BOOLEAN, declined : BOOLEAN, ring : 0..MaxRings, missed : Nat,
            sim : BOOLEAN, away_on : BOOLEAN, sims : Nat]
\* The types the steps keep; TypeOK asks less of hub.
DeskTypes ==
    /\ rung \in 0..MaxRings /\ {call, declining} \subseteq 0..MaxRings
    /\ pending \in [ring : Visitors, told : BOOLEAN] \cup {None}
    /\ answering \in [ring : Visitors, by : {"user", "away"}, up : BOOLEAN] \cup {None}
    /\ endings \in Seq([ring : Visitors, declined : BOOLEAN])
    /\ hub \in HubType
    /\ away \in [ring : Visitors, step : {"delay", "load", "answer", "play"}] \cup {None}
    /\ hooks \in [started : Nat, ended : Nat]
    /\ announced \subseteq Visitors /\ claimed \in BOOLEAN
    /\ log \in [Visitors -> Outcomes \cup {None}] /\ truth \in [Visitors -> Outcomes \cup {None}]
    /\ logq \in Seq([ring : Visitors, outcome : Outcomes])

\* A ring is told, then it is answered, declined or over, and it is of the last visitor.  It may
\* be over while its decline is sent: then its end is told twice, the second time as declined.
IsTold == pending # None /\ pending.told
InHand == IsTold \/ answering # None \/ endings # <<>> \/ declining # 0
PhaseInv ==
    /\ pending # None => pending.ring = rung /\ call = 0 /\ answering = None /\ endings = <<>>
    /\ declining # 0 => /\ declining = rung /\ call = 0 /\ answering = None
                        /\ pending # None => pending.told
    /\ answering # None => /\ answering.ring = rung /\ endings = <<>>
                           /\ call \in IF answering.up THEN {0, rung} ELSE {0}
    /\ endings # <<>> => /\ Len(endings) \in {1, 2} /\ call = 0
                         /\ \A i \in 1..Len(endings) : endings[i].ring = rung
                         /\ Len(endings) = 2 => ~endings[1].declined /\ endings[2].declined
                         /\ declining # 0 => Len(endings) = 1 /\ ~endings[1].declined
    /\ call # 0 => call = rung
    /\ InHand \/ call # 0 => hub.ring = rung
    /\ hub.ring # 0 => hub.ring \in announced
    /\ hub.ring <= rung /\ (pending # None /\ ~pending.told => hub.ring < rung)
\* The doorbell event and the end that follows it.
HookInv ==
    /\ hub.sim => hub.was /\ ~InHand
    /\ hub.was => hub.sim \/ InHand
    /\ hooks.started = hooks.ended + IF hub.was THEN 1 ELSE 0
\* What _ring_answered and _ring_declined say of a ring that is not answered yet.
FlagInv ==
    /\ IsTold => ~hub.answered /\ hub.declined = (declining # 0)
    /\ answering # None /\ ~answering.up => ~hub.answered /\ ~hub.declined
    /\ declining # 0 => ~hub.answered /\ hub.declined
    /\ endings # <<>> => ~hub.answered /\ hub.declined = (declining # 0 \/ endings[Len(endings)].declined)
\* The away message answers its ring, and plays in its own call until somebody takes it.
AwayInv ==
    /\ away # None => away.ring <= hub.ring
    /\ away # None /\ away.step = "answer" => answering # None /\ answering.by = "away"
    /\ answering # None /\ answering.by = "away" =>
          away # None /\ away.step = "answer" /\ away.ring = answering.ring /\ (answering.up => ~claimed)
    /\ away # None /\ away.step = "play" =>
          /\ InHand => away.ring < rung
          /\ call = away.ring => truth[call] = "away" /\ ~claimed
\* What became of the visitors that were told, and how many are counted as missed: a ring that
\* is not over is not counted yet.
TruthInv ==
    /\ \A c \in Visitors : truth[c] # None => c \in announced /\ c <= hub.ring
    /\ hub.ring # 0 => truth[hub.ring] # None
    /\ IsTold \/ endings # <<>> \/ declining # 0 \/ (answering # None /\ ~answering.up) => truth[rung] = "missed"
    /\ call # 0 /\ answering = None => truth[rung] # "missed"
Missed == { c \in Visitors : truth[c] = "missed" }
CountedInv == Cardinality(Missed) = hub.missed + IF InHand /\ truth[rung] = "missed" THEN 1 ELSE 0
DeskInv == DeskTypes /\ PhaseInv /\ HookInv /\ FlagInv /\ AwayInv /\ TruthInv /\ CountedInv
\* The log becomes what the queued changes make of it: the last of a visitor's changes is its
\* outcome, and no change comes before the line it changes.
LogInv ==
    /\ \A c \in Visitors : (\A i \in DOMAIN logq : logq[i].ring # c) => log[c] = truth[c]
    /\ \A i \in DOMAIN logq :
          (\A j \in DOMAIN logq : j > i => logq[j].ring # logq[i].ring) => truth[logq[i].ring] = logq[i].outcome
    /\ \A i \in DOMAIN logq :
          logq[i].outcome = "missed" \/ log[logq[i].ring] # None
          \/ \E j \in DOMAIN logq : j < i /\ logq[j].ring = logq[i].ring /\ logq[j].outcome = "missed"
    /\ \A c \in Visitors : truth[c] # None => log[c] # None \/ \E j \in DOMAIN logq : logq[j].ring = c /\ logq[j].outcome = "missed"

\* A step changes the log and its queue in no other way.
LogGoes ==
    \/ UNCHANGED <<log, logq, truth>>
    \/ \E c \in Visitors, o \in Outcomes :
          /\ logq' = Append(logq, [ring |-> c, outcome |-> o]) /\ truth' = [truth EXCEPT ![c] = o] /\ log' = log
          /\ o = "missed" \/ truth[c] # None
\* The ring before is over when the next one comes, is told before it ends, is not answered while
\* its decline is sent, and the away message is not cut while it answers: what the cases assume.
Apart(f) == {"overlap", "early", "both", "cut"} \cap f = {}

\* The missed visitors can be counted.
LEMMA MissedCounted ==
    IsFiniteSet(Missed) /\ Cardinality(Missed) \in Nat
  <1>1. IsFiniteSet(Visitors)
    BY FS_Interval, RingsAssumption DEF Visitors
  <1>2. Missed \subseteq Visitors
    BY DEF Missed
  <1>3. IsFiniteSet(Missed)
    BY <1>1, <1>2, FS_Subset
  <1>4. QED BY <1>3, FS_CardinalityType

\* A flag that is set keeps the hub's type.
LEMMA HubTyped ==
    ASSUME NEW h \in HubType, NEW b \in BOOLEAN
    PROVE  /\ [h EXCEPT !.declined = b] \in HubType /\ [h EXCEPT !.away_on = b] \in HubType
           /\ [h EXCEPT !.answered = b] \in HubType
  BY DEF HubType

\* What is left of one or two elements without the first, and one element with another.
LEMMA OneOrTwo ==
    ASSUME NEW S, NEW q \in Seq(S), NEW e \in S
    PROVE  /\ q # <<>> => Head(q) = q[1] /\ Tail(q) \in Seq(S)
           /\ Len(q) = 1 => /\ Tail(q) = <<>> /\ Append(q, e)[1] = q[1] /\ Append(q, e)[2] = e
                            /\ Len(Append(q, e)) = 2
           /\ Len(q) = 2 => Tail(q) # <<>> /\ Len(Tail(q)) = 1 /\ Tail(q)[1] = q[2]
           /\ Append(q, e) \in Seq(S)
  <1>1. ASSUME q # <<>> PROVE Head(q) = q[1] /\ Tail(q) \in Seq(S)
    BY <1>1, HeadTailProperties
  <1>2. ASSUME Len(q) = 1
        PROVE  /\ Tail(q) = <<>> /\ Append(q, e)[1] = q[1] /\ Append(q, e)[2] = e
               /\ Len(Append(q, e)) = 2
    <2>1. q # <<>>
      BY <1>2
    <2>2. Len(Tail(q)) = 0 /\ Tail(q) \in Seq(S)
      BY <1>2, <2>1, HeadTailProperties
    <2>3. Tail(q) = <<>>
      BY <2>2, EmptySeq
    <2>. QED BY <1>2, <2>3, AppendProperties
  <1>3. ASSUME Len(q) = 2 PROVE Tail(q) # <<>> /\ Len(Tail(q)) = 1 /\ Tail(q)[1] = q[2]
    <2>1. q # <<>>
      <3>1. q = <<>> => Len(q) = 0
        BY EmptySeq
      <3>. QED BY <1>3, <3>1
    <2>2. Len(Tail(q)) = 1 /\ Tail(q)[1] = q[1 + 1]
      BY <1>3, <2>1, HeadTailProperties
    <2>. QED BY <2>2
  <1>4. Append(q, e) \in Seq(S)
    BY AppendProperties
  <1>. QED BY <1>1, <1>2, <1>3, <1>4

\* An event that is counted keeps the type of the counts.
LEMMA HooksTyped ==
    ASSUME NEW h \in [started : Nat, ended : Nat], NEW n \in Nat
    PROVE  /\ [h EXCEPT !.started = @ + n] \in [started : Nat, ended : Nat]
           /\ [h EXCEPT !.ended = @ + n] \in [started : Nat, ended : Nat]
  BY SMT

\* A visitor nobody answered yet: one more is missed.
LEMMA OneMore ==
    ASSUME truth \in [Visitors -> Outcomes \cup {None}], NEW c \in Visitors, truth[c] # "missed",
           truth' = [truth EXCEPT ![c] = "missed"]
    PROVE  Cardinality(Missed') = Cardinality(Missed) + 1
  <1>1. Missed' = Missed \cup {c} /\ c \notin Missed
    BY DEF Missed
  <1>2. QED BY <1>1, MissedCounted, FS_AddElement

\* A visitor that was not missed is not missed by another outcome.
LEMMA NoneMore ==
    ASSUME truth \in [Visitors -> Outcomes \cup {None}], NEW c \in Visitors, truth[c] # "missed",
           NEW o, o # "missed", truth' = [truth EXCEPT ![c] = o]
    PROVE  Missed' = Missed
  BY DEF Missed

\* A visitor that was missed and is answered or declined after all: one less.
LEMMA OneLess ==
    ASSUME truth \in [Visitors -> Outcomes \cup {None}], NEW c \in Visitors, truth[c] = "missed",
           NEW o, o # "missed", truth' = [truth EXCEPT ![c] = o]
    PROVE  Cardinality(Missed') = Cardinality(Missed) - 1
  <1>1. Missed' = Missed \ {c} /\ c \in Missed
    BY DEF Missed
  <1>2. QED BY <1>1, MissedCounted, FS_RemoveElement

\* The SIP side has a ring: nothing is told of it yet.
LEMMA InviteKeeps ==
    ASSUME NEW f, Apart(f), DeskInv, R(f)!Invite
    PROVE  DeskInv' /\ LogGoes
  <1>. USE RingsAssumption DEF Visitors, Outcomes, Apart, DeskInv
  <1>1. DeskTypes'
    BY DEF R!Invite, R!logVars, DeskTypes
  <1>2. PhaseInv'
    BY DEF R!Invite, R!Apart, R!Settled, DeskTypes, HubType, PhaseInv, IsTold, InHand
  <1>3. HookInv'
    BY DEF R!Invite, R!Ringing, HubType, PhaseInv, HookInv, IsTold, InHand
  <1>4. FlagInv'
    BY DEF R!Invite, HubType, PhaseInv, FlagInv, IsTold, InHand
  <1>5. AwayInv'
    BY DEF R!Invite, DeskTypes, HubType, PhaseInv, AwayInv, IsTold, InHand
  <1>6. TruthInv'
    BY DEF R!Invite, R!Apart, R!Settled, HubType, PhaseInv, TruthInv, IsTold, InHand
  <1>7. CountedInv'
    BY DEF R!Invite, R!Ringing, R!Apart, R!Settled, HubType, PhaseInv, FlagInv, TruthInv,
       CountedInv, IsTold, InHand, Missed
  <1>8. LogGoes
    BY DEF R!Invite, R!logVars, LogGoes
  <1>. QED BY <1>1, <1>2, <1>3, <1>4, <1>5, <1>6, <1>7, <1>8

\* The ring reaches the hub: a test ring ends, the flags are reset, the visitor is announced and
\* entered as missed, and the away message may be started.
LEMMA RingToldKeeps ==
    ASSUME NEW f, Apart(f), DeskInv, R(f)!RingTold
    PROVE  DeskInv' /\ LogGoes
  <1>. USE RingsAssumption DEF Visitors, Outcomes, Apart, DeskInv
  <1>a. /\ pending # None /\ ~pending.told /\ pending.ring = rung /\ rung \in Visitors /\ call = 0
        /\ answering = None /\ endings = <<>> /\ declining = 0 /\ ~InHand /\ hub.ring < rung
    BY DEF R!RingTold, R!Ringing, DeskTypes, PhaseInv, IsTold, InHand
  <1>b. pending' = [ring |-> rung, told |-> TRUE] /\ pending' # None
    <2>1. pending' = [ring |-> rung, told |-> TRUE]
      BY <1>a DEF R!RingTold, DeskTypes
    <2>2. [ring |-> rung, told |-> TRUE] \in [ring : Nat, told : BOOLEAN]
      BY <1>a
    <2>3. QED BY <2>1, <2>2, NoneAssumption
  <1>c. hub.was = hub.sim /\ hub \in HubType /\ hooks \in [started : Nat, ended : Nat]
    BY <1>a DEF DeskTypes, HookInv, HubType
  <1>d. /\ hub' \in HubType /\ ~hub'.answered /\ ~hub'.declined /\ ~hub'.sim /\ hub'.was /\ hub'.ring = rung
        /\ hub'.missed = hub.missed
        /\ hooks' = [started |-> hooks.started + 1, ended |-> hooks.ended + IF hub.sim THEN 1 ELSE 0]
        /\ announced' = announced \cup {rung}
    <2>1. CASE hub.sim
      <3>. DEFINE h == [[[hub EXCEPT !.answered = FALSE, !.declined = FALSE] EXCEPT !.sim = FALSE] EXCEPT !.was = FALSE]
      <3>0. h \in HubType /\ ~h.answered /\ ~h.declined /\ ~h.sim /\ h.missed = hub.missed
        BY <1>c DEF HubType
      <3>1. hub' = [h EXCEPT !.was = TRUE, !.ring = rung]
        BY <1>a, <2>1 DEF R!RingTold, R!RingOver, R!Cut
      <3>2. ~([[[hub EXCEPT !.answered = FALSE, !.declined = FALSE] EXCEPT !.sim = FALSE] EXCEPT !.was = FALSE].was)
        OBVIOUS
      <3>3. hooks' = [[hooks EXCEPT !.ended = @ + 1] EXCEPT !.started = @ + 1] /\ announced' = announced \cup {rung}
        BY <1>a, <2>1, <3>2 DEF R!RingTold, R!RingOver, R!Cut
      <3>4. hooks' = [started |-> hooks.started + 1, ended |-> hooks.ended + 1]
        BY <1>c, <3>3
      <3>5. /\ hub' \in HubType /\ ~hub'.answered /\ ~hub'.declined /\ ~hub'.sim /\ hub'.was /\ hub'.ring = rung
            /\ hub'.missed = hub.missed
        <4>. HIDE DEF h
        <4>1. rung \in 0..MaxRings
          BY <1>a
        <4>2. /\ hub'.answered = h.answered /\ hub'.declined = h.declined /\ hub'.sim = h.sim /\ hub'.was
              /\ hub'.ring = rung /\ hub'.missed = h.missed
          BY <3>1
        <4>3. hub' \in HubType
          BY <3>0, <3>1, <4>1 DEF HubType
        <4>. QED BY <3>0, <4>2, <4>3
      <3>6. QED BY <2>1, <3>3, <3>4, <3>5
    <2>2. CASE ~hub.sim
      <3>. DEFINE h == [hub EXCEPT !.answered = FALSE, !.declined = FALSE]
      <3>0. h \in HubType /\ ~h.answered /\ ~h.declined /\ ~h.sim /\ h.missed = hub.missed
        BY <1>c, <2>2 DEF HubType
      <3>1. hub' = [h EXCEPT !.was = TRUE, !.ring = rung]
        BY <1>a, <2>2 DEF R!RingTold, R!Cut
      <3>2. ~([hub EXCEPT !.answered = FALSE, !.declined = FALSE].was)
        BY <1>c, <2>2
      <3>3. hooks' = [hooks EXCEPT !.started = @ + 1] /\ announced' = announced \cup {rung}
        BY <1>a, <2>2, <3>2 DEF R!RingTold, R!RingOver, R!Cut
      <3>4. hooks' = [started |-> hooks.started + 1, ended |-> hooks.ended]
        BY <1>c, <3>3
      <3>5. /\ hub' \in HubType /\ ~hub'.answered /\ ~hub'.declined /\ ~hub'.sim /\ hub'.was /\ hub'.ring = rung
            /\ hub'.missed = hub.missed
        <4>. HIDE DEF h
        <4>1. rung \in 0..MaxRings
          BY <1>a
        <4>2. /\ hub'.answered = h.answered /\ hub'.declined = h.declined /\ hub'.sim = h.sim /\ hub'.was
              /\ hub'.ring = rung /\ hub'.missed = h.missed
          BY <3>1
        <4>3. hub' \in HubType
          BY <3>0, <3>1, <4>1 DEF HubType
        <4>. QED BY <3>0, <4>2, <4>3
      <3>6. QED BY <1>c, <2>2, <3>3, <3>5
    <2>3. QED BY <2>1, <2>2
  <1>e. /\ UNCHANGED <<rung, call, declining, endings, log, claimed>> /\ answering' = None
        /\ truth' = [truth EXCEPT ![rung] = "missed"] /\ logq' = Append(logq, [ring |-> rung, outcome |-> "missed"])
        /\ away' \in {away, [ring |-> rung, step |-> "delay"]}
    BY <1>a DEF R!RingTold, R!Cut
  <1>f. truth[rung] # "missed"
    <2>1. truth[rung] = None
      <3>1. ~(rung <= hub.ring)
        BY <1>a, <1>c DEF HubType
      <3>2. QED BY <1>a, <3>1 DEF TruthInv
    <2>2. QED BY <2>1, NoneAssumption
  <1>g. Cardinality(Missed') = Cardinality(Missed) + 1
    BY <1>a, <1>e, <1>f, OneMore DEF DeskTypes
  <1>1. DeskTypes'
    BY <1>a, <1>b, <1>d, <1>e, <1>g DEF DeskTypes
  <1>2. PhaseInv'
    BY <1>a, <1>b, <1>d, <1>e, <1>g DEF DeskTypes, HubType, PhaseInv, IsTold, InHand
  <1>3. HookInv'
    BY <1>b, <1>c, <1>d, <1>g DEF DeskTypes, HubType, PhaseInv, HookInv, IsTold, InHand
  <1>4. FlagInv'
    BY <1>a, <1>d, <1>e, <1>g DEF DeskTypes, HubType, PhaseInv, FlagInv, IsTold, InHand
  <1>5. AwayInv'
    BY <1>a, <1>d, <1>e, <1>g DEF DeskTypes, HubType, PhaseInv, AwayInv, IsTold, InHand
  <1>6. TruthInv'
    BY <1>a, <1>d, <1>e, <1>f, <1>g DEF DeskTypes, HubType, PhaseInv, TruthInv, IsTold,
       InHand
  <1>7. CountedInv'
    BY <1>a, <1>b, <1>d, <1>e, <1>g DEF DeskTypes, HubType, PhaseInv, FlagInv, TruthInv,
       CountedInv, IsTold, InHand
  <1>8. LogGoes
    BY <1>a, <1>e, <1>g DEF DeskTypes, TruthInv, LogGoes
  <1>. QED BY <1>1, <1>2, <1>3, <1>4, <1>5, <1>6, <1>7, <1>8

\* CANCEL, RING_MAX_S or the preview that stops.
LEMMA RingEndsKeeps ==
    ASSUME NEW f, Apart(f), DeskInv, R(f)!RingEnds
    PROVE  DeskInv' /\ LogGoes
  <1>. USE RingsAssumption DEF Visitors, Outcomes, Apart, DeskInv
  <1>a. /\ IsTold /\ pending.ring = rung /\ rung \in Visitors /\ call = 0 /\ answering = None /\ endings = <<>>
    BY DEF R!RingEnds, R!Ringing, DeskTypes, PhaseInv, IsTold
  <1>b. endings' = <<[ring |-> rung, declined |-> FALSE]>> /\ Len(endings') = 1 /\ endings'[1].ring = rung
        /\ ~endings'[1].declined /\ endings' # <<>> /\ endings' \in Seq([ring : Visitors, declined : BOOLEAN])
    BY <1>a DEF R!RingEnds, R!Over
  <1>c. /\ pending' = None
        /\ UNCHANGED <<rung, call, answering, declining, hub, away, hooks, announced, log, logq, truth, claimed>>
    BY DEF R!RingEnds, R!logVars
  <1>d. Missed' = Missed
    BY <1>c DEF Missed
  <1>1. DeskTypes'
    BY <1>b, <1>c DEF DeskTypes
  <1>2. PhaseInv'
    BY <1>a, <1>b, <1>c DEF PhaseInv, IsTold, InHand
  <1>3. HookInv'
    BY <1>a, <1>b, <1>c DEF PhaseInv, HookInv, IsTold, InHand
  <1>4. FlagInv'
    BY <1>a, <1>b, <1>c DEF PhaseInv, FlagInv, IsTold, InHand
  <1>5. AwayInv'
    BY <1>a, <1>c DEF PhaseInv, AwayInv, IsTold, InHand
  <1>6. TruthInv'
    BY <1>a, <1>c DEF PhaseInv, TruthInv, IsTold, InHand
  <1>7. CountedInv'
    BY <1>a, <1>b, <1>c, <1>d DEF PhaseInv, FlagInv, TruthInv, CountedInv, IsTold, InHand
  <1>8. LogGoes
    BY <1>c DEF LogGoes
  <1>. QED BY <1>1, <1>2, <1>3, <1>4, <1>5, <1>6, <1>7, <1>8

\* The end of the ring is told: it counts as missed unless declined.
LEMMA RingEndedKeeps ==
    ASSUME NEW f, Apart(f), DeskInv, R(f)!RingEnded
    PROVE  DeskInv' /\ LogGoes
  <1>. USE RingsAssumption DEF Visitors, Outcomes, Apart, DeskInv
  <1>. DEFINE More == declining # 0 \/ Len(endings) = 2
  <1>z. endings # <<>>
    BY DEF R!RingEnded
  <1>a. /\ Len(endings) \in {1, 2} /\ endings[1].ring = rung /\ call = 0 /\ pending = None /\ answering = None
        /\ hub.ring = rung /\ rung \in Visitors /\ ~hub.answered /\ ~hub.sim
        /\ endings[1].declined \in BOOLEAN /\ hub.declined = (endings[1].declined \/ More) /\ (endings[1].declined => ~More)
        /\ truth[rung] = "missed" /\ endings # <<>> /\ hub.was \in BOOLEAN /\ InHand
    <2>1. /\ Len(endings) \in {1, 2} /\ endings[1].ring = rung /\ call = 0 /\ pending = None /\ answering = None
          /\ hub.ring = rung /\ InHand /\ (endings[1].declined => ~More)
      BY <1>z DEF PhaseInv, IsTold, InHand
    <2>2. endings[1] \in [ring : Visitors, declined : BOOLEAN]
      <3>. DEFINE S == [ring : Visitors, declined : BOOLEAN]
      <3>1. endings \in Seq(S)
        BY DEF DeskTypes
      <3>. HIDE DEF S
      <3>2. endings[1] \in S
        BY <2>1, <3>1
      <3>. QED BY <3>2 DEF S
    <2>3. hub.was \in BOOLEAN /\ ~hub.sim
      BY <2>1 DEF DeskTypes, HubType, HookInv
    <2>4. hub.declined = (endings[1].declined \/ More)
      BY <1>z, <2>1, <2>2 DEF FlagInv, PhaseInv
    <2>5. QED BY <1>z, <2>1, <2>2, <2>3, <2>4 DEF FlagInv, TruthInv
  <1>b. /\ Head(endings) = endings[1] /\ (Len(endings) = 1 => endings' = <<>>)
        /\ Len(endings) = 2 => endings' # <<>> /\ Len(endings') = 1 /\ endings'[1] = endings[2]
                               /\ endings'[1].ring = rung /\ endings'[1].declined /\ declining = 0
        /\ endings' \in Seq([ring : Visitors, declined : BOOLEAN])
    <2>1. endings \in Seq([ring : Visitors, declined : BOOLEAN]) /\ endings' = Tail(endings)
      BY DEF R!RingEnded, DeskTypes
    <2>2. Len(endings) = 2 => endings[2].ring = rung /\ endings[2].declined /\ declining = 0
      BY <1>z DEF PhaseInv
    <2>3. [ring |-> rung, declined |-> TRUE] \in [ring : Visitors, declined : BOOLEAN]
      BY <1>a
    <2>4. QED BY <1>a, <2>1, <2>2, <2>3, OneOrTwo
  <1>c. UNCHANGED <<rung, pending, call, declining, announced, log, claimed>> /\ away' = None /\ answering' = None
    BY <1>a DEF R!RingEnded, R!Ringing, R!CancelAway, R!Cut, R!Outcome
  <1>d. /\ hub' \in HubType /\ ~hub'.was /\ hub'.missed = hub.missed + (IF hub.declined THEN 0 ELSE 1)
        /\ hub'.answered = hub.answered /\ hub'.declined = hub.declined /\ hub'.sim = hub.sim /\ hub'.ring = hub.ring
        /\ hooks' = [hooks EXCEPT !.ended = @ + IF hub.was THEN 1 ELSE 0] /\ hooks' \in [started : Nat, ended : Nat]
    <2>. DEFINE h == [hub EXCEPT !.missed = IF hub.answered \/ hub.declined THEN @ ELSE @ + 1]
    <2>0. hub \in HubType /\ hooks \in [started : Nat, ended : Nat]
      BY DEF DeskTypes
    <2>a. /\ h \in HubType /\ h.was = hub.was /\ h.missed = hub.missed + (IF hub.declined THEN 0 ELSE 1)
          /\ h.answered = hub.answered /\ h.declined = hub.declined /\ h.sim = hub.sim /\ h.ring = hub.ring
      BY <1>a, <2>0 DEF HubType
    <2>b. /\ hub' = IF endings[1].declined THEN [(IF h.was THEN <<[h EXCEPT !.was = FALSE], [hooks EXCEPT !.ended = @ + 1]>> ELSE <<h, hooks>>)[1] EXCEPT !.declined = TRUE] ELSE (IF h.was THEN <<[h EXCEPT !.was = FALSE], [hooks EXCEPT !.ended = @ + 1]>> ELSE <<h, hooks>>)[1]
          /\ hooks' = (IF h.was THEN <<[h EXCEPT !.was = FALSE], [hooks EXCEPT !.ended = @ + 1]>> ELSE <<h, hooks>>)[2]
      BY <1>a DEF R!RingEnded, R!AfterEvent, R!RingOver, R!IsRinging, R!Ringing,
         R!CancelAway, R!Cut, R!Outcome
    <2>1. CASE hub.was
      <3>1. hooks' = [hooks EXCEPT !.ended = @ + 1]
        BY <2>1, <2>b
      <3>2. hub' = IF endings[1].declined THEN [[h EXCEPT !.was = FALSE] EXCEPT !.declined = TRUE] ELSE [h EXCEPT !.was = FALSE]
        BY <1>a, <2>b
      <3>. HIDE DEF h
      <3>3. hooks' \in [started : Nat, ended : Nat]
        BY <2>0, <3>1
      <3>4. QED BY <1>a, <2>1, <2>a, <3>1, <3>2, <3>3 DEF HubType
    <2>2. CASE ~hub.was
      <3>1. hooks' = hooks /\ hub' = IF endings[1].declined THEN [h EXCEPT !.declined = TRUE] ELSE h
        BY <1>a, <2>2, <2>a, <2>b
      <3>. HIDE DEF h
      <3>2. hooks' = [hooks EXCEPT !.ended = @ + 0]
        BY <2>0, <3>1
      <3>3. QED BY <1>a, <2>0, <2>2, <2>a, <3>1, <3>2 DEF HubType
    <2>3. QED BY <2>1, <2>2
  <1>e. /\ logq' \in Seq([ring : Visitors, outcome : Outcomes]) /\ truth' \in [Visitors -> Outcomes \cup {None}]
        /\ truth' = IF endings[1].declined THEN [truth EXCEPT ![rung] = "declined"] ELSE truth
        /\ logq' = IF endings[1].declined THEN Append(logq, [ring |-> rung, outcome |-> "declined"]) ELSE logq
    <2>1. CASE endings[1].declined
      <3>1. truth' = [truth EXCEPT ![rung] = "declined"]
        BY <1>a, <1>b, <2>1 DEF R!RingEnded, R!RingOver, R!IsRinging, R!Ringing,
           R!CancelAway, R!Cut, R!Outcome
      <3>2. logq' = Append(logq, [ring |-> rung, outcome |-> "declined"])
        <4>1. hub.ring # 0
          BY <1>a
        <4>2. QED BY <1>a, <1>b, <2>1, <4>1 DEF R!RingEnded, R!AfterEvent, R!RingOver,
                     R!IsRinging, R!Ringing, R!CancelAway, R!Cut, R!Outcome
      <3>3. [ring |-> rung, outcome |-> "declined"] \in [ring : Visitors, outcome : Outcomes]
        BY <1>a
      <3>4. logq' \in Seq([ring : Visitors, outcome : Outcomes])
        BY <3>2, <3>3 DEF DeskTypes
      <3>5. truth' \in [Visitors -> Outcomes \cup {None}]
        BY <3>1 DEF DeskTypes
      <3>6. QED BY <2>1, <3>1, <3>2, <3>4, <3>5
    <2>2. CASE ~endings[1].declined
      <3>1. truth' = truth
        BY <1>a, <2>2 DEF R!RingEnded, R!RingOver, R!IsRinging, R!Ringing, R!CancelAway,
           R!Cut, R!Outcome
      <3>2. logq' = logq
        BY <1>a, <2>2 DEF R!RingEnded, R!RingOver, R!IsRinging, R!Ringing, R!CancelAway,
           R!Cut, R!Outcome
      <3>3. logq' \in Seq([ring : Visitors, outcome : Outcomes]) /\ truth' \in [Visitors -> Outcomes \cup {None}]
        BY <3>1, <3>2 DEF DeskTypes
      <3>4. QED BY <2>2, <3>1, <3>2, <3>3
    <2>3. QED BY <2>1, <2>2
  <1>f. Cardinality(Missed') = Cardinality(Missed) - IF endings[1].declined THEN 1 ELSE 0
    <2>1. CASE endings[1].declined
      BY <1>a, <1>e, <2>1, OneLess DEF DeskTypes
    <2>2. CASE ~endings[1].declined
      <3>1. truth' = truth
        BY <1>e, <2>2
      <3>2. Missed' = Missed
        BY <3>1 DEF Missed
      <3>3. QED BY <2>2, <3>2, MissedCounted
    <2>3. QED BY <2>1, <2>2
  <1>g. /\ InHand' = More /\ ~IsTold' /\ (More => truth' = truth)
        /\ truth[rung] # None /\ truth'[rung] # None /\ {"missed", "declined"} \subseteq Outcomes
    <2>1. InHand' = More /\ ~IsTold' /\ (More => truth' = truth)
      BY <1>a, <1>b, <1>c, <1>e DEF IsTold, InHand
    <2>2. truth[rung] = "missed" /\ truth'[rung] \in {"missed", "declined"}
      BY <1>a, <1>e
    <2>3. QED BY <2>1, <2>2, NoneAssumption
  <1>1. DeskTypes'
    <2>1. rung' \in 0..MaxRings /\ {call', declining'} \subseteq 0..MaxRings
      BY <1>c, <1>g DEF DeskTypes
    <2>2. pending' \in [ring : Visitors, told : BOOLEAN] \cup {None}
      BY <1>c, <1>g DEF DeskTypes
    <2>3. answering' \in [ring : Visitors, by : {"user", "away"}, up : BOOLEAN] \cup {None}
      BY <1>c, <1>g DEF DeskTypes
    <2>4. endings' \in Seq([ring : Visitors, declined : BOOLEAN])
      BY <1>b, <1>g DEF DeskTypes
    <2>5. hub' \in HubType
      BY <1>d, <1>g DEF DeskTypes
    <2>6. away' \in [ring : Visitors, step : {"delay", "load", "answer", "play"}] \cup {None}
      BY <1>c, <1>g DEF DeskTypes
    <2>7. hooks' \in [started : Nat, ended : Nat]
      BY <1>d, <1>g DEF DeskTypes
    <2>8. announced' \subseteq Visitors /\ claimed' \in BOOLEAN
      BY <1>c, <1>g DEF DeskTypes
    <2>9. log' \in [Visitors -> Outcomes \cup {None}]
      BY <1>c, <1>g DEF DeskTypes
    <2>10. truth' \in [Visitors -> Outcomes \cup {None}]
      BY <1>e, <1>g DEF DeskTypes
    <2>11. logq' \in Seq([ring : Visitors, outcome : Outcomes])
      BY <1>e, <1>g DEF DeskTypes
    <2>. QED BY <2>1, <2>2, <2>3, <2>4, <2>5, <2>6, <2>7, <2>8, <2>9, <2>10, <2>11 DEF
                DeskTypes
  <1>2. PhaseInv'
    <2>1. endings' # <<>> => /\ Len(endings') = 1 /\ call' = 0 /\ declining' = 0
                             /\ \A i \in 1..Len(endings') : endings'[i].ring = rung'
      BY <1>a, <1>b, <1>c
    <2>2. declining' # 0 => /\ declining' = rung' /\ call' = 0 /\ answering' = None /\ endings' = <<>>
                            /\ pending' = None
      BY <1>a, <1>b, <1>c DEF PhaseInv
    <2>3. hub'.ring = rung' /\ rung' \in announced' /\ hub'.ring <= rung'
      BY <1>a, <1>c, <1>d DEF PhaseInv, DeskTypes
    <2>. QED BY <1>a, <1>c, <1>g, <2>1, <2>2, <2>3 DEF PhaseInv
  <1>3. HookInv'
    <2>1. hooks \in [started : Nat, ended : Nat] /\ hooks.started = hooks.ended + IF hub.was THEN 1 ELSE 0
      BY DEF DeskTypes, HookInv
    <2>2. hooks'.started = hooks'.ended
      BY <1>a, <1>d, <2>1
    <2>. QED BY <1>a, <1>d, <1>g, <2>2 DEF HookInv
  <1>4. FlagInv'
    BY <1>a, <1>b, <1>c, <1>d, <1>g DEF DeskTypes, HubType, PhaseInv, FlagInv, IsTold, InHand
  <1>5. AwayInv'
    BY <1>c, <1>g DEF DeskTypes, HubType, PhaseInv, AwayInv, IsTold, InHand
  <1>6. TruthInv'
    <2>1. \A c \in Visitors : truth'[c] # None => c \in announced' /\ c <= hub'.ring
      BY <1>c, <1>d, <1>e, <1>g DEF DeskTypes, HubType, PhaseInv, TruthInv, IsTold, InHand
    <2>2. IsTold' \/ endings' # <<>> \/ declining' # 0 \/ (answering' # None /\ ~answering'.up) => truth'[rung'] = "missed"
      BY <1>a, <1>b, <1>c, <1>g DEF IsTold, InHand
    <2>3. call' = 0
      BY <1>a, <1>c, <1>g DEF DeskTypes, HubType, PhaseInv, TruthInv, IsTold, InHand
    <2>4. truth'[hub'.ring] # None
      BY <1>a, <1>d, <1>g DEF DeskTypes, HubType, PhaseInv, TruthInv, IsTold, InHand
    <2>. QED BY <2>1, <2>2, <2>3, <2>4 DEF TruthInv
  <1>7. CountedInv'
    <2>1. hub.missed \in Nat /\ Cardinality(Missed) = hub.missed + 1
      BY <1>a DEF DeskTypes, HubType, CountedInv
    <2>2. hub'.missed \in Nat /\ Cardinality(Missed') = hub'.missed + IF More THEN 1 ELSE 0
      BY <1>a, <1>d, <1>f, <2>1 DEF HubType
    <2>3. endings[1].declined => truth'[rung] = "declined"
      BY <1>a, <1>e DEF DeskTypes
    <2>. QED BY <1>a, <1>c, <1>e, <1>g, <2>2, <2>3 DEF CountedInv
  <1>8. LogGoes
    BY <1>a, <1>c, <1>e, <1>g DEF DeskTypes, TruthInv, LogGoes
  <1>. QED BY <1>1, <1>2, <1>3, <1>4, <1>5, <1>6, <1>7, <1>8

\* An answer to a test ring.
LEMMA AnswerStopsSimKeeps ==
    ASSUME NEW f, Apart(f), DeskInv, R(f)!AnswerStopsSim
    PROVE  DeskInv' /\ LogGoes
  <1>. USE RingsAssumption DEF Visitors, Outcomes, Apart, DeskInv
  <1>a. hub.sim /\ hub.was /\ ~InHand /\ hub \in HubType
    BY DEF R!AnswerStopsSim, HookInv, DeskTypes
  <1>b. hub' = [hub EXCEPT !.sim = FALSE, !.was = FALSE] /\ hub' \in HubType /\ hooks' = [hooks EXCEPT !.ended = @ + 1]
        /\ hooks' \in [started : Nat, ended : Nat]
    <2>1. hub' = [[hub EXCEPT !.sim = FALSE] EXCEPT !.was = FALSE] /\ hooks' = [hooks EXCEPT !.ended = @ + 1]
      BY DEF R!AnswerStopsSim, R!StopSim, R!RingOver
    <2>2. hub' = [hub EXCEPT !.sim = FALSE, !.was = FALSE] /\ hub' \in HubType
      BY <1>a, <2>1 DEF HubType
    <2>3. hooks' \in [started : Nat, ended : Nat]
      BY <2>1, HooksTyped DEF DeskTypes
    <2>4. QED BY <2>1, <2>2, <2>3
  <1>c. /\ UNCHANGED <<rung, pending, call, answering, declining, endings, away, announced, log, logq, truth, claimed>>
    BY DEF R!AnswerStopsSim, R!lineVars, R!logVars
  <1>d. Missed' = Missed /\ (IsTold' <=> IsTold) /\ (InHand' <=> InHand)
    BY <1>c DEF Missed, IsTold, InHand
  <1>1. DeskTypes'
    <2>1. rung' \in 0..MaxRings /\ {call', declining'} \subseteq 0..MaxRings
      BY <1>c DEF DeskTypes
    <2>2. pending' \in [ring : Visitors, told : BOOLEAN] \cup {None}
      BY <1>c DEF DeskTypes
    <2>3. answering' \in [ring : Visitors, by : {"user", "away"}, up : BOOLEAN] \cup {None}
      BY <1>c DEF DeskTypes
    <2>4. endings' \in Seq([ring : Visitors, declined : BOOLEAN])
      BY <1>c DEF DeskTypes
    <2>5. hub' \in HubType
      BY <1>b
    <2>6. away' \in [ring : Visitors, step : {"delay", "load", "answer", "play"}] \cup {None}
      BY <1>c DEF DeskTypes
    <2>7. hooks' \in [started : Nat, ended : Nat]
      BY <1>b
    <2>8. announced' \subseteq Visitors /\ claimed' \in BOOLEAN
      BY <1>c DEF DeskTypes
    <2>9. log' \in [Visitors -> Outcomes \cup {None}]
      BY <1>c DEF DeskTypes
    <2>10. truth' \in [Visitors -> Outcomes \cup {None}]
      BY <1>c DEF DeskTypes
    <2>11. logq' \in Seq([ring : Visitors, outcome : Outcomes])
      BY <1>c DEF DeskTypes
    <2>. QED BY <2>1, <2>2, <2>3, <2>4, <2>5, <2>6, <2>7, <2>8, <2>9, <2>10, <2>11 DEF
                DeskTypes
  <1>2. PhaseInv'
    BY <1>b, <1>c DEF PhaseInv, IsTold, InHand
  <1>3. HookInv'
    BY <1>a, <1>b DEF PhaseInv, HookInv, IsTold, InHand
  <1>4. FlagInv'
    BY <1>b, <1>c DEF PhaseInv, FlagInv, IsTold, InHand
  <1>5. AwayInv'
    BY <1>b, <1>c DEF PhaseInv, AwayInv, IsTold, InHand
  <1>6. TruthInv'
    BY <1>b, <1>c DEF PhaseInv, TruthInv, IsTold, InHand
  <1>7. CountedInv'
    BY <1>b, <1>c, <1>d DEF PhaseInv, FlagInv, TruthInv, CountedInv, IsTold, InHand
  <1>8. LogGoes
    BY <1>c DEF LogGoes
  <1>. QED BY <1>1, <1>2, <1>3, <1>4, <1>5, <1>6, <1>7, <1>8

\* Somebody takes the call the away message has answered.
LEMMA TakesFromAwayKeeps ==
    ASSUME NEW f, Apart(f), DeskInv, R(f)!TakesFromAway
    PROVE  DeskInv' /\ LogGoes
  <1>. USE RingsAssumption DEF Visitors, Outcomes, Apart, DeskInv
  <1>a. call = rung /\ rung \in Visitors /\ pending = None /\ endings = <<>> /\ declining = 0 /\ hub.ring = rung /\ away # None
        /\ (answering # None => answering.up /\ answering.by # "away") /\ hub \in HubType
    BY DEF R!TakesFromAway, R!MayCancelAway, DeskTypes, PhaseInv, AwayInv, IsTold, InHand
  <1>b. /\ UNCHANGED <<rung, pending, call, answering, declining, endings, hooks, announced, log>> /\ away' = None /\ claimed' = TRUE
        /\ hub' = [hub EXCEPT !.answered = TRUE] /\ hub' \in HubType /\ truth' = [truth EXCEPT ![rung] = "answered"]
        /\ logq' = Append(logq, [ring |-> rung, outcome |-> "answered"])
    BY <1>a DEF R!TakesFromAway, R!MayCancelAway, R!Cut, R!Outcome, HubType
  <1>c. Cardinality(Missed') = Cardinality(Missed) - IF truth[rung] = "missed" THEN 1 ELSE 0
    <2>1. CASE truth[rung] = "missed"
      BY <1>a, <1>b, <2>1, OneLess DEF DeskTypes
    <2>2. CASE truth[rung] # "missed"
      <3>1. Missed' = Missed
        BY <1>b, <2>2 DEF Missed
      <3>2. QED BY <2>2, <3>1, MissedCounted
    <2>3. QED BY <2>1, <2>2
  <1>d. truth[rung] = "missed" => answering # None
    BY <1>a DEF TruthInv
  <1>e. ~IsTold /\ ~IsTold' /\ (InHand' <=> InHand) /\ (InHand <=> answering # None)
    BY <1>a, <1>b DEF IsTold, InHand
  <1>f. truth[rung] # None /\ truth'[rung] # None /\ "answered" \in Outcomes
    <2>1. truth[rung] # None
      BY <1>a DEF TruthInv
    <2>2. truth'[rung] = "answered"
      BY <1>a, <1>b DEF DeskTypes
    <2>3. QED BY <2>1, <2>2, NoneAssumption
  <1>1. DeskTypes'
    BY <1>a, <1>b DEF DeskTypes
  <1>2. PhaseInv'
    BY <1>b DEF DeskTypes, HubType, PhaseInv, IsTold, InHand
  <1>3. HookInv'
    BY <1>b DEF DeskTypes, HubType, PhaseInv, HookInv, IsTold, InHand
  <1>4. FlagInv'
    BY <1>a, <1>b DEF DeskTypes, HubType, PhaseInv, FlagInv, IsTold, InHand
  <1>5. AwayInv'
    BY <1>a, <1>b DEF DeskTypes, HubType, PhaseInv, AwayInv, IsTold, InHand
  <1>6. TruthInv'
    BY <1>a, <1>b, <1>f DEF DeskTypes, HubType, PhaseInv, TruthInv, IsTold, InHand
  <1>7. CountedInv'
    BY <1>a, <1>b, <1>c DEF DeskTypes, HubType, PhaseInv, FlagInv, TruthInv, CountedInv,
       IsTold, InHand
  <1>8. LogGoes
    BY <1>a, <1>b, <1>f DEF DeskTypes, TruthInv, LogGoes
  <1>. QED BY <1>1, <1>2, <1>3, <1>4, <1>5, <1>6, <1>7, <1>8

\* The user answers: the ring is closed before the 200.
LEMMA AnswerKeeps ==
    ASSUME NEW f, Apart(f), DeskInv, R(f)!Answer
    PROVE  DeskInv' /\ LogGoes
  <1>. USE RingsAssumption DEF Visitors, Outcomes, Apart, DeskInv
  <1>a. /\ IsTold /\ pending.ring = rung /\ rung \in Visitors /\ call = 0 /\ answering = None /\ endings = <<>> /\ declining = 0
        /\ hub.ring = rung /\ ~hub.answered /\ ~hub.declined /\ ~hub.sim /\ truth[rung] = "missed" /\ InHand
    BY DEF R!Answer, R!Ringing, DeskTypes, PhaseInv, HookInv, FlagInv, TruthInv, IsTold,
       InHand
  <1>b. answering' = [ring |-> rung, by |-> "user", up |-> FALSE] /\ pending' = None /\ away' = away
    BY <1>a DEF R!Answer, R!Answering
  <1>c. answering' # None /\ answering' \in [ring : Visitors, by : {"user", "away"}, up : BOOLEAN]
        /\ answering'.ring = rung /\ answering'.by = "user" /\ ~answering'.up
    <2>1. [ring |-> rung, by |-> "user", up |-> FALSE] \in [ring : Nat, by : {"user", "away"}, up : BOOLEAN]
      BY <1>a
    <2>2. QED BY <1>a, <1>b, <2>1, NoneAssumption
  <1>d. UNCHANGED <<rung, call, declining, endings, hub, hooks, announced, log, logq, truth, claimed>>
    BY DEF R!Answer, R!logVars
  <1>e. Missed' = Missed /\ InHand' /\ ~IsTold'
    BY <1>b, <1>c, <1>d DEF Missed, InHand, IsTold
  <1>f. ~(away # None /\ away.step = "play") \/ away.ring < rung
    BY <1>a DEF AwayInv
  <1>1. DeskTypes'
    BY <1>b, <1>c, <1>d DEF DeskTypes
  <1>2. PhaseInv'
    BY <1>a, <1>b, <1>d DEF DeskTypes, HubType, PhaseInv, IsTold, InHand
  <1>3. HookInv'
    BY <1>a, <1>d, <1>e DEF DeskTypes, HubType, PhaseInv, HookInv, IsTold, InHand
  <1>4. FlagInv'
    BY <1>a, <1>d DEF DeskTypes, HubType, PhaseInv, FlagInv, IsTold, InHand
  <1>5. AwayInv'
    BY <1>a, <1>b, <1>d DEF DeskTypes, HubType, PhaseInv, AwayInv, IsTold, InHand
  <1>6. TruthInv'
    BY <1>a, <1>d DEF DeskTypes, HubType, PhaseInv, TruthInv, IsTold, InHand
  <1>7. CountedInv'
    BY <1>a, <1>d, <1>e DEF DeskTypes, HubType, PhaseInv, FlagInv, TruthInv, CountedInv,
       IsTold, InHand
  <1>8. LogGoes
    BY <1>d DEF DeskTypes, TruthInv, LogGoes
  <1>. QED BY <1>1, <1>2, <1>3, <1>4, <1>5, <1>6, <1>7, <1>8

\* The 200 is sent.
LEMMA AnswerSentKeeps ==
    ASSUME NEW f, Apart(f), DeskInv, R(f)!AnswerSent
    PROVE  DeskInv' /\ LogGoes
  <1>. USE RingsAssumption DEF Visitors, Outcomes, Apart, DeskInv
  <1>a. /\ answering # None /\ ~answering.up /\ answering.ring = rung /\ rung \in Visitors /\ call = 0 /\ pending = None
        /\ endings = <<>> /\ declining = 0 /\ hub.ring = rung /\ truth[rung] = "missed" /\ InHand
        /\ answering \in [ring : Visitors, by : {"user", "away"}, up : BOOLEAN]
    BY DEF R!AnswerSent, DeskTypes, PhaseInv, TruthInv, IsTold, InHand
  <1>b. call' = rung /\ answering' = [answering EXCEPT !.up = TRUE] /\ claimed' = FALSE
        /\ UNCHANGED <<rung, pending, declining, endings, hub, away, hooks, announced, log, logq, truth>>
    BY <1>a DEF R!AnswerSent, R!logVars
  <1>c. answering' # None
    <2>1. answering' \in [ring : Visitors, by : {"user", "away"}, up : BOOLEAN]
      BY <1>a, <1>b
    <2>2. answering' \in [ring : Nat, by : {"user", "away"}, up : BOOLEAN]
      BY <2>1
    <2>3. QED BY <2>2, NoneAssumption
  <1>d. Missed' = Missed /\ InHand' /\ ~IsTold' /\ ~IsTold
    BY <1>a, <1>b, <1>c DEF Missed, InHand, IsTold
  <1>1. DeskTypes'
    BY <1>a, <1>b DEF DeskTypes
  <1>2. PhaseInv'
    BY <1>a, <1>b DEF PhaseInv, IsTold, InHand
  <1>3. HookInv'
    BY <1>a, <1>b, <1>d DEF PhaseInv, HookInv, IsTold, InHand
  <1>4. FlagInv'
    BY <1>b DEF PhaseInv, FlagInv, IsTold, InHand
  <1>5. AwayInv'
    BY <1>a, <1>b, <1>d DEF PhaseInv, AwayInv, IsTold, InHand
  <1>6. TruthInv'
    BY <1>b, <1>c DEF PhaseInv, TruthInv, IsTold, InHand
  <1>7. CountedInv'
    BY <1>a, <1>b, <1>d DEF PhaseInv, FlagInv, TruthInv, CountedInv, IsTold, InHand
  <1>8. LogGoes
    BY <1>b DEF LogGoes
  <1>. QED BY <1>1, <1>2, <1>3, <1>4, <1>5, <1>6, <1>7, <1>8

\* The 200 fails: the ring ends unanswered.
LEMMA AnswerFailsKeeps ==
    ASSUME NEW f, Apart(f), DeskInv, R(f)!AnswerFails
    PROVE  DeskInv' /\ LogGoes
  <1>. USE RingsAssumption DEF Visitors, Outcomes, Apart, DeskInv
  <1>a. /\ answering # None /\ ~answering.up /\ answering.ring = rung /\ rung \in Visitors /\ call = 0 /\ pending = None
        /\ endings = <<>> /\ declining = 0 /\ hub.ring = rung /\ truth[rung] = "missed" /\ ~hub.answered /\ ~hub.declined
        /\ ~hub.sim /\ InHand
    BY DEF R!AnswerFails, DeskTypes, PhaseInv, HookInv, FlagInv, TruthInv, IsTold, InHand
  <1>b. endings' = <<[ring |-> rung, declined |-> FALSE]>> /\ Len(endings') = 1 /\ endings'[1].ring = rung
        /\ ~endings'[1].declined /\ endings' # <<>> /\ endings' \in Seq([ring : Visitors, declined : BOOLEAN])
    BY <1>a DEF R!AnswerFails, R!Over
  <1>c. /\ answering' = None /\ away' = IF answering.by = "away" THEN None ELSE away
        /\ UNCHANGED <<rung, pending, call, declining, hub, hooks, announced, log, logq, truth, claimed>>
    BY DEF R!AnswerFails, R!logVars
  <1>d. Missed' = Missed /\ InHand'
    BY <1>b, <1>c DEF Missed, InHand
  <1>1. DeskTypes'
    BY <1>b, <1>c DEF DeskTypes
  <1>2. PhaseInv'
    BY <1>a, <1>b, <1>c DEF PhaseInv, IsTold, InHand
  <1>3. HookInv'
    BY <1>a, <1>c, <1>d DEF PhaseInv, HookInv, IsTold, InHand
  <1>4. FlagInv'
    BY <1>a, <1>b, <1>c DEF DeskTypes, HubType, PhaseInv, FlagInv, IsTold, InHand
  <1>5. AwayInv'
    <2>1. away' # None => away'.ring <= hub'.ring
      BY <1>c DEF PhaseInv, AwayInv, IsTold, InHand
    <2>2. ~(away' # None /\ away'.step = "answer")
      BY <1>c DEF PhaseInv, AwayInv, IsTold, InHand
    <2>3. answering' = None
      BY <1>c DEF PhaseInv, AwayInv, IsTold, InHand
    <2>4. away' # None /\ away'.step = "play" => (InHand' => away'.ring < rung')
      BY <1>a, <1>c DEF PhaseInv, AwayInv, IsTold, InHand
    <2>5. away' # None /\ away'.step = "play" => (call' = away'.ring => truth'[call'] = "away" /\ ~claimed')
      BY <1>c DEF PhaseInv, AwayInv, IsTold, InHand
    <2>. QED BY <2>1, <2>2, <2>3, <2>4, <2>5 DEF AwayInv
  <1>6. TruthInv'
    BY <1>a, <1>c DEF PhaseInv, TruthInv, IsTold, InHand
  <1>7. CountedInv'
    BY <1>a, <1>c, <1>d DEF PhaseInv, FlagInv, TruthInv, CountedInv, IsTold, InHand
  <1>8. LogGoes
    BY <1>c DEF LogGoes
  <1>. QED BY <1>1, <1>2, <1>3, <1>4, <1>5, <1>6, <1>7, <1>8

\* The call has started, and the one who answered says so.
LEMMA AnswerToldKeeps ==
    ASSUME NEW f, Apart(f), DeskInv, R(f)!AnswerTold
    PROVE  DeskInv' /\ LogGoes
  <1>. USE RingsAssumption DEF Visitors, Outcomes, Apart, DeskInv
  <1>a. /\ answering # None /\ answering.up /\ answering.ring = rung /\ rung \in Visitors /\ call \in {0, rung} /\ pending = None
        /\ endings = <<>> /\ declining = 0 /\ hub.ring = rung /\ ~hub.sim /\ hub.was \in BOOLEAN /\ InHand
        /\ answering \in [ring : Visitors, by : {"user", "away"}, up : BOOLEAN]
    BY DEF R!AnswerTold, DeskTypes, HubType, PhaseInv, HookInv, IsTold, InHand
  <1>b. /\ hub' \in HubType /\ ~hub'.was /\ hub'.answered /\ hub'.missed = hub.missed
        /\ hub'.declined = hub.declined /\ hub'.sim = hub.sim /\ hub'.ring = hub.ring
        /\ hooks' = [hooks EXCEPT !.ended = @ + IF hub.was THEN 1 ELSE 0] /\ hooks' \in [started : Nat, ended : Nat]
    <2>0. hub \in HubType /\ hooks \in [started : Nat, ended : Nat]
      BY DEF DeskTypes
    <2>1. CASE hub.was
      <3>1. hooks' = [hooks EXCEPT !.ended = @ + 1]
        BY <1>a, <2>1 DEF R!AnswerTold, R!AfterEvent, R!RingOver, R!IsRinging, R!Ringing,
           R!Outcome
      <3>2. hooks' \in [started : Nat, ended : Nat]
        BY <2>0, <3>1
      <3>3. QED BY <1>a, <2>0, <2>1, <3>2 DEF R!AnswerTold, R!AfterEvent, R!RingOver,
                   R!IsRinging, R!Ringing, R!Outcome, HubType
    <2>2. CASE ~hub.was
      <3>1. hub' = [hub EXCEPT !.answered = TRUE] /\ hooks' = hooks
        BY <2>2 DEF R!AnswerTold, R!AfterEvent, R!Ringing, R!Outcome
      <3>2. hooks' = [hooks EXCEPT !.ended = @ + 0]
        BY <2>0, <3>1
      <3>3. QED BY <2>0, <2>2, <3>1, <3>2 DEF HubType
    <2>3. QED BY <2>1, <2>2
  <1>c. PICK o \in {"away", "answered"} :
           /\ truth' = [truth EXCEPT ![rung] = o] /\ logq' = Append(logq, [ring |-> rung, outcome |-> o])
           /\ o = "away" <=> answering.by = "away"
    <2>1. CASE answering.by = "away"
      BY <1>a, <2>1 DEF R!AnswerTold, R!Ringing, R!Outcome
    <2>2. CASE answering.by # "away"
      BY <1>a, <2>2 DEF R!AnswerTold, R!Ringing, R!Outcome
    <2>3. QED BY <2>1, <2>2
  <1>d. /\ answering' = None /\ UNCHANGED <<rung, pending, call, declining, endings, announced, log, claimed>>
        /\ away' = IF answering.by = "away" THEN [away EXCEPT !.step = "play"] ELSE away
    BY DEF R!AnswerTold
  <1>e. answering.by = "away" => away # None /\ away.ring = rung /\ ~claimed
    BY <1>a DEF AwayInv
  <1>f. Cardinality(Missed') = Cardinality(Missed) - IF truth[rung] = "missed" THEN 1 ELSE 0
    <2>1. CASE truth[rung] = "missed"
      BY <1>a, <1>c, <2>1, OneLess DEF DeskTypes
    <2>2. CASE truth[rung] # "missed"
      <3>1. Missed' = Missed
        BY <1>c, <2>2 DEF Missed
      <3>2. QED BY <2>2, <3>1, MissedCounted
    <2>3. QED BY <2>1, <2>2
  <1>g. ~InHand' /\ ~IsTold'
    BY <1>a, <1>d DEF InHand, IsTold
  <1>h. truth[rung] # None /\ truth'[rung] # None /\ truth'[rung] # "missed" /\ {"away", "answered"} \subseteq Outcomes
    <2>1. truth[rung] # None
      BY <1>a DEF TruthInv
    <2>2. truth'[rung] \in {"away", "answered"}
      BY <1>a, <1>c DEF DeskTypes
    <2>3. QED BY <2>1, <2>2, NoneAssumption
  <1>1. DeskTypes'
    <2>1. rung' \in 0..MaxRings /\ {call', declining'} \subseteq 0..MaxRings
      BY <1>d, <1>g, <1>h DEF DeskTypes
    <2>2. pending' \in [ring : Visitors, told : BOOLEAN] \cup {None}
      BY <1>d, <1>g, <1>h DEF DeskTypes
    <2>3. answering' \in [ring : Visitors, by : {"user", "away"}, up : BOOLEAN] \cup {None}
      BY <1>d, <1>g, <1>h DEF DeskTypes
    <2>4. endings' \in Seq([ring : Visitors, declined : BOOLEAN])
      BY <1>d, <1>g, <1>h DEF DeskTypes
    <2>5. hub' \in HubType
      BY <1>b, <1>g, <1>h DEF DeskTypes
    <2>6. away' \in [ring : Visitors, step : {"delay", "load", "answer", "play"}] \cup {None}
      BY <1>d, <1>e, <1>g, <1>h DEF DeskTypes
    <2>7. hooks' \in [started : Nat, ended : Nat]
      BY <1>b, <1>g, <1>h DEF DeskTypes
    <2>8. announced' \subseteq Visitors /\ claimed' \in BOOLEAN
      BY <1>d, <1>g, <1>h DEF DeskTypes
    <2>9. log' \in [Visitors -> Outcomes \cup {None}]
      BY <1>d, <1>g, <1>h DEF DeskTypes
    <2>10. truth' \in [Visitors -> Outcomes \cup {None}]
      BY <1>c, <1>g, <1>h DEF DeskTypes
    <2>11. logq' \in Seq([ring : Visitors, outcome : Outcomes])
      BY <1>a, <1>c, <1>g, <1>h DEF DeskTypes
    <2>. QED BY <2>1, <2>2, <2>3, <2>4, <2>5, <2>6, <2>7, <2>8, <2>9, <2>10, <2>11 DEF
                DeskTypes
  <1>2. PhaseInv'
    BY <1>b, <1>d, <1>g, <1>h DEF DeskTypes, HubType, PhaseInv, IsTold, InHand
  <1>3. HookInv'
    BY <1>a, <1>b, <1>g, <1>h DEF DeskTypes, HubType, PhaseInv, HookInv, IsTold, InHand
  <1>4. FlagInv'
    BY <1>g, <1>h DEF DeskTypes, HubType, PhaseInv, FlagInv, IsTold, InHand
  <1>5. AwayInv'
    BY <1>a, <1>b, <1>c, <1>d, <1>g, <1>h DEF DeskTypes, HubType, PhaseInv, AwayInv,
       IsTold, InHand
  <1>6. TruthInv'
    BY <1>b, <1>c, <1>d, <1>g, <1>h DEF DeskTypes, HubType, PhaseInv, TruthInv, IsTold,
       InHand
  <1>7. CountedInv'
    BY <1>a, <1>b, <1>f, <1>g, <1>h DEF DeskTypes, HubType, PhaseInv, FlagInv, TruthInv,
       CountedInv, IsTold, InHand
  <1>8. LogGoes
    BY <1>a, <1>c, <1>d, <1>g, <1>h DEF DeskTypes, TruthInv, LogGoes
  <1>. QED BY <1>1, <1>2, <1>3, <1>4, <1>5, <1>6, <1>7, <1>8

\* The call is over.
LEMMA CallEndsKeeps ==
    ASSUME NEW f, Apart(f), DeskInv, R(f)!CallEnds
    PROVE  DeskInv' /\ LogGoes
  <1>. USE RingsAssumption DEF Visitors, Outcomes, Apart, DeskInv
  <1>a. call # 0 /\ call' = 0 /\ hub' = [hub EXCEPT !.answered = FALSE] /\ pending = None /\ endings = <<>> /\ declining = 0
        /\ hub' \in HubType /\ (answering # None => answering.up /\ answering.ring = rung)
    BY DEF R!CallEnds, PhaseInv, DeskTypes, HubType
  <1>b. UNCHANGED <<rung, pending, answering, declining, endings, away, hooks, announced, log, logq, truth, claimed>>
    BY DEF R!CallEnds, R!logVars
  <1>c. Missed' = Missed /\ (IsTold' <=> IsTold) /\ (InHand' <=> InHand) /\ ~IsTold
    BY <1>a, <1>b DEF Missed, InHand, IsTold
  <1>1. DeskTypes'
    BY <1>a, <1>b DEF DeskTypes
  <1>2. PhaseInv'
    BY <1>a, <1>b DEF PhaseInv, IsTold, InHand
  <1>3. HookInv'
    BY <1>a, <1>b DEF HookInv, IsTold, InHand
  <1>4. FlagInv'
    BY <1>a, <1>b, <1>c DEF FlagInv, IsTold, InHand
  <1>5. AwayInv'
    BY <1>a, <1>b DEF DeskTypes, AwayInv, IsTold, InHand
  <1>6. TruthInv'
    BY <1>a, <1>b DEF TruthInv, IsTold, InHand
  <1>7. CountedInv'
    BY <1>a, <1>b, <1>c DEF FlagInv, TruthInv, CountedInv, IsTold, InHand
  <1>8. LogGoes
    BY <1>b DEF LogGoes
  <1>. QED BY <1>1, <1>2, <1>3, <1>4, <1>5, <1>6, <1>7, <1>8

\* A decline is sent for the ring.
LEMMA DeclineKeeps ==
    ASSUME NEW f, Apart(f), DeskInv, R(f)!Decline
    PROVE  DeskInv' /\ LogGoes
  <1>. USE RingsAssumption DEF Visitors, Outcomes, Apart, DeskInv
  <1>z. [hub EXCEPT !.declined = TRUE] \in HubType
    BY HubTyped DEF DeskTypes
  <1>a. /\ IsTold /\ pending.ring = rung /\ rung \in Visitors /\ call = 0 /\ answering = None /\ endings = <<>> /\ declining = 0
    BY DEF R!Decline, R!Ringing, DeskTypes, PhaseInv, IsTold
  <1>b. declining' = rung /\ rung # 0 /\ hub' = [hub EXCEPT !.declined = TRUE] /\ hub' \in HubType
        /\ UNCHANGED <<rung, pending, call, answering, endings, away, hooks, announced, log, logq, truth, claimed>>
    BY <1>z, <1>a DEF R!Decline, R!logVars
  <1>c. Missed' = Missed /\ IsTold' /\ InHand /\ InHand'
    BY <1>a, <1>b DEF Missed, InHand, IsTold
  <1>1. DeskTypes'
    <2>1. rung' \in 0..MaxRings /\ {call', declining'} \subseteq 0..MaxRings
      BY <1>b DEF DeskTypes
    <2>2. pending' \in [ring : Visitors, told : BOOLEAN] \cup {None}
      BY <1>b DEF DeskTypes
    <2>3. answering' \in [ring : Visitors, by : {"user", "away"}, up : BOOLEAN] \cup {None}
      BY <1>b DEF DeskTypes
    <2>4. endings' \in Seq([ring : Visitors, declined : BOOLEAN])
      BY <1>b DEF DeskTypes
    <2>5. hub' \in HubType
      BY <1>b
    <2>6. away' \in [ring : Visitors, step : {"delay", "load", "answer", "play"}] \cup {None}
      BY <1>b DEF DeskTypes
    <2>7. hooks' \in [started : Nat, ended : Nat]
      BY <1>b DEF DeskTypes
    <2>8. announced' \subseteq Visitors /\ claimed' \in BOOLEAN
      BY <1>b DEF DeskTypes
    <2>9. log' \in [Visitors -> Outcomes \cup {None}]
      BY <1>b DEF DeskTypes
    <2>10. truth' \in [Visitors -> Outcomes \cup {None}]
      BY <1>b DEF DeskTypes
    <2>11. logq' \in Seq([ring : Visitors, outcome : Outcomes])
      BY <1>b DEF DeskTypes
    <2>. QED BY <2>1, <2>2, <2>3, <2>4, <2>5, <2>6, <2>7, <2>8, <2>9, <2>10, <2>11 DEF
                DeskTypes
  <1>2. PhaseInv'
    BY <1>a, <1>b, <1>c DEF PhaseInv, IsTold, InHand
  <1>3. HookInv'
    BY <1>a, <1>b, <1>c DEF R!Decline, DeskTypes, HubType, HookInv
  <1>4. FlagInv'
    BY <1>a, <1>b, <1>c DEF DeskTypes, HubType, PhaseInv, FlagInv, IsTold, InHand
  <1>5. AwayInv'
    BY <1>a, <1>b, <1>c DEF AwayInv, IsTold, InHand
  <1>6. TruthInv'
    BY <1>a, <1>b, <1>c DEF TruthInv, IsTold, InHand
  <1>7. CountedInv'
    BY <1>a, <1>b, <1>c DEF CountedInv
  <1>8. LogGoes
    BY <1>b DEF LogGoes
  <1>. QED BY <1>1, <1>2, <1>3, <1>4, <1>5, <1>6, <1>7, <1>8

\* The decline is through: the ring ends.
LEMMA DeclinedKeeps ==
    ASSUME NEW f, Apart(f), DeskInv, R(f)!Declined
    PROVE  DeskInv' /\ LogGoes
  <1>. USE RingsAssumption DEF Visitors, Outcomes, Apart, DeskInv
  <1>a. /\ declining = rung /\ rung \in Visitors /\ call = 0 /\ answering = None
        /\ (pending # None => pending.ring = rung /\ endings = <<>>) /\ truth[rung] = "missed"
        /\ (endings # <<>> => Len(endings) = 1 /\ endings[1].ring = rung /\ ~endings[1].declined)
        /\ ~hub.sim /\ hub.declined /\ ~hub.answered /\ InHand /\ hub.ring = rung
    BY DEF R!Declined, DeskTypes, PhaseInv, HookInv, FlagInv, TruthInv, IsTold, InHand
  <1>b. /\ Len(endings') \in {1, 2} /\ (\A i \in 1..Len(endings') : endings'[i].ring = rung)
        /\ (Len(endings') = 2 => ~endings'[1].declined) /\ endings'[Len(endings')].declined
        /\ endings' # <<>> /\ endings' \in Seq([ring : Visitors, declined : BOOLEAN])
    <2>1. endings' = Append(endings, [ring |-> rung, declined |-> TRUE])
      BY <1>a DEF R!Declined, R!Over
    <2>2. [ring |-> rung, declined |-> TRUE] \in [ring : Visitors, declined : BOOLEAN]
      BY <1>a
    <2>3. CASE endings = <<>>
      BY <2>1, <2>2, <2>3
    <2>4. CASE endings # <<>>
      <3>1. endings \in Seq([ring : Visitors, declined : BOOLEAN])
        BY DEF DeskTypes
      <3>2. Len(endings') = 2 /\ endings'[1] = endings[1] /\ endings'[2] = [ring |-> rung, declined |-> TRUE]
        BY <1>a, <2>1, <2>2, <2>4, <3>1, OneOrTwo
      <3>3. endings' \in Seq([ring : Visitors, declined : BOOLEAN])
        BY <2>1, <2>2, <3>1
      <3>. QED BY <1>a, <2>4, <3>2, <3>3
    <2>5. QED BY <2>3, <2>4
  <1>c. /\ declining' = 0 /\ pending' = None
        /\ UNCHANGED <<rung, call, answering, hub, away, hooks, announced, log, logq, truth, claimed>>
    BY <1>a DEF R!Declined, R!Ringing
  <1>d. Missed' = Missed /\ InHand' /\ ~IsTold'
    BY <1>b, <1>c DEF Missed, InHand, IsTold
  <1>1. DeskTypes'
    BY <1>b, <1>c DEF DeskTypes
  <1>2. PhaseInv'
    BY <1>a, <1>b, <1>c DEF PhaseInv, IsTold, InHand
  <1>3. HookInv'
    BY <1>a, <1>c, <1>d DEF PhaseInv, HookInv, IsTold, InHand
  <1>4. FlagInv'
    BY <1>a, <1>b, <1>c DEF PhaseInv, FlagInv, IsTold, InHand
  <1>5. AwayInv'
    BY <1>a, <1>c, <1>d DEF PhaseInv, AwayInv, IsTold, InHand
  <1>6. TruthInv'
    BY <1>a, <1>c, <1>d DEF PhaseInv, TruthInv, IsTold, InHand
  <1>7. CountedInv'
    BY <1>a, <1>c, <1>d DEF PhaseInv, FlagInv, TruthInv, CountedInv, IsTold, InHand
  <1>8. LogGoes
    BY <1>c DEF LogGoes
  <1>. QED BY <1>1, <1>2, <1>3, <1>4, <1>5, <1>6, <1>7, <1>8

\* Somebody talks.
LEMMA ClaimKeeps ==
    ASSUME NEW f, Apart(f), DeskInv, R(f)!Claim
    PROVE  DeskInv' /\ LogGoes
  <1>. USE RingsAssumption DEF Visitors, Outcomes, Apart, DeskInv
  <1>1. DeskTypes'
    BY DEF R!Claim, R!CancelAway, R!Cut, R!logVars, DeskTypes
  <1>2. PhaseInv'
    BY DEF R!Claim, R!Cut, HubType, PhaseInv, IsTold, InHand
  <1>3. HookInv'
    BY DEF R!Claim, R!MayCancelAway, R!Cut, HubType, PhaseInv, HookInv, IsTold, InHand
  <1>4. FlagInv'
    BY DEF R!Claim, R!Cut, HubType, PhaseInv, FlagInv, IsTold, InHand
  <1>5. AwayInv'
    BY DEF R!Claim, R!CancelAway, R!Cut, HubType, PhaseInv, AwayInv, IsTold, InHand
  <1>6. TruthInv'
    BY DEF R!Claim, R!MayCancelAway, R!Cut, HubType, PhaseInv, TruthInv, IsTold, InHand
  <1>7. CountedInv'
    BY DEF R!Claim, R!MayCancelAway, R!Cut, HubType, PhaseInv, FlagInv, TruthInv,
       CountedInv, IsTold, InHand, Missed
  <1>8. LogGoes
    BY DEF R!Claim, R!logVars, LogGoes
  <1>. QED BY <1>1, <1>2, <1>3, <1>4, <1>5, <1>6, <1>7, <1>8

\* The away message has waited long enough.
LEMMA AwayWakesKeeps ==
    ASSUME NEW f, Apart(f), DeskInv, R(f)!AwayWakes
    PROVE  DeskInv' /\ LogGoes
  <1>. USE RingsAssumption DEF Visitors, Outcomes, Apart, DeskInv
  <1>1. DeskTypes'
    BY DEF R!AwayWakes, R!lineVars, R!logVars, DeskTypes
  <1>2. PhaseInv'
    BY DEF R!AwayWakes, R!lineVars, PhaseInv, IsTold, InHand
  <1>3. HookInv'
    BY DEF R!AwayWakes, R!lineVars, PhaseInv, HookInv, IsTold, InHand
  <1>4. FlagInv'
    BY DEF R!AwayWakes, R!lineVars, PhaseInv, FlagInv, IsTold, InHand
  <1>5. AwayInv'
    BY DEF R!AwayWakes, R!lineVars, PhaseInv, AwayInv, IsTold, InHand
  <1>6. TruthInv'
    BY DEF R!AwayWakes, R!lineVars, PhaseInv, TruthInv, IsTold, InHand
  <1>7. CountedInv'
    BY DEF R!AwayWakes, R!lineVars, PhaseInv, FlagInv, TruthInv, CountedInv, IsTold,
       InHand, Missed
  <1>8. LogGoes
    BY DEF R!AwayWakes, R!logVars, LogGoes
  <1>. QED BY <1>1, <1>2, <1>3, <1>4, <1>5, <1>6, <1>7, <1>8

\* The away message answers its ring.
LEMMA AwayAnswersKeeps ==
    ASSUME NEW f, Apart(f), DeskInv, R(f)!AwayAnswers
    PROVE  DeskInv' /\ LogGoes
  <1>. USE RingsAssumption DEF Visitors, Outcomes, Apart, DeskInv
  <1>a. /\ IsTold /\ pending.ring = rung /\ rung \in Visitors /\ call = 0 /\ answering = None /\ endings = <<>> /\ declining = 0
        /\ hub.ring = rung /\ ~hub.answered /\ ~hub.declined /\ ~hub.sim /\ truth[rung] = "missed" /\ InHand
        /\ away \in [ring : Visitors, step : {"delay", "load", "answer", "play"}] /\ away.ring = rung
    BY DEF R!AwayAnswers, R!Ringing, DeskTypes, HubType, PhaseInv, HookInv, FlagInv,
       TruthInv, IsTold, InHand, AwayInv
  <1>b. answering' = [ring |-> rung, by |-> "away", up |-> FALSE] /\ pending' = None /\ away' = [away EXCEPT !.step = "answer"]
    BY <1>a DEF R!AwayAnswers, R!Answering
  <1>c. answering' # None /\ answering' \in [ring : Visitors, by : {"user", "away"}, up : BOOLEAN]
        /\ answering'.ring = rung /\ answering'.by = "away" /\ ~answering'.up /\ away'.ring = rung /\ away'.step = "answer"
    <2>1. [ring |-> rung, by |-> "away", up |-> FALSE] \in [ring : Nat, by : {"user", "away"}, up : BOOLEAN]
      BY <1>a
    <2>2. QED BY <1>a, <1>b, <2>1, NoneAssumption
  <1>d. UNCHANGED <<rung, call, declining, endings, hub, hooks, announced, log, logq, truth, claimed>>
    BY DEF R!AwayAnswers, R!logVars
  <1>e. Missed' = Missed /\ InHand' /\ ~IsTold'
    BY <1>b, <1>c, <1>d DEF Missed, InHand, IsTold
  <1>f. away' # None
    <2>1. away' \in [ring : Nat, step : {"delay", "load", "answer", "play"}]
      BY <1>a, <1>b
    <2>2. QED BY <2>1, NoneAssumption
  <1>1. DeskTypes'
    BY <1>a, <1>b, <1>d DEF DeskTypes
  <1>2. PhaseInv'
    BY <1>a, <1>b, <1>d DEF DeskTypes, HubType, PhaseInv, IsTold, InHand
  <1>3. HookInv'
    BY <1>a, <1>d, <1>e DEF DeskTypes, HubType, PhaseInv, HookInv, IsTold, InHand
  <1>4. FlagInv'
    BY <1>a, <1>d DEF DeskTypes, HubType, PhaseInv, FlagInv, IsTold, InHand
  <1>5. AwayInv'
    BY <1>a, <1>c, <1>d, <1>f DEF DeskTypes, HubType, PhaseInv, AwayInv, IsTold, InHand
  <1>6. TruthInv'
    BY <1>a, <1>d DEF DeskTypes, HubType, PhaseInv, TruthInv, IsTold, InHand
  <1>7. CountedInv'
    BY <1>a, <1>d, <1>e DEF DeskTypes, HubType, PhaseInv, FlagInv, TruthInv, CountedInv,
       IsTold, InHand
  <1>8. LogGoes
    BY <1>d DEF DeskTypes, TruthInv, LogGoes
  <1>. QED BY <1>1, <1>2, <1>3, <1>4, <1>5, <1>6, <1>7, <1>8

\* The away message lets it ring.
LEMMA AwayGivesUpKeeps ==
    ASSUME NEW f, Apart(f), DeskInv, R(f)!AwayGivesUp
    PROVE  DeskInv' /\ LogGoes
  <1>. USE RingsAssumption DEF Visitors, Outcomes, Apart, DeskInv
  <1>1. DeskTypes'
    BY DEF R!AwayGivesUp, R!lineVars, R!logVars, DeskTypes
  <1>2. PhaseInv'
    BY DEF R!AwayGivesUp, R!lineVars, PhaseInv, IsTold, InHand
  <1>3. HookInv'
    BY DEF R!AwayGivesUp, R!lineVars, HookInv, IsTold, InHand
  <1>4. FlagInv'
    BY DEF R!AwayGivesUp, R!lineVars, FlagInv, IsTold, InHand
  <1>5. AwayInv'
    BY DEF R!AwayGivesUp, R!lineVars, AwayInv, IsTold, InHand
  <1>6. TruthInv'
    BY DEF R!AwayGivesUp, R!lineVars, TruthInv, IsTold, InHand
  <1>7. CountedInv'
    BY DEF R!AwayGivesUp, R!lineVars, FlagInv, TruthInv, CountedInv, IsTold, InHand, Missed
  <1>8. LogGoes
    BY DEF R!AwayGivesUp, R!logVars, LogGoes
  <1>. QED BY <1>1, <1>2, <1>3, <1>4, <1>5, <1>6, <1>7, <1>8

\* The message has been said: it hangs up its own call.
LEMMA AwayHangsUpKeeps ==
    ASSUME NEW f, Apart(f), DeskInv, R(f)!AwayHangsUp
    PROVE  DeskInv' /\ LogGoes
  <1>. USE RingsAssumption DEF Visitors, Outcomes, Apart, DeskInv
  <1>a. away # None /\ away.step = "play" /\ away' = None
        /\ UNCHANGED <<rung, pending, answering, declining, endings, hooks, announced, log, logq, truth, claimed>>
    BY DEF R!AwayHangsUp, R!logVars
  <1>b. \/ call = away.ring /\ call' = 0 /\ hub' = [hub EXCEPT !.answered = FALSE] /\ hub' \in HubType
        \/ UNCHANGED <<call, hub>>
    <2>1. hub \in HubType
      BY DEF DeskTypes
    <2>2. [hub EXCEPT !.answered = FALSE] \in HubType
      BY <2>1 DEF HubType
    <2>3. CASE call = away.ring
      BY <2>2 DEF R!AwayHangsUp
    <2>4. CASE call # away.ring
      BY <2>4 DEF R!AwayHangsUp
    <2>5. QED BY <2>3, <2>4
  <1>c. call = away.ring => ~InHand
    BY <1>a DEF AwayInv, PhaseInv, DeskTypes
  <1>d. Missed' = Missed /\ (IsTold' <=> IsTold) /\ (InHand' <=> InHand) /\ (InHand => IsTold \/ endings # <<>> \/ declining # 0 \/ answering # None)
    BY <1>a DEF Missed, InHand, IsTold
  <1>1. DeskTypes'
    BY <1>a, <1>b DEF DeskTypes
  <1>2. PhaseInv'
    BY <1>a, <1>b, <1>c DEF HubType, PhaseInv, IsTold, InHand
  <1>3. HookInv'
    BY <1>a, <1>b DEF HubType, PhaseInv, HookInv, IsTold, InHand
  <1>4. FlagInv'
    BY <1>a, <1>b DEF HubType, PhaseInv, FlagInv, IsTold, InHand
  <1>5. AwayInv'
    BY <1>a DEF PhaseInv, AwayInv, IsTold, InHand
  <1>6. TruthInv'
    BY <1>a, <1>b DEF HubType, PhaseInv, TruthInv, IsTold, InHand
  <1>7. CountedInv'
    BY <1>a, <1>b, <1>d DEF HubType, PhaseInv, FlagInv, TruthInv, CountedInv, IsTold,
       InHand
  <1>8. LogGoes
    BY <1>a DEF LogGoes
  <1>. QED BY <1>1, <1>2, <1>3, <1>4, <1>5, <1>6, <1>7, <1>8

\* The switch of the away message.
LEMMA AwaySwitchedKeeps ==
    ASSUME NEW f, Apart(f), DeskInv, R(f)!AwaySwitched
    PROVE  DeskInv' /\ LogGoes
  <1>. USE RingsAssumption DEF Visitors, Outcomes, Apart, DeskInv
  <1>a. hub' = [hub EXCEPT !.away_on = ~hub.away_on] /\ hub' \in HubType
        /\ hub'.was = hub.was /\ hub'.answered = hub.answered /\ hub'.declined = hub.declined /\ hub'.ring = hub.ring
        /\ hub'.missed = hub.missed /\ hub'.sim = hub.sim
    <2>1. hub' = [hub EXCEPT !.away_on = ~hub.away_on]
      BY DEF R!AwaySwitched
    <2>2. hub \in HubType /\ hub.away_on \in BOOLEAN
      BY DEF DeskTypes, HubType
    <2>3. [hub EXCEPT !.away_on = ~hub.away_on] \in HubType
      <3>1. (~hub.away_on) \in BOOLEAN
        OBVIOUS
      <3>2. QED BY <2>2, HubTyped
    <2>4. QED BY <2>1, <2>3
  <1>b. /\ UNCHANGED <<rung, pending, call, answering, declining, endings, hooks, announced, log, logq, truth, claimed>>
        /\ away' \in {None, away}
        /\ away' # away => ~(away # None /\ away.step = "answer")
    BY DEF R!AwaySwitched, R!MayCancelAway, R!CancelAway, R!Cut, R!logVars
  <1>c. Missed' = Missed /\ (IsTold' <=> IsTold) /\ (InHand' <=> InHand)
    BY <1>b DEF Missed, IsTold, InHand
  <1>1. DeskTypes'
    <2>1. rung' \in 0..MaxRings /\ {call', declining'} \subseteq 0..MaxRings
      BY <1>b DEF DeskTypes
    <2>2. pending' \in [ring : Visitors, told : BOOLEAN] \cup {None}
      BY <1>b DEF DeskTypes
    <2>3. answering' \in [ring : Visitors, by : {"user", "away"}, up : BOOLEAN] \cup {None}
      BY <1>b DEF DeskTypes
    <2>4. endings' \in Seq([ring : Visitors, declined : BOOLEAN])
      BY <1>b DEF DeskTypes
    <2>5. hub' \in HubType
      BY <1>a
    <2>6. away' \in [ring : Visitors, step : {"delay", "load", "answer", "play"}] \cup {None}
      BY <1>b DEF DeskTypes
    <2>7. hooks' \in [started : Nat, ended : Nat]
      BY <1>b DEF DeskTypes
    <2>8. announced' \subseteq Visitors /\ claimed' \in BOOLEAN
      BY <1>b DEF DeskTypes
    <2>9. log' \in [Visitors -> Outcomes \cup {None}]
      BY <1>b DEF DeskTypes
    <2>10. truth' \in [Visitors -> Outcomes \cup {None}]
      BY <1>b DEF DeskTypes
    <2>11. logq' \in Seq([ring : Visitors, outcome : Outcomes])
      BY <1>b DEF DeskTypes
    <2>. QED BY <2>1, <2>2, <2>3, <2>4, <2>5, <2>6, <2>7, <2>8, <2>9, <2>10, <2>11 DEF
                DeskTypes
  <1>2. PhaseInv'
    BY <1>a, <1>b DEF PhaseInv, IsTold, InHand
  <1>3. HookInv'
    BY <1>a, <1>b DEF HookInv, IsTold, InHand
  <1>4. FlagInv'
    BY <1>a, <1>b DEF FlagInv, IsTold, InHand
  <1>5. AwayInv'
    BY <1>a, <1>b DEF AwayInv, IsTold, InHand
  <1>6. TruthInv'
    BY <1>a, <1>b DEF TruthInv, IsTold, InHand
  <1>7. CountedInv'
    BY <1>a, <1>b, <1>c DEF FlagInv, TruthInv, CountedInv, IsTold, InHand
  <1>8. LogGoes
    BY <1>b DEF LogGoes
  <1>. QED BY <1>1, <1>2, <1>3, <1>4, <1>5, <1>6, <1>7, <1>8

\* A test ring.
LEMMA SimulateRingKeeps ==
    ASSUME NEW f, Apart(f), DeskInv, R(f)!SimulateRing
    PROVE  DeskInv' /\ LogGoes
  <1>. USE RingsAssumption DEF Visitors, Outcomes, Apart, DeskInv
  <1>a. ~hub.sim /\ call = 0 /\ pending = None /\ endings = <<>> /\ answering = None /\ declining = 0 /\ ~InHand /\ hub \in HubType
        /\ ~hub.was /\ hooks \in [started : Nat, ended : Nat]
    BY DEF R!SimulateRing, R!IsRinging, R!Ringing, R!Apart, R!Settled, R!logVars,
       DeskTypes, HubType, HookInv, IsTold, InHand
  <1>b. hub' = [hub EXCEPT !.sim = TRUE, !.sims = @ + 1, !.was = TRUE] /\ hooks' = [hooks EXCEPT !.started = @ + 1]
        /\ UNCHANGED <<rung, pending, call, answering, declining, endings, away, announced, log, logq, truth, claimed>>
    BY DEF R!SimulateRing, R!lineVars, R!logVars
  <1>c. Missed' = Missed /\ (IsTold' <=> IsTold) /\ (InHand' <=> InHand)
    BY <1>b DEF Missed, InHand, IsTold
  <1>d. hub' \in HubType
    <2>1. hub.sims + 1 \in Nat
      BY <1>a DEF HubType
    <2>2. QED BY <1>a, <1>b, <2>1 DEF HubType
  <1>1. DeskTypes'
    <2>1. hooks' \in [started : Nat, ended : Nat]
      BY <1>a, <1>b
    <2>2. UNCHANGED <<rung, pending, call, answering, declining, endings, away, announced, log,
                      logq, truth, claimed>>
      BY <1>b
    <2>. QED BY <1>d, <2>1, <2>2 DEF DeskTypes
  <1>2. PhaseInv'
    BY <1>b DEF PhaseInv, IsTold, InHand
  <1>3. HookInv'
    BY <1>a, <1>b DEF PhaseInv, HookInv, IsTold, InHand
  <1>4. FlagInv'
    BY <1>b DEF PhaseInv, FlagInv, IsTold, InHand
  <1>5. AwayInv'
    BY <1>b DEF PhaseInv, AwayInv, IsTold, InHand
  <1>6. TruthInv'
    BY <1>b DEF PhaseInv, TruthInv, IsTold, InHand
  <1>7. CountedInv'
    BY <1>b, <1>c DEF PhaseInv, FlagInv, TruthInv, CountedInv, IsTold, InHand
  <1>8. LogGoes
    BY <1>b DEF LogGoes
  <1>. QED BY <1>1, <1>2, <1>3, <1>4, <1>5, <1>6, <1>7, <1>8

\* A test ring after its duration.
LEMMA SimEndsKeeps ==
    ASSUME NEW f, Apart(f), DeskInv, R(f)!SimEnds
    PROVE  DeskInv' /\ LogGoes
  <1>. USE RingsAssumption DEF Visitors, Outcomes, Apart, DeskInv
  <1>a. hub.sim /\ hub.was /\ ~InHand /\ hub \in HubType
    BY DEF R!SimEnds, HookInv, DeskTypes
  <1>b. hub' = [hub EXCEPT !.sim = FALSE, !.was = FALSE] /\ hub' \in HubType /\ hooks' = [hooks EXCEPT !.ended = @ + 1]
        /\ hooks' \in [started : Nat, ended : Nat]
    <2>1. hub' = [[hub EXCEPT !.sim = FALSE] EXCEPT !.was = FALSE] /\ hooks' = [hooks EXCEPT !.ended = @ + 1]
      BY DEF R!SimEnds, R!StopSim, R!RingOver
    <2>2. hub' = [hub EXCEPT !.sim = FALSE, !.was = FALSE] /\ hub' \in HubType
      BY <1>a, <2>1 DEF HubType
    <2>3. hooks' \in [started : Nat, ended : Nat]
      BY <2>1, HooksTyped DEF DeskTypes
    <2>4. QED BY <2>1, <2>2, <2>3
  <1>c. /\ UNCHANGED <<rung, pending, call, answering, declining, endings, away, announced, log, logq, truth, claimed>>
    BY DEF R!SimEnds, R!lineVars, R!logVars
  <1>d. Missed' = Missed /\ (IsTold' <=> IsTold) /\ (InHand' <=> InHand)
    BY <1>c DEF Missed, IsTold, InHand
  <1>1. DeskTypes'
    <2>1. rung' \in 0..MaxRings /\ {call', declining'} \subseteq 0..MaxRings
      BY <1>c DEF DeskTypes
    <2>2. pending' \in [ring : Visitors, told : BOOLEAN] \cup {None}
      BY <1>c DEF DeskTypes
    <2>3. answering' \in [ring : Visitors, by : {"user", "away"}, up : BOOLEAN] \cup {None}
      BY <1>c DEF DeskTypes
    <2>4. endings' \in Seq([ring : Visitors, declined : BOOLEAN])
      BY <1>c DEF DeskTypes
    <2>5. hub' \in HubType
      BY <1>b
    <2>6. away' \in [ring : Visitors, step : {"delay", "load", "answer", "play"}] \cup {None}
      BY <1>c DEF DeskTypes
    <2>7. hooks' \in [started : Nat, ended : Nat]
      BY <1>b
    <2>8. announced' \subseteq Visitors /\ claimed' \in BOOLEAN
      BY <1>c DEF DeskTypes
    <2>9. log' \in [Visitors -> Outcomes \cup {None}]
      BY <1>c DEF DeskTypes
    <2>10. truth' \in [Visitors -> Outcomes \cup {None}]
      BY <1>c DEF DeskTypes
    <2>11. logq' \in Seq([ring : Visitors, outcome : Outcomes])
      BY <1>c DEF DeskTypes
    <2>. QED BY <2>1, <2>2, <2>3, <2>4, <2>5, <2>6, <2>7, <2>8, <2>9, <2>10, <2>11 DEF
                DeskTypes
  <1>2. PhaseInv'
    BY <1>b, <1>c DEF PhaseInv, IsTold, InHand
  <1>3. HookInv'
    BY <1>a, <1>b DEF PhaseInv, HookInv, IsTold, InHand
  <1>4. FlagInv'
    BY <1>b, <1>c DEF PhaseInv, FlagInv, IsTold, InHand
  <1>5. AwayInv'
    BY <1>b, <1>c DEF PhaseInv, AwayInv, IsTold, InHand
  <1>6. TruthInv'
    BY <1>b, <1>c DEF PhaseInv, TruthInv, IsTold, InHand
  <1>7. CountedInv'
    BY <1>b, <1>c, <1>d DEF PhaseInv, FlagInv, TruthInv, CountedInv, IsTold, InHand
  <1>8. LogGoes
    BY <1>c DEF LogGoes
  <1>. QED BY <1>1, <1>2, <1>3, <1>4, <1>5, <1>6, <1>7, <1>8

\* A change of the log is written, or finds no line.
LEMMA LogWrittenKeeps ==
    ASSUME NEW f, Apart(f), DeskInv, R(f)!LogWritten
    PROVE  DeskInv'
  <1>. USE RingsAssumption DEF Visitors, Outcomes, Apart, DeskInv
  <1>a. logq # <<>> /\ logq' = Tail(logq) /\ logq' \in Seq([ring : Visitors, outcome : Outcomes])
        /\ Head(logq) \in [ring : Visitors, outcome : Outcomes]
    <2>1. logq \in Seq([ring : Visitors, outcome : Outcomes])
      BY DEF DeskTypes
    <2>2. logq # <<>> /\ logq' = Tail(logq)
      BY DEF R!LogWritten
    <2>. DEFINE S == [ring : Visitors, outcome : Outcomes]
    <2>. HIDE DEF S
    <2>3. logq \in Seq(S)
      BY <2>1 DEF S
    <2>4. Tail(logq) \in Seq(S) /\ Head(logq) \in S
      BY <2>2, <2>3
    <2>. QED BY <2>2, <2>4 DEF S
  <1>b. UNCHANGED <<rung, pending, call, answering, declining, endings, hub, away, hooks, announced, truth, claimed>>
    BY DEF R!LogWritten, R!lineVars
  <1>c. log' \in [Visitors -> Outcomes \cup {None}]
    BY <1>a DEF R!LogWritten, DeskTypes
  <1>d. Missed' = Missed /\ (IsTold' <=> IsTold) /\ (InHand' <=> InHand)
    BY <1>b DEF Missed, InHand, IsTold
  <1>1. DeskTypes'
    BY <1>a, <1>b, <1>c DEF DeskTypes
  <1>2. PhaseInv'
    BY <1>b DEF PhaseInv, IsTold, InHand
  <1>3. HookInv'
    BY <1>b DEF PhaseInv, HookInv, IsTold, InHand
  <1>4. FlagInv'
    BY <1>b DEF PhaseInv, FlagInv, IsTold, InHand
  <1>5. AwayInv'
    BY <1>b DEF PhaseInv, AwayInv, IsTold, InHand
  <1>6. TruthInv'
    BY <1>b DEF PhaseInv, TruthInv, IsTold, InHand
  <1>7. CountedInv'
    BY <1>b, <1>d DEF PhaseInv, FlagInv, TruthInv, CountedInv, IsTold, InHand
  <1>. QED BY <1>1, <1>2, <1>3, <1>4, <1>5, <1>6, <1>7

\* A change of the log is lost.
LEMMA LogLostKeeps ==
    ASSUME NEW f, Apart(f), DeskInv, R(f)!LogLost
    PROVE  DeskInv'
  <1>. USE RingsAssumption DEF Visitors, Outcomes, Apart, DeskInv
  <1>a. logq # <<>> /\ logq' = Tail(logq) /\ logq' \in Seq([ring : Visitors, outcome : Outcomes])
        /\ Head(logq) \in [ring : Visitors, outcome : Outcomes]
    <2>1. logq \in Seq([ring : Visitors, outcome : Outcomes])
      BY DEF DeskTypes
    <2>2. logq # <<>> /\ logq' = Tail(logq)
      BY DEF R!LogLost
    <2>. DEFINE S == [ring : Visitors, outcome : Outcomes]
    <2>. HIDE DEF S
    <2>3. logq \in Seq(S)
      BY <2>1 DEF S
    <2>4. Tail(logq) \in Seq(S) /\ Head(logq) \in S
      BY <2>2, <2>3
    <2>. QED BY <2>2, <2>4 DEF S
  <1>b. UNCHANGED <<rung, pending, call, answering, declining, endings, hub, away, hooks, announced, truth, claimed>>
    BY DEF R!LogLost, R!lineVars
  <1>c. log' \in [Visitors -> Outcomes \cup {None}]
    BY DEF R!LogLost, DeskTypes
  <1>d. Missed' = Missed /\ (IsTold' <=> IsTold) /\ (InHand' <=> InHand)
    BY <1>b DEF Missed, InHand, IsTold
  <1>1. DeskTypes'
    BY <1>a, <1>b, <1>c DEF DeskTypes
  <1>2. PhaseInv'
    BY <1>b DEF PhaseInv, IsTold, InHand
  <1>3. HookInv'
    BY <1>b DEF PhaseInv, HookInv, IsTold, InHand
  <1>4. FlagInv'
    BY <1>b DEF PhaseInv, FlagInv, IsTold, InHand
  <1>5. AwayInv'
    BY <1>b DEF PhaseInv, AwayInv, IsTold, InHand
  <1>6. TruthInv'
    BY <1>b DEF PhaseInv, TruthInv, IsTold, InHand
  <1>7. CountedInv'
    BY <1>b, <1>d DEF PhaseInv, FlagInv, TruthInv, CountedInv, IsTold, InHand
  <1>. QED BY <1>1, <1>2, <1>3, <1>4, <1>5, <1>6, <1>7

-----------------------------------------------------------------------------
\* What a sequence with one element more is.
LEMMA AppendFacts ==
    ASSUME NEW S, NEW s \in Seq(S), NEW e \in S
    PROVE  /\ Len(Append(s, e)) = Len(s) + 1 /\ DOMAIN Append(s, e) = 1..Len(s) + 1
           /\ \A k \in 1..Len(s) + 1 : Append(s, e)[k] = IF k = Len(s) + 1 THEN e ELSE s[k]
  OBVIOUS

\* What a sequence without its first element is.
LEMMA TailFacts ==
    ASSUME NEW S, NEW s \in Seq(S), s # <<>>
    PROVE  /\ Len(s) \in Nat \ {0} /\ DOMAIN s = 1..Len(s) /\ s[1] = Head(s) /\ s[1] \in S
           /\ DOMAIN Tail(s) = 1..Len(s) - 1 /\ \A k \in 1..Len(s) - 1 : Tail(s)[k] = s[k + 1]
  OBVIOUS

\* An empty log is right.
LEMMA LogInit == ASSUME R({})!Init PROVE LogInv
  <1>. USE DEF R!Init, R!Rings
  <1>1. DOMAIN logq = {}
    OBVIOUS
  <1>2. \A c \in Visitors : log[c] = None /\ truth[c] = None
    BY DEF Visitors
  <1>3. QED BY DEF LogInv

\* A change that is queued makes the log, once written, say what became of the visitor.
LEMMA LogChanged ==
    ASSUME DeskTypes, LogInv, LogGoes
    PROVE  LogInv'
  <1>. DEFINE Entry == [ring : Visitors, outcome : Outcomes]
  <1>1. CASE UNCHANGED <<log, logq, truth>>
    BY <1>1 DEF LogInv
  <1>2. ASSUME NEW c \in Visitors, NEW o \in Outcomes, log' = log,
               logq' = Append(logq, [ring |-> c, outcome |-> o]), truth' = [truth EXCEPT ![c] = o],
               o = "missed" \/ truth[c] # None
        PROVE  LogInv'
    <2>. DEFINE e == [ring |-> c, outcome |-> o]
                n == Len(logq)
    <2>1. e \in Entry /\ logq \in Seq(Entry) /\ e.ring = c /\ e.outcome = o
      BY DEF DeskTypes
    <2>. HIDE DEF Entry
    <2>2. n \in Nat /\ DOMAIN logq = 1..n
      OBVIOUS
    <2>3. DOMAIN logq' = 1..n + 1 /\ \A k \in 1..n + 1 : logq'[k] = IF k = n + 1 THEN e ELSE logq[k]
      BY <1>2
    <2>4. \A k \in 1..n : logq[k].ring \in Visitors
      <3>1. \A k \in 1..n : logq[k] \in Entry
        BY <2>1
      <3>2. QED BY <3>1 DEF Entry
    <2>5. /\ truth'[c] = o /\ \A b \in Visitors : b # c => truth'[b] = truth[b]
      BY <1>2 DEF DeskTypes
    <2>6. n + 1 \in 1..n + 1 /\ \A k \in 1..n : k \in 1..n + 1 /\ k # n + 1 /\ n + 1 > k
      OBVIOUS
    <2>. HIDE DEF e, n
    <2>7. \A k \in 1..n : logq'[k] = logq[k]
      BY <2>3, <2>6
    <2>8. logq'[n + 1] = e
      BY <2>3, <2>6
    <2>9. \A b \in Visitors : (\A i \in 1..n + 1 : logq'[i].ring # b) => log'[b] = truth'[b]
      <3>1. ASSUME NEW b \in Visitors, \A i \in 1..n + 1 : logq'[i].ring # b
            PROVE  log'[b] = truth'[b]
        <4>1. b # c
          BY <2>1, <2>6, <2>8, <3>1
        <4>2. \A i \in 1..n : logq[i].ring # b
          BY <2>6, <2>7, <3>1
        <4>3. QED BY <1>2, <2>2, <4>1, <4>2 DEF LogInv
      <3>2. QED BY <3>1
    <2>10. \A i \in 1..n + 1 :
              (\A j \in 1..n + 1 : j > i => logq'[j].ring # logq'[i].ring) => truth'[logq'[i].ring] = logq'[i].outcome
      <3>1. ASSUME NEW i \in 1..n, \A j \in 1..n + 1 : j > i => logq'[j].ring # logq'[i].ring
            PROVE  truth'[logq'[i].ring] = logq'[i].outcome
        <4>1. logq[i].ring # c
          BY <2>1, <2>6, <2>7, <2>8, <3>1
        <4>2. \A j \in 1..n : j > i => logq[j].ring # logq[i].ring
          BY <2>6, <2>7, <3>1
        <4>3. QED BY <2>2, <2>4, <2>5, <2>7, <4>1, <4>2 DEF LogInv
      <3>2. truth'[logq'[n + 1].ring] = logq'[n + 1].outcome
        BY <2>1, <2>5, <2>8
      <3>3. \A i \in 1..n + 1 : i \in 1..n \/ i = n + 1
        BY <2>2
      <3>4. QED BY <3>1, <3>2, <3>3
    <2>11. \A i \in 1..n + 1 :
              logq'[i].outcome = "missed" \/ log'[logq'[i].ring] # None
              \/ \E j \in 1..n + 1 : j < i /\ logq'[j].ring = logq'[i].ring /\ logq'[j].outcome = "missed"
      <3>1. ASSUME NEW i \in 1..n, logq'[i].outcome # "missed", log'[logq'[i].ring] = None
            PROVE  \E j \in 1..n + 1 : j < i /\ logq'[j].ring = logq'[i].ring /\ logq'[j].outcome = "missed"
        <4>1. PICK j \in 1..n : j < i /\ logq[j].ring = logq[i].ring /\ logq[j].outcome = "missed"
          BY <1>2, <2>2, <3>1 DEF LogInv
        <4>2. QED BY <2>6, <2>7, <4>1
      <3>2. ASSUME logq'[n + 1].outcome # "missed", log'[logq'[n + 1].ring] = None
            PROVE  \E j \in 1..n + 1 : j < n + 1 /\ logq'[j].ring = logq'[n + 1].ring /\ logq'[j].outcome = "missed"
        <4>1. truth[c] # None /\ log[c] = None
          BY <1>2, <2>1, <2>8, <3>2
        <4>2. PICK j \in 1..n : logq[j].ring = c /\ logq[j].outcome = "missed"
          BY <2>2, <4>1 DEF LogInv
        <4>3. QED BY <2>1, <2>6, <2>7, <2>8, <4>2
      <3>3. \A i \in 1..n + 1 : i \in 1..n \/ i = n + 1
        BY <2>2
      <3>4. QED BY <3>1, <3>2, <3>3
    <2>12. \A b \in Visitors : truth'[b] # None =>
              log'[b] # None \/ \E j \in 1..n + 1 : logq'[j].ring = b /\ logq'[j].outcome = "missed"
      <3>1. ASSUME NEW b \in Visitors, truth[b] # None, log'[b] = None
            PROVE  \E j \in 1..n + 1 : logq'[j].ring = b /\ logq'[j].outcome = "missed"
        <4>1. PICK j \in 1..n : logq[j].ring = b /\ logq[j].outcome = "missed"
          BY <1>2, <2>2, <3>1 DEF LogInv
        <4>2. QED BY <2>6, <2>7, <4>1
      <3>2. ASSUME truth[c] = None
            PROVE  logq'[n + 1].ring = c /\ logq'[n + 1].outcome = "missed"
        BY <1>2, <2>1, <2>8, <3>2
      <3>3. QED BY <2>5, <2>6, <3>1, <3>2
    <2>13. QED BY <2>3, <2>9, <2>10, <2>11 DEF LogInv
  <1>3. QED BY <1>1, <1>2 DEF LogGoes

\* The first change that waits finds its line: the log is written in order.
LEMMA LogWritten ==
    ASSUME NEW f, DeskTypes, LogInv, R(f)!LogWritten
    PROVE  LogInv'
  <1>. DEFINE Entry == [ring : Visitors, outcome : Outcomes]
              n == Len(logq)
              w == logq[1]
  <1>1. logq \in Seq(Entry) /\ logq # <<>> /\ logq' = Tail(logq) /\ truth' = truth
    BY DEF DeskTypes, R!LogWritten
  <1>2. /\ n \in Nat \ {0} /\ DOMAIN logq = 1..n /\ w = Head(logq) /\ w \in Entry
        /\ DOMAIN logq' = 1..n - 1 /\ \A k \in 1..n - 1 : logq'[k] = logq[k + 1]
    <2>. HIDE DEF Entry
    <2>. QED BY <1>1
  <1>3. w.ring \in Visitors /\ w.outcome # None
    BY <1>2, NoneAssumption DEF Outcomes
  <1>4. \A k \in 1..n : logq[k].ring \in Visitors
    <2>1. \A k \in 1..n : logq[k] \in Entry
      <3>. HIDE DEF Entry
      <3>. QED BY <1>1
    <2>2. QED BY <2>1
  <1>5. 1 \in 1..n /\ \A k \in 1..n - 1 : k + 1 \in 1..n /\ k + 1 > 1
    BY <1>2
  <1>6. log' = [log EXCEPT ![w.ring] = w.outcome]
    <2>1. w.outcome = "missed" \/ log[w.ring] # None
      <3>1. \A j \in 1..n : ~(j < 1)
        OBVIOUS
      <3>2. QED BY <1>5 DEF LogInv
    <2>2. QED BY <1>2, <2>1 DEF R!LogWritten
  <1>7. log'[w.ring] = w.outcome /\ \A b \in Visitors : b # w.ring => log'[b] = log[b]
    BY <1>3, <1>6 DEF DeskTypes
  <1>8. \A i \in 1..n : i = 1 \/ (i - 1 \in 1..n - 1 /\ logq'[i - 1] = logq[i])
    BY <1>2
  <1>. HIDE DEF w, n, Entry
  <1>9. \A b \in Visitors : (\A i \in 1..n - 1 : logq'[i].ring # b) => log'[b] = truth'[b]
    <2>1. ASSUME NEW b \in Visitors, \A i \in 1..n - 1 : logq'[i].ring # b
          PROVE  log'[b] = truth'[b]
      <3>1. \A i \in 1..n : i > 1 => logq[i].ring # b
        BY <1>8, <2>1
      <3>2. CASE b = w.ring
        <4>1. truth[w.ring] = w.outcome
          BY <1>2, <3>1, <3>2 DEF LogInv
        <4>2. QED BY <1>1, <1>7, <3>2, <4>1
      <3>3. CASE b # w.ring
        <4>1. \A i \in 1..n : logq[i].ring # b
          BY <3>1, <3>3 DEF w
        <4>2. QED BY <1>1, <1>2, <1>7, <4>1 DEF LogInv
      <3>4. QED BY <3>2, <3>3
    <2>2. QED BY <2>1
  <1>10. \A i \in 1..n - 1 :
            (\A j \in 1..n - 1 : j > i => logq'[j].ring # logq'[i].ring) => truth'[logq'[i].ring] = logq'[i].outcome
    <2>1. ASSUME NEW i \in 1..n - 1, \A j \in 1..n - 1 : j > i => logq'[j].ring # logq'[i].ring
          PROVE  truth'[logq'[i].ring] = logq'[i].outcome
      <3>1. logq'[i] = logq[i + 1] /\ i + 1 \in 1..n
        BY <1>2
      <3>2. ASSUME NEW j \in 1..n, j > i + 1
            PROVE  logq[j].ring # logq[i + 1].ring
        <4>1. j # 1 /\ j - 1 > i
          BY <3>2
        <4>2. QED BY <1>8, <2>1, <3>1, <4>1
      <3>3. QED BY <1>1, <1>2, <3>2 DEF LogInv
    <2>2. QED BY <2>1
  <1>11. \A i \in 1..n - 1 :
            logq'[i].outcome = "missed" \/ log'[logq'[i].ring] # None
            \/ \E j \in 1..n - 1 : j < i /\ logq'[j].ring = logq'[i].ring /\ logq'[j].outcome = "missed"
    <2>1. ASSUME NEW i \in 1..n - 1, logq'[i].outcome # "missed", log'[logq'[i].ring] = None
          PROVE  \E j \in 1..n - 1 : j < i /\ logq'[j].ring = logq'[i].ring /\ logq'[j].outcome = "missed"
      <3>1. logq'[i] = logq[i + 1] /\ i + 1 \in 1..n
        BY <1>2
      <3>2. logq[i + 1].ring # w.ring /\ log[logq[i + 1].ring] = None
        BY <1>3, <1>4, <1>7, <2>1, <3>1
      <3>3. PICK j \in 1..n : j < i + 1 /\ logq[j].ring = logq[i + 1].ring /\ logq[j].outcome = "missed"
        BY <1>2, <2>1, <3>2 DEF LogInv
      <3>4. j # 1
        BY <3>2, <3>3 DEF w
      <3>5. j - 1 \in 1..n - 1 /\ logq'[j - 1] = logq[j] /\ j - 1 < i
        BY <1>8, <3>3, <3>4
      <3>6. QED BY <3>1, <3>3, <3>5
    <2>2. QED BY <2>1
  <1>12. \A b \in Visitors : truth'[b] # None =>
            log'[b] # None \/ \E j \in 1..n - 1 : logq'[j].ring = b /\ logq'[j].outcome = "missed"
    <2>1. ASSUME NEW b \in Visitors, truth'[b] # None, log'[b] = None
          PROVE  \E j \in 1..n - 1 : logq'[j].ring = b /\ logq'[j].outcome = "missed"
      <3>1. b # w.ring /\ log[b] = None
        BY <1>3, <1>7, <2>1
      <3>2. PICK j \in 1..n : logq[j].ring = b /\ logq[j].outcome = "missed"
        BY <1>1, <1>2, <2>1, <3>1 DEF LogInv
      <3>3. j # 1
        BY <3>1, <3>2 DEF w
      <3>4. QED BY <1>8, <3>2, <3>3
    <2>2. QED BY <2>1
  <1>. DEFINE D == 1..n - 1
  <1>13. DOMAIN logq' = D
    BY <1>2
  <1>. HIDE DEF D
  <1>14. \A b \in Visitors : (\A i \in D : logq'[i].ring # b) => log'[b] = truth'[b]
    BY <1>9 DEF D
  <1>15. \A i \in D : (\A j \in D : j > i => logq'[j].ring # logq'[i].ring) => truth'[logq'[i].ring] = logq'[i].outcome
    BY <1>10 DEF D
  <1>16. \A i \in D : logq'[i].outcome = "missed" \/ log'[logq'[i].ring] # None
            \/ \E j \in D : j < i /\ logq'[j].ring = logq'[i].ring /\ logq'[j].outcome = "missed"
    BY <1>11 DEF D
  <1>17. \A b \in Visitors : truth'[b] # None =>
            log'[b] # None \/ \E j \in D : logq'[j].ring = b /\ logq'[j].outcome = "missed"
    BY <1>12 DEF D
  <1>18. QED BY <1>13, <1>14, <1>15, <1>16 DEF LogInv

\* No ring, no event and no outcome.
LEMMA DeskInit == ASSUME R({})!Init PROVE DeskInv
  <1>. USE RingsAssumption DEF R!Init, Visitors, R!Rings
  <1>1. hub \in HubType /\ hub.was = FALSE /\ hub.sim = FALSE /\ hub.ring = 0 /\ hub.missed = 0
    BY DEF HubType
  <1>2. ~IsTold /\ ~InHand
    BY DEF IsTold, InHand
  <1>3. DeskTypes
    <2>1. endings \in Seq([ring : Visitors, declined : BOOLEAN]) /\ logq \in Seq([ring : Visitors, outcome : Outcomes])
      OBVIOUS
    <2>2. hooks \in [started : Nat, ended : Nat] /\ rung \in 0..MaxRings /\ {call, declining} \subseteq 0..MaxRings
      OBVIOUS
    <2>3. log \in [Visitors -> Outcomes \cup {None}] /\ truth \in [Visitors -> Outcomes \cup {None}]
      OBVIOUS
    <2>4. QED BY <1>1, <2>1, <2>2 DEF DeskTypes
  <1>4. PhaseInv /\ HookInv /\ FlagInv /\ AwayInv /\ TruthInv
    <2>1. PhaseInv
      BY DEF PhaseInv
    <2>2. HookInv
      <3>1. hooks.started = 0 /\ hooks.ended = 0
        OBVIOUS
      <3>2. QED BY DEF HookInv
    <2>4. FlagInv /\ AwayInv
      BY DEF FlagInv, AwayInv
    <2>3. TruthInv
      BY <1>2 DEF TruthInv
    <2>5. QED BY <2>1, <2>2, <2>3, <2>4
  <1>5. CountedInv
    <2>1. Missed = {}
      BY NoneAssumption DEF Missed
    <2>2. QED BY <1>2, <2>1, FS_EmptySet DEF CountedInv
  <1>6. QED BY <1>3, <1>4, <1>5 DEF DeskInv

\* Every step of the desk.
LEMMA DeskStep ==
    ASSUME NEW f, Apart(f), DeskInv, [R(f)!Next]_desk
    PROVE  DeskInv' /\ (LogGoes \/ R(f)!LogWritten \/ "disk" \in f)
  <1>1. CASE R(f)!Invite
    BY <1>1, InviteKeeps
  <1>2. CASE R(f)!RingTold
    BY <1>2, RingToldKeeps
  <1>3. CASE R(f)!RingEnds
    BY <1>3, RingEndsKeeps
  <1>4. CASE R(f)!RingEnded
    BY <1>4, RingEndedKeeps
  <1>5. CASE R(f)!AnswerStopsSim
    BY <1>5, AnswerStopsSimKeeps
  <1>6. CASE R(f)!TakesFromAway
    BY <1>6, TakesFromAwayKeeps
  <1>7. CASE R(f)!Answer
    BY <1>7, AnswerKeeps
  <1>8. CASE R(f)!AnswerSent
    BY <1>8, AnswerSentKeeps
  <1>9. CASE R(f)!AnswerFails
    BY <1>9, AnswerFailsKeeps
  <1>10. CASE R(f)!AnswerTold
    BY <1>10, AnswerToldKeeps
  <1>11. CASE R(f)!CallEnds
    BY <1>11, CallEndsKeeps
  <1>12. CASE R(f)!Decline
    BY <1>12, DeclineKeeps
  <1>13. CASE R(f)!Declined
    BY <1>13, DeclinedKeeps
  <1>14. CASE R(f)!Claim
    BY <1>14, ClaimKeeps
  <1>15. CASE R(f)!AwayWakes
    BY <1>15, AwayWakesKeeps
  <1>16. CASE R(f)!AwayAnswers
    BY <1>16, AwayAnswersKeeps
  <1>17. CASE R(f)!AwayGivesUp
    BY <1>17, AwayGivesUpKeeps
  <1>18. CASE R(f)!AwayHangsUp
    BY <1>18, AwayHangsUpKeeps
  <1>19. CASE R(f)!AwaySwitched
    BY <1>19, AwaySwitchedKeeps
  <1>20. CASE R(f)!SimulateRing
    BY <1>20, SimulateRingKeeps
  <1>21. CASE R(f)!SimEnds
    BY <1>21, SimEndsKeeps
  <1>22. CASE R(f)!LogWritten
    BY <1>22, LogWrittenKeeps
  <1>23. CASE R(f)!LogLost
    BY <1>23, LogLostKeeps DEF R!LogLost
  <1>24. CASE UNCHANGED desk
    <2>1. LogGoes
      BY <1>24 DEF desk, LogGoes
    <2>2. DeskTypes' /\ PhaseInv' /\ HookInv' /\ FlagInv'
      BY <1>24 DEF desk, DeskInv, DeskTypes, PhaseInv, HookInv, FlagInv, IsTold, InHand
    <2>3. AwayInv' /\ TruthInv' /\ CountedInv'
      BY <1>24 DEF desk, DeskInv, AwayInv, TruthInv, CountedInv, Missed, IsTold, InHand
    <2>4. QED BY <2>1, <2>2, <2>3 DEF DeskInv
  <1>. QED BY <1>1, <1>2, <1>3, <1>4, <1>5, <1>6, <1>7, <1>8, <1>9, <1>10, <1>11, <1>12,
              <1>13, <1>14, <1>15, <1>16, <1>17, <1>18, <1>19, <1>20, <1>21, <1>22, <1>23,
              <1>24 DEF R!Next, R!Told


\* The away message hangs up its own call, that nobody has taken.
LEMMA AwayHangsUpItsOwn ==
    ASSUME NEW f, DeskInv
    PROVE  R(f)!HangsUpIts
  <1>1. ASSUME R(f)!AwayHangsUp, call' # call
        PROVE  truth[call] = "away" /\ ~claimed
    BY <1>1 DEF R!AwayHangsUp, DeskInv, AwayInv
  <1>2. QED BY <1>1 DEF R!HangsUpIts

\* Cardinality is the same in the instance.
LEMMA SameCount == ASSUME NEW f, NEW S PROVE R(f)!Cardinality(S) = Cardinality(S)
  BY DEF R!Cardinality, Cardinality

\* What the invariant says of the properties.
LEMMA DeskSays ==
    ASSUME NEW f, DeskInv
    PROVE  /\ R(f)!TypeOK /\ R(f)!EveryRingAnnounced /\ R(f)!HooksPaired /\ R(f)!MissedTrue
           /\ LogInv => R(f)!OutcomeTrue
  <1>. USE RingsAssumption
  <1>1. R(f)!Rings = Visitors
    BY DEF R!Rings, Visitors
  <1>2. hub.missed \in 0..MaxRings
    <2>1. IsFiniteSet(Visitors) /\ Cardinality(Visitors) = MaxRings
      BY FS_Interval DEF Visitors
    <2>2. Cardinality(Missed) <= MaxRings
      <3>1. Missed \subseteq Visitors
        BY DEF Missed
      <3>2. QED BY <2>1, <3>1, FS_Subset
    <2>3. hub.missed <= Cardinality(Missed) /\ hub.missed \in Nat
      BY DEF DeskInv, DeskTypes, HubType, CountedInv
    <2>4. QED BY <2>2, <2>3, MissedCounted
  <1>3. R(f)!TypeOK
    <2>1. hub.was \in BOOLEAN /\ hub.ring \in 0..MaxRings
      BY DEF DeskInv, DeskTypes, HubType
    <2>2. \A c \in Visitors : {log[c], truth[c]} \subseteq {None, "missed", "answered", "away", "declined"}
      BY DEF DeskInv, DeskTypes, Outcomes
    <2>3. QED BY <1>1, <1>2, <2>1, <2>2 DEF R!TypeOK, DeskInv, DeskTypes
  <1>4. R(f)!EveryRingAnnounced /\ R(f)!HooksPaired
    BY <1>1 DEF R!EveryRingAnnounced, R!HooksPaired, DeskInv, TruthInv, HookInv
  <1>5. R(f)!MissedTrue
    <2>1. ASSUME R(f)!Settled, ~R(f)!IsRinging
          PROVE  hub.missed = Cardinality(Missed)
      <3>1. ~InHand
        BY <2>1 DEF R!Settled, R!IsRinging, R!Ringing, InHand, IsTold
      <3>2. QED BY <3>1 DEF DeskInv, CountedInv, DeskTypes, HubType
    <2>2. R(f)!Cardinality(Missed) = Cardinality(Missed)
      BY SameCount
    <2>3. QED BY <1>1, <2>1, <2>2 DEF R!MissedTrue, Missed
  <1>6. LogInv => R(f)!OutcomeTrue
    BY <1>1 DEF LogInv, R!OutcomeTrue
  <1>7. QED BY <1>3, <1>4, <1>5, <1>6

\* The ring desk in its two cases.
DeskPart ==
    \A n \in DOMAIN DeskCases : case = n => DeskInv /\ (DeskCases[n] = {} => LogInv)

\* A step of MCDoorbell is one of the case it is in.
LEMMA DeskPartStep ==
    ASSUME DeskPart, [Next]_vars
    PROVE  DeskPart'
  <1>1. /\ case' = case
        /\ UNCHANGED desk \/ \E n \in DOMAIN DeskCases : case = n /\ R(DeskCases[n])!Next
    BY DEF Next, vars
  <1>2. ASSUME NEW n \in DOMAIN DeskCases, case = n
        PROVE  DeskInv' /\ (DeskCases[n] = {} => LogInv')
    <2>1. Apart(DeskCases[n]) /\ (DeskCases[n] = {} \/ "disk" \in DeskCases[n])
      BY DEF DeskCases, Apart
    <2>2. DeskInv /\ [R(DeskCases[n])!Next]_desk
      BY <1>1, <1>2 DEF DeskPart
    <2>3. DeskInv' /\ (LogGoes \/ R(DeskCases[n])!LogWritten \/ "disk" \in DeskCases[n])
      BY <2>1, <2>2, DeskStep
    <2>4. ASSUME DeskCases[n] = {} PROVE LogInv'
      <3>1. DeskTypes /\ LogInv
        BY <1>2, <2>4 DEF DeskPart, DeskInv
      <3>2. LogGoes \/ R(DeskCases[n])!LogWritten
        BY <2>3, <2>4
      <3>3. QED BY <3>1, <3>2, LogChanged, LogWritten
    <2>5. QED BY <2>3, <2>4
  <1>3. QED BY <1>1, <1>2 DEF DeskPart

\* Every visitor is announced, counted and logged as what it came to (RingsTold), for every
\* number of visitors and test rings, whether the disk works or not.
THEOREM RingsToldHold == Spec => []RingsTold
  <1>1. Init => DeskPart
    BY DeskInit, LogInit DEF Init, DeskPart
  <1>2. DeskPart /\ [Next]_vars => DeskPart'
    BY DeskPartStep
  <1>3. DeskPart => RingsTold
    BY DeskSays DEF DeskPart, RingsTold
  <1>4. QED BY <1>1, <1>2, <1>3, PTL DEF Spec

-----------------------------------------------------------------------------
(* HomeKitTalk: the decoder.                                                 *)

\* The decoder that runs is the one _talk_proc names; none runs while one is about to be
\* started, while none is expected, or once the view stops.
DecoderInv ==
    /\ t_alive \subseteq {t_proc}
    /\ t_launch \in {"file", "spawn"} \/ (t_launch = "no" /\ ~t_ready) => t_alive = {}
    /\ t_stop # "no" => t_alive = {} /\ t_launch = "no"
\* What bounds _talk_failures and _loud_ms.
CountInv ==
    /\ t_launch # "no" => t_fails < TalkFailures
    /\ ~t_fired => t_loud < LoudFrames
\* The inductive invariant of the decoder.
TalkInv == T!TypeOK /\ DecoderInv /\ CountInv

\* No decoder runs, none is expected.
LEMMA TalkInit == T!Init => TalkInv
  <1>. SUFFICES ASSUME T!Init PROVE TalkInv
    OBVIOUS
  <1>1. t_held \in Seq(1..MaxVoice) /\ Len(t_held) = 0
    BY DEF T!Init
  <1>2. t_pipe \in Seq((1..t_made) \X (1..MaxVoice))
    BY DEF T!Init
  <1>3. t_sent \in 0..MaxVoice /\ t_said \in 0..MaxVoice /\ t_proc \in 0..MaxDecoders
        /\ t_made \in 0..MaxDecoders /\ t_fails \in 0..TalkFailures /\ t_loud \in 0..LoudFrames
    BY TalkAssumption DEF T!Init
  <1>4. t_alive \cup t_watched \cup t_pumps \subseteq 1..t_made /\ Len(t_held) <= MaxHeld
        /\ t_held \in Seq(1..MaxVoice)
    BY <1>1, TalkAssumption DEF T!Init
  <1>6. t_launch = "no" /\ t_ready = FALSE /\ t_fired = FALSE /\ t_stop = "no"
    BY DEF T!Init
  <1>5. T!TypeOK
    BY <1>2, <1>3, <1>4, <1>6 DEF T!TypeOK
  <1>7. QED BY <1>5, TalkAssumption DEF T!Init, TalkInv, DecoderInv, CountInv

\* What goes into the pipe is of the decoder that listens.
LEMMA IntoType ==
    ASSUME T!TypeOK, NEW ps \in Seq(1..MaxVoice)
    PROVE  T!Into(ps) \in Seq((1..t_made) \X (1..MaxVoice))
  <1>. DEFINE Pair == (1..t_made) \X (1..MaxVoice)
  <1>1. CASE t_proc \in t_alive
    <2>1. [i \in DOMAIN ps |-> <<t_proc, ps[i]>>] \in Seq(Pair)
      <3>1. t_proc \in 1..t_made
        BY <1>1 DEF T!TypeOK
      <3>2. \A i \in DOMAIN ps : <<t_proc, ps[i]>> \in Pair
        <4>1. ASSUME NEW i \in DOMAIN ps PROVE ps[i] \in 1..MaxVoice
          <5>1. ps \in [1..Len(ps) -> 1..MaxVoice]
            BY LenProperties
          <5>2. QED BY <5>1
        <4>2. QED BY <3>1, <4>1
      <3>3. QED BY <3>2
    <2>2. T!Into(ps) = t_pipe \o [i \in DOMAIN ps |-> <<t_proc, ps[i]>>]
      BY <1>1 DEF T!Into
    <2>3. t_pipe \in Seq(Pair)
      BY DEF T!TypeOK
    <2>4. QED BY <2>1, <2>2, <2>3
  <1>2. CASE t_proc \notin t_alive
    BY <1>2 DEF T!Into, T!TypeOK
  <1>3. QED BY <1>1, <1>2

\* What is held back stays within MaxHeld.
LEMMA HoldType ==
    ASSUME T!TypeOK, NEW n \in 1..MaxVoice
    PROVE  T!Hold(n) \in Seq(1..MaxVoice) /\ Len(T!Hold(n)) <= MaxHeld
  <1>1. CASE Len(t_held) < MaxHeld
    BY <1>1, TalkAssumption DEF T!Hold, T!TypeOK
  <1>2. CASE ~(Len(t_held) < MaxHeld)
    <2>1. t_held # <<>> /\ Tail(t_held) \in Seq(1..MaxVoice) /\ Len(Tail(t_held)) = Len(t_held) - 1
      BY <1>2, TalkAssumption DEF T!TypeOK
    <2>2. QED BY <1>2, <2>1, TalkAssumption DEF T!Hold, T!TypeOK
  <1>3. QED BY <1>1, <1>2

\* Every step of the voice and its decoder keeps the invariant.
LEMMA TalkStep ==
    ASSUME TalkInv, [T!Next]_talk
    PROVE  TalkInv'
  <1>. USE TalkAssumption DEF TalkInv, T!voiceVars, T!decoderVars
  <1>1. CASE T!Voice
    <2>1. t_sent' \in 1..MaxVoice
      BY <1>1 DEF T!Voice, T!TypeOK
    <2>2. CASE t_ready
      <3>1. T!Into(<<t_sent'>>) \in Seq((1..t_made) \X (1..MaxVoice))
        <4>1. <<t_sent'>> \in Seq(1..MaxVoice)
          BY <2>1
        <4>2. QED BY <4>1, IntoType
      <3>2. QED BY <1>1, <2>1, <2>2, <3>1 DEF T!Voice, T!TypeOK, DecoderInv, CountInv
    <2>3. CASE ~t_ready
      <3>1. T!Hold(t_sent') \in Seq(1..MaxVoice) /\ Len(T!Hold(t_sent')) <= MaxHeld
        BY <2>1, HoldType
      <3>2. QED BY <1>1, <2>1, <2>3, <3>1 DEF T!Voice, T!TypeOK, DecoderInv, CountInv
    <2>4. QED BY <2>2, <2>3 DEF T!TypeOK
  <1>2. CASE T!Written
    BY <1>2 DEF T!Written, T!TypeOK, DecoderInv, CountInv
  <1>3. CASE T!Spawned
    <2>1. t_pipe \in Seq((1..t_made') \X (1..MaxVoice))
      BY <1>3 DEF T!Spawned, T!TypeOK
    <2>2. QED BY <1>3, <2>1 DEF T!Spawned, T!TypeOK, DecoderInv, CountInv
  <1>4. CASE T!Listens
    <2>1. T!Into(t_held) \in Seq((1..t_made) \X (1..MaxVoice))
      BY IntoType DEF T!TypeOK
    <2>2. QED BY <1>4, <2>1 DEF T!Listens, T!TypeOK, DecoderInv, CountInv
  <1>5. CASE T!LaunchFails
    BY <1>5 DEF T!LaunchFails, T!TypeOK, DecoderInv, CountInv
  <1>6. CASE T!Pumped
    <2>1. Head(t_pipe) \in (1..t_made) \X (1..MaxVoice) /\ Tail(t_pipe) \in Seq((1..t_made) \X (1..MaxVoice))
      BY <1>6 DEF T!Pumped, T!TypeOK
    <2>2. t_said' \in 0..MaxVoice
      BY <1>6, <2>1 DEF T!Pumped, T!TypeOK
    <2>3. t_loud' \in 0..LoudFrames /\ t_fired' \in BOOLEAN /\ (~t_fired' => t_loud' < LoudFrames)
      <3>1. CASE UNCHANGED <<t_loud, t_fired>>
        BY <3>1 DEF T!TypeOK, CountInv
      <3>2. CASE t_fired /\ t_loud' = t_loud /\ t_fired' = TRUE
        BY <3>2 DEF T!TypeOK
      <3>3. CASE /\ ~t_fired
                 /\ \E l \in {0, t_loud + 1} : t_loud' = l /\ t_fired' = (l >= LoudFrames)
        <4>1. PICK l \in {0, t_loud + 1} : t_loud' = l /\ t_fired' = (l >= LoudFrames)
          BY <3>3
        <4>2. t_loud < LoudFrames /\ t_loud \in Nat
          BY <3>3 DEF CountInv, T!TypeOK
        <4>3. l \in 0..LoudFrames
          BY <4>1, <4>2
        <4>4. CASE l >= LoudFrames
          BY <4>1, <4>3, <4>4
        <4>5. CASE ~(l >= LoudFrames)
          BY <4>1, <4>3, <4>5
        <4>6. QED BY <4>4, <4>5
      <3>4. \/ UNCHANGED <<t_loud, t_fired>>
            \/ \E l \in (IF t_fired THEN {t_loud} ELSE {0, t_loud + 1}) :
                  t_loud' = l /\ t_fired' = (t_fired \/ l >= LoudFrames)
        BY <1>6 DEF T!Pumped
      <3>5. t_fired \in BOOLEAN
        BY DEF T!TypeOK
      <3>6. CASE t_fired
        BY <3>1, <3>2, <3>4, <3>6
      <3>7. CASE ~t_fired
        BY <3>1, <3>3, <3>4, <3>7
      <3>. QED BY <3>5, <3>6, <3>7
    <2>4. QED BY <1>6, <2>1, <2>2, <2>3 DEF T!Pumped, T!TypeOK, DecoderInv, CountInv
  <1>7. CASE T!StopBegins
    BY <1>7 DEF T!StopBegins, T!TypeOK, DecoderInv, CountInv
  <1>8. CASE T!StopEnds
    BY <1>8 DEF T!StopEnds, T!TypeOK, DecoderInv, CountInv
  <1>9. ASSUME NEW d \in 1..MaxDecoders, T!Exits(d)
        PROVE  TalkInv'
    BY <1>9 DEF T!Exits, T!TypeOK, DecoderInv, CountInv
  <1>10. ASSUME NEW d \in 1..MaxDecoders, T!ExitSeen(d)
        PROVE  TalkInv'
    <2>1. CASE t_proc = d
      <3>1. t_alive = {}
        BY <1>10, <2>1 DEF T!ExitSeen, DecoderInv
      <3>2. t_watched' \subseteq 1..t_made /\ t_pumps \subseteq 1..t_made
        BY <1>10 DEF T!ExitSeen, T!TypeOK
      <3>3. UNCHANGED <<t_sent, t_held, t_launch, t_alive, t_pumps, t_made, t_pipe, t_said, t_loud, t_fired,
                        t_fails, t_stop>> /\ t_ready' = FALSE /\ t_proc' = 0
        BY <1>10, <2>1 DEF T!ExitSeen
      <3>4. T!TypeOK'
        <4>1. (t_alive \cup t_watched \cup t_pumps)' \subseteq 1..t_made'
          BY <3>1, <3>2, <3>3
        <4>2. t_proc' = 0 /\ 0 \in 0..MaxDecoders
          BY <3>3
        <4>3. t_ready' = FALSE
          BY <3>3
        <4>4. t_made' = t_made /\ t_pipe' = t_pipe
          BY <3>3
        <4>5. QED BY <3>3, <4>1, <4>2, <4>3, <4>4 DEF T!TypeOK
      <3>5. QED BY <3>1, <3>3, <3>4 DEF DecoderInv, CountInv
    <2>2. CASE t_proc # d
      BY <1>10, <2>2 DEF T!ExitSeen, T!TypeOK, DecoderInv, CountInv
    <2>3. QED BY <2>1, <2>2
  <1>11. CASE UNCHANGED talk
    BY <1>11 DEF talk, T!TypeOK, DecoderInv, CountInv
  <1>. QED BY <1>1, <1>2, <1>3, <1>4, <1>5, <1>6, <1>7, <1>8, <1>9, <1>10, <1>11 DEF T!Next

\* One decoder runs per view (OneDecoder).
LEMMA OneAlive == TalkInv => T!OneDecoder
  <1>. SUFFICES ASSUME DecoderInv PROVE T!OneDecoder
    BY DEF TalkInv
  <1>1. IsFiniteSet({t_proc}) /\ Cardinality({t_proc}) = 1
    BY FS_Singleton
  <1>2. Cardinality(t_alive) <= 1
    BY <1>1, FS_Subset DEF DecoderInv
  <1>3. T!Cardinality(t_alive) = Cardinality(t_alive)
    BY DEF T!Cardinality, Cardinality
  <1>4. QED BY <1>2, <1>3 DEF DecoderInv, T!OneDecoder

-----------------------------------------------------------------------------
\* The codes are numbered as they are made.
Numbered ==
    /\ last \in 0..MaxCodes
    /\ {code, loaded, file} \subseteq 1..last \cup {None}
    /\ \A i \in DOMAIN saves : saves[i] <= last
    /\ retired \subseteq 1..last
\* There is a code from the moment it is loaded, and none is shown but by a doorbell that is on.
CodeInForce ==
    /\ up # "off" => code # None /\ loaded # None
    /\ up = "starting" => code = loaded
    /\ verifier # None => paired = {}
    /\ shown = IF up = "on" /\ paired = {} THEN code ELSE None
\* The last save on its way is of the code in force; with none on its way the file has it, unless
\* a save was lost.
SavesInv ==
    /\ saves # <<>> => saves[Len(saves)] = code /\ up \notin {"off", "starting"}
    /\ saves = <<>> /\ ~unsaved => file = code
    /\ code \in retired => unsaved /\ saves = <<>>
\* The inductive invariant of the setup code.
PairInv == P!TypeOK /\ Numbered /\ CodeInForce /\ SavesInv

\* The failures a run may have beside lost saves and crashes: see HomeKitPairing.
Orderly == {"starting", "stopping", "order"} \cap PairFaults = {}

\* There is no code yet.
LEMMA PairInit == P!Init => PairInv
  <1>. SUFFICES ASSUME P!Init PROVE PairInv
    OBVIOUS
  <1>. USE PairingAssumption, NoneAssumption DEF P!Init
  <1>1. saves \in Seq(P!Codes) /\ saves = <<>> /\ DOMAIN saves = {}
    OBVIOUS
  <1>2. P!TypeOK
    <2>1. fails \in 0..PairFailures - 1 /\ last \in 0..MaxCodes /\ up = "off" /\ unsaved = FALSE
      OBVIOUS
    <2>2. {code, loaded, file, shown} \subseteq P!Codes \cup {None} /\ paired \subseteq Controllers
          /\ verifier = None /\ retired \subseteq P!Codes
      OBVIOUS
    <2>3. QED BY <1>1, <2>1, <2>2 DEF P!TypeOK
  <1>3. Numbered /\ CodeInForce /\ SavesInv
    BY <1>1 DEF Numbered, CodeInForce, SavesInv
  <1>4. QED BY <1>2, <1>3 DEF PairInv

\* _rotate_pin: a code of its own, saved after all others.
LEMMA RotateKeeps ==
    ASSUME PairInv, P!Rotate, up \notin {"off", "starting"}, up' \notin {"off", "starting"},
           UNCHANGED <<loaded, file, unsaved>>
    PROVE  /\ code' \in P!Codes /\ code' = last' /\ saves' \in Seq(P!Codes) /\ retired' \subseteq P!Codes
           /\ Numbered' /\ SavesInv'
  <1>. USE PairingAssumption, NoneAssumption
  <1>1. /\ last' = last + 1 /\ code' = last + 1 /\ last' \in 1..MaxCodes
        /\ retired' = retired \cup {code} /\ saves' = Append(saves, last + 1)
    BY DEF P!Rotate, PairInv, Numbered
  <1>2. code \in 1..last
    BY DEF PairInv, Numbered, CodeInForce
  <1>3. saves \in Seq(P!Codes)
    BY DEF PairInv, P!TypeOK
  <1>4. saves' \in Seq(P!Codes) /\ saves' # <<>> /\ saves'[Len(saves')] = code'
    BY <1>1, <1>3 DEF P!Codes
  <1>5. \A i \in DOMAIN saves' : saves'[i] <= last'
    <2>1. last \in Nat /\ \A i \in DOMAIN saves : saves[i] <= last /\ saves[i] \in Nat
      BY <1>3 DEF PairInv, Numbered, P!Codes
    <2>2. \A i \in DOMAIN saves' : saves'[i] = last' \/ (i \in DOMAIN saves /\ saves'[i] = saves[i])
      BY <1>1, <1>3
    <2>3. QED BY <1>1, <2>1, <2>2
  <1>6. retired' \subseteq 1..last' /\ code' \notin retired'
    BY <1>1, <1>2 DEF PairInv, Numbered
  <1>7. {code, loaded, file}' \subseteq 1..last' \cup {None}
    BY <1>1 DEF PairInv, Numbered
  <1>8. Numbered'
    BY <1>1, <1>5, <1>6, <1>7 DEF Numbered
  <1>9. SavesInv'
    BY <1>4, <1>6 DEF SavesInv
  <1>10. QED BY <1>1, <1>4, <1>6, <1>8, <1>9 DEF P!Codes

\* A save that was first and is through leaves the others in order.
LEMMA FirstLeaves ==
    ASSUME NEW S, NEW s \in Seq(S), s # <<>>
    PROVE  /\ SubSeq(s, 1, 0) \o SubSeq(s, 2, Len(s)) = Tail(s)
           /\ Tail(s) \in Seq(S) /\ Len(Tail(s)) = Len(s) - 1
           /\ \A i \in 1..Len(s) - 1 : Tail(s)[i] = s[i + 1]
  OBVIOUS

\* Every step of the pairing keeps the invariant: a code in force is saved after all others.
LEMMA PairStep ==
    ASSUME Orderly, PairInv, [P!Next]_pairing
    PROVE  PairInv'
  <1>. USE PairingAssumption, NoneAssumption
  <1>0. "starting" \notin PairFaults /\ "stopping" \notin PairFaults /\ "order" \notin PairFaults
    BY DEF Orderly
  <1>1. CASE P!Load
    BY <1>1 DEF P!Load, PairInv, P!TypeOK, P!Codes, Numbered, CodeInForce, SavesInv
  <1>2. CASE P!StartFails
    BY <1>2 DEF P!StartFails, PairInv, P!TypeOK, P!Codes, Numbered, CodeInForce, SavesInv
  <1>3. CASE P!Ready
    BY <1>3 DEF P!Ready, PairInv, P!TypeOK, P!Codes, Numbered, CodeInForce, SavesInv
  <1>4. CASE P!SetupBegins
    BY <1>4 DEF P!SetupBegins, P!Serves, PairInv, P!TypeOK, P!Codes, Numbered, CodeInForce, SavesInv
  <1>5. CASE P!Proved
    <2>1. verifier' \in [code : P!Codes, proved : BOOLEAN]
      BY <1>5 DEF P!Proved, P!Attempt, PairInv, P!TypeOK
    <2>2. fails' \in 0..PairFailures - 1
      BY <1>5 DEF P!Proved
    <2>3. UNCHANGED <<up, code, last, loaded, file, saves, shown, paired, retired, unsaved>>
      BY <1>5 DEF P!Proved
    <2>4. P!TypeOK'
      BY <2>1, <2>2, <2>3 DEF PairInv, P!TypeOK, P!Codes
    <2>5. paired = {}
      BY <1>5 DEF P!Proved, P!Attempt, PairInv, CodeInForce
    <2>6. QED BY <2>3, <2>4, <2>5 DEF PairInv, Numbered, CodeInForce, SavesInv
  <1>6. CASE P!NotProved
    <2>1. CASE fails + 1 < PairFailures
      <3>1. fails' \in 0..PairFailures - 1
        BY <1>6, <2>1 DEF P!NotProved, PairInv, P!TypeOK
      <3>2. UNCHANGED <<up, code, last, loaded, file, saves, shown, paired, verifier, retired, unsaved>>
        BY <1>6, <2>1 DEF P!NotProved
      <3>3. P!TypeOK'
        BY <3>1, <3>2 DEF PairInv, P!TypeOK, P!Codes
      <3>4. QED BY <3>2, <3>3 DEF PairInv, Numbered, CodeInForce, SavesInv
    <2>2. CASE ~(fails + 1 < PairFailures)
      <3>1. P!Rotate /\ up = "on" /\ fails' = 0 /\ shown' = last' /\ verifier # None
            /\ UNCHANGED <<up, loaded, file, paired, verifier, unsaved>>
        BY <1>0, <1>6, <2>2 DEF P!NotProved, P!Attempt, P!Serves, P!Expected
      <3>2. /\ code' \in P!Codes /\ code' = last' /\ saves' \in Seq(P!Codes) /\ retired' \subseteq P!Codes
            /\ last' \in 0..MaxCodes /\ Numbered' /\ SavesInv'
        BY <3>1, RotateKeeps DEF Numbered
      <3>3. P!TypeOK'
        BY <3>1, <3>2 DEF PairInv, P!TypeOK
      <3>4. CodeInForce'
        BY <3>1, <3>2 DEF PairInv, CodeInForce, P!Codes
      <3>5. QED BY <3>2, <3>3, <3>4 DEF PairInv
    <2>3. QED BY <2>1, <2>2
  <1>7. ASSUME NEW c \in Controllers, P!Pair(c)
        PROVE  PairInv'
    BY <1>7 DEF P!Pair, P!Attempt, PairInv, P!TypeOK, P!Codes, Numbered, CodeInForce, SavesInv
  <1>8. ASSUME NEW c \in Controllers, P!AddController(c)
        PROVE  PairInv'
    BY <1>8 DEF P!AddController, PairInv, P!TypeOK, P!Codes, Numbered, CodeInForce, SavesInv
  <1>9. ASSUME NEW c \in Controllers, P!Unpair(c)
        PROVE  PairInv'
    <2>1. CASE paired' = {}
      <3>1. P!Rotate /\ up = "on" /\ shown' = last' /\ paired' \subseteq Controllers /\ paired # {}
            /\ UNCHANGED <<up, loaded, file, fails, verifier, unsaved>>
        BY <1>0, <1>9, <2>1 DEF P!Unpair, P!Serves, P!Expected, PairInv, P!TypeOK
      <3>2. /\ code' \in P!Codes /\ code' = last' /\ saves' \in Seq(P!Codes) /\ retired' \subseteq P!Codes
            /\ last' \in 0..MaxCodes /\ Numbered' /\ SavesInv'
        BY <3>1, RotateKeeps DEF Numbered
      <3>3. P!TypeOK'
        BY <3>1, <3>2 DEF PairInv, P!TypeOK
      <3>4. CodeInForce'
        BY <3>1, <3>2, <2>1 DEF PairInv, CodeInForce, P!Codes
      <3>5. QED BY <3>2, <3>3, <3>4 DEF PairInv
    <2>2. CASE paired' # {}
      <3>1. UNCHANGED <<up, code, last, loaded, file, saves, shown, fails, verifier, retired, unsaved>>
            /\ paired' \subseteq Controllers /\ paired # {}
        BY <1>9, <2>2 DEF P!Unpair, PairInv, P!TypeOK
      <3>2. P!TypeOK'
        BY <3>1 DEF PairInv, P!TypeOK, P!Codes
      <3>3. QED BY <2>2, <3>1, <3>2 DEF PairInv, Numbered, CodeInForce, SavesInv
    <2>3. QED BY <2>1, <2>2
  <1>10. ASSUME NEW i \in DOMAIN saves, P!Saved(i)
         PROVE  PairInv'
    <2>1. i = 1 /\ saves # <<>> /\ saves \in Seq(P!Codes)
      BY <1>0, <1>10 DEF P!Saved, PairInv, P!TypeOK
    <2>2. saves' = Tail(saves)
      BY <1>10, <2>1, FirstLeaves DEF P!Saved, P!Without
    <2>3. saves' \in Seq(P!Codes) /\ Len(saves') = Len(saves) - 1
          /\ \A k \in 1..Len(saves) - 1 : saves'[k] = saves[k + 1]
      BY <2>1, <2>2, FirstLeaves
    <2>4. saves[1] \in 1..last /\ saves[1] \in P!Codes
      BY <2>1 DEF PairInv, Numbered, P!Codes
    <2>5. UNCHANGED <<up, code, last, loaded, shown, paired, fails, verifier, retired>>
          /\ (\/ file' = saves[1] /\ unsaved' = FALSE
              \/ unsaved' = TRUE /\ file' = file)
      BY <1>10, <2>1 DEF P!Saved
    <2>6. P!TypeOK'
      <3>1. file' \in P!Codes \cup {None} /\ unsaved' \in BOOLEAN
        BY <2>4, <2>5 DEF PairInv, P!TypeOK
      <3>2. QED BY <2>3, <2>5, <3>1 DEF PairInv, P!TypeOK
    <2>7. Numbered'
      <3>1. \A k \in DOMAIN saves' : saves'[k] <= last
        <4>1. DOMAIN saves' = 1..Len(saves) - 1 /\ DOMAIN saves = 1..Len(saves) /\ Len(saves) \in Nat
          BY <2>1, <2>3
        <4>2. QED BY <2>3, <4>1 DEF PairInv, Numbered
      <3>2. file' \in 1..last \cup {None}
        BY <2>4, <2>5 DEF PairInv, Numbered
      <3>3. QED BY <2>5, <3>1, <3>2 DEF PairInv, Numbered
    <2>8. CodeInForce'
      BY <2>5 DEF PairInv, CodeInForce
    <2>9. SavesInv'
      BY <2>1, <2>3, <2>5 DEF PairInv, SavesInv
    <2>10. QED BY <2>6, <2>7, <2>8, <2>9 DEF PairInv
  <1>11. CASE P!StopBegins
    BY <1>11 DEF P!StopBegins, PairInv, P!TypeOK, P!Codes, Numbered, CodeInForce, SavesInv
  <1>12. CASE P!Stopped
    <2>1. CASE paired = {}
      <3>1. P!Rotate /\ up = "stopping" /\ up' = "stopped" /\ verifier' = None
            /\ UNCHANGED <<loaded, file, shown, paired, fails, unsaved>>
        BY <1>12, <2>1 DEF P!Stopped
      <3>2. /\ code' \in P!Codes /\ code' = last' /\ saves' \in Seq(P!Codes) /\ retired' \subseteq P!Codes
            /\ last' \in 0..MaxCodes /\ Numbered' /\ SavesInv'
        BY <3>1, RotateKeeps DEF Numbered
      <3>3. P!TypeOK'
        BY <3>1, <3>2 DEF PairInv, P!TypeOK
      <3>4. CodeInForce'
        BY <3>1, <3>2, <2>1 DEF PairInv, CodeInForce, P!Codes
      <3>5. QED BY <3>2, <3>3, <3>4 DEF PairInv
    <2>2. CASE paired # {}
      <3>1. UNCHANGED <<code, last, loaded, file, saves, shown, paired, fails, retired, unsaved>>
            /\ up = "stopping" /\ up' = "stopped" /\ verifier' = None
        BY <1>12, <2>2 DEF P!Stopped
      <3>2. P!TypeOK'
        BY <3>1 DEF PairInv, P!TypeOK, P!Codes
      <3>3. QED BY <2>2, <3>1, <3>2 DEF PairInv, Numbered, CodeInForce, SavesInv
    <2>3. QED BY <2>1, <2>2
  <1>13. CASE P!Off
    <2>1. saves = <<>>
      <3>1. SUFFICES ASSUME saves # <<>> PROVE FALSE
        OBVIOUS
      <3>2. Len(saves) \in DOMAIN saves /\ saves[Len(saves)] = code
        BY <3>1 DEF PairInv, P!TypeOK, SavesInv
      <3>3. QED BY <1>13, <3>2 DEF P!Off
    <2>2. QED BY <1>13, <2>1 DEF P!Off, PairInv, P!TypeOK, P!Codes, Numbered, CodeInForce, SavesInv
  <1>14. CASE P!Crash
    <2>1. /\ up' = "off" /\ saves' = <<>> /\ shown' = None /\ verifier' = None
          /\ UNCHANGED <<code, last, loaded, file, paired, fails, retired>>
      BY <1>14 DEF P!Crash
    <2>2. (unsaved' = unsaved /\ saves = <<>>) \/ unsaved' = TRUE
      BY <1>14 DEF P!Crash, PairInv, P!TypeOK
    <2>3. P!TypeOK'
      <3>1. saves' \in Seq(P!Codes)
        BY <2>1
      <3>2. unsaved' \in BOOLEAN
        BY <2>2 DEF PairInv, P!TypeOK
      <3>3. QED BY <2>1, <3>1, <3>2 DEF PairInv, P!TypeOK, P!Codes
    <2>4. Numbered' /\ CodeInForce'
      BY <2>1 DEF PairInv, Numbered, CodeInForce
    <2>5. SavesInv'
      BY <2>1, <2>2 DEF PairInv, SavesInv
    <2>6. QED BY <2>3, <2>4, <2>5 DEF PairInv
  <1>15. CASE UNCHANGED pairing
    BY <1>15 DEF pairing, PairInv, P!TypeOK, P!Codes, Numbered, CodeInForce, SavesInv
  <1>. QED BY <1>1, <1>2, <1>3, <1>4, <1>5, <1>6, <1>7, <1>8, <1>9, <1>10, <1>11, <1>12, <1>13, <1>14, <1>15
           DEF P!Next

\* A view of HomeKit's talk: packets on their way, in the order they were spoken: those in the pipe and then those
\* that wait for the decoder.
OrderInv ==
    /\ t_ready => t_held = <<>>
    /\ \A i \in 1..Len(t_pipe) : t_said < t_pipe[i][2] /\ t_pipe[i][2] <= t_sent
    /\ \A i \in 1..Len(t_held) : t_said < t_held[i] /\ t_held[i] <= t_sent
    /\ \A i, j \in 1..Len(t_pipe) : i < j => t_pipe[i][2] < t_pipe[j][2]
    /\ \A i, j \in 1..Len(t_held) : i < j => t_held[i] < t_held[j]
    /\ \A i \in 1..Len(t_pipe), j \in 1..Len(t_held) : t_pipe[i][2] < t_held[j]
    /\ t_said <= t_sent

\* What goes into the pipe goes behind what is in it.
LEMMA IntoFacts ==
    ASSUME T!TypeOK, NEW ps \in Seq(1..MaxVoice), NEW i \in DOMAIN T!Into(ps)
    PROVE  \/ i \in DOMAIN t_pipe /\ T!Into(ps)[i] = t_pipe[i]
           \/ /\ i > Len(t_pipe) /\ i - Len(t_pipe) \in DOMAIN ps
              /\ T!Into(ps)[i] = <<t_proc, ps[i - Len(t_pipe)]>>
  <1>. DEFINE new == [k \in DOMAIN ps |-> <<t_proc, ps[k]>>]
  <1>1. CASE t_proc \in t_alive
    <2>1. DOMAIN ps = 1..Len(ps) /\ Len(ps) \in Nat
      BY LenProperties
    <2>2. new \in Seq({t_proc} \X (1..MaxVoice)) /\ Len(new) = Len(ps)
      <3>1. ps \in [1..Len(ps) -> 1..MaxVoice]
        BY LenProperties
      <3>2. new \in [1..Len(ps) -> {t_proc} \X (1..MaxVoice)]
        BY <2>1, <3>1
      <3>3. QED BY <2>1, <3>2
    <2>3. t_pipe \in Seq((1..t_made) \X (1..MaxVoice))
      BY DEF T!TypeOK
    <2>4. T!Into(ps) = t_pipe \o new
      BY <1>1 DEF T!Into
    <2>5. QED BY <2>1, <2>2, <2>3, <2>4
  <1>2. CASE t_proc \notin t_alive
    BY <1>2 DEF T!Into
  <1>3. QED BY <1>1, <1>2

\* Holding one packet more when MaxHeld are held drops the oldest: the rest keep their order.
LEMMA SlideFacts ==
    ASSUME NEW S, NEW s \in Seq(S), NEW e \in S, s # <<>>
    PROVE  /\ Len(Append(Tail(s), e)) = Len(s) /\ DOMAIN Append(Tail(s), e) = 1..Len(s)
           /\ \A k \in 1..Len(s) : Append(Tail(s), e)[k] = IF k = Len(s) THEN e ELSE s[k + 1]
  <1>1. Len(s) \in Nat /\ Len(s) > 0
    OBVIOUS
  <1>2. Tail(s) \in Seq(S) /\ Len(Tail(s)) = Len(s) - 1 /\ \A k \in 1..Len(s) - 1 : Tail(s)[k] = s[k + 1]
    OBVIOUS
  <1>3. Len(Append(Tail(s), e)) = Len(s) /\ DOMAIN Append(Tail(s), e) = 1..Len(s)
    BY <1>1, <1>2, AppendFacts
  <1>4. ASSUME NEW k \in 1..Len(s)
        PROVE  Append(Tail(s), e)[k] = IF k = Len(s) THEN e ELSE s[k + 1]
    <2>1. k \in 1..Len(Tail(s)) + 1
      BY <1>1, <1>2
    <2>2. Append(Tail(s), e)[k] = IF k = Len(Tail(s)) + 1 THEN e ELSE Tail(s)[k]
      <3>. DEFINE t == Tail(s)
      <3>1. t \in Seq(S) /\ k \in 1..Len(t) + 1
        BY <1>2, <2>1
      <3>. HIDE DEF t
      <3>2. Append(t, e)[k] = IF k = Len(t) + 1 THEN e ELSE t[k]
        BY <3>1, AppendFacts
      <3>3. QED BY <3>2 DEF t
    <2>3. CASE k = Len(s)
      BY <1>1, <1>2, <2>2, <2>3
    <2>4. CASE k # Len(s)
      <3>1. k \in 1..Len(s) - 1 /\ k # Len(Tail(s)) + 1
        <4>1. Len(Tail(s)) + 1 = Len(s)
          BY <1>1, <1>2
        <4>2. k \in Nat /\ k <= Len(s) /\ 1 <= k
          BY <1>1
        <4>3. k # Len(Tail(s)) + 1
          BY <2>4, <4>1
        <4>4. k < Len(s)
          BY <1>1, <2>4, <4>2
        <4>5. QED BY <1>1, <4>2, <4>3, <4>4
      <3>2. Tail(s)[k] = s[k + 1]
        BY <1>2, <3>1
      <3>3. QED BY <2>2, <2>4, <3>1, <3>2
    <2>5. QED BY <2>3, <2>4
  <1>5. QED BY <1>3, <1>4

\* What waits is in the order it came; when there is too much of it, its first goes.
LEMMA HoldFacts ==
    ASSUME T!TypeOK, NEW n \in 1..MaxVoice
    PROVE  \E d \in {0, 1} :
              /\ Len(T!Hold(n)) = Len(t_held) + 1 - d
              /\ \A k \in 1..Len(T!Hold(n)) :
                    T!Hold(n)[k] = IF k = Len(T!Hold(n)) THEN n ELSE t_held[k + d]
  <1>. DEFINE Held(d) ==
          /\ Len(T!Hold(n)) = Len(t_held) + 1 - d
          /\ \A k \in 1..Len(T!Hold(n)) :
                T!Hold(n)[k] = IF k = Len(T!Hold(n)) THEN n ELSE t_held[k + d]
  <1>0. t_held \in Seq(1..MaxVoice) /\ Len(t_held) \in Nat
    BY DEF T!TypeOK
  <1>1. CASE Len(t_held) < MaxHeld
    <2>1. T!Hold(n) = Append(t_held, n)
      BY <1>1 DEF T!Hold
    <2>2. /\ Len(T!Hold(n)) = Len(t_held) + 1
          /\ \A k \in 1..Len(t_held) + 1 : T!Hold(n)[k] = IF k = Len(t_held) + 1 THEN n ELSE t_held[k]
      BY <1>0, <2>1, AppendFacts
    <2>3. Held(0)
      BY <1>0, <2>2
    <2>4. QED BY <2>3
  <1>2. CASE ~(Len(t_held) < MaxHeld)
    <2>1. t_held # <<>>
      BY <1>0, <1>2, TalkAssumption
    <2>2. T!Hold(n) = Append(Tail(t_held), n)
      BY <1>2 DEF T!Hold
    <2>3. Held(1)
      BY <1>0, <2>1, <2>2, SlideFacts
    <2>4. QED BY <2>3
  <1>3. QED BY <1>1, <1>2

\* Nothing that is not spoken, sent or held changes the order of the voice.
LEMMA OrderStep ==
    ASSUME TalkInv, OrderInv, [T!Next]_talk
    PROVE  OrderInv' /\ T!Forward
  <1>. USE TalkAssumption DEF T!voiceVars, T!decoderVars
  <1>0. /\ t_sent \in Nat /\ t_said \in Nat /\ t_ready \in BOOLEAN
        /\ t_held \in Seq(1..MaxVoice) /\ t_pipe \in Seq((1..t_made) \X (1..MaxVoice))
        /\ Len(t_held) \in Nat /\ Len(t_pipe) \in Nat
        /\ DOMAIN t_held = 1..Len(t_held) /\ DOMAIN t_pipe = 1..Len(t_pipe)
        /\ \A i \in 1..Len(t_pipe) : t_pipe[i][2] \in Nat
        /\ \A i \in 1..Len(t_held) : t_held[i] \in Nat
    <2>1. T!TypeOK
      BY DEF TalkInv
    <2>2. /\ t_sent \in Nat /\ t_said \in Nat /\ t_ready \in BOOLEAN
          /\ t_held \in Seq(1..MaxVoice) /\ t_pipe \in Seq((1..t_made) \X (1..MaxVoice))
      BY <2>1 DEF T!TypeOK
    <2>3. QED BY <2>2
  <1>p. \A i \in 1..Len(t_pipe) : t_said < t_pipe[i][2] /\ t_pipe[i][2] <= t_sent
    BY DEF OrderInv
  <1>h. \A i \in 1..Len(t_held) : t_said < t_held[i] /\ t_held[i] <= t_sent
    BY DEF OrderInv
  <1>pp. \A i, j \in 1..Len(t_pipe) : i < j => t_pipe[i][2] < t_pipe[j][2]
    BY DEF OrderInv
  <1>hh. \A i, j \in 1..Len(t_held) : i < j => t_held[i] < t_held[j]
    BY DEF OrderInv
  <1>ph. \A i \in 1..Len(t_pipe), j \in 1..Len(t_held) : t_pipe[i][2] < t_held[j]
    BY DEF OrderInv
  <1>1. CASE T!Voice
    <2>0. t_sent' = t_sent + 1 /\ t_sent' \in 1..MaxVoice
      BY <1>0, <1>1 DEF T!Voice
    <2>1. CASE t_ready
      <3>1. <<t_sent'>> \in Seq(1..MaxVoice)
        BY <2>0
      <3>2. t_held = <<>> /\ t_pipe' = T!Into(<<t_sent'>>) /\ UNCHANGED <<t_held, t_ready, t_said>>
        BY <1>1, <2>1 DEF T!Voice, OrderInv
      <3>3. \A i \in DOMAIN t_pipe' :
               \/ i \in DOMAIN t_pipe /\ t_pipe'[i] = t_pipe[i]
               \/ i = Len(t_pipe) + 1 /\ t_pipe'[i][2] = t_sent'
        <4>1. T!TypeOK
          BY DEF TalkInv
        <4>2. ASSUME NEW i \in DOMAIN T!Into(<<t_sent'>>)
              PROVE  \/ i \in DOMAIN t_pipe /\ T!Into(<<t_sent'>>)[i] = t_pipe[i]
                     \/ i = Len(t_pipe) + 1 /\ T!Into(<<t_sent'>>)[i][2] = t_sent'
          <5>1. \/ i \in DOMAIN t_pipe /\ T!Into(<<t_sent'>>)[i] = t_pipe[i]
                \/ /\ i > Len(t_pipe) /\ i - Len(t_pipe) \in DOMAIN <<t_sent'>>
                   /\ T!Into(<<t_sent'>>)[i] = <<t_proc, <<t_sent'>>[i - Len(t_pipe)]>>
            BY <3>1, <4>1, IntoFacts
          <5>2. T!Into(<<t_sent'>>) \in Seq((1..t_made) \X (1..MaxVoice))
            BY <3>1, <4>1, IntoType
          <5>3. i \in Nat
            BY <5>2
          <5>4. DOMAIN <<t_sent'>> = {1}
            OBVIOUS
          <5>5. QED BY <1>0, <5>1, <5>3, <5>4
        <4>3. QED BY <3>2, <4>2
      <3>4. \A i \in DOMAIN t_pipe : i \in Nat /\ i <= Len(t_pipe) /\ t_pipe[i][2] \in Nat
        BY <1>0
      <3>5. Len(t_pipe') \in Nat /\ DOMAIN t_pipe' = 1..Len(t_pipe')
        BY <3>1, <3>2, IntoType DEF TalkInv
      <3>6. \A i \in 1..Len(t_pipe') :
               t_said < t_pipe'[i][2] /\ t_pipe'[i][2] <= t_sent' /\ t_pipe'[i][2] \in Nat
        <4>1. ASSUME NEW i \in 1..Len(t_pipe')
              PROVE  t_said < t_pipe'[i][2] /\ t_pipe'[i][2] <= t_sent' /\ t_pipe'[i][2] \in Nat
          <5>1. CASE i \in 1..Len(t_pipe) /\ t_pipe'[i] = t_pipe[i]
            BY <1>0, <1>p, <2>0, <5>1
          <5>2. CASE t_pipe'[i][2] = t_sent'
            BY <1>0, <2>0, <5>2 DEF OrderInv
          <5>3. QED BY <1>0, <3>3, <3>5, <5>1, <5>2
        <4>2. QED BY <4>1
      <3>7. ASSUME NEW i \in 1..Len(t_pipe'), NEW j \in 1..Len(t_pipe'), i < j
            PROVE  t_pipe'[i][2] < t_pipe'[j][2]
        <4>0. /\ (i \in 1..Len(t_pipe) /\ t_pipe'[i] = t_pipe[i]) \/ i = Len(t_pipe) + 1
              /\ j \in 1..Len(t_pipe) \/ j = Len(t_pipe) + 1
          BY <1>0, <3>3, <3>5
        <4>1. i \in 1..Len(t_pipe) /\ t_pipe'[i] = t_pipe[i]
          BY <1>0, <3>7, <4>0
        <4>2. CASE j \in 1..Len(t_pipe) /\ t_pipe'[j] = t_pipe[j]
          BY <3>7, <4>1, <4>2 DEF OrderInv
        <4>3. CASE t_pipe'[j][2] = t_sent'
          BY <1>0, <2>0, <4>1, <4>3 DEF OrderInv
        <4>4. QED BY <1>0, <3>3, <3>5, <4>2, <4>3
      <3>8. Len(t_held') = 0
        BY <3>2
      <3>9. t_said' <= t_sent' /\ t_held' = <<>> /\ t_said' = t_said
        BY <1>0, <2>0, <3>2 DEF OrderInv
      <3>10. OrderInv'
        BY <3>6, <3>7, <3>8, <3>9 DEF OrderInv
      <3>. QED BY <3>2, <3>10 DEF T!Forward
    <2>2. CASE ~t_ready
      <3>1. t_held' = T!Hold(t_sent') /\ UNCHANGED <<t_pipe, t_ready, t_said>>
        BY <1>1, <2>2 DEF T!Voice
      <3>2. PICK d \in {0, 1} :
               /\ Len(t_held') = Len(t_held) + 1 - d
               /\ \A k \in 1..Len(t_held') :
                     t_held'[k] = IF k = Len(t_held') THEN t_sent' ELSE t_held[k + d]
        BY <2>0, <3>1, HoldFacts DEF TalkInv
      <3>3. Len(t_held') \in Nat
        BY <1>0, <2>0, <3>1, HoldType DEF TalkInv
      <3>4. \A k \in 1..Len(t_held') : k # Len(t_held') => k + d \in 1..Len(t_held)
        BY <1>0, <3>2, <3>3
      <3>5. \A k \in 1..Len(t_held') : t_said < t_held'[k] /\ t_held'[k] <= t_sent'
        <4>1. ASSUME NEW k \in 1..Len(t_held')
              PROVE  t_said < t_held'[k] /\ t_held'[k] <= t_sent'
          <5>1. CASE k = Len(t_held')
            <6>1. t_held'[k] = t_sent + 1 /\ t_said <= t_sent
              BY <2>0, <3>2, <5>1 DEF OrderInv
            <6>2. QED BY <1>0, <2>0, <6>1
          <5>2. CASE k # Len(t_held')
            <6>1. k + d \in 1..Len(t_held) /\ t_held'[k] = t_held[k + d]
              BY <3>2, <3>4, <5>2
            <6>2. QED BY <1>0, <1>h, <2>0, <6>1
          <5>3. QED BY <5>1, <5>2
        <4>2. QED BY <4>1
      <3>6. ASSUME NEW i \in 1..Len(t_held'), NEW j \in 1..Len(t_held'), i < j
            PROVE  t_held'[i] < t_held'[j]
        <4>1. i # Len(t_held') /\ i + d \in 1..Len(t_held) /\ t_held'[i] = t_held[i + d]
          BY <3>2, <3>3, <3>4, <3>6
        <4>2. CASE j = Len(t_held')
          <5>1. t_held'[j] = t_sent + 1
            BY <2>0, <3>2, <4>2
          <5>2. t_held[i + d] <= t_sent /\ t_held[i + d] \in Nat
            BY <1>0, <1>h, <4>1
          <5>3. QED BY <1>0, <4>1, <5>1, <5>2
        <4>3. CASE j # Len(t_held')
          <5>1. j + d \in 1..Len(t_held) /\ t_held'[j] = t_held[j + d] /\ i + d < j + d
            BY <3>2, <3>3, <3>4, <3>6, <4>3
          <5>2. QED BY <4>1, <5>1 DEF OrderInv
        <4>4. QED BY <4>2, <4>3
      <3>7. \A i \in 1..Len(t_pipe), j \in 1..Len(t_held') : t_pipe[i][2] < t_held'[j]
        <4>1. ASSUME NEW i \in 1..Len(t_pipe), NEW j \in 1..Len(t_held')
              PROVE  t_pipe[i][2] < t_held'[j]
          <5>1. CASE j = Len(t_held')
            <6>1. t_held'[j] = t_sent + 1
              BY <2>0, <3>2, <5>1
            <6>2. t_pipe[i][2] <= t_sent /\ t_pipe[i][2] \in Nat
              BY <1>0, <1>p
            <6>3. QED BY <1>0, <6>1, <6>2
          <5>2. CASE j # Len(t_held')
            <6>1. j + d \in 1..Len(t_held) /\ t_held'[j] = t_held[j + d]
              BY <3>2, <3>4, <5>2
            <6>2. QED BY <1>ph, <6>1
          <5>3. QED BY <5>1, <5>2
        <4>2. QED BY <4>1
      <3>8. OrderInv'
        <4>1. ~t_ready' /\ t_said' = t_said /\ t_pipe' = t_pipe
          BY <2>2, <3>1
        <4>2. t_said <= t_sent' /\ \A i \in 1..Len(t_pipe) : t_pipe[i][2] <= t_sent'
          BY <1>0, <1>p, <2>0 DEF OrderInv
        <4>3. QED BY <1>p, <1>pp, <3>5, <3>6, <3>7, <4>1, <4>2 DEF OrderInv
      <3>. QED BY <3>1, <3>8 DEF T!Forward
    <2>3. QED BY <1>0, <2>1, <2>2
  <1>2. CASE T!Listens
    <2>1. t_pipe' = T!Into(t_held) /\ t_held' = <<>> /\ UNCHANGED <<t_sent, t_said>>
      BY <1>2 DEF T!Listens
    <2>2. \A i \in DOMAIN t_pipe' :
             \/ i \in DOMAIN t_pipe /\ t_pipe'[i] = t_pipe[i]
             \/ i > Len(t_pipe) /\ i - Len(t_pipe) \in DOMAIN t_held /\ t_pipe'[i][2] = t_held[i - Len(t_pipe)]
      BY <1>0, <2>1, IntoFacts DEF TalkInv
    <2>3. Len(t_pipe') \in Nat /\ DOMAIN t_pipe' = 1..Len(t_pipe')
      BY <1>0, <2>1, IntoType DEF TalkInv
    <2>4. \A i \in 1..Len(t_pipe') : t_said < t_pipe'[i][2] /\ t_pipe'[i][2] <= t_sent
      BY <1>0, <2>2, <2>3 DEF OrderInv
    <2>5. ASSUME NEW i \in 1..Len(t_pipe'), NEW j \in 1..Len(t_pipe'), i < j
          PROVE  t_pipe'[i][2] < t_pipe'[j][2]
      <3>1. CASE i \in DOMAIN t_pipe /\ t_pipe'[i] = t_pipe[i]
        <4>1. CASE j \in DOMAIN t_pipe /\ t_pipe'[j] = t_pipe[j]
          BY <1>0, <2>5, <3>1, <4>1 DEF OrderInv
        <4>2. CASE j - Len(t_pipe) \in DOMAIN t_held /\ t_pipe'[j][2] = t_held[j - Len(t_pipe)]
          BY <1>0, <3>1, <4>2 DEF OrderInv
        <4>3. QED BY <2>2, <2>3, <4>1, <4>2
      <3>2. CASE i > Len(t_pipe) /\ i - Len(t_pipe) \in DOMAIN t_held /\ t_pipe'[i][2] = t_held[i - Len(t_pipe)]
        <4>1. j - Len(t_pipe) \in DOMAIN t_held /\ t_pipe'[j][2] = t_held[j - Len(t_pipe)]
          BY <1>0, <2>2, <2>3, <2>5, <3>2
        <4>2. i - Len(t_pipe) < j - Len(t_pipe)
          BY <1>0, <2>3, <2>5
        <4>3. QED BY <1>0, <3>2, <4>1, <4>2 DEF OrderInv
      <3>3. QED BY <2>2, <2>3, <3>1, <3>2
    <2>6. Len(t_held') = 0
      BY <2>1
    <2>7. OrderInv'
      BY <1>0, <2>1, <2>4, <2>5, <2>6 DEF OrderInv
    <2>. QED BY <2>1, <2>7 DEF T!Forward
  <1>3. CASE T!Pumped
    <2>1. /\ t_pipe # <<>> /\ t_pipe' = Tail(t_pipe) /\ t_said' \in {t_said, t_pipe[1][2]}
          /\ UNCHANGED <<t_sent, t_held, t_ready>>
      BY <1>0, <1>3 DEF T!Pumped
    <2>2. Len(t_pipe') = Len(t_pipe) - 1 /\ \A i \in 1..Len(t_pipe) - 1 : t_pipe'[i] = t_pipe[i + 1]
      BY <1>0, <2>1
    <2>3. \A i \in 1..Len(t_pipe') : i + 1 \in 1..Len(t_pipe) /\ t_pipe'[i] = t_pipe[i + 1]
      BY <1>0, <2>1, <2>2
    <2>4. Len(t_pipe') \in Nat /\ 1 \in 1..Len(t_pipe)
      BY <1>0, <2>1, <2>2
    <2>5. t_pipe[1][2] \in Nat /\ t_said < t_pipe[1][2] /\ t_pipe[1][2] <= t_sent
      BY <1>0, <2>4 DEF OrderInv
    <2>6. \A i \in 1..Len(t_pipe') : t_pipe[1][2] < t_pipe'[i][2] /\ t_pipe'[i][2] <= t_sent /\ t_pipe'[i][2] \in Nat
      <3>1. ASSUME NEW i \in 1..Len(t_pipe')
            PROVE  t_pipe[1][2] < t_pipe'[i][2] /\ t_pipe'[i][2] <= t_sent /\ t_pipe'[i][2] \in Nat
        <4>1. i + 1 \in 1..Len(t_pipe) /\ t_pipe'[i] = t_pipe[i + 1] /\ 1 < i + 1
          BY <2>3, <2>4
        <4>2. QED BY <1>0, <1>p, <1>pp, <2>4, <4>1
      <3>2. QED BY <3>1
    <2>7. \A i, j \in 1..Len(t_pipe') : i < j => t_pipe'[i][2] < t_pipe'[j][2]
      <3>1. ASSUME NEW i \in 1..Len(t_pipe'), NEW j \in 1..Len(t_pipe'), i < j
            PROVE  t_pipe'[i][2] < t_pipe'[j][2]
        <4>1. i + 1 \in 1..Len(t_pipe) /\ j + 1 \in 1..Len(t_pipe) /\ i + 1 < j + 1
              /\ t_pipe'[i] = t_pipe[i + 1] /\ t_pipe'[j] = t_pipe[j + 1]
          BY <2>3, <2>4, <3>1
        <4>2. QED BY <1>pp, <4>1
      <3>2. QED BY <3>1
    <2>8. \A j \in 1..Len(t_held) : t_pipe[1][2] < t_held[j] /\ t_held[j] <= t_sent
      BY <1>0, <2>4 DEF OrderInv
    <2>9. \A i \in 1..Len(t_pipe'), j \in 1..Len(t_held) : t_pipe'[i][2] < t_held[j]
      BY <2>3 DEF OrderInv
    <2>10. CASE t_said' = t_said
      BY <1>0, <2>1, <2>5, <2>6, <2>7, <2>8, <2>9, <2>10 DEF OrderInv, T!Forward
    <2>11. CASE t_said' = t_pipe[1][2]
      BY <1>0, <2>1, <2>5, <2>6, <2>7, <2>8, <2>9, <2>11 DEF OrderInv, T!Forward
    <2>. QED BY <2>1, <2>10, <2>11
  <1>4. CASE UNCHANGED <<t_sent, t_held, t_pipe, t_said>> /\ (t_ready' => t_ready)
    BY <1>4 DEF OrderInv, T!Forward
  <1>5. [T!Next]_talk => T!Voice \/ T!Listens \/ T!Pumped
                         \/ (UNCHANGED <<t_sent, t_held, t_pipe, t_said>> /\ (t_ready' => t_ready))
    BY DEF T!Next, T!Written, T!Spawned, T!LaunchFails, T!StopBegins, T!StopEnds, T!Exits, T!ExitSeen, talk
  <1>6. QED BY <1>1, <1>2, <1>3, <1>4, <1>5

-----------------------------------------------------------------------------
(* RingFiles: photo and clip of a visitor.                                   *)

\* A visitor's photo and clip are made one visitor at a time, and no view starts meanwhile.
OneAtATime == {"soon", "view"} \cap FileFaults = {}

\* The types of a recorder, of a frame, of the photo on its way and of what is on disk.
RecType == [step : {"no", "claim", "wait", "writes", "closing", "drops", "over"},
            eof : BOOLEAN, shows : SUBSET (0..F!Look), done : Nat]
\* A frame, of a visitor or of a view.
FrameType == [of : 0..F!Look, n : 1..MaxFrames]
\* The photo on its way.
PhotoType == [ring : F!Rings, step : {"first", "delay"}, first : FrameType \cup {None}]
\* The photos and clips on disk; a part is a clip being written.
DiskType == [photo : [F!Rings -> 0..F!Look], clip : [F!Rings -> SUBSET (0..F!Look)], part : SUBSET F!Rings]
\* The types the steps keep.
FileTypes ==
    /\ f_ring \in 0..MaxRings /\ f_ringing \in {"no", "on", "told"} /\ f_views \in 0..MaxViews
    /\ f_grabber \in {"no", "runs", "dead"} /\ f_frames \in 0..MaxFrames
    /\ f_jpeg \in {None} \cup FrameType
    /\ f_stats \in [photo : 0..MaxRings, clip : 0..MaxRings]
    /\ f_rec \in [F!Rings -> RecType] /\ f_onDisk \in DiskType /\ f_photo \in {None} \cup PhotoType
\* The video is the ring's while it is on, else a view's; the frame that is kept is of it.
VideoInv ==
    /\ f_ringing # "no" => f_ring # 0
    /\ f_video \in {0} \cup IF f_ringing = "no" THEN {F!Look} ELSE {f_ring}
    /\ f_video = 0 => f_grabber = "no" /\ f_jpeg = None
    /\ f_jpeg # None => f_jpeg.of = f_video
\* The request and the queue are of the ring that was told; so is the photo on its way, and
\* the recorder that runs.
RecordInv ==
    /\ {f_request, f_queue} \subseteq {0} \cup IF f_ringing = "told" THEN {f_ring} ELSE {}
    /\ f_photo # None => f_photo.ring = f_ring /\ f_video # F!Look
    /\ \A r \in F!Rings : f_rec[r].step \notin {"no", "over"} => r = f_ring
    /\ \A r \in F!Rings : r > f_ring \/ (r = f_ring /\ f_ringing = "on") \/ r = f_request => f_rec[r].step = "no"
    /\ \A r \in F!Rings : f_rec[r].shows \subseteq {r}
\* The inductive invariant of photos and clips.
FilesInv == FileTypes /\ VideoInv /\ RecordInv /\ F!ShowsTheVisitor /\ F!NotifiesOwn /\ F!DoneOnce

\* One recorder starts, or hears that the video is over.
LEMMA StartsType ==
    ASSUME NEW rs \in [F!Rings -> RecType], NEW r \in F!Rings
    PROVE  /\ F!Starts(rs, r) \in [F!Rings -> RecType]
           /\ \A q \in F!Rings : /\ F!Starts(rs, r)[q].step = IF q = r THEN "claim" ELSE rs[q].step
                                /\ F!Starts(rs, r)[q].shows = rs[q].shows /\ F!Starts(rs, r)[q].done = rs[q].done
  <1>1. F!Starts(rs, r) = [rs EXCEPT ![r] = [rs[r] EXCEPT !.step = "claim"]]
    BY DEF F!Starts
  <1>2. [rs[r] EXCEPT !.step = "claim"] \in RecType
    BY DEF RecType
  <1>3. QED BY <1>1, <1>2 DEF RecType

\* The recorder that hears that the video is over.
LEMMA EndedType ==
    ASSUME f_rec \in [F!Rings -> RecType], f_queue \in {0} \cup F!Rings
    PROVE  /\ F!Ended(f_rec) \in [F!Rings -> RecType]
           /\ \A q \in F!Rings : /\ F!Ended(f_rec)[q].step = f_rec[q].step
                                /\ F!Ended(f_rec)[q].shows = f_rec[q].shows /\ F!Ended(f_rec)[q].done = f_rec[q].done
  <1>1. CASE f_queue = 0
    BY <1>1 DEF F!Ended
  <1>2. CASE f_queue # 0
    <2>1. F!Ended(f_rec) = [f_rec EXCEPT ![f_queue] = [f_rec[f_queue] EXCEPT !.eof = TRUE]]
      BY <1>2 DEF F!Ended
    <2>2. f_queue \in F!Rings /\ [f_rec[f_queue] EXCEPT !.eof = TRUE] \in RecType
      BY <1>2 DEF RecType
    <2>3. QED BY <2>1, <2>2 DEF RecType
  <1>3. QED BY <1>1, <1>2
\* One recorder's step.
LEMMA RecorderType ==
    ASSUME f_rec \in [F!Rings -> RecType], NEW r \in F!Rings, NEW x \in RecType, f_rec' = [f_rec EXCEPT ![r] = x]
    PROVE  f_rec' \in [F!Rings -> RecType]
  OBVIOUS

\* Nobody has rung, nothing is filed.
LEMMA FilesInit == F!Init => FilesInv
  <1>. SUFFICES ASSUME F!Init PROVE FilesInv
    OBVIOUS
  <1>. USE RingsAssumption DEF F!Init, F!Rings, F!NoRec
  <1>1. FileTypes
    <2>1. f_rec \in [F!Rings -> RecType]
      BY DEF RecType
    <2>2. f_onDisk \in DiskType
      BY DEF DiskType, F!Look
    <2>3. f_stats \in [photo : 0..MaxRings, clip : 0..MaxRings]
      OBVIOUS
    <2>4. f_jpeg = None /\ f_photo = None
      OBVIOUS
    <2>5. f_ring \in 0..MaxRings /\ f_ringing = "no" /\ f_views \in 0..MaxViews
          /\ f_grabber = "no" /\ f_frames \in 0..MaxFrames
      OBVIOUS
    <2>6. QED BY <2>1, <2>2, <2>3, <2>4, <2>5 DEF FileTypes
  <1>2. VideoInv /\ RecordInv
    BY DEF VideoInv, RecordInv
  <1>3. F!ShowsTheVisitor /\ F!NotifiesOwn /\ F!DoneOnce
    BY DEF F!ShowsTheVisitor, F!NotifiesOwn, F!DoneOnce
  <1>4. QED BY <1>1, <1>2, <1>3 DEF FilesInv

\* Every step of the ring, the grabber, the photo and the recorder keeps the invariant.
LEMMA FilesStep ==
    ASSUME OneAtATime, FilesInv, [F!Next]_files
    PROVE  FilesInv'
  <1>. USE RingsAssumption DEF F!Rings, F!Look, F!clipVars
  <1>0. "soon" \notin FileFaults /\ "view" \notin FileFaults
    BY DEF OneAtATime
  <1>1. CASE F!RingVideo
    <2>1. FileTypes'
      <3>1. f_rec' \in [F!Rings -> RecType]
        <4>1. f_request \in {0} \cup F!Rings
          BY DEF FilesInv, FileTypes, VideoInv, RecordInv
        <4>2. f_rec' = IF f_request # 0 THEN F!Starts(f_rec, f_request) ELSE f_rec
          BY <1>1 DEF F!RingVideo, F!VideoStarts
        <4>3. QED BY <4>1, <4>2, StartsType DEF FilesInv, FileTypes
      <3>2. QED BY <1>1, <3>1 DEF F!RingVideo, F!VideoStarts, FilesInv, FileTypes
    <2>2. VideoInv'
      BY <1>0, <1>1 DEF F!RingVideo, F!VideoStarts, F!Starts, FilesInv, FileTypes, VideoInv, RecordInv
    <2>3. RecordInv'
      BY <1>0, <1>1 DEF F!RingVideo, F!VideoStarts, F!Starts, FilesInv, FileTypes, VideoInv, RecordInv, F!DoneOnce
    <2>4. F!ShowsTheVisitor'
      BY <1>0, <1>1 DEF F!RingVideo, F!VideoStarts, F!Starts, FilesInv, FileTypes, VideoInv, RecordInv, F!ShowsTheVisitor
    <2>5. F!NotifiesOwn'
      BY <1>0, <1>1 DEF F!RingVideo, F!VideoStarts, F!Starts, FilesInv, FileTypes, VideoInv, RecordInv, F!NotifiesOwn
    <2>6. F!DoneOnce'
      BY <1>0, <1>1 DEF F!RingVideo, F!VideoStarts, F!Starts, FilesInv, FileTypes, VideoInv, RecordInv, F!DoneOnce
    <2>. QED BY <2>1, <2>2, <2>3, <2>4, <2>5, <2>6 DEF FilesInv
  <1>2. CASE F!ViewVideo
    <2>1. FileTypes'
      BY <1>0, <1>2 DEF F!ViewVideo, F!VideoStarts, F!Starts, FilesInv, FileTypes, VideoInv, RecordInv
    <2>2. VideoInv'
      BY <1>0, <1>2 DEF F!ViewVideo, F!VideoStarts, F!Starts, FilesInv, FileTypes, VideoInv, RecordInv
    <2>3. RecordInv'
      BY <1>0, <1>2 DEF F!ViewVideo, F!VideoStarts, F!Starts, FilesInv, FileTypes, VideoInv, RecordInv, F!DoneOnce
    <2>4. F!ShowsTheVisitor'
      BY <1>0, <1>2 DEF F!ViewVideo, F!VideoStarts, F!Starts, FilesInv, FileTypes, VideoInv, RecordInv, F!ShowsTheVisitor
    <2>5. F!NotifiesOwn'
      BY <1>0, <1>2 DEF F!ViewVideo, F!VideoStarts, F!Starts, FilesInv, FileTypes, VideoInv, RecordInv, F!NotifiesOwn
    <2>6. F!DoneOnce'
      BY <1>0, <1>2 DEF F!ViewVideo, F!VideoStarts, F!Starts, FilesInv, FileTypes, VideoInv, RecordInv, F!DoneOnce
    <2>. QED BY <2>1, <2>2, <2>3, <2>4, <2>5, <2>6 DEF FilesInv
  <1>3. CASE F!VideoStops
    <2>1. FileTypes'
      <3>1. f_rec' \in [F!Rings -> RecType]
        BY <1>3, EndedType DEF F!VideoStops, FilesInv, FileTypes, VideoInv, RecordInv
      <3>2. QED BY <1>3, <3>1 DEF F!VideoStops, FilesInv, FileTypes
    <2>2. VideoInv'
      BY <1>0, <1>3 DEF F!VideoStops, F!Ended, FilesInv, FileTypes, VideoInv, RecordInv
    <2>3. RecordInv'
      BY <1>0, <1>3 DEF F!VideoStops, F!Ended, FilesInv, FileTypes, VideoInv, RecordInv, F!DoneOnce
    <2>4. F!ShowsTheVisitor'
      BY <1>0, <1>3 DEF F!VideoStops, F!Ended, FilesInv, FileTypes, VideoInv, RecordInv, F!ShowsTheVisitor
    <2>5. F!NotifiesOwn'
      BY <1>0, <1>3 DEF F!VideoStops, F!Ended, FilesInv, FileTypes, VideoInv, RecordInv, F!NotifiesOwn
    <2>6. F!DoneOnce'
      BY <1>0, <1>3 DEF F!VideoStops, F!Ended, FilesInv, FileTypes, VideoInv, RecordInv, F!DoneOnce
    <2>. QED BY <2>1, <2>2, <2>3, <2>4, <2>5, <2>6 DEF FilesInv
  <1>4. CASE F!Invite
    <2>1. FileTypes'
      BY <1>0, <1>4 DEF F!Invite, FilesInv, FileTypes, VideoInv, RecordInv
    <2>2. VideoInv'
      BY <1>0, <1>4 DEF F!Invite, FilesInv, FileTypes, VideoInv, RecordInv
    <2>3. RecordInv'
      BY <1>0, <1>4 DEF F!Invite, FilesInv, FileTypes, VideoInv, RecordInv, F!DoneOnce
    <2>4. F!ShowsTheVisitor'
      BY <1>0, <1>4 DEF F!Invite, FilesInv, FileTypes, VideoInv, RecordInv, F!ShowsTheVisitor
    <2>5. F!NotifiesOwn'
      BY <1>0, <1>4 DEF F!Invite, FilesInv, FileTypes, VideoInv, RecordInv, F!NotifiesOwn
    <2>6. F!DoneOnce'
      BY <1>0, <1>4 DEF F!Invite, FilesInv, FileTypes, VideoInv, RecordInv, F!DoneOnce
    <2>. QED BY <2>1, <2>2, <2>3, <2>4, <2>5, <2>6 DEF FilesInv
  <1>5. CASE F!RingTold
    <2>a. f_ring \in F!Rings /\ f_queue \in {0} \cup F!Rings /\ f_rec \in [F!Rings -> RecType]
          /\ f_rec[f_ring].step = "no"
      BY <1>5 DEF F!RingTold, FilesInv, FileTypes, VideoInv, RecordInv
    <2>b. F!Ended(f_rec) \in [F!Rings -> RecType]
      BY <2>a, EndedType
    <2>c. \/ f_rec' = F!Ended(f_rec) /\ f_request' = f_ring /\ f_queue' = 0
          \/ f_rec' = F!Starts(F!Ended(f_rec), f_ring) /\ f_request' = 0 /\ f_queue' = f_ring
      BY <1>5 DEF F!RingTold
    <2>d. f_rec' \in [F!Rings -> RecType]
      BY <2>a, <2>b, <2>c, StartsType
    <2>e. \A q \in F!Rings : /\ f_rec'[q].shows = f_rec[q].shows /\ f_rec'[q].done = f_rec[q].done
                            /\ f_rec'[q].step = IF q = f_ring /\ f_request' = 0 THEN "claim" ELSE f_rec[q].step
      BY <2>a, <2>b, <2>c, StartsType, EndedType
    <2>f. f_photo' \in PhotoType /\ f_photo'.ring = f_ring /\ f_stats' = [photo |-> 0, clip |-> 0]
          /\ f_ringing = "on" /\ f_ringing' = "told"
          /\ UNCHANGED <<f_ring, f_views, f_video, f_grabber, f_frames, f_jpeg, f_onDisk>>
      BY <1>5, <2>a DEF F!RingTold, PhotoType
    <2>1. FileTypes'
      BY <2>d, <2>f DEF FilesInv, FileTypes
    <2>2. VideoInv'
      BY <2>f DEF FilesInv, VideoInv
    <2>3. RecordInv'
      <3>1. ASSUME NEW r \in F!Rings, r > f_ring \/ r = f_request'
            PROVE  f_rec'[r].step = "no"
        BY <2>a, <2>c, <2>e, <3>1 DEF FilesInv, RecordInv
      <3>2. f_video # F!Look /\ {f_request, f_queue}' \subseteq {0, f_ring}
        BY <2>a, <2>c, <2>f DEF FilesInv, VideoInv
      <3>3. QED BY <2>a, <2>e, <2>f, <3>1, <3>2 DEF FilesInv, RecordInv
    <2>4. F!ShowsTheVisitor'
      BY <2>f DEF FilesInv, F!ShowsTheVisitor
    <2>5. F!NotifiesOwn'
      BY <2>f DEF F!NotifiesOwn
    <2>6. F!DoneOnce'
      BY <2>a, <2>e, <2>f DEF FilesInv, F!DoneOnce
    <2>. QED BY <2>1, <2>2, <2>3, <2>4, <2>5, <2>6 DEF FilesInv
  <1>6. CASE F!Frame
    <2>1. FileTypes'
      <3>1. f_video \in 0..F!Look /\ f_frames' \in 1..MaxFrames
        BY <1>6 DEF F!Frame, FilesInv, FileTypes, VideoInv
      <3>2. f_jpeg' \in FrameType
        BY <1>6, <3>1 DEF F!Frame, FrameType
      <3>3. QED BY <1>6, <3>1, <3>2 DEF F!Frame, FilesInv, FileTypes
    <2>2. VideoInv'
      BY <1>0, <1>6 DEF F!Frame, FilesInv, FileTypes, VideoInv, RecordInv
    <2>3. RecordInv'
      BY <1>0, <1>6 DEF F!Frame, FilesInv, FileTypes, VideoInv, RecordInv, F!DoneOnce
    <2>4. F!ShowsTheVisitor'
      BY <1>0, <1>6 DEF F!Frame, FilesInv, FileTypes, VideoInv, RecordInv, F!ShowsTheVisitor
    <2>5. F!NotifiesOwn'
      BY <1>0, <1>6 DEF F!Frame, FilesInv, FileTypes, VideoInv, RecordInv, F!NotifiesOwn
    <2>6. F!DoneOnce'
      BY <1>0, <1>6 DEF F!Frame, FilesInv, FileTypes, VideoInv, RecordInv, F!DoneOnce
    <2>. QED BY <2>1, <2>2, <2>3, <2>4, <2>5, <2>6 DEF FilesInv
  <1>7. CASE F!GrabberDies
    <2>1. FileTypes'
      BY <1>0, <1>7 DEF F!GrabberDies, FilesInv, FileTypes, VideoInv, RecordInv
    <2>2. VideoInv'
      BY <1>0, <1>7 DEF F!GrabberDies, FilesInv, FileTypes, VideoInv, RecordInv
    <2>3. RecordInv'
      BY <1>0, <1>7 DEF F!GrabberDies, FilesInv, FileTypes, VideoInv, RecordInv, F!DoneOnce
    <2>4. F!ShowsTheVisitor'
      BY <1>0, <1>7 DEF F!GrabberDies, FilesInv, FileTypes, VideoInv, RecordInv, F!ShowsTheVisitor
    <2>5. F!NotifiesOwn'
      BY <1>0, <1>7 DEF F!GrabberDies, FilesInv, FileTypes, VideoInv, RecordInv, F!NotifiesOwn
    <2>6. F!DoneOnce'
      BY <1>0, <1>7 DEF F!GrabberDies, FilesInv, FileTypes, VideoInv, RecordInv, F!DoneOnce
    <2>. QED BY <2>1, <2>2, <2>3, <2>4, <2>5, <2>6 DEF FilesInv
  <1>8. CASE F!FirstPhoto
    <2>a. f_photo \in PhotoType /\ f_photo.ring = f_ring /\ f_ring \in F!Rings /\ f_video # F!Look
      BY <1>8 DEF F!FirstPhoto, F!Shot, FilesInv, FileTypes, RecordInv, PhotoType
    <2>b. f_jpeg = None \/ (f_jpeg \in FrameType /\ f_jpeg.of = f_ring)
      BY <2>a DEF FilesInv, FileTypes, VideoInv
    <2>c. f_photo' \in {None} \cup PhotoType /\ (f_photo' # None => f_photo'.ring = f_photo.ring)
      BY <1>8, <2>a, <2>b DEF F!FirstPhoto, PhotoType
    <2>d. \/ UNCHANGED <<f_stats, f_onDisk>>
          \/ /\ f_onDisk' = [f_onDisk EXCEPT !.photo = [f_onDisk.photo EXCEPT ![f_ring] = f_ring]]
             /\ f_stats' = [f_stats EXCEPT !.photo = f_ring]
      BY <1>8, <2>a, <2>b DEF F!FirstPhoto, F!Writes
    <2>e. UNCHANGED <<f_ring, f_ringing, f_views, f_video, f_grabber, f_frames, f_jpeg, f_request, f_queue, f_rec>>
      BY <1>8 DEF F!FirstPhoto
    <2>f. f_onDisk' \in DiskType /\ f_onDisk'.clip = f_onDisk.clip /\ f_onDisk'.part = f_onDisk.part
          /\ \A r \in F!Rings : f_onDisk'.photo[r] \in {f_onDisk.photo[r], r}
      <3>1. f_onDisk \in DiskType /\ f_ring \in 0..F!Look
        BY <2>a DEF FilesInv, FileTypes
      <3>2. [f_onDisk.photo EXCEPT ![f_ring] = f_ring] \in [F!Rings -> 0..F!Look]
        BY <3>1 DEF DiskType
      <3>3. CASE UNCHANGED f_onDisk
        BY <3>1, <3>3
      <3>4. CASE f_onDisk' = [f_onDisk EXCEPT !.photo = [f_onDisk.photo EXCEPT ![f_ring] = f_ring]]
        <4>1. f_onDisk'.photo = [f_onDisk.photo EXCEPT ![f_ring] = f_ring] /\ f_onDisk' \in DiskType
              /\ f_onDisk'.clip = f_onDisk.clip /\ f_onDisk'.part = f_onDisk.part
          BY <3>1, <3>2, <3>4 DEF DiskType
        <4>2. f_onDisk.photo \in [F!Rings -> 0..F!Look]
          BY <3>1 DEF DiskType
        <4>3. QED BY <2>a, <4>1, <4>2
      <3>5. QED BY <2>d, <3>3, <3>4
    <2>g. f_stats' \in [photo : 0..MaxRings, clip : 0..MaxRings] /\ f_stats'.clip = f_stats.clip
          /\ f_stats'.photo \in {f_stats.photo, f_ring}
      <3>1. f_stats \in [photo : 0..MaxRings, clip : 0..MaxRings] /\ f_ring \in 0..MaxRings
        BY <2>a DEF FilesInv, FileTypes
      <3>2. CASE UNCHANGED <<f_stats, f_onDisk>>
        BY <3>1, <3>2
      <3>3. CASE f_stats' = [f_stats EXCEPT !.photo = f_ring]
        BY <3>1, <3>3
      <3>4. QED BY <2>d, <3>2, <3>3
    <2>1. FileTypes'
      BY <2>c, <2>e, <2>f, <2>g DEF FilesInv, FileTypes
    <2>2. VideoInv'
      BY <2>e DEF FilesInv, VideoInv
    <2>3. RecordInv'
      BY <2>a, <2>c, <2>e DEF FilesInv, RecordInv
    <2>4. F!ShowsTheVisitor'
      BY <2>f DEF FilesInv, F!ShowsTheVisitor
    <2>5. F!NotifiesOwn'
      BY <2>e, <2>g DEF FilesInv, F!NotifiesOwn
    <2>6. F!DoneOnce'
      BY <2>e, <2>f DEF FilesInv, F!DoneOnce
    <2>. QED BY <2>1, <2>2, <2>3, <2>4, <2>5, <2>6 DEF FilesInv
  <1>9. CASE F!PhotoNotWritten
    <2>1. FileTypes'
      BY <1>0, <1>9 DEF F!PhotoNotWritten, F!Shot, FilesInv, FileTypes, VideoInv, RecordInv
    <2>2. VideoInv'
      BY <1>0, <1>9 DEF F!PhotoNotWritten, F!Shot, FilesInv, FileTypes, VideoInv, RecordInv
    <2>3. RecordInv'
      BY <1>0, <1>9 DEF F!PhotoNotWritten, F!Shot, FilesInv, FileTypes, VideoInv, RecordInv, F!DoneOnce
    <2>4. F!ShowsTheVisitor'
      BY <1>0, <1>9 DEF F!PhotoNotWritten, F!Shot, FilesInv, FileTypes, VideoInv, RecordInv, F!ShowsTheVisitor
    <2>5. F!NotifiesOwn'
      BY <1>0, <1>9 DEF F!PhotoNotWritten, F!Shot, FilesInv, FileTypes, VideoInv, RecordInv, F!NotifiesOwn
    <2>6. F!DoneOnce'
      BY <1>0, <1>9 DEF F!PhotoNotWritten, F!Shot, FilesInv, FileTypes, VideoInv, RecordInv, F!DoneOnce
    <2>. QED BY <2>1, <2>2, <2>3, <2>4, <2>5, <2>6 DEF FilesInv
  <1>10. CASE F!BetterPhoto
    <2>a. f_photo \in PhotoType /\ f_photo.ring = f_ring /\ f_ring \in F!Rings /\ f_video # F!Look
      BY <1>10 DEF F!BetterPhoto, F!Shot, FilesInv, FileTypes, RecordInv, PhotoType
    <2>b. f_jpeg = None \/ (f_jpeg \in FrameType /\ f_jpeg.of = f_ring)
      BY <2>a DEF FilesInv, FileTypes, VideoInv
    <2>c. f_photo' = None
      BY <1>10, <2>a, <2>b DEF F!BetterPhoto, PhotoType
    <2>d. \/ UNCHANGED <<f_stats, f_onDisk>>
          \/ /\ f_onDisk' = [f_onDisk EXCEPT !.photo = [f_onDisk.photo EXCEPT ![f_ring] = f_ring]]
             /\ f_stats' = [f_stats EXCEPT !.photo = f_ring]
      BY <1>10, <2>a, <2>b DEF F!BetterPhoto, F!Writes
    <2>e. UNCHANGED <<f_ring, f_ringing, f_views, f_video, f_grabber, f_frames, f_jpeg, f_request, f_queue, f_rec>>
      BY <1>10 DEF F!BetterPhoto
    <2>f. f_onDisk' \in DiskType /\ f_onDisk'.clip = f_onDisk.clip /\ f_onDisk'.part = f_onDisk.part
          /\ \A r \in F!Rings : f_onDisk'.photo[r] \in {f_onDisk.photo[r], r}
      <3>1. f_onDisk \in DiskType /\ f_ring \in 0..F!Look
        BY <2>a DEF FilesInv, FileTypes
      <3>2. [f_onDisk.photo EXCEPT ![f_ring] = f_ring] \in [F!Rings -> 0..F!Look]
        BY <3>1 DEF DiskType
      <3>3. CASE UNCHANGED f_onDisk
        BY <3>1, <3>3
      <3>4. CASE f_onDisk' = [f_onDisk EXCEPT !.photo = [f_onDisk.photo EXCEPT ![f_ring] = f_ring]]
        <4>1. f_onDisk'.photo = [f_onDisk.photo EXCEPT ![f_ring] = f_ring] /\ f_onDisk' \in DiskType
              /\ f_onDisk'.clip = f_onDisk.clip /\ f_onDisk'.part = f_onDisk.part
          BY <3>1, <3>2, <3>4 DEF DiskType
        <4>2. f_onDisk.photo \in [F!Rings -> 0..F!Look]
          BY <3>1 DEF DiskType
        <4>3. QED BY <2>a, <4>1, <4>2
      <3>5. QED BY <2>d, <3>3, <3>4
    <2>g. f_stats' \in [photo : 0..MaxRings, clip : 0..MaxRings] /\ f_stats'.clip = f_stats.clip
          /\ f_stats'.photo \in {f_stats.photo, f_ring}
      <3>1. f_stats \in [photo : 0..MaxRings, clip : 0..MaxRings] /\ f_ring \in 0..MaxRings
        BY <2>a DEF FilesInv, FileTypes
      <3>2. CASE UNCHANGED <<f_stats, f_onDisk>>
        BY <3>1, <3>2
      <3>3. CASE f_stats' = [f_stats EXCEPT !.photo = f_ring]
        BY <3>1, <3>3
      <3>4. QED BY <2>d, <3>2, <3>3
    <2>1. FileTypes'
      BY <2>c, <2>e, <2>f, <2>g DEF FilesInv, FileTypes
    <2>2. VideoInv'
      BY <2>e DEF FilesInv, VideoInv
    <2>3. RecordInv'
      BY <2>a, <2>c, <2>e DEF FilesInv, RecordInv
    <2>4. F!ShowsTheVisitor'
      BY <2>f DEF FilesInv, F!ShowsTheVisitor
    <2>5. F!NotifiesOwn'
      BY <2>e, <2>g DEF FilesInv, F!NotifiesOwn
    <2>6. F!DoneOnce'
      BY <2>e, <2>f DEF FilesInv, F!DoneOnce
    <2>. QED BY <2>1, <2>2, <2>3, <2>4, <2>5, <2>6 DEF FilesInv
  <1>11. ASSUME NEW r \in F!Rings, F!Claims(r)
        PROVE  FilesInv'
    <2>1. FileTypes'
      <3>1. [f_rec[r] EXCEPT !.step = "wait"] \in RecType
        BY <1>11 DEF F!Claims, RecType, FilesInv, FileTypes, VideoInv
      <3>2. f_rec' = [f_rec EXCEPT ![r] = [f_rec[r] EXCEPT !.step = "wait"]]
        BY <1>11 DEF F!Claims
      <3>3. f_rec' \in [F!Rings -> RecType]
        BY <3>1, <3>2, RecorderType DEF FilesInv, FileTypes
      <3>4. f_onDisk' \in DiskType
        BY <1>11 DEF F!Claims, DiskType, FilesInv, FileTypes
      <3>5. QED BY <1>11, <3>3, <3>4 DEF F!Claims, FilesInv, FileTypes
    <2>2. VideoInv'
      BY <1>0, <1>11 DEF F!Claims, FilesInv, FileTypes, VideoInv, RecordInv
    <2>3. RecordInv'
      BY <1>0, <1>11 DEF F!Claims, FilesInv, FileTypes, VideoInv, RecordInv, F!DoneOnce
    <2>4. F!ShowsTheVisitor'
      BY <1>0, <1>11 DEF F!Claims, FilesInv, FileTypes, VideoInv, RecordInv, F!ShowsTheVisitor
    <2>5. F!NotifiesOwn'
      BY <1>0, <1>11 DEF F!Claims, FilesInv, FileTypes, VideoInv, RecordInv, F!NotifiesOwn
    <2>6. F!DoneOnce'
      BY <1>0, <1>11 DEF F!Claims, FilesInv, FileTypes, VideoInv, RecordInv, F!DoneOnce
    <2>. QED BY <2>1, <2>2, <2>3, <2>4, <2>5, <2>6 DEF FilesInv
  <1>12. ASSUME NEW r \in F!Rings, F!NoFile(r)
        PROVE  FilesInv'
    <2>1. FileTypes'
      <3>1. [f_rec[r] EXCEPT !.step = "over", !.done = @ + 1] \in RecType
        BY <1>12 DEF F!NoFile, RecType, FilesInv, FileTypes, VideoInv
      <3>2. f_rec' = [f_rec EXCEPT ![r] = [f_rec[r] EXCEPT !.step = "over", !.done = @ + 1]]
        BY <1>12 DEF F!NoFile
      <3>3. f_rec' \in [F!Rings -> RecType]
        BY <3>1, <3>2, RecorderType DEF FilesInv, FileTypes
      <3>4. f_onDisk' \in DiskType
        BY <1>12 DEF F!NoFile, DiskType, FilesInv, FileTypes
      <3>5. QED BY <1>12, <3>3, <3>4 DEF F!NoFile, FilesInv, FileTypes
    <2>2. VideoInv'
      BY <1>0, <1>12 DEF F!NoFile, FilesInv, FileTypes, VideoInv, RecordInv
    <2>3. RecordInv'
      BY <1>0, <1>12 DEF F!NoFile, FilesInv, FileTypes, VideoInv, RecordInv, F!DoneOnce
    <2>4. F!ShowsTheVisitor'
      BY <1>0, <1>12 DEF F!NoFile, FilesInv, FileTypes, VideoInv, RecordInv, F!ShowsTheVisitor
    <2>5. F!NotifiesOwn'
      BY <1>0, <1>12 DEF F!NoFile, FilesInv, FileTypes, VideoInv, RecordInv, F!NotifiesOwn
    <2>6. F!DoneOnce'
      BY <1>0, <1>12 DEF F!NoFile, FilesInv, FileTypes, VideoInv, RecordInv, F!DoneOnce
    <2>. QED BY <2>1, <2>2, <2>3, <2>4, <2>5, <2>6 DEF FilesInv
  <1>13. ASSUME NEW r \in F!Rings, F!Records(r)
        PROVE  FilesInv'
    <2>1. FileTypes'
      <3>1. [f_rec[r] EXCEPT !.step = "writes", !.shows = @ \cup {f_video}] \in RecType
        <4>1. f_video \in 0..F!Look /\ f_rec[r] \in RecType
          BY DEF FilesInv, FileTypes, VideoInv
        <4>2. f_rec[r].shows \cup {f_video} \in SUBSET (0..F!Look)
          BY <4>1 DEF RecType
        <4>3. QED BY <4>1, <4>2 DEF RecType
      <3>2. f_rec' = [f_rec EXCEPT ![r] = [f_rec[r] EXCEPT !.step = "writes", !.shows = @ \cup {f_video}]]
        BY <1>13 DEF F!Records
      <3>3. f_rec' \in [F!Rings -> RecType]
        BY <3>1, <3>2, RecorderType DEF FilesInv, FileTypes
      <3>4. QED BY <1>13, <3>3 DEF F!Records, FilesInv, FileTypes
    <2>2. VideoInv'
      BY <1>0, <1>13 DEF F!Records, FilesInv, FileTypes, VideoInv, RecordInv
    <2>3. RecordInv'
      BY <1>0, <1>13 DEF F!Records, FilesInv, FileTypes, VideoInv, RecordInv, F!DoneOnce
    <2>4. F!ShowsTheVisitor'
      BY <1>0, <1>13 DEF F!Records, FilesInv, FileTypes, VideoInv, RecordInv, F!ShowsTheVisitor
    <2>5. F!NotifiesOwn'
      BY <1>0, <1>13 DEF F!Records, FilesInv, FileTypes, VideoInv, RecordInv, F!NotifiesOwn
    <2>6. F!DoneOnce'
      BY <1>0, <1>13 DEF F!Records, FilesInv, FileTypes, VideoInv, RecordInv, F!DoneOnce
    <2>. QED BY <2>1, <2>2, <2>3, <2>4, <2>5, <2>6 DEF FilesInv
  <1>14. ASSUME NEW r \in F!Rings, F!Closes(r)
        PROVE  FilesInv'
    <2>1. FileTypes'
      <3>1. [f_rec[r] EXCEPT !.step = IF f_rec[r].step = "writes" THEN "closing" ELSE "drops"] \in RecType
        BY <1>14 DEF F!Closes, RecType, FilesInv, FileTypes, VideoInv
      <3>2. f_rec' = [f_rec EXCEPT ![r] = [f_rec[r] EXCEPT !.step = IF f_rec[r].step = "writes" THEN "closing" ELSE "drops"]]
        BY <1>14 DEF F!Closes
      <3>3. f_rec' \in [F!Rings -> RecType]
        BY <3>1, <3>2, RecorderType DEF FilesInv, FileTypes
      <3>4. QED BY <1>14, <3>3 DEF F!Closes, FilesInv, FileTypes
    <2>2. VideoInv'
      BY <1>0, <1>14 DEF F!Closes, F!Capped, FilesInv, FileTypes, VideoInv, RecordInv
    <2>3. RecordInv'
      BY <1>0, <1>14 DEF F!Closes, F!Capped, FilesInv, FileTypes, VideoInv, RecordInv, F!DoneOnce
    <2>4. F!ShowsTheVisitor'
      BY <1>0, <1>14 DEF F!Closes, F!Capped, FilesInv, FileTypes, VideoInv, RecordInv, F!ShowsTheVisitor
    <2>5. F!NotifiesOwn'
      BY <1>0, <1>14 DEF F!Closes, F!Capped, FilesInv, FileTypes, VideoInv, RecordInv, F!NotifiesOwn
    <2>6. F!DoneOnce'
      BY <1>0, <1>14 DEF F!Closes, F!Capped, FilesInv, FileTypes, VideoInv, RecordInv, F!DoneOnce
    <2>. QED BY <2>1, <2>2, <2>3, <2>4, <2>5, <2>6 DEF FilesInv
  <1>15. ASSUME NEW r \in F!Rings, F!Finishes(r)
        PROVE  FilesInv'
    <2>1. FileTypes'
      <3>1. [f_rec[r] EXCEPT !.step = "over", !.done = @ + 1] \in RecType
        BY <1>15 DEF F!Finishes, RecType, FilesInv, FileTypes, VideoInv
      <3>2. f_rec' = [f_rec EXCEPT ![r] = [f_rec[r] EXCEPT !.step = "over", !.done = @ + 1]]
        BY <1>15 DEF F!Finishes
      <3>3. f_rec' \in [F!Rings -> RecType]
        BY <3>1, <3>2, RecorderType DEF FilesInv, FileTypes
      <3>4. f_onDisk' \in DiskType
        <4>1. f_rec[r].shows \subseteq 0..F!Look /\ f_onDisk \in DiskType
          BY DEF RecType, FilesInv, FileTypes
        <4>2. PICK ok \in BOOLEAN :
                 f_onDisk' = [f_onDisk EXCEPT !.part = @ \ {r}, !.clip[r] = IF ok THEN f_rec[r].shows ELSE @]
          BY <1>15 DEF F!Finishes
        <4>3. QED BY <4>1, <4>2 DEF DiskType
      <3>5. f_stats' \in [photo : 0..MaxRings, clip : 0..MaxRings]
        <4>1. f_stats' \in {f_stats, [f_stats EXCEPT !.clip = r]}
          BY <1>15 DEF F!Finishes
        <4>2. f_stats \in [photo : 0..MaxRings, clip : 0..MaxRings] /\ r \in 0..MaxRings
          BY DEF FilesInv, FileTypes
        <4>3. QED BY <4>1, <4>2
      <3>6. QED BY <1>15, <3>3, <3>4, <3>5 DEF F!Finishes, FilesInv, FileTypes
    <2>2. VideoInv'
      BY <1>0, <1>15 DEF F!Finishes, FilesInv, FileTypes, VideoInv, RecordInv
    <2>3. RecordInv'
      BY <1>0, <1>15 DEF F!Finishes, FilesInv, FileTypes, VideoInv, RecordInv, F!DoneOnce
    <2>4. F!ShowsTheVisitor'
      BY <1>0, <1>15 DEF F!Finishes, FilesInv, FileTypes, VideoInv, RecordInv, F!ShowsTheVisitor
    <2>5. F!NotifiesOwn'
      BY <1>0, <1>15 DEF F!Finishes, FilesInv, FileTypes, VideoInv, RecordInv, F!NotifiesOwn
    <2>6. F!DoneOnce'
      BY <1>0, <1>15 DEF F!Finishes, FilesInv, FileTypes, VideoInv, RecordInv, F!DoneOnce
    <2>. QED BY <2>1, <2>2, <2>3, <2>4, <2>5, <2>6 DEF FilesInv
  <1>16. CASE UNCHANGED files
    <2>1. FileTypes'
      BY <1>16 DEF files, FilesInv, FileTypes, VideoInv, RecordInv
    <2>2. VideoInv'
      BY <1>16 DEF files, FilesInv, FileTypes, VideoInv, RecordInv
    <2>3. RecordInv'
      BY <1>16 DEF files, FilesInv, FileTypes, VideoInv, RecordInv, F!DoneOnce
    <2>4. F!ShowsTheVisitor'
      BY <1>16 DEF files, FilesInv, FileTypes, VideoInv, RecordInv, F!ShowsTheVisitor
    <2>5. F!NotifiesOwn'
      BY <1>16 DEF files, FilesInv, FileTypes, VideoInv, RecordInv, F!NotifiesOwn
    <2>6. F!DoneOnce'
      BY <1>16 DEF files, FilesInv, FileTypes, VideoInv, RecordInv, F!DoneOnce
    <2>. QED BY <2>1, <2>2, <2>3, <2>4, <2>5, <2>6 DEF FilesInv
  <1>. QED BY <1>1, <1>2, <1>3, <1>4, <1>5, <1>6, <1>7, <1>8, <1>9, <1>10, <1>11, <1>12, <1>13, <1>14, <1>15, <1>16 DEF F!Next

-----------------------------------------------------------------------------
\* Each part steps, or stays.
PartSteps == [P!Next]_pairing /\ [T!Next]_talk /\ [F!Next]_files

\* A step of MCDoorbell is a step of each part, or leaves it alone.
LEMMA WholeSteps ==
    ASSUME [Next]_vars
    PROVE  PartSteps
  <1>. USE DEF vars, pairing, talk, files, PartSteps
  <1>1. CASE UNCHANGED vars
    BY <1>1
  <1>2. CASE UNCHANGED <<pairing, talk, files>>
    BY <1>2
  <1>3. CASE P!Next /\ UNCHANGED <<views, talk, desk, files>>
    BY <1>3
  <1>4. CASE T!Next /\ UNCHANGED <<views, pairing, desk, files>>
    BY <1>4
  <1>5. CASE F!Next /\ UNCHANGED <<views, pairing, talk, desk>>
    BY <1>5
  <1>6. QED BY <1>1, <1>2, <1>3, <1>4, <1>5 DEF Next

\* The setup code and the voice: the page shows the code that pairs, the file has it, and one
\* decoder runs per view (CodeAndTalk), for every number of codes, packets and decoders.
THEOREM CodeAndTalkHold == ASSUME Orderly PROVE Spec => []CodeAndTalk
  <1>1. Init => PairInv /\ TalkInv
    BY PairInit, TalkInit DEF Init
  <1>2. ASSUME PairInv /\ TalkInv, [Next]_vars
        PROVE  (PairInv /\ TalkInv)'
    BY <1>2, WholeSteps, PairStep, TalkStep DEF PartSteps
  <1>3. PairInv /\ TalkInv => CodeAndTalk
    <2>1. ASSUME PairInv PROVE P!TypeOK /\ P!ShowsTheCode /\ P!FileFollows
      BY <2>1 DEF PairInv, CodeInForce, SavesInv, P!ShowsTheCode, P!FileFollows
    <2>2. QED BY <2>1, OneAlive DEF TalkInv, CodeAndTalk
  <1>4. QED BY <1>1, <1>2, <1>3, PTL DEF Spec

\* Photo and clip are of the visitor they are filed under, what goes with a notification is of
\* its ring, and each clip is told once (PicturesOfRing), for every number of visitors, frames
\* and views.
THEOREM PicturesHold == ASSUME OneAtATime PROVE Spec => []PicturesOfRing
  <1>1. Init => FilesInv
    BY FilesInit DEF Init
  <1>2. ASSUME FilesInv, [Next]_vars
        PROVE  FilesInv'
    BY <1>2, WholeSteps, FilesStep DEF PartSteps
  <1>3. FilesInv => PicturesOfRing
    <2>1. ASSUME FilesInv PROVE F!TypeOK
      BY <2>1, RingsAssumption DEF FilesInv, FileTypes, VideoInv, RecordInv, RecType, DiskType, PhotoType, FrameType,
         F!TypeOK, F!Rings, F!Look
    <2>2. QED BY <2>1 DEF FilesInv, PicturesOfRing
  <1>4. QED BY <1>1, <1>2, <1>3, PTL DEF Spec
=============================================================================
