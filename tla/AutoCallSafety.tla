--------------------------- MODULE AutoCallSafety ---------------------------
(***************************************************************************)
(* The guard and the delayed hang-up of AutoCall, for any views, users and   *)
(* number of INVITEs: the hang-up that is coming, the guard it lifts, and    *)
(* the call of a view that nobody watches any more.                          *)
(***************************************************************************)
EXTENDS AutoCall, SequenceTheorems, TLAPS

Positions == 1 .. Len(tasks)

\* Whoever waits to run has not begun: a call that was asked for, a hang-up that was
\* decided on; once each, and the latest hang-up behind the others.
TasksInv ==
    /\ \A i \in Positions : /\ tasks[i] \in Views => caller[tasks[i]] = "spawned"
                            /\ tasks[i] \in Hangup => bye[tasks[i]] = "started"
                            /\ tasks[i] \in Hangup =>
                                  \E j \in Positions : j >= i /\ tasks[j] = hangup_done
    /\ \A i, j \in Positions : tasks[i] = tasks[j] => i = j
    /\ \A h \in Hangup : bye[h] = "started" => \E i \in Positions : tasks[i] = h

\* A call is placed once, and has an INVITE left until the budget is spent.
CallersInv ==
    /\ \A c \in Caller : caller[c] \in {"none", "spawned", "settling"} => tries[c] < MaxTries
    /\ \A v \in Views : view[v] \in {"unopened", "guarded", "woken"} => caller[v] = "none"

\* Nobody has yet asked for the hang-ups of a view that is open, and of a call that has
\* not returned.
UnaskedInv ==
    /\ \A v \in Views : caller[v] # "over" => bye[<<v, "late">>] = "none"
    /\ \A v \in Views : view[v] # "gone" =>
          /\ bye[<<v, "left">>] = "none"
          /\ v \in HomeKit => bye[<<v, "homekit">>] = "none"

\* The guard is up from the decision to hang up on, on local UDP until the answer.
GuardInv ==
    /\ GuardEnds
    /\ \A v \in Views : view[v] \in {"guarded", "woken"} => waits_for[v] # None
    /\ \A h \in Hangup : bye[h] = "started" => hanging_up
    /\ settle => ~udp /\ hanging_up
    /\ udp /\ ~hanging_up => hangup_done \notin Running

HubInv == TypeOK /\ TasksInv /\ CallersInv /\ UnaskedInv /\ GuardInv /\ OneDelayed

-----------------------------------------------------------------------------
\* The hang-ups of different views, and of different kinds, are different.
LEMMA HangupFacts ==
    /\ Delayed \subseteq Hangup /\ Asked \subseteq Hangup /\ Hangup = Delayed \cup Asked
    /\ \A v \in Views : <<v, "left">> \in Delayed /\ <<v, "late">> \in Delayed
    /\ \A v \in HomeKit : <<v, "homekit">> \in Asked
    /\ \A v, w \in Views : /\ <<v, "left">> # <<w, "late">>
                           /\ <<v, "left">> # <<w, "homekit">>
                           /\ <<v, "late">> # <<w, "homekit">>
                           /\ v # w => <<v, "left">> # <<w, "left">>
                           /\ v # w => <<v, "late">> # <<w, "late">>
                           /\ v # w => <<v, "homekit">> # <<w, "homekit">>
    /\ \A h \in Delayed : h \notin Asked
    /\ \A h \in Asked : h[1] # User => h[1] \in HomeKit /\ h = <<h[1], "homekit">>
    /\ \A h \in Asked, v \in Views : h = <<v, "homekit">> => h[1] = v /\ v # User
    /\ \A v \in Views : <<v, "homekit">> \in Hangup => v \in HomeKit
    /\ \A h \in Hangup : h \notin Views /\ h # None
  BY ViewAssumption, HangupAssumption DEF Hangup, Delayed, Asked

LEMMA Started ==
    ASSUME Init
    PROVE  HubInv
  <1>. PICK cast \in Casts : Init!(cast)
    BY DEF Init
  <1>1. TypeOK
    <2>1. view \in [Views -> ViewStage]
      BY DEF ViewStage
    <2>2. caller \in [Caller -> CallStage]
      BY DEF CallStage
    <2>3. bye \in [Hangup -> ByeStage]
      BY DEF ByeStage
    <2>4. tries \in [Caller -> 0 .. MaxTries]
      BY TriesAssumption
    <2>5. waits_for \in [Views -> Hangup \cup {None}] /\ tasks \in Seq(Views \cup Hangup)
      OBVIOUS
    <2>. QED BY <2>1, <2>2, <2>3, <2>4, <2>5 DEF TypeOK
  <1>2. TasksInv
    BY DEF TasksInv, Positions
  <1>3. CallersInv
    <2>1. \A c \in Caller : tries[c] < MaxTries
      BY TriesAssumption
    <2>2. \A v \in Views : v \in Caller
      BY DEF Caller
    <2>. QED BY <2>1, <2>2 DEF CallersInv
  <1>4. UnaskedInv
    <2>1. \A v \in Views : v \in cast => bye[<<v, "late">>] = "none" /\ bye[<<v, "left">>] = "none"
      BY HangupFacts
    <2>2. \A v \in HomeKit : v \in cast => bye[<<v, "homekit">>] = "none"
      BY HangupFacts
    <2>. QED BY <2>1, <2>2 DEF UnaskedInv, Caller
  <1>5. GuardInv
    BY HangupFacts DEF GuardInv, GuardEnds, Running
  <1>6. OneDelayed
    BY HangupFacts DEF OneDelayed
  <1>. QED BY <1>1, <1>2, <1>3, <1>4, <1>5, <1>6 DEF HubInv
-----------------------------------------------------------------------------
(* Type correctness.                                                        *)

LEMMA CallerFacts == Views \subseteq Caller /\ User \in Caller /\ Caller = Views \cup {User}
  BY DEF Caller

\* A task is created behind the others.
LEMMA Created ==
    ASSUME TypeOK, NEW t \in Views \cup Hangup, tasks' = Append(tasks, t)
    PROVE  /\ tasks' \in Seq(Views \cup Hangup)
           /\ Len(tasks) \in Nat /\ Len(tasks') = Len(tasks) + 1
           /\ \A i \in Positions : tasks'[i] = tasks[i]
           /\ tasks'[Len(tasks) + 1] = t
  <1>1. tasks \in Seq(Views \cup Hangup)
    BY DEF TypeOK
  <1>. QED BY <1>1, AppendProperties DEF Positions

\* The first one runs.
LEMMA Runs ==
    ASSUME TypeOK, NEW t, Next_task(t)
    PROVE  /\ tasks' \in Seq(Views \cup Hangup)
           /\ Len(tasks) \in Nat \ {0} /\ Len(tasks') = Len(tasks) - 1
           /\ \A i \in Positions' : tasks'[i] = tasks[i + 1]
           /\ tasks[1] = t
  <1>1. tasks \in Seq(Views \cup Hangup) /\ tasks # <<>>
    BY DEF TypeOK, Next_task
  <1>2. Len(tasks) \in Nat \ {0}
    BY <1>1
  <1>3. Head(tasks) = tasks[1]
    BY <1>1
  <1>. QED BY <1>1, <1>2, <1>3, HeadTailProperties DEF Positions, Next_task

LEMMA LineTyped ==
    ASSUME TypeOK, NEW b \in BOOLEAN, NEW g \in BOOLEAN, StateChange(b, g)
    PROVE  /\ fresh' \in BOOLEAN /\ cooldown' \in BOOLEAN /\ left_since' \in BOOLEAN
           /\ settle' \in BOOLEAN
  BY DEF TypeOK, StateChange

LEMMA DialTyped ==
    ASSUME TypeOK, NEW c \in Caller, tries[c] < MaxTries, Dials(c)
    PROVE  /\ caller' \in [Caller -> CallStage] /\ tries' \in [Caller -> 0 .. MaxTries]
           /\ calling' \in BOOLEAN /\ holder' \in Caller \cup {None}
  <1>1. CASE Busy
    BY <1>1 DEF TypeOK, Dials, GivesUp, CallStage
  <1>2. CASE ~Busy
    <2>1. tries[c] \in 0 .. MaxTries
      BY DEF TypeOK
    <2>2. tries[c] + 1 \in 0 .. MaxTries
      BY <2>1, TriesAssumption
    <2>3. tries' \in [Caller -> 0 .. MaxTries]
      BY <1>2, <2>2 DEF TypeOK, Dials
    <2>. QED BY <1>2, <2>3 DEF TypeOK, Dials, CallStage
  <1>. QED BY <1>1, <1>2

LEMMA PlaceTyped ==
    ASSUME TypeOK, NEW c \in Caller, tries[c] < MaxTries, Places(c)
    PROVE  /\ caller' \in [Caller -> CallStage] /\ tries' \in [Caller -> 0 .. MaxTries]
           /\ calling' \in BOOLEAN /\ holder' \in Caller \cup {None} /\ panel_retry' \in BOOLEAN
  <1>1. CASE udp /\ fresh
    BY <1>1 DEF TypeOK, Places, CallStage
  <1>2. CASE ~(udp /\ fresh)
    BY <1>2, DialTyped DEF TypeOK, Places
  <1>. QED BY <1>1, <1>2

LEMMA AcceptTyped ==
    ASSUME TypeOK, NEW v \in Views, Accepted(v)
    PROVE  /\ view' \in [Views -> ViewStage] /\ caller' \in [Caller -> CallStage]
           /\ auto_called' \in BOOLEAN /\ auto_gen' \in Views \cup {None}
           /\ tasks' \in Seq(Views \cup Hangup)
  <1>1. view' \in [Views -> ViewStage]
    BY DEF TypeOK, Accepted, ViewStage
  <1>2. CASE CallInView
    BY <1>1, <1>2 DEF TypeOK, Accepted
  <1>3. CASE ~CallInView
    <2>1. caller' \in [Caller -> CallStage]
      BY <1>3, CallerFacts DEF TypeOK, Accepted, CallStage
    <2>2. tasks' \in Seq(Views \cup Hangup)
      BY <1>3, Created DEF Accepted
    <2>. QED BY <1>1, <1>3, <2>1, <2>2 DEF Accepted
  <1>. QED BY <1>2, <1>3

LEMMA HangingUpTyped ==
    ASSUME TypeOK, NEW h \in Hangup, BeginHangingUp(h)
    PROVE  /\ hanging_up' \in BOOLEAN /\ hangup_done' \in Hangup \cup {None} /\ settle' \in BOOLEAN
           /\ bye' \in [Hangup -> ByeStage] /\ tasks' \in Seq(Views \cup Hangup)
  <1>1. bye' \in [Hangup -> ByeStage]
    BY DEF TypeOK, BeginHangingUp, ByeStage
  <1>2. tasks' \in Seq(Views \cup Hangup)
    BY Created DEF BeginHangingUp
  <1>. QED BY <1>1, <1>2 DEF BeginHangingUp

LEMMA LeaveTyped ==
    ASSUME TypeOK, NEW v \in Views, Leaves(v)
    PROVE  TypeOK'
  <1>1. view' \in [Views -> ViewStage]
    BY DEF TypeOK, Leaves, ViewStage
  <1>2. waits_for' \in [Views -> Hangup \cup {None}]
    BY DEF TypeOK, Leaves
  <1>3. bye' \in [Hangup -> ByeStage]
    BY DEF TypeOK, Leaves, ByeStage
  <1>4. hangup_task' \in Delayed \cup {None}
    BY HangupFacts DEF TypeOK, Leaves
  <1>5. viewers' \subseteq Views
    BY DEF TypeOK, Leaves
  <1>6. left_since' \in BOOLEAN
    BY DEF TypeOK, Leaves
  <1>7. UNCHANGED <<autoVars, hanging_up, hangup_done, settle, lineVars, fresh, cooldown, envVars>>
    BY DEF Leaves
  <1>. QED BY <1>1, <1>2, <1>3, <1>4, <1>5, <1>6, <1>7
           DEF TypeOK, autoVars, lineVars, envVars

\* The variables that the actions leave alone keep their types; the rest is as above.
LEMMA TypeKept ==
    ASSUME TypeOK, TasksInv, CallersInv, [Next]_vars
    PROVE  TypeOK'
  <1>. USE DEF viewVars, autoVars, guardVars, lineVars, timeVars, envVars
  <1>1. ASSUME NEW v \in Views, StreamOpened(v) PROVE TypeOK'
    <2>1. bye' \in [Hangup -> ByeStage] /\ hangup_task' \in Delayed \cup {None}
      BY <1>1 DEF TypeOK, StreamOpened, ByeStage
    <2>2. CASE hanging_up
      <3>1. view' \in [Views -> ViewStage] /\ viewers' \subseteq Views
        BY <1>1, <2>2 DEF TypeOK, StreamOpened, ViewStage
      <3>2. waits_for' \in [Views -> Hangup \cup {None}]
        BY <1>1, <2>2 DEF TypeOK, StreamOpened
      <3>3. UNCHANGED <<auto_called, auto_gen, caller, tasks, explicit, tries, panel_retry, hanging_up,
                        hangup_done, settle, lineVars, timeVars, udp>>
        BY <1>1, <2>2 DEF StreamOpened
      <3>. QED BY <2>1, <3>1, <3>2, <3>3 DEF TypeOK
    <2>3. CASE ~hanging_up /\ Accepted(v)
      BY <1>1, <2>1, <2>3, AcceptTyped DEF TypeOK, StreamOpened
    <2>4. CASE ~hanging_up /\ ~Accepted(v)
      BY <1>1, <2>1, <2>4 DEF TypeOK, StreamOpened, ViewStage
    <2>. QED BY <2>2, <2>3, <2>4
  <1>2. ASSUME NEW v \in Views, GuardTimesOut(v) PROVE TypeOK'
    BY <1>2 DEF TypeOK, GuardTimesOut, ViewStage
  <1>3. ASSUME NEW v \in Views, GuardDrops(v) PROVE TypeOK'
    BY <1>3, AcceptTyped DEF TypeOK, GuardDrops
  <1>4. ASSUME NEW v \in Views, StreamClosed(v) PROVE TypeOK'
    BY <1>4, LeaveTyped DEF StreamClosed
  <1>5. ASSUME NEW v \in Views, StreamRefused(v) PROVE TypeOK'
    BY <1>5, LeaveTyped DEF StreamRefused
  <1>6. ASSUME NEW v \in Views, AutoCalls(v) PROVE TypeOK'
    <2>1. tries[v] < MaxTries /\ v \in Caller
      BY <1>6, Runs, CallerFacts DEF TasksInv, CallersInv, Positions, AutoCalls
    <2>2. auto_called' \in BOOLEAN /\ cooldown' \in BOOLEAN /\ left_since' \in BOOLEAN
      BY <1>6 DEF TypeOK, AutoCalls, Pauses, DropsFlag
    <2>3. tasks' \in Seq(Views \cup Hangup)
      BY <1>6, Runs DEF AutoCalls
    <2>. QED BY <1>6, <2>1, <2>2, <2>3, PlaceTyped DEF TypeOK, AutoCalls
  <1>7. ASSUME NEW c \in Caller, CallSettled(c) PROVE TypeOK'
    <2>1. tries[c] < MaxTries
      BY <1>7 DEF CallersInv, CallSettled
    <2>2. /\ caller' \in [Caller -> CallStage] /\ tries' \in [Caller -> 0 .. MaxTries]
          /\ calling' \in BOOLEAN /\ holder' \in Caller \cup {None}
      <3>1. CASE StillWanted(c)
        BY <1>7, <2>1, <3>1, DialTyped DEF CallSettled
      <3>2. CASE ~StillWanted(c)
        BY <1>7, <3>2 DEF TypeOK, CallSettled, GivesUp, CallStage
      <3>. QED BY <3>1, <3>2
    <2>3. auto_called' \in BOOLEAN /\ cooldown' \in BOOLEAN /\ left_since' \in BOOLEAN /\ panel_retry' \in BOOLEAN
      BY <1>7 DEF TypeOK, CallSettled, DropsFlag, Pauses
    <2>4. UNCHANGED <<viewVars, auto_gen, explicit, guardVars, in_call, panel_bye, fresh, envVars>>
      BY <1>7 DEF CallSettled
    <2>. QED BY <2>2, <2>3, <2>4 DEF TypeOK
  <1>8. ASSUME NEW c \in Caller, CallConnects(c) PROVE TypeOK'
    <2>1. caller' \in [Caller -> CallStage] /\ in_call' \in BOOLEAN /\ calling' \in BOOLEAN
      BY <1>8 DEF TypeOK, CallConnects, CallStage
    <2>2. UNCHANGED <<holder, panel_bye, viewVars, auto_called, auto_gen, explicit, tries,
                      panel_retry, guardVars, timeVars, envVars>>
      BY <1>8 DEF CallConnects
    <2>. QED BY <2>1, <2>2 DEF TypeOK
  <1>9. ASSUME NEW c \in Caller, CallUnanswered(c) PROVE TypeOK'
    <2>1. caller' \in [Caller -> CallStage] /\ auto_called' \in BOOLEAN /\ panel_retry' \in BOOLEAN
      BY <1>9 DEF TypeOK, CallUnanswered, GivesUp, DropsFlag, CallStage
    <2>2. PICK g \in BOOLEAN : StateChange(in_call, g)
      BY <1>9 DEF CallUnanswered
    <2>3. in_call \in BOOLEAN
      BY DEF TypeOK
    <2>4. /\ fresh' \in BOOLEAN /\ cooldown' \in BOOLEAN /\ left_since' \in BOOLEAN
          /\ settle' \in BOOLEAN
      BY <2>2, <2>3, LineTyped
    <2>5. calling' \in BOOLEAN
      BY <1>9 DEF CallUnanswered
    <2>6. UNCHANGED <<in_call, holder, panel_bye, viewVars, auto_gen, explicit, tries, hangup_task,
                      bye, hanging_up, hangup_done, envVars>>
      BY <1>9 DEF CallUnanswered
    <2>. QED BY <2>1, <2>4, <2>5, <2>6 DEF TypeOK
  <1>10. ASSUME NEW c \in Caller, CallFails(c) PROVE TypeOK'
    BY <1>10 DEF TypeOK, CallFails, StateChange, GivesUp, DropsFlag, CallStage
  <1>11. ASSUME NEW c \in Caller, CallReturns(c) PROVE TypeOK'
    <2>1. bye' \in [Hangup -> ByeStage]
      BY <1>11 DEF TypeOK, CallReturns, ByeStage
    <2>2. hangup_task' \in Delayed \cup {None}
      BY <1>11, HangupFacts, CallerFacts DEF TypeOK, CallReturns, ComesLate
    <2>. QED BY <1>11, <2>1, <2>2 DEF TypeOK, CallReturns, StateChange, GivesUp, CallStage
  <1>12. ASSUME NEW h \in Hangup, DelayedHangup(h) PROVE TypeOK'
    <2>1. UNCHANGED <<viewVars, auto_gen, explicit, caller, tries, panel_retry, hangup_task,
                      lineVars, timeVars, udp>>
      BY <1>12 DEF DelayedHangup
    <2>2. CASE auto_called' = FALSE /\ BeginHangingUp(h)
      <3>1. /\ hanging_up' \in BOOLEAN /\ hangup_done' \in Hangup \cup {None} /\ settle' \in BOOLEAN
            /\ bye' \in [Hangup -> ByeStage] /\ tasks' \in Seq(Views \cup Hangup)
        BY <2>2, HangingUpTyped
      <3>. QED BY <2>1, <2>2, <3>1 DEF TypeOK
    <2>3. CASE /\ bye' = [bye EXCEPT ![h] = "over"]
               /\ UNCHANGED <<auto_called, hanging_up, hangup_done, settle, tasks>>
      <3>1. bye' \in [Hangup -> ByeStage]
        BY <2>3 DEF TypeOK, ByeStage
      <3>. QED BY <2>1, <2>3, <3>1 DEF TypeOK
    <2>. QED BY <1>12, <2>2, <2>3 DEF DelayedHangup
  <1>13. ASSUME NEW h \in Hangup, AskedHangup(h) PROVE TypeOK'
    BY <1>13, HangingUpTyped DEF TypeOK, AskedHangup
  <1>14. ASSUME NEW h \in Hangup, ByeLeaves(h) PROVE TypeOK'
    <2>1. tasks' \in Seq(Views \cup Hangup)
      BY <1>14, Runs DEF ByeLeaves
    <2>2. bye' \in [Hangup -> ByeStage]
      BY <1>14 DEF TypeOK, ByeLeaves, ByeStage
    <2>3. /\ fresh' \in BOOLEAN /\ cooldown' \in BOOLEAN /\ left_since' \in BOOLEAN
          /\ settle' \in BOOLEAN
      BY <1>14, LineTyped DEF ByeLeaves
    <2>. QED BY <1>14, <2>1, <2>2, <2>3 DEF TypeOK, ByeLeaves
  <1>15. ASSUME NEW h \in Hangup, ByeTold(h) PROVE TypeOK'
    <2>1. bye' \in [Hangup -> ByeStage] /\ auto_called' \in BOOLEAN
      BY <1>15 DEF TypeOK, ByeTold, CallEnded, ByeStage
    <2>2. UNCHANGED <<viewVars, auto_gen, explicit, caller, tries, panel_retry, hangup_task,
                      hanging_up, hangup_done, settle, lineVars, timeVars, envVars>>
      BY <1>15 DEF ByeTold
    <2>. QED BY <2>1, <2>2 DEF TypeOK
  <1>16. ASSUME NEW h \in Hangup, ByeFinished(h) PROVE TypeOK'
    <2>1. bye' \in [Hangup -> ByeStage] /\ auto_called' \in BOOLEAN
      BY <1>16 DEF TypeOK, ByeFinished, CallEnded, ByeStage
    <2>2. view' \in [Views -> ViewStage] /\ hanging_up' \in BOOLEAN /\ settle' \in BOOLEAN
      BY <1>16 DEF TypeOK, ByeFinished, EndHangingUp, ViewStage
    <2>3. UNCHANGED <<waits_for, viewers, auto_gen, explicit, caller, tries, panel_retry,
                      hangup_task, hangup_done, lineVars, timeVars, envVars>>
      BY <1>16 DEF ByeFinished
    <2>. QED BY <2>1, <2>2, <2>3 DEF TypeOK
  <1>17. CASE LocalSettle
    BY <1>17 DEF TypeOK, LocalSettle, EndHangingUp, ViewStage
  <1>18. CASE UserCalls
    BY <1>18, CallerFacts, PlaceTyped DEF TypeOK, UserCalls, CallersInv
  <1>19. CASE PanelByes
    BY <1>19, LineTyped DEF TypeOK, PanelByes
  <1>20. CASE ClaimCall
    <2>1. auto_called' \in BOOLEAN
      BY <1>20 DEF TypeOK, ClaimCall
    <2>2. UNCHANGED <<viewVars, auto_gen, explicit, caller, tries, panel_retry, guardVars, lineVars,
                      timeVars, envVars>>
      BY <1>20 DEF ClaimCall
    <2>. QED BY <2>1, <2>2 DEF TypeOK
  <1>21. CASE PanelByeTold
    <2>1. panel_bye' \in BOOLEAN /\ auto_called' \in BOOLEAN
      BY <1>21 DEF TypeOK, PanelByeTold, CallEnded
    <2>2. UNCHANGED <<in_call, calling, holder, viewVars, auto_gen, explicit, caller, tries, panel_retry,
                      guardVars, timeVars, envVars>>
      BY <1>21 DEF PanelByeTold
    <2>. QED BY <2>1, <2>2 DEF TypeOK
  <1>22. CASE PanelSettled
    <2>1. fresh' \in BOOLEAN
      BY <1>22 DEF TypeOK, PanelSettled
    <2>2. UNCHANGED <<cooldown, left_since, viewVars, autoVars, guardVars, lineVars, envVars>>
      BY <1>22 DEF PanelSettled
    <2>. QED BY <2>1, <2>2 DEF TypeOK
  <1>23. CASE CooldownOver
    <2>1. cooldown' \in BOOLEAN /\ left_since' \in BOOLEAN
      BY <1>23 DEF TypeOK, CooldownOver
    <2>2. UNCHANGED <<fresh, viewVars, autoVars, guardVars, lineVars, envVars>>
      BY <1>23 DEF CooldownOver
    <2>. QED BY <2>1, <2>2 DEF TypeOK
  <1>24. CASE UNCHANGED vars
    BY <1>24 DEF TypeOK, vars
  <1>. QED BY <1>1, <1>2, <1>3, <1>4, <1>5, <1>6, <1>7, <1>8, <1>9, <1>10, <1>11, <1>12, <1>13,
              <1>14, <1>15, <1>16, <1>17, <1>18, <1>19, <1>20, <1>21, <1>22, <1>23, <1>24 DEF Next

-----------------------------------------------------------------------------
(* The tasks that wait to run.                                              *)

\* What else happens does not concern those that wait.
TasksLeft ==
    /\ UNCHANGED <<tasks, hangup_done>>
    /\ \A v \in Views : caller[v] = "spawned" => caller'[v] = "spawned"
    /\ \A h \in Hangup : bye[h] = "started" <=> bye'[h] = "started"

LEMMA TasksStay ==
    ASSUME TypeOK, TasksInv, TasksLeft
    PROVE  TasksInv'
  BY DEF TasksInv, TasksLeft, Positions

LEMMA CallQueued ==
    ASSUME TypeOK, TasksInv, NEW v \in Views, caller[v] = "none",
           tasks' = Append(tasks, v), caller' = [caller EXCEPT ![v] = "spawned"],
           UNCHANGED hangup_done, \A h \in Hangup : bye[h] = "started" <=> bye'[h] = "started"
    PROVE  TasksInv'
  <1>1. /\ Len(tasks) \in Nat /\ Len(tasks') = Len(tasks) + 1
        /\ \A i \in Positions : tasks'[i] = tasks[i]
        /\ tasks'[Len(tasks) + 1] = v
    BY Created
  <1>2. \A i \in Positions' : i \in Positions \/ i = Len(tasks) + 1
    BY <1>1 DEF Positions
  <1>3. \A i \in Positions : i \in Positions' /\ i # Len(tasks) + 1
    BY <1>1 DEF Positions
  <1>4. \A i \in Positions : tasks[i] # v
    BY DEF TasksInv
  <1>5. v \notin Hangup /\ caller'[v] = "spawned"
    BY HangupFacts, CallerFacts DEF TypeOK
  <1>6. \A w \in Views : caller[w] = "spawned" => caller'[w] = "spawned"
    BY CallerFacts DEF TypeOK
  <1>7. \A i \in Positions' : /\ tasks'[i] \in Views => caller'[tasks'[i]] = "spawned"
                              /\ tasks'[i] \in Hangup => bye'[tasks'[i]] = "started"
    <2>1. SUFFICES ASSUME NEW i \in Positions'
                   PROVE  /\ tasks'[i] \in Views => caller'[tasks'[i]] = "spawned"
                          /\ tasks'[i] \in Hangup => bye'[tasks'[i]] = "started"
      OBVIOUS
    <2>2. CASE i = Len(tasks) + 1
      BY <1>1, <1>5, <2>2
    <2>3. CASE i \in Positions
      <3>1. tasks'[i] = tasks[i]
        BY <1>1, <2>3
      <3>2. /\ tasks[i] \in Views => caller[tasks[i]] = "spawned"
            /\ tasks[i] \in Hangup => bye[tasks[i]] = "started"
        BY <2>3 DEF TasksInv
      <3>. QED BY <3>1, <3>2, <1>6
    <2>. QED BY <1>2, <2>2, <2>3
  <1>8. ASSUME NEW i \in Positions', tasks'[i] \in Hangup
        PROVE  \E j \in Positions' : j >= i /\ tasks'[j] = hangup_done'
    <2>1. i \in Positions /\ tasks'[i] = tasks[i]
      BY <1>1, <1>2, <1>5, <1>8
    <2>2. PICK j \in Positions : j >= i /\ tasks[j] = hangup_done
      BY <1>8, <2>1 DEF TasksInv
    <2>. QED BY <1>1, <1>3, <2>2
  <1>9. \A i, j \in Positions' : tasks'[i] = tasks'[j] => i = j
    <2>1. \A i, j \in Positions : tasks[i] = tasks[j] => i = j
      BY DEF TasksInv
    <2>. QED BY <1>1, <1>2, <1>4, <2>1
  <1>10. \A h \in Hangup : bye'[h] = "started" => \E i \in Positions' : tasks'[i] = h
    <2>1. \A h \in Hangup : bye[h] = "started" => \E i \in Positions : tasks[i] = h
      BY DEF TasksInv
    <2>. QED BY <1>1, <1>3, <2>1
  <1>. QED BY <1>7, <1>8, <1>9, <1>10 DEF TasksInv

LEMMA HangupQueued ==
    ASSUME TypeOK, TasksInv, NEW h \in Hangup, bye[h] # "started", BeginHangingUp(h),
           UNCHANGED caller
    PROVE  TasksInv'
  <1>1. /\ Len(tasks) \in Nat /\ Len(tasks') = Len(tasks) + 1
        /\ \A i \in Positions : tasks'[i] = tasks[i]
        /\ tasks'[Len(tasks) + 1] = h
    BY Created DEF BeginHangingUp
  <1>2. \A i \in Positions' : i \in Positions \/ i = Len(tasks) + 1
    BY <1>1 DEF Positions
  <1>3. \A i \in Positions : i \in Positions' /\ i <= Len(tasks)
    BY <1>1 DEF Positions
  <1>4. Len(tasks) + 1 \in Positions'
    BY <1>1 DEF Positions
  <1>5. \A i \in Positions : tasks[i] # h
    BY DEF TasksInv
  <1>6. h \notin Views /\ hangup_done' = h /\ bye'[h] = "started"
    BY HangupFacts DEF TypeOK, BeginHangingUp
  <1>7. \A g \in Hangup : g # h => bye'[g] = bye[g]
    BY DEF TypeOK, BeginHangingUp
  <1>8. \A i \in Positions' : \E j \in Positions' : j >= i /\ tasks'[j] = hangup_done'
    <2>1. \A i \in Positions' : i <= Len(tasks) + 1
      BY <1>1 DEF Positions
    <2>. QED BY <1>1, <1>4, <1>6, <2>1
  <1>. QED BY <1>1, <1>2, <1>3, <1>4, <1>5, <1>6, <1>7, <1>8 DEF TasksInv

\* Whoever runs waits no longer, and nothing changes for the others.
LEMMA FirstRuns ==
    ASSUME TypeOK, TasksInv, NEW t \in Views \cup Hangup, Next_task(t), UNCHANGED hangup_done,
           \A v \in Views : v # t => caller'[v] = caller[v],
           \A h \in Hangup : h # t => bye'[h] = bye[h],
           t \in Hangup => bye'[t] # "started"
    PROVE  TasksInv'
  <1>1. /\ Len(tasks) \in Nat \ {0} /\ Len(tasks') = Len(tasks) - 1
        /\ \A i \in Positions' : tasks'[i] = tasks[i + 1]
        /\ tasks[1] = t
    BY Runs
  <1>2. \A i \in Positions' : i + 1 \in Positions /\ i + 1 # 1
    BY <1>1 DEF Positions
  <1>3. \A i \in Positions : i = 1 \/ (i - 1 \in Positions' /\ (i - 1) + 1 = i)
    BY <1>1 DEF Positions
  <1>4. 1 \in Positions
    BY <1>1 DEF Positions
  <1>5. \A i \in Positions' : tasks'[i] # t
    BY <1>1, <1>2, <1>4 DEF TasksInv
  <1>6. \A i, j \in Positions' : tasks'[i] = tasks'[j] => i = j
    <2>1. SUFFICES ASSUME NEW i \in Positions', NEW j \in Positions', tasks'[i] = tasks'[j]
                   PROVE  i = j
      OBVIOUS
    <2>2. i + 1 = j + 1
      BY <1>1, <1>2, <2>1 DEF TasksInv
    <2>. QED BY <2>2 DEF Positions
  <1>7. ASSUME NEW i \in Positions', tasks'[i] \in Hangup
        PROVE  \E j \in Positions' : j >= i /\ tasks'[j] = hangup_done'
    <2>1. PICK j \in Positions : j >= i + 1 /\ tasks[j] = hangup_done
      BY <1>1, <1>2, <1>7 DEF TasksInv
    <2>2. i \in Nat /\ i >= 1 /\ j \in Nat
      BY DEF Positions
    <2>3. j - 1 \in Positions' /\ j - 1 >= i /\ tasks'[j - 1] = tasks[j]
      BY <1>1, <1>3, <2>1, <2>2
    <2>. QED BY <2>1, <2>3
  <1>8. \A h \in Hangup : bye'[h] = "started" => \E i \in Positions' : tasks'[i] = h
    <2>1. SUFFICES ASSUME NEW h \in Hangup, bye'[h] = "started"
                   PROVE  \E i \in Positions' : tasks'[i] = h
      OBVIOUS
    <2>2. h # t /\ bye[h] = "started"
      BY <2>1
    <2>3. PICK i \in Positions : tasks[i] = h
      BY <2>2 DEF TasksInv
    <2>4. i - 1 \in Positions' /\ tasks'[i - 1] = h
      BY <1>1, <1>3, <2>2, <2>3
    <2>. QED BY <2>4
  <1>9. \A i \in Positions' : /\ tasks'[i] \in Views => caller'[tasks'[i]] = "spawned"
                              /\ tasks'[i] \in Hangup => bye'[tasks'[i]] = "started"
    BY <1>1, <1>2, <1>5 DEF TasksInv
  <1>. QED BY <1>6, <1>7, <1>8, <1>9 DEF TasksInv

-----------------------------------------------------------------------------
(* What the actions do to the hang-ups and to those who call.               *)

LEMMA OpeningCancels ==
    ASSUME TypeOK, NEW v \in Views, StreamOpened(v)
    PROVE  \A h \in Hangup : \/ bye'[h] = bye[h]
                             \/ bye[h] = "asked" /\ bye'[h] = "over" /\ h = hangup_task
  BY DEF TypeOK, StreamOpened, Cancelled

LEMMA LeavingAsks ==
    ASSUME TypeOK, UnaskedInv, NEW v \in Views, view[v] # "gone", Leaves(v)
    PROVE  \A h \in Hangup :
             \/ bye'[h] = bye[h]
             \/ /\ h \in {<<v, "left">>, <<v, "homekit">>} /\ viewers = {v}
                /\ bye[h] = "none" /\ bye'[h] = "asked"
                /\ hangup_task' = <<v, "left">> /\ viewers' = {}
  <1>1. \A h \in {<<v, "left">>, <<v, "homekit">>} : h \in Hangup => bye[h] = "none"
    BY HangupFacts DEF UnaskedInv
  <1>2. CASE viewers = {v} /\ EndsWithViewers
    BY <1>1, <1>2 DEF TypeOK, Leaves
  <1>3. CASE ~(viewers = {v} /\ EndsWithViewers)
    BY <1>3 DEF TypeOK, Leaves
  <1>. QED BY <1>2, <1>3

LEMMA ReturningAsks ==
    ASSUME TypeOK, UnaskedInv, NEW c \in Caller, CallReturns(c)
    PROVE  \A h \in Hangup :
             \/ bye'[h] = bye[h]
             \/ /\ c \in Views /\ h = <<c, "late">> /\ viewers = {}
                /\ bye[h] = "none" /\ bye'[h] = "asked"
                /\ hangup_task' = h /\ (hangup_task = None \/ bye[hangup_task] = "over")
  <1>1. CASE ComesLate(c)
    <2>1. c \in Views /\ caller[c] # "over"
      BY <1>1, CallerFacts DEF ComesLate, CallReturns
    <2>2. bye[<<c, "late">>] = "none"
      BY <2>1 DEF UnaskedInv
    <2>. QED BY <1>1, <2>1, <2>2 DEF TypeOK, CallReturns, ComesLate
  <1>2. CASE ~ComesLate(c)
    BY <1>2 DEF TypeOK, CallReturns
  <1>. QED BY <1>1, <1>2

LEMMA PlacingMoves ==
    ASSUME TypeOK, NEW c \in Caller, Places(c) \/ Dials(c)
    PROVE  /\ \A d \in Caller \ {c} : caller'[d] = caller[d] /\ tries'[d] = tries[d]
           /\ caller'[c] \in {"settling", "dialing", "over"}
           /\ caller'[c] = "settling" => tries'[c] = tries[c]
  BY DEF TypeOK, Places, Dials, GivesUp

LEMMA TasksKept ==
    ASSUME HubInv, [Next]_vars
    PROVE  TasksInv'
  <1>. USE DEF HubInv, viewVars, autoVars, guardVars, envVars
  <1>1. ASSUME NEW v \in Views, StreamOpened(v) PROVE TasksInv'
    <2>1. caller[v] = "none"
      BY <1>1 DEF StreamOpened, CallersInv
    <2>2. \A h \in Hangup : bye[h] = "started" <=> bye'[h] = "started"
      BY <1>1, OpeningCancels
    <2>3. hangup_done' = hangup_done
      BY <1>1 DEF StreamOpened
    <2>4. CASE UNCHANGED <<tasks, caller>>
      BY <2>2, <2>3, <2>4, TasksStay DEF TasksLeft
    <2>5. CASE tasks' = Append(tasks, v) /\ caller' = [caller EXCEPT ![v] = "spawned"]
      BY <2>1, <2>2, <2>3, <2>5, CallQueued
    <2>. QED BY <1>1, <2>4, <2>5 DEF StreamOpened, Accepted
  <1>2. ASSUME NEW v \in Views, GuardTimesOut(v) PROVE TasksInv'
    BY <1>2, TasksStay DEF GuardTimesOut, TasksLeft
  <1>3. ASSUME NEW v \in Views, GuardDrops(v) PROVE TasksInv'
    <2>1. caller[v] = "none"
      BY <1>3 DEF GuardDrops, CallersInv
    <2>2. UNCHANGED <<bye, hangup_done>>
      BY <1>3 DEF GuardDrops
    <2>3. CASE UNCHANGED <<tasks, caller>>
      BY <2>2, <2>3, TasksStay DEF TasksLeft
    <2>4. CASE tasks' = Append(tasks, v) /\ caller' = [caller EXCEPT ![v] = "spawned"]
      BY <2>1, <2>2, <2>4, CallQueued
    <2>. QED BY <1>3, <2>3, <2>4 DEF GuardDrops, Accepted
  <1>4. ASSUME NEW v \in Views, StreamClosed(v) \/ StreamRefused(v) PROVE TasksInv'
    <2>1. view[v] # "gone" /\ Leaves(v)
      BY <1>4 DEF StreamClosed, StreamRefused
    <2>2. \A h \in Hangup : bye[h] = "started" <=> bye'[h] = "started"
      BY <2>1, LeavingAsks
    <2>3. UNCHANGED <<tasks, caller, hangup_done>>
      BY <2>1 DEF Leaves
    <2>. QED BY <2>2, <2>3, TasksStay DEF TasksLeft
  <1>5. ASSUME NEW v \in Views, AutoCalls(v) PROVE TasksInv'
    <2>1. \A w \in Views : w # v => caller'[w] = caller[w]
      BY <1>5, PlacingMoves, CallerFacts DEF AutoCalls
    <2>2. UNCHANGED <<bye, hangup_done>> /\ Next_task(v) /\ v \notin Hangup
      BY <1>5, HangupFacts DEF AutoCalls
    <2>. QED BY <2>1, <2>2, FirstRuns
  <1>6. ASSUME NEW c \in Caller, CallSettled(c) PROVE TasksInv'
    <2>1. \A d \in Caller : caller[d] = "spawned" => caller'[d] = "spawned"
      <3>1. CASE Dials(c)
        BY <1>6, <3>1, PlacingMoves DEF CallSettled
      <3>2. CASE GivesUp(c)
        BY <1>6, <3>2 DEF TypeOK, CallSettled, GivesUp
      <3>. QED BY <1>6, <3>1, <3>2 DEF CallSettled
    <2>. QED BY <1>6, <2>1, CallerFacts, TasksStay DEF CallSettled, TasksLeft
  <1>7. ASSUME NEW c \in Caller, CallConnects(c) \/ CallUnanswered(c) \/ CallFails(c)
        PROVE  TasksInv'
    <2>1. \A d \in Caller : caller[d] = "spawned" => caller'[d] = "spawned"
      BY <1>7 DEF TypeOK, CallConnects, CallUnanswered, CallFails, Holds, GivesUp
    <2>2. UNCHANGED <<tasks, hangup_done, bye>>
      BY <1>7 DEF CallConnects, CallUnanswered, CallFails
    <2>. QED BY <2>1, <2>2, CallerFacts, TasksStay DEF TasksLeft
  <1>8. ASSUME NEW c \in Caller, CallReturns(c) PROVE TasksInv'
    <2>1. \A d \in Caller : caller[d] = "spawned" => caller'[d] = "spawned"
      BY <1>8 DEF TypeOK, CallReturns, GivesUp
    <2>2. \A h \in Hangup : bye[h] = "started" <=> bye'[h] = "started"
      BY <1>8, ReturningAsks
    <2>3. UNCHANGED <<tasks, hangup_done>>
      BY <1>8 DEF CallReturns
    <2>. QED BY <2>1, <2>2, <2>3, CallerFacts, TasksStay DEF TasksLeft
  <1>9. ASSUME NEW h \in Hangup, DelayedHangup(h) PROVE TasksInv'
    <2>1. bye[h] = "asked" /\ UNCHANGED caller
      BY <1>9 DEF DelayedHangup
    <2>2. CASE BeginHangingUp(h)
      BY <2>1, <2>2, HangupQueued
    <2>3. CASE bye' = [bye EXCEPT ![h] = "over"] /\ UNCHANGED <<hangup_done, tasks>>
      BY <2>1, <2>3, TasksStay DEF TypeOK, TasksLeft
    <2>. QED BY <1>9, <2>2, <2>3 DEF DelayedHangup
  <1>10. ASSUME NEW h \in Hangup, AskedHangup(h) PROVE TasksInv'
    BY <1>10, HangupQueued DEF AskedHangup
  <1>11. ASSUME NEW h \in Hangup, ByeLeaves(h) PROVE TasksInv'
    <2>1. bye'[h] # "started" /\ \A g \in Hangup : g # h => bye'[g] = bye[g]
      BY <1>11 DEF TypeOK, ByeLeaves
    <2>2. UNCHANGED <<caller, hangup_done>> /\ Next_task(h)
      BY <1>11 DEF ByeLeaves
    <2>. QED BY <2>1, <2>2, FirstRuns
  <1>12. ASSUME NEW h \in Hangup, ByeTold(h) \/ ByeFinished(h) PROVE TasksInv'
    <2>1. \A g \in Hangup : bye[g] = "started" <=> bye'[g] = "started"
      BY <1>12 DEF TypeOK, ByeTold, ByeFinished
    <2>2. UNCHANGED <<tasks, caller, hangup_done>>
      BY <1>12 DEF ByeTold, ByeFinished
    <2>. QED BY <2>1, <2>2, TasksStay DEF TasksLeft
  <1>13. CASE UserCalls
    <2>1. \A v \in Views : caller'[v] = caller[v]
      BY <1>13, PlacingMoves, CallerFacts, ViewAssumption DEF UserCalls
    <2>. QED BY <1>13, <2>1, TasksStay DEF UserCalls, TasksLeft
  <1>14. CASE \/ LocalSettle \/ ClaimCall \/ PanelByes \/ PanelByeTold
              \/ PanelSettled \/ CooldownOver \/ UNCHANGED vars
    <2>1. UNCHANGED <<tasks, caller, bye, hangup_done>>
      BY <1>14 DEF LocalSettle, ClaimCall, PanelByes, PanelByeTold, PanelSettled, CooldownOver, vars
    <2>. QED BY <2>1, TasksStay DEF TasksLeft
  <1>. QED BY <1>1, <1>2, <1>3, <1>4, <1>5, <1>6, <1>7, <1>8, <1>9, <1>10, <1>11, <1>12, <1>13,
              <1>14 DEF Next

-----------------------------------------------------------------------------
(* Those who call, and what nobody has asked for yet.                       *)

\* No view is open that was not, and each one that calls has an INVITE left.
CallersMove(c) ==
    /\ \A d \in Caller \ {c} : caller'[d] = caller[d] /\ tries'[d] = tries[d]
    /\ caller'[c] \in {"none", "spawned", "settling"} => tries'[c] < MaxTries
    /\ \A v \in Views : view'[v] \in {"unopened", "guarded", "woken"} =>
          v # c /\ view[v] \in {"unopened", "guarded", "woken"}

LEMMA CallersStay ==
    ASSUME CallersInv, NEW c \in Caller, CallersMove(c)
    PROVE  CallersInv'
  BY CallerFacts DEF CallersInv, CallersMove

LEMMA CallersSame ==
    ASSUME CallersInv, UNCHANGED <<caller, tries>>,
           \A v \in Views : view'[v] \in {"unopened", "guarded", "woken"} =>
              view[v] \in {"unopened", "guarded", "woken"}
    PROVE  CallersInv'
  BY CallerFacts DEF CallersInv

LEMMA CallersKept ==
    ASSUME HubInv, [Next]_vars
    PROVE  CallersInv'
  <1>. USE DEF HubInv, viewVars, autoVars, guardVars, envVars
  <1>1. ASSUME NEW v \in Views, StreamOpened(v) \/ GuardDrops(v) PROVE CallersInv'
    <2>1. caller[v] = "none" /\ v \in Caller /\ tries[v] < MaxTries
      BY <1>1, CallerFacts DEF StreamOpened, GuardDrops, CallersInv
    <2>2. UNCHANGED tries
      BY <1>1 DEF StreamOpened, GuardDrops
    <2>3. CASE view' = [view EXCEPT ![v] = "waiting"]
      <3>1. \/ caller' = caller
            \/ caller' = [caller EXCEPT ![v] = "spawned"]
        BY <1>1 DEF StreamOpened, GuardDrops, Accepted
      <3>. QED BY <2>1, <2>2, <2>3, <3>1, CallersStay DEF TypeOK, CallersMove
    <2>4. CASE UNCHANGED caller /\ (view' = [view EXCEPT ![v] = "guarded"] \/ view' = [view EXCEPT ![v] = "gone"])
      <3>1. view[v] = "unopened" \/ view' = [view EXCEPT ![v] = "gone"]
        BY <1>1, <2>4 DEF TypeOK, StreamOpened, GuardDrops, Accepted
      <3>. QED BY <2>2, <2>4, <3>1, CallersSame DEF TypeOK
    <2>. QED BY <1>1, <2>3, <2>4 DEF StreamOpened, GuardDrops, Accepted
  <1>2. ASSUME NEW v \in Views, GuardTimesOut(v) PROVE CallersInv'
    BY <1>2, CallersSame DEF TypeOK, GuardTimesOut
  <1>3. ASSUME NEW v \in Views, StreamClosed(v) \/ StreamRefused(v) PROVE CallersInv'
    BY <1>3, CallersSame DEF TypeOK, StreamClosed, StreamRefused, Leaves
  <1>4. ASSUME NEW v \in Views, AutoCalls(v) PROVE CallersInv'
    <2>1. caller[v] = "spawned" /\ v \in Caller
      BY <1>4, Runs, CallerFacts DEF TasksInv, Positions, AutoCalls
    <2>2. tries[v] < MaxTries /\ view[v] \notin {"unopened", "guarded", "woken"}
      BY <2>1 DEF CallersInv
    <2>3. UNCHANGED view /\ Places(v)
      BY <1>4 DEF AutoCalls
    <2>. QED BY <2>1, <2>2, <2>3, PlacingMoves, CallersStay DEF CallersMove
  <1>5. ASSUME NEW c \in Caller, CallSettled(c) PROVE CallersInv'
    <2>1. tries[c] < MaxTries /\ (c \in Views => view[c] \notin {"unopened", "guarded", "woken"})
      BY <1>5 DEF CallSettled, CallersInv
    <2>2. UNCHANGED view
      BY <1>5 DEF CallSettled
    <2>3. CASE Dials(c)
      BY <2>1, <2>2, <2>3, PlacingMoves, CallersStay DEF CallersMove
    <2>4. CASE GivesUp(c) /\ UNCHANGED tries
      BY <2>1, <2>2, <2>4, CallersStay DEF TypeOK, CallersMove, GivesUp
    <2>. QED BY <1>5, <2>3, <2>4 DEF CallSettled
  <1>6. ASSUME NEW c \in Caller, CallConnects(c) \/ CallUnanswered(c) \/ CallFails(c) \/ CallReturns(c)
        PROVE  CallersInv'
    <2>1. c \in Views => view[c] \notin {"unopened", "guarded", "woken"}
      BY <1>6 DEF CallConnects, CallUnanswered, CallFails, CallReturns, Holds, CallersInv
    <2>2. UNCHANGED <<view, tries>>
      BY <1>6 DEF CallConnects, CallUnanswered, CallFails, CallReturns
    <2>3. /\ \A d \in Caller \ {c} : caller'[d] = caller[d]
          /\ \/ caller'[c] \in {"connected", "over"}
             \/ caller'[c] = "settling" /\ tries[c] < MaxTries
      BY <1>6 DEF TypeOK, CallConnects, CallUnanswered, CallFails, CallReturns, GivesUp, BudgetLeft
    <2>. QED BY <2>1, <2>2, <2>3, CallersStay DEF CallersMove
  <1>7. ASSUME NEW h \in Hangup, DelayedHangup(h) \/ AskedHangup(h) \/ ByeLeaves(h) \/ ByeTold(h)
        PROVE  CallersInv'
    BY <1>7, CallersSame DEF DelayedHangup, AskedHangup, ByeLeaves, ByeTold
  <1>8. ASSUME NEW h \in Hangup, ByeFinished(h) PROVE CallersInv'
    BY <1>8, CallersSame DEF TypeOK, ByeFinished, EndHangingUp
  <1>9. CASE LocalSettle
    BY <1>9, CallersSame DEF TypeOK, LocalSettle, EndHangingUp
  <1>10. CASE UserCalls
    <2>1. tries[User] < MaxTries /\ User \in Caller /\ User \notin Views
      BY <1>10, CallerFacts, ViewAssumption DEF UserCalls, CallersInv
    <2>. QED BY <1>10, <2>1, PlacingMoves, CallersStay DEF UserCalls, CallersMove
  <1>11. CASE ClaimCall \/ PanelByes \/ PanelByeTold \/ PanelSettled \/ CooldownOver \/ UNCHANGED vars
    BY <1>11, CallersSame DEF ClaimCall, PanelByes, PanelByeTold, PanelSettled, CooldownOver, vars
  <1>. QED BY <1>1, <1>2, <1>3, <1>4, <1>5, <1>6, <1>7, <1>8, <1>9, <1>10, <1>11 DEF Next

\* The hang-ups of what is over, and the user's.
MayBeAsked(h) ==
    \/ \E v \in Views : view[v] = "gone" /\ h \in {<<v, "left">>, <<v, "homekit">>}
    \/ \E v \in Views : caller[v] = "over" /\ h = <<v, "late">>
    \/ h \in Asked /\ h[1] = User

\* A view does not come back, nor a call; nobody but them asks for their hang-ups.
LEMMA UnaskedStay ==
    ASSUME UnaskedInv, HomeKit \subseteq Views,
           \A v \in Views : view'[v] # "gone" => view[v] # "gone",
           \A v \in Views : caller'[v] # "over" => caller[v] # "over",
           \A h \in Hangup : bye[h] = "none" => bye'[h] = "none" \/ MayBeAsked(h)'
    PROVE  UnaskedInv'
  <1>1. \A v \in Views : caller'[v] # "over" => bye'[<<v, "late">>] = "none"
    BY HangupFacts DEF UnaskedInv, MayBeAsked
  <1>2. \A v \in Views : view'[v] # "gone" => bye'[<<v, "left">>] = "none"
    BY HangupFacts DEF UnaskedInv, MayBeAsked
  <1>3. \A v \in HomeKit : view'[v] # "gone" => bye'[<<v, "homekit">>] = "none"
    <2>1. SUFFICES ASSUME NEW v \in HomeKit, view'[v] # "gone" PROVE bye'[<<v, "homekit">>] = "none"
      OBVIOUS
    <2>2. v \in Views /\ <<v, "homekit">> \in Asked /\ bye[<<v, "homekit">>] = "none"
      BY <2>1, HangupFacts DEF UnaskedInv
    <2>3. <<v, "homekit">>[1] # User
      BY <2>2, ViewAssumption
    <2>4. \A w \in Views : <<v, "homekit">> # <<w, "left">> /\ <<v, "homekit">> # <<w, "late">>
      OBVIOUS
    <2>5. \A w \in Views : <<v, "homekit">> = <<w, "homekit">> => w = v
      OBVIOUS
    <2>. QED BY <2>1, <2>2, <2>3, <2>4, <2>5, HangupFacts DEF MayBeAsked
  <1>. QED BY <1>1, <1>2, <1>3 DEF UnaskedInv

LEMMA UnaskedKept ==
    ASSUME HubInv, [Next]_vars
    PROVE  UnaskedInv'
  <1>. USE DEF HubInv, viewVars, autoVars, guardVars, envVars
  <1>1. HomeKit \subseteq Views
    BY ViewAssumption
  <1>2. ASSUME NEW v \in Views, StreamOpened(v) PROVE UnaskedInv'
    <2>1. \A h \in Hangup : bye[h] = "none" => bye'[h] = "none"
      BY <1>2, OpeningCancels
    <2>2. \A w \in Views : view'[w] # "gone" => view[w] # "gone"
      BY <1>2 DEF TypeOK, StreamOpened, Accepted
    <2>3. \A w \in Views : caller'[w] # "over" => caller[w] # "over"
      <3>1. caller[v] # "over"
        BY <1>2 DEF StreamOpened, CallersInv
      <3>. QED BY <1>2, <3>1, CallerFacts DEF TypeOK, StreamOpened, Accepted
    <2>. QED BY <1>1, <2>1, <2>2, <2>3, UnaskedStay
  <1>3. ASSUME NEW v \in Views, GuardDrops(v) PROVE UnaskedInv'
    <2>1. UNCHANGED bye /\ caller[v] # "over" /\ view[v] # "gone"
      BY <1>3 DEF GuardDrops, CallersInv
    <2>2. \A w \in Views : view'[w] # "gone" => view[w] # "gone"
      BY <1>3, <2>1 DEF TypeOK, GuardDrops, Accepted
    <2>3. \A w \in Views : caller'[w] # "over" => caller[w] # "over"
      BY <1>3, <2>1, CallerFacts DEF TypeOK, GuardDrops, Accepted
    <2>. QED BY <1>1, <2>1, <2>2, <2>3, UnaskedStay
  <1>4. ASSUME NEW v \in Views, GuardTimesOut(v) PROVE UnaskedInv'
    <2>1. \A w \in Views : view'[w] # "gone" => view[w] # "gone"
      BY <1>4 DEF TypeOK, GuardTimesOut
    <2>. QED BY <1>1, <1>4, <2>1, UnaskedStay DEF GuardTimesOut
  <1>5. ASSUME NEW v \in Views, StreamClosed(v) \/ StreamRefused(v) PROVE UnaskedInv'
    <2>1. view[v] # "gone" /\ Leaves(v)
      BY <1>5 DEF StreamClosed, StreamRefused
    <2>2. view'[v] = "gone" /\ UNCHANGED caller /\ \A w \in Views : view'[w] # "gone" => view[w] # "gone"
      BY <2>1 DEF TypeOK, Leaves
    <2>3. \A h \in Hangup : bye[h] = "none" =>
             bye'[h] = "none" \/ h = <<v, "left">> \/ h = <<v, "homekit">>
      BY <2>1, LeavingAsks
    <2>4. \A h \in Hangup : bye[h] = "none" => bye'[h] = "none" \/ MayBeAsked(h)'
      BY <2>2, <2>3 DEF MayBeAsked
    <2>. QED BY <1>1, <2>2, <2>4, UnaskedStay
  <1>6. ASSUME NEW v \in Views, AutoCalls(v) PROVE UnaskedInv'
    <2>1. caller[v] = "spawned" /\ v \in Caller
      BY <1>6, Runs, CallerFacts DEF TasksInv, Positions, AutoCalls
    <2>2. \A w \in Views : caller'[w] # "over" => caller[w] # "over"
      BY <1>6, <2>1, PlacingMoves, CallerFacts DEF AutoCalls
    <2>. QED BY <1>1, <1>6, <2>2, UnaskedStay DEF AutoCalls
  <1>7. ASSUME NEW c \in Caller, CallSettled(c) PROVE UnaskedInv'
    <2>1. \A d \in Caller : caller'[d] # "over" => caller[d] # "over"
      <3>1. CASE Dials(c)
        BY <1>7, <3>1, PlacingMoves DEF CallSettled
      <3>2. CASE GivesUp(c)
        BY <1>7, <3>2 DEF TypeOK, GivesUp
      <3>. QED BY <1>7, <3>1, <3>2 DEF CallSettled
    <2>. QED BY <1>1, <1>7, <2>1, CallerFacts, UnaskedStay DEF CallSettled
  <1>8. ASSUME NEW c \in Caller, CallConnects(c) \/ CallUnanswered(c) \/ CallFails(c)
        PROVE  UnaskedInv'
    <2>1. \A d \in Caller : caller'[d] # "over" => caller[d] # "over"
      BY <1>8 DEF TypeOK, CallConnects, CallUnanswered, CallFails, Holds, GivesUp
    <2>2. UNCHANGED <<view, bye>>
      BY <1>8 DEF CallConnects, CallUnanswered, CallFails
    <2>. QED BY <1>1, <2>1, <2>2, CallerFacts, UnaskedStay
  <1>9. ASSUME NEW c \in Caller, CallReturns(c) PROVE UnaskedInv'
    <2>1. caller'[c] = "over" /\ \A d \in Caller : caller'[d] # "over" => caller[d] # "over"
      BY <1>9 DEF TypeOK, CallReturns, GivesUp
    <2>2. \A h \in Hangup : bye[h] = "none" => bye'[h] = "none" \/ (c \in Views /\ h = <<c, "late">>)
      BY <1>9, ReturningAsks
    <2>3. UNCHANGED view
      BY <1>9 DEF CallReturns
    <2>4. \A h \in Hangup : bye[h] = "none" => bye'[h] = "none" \/ MayBeAsked(h)'
      BY <2>1, <2>2 DEF MayBeAsked
    <2>5. \A v \in Views : caller'[v] # "over" => caller[v] # "over"
      BY <2>1, CallerFacts
    <2>. QED BY <1>1, <2>3, <2>4, <2>5, UnaskedStay
  <1>10. ASSUME NEW h \in Hangup, AskedHangup(h) PROVE UnaskedInv'
    <2>1. UNCHANGED <<view, caller>>
      BY <1>10 DEF AskedHangup
    <2>2. bye[h] = "none" => h \in Asked /\ h[1] = User
      BY <1>10 DEF AskedHangup
    <2>3. \A g \in Hangup : g # h => bye'[g] = bye[g]
      BY <1>10 DEF TypeOK, AskedHangup, BeginHangingUp
    <2>4. \A g \in Hangup : bye[g] = "none" => bye'[g] = "none" \/ MayBeAsked(g)'
      BY <2>2, <2>3 DEF MayBeAsked
    <2>. QED BY <1>1, <2>1, <2>4, UnaskedStay
  <1>11. ASSUME NEW h \in Hangup, DelayedHangup(h) \/ ByeLeaves(h) \/ ByeTold(h) PROVE UnaskedInv'
    <2>1. UNCHANGED <<view, caller>>
      BY <1>11 DEF DelayedHangup, ByeLeaves, ByeTold
    <2>2. bye[h] # "none"
      <3>1. CASE ByeLeaves(h)
        <4>1. Len(tasks) \in Nat \ {0} /\ tasks[1] = h
          BY <3>1, Runs DEF ByeLeaves
        <4>2. 1 \in Positions
          BY <4>1 DEF Positions
        <4>3. bye[h] = "started"
          BY <4>1, <4>2 DEF TasksInv
        <4>. QED BY <4>3
      <3>. QED BY <1>11, <3>1 DEF DelayedHangup, ByeTold
    <2>3. \A g \in Hangup : g # h => bye'[g] = bye[g]
      BY <1>11 DEF TypeOK, DelayedHangup, BeginHangingUp, ByeLeaves, ByeTold
    <2>. QED BY <1>1, <2>1, <2>2, <2>3, UnaskedStay
  <1>12. ASSUME NEW h \in Hangup, ByeFinished(h) PROVE UnaskedInv'
    <2>1. \A g \in Hangup : bye[g] = "none" => bye'[g] = "none"
      BY <1>12 DEF TypeOK, ByeFinished
    <2>2. \A w \in Views : view'[w] # "gone" => view[w] # "gone"
      BY <1>12 DEF TypeOK, ByeFinished, EndHangingUp
    <2>3. UNCHANGED caller
      BY <1>12 DEF ByeFinished
    <2>. QED BY <1>1, <2>1, <2>2, <2>3, UnaskedStay
  <1>13. CASE LocalSettle
    <2>1. \A w \in Views : view'[w] # "gone" => view[w] # "gone"
      BY <1>13 DEF TypeOK, LocalSettle, EndHangingUp
    <2>. QED BY <1>1, <1>13, <2>1, UnaskedStay DEF LocalSettle
  <1>14. CASE UserCalls
    <2>1. \A v \in Views : caller'[v] = caller[v]
      BY <1>14, PlacingMoves, CallerFacts, ViewAssumption DEF UserCalls
    <2>. QED BY <1>1, <1>14, <2>1, UnaskedStay DEF UserCalls
  <1>15. CASE ClaimCall \/ PanelByes \/ PanelByeTold \/ PanelSettled \/ CooldownOver \/ UNCHANGED vars
    <2>1. UNCHANGED <<view, caller, bye>>
      BY <1>15 DEF ClaimCall, PanelByes, PanelByeTold, PanelSettled, CooldownOver, vars
    <2>. QED BY <1>1, <2>1, UnaskedStay
  <1>. QED BY <1>2, <1>3, <1>4, <1>5, <1>6, <1>7, <1>8, <1>9, <1>10, <1>11, <1>12, <1>13, <1>14,
              <1>15 DEF Next

-----------------------------------------------------------------------------
(* The guard, and the delayed hang-up.                                      *)

\* Nobody takes the guard down, starts to hang up or waits who did not.
GuardLeft ==
    /\ UNCHANGED <<udp, hanging_up, hangup_done>>
    /\ settle' => ~udp /\ hanging_up
    /\ \A h \in Hangup : bye'[h] \in {"started", "media", "no dialog", "answer"} <=>
                         bye[h] \in {"started", "media", "no dialog", "answer"}
    /\ \A h \in Hangup : bye'[h] = "started" => bye[h] = "started"
    /\ \A v \in Views : view'[v] \in {"guarded", "woken"} =>
          /\ view[v] \in {"guarded", "woken"} /\ waits_for'[v] = waits_for[v]
          /\ view'[v] = "guarded" => view[v] = "guarded"

LEMMA GuardStays ==
    ASSUME GuardInv, GuardLeft
    PROVE  GuardInv'
  <1>1. \A h \in Hangup : h \in Running <=> h \in Running'
    BY DEF GuardLeft, Running
  <1>2. Running \subseteq Hangup /\ Running' \subseteq Hangup
    BY DEF Running
  <1>3. GuardEnds'
    BY <1>1, <1>2 DEF GuardInv, GuardEnds, GuardLeft
  <1>. QED BY <1>1, <1>2, <1>3 DEF GuardInv, GuardLeft

LEMMA GuardRises ==
    ASSUME TypeOK, GuardInv, NEW h \in Hangup, BeginHangingUp(h), UNCHANGED <<udp, view, waits_for>>
    PROVE  GuardInv'
  <1>1. bye'[h] = "started" /\ hanging_up' = TRUE /\ hangup_done' = h /\ settle' = FALSE
    BY DEF TypeOK, BeginHangingUp
  <1>2. \A g \in Hangup : g # h => bye'[g] = bye[g]
    BY DEF TypeOK, BeginHangingUp
  <1>3. GuardEnds'
    BY <1>1, <1>2 DEF GuardInv, GuardEnds, Running
  <1>. QED BY <1>1, <1>3 DEF GuardInv

\* With the tasks in order, an earlier hang-up than the one that ends has run.
LEMMA GuardFalls ==
    ASSUME TypeOK, TasksInv, GuardInv, NEW h \in Hangup, EndHangingUp(h), bye[h] # "started",
           UNCHANGED <<udp, waits_for, hangup_done>>, \A g \in Hangup : g # h => bye'[g] = bye[g],
           bye'[h] = "over" \/ (bye'[h] = bye[h] /\ ~udp)
    PROVE  GuardInv'
  <1>1. /\ hanging_up' <=> hanging_up /\ h # hangup_done
        /\ settle' <=> settle /\ h # hangup_done
    BY DEF TypeOK, EndHangingUp, Current
  <1>2. \A v \in Views : view'[v] \in {"guarded", "woken"} =>
          /\ view[v] \in {"guarded", "woken"}
          /\ view'[v] = "guarded" => view[v] = "guarded" /\ waits_for[v] # h
    BY DEF TypeOK, EndHangingUp
  <1>3. \A g \in Running : g # h => g \in Running'
    BY DEF Running
  <1>4. \A g \in Hangup : g \in Running' => g \in Running
    BY DEF Running
  <1>5. GuardEnds'
    BY <1>1, <1>2, <1>3 DEF GuardInv, GuardEnds
  <1>6. ASSUME NEW g \in Hangup, bye'[g] = "started" PROVE hanging_up'
    <2>1. g # h /\ bye[g] = "started"
      BY <1>6
    <2>2. PICK i \in Positions : tasks[i] = g
      BY <2>1 DEF TasksInv
    <2>3. PICK j \in Positions : tasks[j] = hangup_done
      BY <2>2 DEF TasksInv
    <2>4. hanging_up
      BY <2>1 DEF GuardInv
    <2>5. hangup_done \in Hangup
      BY <2>4 DEF GuardInv, GuardEnds, Running
    <2>6. bye[hangup_done] = "started"
      BY <2>3, <2>5 DEF TasksInv
    <2>. QED BY <1>1, <2>4, <2>6
  <1>7. udp /\ ~hanging_up' => hangup_done \notin Running'
    <2>1. CASE h = hangup_done
      BY <2>1 DEF Running
    <2>2. CASE h # hangup_done
      BY <1>1, <1>4, <2>2 DEF GuardInv, Running
    <2>. QED BY <2>1, <2>2
  <1>8. \A v \in Views : view'[v] \in {"guarded", "woken"} => waits_for'[v] # None
    BY <1>2 DEF GuardInv
  <1>. QED BY <1>1, <1>5, <1>6, <1>7, <1>8 DEF GuardInv

LEMMA GuardKept ==
    ASSUME HubInv, [Next]_vars
    PROVE  GuardInv'
  <1>. USE DEF HubInv, viewVars, autoVars, guardVars, envVars
  <1>1. ASSUME NEW v \in Views, StreamOpened(v) PROVE GuardInv'
    <2>1. UNCHANGED <<udp, hanging_up, hangup_done, settle>>
      BY <1>1 DEF StreamOpened
    <2>2. \A h \in Hangup : bye'[h] = bye[h] \/ (bye[h] = "asked" /\ bye'[h] = "over")
      BY <1>1, OpeningCancels
    <2>3. CASE hanging_up /\ view' = [view EXCEPT ![v] = "guarded"]
               /\ waits_for' = [waits_for EXCEPT ![v] = hangup_done]
      <3>1. hangup_done \in Running /\ hangup_done # None
        BY <2>3, HangupFacts DEF GuardInv, GuardEnds, Running
      <3>2. \A h \in Hangup : h \in Running <=> h \in Running'
        BY <2>2 DEF Running
      <3>3. Running \subseteq Hangup
        BY DEF Running
      <3>4. \A w \in Views : w # v => view'[w] = view[w] /\ waits_for'[w] = waits_for[w]
        BY <2>3 DEF TypeOK
      <3>5. view'[v] = "guarded" /\ waits_for'[v] = hangup_done
        BY <2>3 DEF TypeOK
      <3>6. GuardEnds'
        BY <2>1, <3>1, <3>2, <3>3, <3>4, <3>5 DEF GuardInv, GuardEnds
      <3>7. \A w \in Views : view'[w] \in {"guarded", "woken"} => waits_for'[w] # None
        BY <3>1, <3>4, <3>5 DEF GuardInv
      <3>. QED BY <2>1, <2>2, <2>3, <3>6, <3>7 DEF GuardInv
    <2>4. CASE UNCHANGED waits_for /\ (view' = [view EXCEPT ![v] = "waiting"] \/ view' = [view EXCEPT ![v] = "gone"])
      <3>1. \A w \in Views : view'[w] \in {"guarded", "woken"} => view'[w] = view[w]
        BY <2>4 DEF TypeOK
      <3>. QED BY <2>1, <2>2, <2>4, <3>1, GuardStays DEF GuardInv, GuardLeft
    <2>. QED BY <1>1, <2>3, <2>4 DEF StreamOpened, Accepted
  <1>2. ASSUME NEW v \in Views, GuardTimesOut(v) PROVE GuardInv'
    <2>1. \A w \in Views : view'[w] \in {"guarded", "woken"} =>
             view[w] \in {"guarded", "woken"} /\ (view'[w] = "guarded" => view[w] = "guarded")
      BY <1>2 DEF TypeOK, GuardTimesOut
    <2>. QED BY <1>2, <2>1, GuardStays DEF GuardTimesOut, GuardInv, GuardLeft
  <1>3. ASSUME NEW v \in Views, GuardDrops(v) PROVE GuardInv'
    <2>1. \A w \in Views : view'[w] \in {"guarded", "woken"} =>
             view'[w] = view[w] /\ waits_for'[w] = waits_for[w]
      BY <1>3 DEF TypeOK, GuardDrops, Accepted
    <2>2. UNCHANGED <<udp, hanging_up, hangup_done, settle, bye>>
      BY <1>3 DEF GuardDrops
    <2>. QED BY <2>1, <2>2, GuardStays DEF GuardInv, GuardLeft
  <1>4. ASSUME NEW v \in Views, StreamClosed(v) \/ StreamRefused(v) PROVE GuardInv'
    <2>1. view[v] # "gone" /\ Leaves(v)
      BY <1>4 DEF StreamClosed, StreamRefused
    <2>2. \A h \in Hangup : bye'[h] = bye[h] \/ (bye[h] = "none" /\ bye'[h] = "asked")
      BY <2>1, LeavingAsks
    <2>3. \A w \in Views : view'[w] \in {"guarded", "woken"} =>
             view'[w] = view[w] /\ waits_for'[w] = waits_for[w]
      BY <2>1 DEF TypeOK, Leaves
    <2>4. UNCHANGED <<udp, hanging_up, hangup_done, settle>>
      BY <2>1 DEF Leaves
    <2>. QED BY <2>2, <2>3, <2>4, GuardStays DEF GuardInv, GuardLeft
  <1>5. ASSUME NEW v \in Views, AutoCalls(v) PROVE GuardInv'
    BY <1>5, GuardStays DEF AutoCalls, GuardInv, GuardLeft
  <1>6. ASSUME NEW c \in Caller, CallSettled(c) \/ CallConnects(c) PROVE GuardInv'
    <2>1. UNCHANGED <<udp, hanging_up, hangup_done, settle, bye, view, waits_for>>
      BY <1>6 DEF CallSettled, CallConnects
    <2>. QED BY <2>1, GuardStays DEF GuardInv, GuardLeft
  <1>7. ASSUME NEW c \in Caller, CallUnanswered(c) \/ CallFails(c) PROVE GuardInv'
    <2>1. UNCHANGED <<udp, hanging_up, hangup_done, bye, view, waits_for>>
      BY <1>7 DEF CallUnanswered, CallFails
    <2>2. settle' => ~udp /\ hanging_up
      BY <1>7 DEF CallUnanswered, CallFails, StateChange, GuardInv
    <2>. QED BY <2>1, <2>2, GuardStays DEF GuardLeft
  <1>8. ASSUME NEW c \in Caller, CallReturns(c) PROVE GuardInv'
    <2>1. UNCHANGED <<udp, hanging_up, hangup_done, view, waits_for>>
      BY <1>8 DEF CallReturns
    <2>2. settle' => ~udp /\ hanging_up
      BY <1>8 DEF CallReturns, StateChange, GuardInv
    <2>3. \A h \in Hangup : bye'[h] = bye[h] \/ (bye[h] = "none" /\ bye'[h] = "asked")
      BY <1>8, ReturningAsks
    <2>. QED BY <2>1, <2>2, <2>3, GuardStays DEF GuardLeft
  <1>9. ASSUME NEW h \in Hangup, DelayedHangup(h) PROVE GuardInv'
    <2>1. bye[h] = "asked" /\ UNCHANGED <<udp, view, waits_for>>
      BY <1>9 DEF DelayedHangup
    <2>2. CASE BeginHangingUp(h)
      BY <2>1, <2>2, GuardRises
    <2>3. CASE bye' = [bye EXCEPT ![h] = "over"] /\ UNCHANGED <<hanging_up, hangup_done, settle>>
      <3>1. \A g \in Hangup : bye'[g] = bye[g] \/ (bye[g] = "asked" /\ bye'[g] = "over")
        BY <2>1, <2>3 DEF TypeOK
      <3>. QED BY <2>1, <2>3, <3>1, GuardStays DEF GuardInv, GuardLeft
    <2>. QED BY <1>9, <2>2, <2>3 DEF DelayedHangup
  <1>10. ASSUME NEW h \in Hangup, AskedHangup(h) PROVE GuardInv'
    BY <1>10, GuardRises DEF AskedHangup
  <1>11. ASSUME NEW h \in Hangup, ByeLeaves(h) PROVE GuardInv'
    <2>1. bye[h] = "started"
      <3>1. Len(tasks) \in Nat \ {0} /\ tasks[1] = h
        BY <1>11, Runs DEF ByeLeaves
      <3>2. 1 \in Positions
        BY <3>1 DEF Positions
      <3>. QED BY <3>1, <3>2 DEF TasksInv
    <2>2. bye'[h] \in {"media", "no dialog"} /\ \A g \in Hangup : g # h => bye'[g] = bye[g]
      BY <1>11 DEF TypeOK, ByeLeaves
    <2>3. UNCHANGED <<udp, hanging_up, hangup_done, view, waits_for>>
      BY <1>11 DEF ByeLeaves
    <2>4. settle' => ~udp /\ hanging_up
      BY <1>11 DEF ByeLeaves, StateChange, GuardInv
    <2>. QED BY <2>1, <2>2, <2>3, <2>4, GuardStays DEF GuardLeft
  <1>12. ASSUME NEW h \in Hangup, ByeTold(h) PROVE GuardInv'
    <2>1. bye[h] = "media" /\ bye'[h] = "answer" /\ \A g \in Hangup : g # h => bye'[g] = bye[g]
      BY <1>12 DEF TypeOK, ByeTold
    <2>2. UNCHANGED <<udp, hanging_up, hangup_done, settle, view, waits_for>>
      BY <1>12 DEF ByeTold
    <2>. QED BY <2>1, <2>2, GuardStays DEF GuardInv, GuardLeft
  <1>13. ASSUME NEW h \in Hangup, ByeFinished(h) PROVE GuardInv'
    <2>1. bye[h] # "started" /\ bye'[h] = "over" /\ \A g \in Hangup : g # h => bye'[g] = bye[g]
      BY <1>13 DEF TypeOK, ByeFinished
    <2>2. EndHangingUp(h) /\ UNCHANGED <<udp, waits_for, hangup_done>>
      BY <1>13 DEF ByeFinished
    <2>. QED BY <2>1, <2>2, GuardFalls
  <1>14. CASE LocalSettle
    <2>1. settle /\ tasks = <<>> /\ UNCHANGED <<udp, waits_for, hangup_done, bye>> /\ EndHangingUp(hangup_done)
      BY <1>14 DEF LocalSettle, Idle
    <2>2. hangup_done \in Hangup /\ ~udp
      BY <2>1 DEF GuardInv, GuardEnds, Running
    <2>3. bye[hangup_done] # "started"
      BY <2>1, <2>2 DEF TasksInv, Positions
    <2>. QED BY <2>1, <2>2, <2>3, GuardFalls
  <1>15. CASE UserCalls \/ ClaimCall \/ PanelByeTold \/ PanelSettled \/ CooldownOver \/ UNCHANGED vars
    <2>1. UNCHANGED <<udp, hanging_up, hangup_done, settle, bye, view, waits_for>>
      BY <1>15 DEF UserCalls, ClaimCall, PanelByeTold, PanelSettled, CooldownOver, vars
    <2>. QED BY <2>1, GuardStays DEF GuardInv, GuardLeft
  <1>16. CASE PanelByes
    <2>1. settle' => ~udp /\ hanging_up
      BY <1>16 DEF PanelByes, StateChange, GuardInv
    <2>. QED BY <1>16, <2>1, GuardStays DEF PanelByes, GuardLeft
  <1>. QED BY <1>1, <1>2, <1>3, <1>4, <1>5, <1>6, <1>7, <1>8, <1>9, <1>10, <1>11, <1>12, <1>13,
              <1>14, <1>15, <1>16 DEF Next

\* Nobody starts to sleep, nor comes back to watch.
LEMMA DelayedStays ==
    ASSUME OneDelayed, UNCHANGED hangup_task, viewers' \subseteq viewers,
           \A d \in Delayed : bye'[d] = "asked" => bye[d] = "asked"
    PROVE  OneDelayed'
  BY DEF OneDelayed

LEMMA OneDelayedKept ==
    ASSUME HubInv, [Next]_vars
    PROVE  OneDelayed'
  <1>. USE DEF HubInv, viewVars, autoVars, guardVars, envVars
  <1>1. ASSUME NEW v \in Views, StreamOpened(v) PROVE OneDelayed'
    <2>1. ASSUME NEW d \in Delayed, bye'[d] = "asked" PROVE FALSE
      <3>1. d \in Hangup /\ d # None
        BY HangupFacts
      <3>2. bye[d] = "asked"
        BY <1>1, <2>1, <3>1, OpeningCancels
      <3>3. hangup_task = d
        BY <3>2 DEF OneDelayed
      <3>4. d \in Cancelled
        BY <3>1, <3>2, <3>3 DEF Cancelled
      <3>. QED BY <1>1, <2>1, <3>1, <3>4 DEF StreamOpened
    <2>. QED BY <2>1 DEF OneDelayed
  <1>2. ASSUME NEW v \in Views, StreamClosed(v) \/ StreamRefused(v) PROVE OneDelayed'
    <2>1. view[v] # "gone" /\ Leaves(v)
      BY <1>2 DEF StreamClosed, StreamRefused
    <2>2. CASE \E d \in Delayed : bye'[d] # bye[d]
      <3>1. viewers = {v} /\ viewers' = {} /\ hangup_task' = <<v, "left">>
        BY <2>1, <2>2, LeavingAsks, HangupFacts
      <3>2. \A d \in Delayed : bye[d] # "asked"
        BY <3>1 DEF OneDelayed
      <3>3. ASSUME NEW d \in Delayed, bye'[d] = "asked" PROVE d = <<v, "left">>
        <4>1. d \in {<<v, "left">>, <<v, "homekit">>}
          BY <2>1, <3>2, <3>3, LeavingAsks, HangupFacts
        <4>2. d = <<v, "homekit">> => d \in Asked
          BY HangupFacts
        <4>. QED BY <4>1, <4>2, HangupFacts
      <3>. QED BY <3>1, <3>3 DEF OneDelayed
    <2>3. CASE \A d \in Delayed : bye'[d] = bye[d]
      <3>1. CASE viewers = {v} /\ EndsWithViewers
        <4>1. \A d \in Delayed : bye[d] # "asked"
          BY <3>1 DEF OneDelayed
        <4>. QED BY <2>3, <4>1 DEF OneDelayed
      <3>2. CASE ~(viewers = {v} /\ EndsWithViewers)
        <4>1. UNCHANGED hangup_task /\ viewers' \subseteq viewers
          BY <2>1, <3>2 DEF Leaves
        <4>. QED BY <2>3, <4>1, DelayedStays
      <3>. QED BY <3>1, <3>2
    <2>. QED BY <2>2, <2>3
  <1>3. ASSUME NEW c \in Caller, CallReturns(c) PROVE OneDelayed'
    <2>1. CASE ComesLate(c)
      <3>1. hangup_task' = <<c, "late">> /\ UNCHANGED viewers /\ viewers = {}
        BY <1>3, <2>1 DEF CallReturns, ComesLate
      <3>2. ASSUME NEW d \in Delayed, d # <<c, "late">> PROVE bye'[d] # "asked"
        <4>1. bye'[d] = bye[d] /\ d \in Hangup /\ d # None
          BY <1>3, <3>2, HangupFacts DEF CallReturns
        <4>2. ASSUME bye[d] = "asked" PROVE FALSE
          BY <2>1, <4>1, <4>2 DEF OneDelayed, ComesLate
        <4>. QED BY <4>1, <4>2
      <3>. QED BY <3>1, <3>2 DEF OneDelayed
    <2>2. CASE ~ComesLate(c)
      <3>1. UNCHANGED <<hangup_task, viewers>> /\ \A d \in Delayed : bye'[d] = bye[d]
        BY <1>3, <2>2, HangupFacts DEF CallReturns
      <3>. QED BY <3>1, DelayedStays
    <2>. QED BY <2>1, <2>2
  <1>4. ASSUME NEW h \in Hangup,
               DelayedHangup(h) \/ AskedHangup(h) \/ ByeLeaves(h) \/ ByeTold(h) \/ ByeFinished(h)
        PROVE  OneDelayed'
    <2>1. UNCHANGED <<hangup_task, viewers>>
      BY <1>4 DEF DelayedHangup, AskedHangup, ByeLeaves, ByeTold, ByeFinished
    <2>2. \A g \in Hangup : bye'[g] = "asked" => bye[g] = "asked"
      BY <1>4 DEF TypeOK, DelayedHangup, AskedHangup, BeginHangingUp, ByeLeaves, ByeTold, ByeFinished
    <2>. QED BY <2>1, <2>2, HangupFacts, DelayedStays
  <1>5. ASSUME NEW v \in Views, GuardTimesOut(v) \/ GuardDrops(v) \/ AutoCalls(v) PROVE OneDelayed'
    <2>1. UNCHANGED <<hangup_task, viewers, bye>>
      BY <1>5 DEF GuardTimesOut, GuardDrops, AutoCalls
    <2>. QED BY <2>1, DelayedStays
  <1>6. ASSUME NEW c \in Caller, CallSettled(c) \/ CallConnects(c) \/ CallUnanswered(c) \/ CallFails(c)
        PROVE  OneDelayed'
    <2>1. UNCHANGED <<hangup_task, viewers, bye>>
      BY <1>6 DEF CallSettled, CallConnects, CallUnanswered, CallFails
    <2>. QED BY <2>1, DelayedStays
  <1>7. CASE \/ LocalSettle \/ UserCalls \/ ClaimCall \/ PanelByes \/ PanelByeTold
             \/ PanelSettled \/ CooldownOver \/ UNCHANGED vars
    <2>1. UNCHANGED <<hangup_task, viewers, bye>>
      BY <1>7 DEF LocalSettle, UserCalls, ClaimCall, PanelByes, PanelByeTold, PanelSettled,
                  CooldownOver, vars
    <2>. QED BY <2>1, DelayedStays
  <1>. QED BY <1>1, <1>2, <1>3, <1>4, <1>5, <1>6, <1>7 DEF Next

-----------------------------------------------------------------------------
(* The theorems.                                                            *)

LEMMA HubKept == ASSUME HubInv, [Next]_vars PROVE HubInv'
  BY TypeKept, TasksKept, CallersKept, UnaskedKept, GuardKept, OneDelayedKept DEF HubInv

\* The guard and the hang-ups are always as HubInv says.
THEOREM HubAlways == Spec => []HubInv
  <1>1. Init => HubInv
    BY Started
  <1>2. HubInv /\ [Next]_vars => HubInv'
    BY HubKept
  <1>. QED BY <1>1, <1>2, PTL DEF Spec

\* Every variable keeps its type: the hub's numbers, flags and sets of stream_opened,
\* stream_closed, _do_auto_call and the hang-ups.
THEOREM TypeCorrect == Spec => []TypeOK
  <1>1. HubInv => TypeOK
    BY DEF HubInv
  <1>. QED BY <1>1, HubAlways, PTL

\* _hanging_up is up only for a hang-up that still runs, and a view that waits in
\* stream_opened waits for one that will wake it: no view is locked out.
THEOREM GuardComesDown == Spec => []GuardEnds
  <1>1. HubInv => GuardEnds
    BY DEF HubInv, GuardInv
  <1>. QED BY <1>1, HubAlways, PTL

\* _delayed_hangup: one sleeps at a time, _hangup_task is it, and with a viewer none
\* does, so that no watched call is hung up for want of viewers.
THEOREM OneHangup == Spec => []OneDelayed
  <1>1. HubInv => OneDelayed
    BY DEF HubInv
  <1>. QED BY <1>1, HubAlways, PTL

\* stream_opened: a view that has not waited in vain joins no call that the hang-up
\* decided on before is about to end.
THEOREM JoinsLiveCalls == Spec => NoDyingCall
  <1>. DEFINE Joins(v) == view[v] # "waiting" /\ view'[v] = "waiting" /\ waits_for'[v] = None
              Alive == \A h \in Hangup : bye[h] # "started" /\ (udp /\ h = hangup_done => h \notin Running)
  <1>1. ASSUME HubInv, [Next]_vars, NEW v \in Views, Joins(v) PROVE Alive
    <2>. USE DEF viewVars
    <2>1. ASSUME ~hanging_up PROVE Alive
      BY <1>1, <2>1 DEF HubInv, GuardInv
    <2>2. TypeOK /\ view' # view
      BY <1>1 DEF HubInv
    <2>3. ASSUME NEW w \in Views, StreamOpened(w) PROVE Alive
      <3>1. CASE hanging_up
        BY <1>1, <2>2, <2>3, <3>1 DEF TypeOK, StreamOpened
      <3>. QED BY <2>1, <3>1
    <2>4. ASSUME NEW w \in Views, GuardDrops(w) PROVE Alive
      <3>1. w = v
        BY <1>1, <2>2, <2>4 DEF TypeOK, GuardDrops, Accepted
      <3>2. waits_for[v] # None
        BY <1>1, <2>4, <3>1 DEF GuardDrops, HubInv, GuardInv
      <3>3. ~hanging_up
        BY <1>1, <2>2, <2>4, <3>1, <3>2 DEF TypeOK, GuardDrops
      <3>. QED BY <2>1, <3>3
    <2>5. ASSUME NEW w \in Views, GuardTimesOut(w) \/ StreamClosed(w) \/ StreamRefused(w) PROVE FALSE
      BY <1>1, <2>2, <2>5 DEF TypeOK, GuardTimesOut, StreamClosed, StreamRefused, Leaves
    <2>6. ASSUME NEW h \in Hangup \cup {hangup_done}, EndHangingUp(h) PROVE FALSE
      BY <1>1, <2>2, <2>6 DEF TypeOK, EndHangingUp
    <2>7. ASSUME NEW h \in Hangup, ByeFinished(h) PROVE FALSE
      BY <2>6, <2>7 DEF ByeFinished
    <2>8. CASE LocalSettle
      BY <2>6, <2>8 DEF LocalSettle
    <2>9. ASSUME NEW w \in Views, AutoCalls(w) PROVE FALSE
      BY <2>2, <2>9 DEF AutoCalls
    <2>10. ASSUME NEW c \in Caller,
                  CallSettled(c) \/ CallConnects(c) \/ CallUnanswered(c) \/ CallFails(c) \/ CallReturns(c)
           PROVE  FALSE
      BY <2>2, <2>10 DEF CallSettled, CallConnects, CallUnanswered, CallFails, CallReturns
    <2>11. ASSUME NEW h \in Hangup, DelayedHangup(h) \/ AskedHangup(h) \/ ByeLeaves(h) \/ ByeTold(h)
           PROVE  FALSE
      BY <2>2, <2>11 DEF DelayedHangup, AskedHangup, ByeLeaves, ByeTold
    <2>12. CASE \/ UserCalls \/ ClaimCall \/ PanelByes \/ PanelByeTold \/ PanelSettled
                \/ CooldownOver \/ UNCHANGED vars
      BY <2>2, <2>12 DEF UserCalls, ClaimCall, PanelByes, PanelByeTold, PanelSettled, CooldownOver, vars
    <2>. QED BY <1>1, <2>3, <2>4, <2>5, <2>7, <2>8, <2>9, <2>10, <2>11, <2>12 DEF Next
  <1>2. HubInv /\ [Next]_vars =>
          [\A v \in Views : view[v] # "waiting" /\ view'[v] = "waiting" /\ waits_for'[v] = None
            => \A h \in Hangup : /\ bye[h] # "started"
                                 /\ udp /\ h = hangup_done => h \notin Running]_vars
    BY <1>1
  <1>. QED BY <1>2, HubAlways, PTL DEF Spec, NoDyingCall

-----------------------------------------------------------------------------
(* A view's call that is up with nobody watching has its hang-up armed: for  *)
(* any views, users and number of INVITEs of AutoCall.                       *)

\* Whoever came is counted until it leaves, and while anybody is counted no delayed
\* hang-up is kept.
WatchersInv ==
    /\ \A v \in Views : view[v] \in {"guarded", "woken", "waiting"} => v \in viewers
    /\ viewers # {} => hangup_task = None

\* The view asked for a call last is the last to begin one.
QueueInv == \A i \in Positions :
                tasks[i] \in Views => \E j \in Positions : j >= i /\ tasks[j] = auto_gen

\* A call placed for that view holds the line until the user dials.
HolderInv ==
    auto_called => /\ auto_gen \in Views /\ caller[auto_gen] # "none"
                   /\ caller[auto_gen] \in {"connected", "over"} => holder \in {auto_gen, User}

\* When it asked in time, no hang-up runs, and none but those to come can be kept.
InTimeInv ==
    auto_called /\ waits_for[auto_gen] = None =>
        /\ ~hanging_up
        /\ hangup_task # None => bye[hangup_task] \in {"asked", "over"}

\* What UnwatchedHasHangup says, as soon as the latest view's own call is over.
Abandoned ==
    /\ in_call /\ auto_called /\ viewers = {} /\ holder # User
    /\ waits_for[auto_gen] = None /\ caller[auto_gen] = "over"
AbandonedInv == Abandoned => \E d \in Delayed : bye[d] = "asked"

WatchInv == WatchersInv /\ QueueInv /\ HolderInv /\ InTimeInv /\ AbandonedInv

LEMMA WatchStarted ==
    ASSUME Init
    PROVE  WatchInv
  BY DEF Init, WatchInv, WatchersInv, QueueInv, HolderInv, InTimeInv, AbandonedInv, Abandoned, Positions

-----------------------------------------------------------------------------
LEMMA WatchersStay ==
    ASSUME WatchersInv, UNCHANGED viewers, hangup_task' = hangup_task \/ viewers = {},
           \A w \in Views : view'[w] \in {"guarded", "woken", "waiting"} =>
                            view[w] \in {"guarded", "woken", "waiting"}
    PROVE  WatchersInv'
  BY DEF WatchersInv

LEMMA WatchersKept ==
    ASSUME HubInv, WatchersInv, [Next]_vars
    PROVE  WatchersInv'
  <1>. USE DEF viewVars, autoVars, guardVars, envVars
  <1>0. TypeOK
    BY DEF HubInv
  <1>1. ASSUME NEW v \in Views, StreamOpened(v) PROVE WatchersInv'
    <2>1. hangup_task' = None /\ \A w \in Views : w # v => view'[w] = view[w]
      BY <1>0, <1>1 DEF TypeOK, StreamOpened, Accepted
    <2>2. CASE viewers' = viewers \cup {v}
      BY <2>1, <2>2 DEF WatchersInv
    <2>3. CASE UNCHANGED viewers /\ view' = [view EXCEPT ![v] = "gone"]
      BY <1>0, <2>1, <2>3 DEF TypeOK, WatchersInv
    <2>. QED BY <1>1, <2>2, <2>3 DEF StreamOpened
  <1>2. ASSUME NEW v \in Views, StreamClosed(v) \/ StreamRefused(v) PROVE WatchersInv'
    <2>1. viewers' = viewers \ {v} /\ view' = [view EXCEPT ![v] = "gone"]
      BY <1>2 DEF StreamClosed, StreamRefused, Leaves
    <2>2. viewers' # {} => UNCHANGED hangup_task /\ viewers # {}
      BY <1>2, <2>1 DEF StreamClosed, StreamRefused, Leaves
    <2>. QED BY <1>0, <2>1, <2>2 DEF TypeOK, WatchersInv
  <1>3. ASSUME NEW v \in Views, GuardTimesOut(v) \/ GuardDrops(v) PROVE WatchersInv'
    <2>1. view[v] \in {"guarded", "woken"} /\ \A w \in Views : w # v => view'[w] = view[w]
      BY <1>0, <1>3 DEF TypeOK, GuardTimesOut, GuardDrops, Accepted
    <2>2. UNCHANGED <<viewers, hangup_task>>
      BY <1>3 DEF GuardTimesOut, GuardDrops
    <2>. QED BY <2>1, <2>2, WatchersStay
  <1>4. ASSUME NEW h \in Hangup \cup {hangup_done}, EndHangingUp(h), UNCHANGED <<viewers, hangup_task>>
        PROVE  WatchersInv'
    <2>1. \A w \in Views : view'[w] \in {"guarded", "woken", "waiting"} =>
                           view[w] \in {"guarded", "woken", "waiting"}
      BY <1>0, <1>4 DEF TypeOK, EndHangingUp
    <2>. QED BY <1>4, <2>1, WatchersStay
  <1>5. ASSUME NEW h \in Hangup, ByeFinished(h) PROVE WatchersInv'
    BY <1>4, <1>5 DEF ByeFinished
  <1>6. CASE LocalSettle
    BY <1>4, <1>6 DEF LocalSettle
  <1>7. ASSUME NEW c \in Caller, CallReturns(c) PROVE WatchersInv'
    <2>1. hangup_task' = hangup_task \/ viewers = {}
      BY <1>7 DEF CallReturns, ComesLate
    <2>. QED BY <1>7, <2>1, WatchersStay DEF CallReturns
  <1>8. ASSUME NEW v \in Views, AutoCalls(v) PROVE WatchersInv'
    BY <1>8, WatchersStay DEF AutoCalls
  <1>9. ASSUME NEW c \in Caller, CallSettled(c) \/ CallConnects(c) \/ CallUnanswered(c) \/ CallFails(c)
        PROVE  WatchersInv'
    <2>1. UNCHANGED <<view, viewers, hangup_task>>
      BY <1>9 DEF CallSettled, CallConnects, CallUnanswered, CallFails
    <2>. QED BY <2>1, WatchersStay
  <1>10. ASSUME NEW h \in Hangup, DelayedHangup(h) \/ AskedHangup(h) \/ ByeLeaves(h) \/ ByeTold(h)
         PROVE  WatchersInv'
    <2>1. UNCHANGED <<view, viewers, hangup_task>>
      BY <1>10 DEF DelayedHangup, AskedHangup, ByeLeaves, ByeTold
    <2>. QED BY <2>1, WatchersStay
  <1>11. CASE \/ UserCalls \/ ClaimCall \/ PanelByes \/ PanelByeTold \/ PanelSettled
              \/ CooldownOver \/ UNCHANGED vars
    <2>1. UNCHANGED <<view, viewers, hangup_task>>
      BY <1>11 DEF UserCalls, ClaimCall, PanelByes, PanelByeTold, PanelSettled, CooldownOver, vars
    <2>. QED BY <2>1, WatchersStay
  <1>. QED BY <1>1, <1>2, <1>3, <1>5, <1>6, <1>7, <1>8, <1>9, <1>10, <1>11 DEF Next

-----------------------------------------------------------------------------
LEMMA QueueStays ==
    ASSUME QueueInv, UNCHANGED <<tasks, auto_gen>>
    PROVE  QueueInv'
  BY DEF QueueInv, Positions

LEMMA QueueAccepts ==
    ASSUME TypeOK, QueueInv, NEW v \in Views, Accepted(v)
    PROVE  QueueInv'
  <1>1. CASE CallInView
    BY <1>1, QueueStays DEF Accepted
  <1>2. CASE ~CallInView
    <2>1. tasks' = Append(tasks, v) /\ auto_gen' = v
      BY <1>2 DEF Accepted
    <2>2. Len(tasks) \in Nat /\ Len(tasks') = Len(tasks) + 1 /\ tasks'[Len(tasks) + 1] = v
      BY <2>1, Created
    <2>. QED BY <2>1, <2>2 DEF QueueInv, Positions
  <1>. QED BY <1>1, <1>2

LEMMA QueueHangs ==
    ASSUME TypeOK, QueueInv, NEW h \in Hangup, BeginHangingUp(h), UNCHANGED auto_gen
    PROVE  QueueInv'
  <1>1. tasks' = Append(tasks, h) /\ h \notin Views
    BY HangupFacts DEF BeginHangingUp
  <1>2. /\ Len(tasks) \in Nat /\ Len(tasks') = Len(tasks) + 1 /\ tasks'[Len(tasks) + 1] = h
        /\ \A i \in Positions : tasks'[i] = tasks[i]
    BY <1>1, Created
  <1>. QED BY <1>1, <1>2 DEF QueueInv, Positions

LEMMA QueueRuns ==
    ASSUME TypeOK, QueueInv, NEW t, Next_task(t), UNCHANGED auto_gen
    PROVE  QueueInv'
  <1>1. /\ Len(tasks) \in Nat \ {0} /\ Len(tasks') = Len(tasks) - 1
        /\ \A i \in Positions' : tasks'[i] = tasks[i + 1]
    BY Runs
  <1>2. ASSUME NEW i \in Positions', tasks'[i] \in Views
        PROVE  \E j \in Positions' : j >= i /\ tasks'[j] = auto_gen'
    <2>1. i + 1 \in Positions /\ tasks[i + 1] \in Views
      BY <1>1, <1>2 DEF Positions
    <2>2. PICK j \in Positions : j >= i + 1 /\ tasks[j] = auto_gen
      BY <2>1 DEF QueueInv
    <2>3. j - 1 \in Positions' /\ j - 1 >= i /\ tasks'[j - 1] = tasks[(j - 1) + 1] /\ (j - 1) + 1 = j
      BY <1>1, <2>2 DEF Positions
    <2>. QED BY <2>2, <2>3
  <1>. QED BY <1>2 DEF QueueInv

LEMMA QueueKept ==
    ASSUME HubInv, QueueInv, [Next]_vars
    PROVE  QueueInv'
  <1>. USE DEF viewVars, autoVars, guardVars, envVars
  <1>0. TypeOK
    BY DEF HubInv
  <1>1. ASSUME NEW v \in Views, StreamOpened(v) PROVE QueueInv'
    BY <1>0, <1>1, QueueAccepts, QueueStays DEF StreamOpened
  <1>2. ASSUME NEW v \in Views, GuardDrops(v) PROVE QueueInv'
    BY <1>0, <1>2, QueueAccepts DEF GuardDrops
  <1>3. ASSUME NEW h \in Hangup, DelayedHangup(h) PROVE QueueInv'
    BY <1>0, <1>3, QueueHangs, QueueStays DEF DelayedHangup
  <1>4. ASSUME NEW h \in Hangup, AskedHangup(h) PROVE QueueInv'
    BY <1>0, <1>4, QueueHangs DEF AskedHangup
  <1>5. ASSUME NEW h \in Hangup, ByeLeaves(h) PROVE QueueInv'
    BY <1>0, <1>5, QueueRuns DEF ByeLeaves
  <1>6. ASSUME NEW v \in Views, AutoCalls(v) PROVE QueueInv'
    BY <1>0, <1>6, QueueRuns DEF AutoCalls
  <1>7. ASSUME NEW v \in Views, GuardTimesOut(v) \/ StreamClosed(v) \/ StreamRefused(v) PROVE QueueInv'
    BY <1>7, QueueStays DEF GuardTimesOut, StreamClosed, StreamRefused, Leaves
  <1>8. ASSUME NEW h \in Hangup, ByeTold(h) \/ ByeFinished(h) PROVE QueueInv'
    BY <1>8, QueueStays DEF ByeTold, ByeFinished
  <1>9. ASSUME NEW c \in Caller,
               CallSettled(c) \/ CallConnects(c) \/ CallUnanswered(c) \/ CallFails(c) \/ CallReturns(c)
        PROVE  QueueInv'
    BY <1>9, QueueStays DEF CallSettled, CallConnects, CallUnanswered, CallFails, CallReturns
  <1>10. CASE \/ LocalSettle \/ UserCalls \/ ClaimCall \/ PanelByes \/ PanelByeTold
              \/ PanelSettled \/ CooldownOver \/ UNCHANGED vars
    BY <1>10, QueueStays DEF LocalSettle, UserCalls, ClaimCall, PanelByes, PanelByeTold,
                             PanelSettled, CooldownOver, vars
  <1>. QED BY <1>1, <1>2, <1>3, <1>4, <1>5, <1>6, <1>7, <1>8, <1>9, <1>10 DEF Next

-----------------------------------------------------------------------------
LEMMA HolderStays ==
    ASSUME HolderInv, auto_called' => auto_called, UNCHANGED <<auto_gen, caller, holder>>
    PROVE  HolderInv'
  BY DEF HolderInv

\* Who places a call is the view that asked last, or it asked before that one, whose
\* own call has not begun.
LEMMA BeforeLatest ==
    ASSUME TypeOK, TasksInv, QueueInv, HolderInv, NEW v \in Views, Next_task(v)
    PROVE  /\ caller[v] = "spawned"
           /\ auto_called => caller[auto_gen] = "spawned"
  <1>1. Len(tasks) \in Nat \ {0} /\ tasks[1] = v
    BY Runs
  <1>2. 1 \in Positions
    BY <1>1 DEF Positions
  <1>3. \E j \in Positions : tasks[j] = auto_gen
    BY <1>1, <1>2 DEF QueueInv
  <1>. QED BY <1>1, <1>2, <1>3 DEF TasksInv, HolderInv

LEMMA HolderKept ==
    ASSUME HubInv, QueueInv, HolderInv, [Next]_vars
    PROVE  HolderInv'
  <1>. USE DEF viewVars, autoVars, guardVars, lineVars, envVars
  <1>0. TypeOK /\ TasksInv /\ User \notin Views
    BY ViewAssumption DEF HubInv
  <1>1. ASSUME NEW v \in Views, Accepted(v), UNCHANGED holder PROVE HolderInv'
    <2>1. CASE CallInView
      BY <1>1, <2>1, HolderStays DEF Accepted
    <2>2. CASE ~CallInView
      BY <1>0, <1>1, <2>2, CallerFacts DEF TypeOK, Accepted, HolderInv
    <2>. QED BY <2>1, <2>2
  <1>2. ASSUME NEW v \in Views, StreamOpened(v) PROVE HolderInv'
    BY <1>1, <1>2, HolderStays DEF StreamOpened
  <1>3. ASSUME NEW v \in Views, GuardDrops(v) PROVE HolderInv'
    BY <1>1, <1>3 DEF GuardDrops
  <1>4. ASSUME NEW v \in Views, AutoCalls(v) PROVE HolderInv'
    <2>1. auto_called => caller[auto_gen] = "spawned" /\ auto_gen \in Views
      BY <1>0, <1>4, BeforeLatest DEF AutoCalls, HolderInv
    <2>2. UNCHANGED auto_gen /\ Places(v) /\ v \in Caller
      BY <1>4, CallerFacts DEF AutoCalls
    <2>3. auto_called' => auto_called /\ ~(auto_gen = v /\ caller'[v] = "over")
      BY <1>0, <1>4 DEF AutoCalls, DropsFlag
    <2>4. \A d \in Caller \ {v} : caller'[d] = caller[d]
      BY <1>0, <2>2, PlacingMoves
    <2>5. caller'[v] \in {"settling", "dialing", "over"}
      BY <1>0, <2>2, PlacingMoves
    <2>. QED BY <2>1, <2>2, <2>3, <2>4, <2>5, CallerFacts DEF HolderInv
  <1>5. ASSUME NEW c \in Caller, GivesUp(c), DropsFlag(c), UNCHANGED <<auto_gen, holder>>
        PROVE  HolderInv'
    <2>1. auto_called' => auto_called /\ auto_gen # c
      BY <1>0, <1>5 DEF DropsFlag, HolderInv
    <2>2. \A d \in Caller \ {c} : caller'[d] = caller[d]
      BY <1>0, <1>5 DEF TypeOK, GivesUp
    <2>. QED BY <1>5, <2>1, <2>2, CallerFacts DEF HolderInv
  <1>6. ASSUME NEW c \in Caller, CallSettled(c) PROVE HolderInv'
    <2>1. CASE StillWanted(c)
      <3>1. calling' = TRUE /\ holder' = c /\ caller' = [caller EXCEPT ![c] = "dialing"]
        BY <1>6, <2>1 DEF CallSettled, StillWanted, Dials
      <3>2. UNCHANGED <<auto_called, auto_gen>>
        BY <1>6, <2>1 DEF CallSettled
      <3>3. c = User \/ c = auto_gen
        BY <2>1 DEF StillWanted
      <3>. QED BY <1>0, <3>1, <3>2, <3>3, CallerFacts DEF TypeOK, HolderInv
    <2>2. CASE ~StillWanted(c)
      BY <1>5, <1>6, <2>2 DEF CallSettled
    <2>. QED BY <2>1, <2>2
  <1>7. ASSUME NEW c \in Caller, CallConnects(c) PROVE HolderInv'
    <2>1. holder = c /\ caller' = [caller EXCEPT ![c] = "connected"] /\ UNCHANGED <<auto_called, auto_gen, holder>>
      BY <1>7 DEF CallConnects, Holds
    <2>. QED BY <1>0, <2>1, CallerFacts DEF TypeOK, HolderInv
  <1>8. ASSUME NEW c \in Caller, CallUnanswered(c) PROVE HolderInv'
    <2>1. CASE caller' = [caller EXCEPT ![c] = "settling"] /\ UNCHANGED auto_called
      BY <1>0, <1>8, <2>1, CallerFacts DEF TypeOK, CallUnanswered, HolderInv
    <2>2. CASE GivesUp(c) /\ DropsFlag(c)
      BY <1>5, <1>8, <2>2 DEF CallUnanswered
    <2>. QED BY <1>8, <2>1, <2>2 DEF CallUnanswered
  <1>9. ASSUME NEW c \in Caller, CallFails(c) PROVE HolderInv'
    BY <1>5, <1>9 DEF CallFails
  <1>10. ASSUME NEW c \in Caller, CallReturns(c) PROVE HolderInv'
    <2>1. caller[c] = "connected" /\ caller' = [caller EXCEPT ![c] = "over"]
      BY <1>10 DEF CallReturns, GivesUp
    <2>2. UNCHANGED <<auto_called, auto_gen, holder>>
      BY <1>10 DEF CallReturns
    <2>. QED BY <1>0, <2>1, <2>2, CallerFacts DEF TypeOK, HolderInv
  <1>11. ASSUME NEW h \in Hangup, DelayedHangup(h) \/ AskedHangup(h) \/ ByeLeaves(h) \/ ByeTold(h) \/ ByeFinished(h)
         PROVE  HolderInv'
    <2>1. UNCHANGED <<auto_gen, caller, holder>>
      BY <1>11 DEF DelayedHangup, AskedHangup, ByeLeaves, ByeTold, ByeFinished
    <2>2. auto_called' => auto_called
      BY <1>0, <1>11 DEF TypeOK, DelayedHangup, AskedHangup, ByeLeaves, ByeTold, ByeFinished, CallEnded
    <2>. QED BY <2>1, <2>2, HolderStays
  <1>12. ASSUME NEW v \in Views, GuardTimesOut(v) \/ StreamClosed(v) \/ StreamRefused(v) PROVE HolderInv'
    <2>1. UNCHANGED <<auto_called, auto_gen, caller, holder>>
      BY <1>12 DEF GuardTimesOut, StreamClosed, StreamRefused, Leaves
    <2>. QED BY <2>1, HolderStays
  <1>13. CASE UserCalls
    BY <1>13 DEF UserCalls, HolderInv
  <1>14. CASE \/ LocalSettle \/ ClaimCall \/ PanelByes \/ PanelByeTold \/ PanelSettled
              \/ CooldownOver \/ UNCHANGED vars
    <2>1. UNCHANGED <<auto_gen, caller, holder>>
      BY <1>14 DEF LocalSettle, ClaimCall, PanelByes, PanelByeTold, PanelSettled, CooldownOver, vars
    <2>2. auto_called' => auto_called
      BY <1>14 DEF LocalSettle, ClaimCall, PanelByes, PanelByeTold, PanelSettled, CooldownOver, CallEnded, vars
    <2>. QED BY <2>1, <2>2, HolderStays
  <1>. QED BY <1>2, <1>3, <1>4, <1>6, <1>7, <1>8, <1>9, <1>10, <1>11, <1>12, <1>13, <1>14 DEF Next

-----------------------------------------------------------------------------
\* No hang-up begins, and the view asked last still waits as it did.
LEMMA InTimeStays ==
    ASSUME TypeOK, InTimeInv, UNCHANGED <<auto_gen, hangup_task>>,
           auto_called' => auto_called, hanging_up' => hanging_up,
           auto_called /\ waits_for'[auto_gen] = None => waits_for[auto_gen] = None,
           \A d \in Delayed : bye[d] \in {"asked", "over"} => bye'[d] \in {"asked", "over"}
    PROVE  InTimeInv'
  BY DEF TypeOK, InTimeInv

LEMMA InTimeKept ==
    ASSUME HubInv, WatchersInv, HolderInv, InTimeInv, [Next]_vars
    PROVE  InTimeInv'
  <1>. USE DEF viewVars, autoVars, guardVars, lineVars, envVars
  <1>0. TypeOK /\ TasksInv /\ UnaskedInv
    BY DEF HubInv
  <1>1. \A v \in Views : view[v] \in {"unopened", "guarded", "woken"} /\ auto_called => auto_gen # v
    BY DEF HubInv, CallersInv, HolderInv
  <1>2. ASSUME NEW v \in Views, StreamOpened(v) PROVE InTimeInv'
    <2>1. hangup_task' = None /\ UNCHANGED hanging_up
      BY <1>2 DEF StreamOpened
    <2>2. CASE hanging_up
      <3>1. UNCHANGED <<auto_called, auto_gen>> /\ waits_for' = [waits_for EXCEPT ![v] = hangup_done]
        BY <1>2, <2>2 DEF StreamOpened
      <3>2. auto_called => auto_gen \in Views /\ auto_gen # v
        BY <1>1, <1>2 DEF StreamOpened, HolderInv
      <3>. QED BY <1>0, <2>1, <3>1, <3>2 DEF TypeOK, InTimeInv
    <2>. QED BY <2>1, <2>2 DEF InTimeInv
  <1>3. ASSUME NEW v \in Views, GuardDrops(v) PROVE InTimeInv'
    <2>1. hangup_task' = None /\ UNCHANGED hanging_up
      BY <1>3 DEF GuardDrops, WatchersInv
    <2>2. CASE hanging_up
      <3>1. waits_for' = waits_for
        BY <1>0, <1>3, <2>2 DEF TypeOK, GuardDrops
      <3>2. CASE CallInView
        <4>1. UNCHANGED <<auto_called, auto_gen>>
          BY <1>3, <3>2 DEF GuardDrops, Accepted
        <4>. QED BY <2>1, <3>1, <4>1 DEF InTimeInv
      <3>3. CASE ~CallInView
        <4>1. auto_gen' = v /\ waits_for[v] # None
          BY <1>3, <3>3 DEF GuardDrops, Accepted, HubInv, GuardInv
        <4>. QED BY <3>1, <4>1 DEF InTimeInv
      <3>. QED BY <3>2, <3>3
    <2>. QED BY <2>1, <2>2 DEF InTimeInv
  <1>4. ASSUME NEW v \in Views, StreamClosed(v) \/ StreamRefused(v) PROVE InTimeInv'
    <2>1. Leaves(v) /\ view[v] \in {"guarded", "woken", "waiting"}
      BY <1>4 DEF StreamClosed, StreamRefused
    <2>2. auto_called => waits_for'[auto_gen] = waits_for[auto_gen]
      <3>1. auto_called => auto_gen \in Views /\ (auto_gen = v => view[v] = "waiting")
        BY <1>1, <2>1 DEF HolderInv
      <3>. QED BY <1>0, <2>1, <3>1 DEF TypeOK, Leaves
    <2>3. UNCHANGED <<auto_called, auto_gen, hanging_up>>
      BY <2>1 DEF Leaves
    <2>4. CASE viewers = {v} /\ EndsWithViewers
      <3>1. hangup_task' = <<v, "left">> /\ bye'[<<v, "left">>] = "asked"
        BY <1>0, <2>1, <2>4, HangupFacts DEF TypeOK, Leaves
      <3>. QED BY <2>2, <2>3, <3>1 DEF InTimeInv
    <2>5. CASE ~(viewers = {v} /\ EndsWithViewers)
      <3>1. UNCHANGED hangup_task /\ \A h \in Hangup : bye'[h] = bye[h]
        BY <1>0, <2>1, <2>5 DEF TypeOK, Leaves
      <3>. QED BY <1>0, <2>2, <2>3, <3>1, HangupFacts, InTimeStays
    <2>. QED BY <2>4, <2>5
  <1>5. ASSUME NEW c \in Caller, CallReturns(c) PROVE InTimeInv'
    <2>1. UNCHANGED <<auto_called, auto_gen, hanging_up, waits_for>>
      BY <1>5 DEF CallReturns
    <2>2. CASE ComesLate(c)
      <3>1. <<c, "late">> \in Hangup
        BY <2>2, CallerFacts, HangupFacts DEF ComesLate
      <3>2. hangup_task' = <<c, "late">> /\ bye'[<<c, "late">>] = "asked"
        BY <1>5, <2>2, <3>1 DEF CallReturns
      <3>. QED BY <2>1, <3>2 DEF InTimeInv
    <2>3. CASE ~ComesLate(c)
      <3>1. UNCHANGED hangup_task /\ \A h \in Hangup : bye'[h] = bye[h]
        BY <1>5, <2>3 DEF CallReturns
      <3>. QED BY <1>0, <2>1, <3>1, HangupFacts, InTimeStays
    <2>. QED BY <2>2, <2>3
  <1>6. ASSUME NEW h \in Hangup, DelayedHangup(h) PROVE InTimeInv'
    <2>1. UNCHANGED <<auto_gen, hangup_task, waits_for>>
      BY <1>6 DEF DelayedHangup
    <2>2. CASE auto_called' = FALSE
      BY <2>2 DEF InTimeInv
    <2>3. CASE UNCHANGED <<auto_called, hanging_up>> /\ bye' = [bye EXCEPT ![h] = "over"]
      <3>1. \A d \in Hangup : bye[d] \in {"asked", "over"} => bye'[d] \in {"asked", "over"}
        BY <1>0, <2>3 DEF TypeOK
      <3>. QED BY <1>0, <2>1, <2>3, <3>1, HangupFacts, InTimeStays
    <2>. QED BY <1>6, <2>2, <2>3 DEF DelayedHangup
  <1>7. ASSUME NEW h \in Hangup, ByeLeaves(h) \/ ByeTold(h) \/ ByeFinished(h) PROVE InTimeInv'
    <2>1. UNCHANGED <<auto_gen, hangup_task, waits_for>>
      BY <1>7 DEF ByeLeaves, ByeTold, ByeFinished
    <2>2. auto_called' => auto_called
      BY <1>7 DEF ByeLeaves, ByeTold, ByeFinished, CallEnded
    <2>3. hanging_up' => hanging_up
      BY <1>7 DEF ByeLeaves, ByeTold, ByeFinished, EndHangingUp
    <2>4. bye[h] \notin {"asked", "over"}
      <3>1. CASE ByeLeaves(h)
        <4>1. Len(tasks) \in Nat \ {0} /\ tasks[1] = h
          BY <1>0, <3>1, Runs DEF ByeLeaves
        <4>2. bye[h] = "started"
          BY <1>0, <4>1 DEF TasksInv, Positions
        <4>. QED BY <4>2
      <3>. QED BY <1>7, <3>1 DEF ByeTold, ByeFinished
    <2>5. \A g \in Hangup : g # h => bye'[g] = bye[g]
      BY <1>0, <1>7 DEF TypeOK, ByeLeaves, ByeTold, ByeFinished
    <2>. QED BY <1>0, <2>1, <2>2, <2>3, <2>4, <2>5, HangupFacts, InTimeStays
  <1>8. ASSUME NEW h \in Hangup, AskedHangup(h) PROVE InTimeInv'
    BY <1>8 DEF AskedHangup, InTimeInv
  <1>9. CASE UserCalls
    BY <1>9 DEF UserCalls, InTimeInv
  <1>10. CASE LocalSettle
    <2>1. hanging_up' => hanging_up
      BY <1>10 DEF LocalSettle, EndHangingUp
    <2>2. UNCHANGED <<auto_called, auto_gen, hangup_task, waits_for, bye>>
      BY <1>10 DEF LocalSettle
    <2>. QED BY <1>0, <2>1, <2>2, InTimeStays
  <1>11. ASSUME NEW v \in Views, GuardTimesOut(v) \/ AutoCalls(v) PROVE InTimeInv'
    <2>1. UNCHANGED <<auto_gen, hangup_task, waits_for, hanging_up, bye>>
      BY <1>11 DEF GuardTimesOut, AutoCalls
    <2>2. auto_called' => auto_called
      BY <1>11 DEF GuardTimesOut, AutoCalls, DropsFlag
    <2>. QED BY <1>0, <2>1, <2>2, InTimeStays
  <1>12. ASSUME NEW c \in Caller, CallSettled(c) \/ CallConnects(c) \/ CallUnanswered(c) \/ CallFails(c)
         PROVE  InTimeInv'
    <2>1. UNCHANGED <<auto_gen, hangup_task, waits_for, hanging_up, bye>>
      BY <1>12 DEF CallSettled, CallConnects, CallUnanswered, CallFails
    <2>2. auto_called' => auto_called
      BY <1>12 DEF CallSettled, CallConnects, CallUnanswered, CallFails, DropsFlag
    <2>. QED BY <1>0, <2>1, <2>2, InTimeStays
  <1>13. CASE ClaimCall \/ PanelByes \/ PanelByeTold \/ PanelSettled \/ CooldownOver \/ UNCHANGED vars
    <2>1. UNCHANGED <<auto_gen, hangup_task, waits_for, hanging_up, bye>>
      BY <1>13 DEF ClaimCall, PanelByes, PanelByeTold, PanelSettled, CooldownOver, vars
    <2>2. auto_called' => auto_called
      BY <1>13 DEF ClaimCall, PanelByes, PanelByeTold, PanelSettled, CooldownOver, CallEnded, vars
    <2>. QED BY <1>0, <2>1, <2>2, InTimeStays
  <1>. QED BY <1>2, <1>3, <1>4, <1>5, <1>6, <1>7, <1>8, <1>9, <1>10, <1>11, <1>12, <1>13 DEF Next

-----------------------------------------------------------------------------
LEMMA AbandonedStays ==
    ASSUME AbandonedInv, Abandoned' => Abandoned,
           \A d \in Delayed : bye[d] = "asked" => bye'[d] = "asked"
    PROVE  AbandonedInv'
  BY DEF AbandonedInv

LEMMA AbandonedKept ==
    ASSUME HubInv, WatchInv, [Next]_vars
    PROVE  AbandonedInv'
  <1>. USE DEF viewVars, autoVars, guardVars, lineVars, envVars
  <1>0. /\ TypeOK /\ TasksInv /\ UnaskedInv /\ User \notin Views
        /\ WatchersInv /\ QueueInv /\ HolderInv /\ InTimeInv /\ AbandonedInv
    BY ViewAssumption DEF HubInv, WatchInv
  <1>1. ASSUME NEW v \in Views, StreamOpened(v) PROVE ~Abandoned'
    BY <1>1 DEF StreamOpened, Abandoned, CallInView, Busy
  <1>2. ASSUME NEW v \in Views, GuardDrops(v) PROVE ~Abandoned'
    BY <1>0, <1>2 DEF GuardDrops, Abandoned, WatchersInv
  <1>3. ASSUME NEW v \in Views, StreamClosed(v) \/ StreamRefused(v) PROVE AbandonedInv'
    <2>1. Leaves(v) /\ v \in viewers /\ <<v, "left">> \in Delayed /\ <<v, "left">> \in Hangup
      BY <1>0, <1>3, HangupFacts DEF StreamClosed, StreamRefused, WatchersInv
    <2>2. CASE Abandoned'
      <3>1. viewers = {v} /\ EndsWithViewers
        BY <2>1, <2>2 DEF Leaves, Abandoned, EndsWithViewers, Busy
      <3>2. bye'[<<v, "left">>] = "asked"
        BY <2>1, <3>1 DEF Leaves
      <3>. QED BY <2>1, <3>2 DEF AbandonedInv
    <2>. QED BY <2>2 DEF AbandonedInv
  <1>4. ASSUME NEW v \in Views, AutoCalls(v) PROVE ~Abandoned'
    <2>1. Next_task(v) /\ UNCHANGED auto_gen /\ Places(v) /\ v \in Caller
      BY <1>4, CallerFacts DEF AutoCalls
    <2>2. auto_called' => auto_called /\ ~(auto_gen = v /\ caller'[v] = "over")
      BY <1>0, <1>4 DEF AutoCalls, DropsFlag
    <2>3. auto_called => caller[auto_gen] = "spawned" /\ auto_gen \in Views
      BY <1>0, <2>1, BeforeLatest DEF HolderInv
    <2>4. \A d \in Caller \ {v} : caller'[d] = caller[d]
      BY <1>0, <2>1, PlacingMoves
    <2>. QED BY <2>1, <2>2, <2>3, <2>4, CallerFacts DEF Abandoned
  <1>5. ASSUME NEW c \in Caller, GivesUp(c), DropsFlag(c),
               UNCHANGED <<in_call, auto_gen, viewers, holder, waits_for, bye>>
        PROVE  AbandonedInv'
    <2>1. auto_called' => auto_called /\ auto_gen # c /\ auto_gen \in Caller
      BY <1>0, <1>5, CallerFacts DEF DropsFlag, HolderInv
    <2>2. \A d \in Caller \ {c} : caller'[d] = caller[d]
      BY <1>0, <1>5 DEF TypeOK, GivesUp
    <2>3. Abandoned' => Abandoned
      BY <1>5, <2>1, <2>2 DEF Abandoned
    <2>. QED BY <1>0, <1>5, <2>3, AbandonedStays
  <1>6. ASSUME NEW c \in Caller, CallSettled(c) PROVE AbandonedInv'
    <2>1. CASE StillWanted(c)
      <3>1. holder' = c /\ caller' = [caller EXCEPT ![c] = "dialing"] /\ UNCHANGED auto_gen
        BY <1>6, <2>1 DEF CallSettled, StillWanted, Dials
      <3>2. c = User \/ c = auto_gen
        BY <2>1 DEF StillWanted
      <3>3. ~Abandoned'
        BY <1>0, <3>1, <3>2 DEF TypeOK, Abandoned
      <3>. QED BY <3>3 DEF AbandonedInv
    <2>2. CASE ~StillWanted(c)
      BY <1>5, <1>6, <2>2 DEF CallSettled
    <2>. QED BY <2>1, <2>2
  <1>7. ASSUME NEW c \in Caller, CallConnects(c) PROVE ~Abandoned'
    <2>1. holder = c /\ caller' = [caller EXCEPT ![c] = "connected"] /\ UNCHANGED <<auto_called, auto_gen, holder>>
      BY <1>7 DEF CallConnects, Holds
    <2>. QED BY <1>0, <2>1, CallerFacts DEF TypeOK, Abandoned, HolderInv
  <1>8. ASSUME NEW c \in Caller, CallUnanswered(c) PROVE AbandonedInv'
    <2>1. CASE caller' = [caller EXCEPT ![c] = "settling"] /\ UNCHANGED auto_called
      <3>1. Abandoned' => Abandoned
        BY <1>0, <1>8, <2>1, CallerFacts DEF TypeOK, CallUnanswered, Abandoned, HolderInv
      <3>. QED BY <1>0, <1>8, <3>1, AbandonedStays DEF CallUnanswered
    <2>2. CASE GivesUp(c) /\ DropsFlag(c)
      BY <1>5, <1>8, <2>2 DEF CallUnanswered
    <2>. QED BY <1>8, <2>1, <2>2 DEF CallUnanswered
  <1>9. ASSUME NEW c \in Caller, CallFails(c) PROVE AbandonedInv'
    BY <1>5, <1>9 DEF CallFails
  <1>10. ASSUME NEW c \in Caller, CallReturns(c) PROVE AbandonedInv'
    <2>1. caller' = [caller EXCEPT ![c] = "over"] /\ UNCHANGED <<in_call, auto_called, auto_gen, viewers, holder, waits_for>>
      BY <1>10 DEF CallReturns, GivesUp
    <2>2. \A d \in Delayed : bye[d] = "asked" => bye'[d] = "asked"
      BY <1>0, <1>10, ReturningAsks, HangupFacts
    <2>3. CASE c = auto_gen /\ Abandoned'
      <3>1. /\ in_call /\ auto_called /\ viewers = {} /\ ~hanging_up /\ c \in Views
            /\ hangup_task # None => bye[hangup_task] \in {"asked", "over"}
        BY <1>0, <2>1, <2>3 DEF Abandoned, InTimeInv, HolderInv
      <3>2. CASE ComesLate(c)
        BY <1>10, <3>1, <3>2, HangupFacts DEF CallReturns, AbandonedInv
      <3>3. CASE ~ComesLate(c)
        <4>1. hangup_task \in Delayed /\ bye[hangup_task] = "asked"
          BY <1>0, <2>3, <3>1, <3>3 DEF TypeOK, ComesLate
        <4>. QED BY <2>2, <4>1 DEF AbandonedInv
      <3>. QED BY <3>2, <3>3
    <2>4. CASE ~(c = auto_gen /\ Abandoned')
      <3>1. Abandoned' => Abandoned
        BY <1>0, <2>1, <2>4, CallerFacts DEF TypeOK, Abandoned, HolderInv
      <3>. QED BY <1>0, <2>2, <3>1, AbandonedStays
    <2>. QED BY <2>3, <2>4
  <1>11. ASSUME NEW h \in Hangup, DelayedHangup(h) PROVE ~Abandoned'
    BY <1>11 DEF DelayedHangup, Abandoned, Busy
  <1>12. ASSUME NEW h \in Hangup, AskedHangup(h) \/ ByeLeaves(h) PROVE ~Abandoned'
    BY <1>12 DEF AskedHangup, ByeLeaves, Abandoned
  <1>13. ASSUME NEW h \in Hangup, ByeTold(h) \/ ByeFinished(h) PROVE AbandonedInv'
    <2>1. Abandoned' => Abandoned
      BY <1>13 DEF ByeTold, ByeFinished, CallEnded, Abandoned
    <2>2. \A g \in Hangup : bye[g] = "asked" => bye'[g] = "asked"
      BY <1>0, <1>13 DEF TypeOK, ByeTold, ByeFinished
    <2>. QED BY <1>0, <2>1, <2>2, HangupFacts, AbandonedStays
  <1>14. CASE UserCalls \/ ClaimCall \/ PanelByes
    BY <1>14 DEF UserCalls, ClaimCall, PanelByes, AbandonedInv, Abandoned
  <1>15. ASSUME NEW v \in Views, GuardTimesOut(v) PROVE AbandonedInv'
    BY <1>0, <1>15, AbandonedStays DEF GuardTimesOut, Abandoned
  <1>16. CASE LocalSettle \/ PanelByeTold \/ PanelSettled \/ CooldownOver \/ UNCHANGED vars
    <2>1. Abandoned' => Abandoned
      BY <1>16 DEF LocalSettle, PanelByeTold, PanelSettled, CooldownOver, CallEnded, Abandoned, vars
    <2>2. UNCHANGED bye
      BY <1>16 DEF LocalSettle, PanelByeTold, PanelSettled, CooldownOver, vars
    <2>. QED BY <1>0, <2>1, <2>2, AbandonedStays
  <1>. QED BY <1>1, <1>2, <1>3, <1>4, <1>6, <1>7, <1>8, <1>9, <1>10, <1>11, <1>12, <1>13, <1>14,
              <1>15, <1>16 DEF Next, AbandonedInv

-----------------------------------------------------------------------------
\* stream_closed and _do_auto_call: a view's call that is up with nobody watching has
\* its delayed hang-up asked for, or the view asked for it while the guard was up.
THEOREM NoneUnwatched == Spec => []UnwatchedHasHangup
  <1>1. Init => WatchInv
    BY WatchStarted
  <1>2. HubInv /\ WatchInv /\ [Next]_vars => WatchInv'
    BY WatchersKept, QueueKept, HolderKept, InTimeKept, AbandonedKept DEF WatchInv
  <1>3. WatchInv => UnwatchedHasHangup
    BY DEF WatchInv, HolderInv, AbandonedInv, Abandoned, UnwatchedHasHangup
  <1>. QED BY <1>1, <1>2, <1>3, HubAlways, PTL DEF Spec

=============================================================================
