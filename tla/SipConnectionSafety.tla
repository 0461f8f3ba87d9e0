------------------------- MODULE SipConnectionSafety -------------------------
(***************************************************************************)
(* SipConnection: types, and a keepalive that never waits for a            *)
(* reconnection that is not there, reloads of the integration included.    *)
(***************************************************************************)
EXTENDS SipConnection, TLAPS

RegisterType == [at : {"idle", "connecting", "sent", "lost", "profiles"},
                 on : Links \cup {None}, tries : 0 .. Challenges]

\* The three states a do_register is put in.
LEMMA Records ==
    ASSUME TypeOK
    PROVE  /\ Idle \in RegisterType
           /\ [Idle EXCEPT !.at = "connecting"] \in RegisterType
           /\ [Idle EXCEPT !.at = "profiles"] \in RegisterType
           /\ Begun \in RegisterType
<1>1. /\ Idle \in RegisterType
      /\ [Idle EXCEPT !.at = "connecting"] \in RegisterType
      /\ [Idle EXCEPT !.at = "profiles"] \in RegisterType
    BY CountAssumption DEF Idle, RegisterType
<1>2. [at |-> "sent", on |-> stream, tries |-> 1] \in RegisterType
    BY CountAssumption DEF TypeOK, RegisterType
<1> QED BY <1>1, <1>2 DEF Begun

\* Setting one do_register keeps the type of all.
LEMMA SetRegister ==
    ASSUME TypeOK, NEW w \in Who, NEW r \in RegisterType
    PROVE  [register EXCEPT ![w] = r] \in [Who -> RegisterType]
BY DEF TypeOK, RegisterType

LEMMA DoneType ==
    ASSUME TypeOK, NEW w \in Who, Done(w)
    PROVE  register' \in [Who -> RegisterType]
BY Records, SetRegister DEF Done

HubType == hub' \in {"setup", "startup", "resting", "renewing", "retrying", "joining", "stopping"}

\* What a caller makes of a result.
LEMMA ReturnsType ==
    ASSUME TypeOK, WaitsForOne, NEW w \in Who, NEW ok \in BOOLEAN, Returns(w, ok)
    PROVE  /\ register' \in [Who -> RegisterType]
           /\ HubType
           /\ attempt' \in 0 .. Attempts
           /\ hub' = "joining" => attempt' > 0
<1>1. CASE w = "hub"
    <2>1. HubReturns(ok)
        BY <1>1 DEF Returns
    <2>2. register' \in [Who -> RegisterType]
        BY <2>1, <1>1, Records, SetRegister, DoneType DEF HubReturns
    <2> QED BY <2>1, <2>2, CountAssumption DEF HubReturns, TypeOK, HubType, WaitsForOne
<1>2. CASE w = "reconnect"
    <2>1. ReconnectReturns(ok)
        BY <1>2 DEF Returns
    <2>2. register' \in [Who -> RegisterType]
        BY <2>1, <1>2, Records, SetRegister, DoneType DEF ReconnectReturns
    <2> QED BY <2>1, <2>2, CountAssumption DEF ReconnectReturns, Ends, TypeOK, HubType, WaitsForOne
<1>3. CASE w = "options"
    BY <1>3, DoneType DEF Returns, TypeOK, HubType, WaitsForOne
<1> QED BY <1>1, <1>2, <1>3 DEF Who

LEMMA RaisesType ==
    ASSUME TypeOK, WaitsForOne, NEW w \in Who, Raises(w)
    PROVE  /\ register' \in [Who -> RegisterType]
           /\ HubType
           /\ attempt' \in 0 .. Attempts
           /\ hub' = "joining" => attempt' > 0
BY ReturnsType, DoneType DEF Raises, TypeOK, HubType

\* The reader's record, whatever stream it takes.
LEMMA ReaderType ==
    ASSUME TypeOK
    PROVE  /\ [at |-> "joined", of |-> stream] \in [at : {"reading", "joined", "off"}, of : Links \cup {None}]
           /\ [at |-> "reading", of |-> stream] \in [at : {"reading", "joined", "off"}, of : Links \cup {None}]
           /\ [reader EXCEPT !.of = stream] \in [at : {"reading", "joined", "off"}, of : Links \cup {None}]
BY DEF TypeOK

LEMMA LinkType ==
    ASSUME TypeOK, NEW c \in Links, NEW s \in LinkState
    PROVE  [link EXCEPT ![c] = s] \in [Links -> LinkState]
BY DEF TypeOK

LEMMA TroubleType ==
    ASSUME TypeOK, NEW kind, Trouble(kind)
    PROVE  trouble' \in 0 .. MaxTrouble
BY CountAssumption DEF TypeOK, Trouble

LEMMA ClosingType ==
    ASSUME TypeOK
    PROVE  Closing \in [Links -> LinkState]
BY DEF TypeOK, Closing, LinkState

\* Whoever is reset is idle, or connects.
LEMMA ResetType ==
    ASSUME TypeOK, Reset
    PROVE  /\ register' \in [Who -> RegisterType]
           /\ stream' \in Links \cup {None} /\ registered' \in BOOLEAN
<1>1. "options" \in Who
    BY DEF Who
<1>2. register["options"] \in RegisterType
    BY <1>1 DEF TypeOK, RegisterType
<1>3. register' \in [Who -> RegisterType]
    BY <1>1, <1>2, Records, SetRegister DEF Reset
<1> QED BY <1>3 DEF Reset

\* A chosen link that nobody refers to is a link.
LEMMA Chosen ==
    ASSUME Unreferenced # {}
    PROVE  (CHOOSE l \in Unreferenced : TRUE) \in Links
BY DEF Unreferenced

IInv == TypeOK /\ WaitsForOne

LEMMA InitInv == Init => IInv
<1> SUFFICES ASSUME Init PROVE IInv
    OBVIOUS
<1>1. stream \in Links \cup {None}
    BY DEF Init
<1>2. Idle \in RegisterType
    BY CountAssumption DEF Idle, RegisterType
<1>3. reader \in [at : {"reading", "joined", "off"}, of : Links \cup {None}]
    BY DEF Init, Off
<1>4. link \in [Links -> LinkState]
    BY DEF Init, LinkState
<1>5. register \in [Who -> RegisterType]
    BY <1>2 DEF Init
<1>6. attempt = 0 /\ trouble = 0
    BY DEF Init
<1>7. attempt \in 0 .. Attempts /\ trouble \in 0 .. MaxTrouble
    BY <1>6, CountAssumption
<1>8. udp \in BOOLEAN
    BY DEF Init
<1>9. registered = FALSE /\ in_call = FALSE
    BY Zenon DEF Init
<1>10. registered \in BOOLEAN /\ in_call \in BOOLEAN
    BY <1>9, Zenon
<1>11. hub = "setup"
    BY DEF Init
<1>12. TypeOK
    BY <1>1, <1>3, <1>4, <1>5, <1>7, <1>8, <1>11, <1>10 DEF TypeOK, RegisterType
<1> QED BY <1>11, <1>12 DEF IInv, WaitsForOne

\* Each step of Next keeps it.
LEMMA NextInv == IInv /\ [Next]_vars => IInv'
<1> SUFFICES ASSUME IInv, [Next]_vars PROVE IInv'
    OBVIOUS
<1> USE DEF IInv
<1>t. /\ link \in [Links -> LinkState] /\ register \in [Who -> RegisterType]
      /\ reader \in [at : {"reading", "joined", "off"}, of : Links \cup {None}]
      /\ stream \in Links \cup {None} /\ udp \in BOOLEAN /\ registered \in BOOLEAN
      /\ in_call \in BOOLEAN /\ attempt \in 0 .. Attempts /\ trouble \in 0 .. MaxTrouble
      /\ hub \in {"setup", "startup", "resting", "renewing", "retrying", "joining", "stopping"}
    BY DEF TypeOK, RegisterType
<1>m. ASSUME /\ link' \in [Links -> LinkState] /\ register' \in [Who -> RegisterType]
             /\ reader' \in [at : {"reading", "joined", "off"}, of : Links \cup {None}]
             /\ stream' \in Links \cup {None} /\ udp' \in BOOLEAN /\ registered' \in BOOLEAN
             /\ in_call' \in BOOLEAN /\ attempt' \in 0 .. Attempts /\ trouble' \in 0 .. MaxTrouble
             /\ HubType /\ (hub' = "joining" => attempt' > 0)
      PROVE IInv'
    BY <1>m DEF TypeOK, WaitsForOne, RegisterType, HubType
<1>s. ASSUME Starts
      PROVE  /\ attempt' \in 0 .. Attempts /\ attempt' > 0 /\ registered' \in BOOLEAN
    BY <1>s, <1>t, CountAssumption DEF Starts
<1>1. CASE UNCHANGED vars
    BY <1>1, <1>t, <1>m DEF vars, HubType, WaitsForOne
<1>2. ASSUME NEW w \in Who, Connects(w) PROVE IInv'
    <2>1. stream' \in Links /\ link' \in [Links -> LinkState]
        BY <1>2, Chosen, LinkType DEF Connects, LinkState
    <2>2. [at |-> "sent", on |-> stream', tries |-> 1] \in RegisterType
        BY <2>1, CountAssumption DEF RegisterType
    <2>3. register' \in [Who -> RegisterType]
        BY <1>2, <2>2, SetRegister DEF Connects
    <2> QED BY <1>2, <1>t, <1>m, <2>1, <2>3 DEF Connects, HubType, WaitsForOne
<1>3. ASSUME NEW w \in Who, ConnectFails(w) PROVE IInv'
    BY <1>3, <1>t, <1>m, RaisesType, TroubleType DEF ConnectFails
<1>4. ASSUME NEW w \in Who, Passes(w) PROVE IInv'
    BY <1>4, <1>t, <1>m, ReturnsType, ReaderType DEF Passes, Heard
<1>5. ASSUME NEW w \in Who, Challenged(w) PROVE IInv'
    <2>1. trouble' \in 0 .. MaxTrouble
        BY <1>5, <1>t, TroubleType DEF Challenged
    <2>2. reader' \in [at : {"reading", "joined", "off"}, of : Links \cup {None}]
        BY <1>5, ReaderType DEF Challenged, Heard
    <2>3. CASE /\ register[w].tries < Challenges
               /\ register' = [register EXCEPT ![w].on = stream, ![w].tries = @ + 1]
               /\ UNCHANGED <<registered, hub, attempt>>
        <3>1. [register[w] EXCEPT !.on = stream, !.tries = @ + 1] \in RegisterType
            BY <2>3, <1>t, CountAssumption DEF RegisterType
        <3>2. register' = [register EXCEPT ![w] = [register[w] EXCEPT !.on = stream, !.tries = @ + 1]]
            BY <2>3, <1>t DEF RegisterType
        <3>3. register' \in [Who -> RegisterType]
            BY <3>1, <3>2, SetRegister
        <3> QED BY <1>5, <1>t, <1>m, <2>1, <2>2, <2>3, <3>3 DEF Challenged, HubType, WaitsForOne
    <2>4. CASE Raises(w) /\ UNCHANGED registered
        BY <1>5, <1>t, <1>m, <2>1, <2>2, <2>4, RaisesType DEF Challenged
    <2>5. CASE Fails(w)
        BY <1>5, <1>t, <1>m, <2>1, <2>2, <2>5, ReturnsType DEF Challenged, Fails
    <2> QED BY <1>5, <2>3, <2>4, <2>5 DEF Challenged
<1>6. ASSUME NEW w \in Who, Rejected(w) PROVE IInv'
    BY <1>6, <1>t, <1>m, ReturnsType, ReaderType, TroubleType DEF Rejected, Heard, Fails
<1>7. ASSUME NEW w \in Who, Unanswered(w) PROVE IInv'
    <2>1. [register[w] EXCEPT !.at = "lost"] \in RegisterType
        BY <1>t DEF RegisterType
    <2>2. register' = [register EXCEPT ![w] = [register[w] EXCEPT !.at = "lost"]]
        BY <1>7, <1>t DEF Unanswered, RegisterType
    <2>3. register' \in [Who -> RegisterType]
        BY <2>1, <2>2, SetRegister
    <2> QED BY <1>7, <1>t, <1>m, <2>3, TroubleType DEF Unanswered, HubType, WaitsForOne
<1>8. ASSUME NEW w \in Who, TimesOut(w) PROVE IInv'
    BY <1>8, <1>t, <1>m, ReturnsType DEF TimesOut, Fails
<1>9. ASSUME NEW c \in Links, SilenceEnds(c) PROVE IInv'
    <2>1. link' \in [Links -> LinkState]
        BY <1>9, LinkType DEF SilenceEnds, LinkState
    <2> QED BY <1>9, <1>t, <1>m, <2>1 DEF SilenceEnds, HubType, WaitsForOne
<1>10. ASSUME NEW c \in Links, ShutdownEnds(c) PROVE IInv'
    <2>1. link' \in [Links -> LinkState]
        BY <1>10, LinkType DEF ShutdownEnds, LinkState
    <2> QED BY <1>10, <1>t, <1>m, <2>1 DEF ShutdownEnds, HubType, WaitsForOne
<1>11. CASE Reconnects
    <2>1. "reconnect" \in Who
        BY DEF Who
    <2>2. link' \in [Links -> LinkState]
        BY <1>11, <1>t, ClosingType DEF Reconnects
    <2>3. CASE udp
        <3>1. register' \in [Who -> RegisterType]
            BY <1>11, <2>1, <2>3, Records, SetRegister DEF Reconnects
        <3> QED BY <1>11, <1>t, <1>m, <2>2, <3>1 DEF Reconnects, HubType, WaitsForOne
    <2>4. CASE ~udp
        <3>1. [register["reconnect"] EXCEPT !.at = "connecting"] \in RegisterType
            BY <1>t, <2>1 DEF RegisterType
        <3>2. register' = [register EXCEPT !["reconnect"] =
                              [register["reconnect"] EXCEPT !.at = "connecting"]]
            BY <1>11, <1>t, <2>1, <2>4 DEF Reconnects, RegisterType
        <3>3. register' \in [Who -> RegisterType]
            BY <3>1, <3>2, <2>1, SetRegister
        <3> QED BY <1>11, <1>t, <1>m, <2>2, <3>3 DEF Reconnects, HubType, WaitsForOne
    <2> QED BY <2>3, <2>4
<1>12. CASE ProfilesDone
    <2>1. register' \in [Who -> RegisterType]
        BY <1>12, DoneType DEF ProfilesDone, Who
    <2>2. attempt' \in 0 .. Attempts
        BY <1>12, CountAssumption DEF ProfilesDone, Ends
    <2>3. HubType /\ hub' # "joining"
        BY <1>12, <1>t DEF ProfilesDone, Ends, HubType
    <2> QED BY <1>12, <1>t, <1>m, <2>1, <2>2, <2>3 DEF ProfilesDone
<1>13. CASE ReaderNotices
    BY <1>13, <1>t, <1>m, <1>s, ReaderType DEF ReaderNotices, Joins, HubType, WaitsForOne
<1>14. CASE ReaderTimesOut
    BY <1>14, <1>t, <1>m, <1>s, ReaderType DEF ReaderTimesOut, Joins, HubType, WaitsForOne
<1>15. CASE Garbled
    BY <1>15, <1>t, <1>m, <1>s, ReaderType, TroubleType DEF Garbled, Joins, HubType, WaitsForOne
<1>16. CASE ReaderReturns
    BY <1>16, <1>t, <1>m, ReaderType DEF ReaderReturns, HubType, WaitsForOne
<1>17. CASE Startup
    <2>1. register' \in [Who -> RegisterType]
        BY <1>17, Records, SetRegister DEF Startup, Who
    <2> QED BY <1>17, <1>t, <1>m, <2>1 DEF Startup, HubType, WaitsForOne
<1>18. CASE Tick
    <2>1. register' \in [Who -> RegisterType]
        BY <1>18, <1>t, Records, SetRegister DEF Tick, Who
    <2> QED BY <1>18, <1>t, <1>m, <1>s, <2>1 DEF Tick, HubType
<1>19. CASE RegisterNow
    <2>1. register' \in [Who -> RegisterType]
        BY <1>19, Records, SetRegister DEF RegisterNow, Who
    <2> QED BY <1>19, <1>t, <1>m, <2>1, TroubleType DEF RegisterNow, HubType, WaitsForOne
<1>20. CASE ForceReconnect
    BY <1>20, <1>t, <1>m, <1>s, TroubleType DEF ForceReconnect, HubType
<1>21. CASE Cut
    <2>1. link' \in [Links -> LinkState]
        BY <1>21, LinkType DEF Cut, In, LinkState
    <2> QED BY <1>21, <1>t, <1>m, <2>1, TroubleType DEF Cut, HubType, WaitsForOne
<1>22. CASE GoesSilent
    <2>1. link' \in [Links -> LinkState]
        BY <1>22, LinkType DEF GoesSilent, In, LinkState
    <2> QED BY <1>22, <1>t, <1>m, <2>1, TroubleType DEF GoesSilent, HubType, WaitsForOne
<1>23. CASE CallBegins
    BY <1>23, <1>t, <1>m, TroubleType DEF CallBegins, HubType, WaitsForOne
<1>24. CASE CallEnds
    BY <1>24, <1>t, <1>m DEF CallEnds, HubType, WaitsForOne
<1>25. CASE Unloads
    <2>1. "hub" \in Who /\ "reconnect" \in Who
        BY DEF Who
    <2>2. register' \in [Who -> RegisterType]
        BY <1>25, <1>t, <2>1, Records DEF Unloads
    <2>3. reader' \in [at : {"reading", "joined", "off"}, of : Links \cup {None}]
        BY <1>25 DEF Unloads, Off
    <2>4. attempt' \in 0 .. Attempts /\ hub' = "stopping"
        BY <1>25, CountAssumption DEF Unloads
    <2>6. in_call' \in BOOLEAN
        BY <1>25, Zenon DEF Unloads
    <2>5. UNCHANGED <<udp, stream, link, registered>> /\ trouble' \in 0 .. MaxTrouble
        BY <1>25, TroubleType DEF Unloads
    <2> QED BY <1>t, <1>m, <2>2, <2>3, <2>4, <2>5, <2>6 DEF HubType
<1>26. CASE Resets
    BY <1>26, <1>t, <1>m, ResetType, ClosingType DEF Resets, HubType
<1>27. CASE SetsUp
    <2>1. stream' \in Links /\ link' \in [Links -> LinkState]
        BY <1>27, Chosen, LinkType DEF SetsUp, LinkState
    <2>2. reader' \in [at : {"reading", "joined", "off"}, of : Links \cup {None}]
        BY <1>27, <2>1 DEF SetsUp
    <2> QED BY <1>27, <1>t, <1>m, <2>1, <2>2 DEF SetsUp, HubType
<1>28. CASE SetupFails
    BY <1>28, <1>t, <1>m, ResetType, ClosingType, TroubleType DEF SetupFails, HubType
<1> QED BY <1>1, <1>2, <1>3, <1>4, <1>5, <1>6, <1>7, <1>8, <1>9, <1>10, <1>11, <1>12, <1>13,
           <1>14, <1>15, <1>16, <1>17, <1>18, <1>19, <1>20, <1>21, <1>22, <1>23, <1>24, <1>25, <1>26,
           <1>27, <1>28 DEF Next

\* Every variable has its type, with any number of connections, attempts and
\* challenges (state of sip_client.py, and of the keepalive of hub.py).
THEOREM TypeCorrect == Spec => []TypeOK
<1>1. IInv => TypeOK
    BY DEF IInv
<1> QED BY InitInv, NextInv, <1>1, PTL DEF Spec

\* The keepalive waits for a reconnection only while one is running: no reconnection
\* ends without waking it (reconnect, _keepalive_tick).
THEOREM NeverWaitsInVain == Spec => []WaitsForOne
<1>1. IInv => WaitsForOne
    BY DEF IInv
<1> QED BY InitInv, NextInv, <1>1, PTL DEF Spec

=============================================================================
