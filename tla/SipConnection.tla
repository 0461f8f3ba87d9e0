---------------------------- MODULE SipConnection ----------------------------
(***************************************************************************)
(* The connection to the SIP proxy: its reader, the REGISTER transactions,  *)
(* the one reconnection at a time, the keepalive, and what a reload of the  *)
(* integration stops and what it leaves (sip_client.py, hub.py).  On the    *)
(* cloud a connection is a TLS stream; on local UDP it is one socket until  *)
(* the next reload, which the panel may leave unanswered.                   *)
(***************************************************************************)
EXTENDS Naturals

CONSTANTS
    Links,      \* connections that can exist at a time
    None,       \* reader = writer = None
    Attempts,   \* of one reconnection: the delays 2, 4, 8, 16, 32
    Challenges, \* REGISTERs of one do_register
    Troubles,   \* what the network, the registrar and the user may do
    MaxTrouble  \* bound: how often

ASSUME LinkAssumption == Links # {} /\ None \notin Links
ASSUME CountAssumption == /\ Attempts \in Nat \ {0} /\ Challenges \in Nat \ {0}
                          /\ MaxTrouble \in Nat

\* Those who run do_register: startup and keepalive, the reconnection, the SIP test
\* of the options.
Who == {"hub", "reconnect", "options"}

VARIABLES
    udp,         \* USE_LOCAL_UDP
    stream,      \* reader, writer: the current connection
    link,        \* each connection, as its ends see it
    reader,      \* what reader_task does, and with which connection
    register,    \* each do_register
    registered,
    hub,         \* startup and keepalive
    attempt,     \* of the reconnection; 0: there is none
    in_call,
    trouble      \* so far

vars == <<udp, stream, link, reader, register, registered, hub, attempt, in_call, trouble>>

\* "cut": closed by the proxy or the network, the reader gets EOF; "silent": no
\* answer and no EOF; "closing": closed by us, until the TLS shutdown is over;
\* "hung": the same of a silent one.
LinkState == {"unused", "up", "silent", "cut", "closing", "hung", "closed"}
Idle == [at |-> "idle", on |-> None, tries |-> 0]
Off == [at |-> "off", of |-> None]

Init ==
    /\ udp \in BOOLEAN
    /\ stream = None
    /\ link = [c \in Links |-> "unused"]
    /\ reader = Off
    /\ register = [w \in Who |-> Idle]
    /\ registered = FALSE
    /\ hub = "setup"
    /\ attempt = 0
    /\ in_call = FALSE
    /\ trouble = 0

Trouble(kind) == kind \in Troubles /\ trouble < MaxTrouble /\ trouble' = trouble + 1

----------------------------------------------------------------------------
\* Reconnection: _reconnect_started makes the task unless one runs.

Starts == /\ attempt' = IF attempt = 0 THEN 1 ELSE attempt
          /\ registered' = (registered /\ attempt # 0)

\* Writing to it raises; writer.is_closing() says so earlier.
In(states) == { c \in Links : link[c] \in states }
Broken == stream \notin In({"up", "silent", "closing", "hung"})
Gone == stream \notin In({"up", "silent"})

\* do_register up to its first await: connect() when there is no stream.
Begun == IF Gone THEN [Idle EXCEPT !.at = "connecting"]
                 ELSE [at |-> "sent", on |-> stream, tries |-> 1]

\* writer.close() on the current stream.
Closing == [l \in Links |-> IF l # stream THEN link[l]
                            ELSE CASE link[l] = "up" -> "closing"
                                   [] link[l] = "silent" -> "hung"
                                   [] OTHER -> link[l]]

\* The delay of the attempt is over: the old stream is closed, connect() begins.
Reconnects ==
    /\ attempt > 0 /\ register["reconnect"].at = "idle"
    /\ IF udp
       THEN register' = [register EXCEPT !["reconnect"] = Begun] /\ UNCHANGED link
       ELSE /\ register' = [register EXCEPT !["reconnect"].at = "connecting"]
            /\ link' = Closing
    /\ UNCHANGED <<udp, stream, reader, registered, hub, attempt, in_call, trouble>>

\* What the caller makes of do_register's result.  The keepalive: in a call one more
\* REGISTER, else a reconnection, which it waits for.
Done(w) == register' = [register EXCEPT ![w] = Idle]
HubReturns(ok) ==
    IF ~ok /\ hub = "renewing"
    THEN IF in_call
         THEN hub' = "retrying" /\ register' = [register EXCEPT !["hub"] = Begun]
                                /\ UNCHANGED attempt
         ELSE hub' = "joining" /\ Done("hub") /\ attempt' = IF attempt = 0 THEN 1 ELSE attempt
    ELSE hub' = "resting" /\ Done("hub") /\ UNCHANGED attempt
Ends_Unheard == attempt' = 0 /\ UNCHANGED hub
Ends == attempt' = 0 /\ hub' = IF hub = "joining" THEN "resting" ELSE hub
ReconnectReturns_SixDelays(ok) ==
    /\ Done("reconnect")
    /\ IF ok \/ attempt > Attempts THEN Ends ELSE attempt' = attempt + 1 /\ UNCHANGED hub
ReconnectReturns(ok) ==
    IF ok /\ ~udp
    THEN register' = [register EXCEPT !["reconnect"] = [Idle EXCEPT !.at = "profiles"]]
         /\ UNCHANGED <<attempt, hub>>
    ELSE /\ Done("reconnect")
         /\ IF ok \/ attempt = Attempts THEN Ends ELSE attempt' = attempt + 1 /\ UNCHANGED hub
Returns(w, ok) ==
    CASE w = "hub" -> HubReturns(ok)
      [] w = "reconnect" -> ReconnectReturns(ok)
      [] w = "options" -> Done(w) /\ UNCHANGED <<attempt, hub>>

\* An exception of connect() or send() leaves `registered` as it was, and ends the
\* keepalive's tick.
Raises(w) ==
    IF w = "hub" THEN Done(w) /\ hub' = "resting" /\ UNCHANGED attempt ELSE Returns(w, FALSE)

----------------------------------------------------------------------------
\* connect().

\* Bound: Links.  An id that nobody refers to any more can name a new connection; one
\* is left when there are five (stream, reader.of, two REGISTERs).
Unreferenced == { c \in Links \ {stream, reader.of} : \A w \in Who : register[w].on # c }

Connects(w) ==
    /\ register[w].at = "connecting"
    /\ Unreferenced # {}
    /\ LET c == CHOOSE l \in Unreferenced : TRUE IN
       /\ stream' = c
       /\ link' = [link EXCEPT ![c] = "up"]
       /\ register' = [register EXCEPT ![w] = [at |-> "sent", on |-> c, tries |-> 1]]
    /\ UNCHANGED <<udp, reader, registered, hub, attempt, in_call, trouble>>

ConnectFails(w) ==
    /\ register[w].at = "connecting"
    /\ Trouble("connect")
    /\ stream' = None
    /\ Raises(w)
    /\ UNCHANGED <<udp, link, reader, registered, in_call>>

----------------------------------------------------------------------------
\* REGISTER.

\* Only reader_task reads the answers; then it reads from the current stream.
Heard(w) == /\ register[w].at = "sent" /\ link[register[w].on] = "up"
            /\ reader = [at |-> "reading", of |-> register[w].on]
            /\ reader' = [reader EXCEPT !.of = stream]

Passes(w) ==
    /\ Heard(w)
    /\ registered' = TRUE
    /\ Returns(w, TRUE)
    /\ UNCHANGED <<udp, stream, link, in_call, trouble>>

Fails(w) == registered' = FALSE /\ Returns(w, FALSE)

\* 401 or 407 with a new nonce; every do_register gets one.
Challenged(w) ==
    /\ Heard(w)
    /\ IF register[w].tries = 1 THEN UNCHANGED trouble ELSE Trouble("challenge")
    /\ \/ /\ register[w].tries < Challenges /\ ~Broken
          /\ register' = [register EXCEPT ![w].on = stream, ![w].tries = @ + 1]
          /\ UNCHANGED <<registered, hub, attempt>>
       \/ /\ register[w].tries < Challenges /\ Broken
          /\ Raises(w) /\ UNCHANGED registered
       \/ /\ register[w].tries = Challenges
          /\ Fails(w)
    /\ UNCHANGED <<udp, stream, link, in_call>>

\* The same nonce again, or any other refusal.
Rejected(w) ==
    /\ Heard(w)
    /\ Trouble("reject")
    /\ Fails(w)
    /\ UNCHANGED <<udp, stream, link, in_call>>

\* The answer gets lost.
Unanswered(w) ==
    /\ register[w].at = "sent"
    /\ Trouble("answer")
    /\ register' = [register EXCEPT ![w].at = "lost"]
    /\ UNCHANGED <<udp, stream, link, reader, registered, hub, attempt, in_call>>

\* _reconnect_from_reader comes back as soon as there is a connection other than the
\* one it left.
CanReturn_WhenDone == attempt = 0
CanReturn == attempt = 0 \/ stream \notin {reader.of, None}

\* 15 s without an answer.  The reader's own steps are shorter; a read from a stream
\* that says nothing is not.
TimesOut(w) ==
    /\ \/ register[w].at = "lost"
       \/ /\ register[w].at = "sent"
          /\ \/ link[register[w].on] # "up" \/ reader.at = "off"
             \/ reader.at = "joined" /\ ~CanReturn
             \/ /\ reader.at = "reading" /\ reader.of # register[w].on
                /\ reader.of \in In({"up", "silent", "hung"})
    /\ Fails(w)
    /\ UNCHANGED <<udp, stream, link, reader, in_call, trouble>>

\* do_connect_profiles: HTTP, whatever comes of it.
ProfilesDone ==
    /\ register["reconnect"].at = "profiles"
    /\ Done("reconnect") /\ Ends
    /\ UNCHANGED <<udp, stream, link, reader, registered, in_call, trouble>>

----------------------------------------------------------------------------
\* reader_task.

\* Without a stream the read raises, as it does with a broken one.
Joins == reader' = [at |-> "joined", of |-> stream] /\ Starts

ReaderNotices ==
    /\ reader.at = "reading" /\ reader.of \notin In({"up", "silent", "closing", "hung"})
    /\ Joins
    /\ UNCHANGED <<udp, stream, link, register, hub, in_call, trouble>>

\* 30 s without a byte: a CRLF on the current stream, then it reads from that one.
ReaderTimesOut ==
    /\ reader.at = "reading" /\ ~udp
    /\ reader.of \in In({"up", "silent", "closing", "hung"}) \ (In({"up"}) \cap {stream})
    /\ IF Broken
       THEN Joins
       ELSE reader' = [reader EXCEPT !.of = stream] /\ UNCHANGED <<attempt, registered>>
    /\ UNCHANGED <<udp, stream, link, register, hub, in_call, trouble>>

\* Bytes that do not frame: the reader leaves a connection that is up.
Garbled ==
    /\ ~udp /\ reader.at = "reading" /\ reader.of \in In({"up"})
    /\ Trouble("garbled")
    /\ Joins
    /\ UNCHANGED <<udp, stream, link, register, hub, in_call>>

ReaderReturns ==
    /\ reader.at = "joined" /\ CanReturn
    /\ reader' = [at |-> "reading", of |-> stream]
    /\ UNCHANGED <<udp, stream, link, register, registered, hub, attempt, in_call, trouble>>

----------------------------------------------------------------------------
\* Reload: unload and setup of the integration.

Loaded == hub \notin {"setup", "stopping"}

\* async_stop: the call is hung up, the hub's tasks and the reconnection end; a REGISTER
\* of the options is nobody's task, and goes on.
Unloads ==
    /\ Loaded
    /\ Trouble("reload")
    /\ hub' = "stopping" /\ reader' = Off /\ attempt' = 0 /\ in_call' = FALSE
    /\ register' = [register EXCEPT !["hub"] = Idle, !["reconnect"] = Idle]
    /\ UNCHANGED <<udp, stream, link, registered>>

\* reset_state: whoever waits for an answer is told that there will be none; who
\* connects is not.
Reset ==
    /\ stream' = None
    /\ registered' = FALSE
    /\ register' = [register EXCEPT !["options"] = IF @.at = "connecting" THEN @ ELSE Idle]

Resets ==
    /\ hub = "stopping" /\ hub' = "setup"
    /\ Reset
    /\ link' = Closing
    /\ UNCHANGED <<udp, reader, attempt, in_call, trouble>>

\* async_start: connect(), then the tasks.  On local UDP the panel may be silent.
SetsUp ==
    /\ hub = "setup" /\ Unreferenced # {}
    /\ LET c == CHOOSE l \in Unreferenced : TRUE IN
       /\ stream' = c /\ reader' = [at |-> "reading", of |-> c]
       /\ \E s \in IF udp THEN {"up", "silent"} ELSE {"up"} : link' = [link EXCEPT ![c] = s]
    /\ hub' = "startup"
    /\ UNCHANGED <<udp, register, registered, attempt, in_call, trouble>>

\* ConfigEntryNotReady: Home Assistant tries again later.
SetupFails ==
    /\ hub = "setup"
    /\ Trouble("connect")
    /\ Reset
    /\ link' = IF udp THEN Closing ELSE link
    /\ UNCHANGED <<udp, reader, hub, attempt, in_call>>

----------------------------------------------------------------------------
\* The hub, the options and the card.

Startup ==
    /\ hub = "startup" /\ register["hub"].at = "idle"
    /\ register' = [register EXCEPT !["hub"] = Begun]
    /\ UNCHANGED <<udp, stream, link, reader, registered, hub, attempt, in_call, trouble>>

\* _keepalive_tick: a renewal; without a registration a reconnection, which it joins
\* when one is running.
TickDue == hub = "resting"
Tick ==
    /\ TickDue
    /\ IF registered
       THEN /\ hub' = "renewing"
            /\ register' = [register EXCEPT !["hub"] = Begun]
            /\ UNCHANGED <<attempt, registered>>
       ELSE hub' = "joining" /\ Starts /\ UNCHANGED register
    /\ UNCHANGED <<udp, stream, link, reader, in_call, trouble>>

\* async_register_now, after the SIP test of the options.
RegisterNow ==
    /\ Loaded /\ register["options"].at = "idle"
    /\ Trouble("options")
    /\ register' = [register EXCEPT !["options"] = Begun]
    /\ UNCHANGED <<udp, stream, link, reader, registered, hub, attempt, in_call>>

\* "reconnect" on the WebSocket.
ForceReconnect ==
    /\ Loaded /\ Trouble("force")
    /\ Starts
    /\ UNCHANGED <<udp, stream, link, reader, register, hub, in_call>>

----------------------------------------------------------------------------
\* The network, and calls.

Cut == /\ ~udp /\ stream \in In({"up"})
       /\ Trouble("cut")
       /\ link' = [link EXCEPT ![stream] = "cut"]
       /\ UNCHANGED <<udp, stream, reader, register, registered, hub, attempt, in_call>>

GoesSilent == /\ stream \in In({"up"})
              /\ Trouble("silence")
              /\ link' = [link EXCEPT ![stream] = "silent"]
              /\ UNCHANGED <<udp, stream, reader, register, registered, hub, attempt, in_call>>

\* TLS: the kernel gives the connection up.  UDP: the panel is back.
SilenceEnds(c) ==
    /\ link[c] = "silent"
    /\ link' = [link EXCEPT ![c] = IF udp THEN "up" ELSE "cut"]
    /\ UNCHANGED <<udp, stream, reader, register, registered, hub, attempt, in_call, trouble>>

ShutdownEnds(c) ==
    /\ link[c] = "closing"
    /\ link' = [link EXCEPT ![c] = "closed"]
    /\ UNCHANGED <<udp, stream, reader, register, registered, hub, attempt, in_call, trouble>>

CallBegins == /\ ~in_call /\ stream \in In({"up"})
              /\ reader = [at |-> "reading", of |-> stream]
              /\ in_call' = TRUE
              /\ Trouble("call")
              /\ UNCHANGED <<udp, stream, link, reader, register, registered, hub, attempt>>
CallEnds == /\ in_call /\ in_call' = FALSE
            /\ UNCHANGED <<udp, stream, link, reader, register, registered, hub, attempt, trouble>>

Next ==
    \/ \E w \in Who : \/ Connects(w) \/ ConnectFails(w) \/ Passes(w) \/ Challenged(w)
                      \/ Rejected(w) \/ Unanswered(w) \/ TimesOut(w)
    \/ \E c \in Links : SilenceEnds(c) \/ ShutdownEnds(c)
    \/ Reconnects \/ ProfilesDone \/ ReaderNotices \/ ReaderTimesOut \/ Garbled \/ ReaderReturns
    \/ Startup \/ Tick \/ RegisterNow \/ ForceReconnect
    \/ Unloads \/ Resets \/ SetsUp \/ SetupFails
    \/ Cut \/ GoesSilent \/ CallBegins \/ CallEnds

Spec == Init /\ [][Next]_vars

\* Tasks run, timers fire, the registrar answers what it hears, a broken connection
\* shows in the end.  A REGISTER that is challenged passes in the end: strong fairness.
Fairness ==
    /\ \A w \in Who : WF_vars(Connects(w)) /\ SF_vars(Passes(w)) /\ WF_vars(TimesOut(w))
    /\ \A c \in Links : WF_vars(SilenceEnds(c)) /\ WF_vars(ShutdownEnds(c))
    /\ WF_vars(Reconnects) /\ WF_vars(ProfilesDone)
    /\ WF_vars(ReaderNotices) /\ WF_vars(ReaderTimesOut) /\ WF_vars(ReaderReturns)
    /\ WF_vars(Resets) /\ WF_vars(SetsUp) /\ WF_vars(Startup) /\ WF_vars(Tick)
FairSpec == Spec /\ Fairness

----------------------------------------------------------------------------
\* Properties.

\* Every variable has its type.
TypeOK ==
    /\ udp \in BOOLEAN
    /\ stream \in Links \cup {None}
    /\ link \in [Links -> LinkState]
    /\ reader \in [at : {"reading", "joined", "off"}, of : Links \cup {None}]
    /\ register \in [Who -> [at : {"idle", "connecting", "sent", "lost", "profiles"},
                             on : Links \cup {None}, tries : 0 .. Challenges]]
    /\ registered \in BOOLEAN
    /\ hub \in {"setup", "startup", "resting", "renewing", "retrying", "joining", "stopping"}
    /\ attempt \in 0 .. Attempts
    /\ in_call \in BOOLEAN
    /\ trouble \in 0 .. MaxTrouble

\* After the last trouble the integration is registered for good, over a connection
\* that is up and that the reader reads.
Settles == <>[](/\ registered
                /\ reader = [at |-> "reading", of |-> stream]
                /\ stream \in In({"up"}))

\* The keepalive's loop goes on: no tick waits for ever, whatever it joined.
KeepaliveLives == []<>(hub = "resting")

\* The keepalive waits for a reconnection only while one is running (reconnect
\* shields the task it found or made).
WaitsForOne == hub = "joining" => attempt > 0

\* A failed renewal does not cost a call its connection.
CallKeepsLink ==
    [][in_call /\ stream \in In({"up"}) => link'[stream] # "closing"]_vars

\* One connection at a time is opened.
OneConnect ==
    \A v, w \in Who : register[v].at = "connecting" /\ register[w].at = "connecting" => v = w

\* The reader does not wait for a reconnection that waits for the reader.
ReaderThere ==
    register["reconnect"].at = "sent" /\ link[register["reconnect"].on] = "up"
        => ~(reader.at = "joined" /\ reader.of = stream)

=============================================================================
