----------------------------- MODULE PlantMessages -----------------------------
(***************************************************************************)
(* SIP MESSAGEs between the plant and the hub.  In: the queue of requests     *)
(* (request_processor of sip_client.py), the copies the relay makes and the   *)
(* plant repeats while its 200 does not come, and the hub's being told, which *)
(* a change of panel silences (views.py).  Out: the door command (async_door  *)
(* of hub.py), sent once more after a new registration.                       *)
(***************************************************************************)
EXTENDS Integers, Sequences, FiniteSets

CONSTANTS
    Msgs,       \* MESSAGEs and NOTIFYs of the plant
    MaxCopies,  \* bound: how often each is delivered
    Window,     \* DUPLICATE_WINDOW, in steps of the clock
    MaxTime,    \* bound
    Fails,      \* the connection may be down when the 200 is sent
    Switches,   \* bound: changes of panel
    Doors,      \* uses of the door button
    None

VARIABLES
    now,
    copies, last_copy,  \* of each message: how many came, when the last one did
    queue,              \* incoming_requests
    handling,           \* the request whose broadcast suspends
    seen,               \* _seen_requests
    last_sweep,
    silenced, switches, \* _suppress_broadcast
    told,               \* (history) what the hub was told, in order
    answered,           \* the messages whose 200 has left
    muted,              \* (history) those read while broadcasts were silenced
    door,               \* where each use of the button stands
    opened,             \* how often it made the panel open
    door_count

inVars == <<now, copies, last_copy, queue, handling, seen, last_sweep, silenced, switches, told, answered, muted>>
outVars == <<door, opened, door_count>>
vars == <<inVars, outVars>>

Init ==
    /\ now = 0 /\ last_sweep = 0
    /\ copies = [m \in Msgs |-> 0] /\ last_copy = [m \in Msgs |-> 0]
    /\ queue = <<>> /\ handling = None
    /\ seen = [m \in Msgs |-> None]
    /\ silenced = FALSE /\ switches = 0
    /\ told = <<>> /\ answered = {} /\ muted = {}
    /\ door = [d \in Doors |-> "unused"] /\ opened = [d \in Doors |-> 0] /\ door_count = 0

-----------------------------------------------------------------------------
(* The plant's messages.                                                      *)

\* Seconds pass only when no request waits to be handled.
Tick ==
    /\ now < MaxTime /\ queue = <<>> /\ handling = None
    /\ now' = now + 1
    /\ UNCHANGED <<copies, last_copy, queue, handling, seen, last_sweep, silenced, switches, told, answered,
                   muted, outVars>>

\* The first copy, and the copies of relay and plant, none later than Window after another.
Arrives(m) ==
    /\ copies[m] < MaxCopies
    /\ copies[m] > 0 => now - last_copy[m] <= Window
    /\ copies' = [copies EXCEPT ![m] = @ + 1] /\ last_copy' = [last_copy EXCEPT ![m] = now]
    /\ queue' = Append(queue, m)
    /\ UNCHANGED <<now, handling, seen, last_sweep, silenced, switches, told, answered, muted, outVars>>

\* _is_duplicate: a sweep at most once a second, then the key, noted anew at every copy.
Old(m) == seen[m] # None /\ now - seen[m] > Window
Noted_First(s, m) == IF s[m] = None THEN [s EXCEPT ![m] = now] ELSE s
Noted(s, m) == [s EXCEPT ![m] = now]
Duplicate(m) == seen[m] # None /\ now - seen[m] <= Window
Sweeps == now - last_sweep >= 1

\* The hub is told before the 200 goes out, and the message is noted before both.
Process ==
    /\ queue # <<>> /\ handling = None
    /\ LET m == Head(queue)
           kept == [n \in Msgs |-> IF Sweeps /\ Old(n) THEN None ELSE seen[n]]
       IN /\ queue' = Tail(queue)
          /\ handling' = m
          /\ last_sweep' = IF Sweeps THEN now ELSE last_sweep
          /\ seen' = Noted(kept, m)
          /\ told' = IF Duplicate(m) \/ silenced THEN told ELSE Append(told, m)
          /\ muted' = IF silenced /\ ~Duplicate(m) THEN muted \cup {m} ELSE muted
    /\ UNCHANGED <<now, copies, last_copy, silenced, switches, answered, outVars>>

\* A 200 that cannot be sent raises, and the loop goes on to the next request.
Answers == \E sent \in {TRUE} \cup (IF Fails THEN {FALSE} ELSE {}) :
    /\ handling # None
    /\ answered' = IF sent THEN answered \cup {handling} ELSE answered
    /\ handling' = None
    /\ UNCHANGED <<now, copies, last_copy, queue, seen, last_sweep, silenced, switches, told, muted, outVars>>

\* The card changes panel: its own BYE is not the end of a call.
SwitchBegins ==
    /\ switches < Switches /\ ~silenced
    /\ silenced' = TRUE /\ switches' = switches + 1
    /\ UNCHANGED <<now, copies, last_copy, queue, handling, seen, last_sweep, told, answered, muted, outVars>>
SwitchEnds ==
    /\ silenced
    /\ silenced' = FALSE
    /\ UNCHANGED <<now, copies, last_copy, queue, handling, seen, last_sweep, switches, told, answered, muted,
                   outVars>>

-----------------------------------------------------------------------------
(* The door: one MESSAGE, and one more after a registration.                  *)

Stands(d, where) == door' = [door EXCEPT ![d] = where]
Press(d) == door[d] = "unused" /\ Stands(d, "first") /\ UNCHANGED <<opened, door_count, inVars>>

Sending(d) == door[d] \in {"first", "second"}
Taken(d) == IF door[d] = "first" THEN "first_taken" ELSE "second_taken"
\* The panel reads it, and opens; its answer may still be lost.
Opens(d) ==
    /\ Sending(d)
    /\ Stands(d, Taken(d))
    /\ opened' = [opened EXCEPT ![d] = @ + 1]
    /\ UNCHANGED <<door_count, inVars>>

Succeeds(d) ==
    /\ door[d] \in {"first_taken", "second_taken"}
    /\ Stands(d, "ok")
    /\ door_count' = door_count + 1
    /\ UNCHANGED <<opened, inVars>>

\* No answer, or an error: registered again, it is sent once more; otherwise it fails.
Retries(d) == door[d] \in {"first", "first_taken"}
Retry(d) ==
    /\ Retries(d)
    /\ Stands(d, "second")
    /\ UNCHANGED <<opened, door_count, inVars>>
Fail(d) ==
    /\ door[d] \notin {"unused", "ok", "failed"}
    /\ Stands(d, "failed")
    /\ UNCHANGED <<opened, door_count, inVars>>

Next ==
    \/ Tick \/ (\E m \in Msgs : Arrives(m)) \/ Process \/ Answers \/ SwitchBegins \/ SwitchEnds
    \/ \E d \in Doors : Press(d) \/ Opens(d) \/ Succeeds(d) \/ Retry(d) \/ Fail(d)

Spec == Init /\ [][Next]_vars
-----------------------------------------------------------------------------
TypeOK ==
    /\ handling \in Msgs \cup {None} /\ answered \subseteq Msgs /\ muted \subseteq Msgs
    /\ \A m \in Msgs : seen[m] = None \/ seen[m] \in 0 .. now
    /\ door_count <= Cardinality(Doors)

\* However often a message is delivered, the hub is told of it once, and in the order the
\* messages were first read.
ToldOnce == \A m, n \in DOMAIN told : told[m] = told[n] => m = n

\* A message the plant has an answer to was told to the hub, unless a change of panel was
\* silencing the broadcasts when it was read.
NotForgotten == \A m \in answered : m \in muted \/ \E n \in DOMAIN told : told[n] = m

\* A door that is said to be open was opened; each press opens it twice at most (when the
\* first answer gets lost), and counts once.
DoorOpens ==
    /\ \A d \in Doors : opened[d] <= 2 /\ (door[d] = "ok" => opened[d] > 0)
    /\ door_count = Cardinality({d \in Doors : door[d] = "ok"})
=============================================================================
