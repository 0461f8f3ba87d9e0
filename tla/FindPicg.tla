------------------------------- MODULE FindPicg -------------------------------
(***************************************************************************)
(* The search for the apartment's head unit (async_find_picg of hub.py): the  *)
(* addresses are asked one at a time, and the panel's reply comes apart, in   *)
(* time, late or never.                                                       *)
(***************************************************************************)
EXTENDS Naturals, Sequences

CONSTANTS
    Searchers,  \* calls of the service find_sga, once each
    Targets,    \* the addresses, in order
    ByContent,  \* the probe is GET_NICKS, whose reply names the head unit
    Exist,      \* the addresses that answer
    Answering,  \* those whose probe makes the panel reply
    Picg,       \* the address GET_NICKS_REPLY names
    LateBy,     \* what a late reply may fall into: the "pause" after its probe, the next "probe"
    Registers,  \* the registration is never lost
    None

VARIABLES
    scanning,     \* who holds _scan_lock
    at,           \* where it stands with the address number i
    i,
    delivered,
    replies,      \* the probes whose reply is on its way
    waiter,       \* _probe_waiter: pending, resolved or None
    seq, seq0,    \* replies counted, and the count at the last look
    began,        \* (history) the count when the search began
    nicknames,    \* the address named by the last GET_NICKS_REPLY
    picg, reply_after, candidates,
    result        \* what each search gave

search == <<scanning, at, i, delivered, seq0, began, picg, reply_after, candidates, result>>
vars == <<search, replies, waiter, seq, nicknames>>

Init ==
    /\ scanning = None /\ at = "idle" /\ i = 0 /\ delivered = FALSE
    /\ replies = {} /\ waiter = None /\ seq = 0 /\ seq0 = 0 /\ began = 0 /\ nicknames = None
    /\ picg = None /\ reply_after = None /\ candidates = <<>>
    /\ result = [s \in Searchers |-> None]

Target == Targets[i]

\* One search at a time; a second one is refused at once.
Refused == [ok |-> FALSE, picg |-> None, candidates |-> <<>>, heard |-> FALSE]
Search(s) ==
    /\ result[s] = None /\ scanning # s
    /\ \/ /\ scanning # None
          /\ result' = [result EXCEPT ![s] = Refused]
          /\ UNCHANGED <<scanning, at, i, delivered, seq0, began, picg, reply_after, candidates, waiter>>
       \/ /\ scanning = None
          /\ scanning' = s /\ at' = "sending" /\ i' = 1 /\ delivered' = FALSE
          /\ seq0' = seq /\ began' = seq /\ waiter' = "pending"
          /\ picg' = None /\ reply_after' = None /\ candidates' = <<>>
          /\ UNCHANGED result
    /\ UNCHANGED <<replies, seq, nicknames>>

Ends(r) ==
    /\ result' = [result EXCEPT ![scanning] = r]
    /\ scanning' = None /\ at' = "idle" /\ waiter' = None

-----------------------------------------------------------------------------
(* An address: its answer, the panel's reply, the end of the wait.            *)

Delivered ==
    /\ at = "sending" /\ ~delivered
    /\ delivered' = TRUE
    /\ replies' = replies \cup (IF Target \in Answering THEN {i} ELSE {})
    /\ UNCHANGED <<scanning, at, i, seq0, began, picg, reply_after, candidates, result, waiter, seq, nicknames>>

\* A late reply is this probe's or the one's before.
Suspects == SubSeq(Targets, IF i > 1 THEN i - 1 ELSE i, i)

\* What one look after an address concludes, `got` being the reply it waited for:
\* a count that moved tells of a reply out of its window.
Conclusion(got) ==
    LET after == IF got THEN Target ELSE reply_after
        found == CASE got /\ ByContent -> nicknames
                   [] got /\ ~ByContent -> Target
                   [] OTHER -> picg
        late == found = None /\ seq # seq0 /\ after = None
    IN [picg |-> IF late /\ ByContent THEN nicknames ELSE found,
        after |-> IF late /\ ByContent /\ nicknames # None THEN Target ELSE after,
        candidates |-> IF late /\ ~ByContent THEN Suspects ELSE <<>>]

Looks(got) ==
    LET c == Conclusion(got) IN
    /\ seq0' = seq
    /\ picg' = c.picg /\ reply_after' = c.after /\ candidates' = c.candidates
    /\ IF c.picg # None \/ c.candidates # <<>> \/ i = Len(Targets)
       THEN Ends([ok |-> TRUE, picg |-> c.picg, candidates |-> c.candidates, heard |-> seq # began])
       ELSE at' = "pause" /\ UNCHANGED <<scanning, result, waiter>>
    /\ UNCHANGED <<i, delivered, replies, seq, began, nicknames>>

Accepted ==
    /\ at = "sending" /\ delivered /\ Target \in Exist
    /\ at' = "waiting"
    /\ UNCHANGED <<scanning, i, delivered, seq0, began, picg, reply_after, candidates, result, replies, waiter,
                   seq, nicknames>>
NotAccepted == at = "sending" /\ Looks(FALSE)
NotRegistered ==
    /\ ~Registers /\ at = "sending" /\ ~delivered
    /\ Ends(Refused)
    /\ UNCHANGED <<i, delivered, seq0, began, picg, reply_after, candidates, replies, seq, nicknames>>

Replied == at = "waiting" /\ waiter = "resolved" /\ Looks(TRUE)
WindowEnds == at = "waiting" /\ waiter = "pending" /\ Looks(FALSE)

NextAddress ==
    /\ at = "pause"
    /\ at' = "sending" /\ i' = i + 1 /\ delivered' = FALSE /\ waiter' = "pending"
    /\ UNCHANGED <<scanning, seq0, began, picg, reply_after, candidates, result, replies, seq, nicknames>>

-----------------------------------------------------------------------------
(* The panel's reply, to the search or after it.                              *)

MayCome(j) ==
    \/ at = "idle"
    \/ j = i /\ (at \in {"sending", "waiting"} \/ "pause" \in LateBy)
    \/ j = i - 1 /\ at \in {"sending", "waiting"} /\ "probe" \in LateBy
Resolved(w) == IF w = "pending" THEN "resolved" ELSE w
Reply == \E j \in replies :
    /\ MayCome(j)
    /\ replies' = replies \ {j}
    /\ seq' = seq + 1
    /\ nicknames' = IF ByContent THEN Picg ELSE nicknames
    /\ waiter' = Resolved(waiter)
    /\ UNCHANGED search

Next ==
    \/ \E s \in Searchers : Search(s)
    \/ Delivered \/ Accepted \/ NotAccepted \/ NotRegistered \/ Replied \/ WindowEnds \/ NextAddress \/ Reply

Spec == Init /\ [][Next]_vars
-----------------------------------------------------------------------------
TypeOK ==
    /\ scanning \in Searchers \cup {None} /\ at \in {"idle", "sending", "waiting", "pause"}
    /\ i \in 0 .. Len(Targets) /\ replies \subseteq 1 .. Len(Targets)
    /\ waiter \in {None, "pending", "resolved"} /\ seq0 <= seq

\* A search is over for everybody: nobody waits, and the lock is free.
SearchEnds == (at = "idle") <=> (scanning = None /\ waiter = None)

Named(r) == { r.candidates[n] : n \in DOMAIN r.candidates } \cup ({r.picg} \ {None})

\* The head unit a search names is the one the reply names or whose probe provoked it; when
\* a reply came too late to tell, the one that provoked it is among the two candidates.
NamesTheRight == \A s \in Searchers : result[s] # None =>
    /\ result[s].picg \in {None} \cup (IF ByContent THEN {Picg} ELSE Answering)
    /\ result[s].candidates # <<>> => Named(result[s]) \cap Answering # {}

\* A search that names nobody has heard no reply that could have told it.
NothingMissed == \A s \in Searchers : result[s] # None =>
    (Named(result[s]) # {} \/ ~result[s].heard \/ (ByContent /\ Picg = None))
=============================================================================
