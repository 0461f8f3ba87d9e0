-------------------------------- MODULE Srtp --------------------------------
(***************************************************************************)
(* The packet indices of an SRTP stream (srtp.py): the roll-over counter    *)
(* guessed from the sequence number, and the receiver's replay window, which *)
(* a run of far packets moves.  The sender numbers its packets as protect    *)
(* does.  A packet authenticates exactly when the receiver guesses its index. *)
(***************************************************************************)
EXTENDS Integers, FiniteSets

CONSTANTS
    SeqMod,       \* 2^16
    Window,       \* REPLAY_WINDOW, 128
    ResyncRun,    \* RESYNC_RUN, 3
    PastRun,      \* RESYNC_RUN_PAST_HALF_WRAP, 50
    None,
    Networks,     \* what the path does: see network
    Starts,       \* first sequence numbers
    MaxIndex,     \* bound: the last index sent
    MaxReordered, \* the same of "reordered"
    MaxJumps,     \* bound: how often the sender's numbers jump
    Flight        \* bound: packets on the path at a time

ASSUME WindowAssumption ==
    /\ SeqMod \in Nat /\ Window \in Nat /\ ResyncRun \in Nat /\ PastRun \in Nat
    /\ 0 < ResyncRun /\ ResyncRun <= PastRun /\ PastRun <= Window /\ Window < SeqMod
ASSUME BoundAssumption == MaxIndex \in Nat
ASSUME NoneAssumption == None \notin Int
ASSUME StartAssumption == Starts \subseteq 0 .. SeqMod - 1

VARIABLES
    network,   \* "reordered": and lost, and repeated; "in_order"; "strays": in order,
               \* with packets of elsewhere on the same SSRC
    seq,       \* of the sender's next packet
    last,      \* its _tx_index
    wire,      \* the packets on the path
    top, seen, far, run,   \* the _Window; seen holds the n of the bits set
    taken,     \* history: what the window let through since it was last placed, as
               \* far as it reaches
    lost,      \* history: the sender's packets refused since one was let through
    jumps, strays          \* so far

sender == <<seq, last, jumps>>
window == <<top, seen, far, run>>
vars == <<network, sender, wire, window, taken, lost, strays>>

Half == SeqMod \div 2
Dist(i, j) == IF i < j THEN j - i ELSE i - j

\* _estimate_index: the index nearest to the last one, the lower of two as near.
Nearer(i, j, l) == Dist(i, l) < Dist(j, l) \/ (Dist(i, l) = Dist(j, l) /\ i <= j)
Estimate(l, s) ==
    IF l = None THEN s
    ELSE LET near == { r * SeqMod + s : r \in {l \div SeqMod - 1, l \div SeqMod, l \div SeqMod + 1} \cap Nat }
         IN CHOOSE i \in near : \A j \in near : Nearer(i, j, l)

Init ==
    /\ network \in Networks
    /\ seq \in Starts
    /\ last = None /\ wire = {}
    /\ top = None /\ seen = {} /\ far = None /\ run = 0
    /\ taken = {} /\ lost = 0 /\ jumps = 0 /\ strays = 0

----------------------------------------------------------------------------
\* The sender, and what else comes on its SSRC.

Room == Cardinality(wire) < IF network = "reordered" THEN Flight ELSE 1

\* protect.
Send ==
    LET i == Estimate(last, seq) IN
    /\ Room /\ i <= IF network = "reordered" THEN MaxReordered ELSE MaxIndex
    /\ last' = IF last = None \/ i > last THEN i ELSE last
    /\ wire' = wire \cup {[index |-> i, stray |-> FALSE]}
    /\ seq' = (seq + 1) % SeqMod
    /\ UNCHANGED <<network, jumps, window, taken, lost, strays>>

\* A jump the receiver can follow: the packets it waits for before it moves its window
\* are all on the same side of half a wrap from where the window stands.
Followed(s) ==
    \A k \in 0 .. PastRun - 1 : Estimate(last, (s + k) % SeqMod) = Estimate(last, s) + k

\* A panel or relay that goes on from another number.
Jump(s) ==
    /\ last # None /\ s # seq /\ jumps < MaxJumps
    /\ network = "reordered" \/ (network = "in_order" /\ Followed(s))
    /\ seq' = s /\ jumps' = jumps + 1
    /\ UNCHANGED <<network, last, wire, window, taken, lost, strays>>

\* Too few of them for a run.
Stray(i) ==
    /\ network = "strays" /\ Room /\ top # None
    /\ i - last >= Window
    /\ strays < (IF i - last >= Half /\ last < Half THEN PastRun ELSE ResyncRun) - 1
    /\ wire' = wire \cup {[index |-> i, stray |-> TRUE]} /\ strays' = strays + 1
    /\ UNCHANGED <<network, sender, window, taken, lost>>

----------------------------------------------------------------------------
\* _is_fresh.

Near(i) == top - i \in 1 - Window .. Window - 1
RunAt(i) == IF far # None /\ i = far + 1 THEN run + 1 ELSE 1
Need_One(i) == 1
Need(i) == IF top - i > -Half THEN ResyncRun ELSE PastRun
InReach(S, t) == { i \in S : t - i < Window }

First(i) == /\ top = None
            /\ top' = i /\ seen' = {0} /\ taken' = {i}
            /\ UNCHANGED <<far, run>>

Slides_NoMask(i) == /\ top # None /\ Near(i) /\ i > top
                    /\ top' = i /\ seen' = {0} \cup { n + (i - top) : n \in seen } /\ run' = 0
                    /\ taken' = InReach(taken, i) \cup {i} /\ UNCHANGED far
Slides_NoShift(i) == /\ top # None /\ Near(i) /\ i > top
                     /\ top' = i /\ seen' = {0} \cup seen /\ run' = 0
                     /\ taken' = InReach(taken, i) \cup {i} /\ UNCHANGED far
Slides(i) == /\ top # None /\ Near(i) /\ i > top
             /\ top' = i
             /\ seen' = {0} \cup ({ n + (i - top) : n \in seen } \cap 0 .. Window - 1)
             /\ run' = 0
             /\ taken' = InReach(taken, i) \cup {i}
             /\ UNCHANGED far

Fills_Unmarked(i) == /\ top # None /\ Near(i) /\ i <= top /\ top - i \notin seen
                     /\ run' = 0 /\ taken' = taken \cup {i} /\ UNCHANGED <<top, seen, far>>
Fills(i) == /\ top # None /\ Near(i) /\ i <= top /\ top - i \notin seen
            /\ seen' = seen \cup {top - i}
            /\ run' = 0
            /\ taken' = taken \cup {i}
            /\ UNCHANGED <<top, far>>

Repeats(i) == /\ top # None
              /\ IF Near(i) THEN i <= top /\ top - i \in seen ELSE i = far
              /\ UNCHANGED <<window, taken>>

Counts(i) == /\ top # None /\ ~Near(i) /\ i # far /\ RunAt(i) < Need(i)
             /\ far' = i /\ run' = RunAt(i)
             /\ UNCHANGED <<top, seen, taken>>

\* Ahead, the run went through; behind, only this one.
Moves(i) == /\ top # None /\ ~Near(i) /\ i # far /\ RunAt(i) >= Need(i)
            /\ top' = i /\ far' = None /\ run' = 0
            /\ seen' = IF i > top THEN 0 .. RunAt(i) - 1 ELSE {0}
            /\ taken' = IF i > top THEN { i - n : n \in 0 .. RunAt(i) - 1 } ELSE {i}

Places(i) == \/ First(i) \/ Slides(i) \/ Fills(i) \/ Repeats(i) \/ Counts(i) \/ Moves(i)

\* What _is_fresh answers.
Fresh(i) == \/ top = None
            \/ Near(i) /\ (i > top \/ top - i \notin seen)
            \/ ~Near(i) /\ i # far /\ (i > top \/ RunAt(i) >= Need(i))

\* unprotect.
Authentic(i) == Estimate(top, i % SeqMod) = i

Loses(p, through) ==
    lost' = IF p.stray \/ network = "reordered" THEN lost ELSE IF through THEN 0 ELSE lost + 1

Arrives(p) ==
    /\ wire' = wire \ {p} \/ (network = "reordered" /\ UNCHANGED wire)
    /\ \/ ~Authentic(p.index) /\ UNCHANGED <<window, taken>> /\ Loses(p, FALSE)
       \/ Authentic(p.index) /\ Places(p.index) /\ Loses(p, Fresh(p.index))
    /\ UNCHANGED <<network, sender, strays>>

Vanishes(p) ==
    /\ network = "reordered"
    /\ wire' = wire \ {p}
    /\ UNCHANGED <<network, sender, window, taken, lost, strays>>

Next ==
    \/ Send
    \/ \E s \in 0 .. SeqMod - 1 : Jump(s)
    \/ \E i \in 0 .. MaxIndex + SeqMod : Stray(i)
    \/ \E p \in wire : Arrives(p) \/ Vanishes(p)

Spec == Init /\ [][Next]_vars

----------------------------------------------------------------------------
\* Properties.

\* Every variable has its type.
TypeOK ==
    /\ seq \in 0 .. SeqMod - 1
    /\ last \in Nat \cup {None} /\ top \in Nat \cup {None} /\ far \in Nat \cup {None}
    /\ wire \subseteq [index : Nat, stray : BOOLEAN]
    /\ seen \subseteq 0 .. Window - 1
    /\ run \in 0 .. PastRun - 1
    /\ taken \subseteq Int

\* Inside the window a packet goes through once, repeated and reordered as it may be,
\* across roll-overs and from one placing of the window to the next (_is_fresh:
\* "refused if already received").
TakenOnce ==
    [][\A p \in wire : /\ Arrives(p) /\ Authentic(p.index)
                       /\ top # None /\ Near(p.index) /\ p.index \in taken
           => ~Fresh(p.index) /\ UNCHANGED <<window, taken>>]_vars

\* And what did not come before is never refused for being there.
NoFalseRepeat ==
    [][\A p \in wire : /\ Arrives(p) /\ Authentic(p.index)
                       /\ top # None /\ Near(p.index) /\ ~Fresh(p.index)
           => p.index \in taken]_vars

\* A stray takes nothing from the stream; a jump costs at most the window and the
\* beginning of a run (tests/test_srtp.py, _is_fresh).
ShortLoss ==
    lost <= IF network = "strays" THEN 0 ELSE Window + ResyncRun - 1

=============================================================================
