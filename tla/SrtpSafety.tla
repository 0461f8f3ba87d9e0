----------------------------- MODULE SrtpSafety -----------------------------
(***************************************************************************)
(* Srtp: the replay window holds exactly what it let through, for every    *)
(* sequence number space, window and run length.                           *)
(***************************************************************************)
EXTENDS Srtp, TLAPS

\* One of three numbers a wrap apart is nearest, so _estimate_index has an answer.
LEMMA EstimateType ==
    ASSUME NEW l \in Nat \cup {None}, NEW s \in 0 .. SeqMod - 1
    PROVE  Estimate(l, s) \in Nat
<1>1. CASE l = None
    BY <1>1, WindowAssumption DEF Estimate
<1>2. CASE l # None
    <2> DEFINE q == l \div SeqMod
               near == { r * SeqMod + s : r \in {q - 1, q, q + 1} \cap Nat }
    <2>1. l \in Nat /\ q \in Nat
        BY <1>2, WindowAssumption
    <2> HIDE DEF q
    <2>2. near \subseteq Nat
        BY <2>1, WindowAssumption
    <2>3. \E i \in near : \A j \in near : Nearer(i, j, l)
        <3> DEFINE x == q * SeqMod + s
        <3>1. /\ x \in Nat /\ x \in near /\ x + SeqMod \in near
              /\ \A j \in near : j \in {x - SeqMod, x, x + SeqMod}
            BY <2>1, WindowAssumption
        <3> HIDE DEF near, x
        <3> QED BY <3>1, <2>1, <2>2, WindowAssumption DEF Nearer, Dist
    <2>4. Estimate(l, s) = CHOOSE i \in near : \A j \in near : Nearer(i, j, l)
        BY <1>2 DEF Estimate, q
    <2> QED BY <2>2, <2>3, <2>4
<1> QED BY <1>1, <1>2

\* What the bits say and what went through are the same.
Exact ==
    /\ top = None => taken = {} /\ seen = {} /\ far = None /\ run = 0
    /\ top # None => /\ \A i \in taken : i <= top /\ top - i < Window /\ top - i \in seen
                     /\ \A n \in seen : top - n \in taken

IInv == TypeOK /\ Exact

LEMMA InitInv == Init => IInv
BY WindowAssumption, StartAssumption DEF Init, IInv, TypeOK, Exact

\* A step of the receiver.
LEMMA PlacesInv ==
    ASSUME IInv, NEW i \in Nat, Places(i)
    PROVE  /\ top' \in Nat \cup {None} /\ far' \in Nat \cup {None}
           /\ seen' \subseteq 0 .. Window - 1 /\ run' \in 0 .. PastRun - 1 /\ taken' \subseteq Int
           /\ Exact'
<1> USE WindowAssumption, NoneAssumption DEF IInv
<1>1. CASE First(i)
    BY <1>1 DEF First, TypeOK, Exact
<1>2. CASE Slides(i)
    <2>1. /\ top \in Nat /\ i - top \in 1 .. Window - 1 /\ top' = i /\ far' = far /\ run' = 0
          /\ seen' = {0} \cup ({ n + (i - top) : n \in seen } \cap 0 .. Window - 1)
          /\ taken' = InReach(taken, i) \cup {i}
        BY <1>2 DEF Slides, Near, TypeOK
    <2>2. taken' \subseteq Int /\ seen' \subseteq 0 .. Window - 1
        <3>1. InReach(taken, i) \subseteq Int
            BY DEF TypeOK, InReach
        <3>2. 0 \in 0 .. Window - 1
            OBVIOUS
        <3> QED BY <2>1, <3>1, <3>2
    <2>3. ASSUME NEW j \in taken' PROVE j <= i /\ i - j < Window /\ i - j \in seen'
        <3>1. CASE j = i
            BY <3>1, <2>1
        <3>2. CASE j \in taken /\ i - j < Window
            <4>1. j \in Int /\ j <= top /\ top - j \in seen /\ i \in Int /\ top \in Int
                BY <3>2, <2>1 DEF TypeOK, Exact
            <4>2. i - j = (top - j) + (i - top) /\ i - j \in 0 .. Window - 1
                BY <4>1, <3>2, <2>1
            <4> QED BY <4>1, <4>2, <2>1
        <3> QED BY <3>1, <3>2, <2>1 DEF InReach
    <2>4. ASSUME NEW n \in seen' PROVE i - n \in taken'
        <3>1. CASE n = 0
            BY <3>1, <2>1
        <3>2. CASE \E m \in seen : n = m + (i - top) /\ n \in 0 .. Window - 1
            <4>1. PICK m \in seen : n = m + (i - top) /\ n \in 0 .. Window - 1
                BY <3>2
            <4>2. m \in Int /\ top - m \in taken /\ i - n = top - m /\ i - (i - n) < Window
                BY <4>1, <2>1 DEF TypeOK, Exact
            <4> QED BY <4>2, <2>1 DEF InReach
        <3> QED BY <3>1, <3>2, <2>1
    <2> QED BY <2>1, <2>2, <2>3, <2>4 DEF TypeOK, Exact
<1>3. CASE Fills(i)
    <2>1. /\ top \in Nat /\ top - i \in 0 .. Window - 1 /\ top' = top /\ far' = far /\ run' = 0
          /\ seen' = seen \cup {top - i} /\ taken' = taken \cup {i} /\ top - (top - i) = i
        BY <1>3 DEF Fills, Near, TypeOK
    <2> QED BY <2>1 DEF TypeOK, Exact
<1>4. CASE Repeats(i)
    BY <1>4 DEF Repeats, window, TypeOK, Exact
<1>5. CASE Counts(i)
    <2>1. run' \in 0 .. PastRun - 1
        BY <1>5 DEF Counts, RunAt, Need, TypeOK
    <2> QED BY <1>5, <2>1 DEF Counts, TypeOK, Exact
<1>6. CASE Moves(i)
    <2>1. RunAt(i) \in 1 .. Window
        BY DEF RunAt, TypeOK
    <2>2. CASE i > top
        <3>1. /\ top' = i /\ far' = None /\ run' = 0 /\ seen' = 0 .. RunAt(i) - 1
              /\ taken' = { i - n : n \in 0 .. RunAt(i) - 1 }
            BY <1>6, <2>2 DEF Moves
        <3> QED BY <2>1, <3>1 DEF Exact
    <2>3. CASE ~(i > top)
        BY <1>6, <2>3 DEF Moves, Exact
    <2> QED BY <2>2, <2>3
<1> QED BY <1>1, <1>2, <1>3, <1>4, <1>5, <1>6 DEF Places

LEMMA NextInv == IInv /\ [Next]_vars => IInv'
<1> SUFFICES ASSUME IInv, [Next]_vars PROVE IInv'
    OBVIOUS
<1> USE WindowAssumption, NoneAssumption DEF IInv, sender, window
<1>1. CASE UNCHANGED vars
    BY <1>1 DEF vars, TypeOK, Exact
<1>2. CASE Send
    <2>1. Estimate(last, seq) \in Nat
        BY EstimateType DEF TypeOK
    <2>2. [index |-> Estimate(last, seq), stray |-> FALSE] \in [index : Nat, stray : BOOLEAN]
        BY <2>1
    <2>3. seq' \in 0 .. SeqMod - 1
        BY <1>2 DEF Send, TypeOK
    <2> QED BY <1>2, <2>1, <2>2, <2>3 DEF Send, TypeOK, Exact
<1>3. ASSUME NEW s \in 0 .. SeqMod - 1, Jump(s) PROVE IInv'
    BY <1>3 DEF Jump, TypeOK, Exact
<1>4. ASSUME NEW i \in 0 .. MaxIndex + SeqMod, Stray(i) PROVE IInv'
    <2>1. [index |-> i, stray |-> TRUE] \in [index : Nat, stray : BOOLEAN]
        BY BoundAssumption
    <2>2. /\ wire' = wire \cup {[index |-> i, stray |-> TRUE]}
          /\ UNCHANGED <<seq, last, top, seen, far, run, taken>>
        BY <1>4 DEF Stray
    <2> QED BY <2>1, <2>2 DEF TypeOK, Exact
<1>5. ASSUME NEW p \in wire, Arrives(p) PROVE IInv'
    <2>1. p.index \in Nat
        BY DEF TypeOK
    <2>2. wire' \subseteq wire /\ seq' = seq /\ last' = last
        BY <1>5 DEF Arrives
    <2>3. CASE UNCHANGED <<window, taken>>
        BY <2>2, <2>3 DEF TypeOK, Exact
    <2>4. CASE Places(p.index)
        <3>1. /\ top' \in Nat \cup {None} /\ far' \in Nat \cup {None}
              /\ seen' \subseteq 0 .. Window - 1 /\ run' \in 0 .. PastRun - 1 /\ taken' \subseteq Int
              /\ Exact'
            BY <2>1, <2>4, PlacesInv
        <3> QED BY <2>2, <3>1 DEF TypeOK
    <2> QED BY <1>5, <2>3, <2>4 DEF Arrives
<1>6. ASSUME NEW p \in wire, Vanishes(p) PROVE IInv'
    BY <1>6 DEF Vanishes, TypeOK, Exact
<1> QED BY <1>1, <1>2, <1>3, <1>4, <1>5, <1>6 DEF Next

\* The replay window and the sender's index have their types, whatever the constants.
THEOREM TypeCorrect == Spec => []TypeOK
<1>1. IInv => TypeOK
    BY DEF IInv
<1> QED BY InitInv, NextInv, <1>1, PTL DEF Spec

\* No packet goes through the window twice.
THEOREM OnceThrough == Spec => TakenOnce
<1>1. IInv /\ [Next]_vars =>
        [\A p \in wire : /\ Arrives(p) /\ Authentic(p.index)
                         /\ top # None /\ Near(p.index) /\ p.index \in taken
             => ~Fresh(p.index) /\ UNCHANGED <<window, taken>>]_vars
    <2> SUFFICES ASSUME IInv, NEW p \in wire, Arrives(p), Authentic(p.index),
                        top # None, Near(p.index), p.index \in taken
                 PROVE  ~Fresh(p.index) /\ UNCHANGED <<window, taken>>
        OBVIOUS
    <2>1. p.index <= top /\ top - p.index \in seen /\ p.index \in Nat /\ top \in Nat
        BY DEF IInv, TypeOK, Exact
    <2>2. ~Fresh(p.index)
        BY <2>1 DEF Fresh
    <2>3. ASSUME Places(p.index) PROVE UNCHANGED <<window, taken>>
        <3>1. /\ ~First(p.index) /\ ~Slides(p.index) /\ ~Fills(p.index)
              /\ ~Counts(p.index) /\ ~Moves(p.index)
            BY <2>1 DEF First, Slides, Fills, Counts, Moves
        <3> QED BY <2>3, <3>1 DEF Places, Repeats
    <2> QED BY <2>2, <2>3 DEF Arrives
<1> QED BY InitInv, NextInv, <1>1, PTL DEF Spec, TakenOnce

\* No packet is taken for a repetition that is not one.
THEOREM RefusedForCause == Spec => NoFalseRepeat
<1>1. IInv /\ [Next]_vars =>
        [\A p \in wire : /\ Arrives(p) /\ Authentic(p.index)
                         /\ top # None /\ Near(p.index) /\ ~Fresh(p.index)
             => p.index \in taken]_vars
    <2> SUFFICES ASSUME IInv, NEW p \in wire, top # None, Near(p.index), ~Fresh(p.index)
                 PROVE  p.index \in taken
        OBVIOUS
    <2>1. top - p.index \in seen /\ p.index \in Nat /\ top \in Nat
        BY DEF IInv, TypeOK, Fresh
    <2>2. top - (top - p.index) = p.index
        BY <2>1
    <2> QED BY <2>1, <2>2 DEF IInv, Exact
<1> QED BY InitInv, NextInv, <1>1, PTL DEF Spec, NoFalseRepeat

=============================================================================
