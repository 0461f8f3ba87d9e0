--------------------------- MODULE StreamsSafety ---------------------------
(***************************************************************************)
(* The streams (AvStream, AvPassive), for any number of clients, of tasks    *)
(* that stop them, of ffmpeg processes and of calls.  Every await of their   *)
(* locked sections is a step, so what holds there depends on the section the *)
(* task with the lock is in: at most one task is inside, the others in the   *)
(* queue of the lock wait for it (Line).  What a section may rely on is said *)
(* of the stages that are inside (Section), and what is left behind when a   *)
(* task leaves, or is cancelled, of the state without them.                  *)
(***************************************************************************)
EXTENDS MCStreams, SequenceTheorems, TLAPS

\* The stages of a task of either service: those in the queue of a lock, and those inside the
\* section it guards.
Waits == {"sub", "unsub", "stop"}
Inside == {"reap", "replace", "sdp", "spawn", "listen", "autopsy", "kill", "encoder", "gather"}
Stages == {"out", "on", "sleep", "done"} \cup Waits \cup Inside

\* q is the queue of an asyncio lock when the tasks T are at the stages b: the tasks that wait or
\* are inside, once each, and only the first of them may be inside.
Line(q, b, T) ==
    /\ q \in Seq(T)
    /\ \A i, j \in 1 .. Len(q) : q[i] = q[j] => i = j
    /\ \A i \in 1 .. Len(q) : b[q[i]] \in Waits \cup Inside /\ (b[q[i]] \in Inside => i = 1)
    /\ \A t \in T : b[t] \in Waits \cup Inside => \E i \in 1 .. Len(q) : q[i] = t
\* The stages inside.
Within(b, T) == { b[t] : t \in { u \in T : b[u] \in Inside } }
\* The stage inside; none, when nobody is.
Place(b, T) == IF Within(b, T) = {} THEN "none" ELSE CHOOSE s : s \in Within(b, T)
\* t has the lock, whatever it does with it.
Has(q, b, T, t) ==
    /\ t \in T /\ b \in [T -> Stages]
    /\ q \in Seq(T) /\ q # <<>> /\ q[1] = t
    /\ \A i, j \in 1 .. Len(q) : q[i] = q[j] => i = j
    /\ \A i \in 1 .. Len(q) : i # 1 => b[q[i]] \in Waits
    /\ \A u \in T : u # t /\ b[u] \in Waits \cup Inside => \E i \in 1 .. Len(q) : q[i] = u
\* A queue without one of its tasks, as the steps leave it.
Drop(q, t) ==
    LET place == CHOOSE i \in DOMAIN q : q[i] = t
    IN IF \A i \in DOMAIN q : q[i] # t THEN q
       ELSE [i \in 1 .. Len(q) - 1 |-> q[IF i < place THEN i ELSE i + 1]]

-----------------------------------------------------------------------------
(* The queue of a lock.                                                     *)

\* One stage inside, or none.
LEMMA PlaceIs ==
    ASSUME NEW T, NEW b
    PROVE  /\ Within(b, T) = {} => Place(b, T) = "none"
           /\ \A s : Within(b, T) = {s} => Place(b, T) = s
           /\ \A a : Within(a, T) = Within(b, T) => Place(a, T) = Place(b, T)
  <1>1. ASSUME NEW s, Within(b, T) = {s} PROVE Place(b, T) = s
    <2>1. (CHOOSE x : x \in {s}) = s
      OBVIOUS
    <2>. QED BY <1>1, <2>1 DEF Place
  <1>2. Within(b, T) = {} => Place(b, T) = "none"
    BY DEF Place
  <1>3. ASSUME NEW a, Within(a, T) = Within(b, T) PROVE Place(a, T) = Place(b, T)
    BY <1>3 DEF Place
  <1>. QED BY <1>1, <1>2, <1>3

\* What a queue is without t: the others, in their order.
LEMMA DropFacts ==
    ASSUME NEW T, NEW q \in Seq(T), \A i, j \in 1 .. Len(q) : q[i] = q[j] => i = j, NEW t
    PROVE  \/ Drop(q, t) = q /\ \A i \in 1 .. Len(q) : q[i] # t
           \/ \E place \in 1 .. Len(q) :
                /\ q[place] = t /\ Len(q) \in Nat \ {0}
                /\ Drop(q, t) \in Seq(T) /\ Len(Drop(q, t)) = Len(q) - 1
                /\ \A i \in 1 .. Len(q) - 1 : Drop(q, t)[i] = q[IF i < place THEN i ELSE i + 1]
  <1>1. Len(q) \in Nat /\ q \in [1 .. Len(q) -> T] /\ DOMAIN q = 1 .. Len(q)
    BY LenProperties
  <1>2. CASE \A i \in DOMAIN q : q[i] # t
    BY <1>1, <1>2 DEF Drop
  <1>3. CASE ~\A i \in DOMAIN q : q[i] # t
    <2>. PICK place : place = CHOOSE i \in DOMAIN q : q[i] = t
      OBVIOUS
    <2>1. place \in 1 .. Len(q) /\ q[place] = t
      BY <1>1, <1>3
    <2>2. Drop(q, t) = [i \in 1 .. Len(q) - 1 |-> q[IF i < place THEN i ELSE i + 1]]
      BY <1>3 DEF Drop
    <2>3. \A i \in 1 .. Len(q) - 1 : (IF i < place THEN i ELSE i + 1) \in 1 .. Len(q)
      BY <1>1, <2>1
    <2>4. \A i \in 1 .. Len(q) - 1 : q[IF i < place THEN i ELSE i + 1] \in T
      BY <1>1, <2>3
    <2>5. Len(q) - 1 \in Nat
      BY <1>1, <2>1
    <2>6. Drop(q, t) \in [1 .. Len(q) - 1 -> T]
      BY <2>2, <2>4
    <2>7. Drop(q, t) \in Seq(T) /\ Len(Drop(q, t)) = Len(q) - 1
      BY <2>5, <2>6
    <2>8. \A i \in 1 .. Len(q) - 1 : Drop(q, t)[i] = q[IF i < place THEN i ELSE i + 1]
      BY <2>2
    <2>9. Len(q) \in Nat \ {0}
      BY <1>1, <2>1
    <2>. QED BY <2>1, <2>7, <2>8, <2>9
  <1>. QED BY <1>2, <1>3

\* A task that leaves the queue, wherever it is.
LEMMA LineDrop ==
    ASSUME NEW T, NEW b, NEW q, Line(q, b, T), NEW t \in T,
           NEW a, a[t] \notin Waits \cup Inside, \A u \in T : u # t => a[u] = b[u]
    PROVE  Line(Drop(q, t), a, T)
  <1>1. a[t] \notin Waits \cup Inside /\ \A u \in T : u # t => a[u] = b[u]
    OBVIOUS
  <1>2. q \in Seq(T) /\ Len(q) \in Nat /\ q \in [1 .. Len(q) -> T]
    BY LenProperties DEF Line
  <1>3. CASE Drop(q, t) = q /\ \A i \in 1 .. Len(q) : q[i] # t
    <2>1. \A i \in 1 .. Len(q) : q[i] \in T /\ a[q[i]] = b[q[i]]
      BY <1>1, <1>2, <1>3
    <2>2. \A u \in T : a[u] \in Waits \cup Inside => \E i \in 1 .. Len(q) : q[i] = u
      BY <1>1 DEF Line
    <2>3. Line(q, a, T)
      BY <2>1, <2>2 DEF Line
    <2>. QED BY <1>3, <2>3
  <1>4. ASSUME NEW place \in 1 .. Len(q), q[place] = t, Len(q) \in Nat \ {0},
               Drop(q, t) \in Seq(T), Len(Drop(q, t)) = Len(q) - 1,
               \A i \in 1 .. Len(q) - 1 : Drop(q, t)[i] = q[IF i < place THEN i ELSE i + 1]
        PROVE  Line(Drop(q, t), a, T)
    <2>. PICK d : d = Drop(q, t)
      OBVIOUS
    <2>1. \A i \in 1 .. Len(d) : (IF i < place THEN i ELSE i + 1) \in 1 .. Len(q)
                                 /\ (IF i < place THEN i ELSE i + 1) # place
      BY <1>4
    <2>2. \A i \in 1 .. Len(d) : d[i] = q[IF i < place THEN i ELSE i + 1]
      BY <1>4
    <2>3. \A i, j \in 1 .. Len(d) : d[i] = d[j] => i = j
      <3>. TAKE i, j \in 1 .. Len(d)
      <3>. HAVE d[i] = d[j]
      <3>. PICK m, n \in 1 .. Len(q) : m = (IF i < place THEN i ELSE i + 1) /\ n = (IF j < place THEN j ELSE j + 1)
        BY <2>1
      <3>1. q[m] = q[n]
        BY <2>2
      <3>2. m = n
        BY <3>1 DEF Line
      <3>. QED BY <3>2, <1>4
    <2>4. \A i \in 1 .. Len(d) : d[i] \in T /\ d[i] # t
      BY <1>2, <1>4, <2>1, <2>2 DEF Line
    <2>5. \A i \in 1 .. Len(d) : a[d[i]] \in Waits \cup Inside /\ (a[d[i]] \in Inside => i = 1)
      <3>. TAKE i \in 1 .. Len(d)
      <3>1. a[d[i]] = b[q[IF i < place THEN i ELSE i + 1]]
        BY <1>1, <2>2, <2>4
      <3>2. b[q[IF i < place THEN i ELSE i + 1]] \in Waits \cup Inside
            /\ (b[q[IF i < place THEN i ELSE i + 1]] \in Inside => (IF i < place THEN i ELSE i + 1) = 1)
        BY <2>1 DEF Line
      <3>3. (IF i < place THEN i ELSE i + 1) = 1 => i = 1
        BY <1>4
      <3>. QED BY <3>1, <3>2, <3>3
    <2>6. \A u \in T : a[u] \in Waits \cup Inside => \E i \in 1 .. Len(d) : d[i] = u
      <3>. SUFFICES ASSUME NEW u \in T, a[u] \in Waits \cup Inside PROVE \E i \in 1 .. Len(d) : d[i] = u
        OBVIOUS
      <3>1. u # t /\ b[u] \in Waits \cup Inside
        BY <1>1
      <3>2. PICK j \in 1 .. Len(q) : q[j] = u
        BY <3>1 DEF Line
      <3>3. j # place
        BY <1>4, <3>1, <3>2
      <3>4. CASE j < place
        BY <1>4, <2>2, <3>2, <3>4
      <3>5. CASE j > place
        <4>1. j - 1 \in 1 .. Len(d) /\ ~(j - 1 < place) /\ (j - 1) + 1 = j
          BY <1>4, <3>5
        <4>2. d[j - 1] = u
          BY <2>2, <3>2, <4>1
        <4>. QED BY <4>1, <4>2
      <3>6. j < place \/ j > place
        BY <3>3
      <3>. QED BY <3>4, <3>5, <3>6
    <2>7. d \in Seq(T)
      BY <1>4
    <2>8. Line(d, a, T)
      BY <2>3, <2>5, <2>6, <2>7 DEF Line
    <2>. QED BY <2>8
  <1>5. Line(Drop(q, t), a, T)
    <2>0. q \in Seq(T)
      BY <1>2
    <2>1. \A i, j \in 1 .. Len(q) : q[i] = q[j] => i = j
      BY DEF Line
    <2>2. \/ Drop(q, t) = q /\ \A i \in 1 .. Len(q) : q[i] # t
          \/ \E place \in 1 .. Len(q) :
                /\ q[place] = t /\ Len(q) \in Nat \ {0}
                /\ Drop(q, t) \in Seq(T) /\ Len(Drop(q, t)) = Len(q) - 1
                /\ \A i \in 1 .. Len(q) - 1 : Drop(q, t)[i] = q[IF i < place THEN i ELSE i + 1]
      BY <2>0, <2>1, DropFacts
    <2>. QED BY <1>3, <1>4, <2>2, Zenon
  <1>. QED BY <1>5

\* A task that comes last.
LEMMA LineAppend ==
    ASSUME NEW T, NEW b, NEW q, Line(q, b, T), NEW t \in T, b[t] \notin Waits \cup Inside,
           NEW a, a[t] \in Waits, \A u \in T : u # t => a[u] = b[u], q # <<>>
    PROVE  Line(Append(q, t), a, T) /\ Place(a, T) = Place(b, T)
  <1>. PICK d : d = Append(q, t)
    OBVIOUS
  <1>1. a[t] \in Waits /\ a[t] \notin Inside /\ \A u \in T : u # t => a[u] = b[u]
    BY DEF Waits, Inside
  <1>2. q \in Seq(T) /\ Len(q) \in Nat \ {0}
    BY EmptySeq, LenProperties DEF Line
  <1>3. d \in Seq(T) /\ Len(d) = Len(q) + 1 /\ (\A i \in 1 .. Len(q) : d[i] = q[i]) /\ d[Len(q) + 1] = t
    BY <1>2, AppendProperties
  <1>4. \A i \in 1 .. Len(q) : q[i] \in T /\ q[i] # t
    BY <1>2, LenProperties DEF Line
  <1>5. \A i \in 1 .. Len(d) : i \in 1 .. Len(q) \/ i = Len(q) + 1
    BY <1>2, <1>3
  <1>6. \A i, j \in 1 .. Len(d) : d[i] = d[j] => i = j
    <2>. TAKE i, j \in 1 .. Len(d)
    <2>. HAVE d[i] = d[j]
    <2>1. CASE i \in 1 .. Len(q) /\ j \in 1 .. Len(q)
      BY <1>3, <2>1 DEF Line
    <2>2. CASE i = Len(q) + 1 \/ j = Len(q) + 1
      BY <1>3, <1>4, <1>5, <2>2
    <2>. QED BY <1>5, <2>1, <2>2
  <1>7. \A i \in 1 .. Len(d) : a[d[i]] \in Waits \cup Inside /\ (a[d[i]] \in Inside => i = 1)
    <2>. TAKE i \in 1 .. Len(d)
    <2>1. CASE i \in 1 .. Len(q)
      <3>1. a[d[i]] = b[q[i]]
        BY <1>1, <1>3, <1>4, <2>1
      <3>. QED BY <2>1, <3>1 DEF Line
    <2>2. CASE i = Len(q) + 1
      BY <1>1, <1>3, <2>2
    <2>. QED BY <1>5, <2>1, <2>2
  <1>8. \A u \in T : a[u] \in Waits \cup Inside => \E i \in 1 .. Len(d) : d[i] = u
    <2>. SUFFICES ASSUME NEW u \in T, a[u] \in Waits \cup Inside PROVE \E i \in 1 .. Len(d) : d[i] = u
      OBVIOUS
    <2>1. CASE u = t
      <3>1. Len(q) + 1 \in 1 .. Len(d)
        BY <1>2, <1>3
      <3>. QED BY <1>3, <2>1, <3>1
    <2>2. CASE u # t
      <3>1. PICK i \in 1 .. Len(q) : q[i] = u
        BY <1>1, <2>2 DEF Line
      <3>2. i \in 1 .. Len(d) /\ d[i] = u
        BY <1>2, <1>3, <3>1
      <3>. QED BY <3>2
    <2>. QED BY <2>1, <2>2
  <1>9. Line(d, a, T)
    BY <1>3, <1>6, <1>7, <1>8 DEF Line
  <1>10. Within(a, T) = Within(b, T)
    <2>1. b[t] \notin Inside
      OBVIOUS
    <2>2. { u \in T : a[u] \in Inside } = { u \in T : b[u] \in Inside }
      BY <1>1, <2>1
    <2>. QED BY <1>1, <2>1, <2>2 DEF Within
  <1>. QED BY <1>9, <1>10, PlaceIs

\* The task that takes a free lock, or the first in its queue, has it.
LEMMA HasIt ==
    ASSUME NEW T, NEW b \in [T -> Stages], NEW l, Line(l, b, T), NEW t \in T, NEW q,
           (l = <<>> /\ q = <<t>>) \/ (l # <<>> /\ Head(l) = t /\ q = l)
    PROVE  Has(q, b, T, t)
  <1>1. CASE l = <<>> /\ q = <<t>>
    <2>1. q \in Seq(T) /\ Len(q) = 1 /\ q[1] = t /\ q # <<>>
      BY <1>1
    <2>2. \A u \in T : b[u] \notin Waits \cup Inside
      BY <1>1 DEF Line
    <2>. QED BY <2>1, <2>2 DEF Has
  <1>2. CASE l # <<>> /\ Head(l) = t /\ q = l
    <2>1. q \in Seq(T) /\ Len(q) \in Nat \ {0} /\ q[1] = t /\ q # <<>>
      BY <1>2, EmptySeq DEF Line
    <2>2. \A i \in 1 .. Len(q) : i # 1 => b[q[i]] \in Waits
      BY <1>2 DEF Line
    <2>3. \A u \in T : b[u] \in Waits \cup Inside => \E i \in 1 .. Len(q) : q[i] = u
      BY <1>2 DEF Line
    <2>4. \A i, j \in 1 .. Len(q) : q[i] = q[j] => i = j
      BY <1>2 DEF Line
    <2>. QED BY <2>1, <2>2, <2>3, <2>4 DEF Has
  <1>. QED BY <1>1, <1>2

\* The others are not inside.
LEMMA HasAlone ==
    ASSUME NEW T, NEW b, NEW q, NEW t, Has(q, b, T, t)
    PROVE  /\ \A u \in T : u # t => b[u] \notin Inside
           /\ Place(b, T) = IF b[t] \in Inside THEN b[t] ELSE "none"
  <1>1. t \in T
    BY DEF Has
  <1>2. \A u \in T : u # t => b[u] \notin Inside
    <2>. SUFFICES ASSUME NEW u \in T, u # t, b[u] \in Inside PROVE FALSE
      OBVIOUS
    <2>1. PICK i \in 1 .. Len(q) : q[i] = u
      BY DEF Has
    <2>2. b[u] \in Waits
      BY <2>1 DEF Has
    <2>. QED BY <2>2 DEF Waits, Inside
  <1>3. CASE b[t] \in Inside
    <2>1. { u \in T : b[u] \in Inside } = {t}
      BY <1>1, <1>2, <1>3
    <2>2. Within(b, T) = {b[t]}
      BY <2>1 DEF Within
    <2>3. Place(b, T) = b[t]
      BY <2>2, PlaceIs
    <2>. QED BY <1>2, <1>3, <2>3
  <1>4. CASE b[t] \notin Inside
    <2>1. { u \in T : b[u] \in Inside } = {}
      BY <1>2, <1>4
    <2>2. Within(b, T) = {}
      BY <2>1 DEF Within
    <2>3. Place(b, T) = "none"
      BY <2>2, PlaceIs
    <2>. QED BY <1>2, <1>4, <2>3
  <1>. QED BY <1>3, <1>4

\* Another task leaves the queue behind it.
LEMMA HasBut ==
    ASSUME NEW T, NEW b, NEW q, NEW t, Has(q, b, T, t), NEW u \in T, u # t,
           NEW a \in [T -> Stages], a[u] \notin Waits \cup Inside, \A v \in T : v # u => a[v] = b[v]
    PROVE  Has(Drop(q, u), a, T, t)
  <1>. PICK c : c = [b EXCEPT ![t] = "reap"]
    OBVIOUS
  <1>. PICK e : e = [a EXCEPT ![t] = "reap"]
    OBVIOUS
  <1>1. t \in T /\ b \in [T -> Stages] /\ q \in Seq(T) /\ q # <<>> /\ q[1] = t
    BY DEF Has
  <1>2. \A i, j \in 1 .. Len(q) : q[i] = q[j] => i = j
    BY DEF Has
  <1>3. c[t] = "reap" /\ e[t] = "reap" /\ "reap" \in Inside /\ \A v \in T : v # t => c[v] = b[v] /\ e[v] = a[v]
    BY <1>1 DEF Inside
  <1>4. Len(q) \in Nat \ {0} /\ \A i \in 1 .. Len(q) : q[i] \in T
    BY <1>1, EmptySeq, LenProperties
  <1>5. Line(q, c, T)
    <2>1. \A i \in 1 .. Len(q) : c[q[i]] \in Waits \cup Inside /\ (c[q[i]] \in Inside => i = 1)
      <3>. TAKE i \in 1 .. Len(q)
      <3>1. CASE i = 1
        BY <1>1, <1>3, <3>1
      <3>2. CASE i # 1
        <4>1. q[i] # t /\ b[q[i]] \in Waits
          BY <1>1, <1>2, <1>4, <3>2 DEF Has
        <4>. QED BY <1>3, <1>4, <4>1 DEF Waits, Inside
      <3>. QED BY <3>1, <3>2
    <2>2. \A v \in T : c[v] \in Waits \cup Inside => \E i \in 1 .. Len(q) : q[i] = v
      <3>. TAKE v \in T
      <3>1. CASE v = t
        BY <1>1, <1>4, <3>1
      <3>2. CASE v # t
        BY <1>3, <3>2 DEF Has
      <3>. QED BY <3>1, <3>2
    <2>. QED BY <1>1, <1>2, <2>1, <2>2 DEF Line
  <1>6. e[u] \notin Waits \cup Inside /\ \A v \in T : v # u => e[v] = c[v]
    BY <1>3
  <1>7. Line(Drop(q, u), e, T)
    BY <1>5, <1>6, LineDrop
  <1>8. Drop(q, u) # <<>> /\ Drop(q, u)[1] = t
    <2>1. \/ Drop(q, u) = q /\ \A i \in 1 .. Len(q) : q[i] # u
          \/ \E place \in 1 .. Len(q) :
                /\ q[place] = u /\ Len(q) \in Nat \ {0}
                /\ Drop(q, u) \in Seq(T) /\ Len(Drop(q, u)) = Len(q) - 1
                /\ \A i \in 1 .. Len(q) - 1 : Drop(q, u)[i] = q[IF i < place THEN i ELSE i + 1]
      BY <1>1, <1>2, DropFacts
    <2>2. CASE Drop(q, u) = q
      BY <1>1, <2>2
    <2>3. ASSUME NEW place \in 1 .. Len(q), q[place] = u, Len(q) \in Nat \ {0},
                 Drop(q, u) \in Seq(T), Len(Drop(q, u)) = Len(q) - 1,
                 \A i \in 1 .. Len(q) - 1 : Drop(q, u)[i] = q[IF i < place THEN i ELSE i + 1]
          PROVE  Drop(q, u) # <<>> /\ Drop(q, u)[1] = t
      <3>1. place # 1 /\ 1 \in 1 .. Len(q) - 1 /\ 1 < place
        BY <1>1, <2>3
      <3>2. Drop(q, u)[1] = q[1]
        BY <2>3, <3>1
      <3>3. Len(Drop(q, u)) # 0
        BY <2>3, <3>1
      <3>4. Drop(q, u) # <<>>
        BY <3>3, EmptySeq
      <3>. QED BY <1>1, <3>2, <3>4
    <2>. QED BY <2>1, <2>2, <2>3, Zenon
  <1>. PICK d : d = Drop(q, u)
    OBVIOUS
  <1>9. d \in Seq(T) /\ (\A i, j \in 1 .. Len(d) : d[i] = d[j] => i = j)
    BY <1>7 DEF Line
  <1>10. Len(d) \in Nat \ {0} /\ \A i \in 1 .. Len(d) : d[i] \in T
    BY <1>8, <1>9, EmptySeq, LenProperties
  <1>11. \A i \in 1 .. Len(d) : i # 1 => a[d[i]] \in Waits
    <2>. SUFFICES ASSUME NEW i \in 1 .. Len(d), i # 1 PROVE a[d[i]] \in Waits
      OBVIOUS
    <2>1. d[i] # t
      BY <1>8, <1>9, <1>10
    <2>2. e[d[i]] \in Waits
      BY <1>7 DEF Line
    <2>. QED BY <1>3, <1>10, <2>1, <2>2
  <1>12. \A v \in T : v # t /\ a[v] \in Waits \cup Inside => \E i \in 1 .. Len(d) : d[i] = v
    BY <1>3, <1>7 DEF Line
  <1>. QED BY <1>1, <1>8, <1>9, <1>11, <1>12 DEF Has

\* It goes on inside.
LEMMA HasStays ==
    ASSUME NEW T, NEW b, NEW q, NEW t, Has(q, b, T, t),
           NEW a, a[t] \in Inside, \A u \in T : u # t => a[u] = b[u]
    PROVE  Line(q, a, T) /\ Place(a, T) = a[t]
  <1>1. t \in T /\ q \in Seq(T) /\ q # <<>> /\ q[1] = t
    BY DEF Has
  <1>2. \A i, j \in 1 .. Len(q) : q[i] = q[j] => i = j
    BY DEF Has
  <1>3. Len(q) \in Nat \ {0} /\ \A i \in 1 .. Len(q) : q[i] \in T
    BY <1>1, EmptySeq, LenProperties
  <1>4. \A i \in 1 .. Len(q) : a[q[i]] \in Waits \cup Inside /\ (a[q[i]] \in Inside => i = 1)
    <2>. TAKE i \in 1 .. Len(q)
    <2>1. CASE i = 1
      BY <1>1, <2>1
    <2>2. CASE i # 1
      <3>1. q[i] # t /\ b[q[i]] \in Waits
        BY <1>1, <1>2, <1>3, <2>2 DEF Has
      <3>. QED BY <1>3, <3>1 DEF Waits, Inside
    <2>. QED BY <2>1, <2>2
  <1>5. \A u \in T : a[u] \in Waits \cup Inside => \E i \in 1 .. Len(q) : q[i] = u
    <2>. TAKE u \in T
    <2>1. CASE u = t
      BY <1>1, <1>3, <2>1
    <2>2. CASE u # t
      BY <2>2 DEF Has
    <2>. QED BY <2>1, <2>2
  <1>6. Line(q, a, T)
    BY <1>1, <1>2, <1>4, <1>5 DEF Line
  <1>7. { u \in T : a[u] \in Inside } = {t}
    BY <1>1, HasAlone
  <1>8. Within(a, T) = {a[t]}
    BY <1>7 DEF Within
  <1>. QED BY <1>6, <1>8, PlaceIs

\* It leaves.
LEMMA HasLeaves ==
    ASSUME NEW T, NEW b, NEW q, NEW t, Has(q, b, T, t),
           NEW a, a[t] \notin Waits \cup Inside, \A u \in T : u # t => a[u] = b[u]
    PROVE  Line(Tail(q), a, T) /\ Place(a, T) = "none"
  <1>1. t \in T /\ q \in Seq(T) /\ q # <<>> /\ q[1] = t
    BY DEF Has
  <1>2. \A i, j \in 1 .. Len(q) : q[i] = q[j] => i = j
    BY DEF Has
  <1>. PICK d : d = Tail(q)
    OBVIOUS
  <1>3. Len(q) \in Nat \ {0} /\ d \in Seq(T) /\ Len(d) = Len(q) - 1 /\ \A i \in 1 .. Len(d) : d[i] = q[i + 1]
    BY <1>1, EmptySeq, HeadTailProperties
  <1>4. \A i \in 1 .. Len(d) : i + 1 \in 1 .. Len(q) /\ i + 1 # 1 /\ 1 \in 1 .. Len(q)
    BY <1>3
  <1>5. \A i \in 1 .. Len(d) : d[i] \in T /\ d[i] # t /\ b[d[i]] \in Waits
    <2>. TAKE i \in 1 .. Len(d)
    <2>1. d[i] \in T
      BY <1>1, <1>3, <1>4, LenProperties
    <2>2. d[i] # t
      BY <1>1, <1>2, <1>3, <1>4
    <2>3. b[d[i]] \in Waits
      BY <1>3, <1>4 DEF Has
    <2>. QED BY <2>1, <2>2, <2>3
  <1>6. \A i, j \in 1 .. Len(d) : d[i] = d[j] => i = j
    <2>. TAKE i, j \in 1 .. Len(d)
    <2>. HAVE d[i] = d[j]
    <2>1. i + 1 = j + 1
      BY <1>2, <1>3, <1>4
    <2>. QED BY <1>3, <2>1
  <1>7. \A i \in 1 .. Len(d) : a[d[i]] \in Waits \cup Inside /\ (a[d[i]] \in Inside => i = 1)
    BY <1>5 DEF Waits, Inside
  <1>8. \A u \in T : a[u] \in Waits \cup Inside => \E i \in 1 .. Len(d) : d[i] = u
    <2>. SUFFICES ASSUME NEW u \in T, a[u] \in Waits \cup Inside PROVE \E i \in 1 .. Len(d) : d[i] = u
      OBVIOUS
    <2>1. u # t /\ b[u] \in Waits \cup Inside
      OBVIOUS
    <2>2. PICK j \in 1 .. Len(q) : q[j] = u
      BY <2>1 DEF Has
    <2>3. j # 1
      BY <1>1, <2>1, <2>2
    <2>4. j - 1 \in 1 .. Len(d) /\ (j - 1) + 1 = j
      BY <1>3, <2>3
    <2>. QED BY <1>3, <2>2, <2>4
  <1>9. Line(d, a, T)
    BY <1>3, <1>6, <1>7, <1>8 DEF Line
  <1>10. { u \in T : a[u] \in Inside } = {}
    BY <1>1, HasAlone
  <1>11. Within(a, T) = {}
    BY <1>10 DEF Within
  <1>. QED BY <1>9, <1>11, PlaceIs

-----------------------------------------------------------------------------
(* AvStream: what holds of it.                                              *)

LiveTasks == Live!Tasks
\* The stages of each kind of task.
LiveStages(t) ==
    IF t \in Clients THEN {"out", "sub", "reap", "replace", "sdp", "spawn", "listen", "autopsy", "on",
                           "unsub", "kill"}
    ELSE IF t \in Stops THEN {"out", "stop", "kill", "done"}
    ELSE {"out", "sleep", "stop", "kill"}
StagesInv ==
    /\ at \in [LiveTasks -> Stages] /\ \A t \in LiveTasks : at[t] \in LiveStages(t)
    /\ Line(lock, at, LiveTasks)
\* The stage the task with the lock is at.
Here == Place(at, LiveTasks)

ProcTypes ==
    /\ {proc, ports, reaping, victim, pump} \subseteq Live!Procs \cup {None}
    /\ life \in [Live!Procs -> {"unborn", "spawning", "started", "listening", "dying", "gone"}]
    /\ pumping \subseteq Live!Procs /\ clients \cup ended \subseteq Clients
    /\ forward \in BOOLEAN
CallTypes == live \in BOOLEAN /\ calls \in 0 .. MaxCalls /\ cut \subseteq LiveTasks
\* A process that runs is the one of av_ffmpeg_proc, and has the ports to itself; one that dies is
\* waited for by a stop or by _reap_task, one that is being launched by a start or by _reap_task.
ProcInv ==
    /\ ports # None => life[ports] \in {"listening", "dying"}
    /\ proc # None => life[proc] \in {"started", "listening", "gone"}
    /\ reaping # None => life[reaping] \in {"spawning", "dying", "gone"} /\ reaping # proc
    /\ pump # None => life[pump] \notin {"unborn", "spawning"}
    /\ \A p \in Live!Procs :
        /\ life[p] = "started" => ports = None
        /\ life[p] \in {"started", "listening"} => p = proc
        /\ life[p] = "dying" => p = reaping \/ (Here = "kill" /\ p = victim)
        /\ life[p] = "spawning" => p = reaping \/ Here = "spawn"
    /\ \A p, o \in Live!Procs : life[p] = "spawning" /\ life[o] = "spawning" => p = o \/ reaping \in {p, o}
\* What a section may rely on, and what it has undone before it suspends.
SectionInv ==
    /\ Here \in {"replace", "sdp", "spawn", "listen", "autopsy"} => reaping = None
    /\ Here \in {"replace", "kill", "sdp", "spawn"} => proc = None
    /\ Here \in {"reap", "autopsy"} => proc = None \/ life[proc] = "gone"
    /\ Here = "listen" => proc # None
    /\ Here \in {"replace", "kill", "sdp", "spawn", "listen", "autopsy"} => ~forward
    /\ Here \in {"reap", "replace", "sdp", "spawn", "listen", "autopsy"} => clients = {}
    /\ forward => proc # None /\ reaping = None
    /\ proc # None /\ life[proc] # "gone" => Here = "listen" \/ (pump = proc /\ pump \in pumping)
    /\ clients # {} => pump \in pumping /\ (proc # None \/ Here = "kill")
\* An ffmpeg that runs has a client, or the grace will end it.
WatchInv ==
    /\ \A c \in clients : at[c] \in {"on", "unsub"}
    /\ proc # None /\ life[proc] # "gone" =>
          \/ Here = "listen" \/ at[Grace] \in {"sleep", "stop"}
          \/ \E c \in Clients : at[c] \in {"on", "unsub"}
LiveCore == StagesInv /\ ProcTypes /\ ProcInv /\ SectionInv /\ WatchInv
LiveInv == LiveCore /\ CallTypes

-----------------------------------------------------------------------------
(* AvStream: the tasks.                                                     *)

\* The kinds of tasks are different.
LEMMA Kinds ==
    /\ Grace \in LiveTasks /\ Grace \notin Clients /\ Grace \notin Stops
    /\ LiveTasks = Clients \cup Stops \cup {Grace} /\ Clients \cap Stops = {}
    /\ \A t \in LiveTasks : LiveStages(t) \subseteq Stages
    /\ None \notin Live!Procs
  <1>1. None \notin Live!Procs
    BY BoundsAssumption DEF Live!Procs
  <1>2. \A t \in LiveTasks : LiveStages(t) \subseteq Stages
    BY DEF LiveStages, Stages, Waits, Inside
  <1>. QED BY <1>1, <1>2, TasksAssumption DEF LiveTasks, Live!Tasks

\* Live!Without is Drop.
LEMMA LiveDrop == \A q, t : Live!Without(q, t) = Drop(q, t)
  BY DEF Live!Without, Drop

\* Who has the lock is where the section is.
LEMMA HereIs ==
    ASSUME NEW q, NEW t, Has(q, at, LiveTasks, t)
    PROVE  Here = IF at[t] \in Inside THEN at[t] ELSE "none"
  BY HasAlone DEF Here

\* It goes on inside.
LEMMA LiveStays ==
    ASSUME StagesInv, NEW q, NEW t, Has(q, at, LiveTasks, t), NEW s \in Inside, s \in LiveStages(t),
           lock' = q, at' = [at EXCEPT ![t] = s]
    PROVE  StagesInv' /\ Here' = s
  <1>1. t \in LiveTasks /\ at \in [LiveTasks -> Stages] /\ s \in Stages
    BY DEF Has, Stages
  <1>2. at' \in [LiveTasks -> Stages] /\ at'[t] = s /\ \A u \in LiveTasks : u # t => at'[u] = at[u]
    BY <1>1
  <1>3. \A u \in LiveTasks : at'[u] \in LiveStages(u)
    BY <1>2 DEF StagesInv
  <1>4. Line(lock', at', LiveTasks) /\ Place(at', LiveTasks) = s
    <2>0. PICK a : a = at'
      OBVIOUS
    <2>1. a[t] \in Inside
      BY <2>0, <1>2
    <2>2. \A u \in LiveTasks : u # t => a[u] = at[u]
      BY <2>0, <1>2
    <2>3. Line(q, a, LiveTasks)
      BY <2>1, <2>2, HasStays
    <2>4. Place(a, LiveTasks) = a[t]
      BY <2>1, <2>2, HasStays
    <2>. QED BY <2>0, <1>2, <2>3, <2>4
  <1>. QED BY <1>2, <1>3, <1>4 DEF StagesInv, Here, LiveTasks, Live!Tasks

\* It leaves.
LEMMA LiveLeaves ==
    ASSUME StagesInv, NEW q, NEW t, Has(q, at, LiveTasks, t),
           NEW s \in LiveStages(t), s \notin Waits \cup Inside,
           lock' = Tail(q), at' = [at EXCEPT ![t] = s]
    PROVE  StagesInv' /\ Here' = "none"
  <1>1. t \in LiveTasks /\ at \in [LiveTasks -> Stages] /\ s \in Stages
    BY Kinds DEF Has
  <1>2. at' \in [LiveTasks -> Stages] /\ at'[t] = s /\ \A u \in LiveTasks : u # t => at'[u] = at[u]
    BY <1>1
  <1>3. \A u \in LiveTasks : at'[u] \in LiveStages(u)
    BY <1>2 DEF StagesInv
  <1>4. Line(lock', at', LiveTasks) /\ Place(at', LiveTasks) = "none"
    <2>0. PICK a : a = at'
      OBVIOUS
    <2>1. a[t] \notin Waits \cup Inside
      BY <2>0, <1>2
    <2>2. \A u \in LiveTasks : u # t => a[u] = at[u]
      BY <2>0, <1>2
    <2>3. Line(Tail(q), a, LiveTasks)
      BY <2>1, <2>2, HasLeaves
    <2>4. Place(a, LiveTasks) = "none"
      BY <2>1, <2>2, HasLeaves
    <2>. QED BY <2>0, <2>3, <2>4
  <1>. QED BY <1>2, <1>3, <1>4 DEF StagesInv, Here, LiveTasks, Live!Tasks

\* ... after the idle stop is cancelled, or begun anew.
LEMMA GraceOut ==
    ASSUME NEW q, NEW t, Has(q, at, LiveTasks, t), t # Grace,
           NEW g \in {"out", "sleep"}, NEW b, b = [at EXCEPT ![Grace] = g]
    PROVE  Has(Live!NoGrace(t, q), b, LiveTasks, t)
  <1>1. t \in LiveTasks /\ Grace \in LiveTasks /\ at \in [LiveTasks -> Stages]
    BY Kinds DEF Has
  <1>2. g \in Stages /\ g \notin Waits \cup Inside
    BY DEF Stages, Waits, Inside
  <1>3. b \in [LiveTasks -> Stages] /\ b[Grace] = g /\ \A v \in LiveTasks : v # Grace => b[v] = at[v]
    BY <1>1, <1>2
  <1>4. Has(Drop(q, Grace), b, LiveTasks, t)
    BY <1>1, <1>2, <1>3, HasBut
  <1>5. Live!NoGrace(t, q) = Drop(q, Grace)
    BY LiveDrop DEF Live!NoGrace
  <1>. QED BY <1>4, <1>5
LEMMA IdleStays ==
    ASSUME StagesInv, NEW q, NEW t, Has(q, at, LiveTasks, t), NEW s \in Inside, s \in LiveStages(t),
           lock' = Live!NoGrace(t, q), at' = Live!NoIdle(t, Live!To(t, s))
    PROVE  /\ StagesInv' /\ Here' = s
           /\ at'[t] = s /\ \A u \in LiveTasks \ {t, Grace} : at'[u] = at[u]
  <1>1. t \in LiveTasks /\ Grace \in LiveTasks /\ at \in [LiveTasks -> Stages] /\ s \in Stages
    BY Kinds DEF Has, Stages
  <1>2. CASE t = Grace
    <2>1. lock' = q /\ at' = [at EXCEPT ![t] = s]
      BY <1>2 DEF Live!NoGrace, Live!NoIdle, Live!To
    <2>. QED BY <1>1, <2>1, LiveStays
  <1>3. CASE t # Grace
    <2>. PICK p : p = Live!NoGrace(t, q)
      OBVIOUS
    <2>0. PICK b : b = [at EXCEPT ![Grace] = "out"]
      OBVIOUS
    <2>1. Has(p, b, LiveTasks, t)
      BY <1>3, <2>0, GraceOut
    <2>2. at' = [[at EXCEPT ![t] = s] EXCEPT ![Grace] = "out"]
      BY <1>3 DEF Live!NoIdle, Live!To
    <2>3. "out" \in Stages
      BY DEF Stages
    <2>4. at' \in [LiveTasks -> Stages] /\ at'[t] = s /\ at'[Grace] = "out"
      BY <1>1, <1>3, <2>2, <2>3
    <2>5. \A u \in LiveTasks \ {t, Grace} : at'[u] = at[u]
      BY <1>1, <2>2
    <2>6. \A u \in LiveTasks : u # t => at'[u] = b[u]
      BY <1>1, <2>0, <2>4, <2>5
    <2>7. Line(p, at', LiveTasks) /\ Place(at', LiveTasks) = s
      <3>0. PICK a : a = at'
        OBVIOUS
      <3>1. a[t] \in Inside
        BY <3>0, <2>4
      <3>2. \A u \in LiveTasks : u # t => a[u] = b[u]
        BY <3>0, <2>6
      <3>3. Line(p, a, LiveTasks)
        BY <2>1, <3>1, <3>2, HasStays
      <3>4. Place(a, LiveTasks) = a[t]
        BY <2>1, <3>1, <3>2, HasStays
      <3>. QED BY <3>0, <2>4, <3>3, <3>4
    <2>8. "out" \in LiveStages(Grace)
      BY Kinds DEF LiveStages
    <2>9. \A u \in LiveTasks : at'[u] \in LiveStages(u)
      BY <2>4, <2>5, <2>8 DEF StagesInv
    <2>. QED BY <2>4, <2>5, <2>7, <2>9 DEF StagesInv, Here, LiveTasks, Live!Tasks
  <1>. QED BY <1>2, <1>3
LEMMA IdleLeaves ==
    ASSUME StagesInv, NEW q, NEW t, Has(q, at, LiveTasks, t), t # Grace, NEW g \in {"out", "sleep"},
           NEW s \in LiveStages(t), s \notin Waits \cup Inside,
           lock' = Tail(Live!NoGrace(t, q)), at' = [[at EXCEPT ![t] = s] EXCEPT ![Grace] = g]
    PROVE  /\ StagesInv' /\ Here' = "none"
           /\ at'[t] = s /\ at'[Grace] = g /\ \A u \in LiveTasks \ {t, Grace} : at'[u] = at[u]
  <1>1. t \in LiveTasks /\ Grace \in LiveTasks /\ at \in [LiveTasks -> Stages] /\ s \in Stages /\ g \in Stages
    BY Kinds DEF Has, Stages
  <1>. PICK p : p = Live!NoGrace(t, q)
    OBVIOUS
  <1>0. PICK b : b = [at EXCEPT ![Grace] = g]
    OBVIOUS
  <1>2. Has(p, b, LiveTasks, t)
    BY <1>0, GraceOut
  <1>3. at' \in [LiveTasks -> Stages] /\ at'[t] = s /\ at'[Grace] = g
    BY <1>1
  <1>4. \A u \in LiveTasks \ {t, Grace} : at'[u] = at[u]
    BY <1>1
  <1>5. \A u \in LiveTasks : u # t => at'[u] = b[u]
    BY <1>0, <1>1, <1>3, <1>4
  <1>6. Line(Tail(p), at', LiveTasks) /\ Place(at', LiveTasks) = "none"
    <2>0. PICK a : a = at'
      OBVIOUS
    <2>1. a[t] \notin Waits \cup Inside
      BY <2>0, <1>3
    <2>2. \A u \in LiveTasks : u # t => a[u] = b[u]
      BY <2>0, <1>5
    <2>3. Line(Tail(p), a, LiveTasks)
      BY <1>2, <2>1, <2>2, HasLeaves
    <2>4. Place(a, LiveTasks) = "none"
      BY <1>2, <2>1, <2>2, HasLeaves
    <2>. QED BY <2>0, <2>3, <2>4
  <1>7. g \in LiveStages(Grace)
    BY Kinds DEF LiveStages
  <1>8. \A u \in LiveTasks : at'[u] \in LiveStages(u)
    BY <1>3, <1>4, <1>7 DEF StagesInv
  <1>. QED BY <1>3, <1>4, <1>6, <1>8 DEF StagesInv, Here, LiveTasks, Live!Tasks

\* ... whoever it is: the idle stop does not cancel itself.
LEMMA NoIdleLeaves ==
    ASSUME StagesInv, NEW q, NEW t, Has(q, at, LiveTasks, t),
           NEW s \in LiveStages(t), s \notin Waits \cup Inside,
           lock' = Tail(Live!NoGrace(t, q)), at' = Live!NoIdle(t, Live!To(t, s))
    PROVE  /\ StagesInv' /\ Here' = "none"
           /\ at'[t] = s /\ \A u \in LiveTasks \ {t, Grace} : at'[u] = at[u]
  <1>1. t \in LiveTasks /\ at \in [LiveTasks -> Stages]
    BY DEF Has
  <1>2. CASE t = Grace
    <2>1. lock' = Tail(q) /\ at' = [at EXCEPT ![t] = s]
      BY <1>2 DEF Live!NoGrace, Live!NoIdle, Live!To
    <2>. QED BY <1>1, <2>1, LiveLeaves
  <1>3. CASE t # Grace
    <2>1. at' = [[at EXCEPT ![t] = s] EXCEPT ![Grace] = "out"]
      BY <1>3 DEF Live!NoIdle, Live!To
    <2>. QED BY <1>3, <2>1, IdleLeaves
  <1>. QED BY <1>2, <1>3

-----------------------------------------------------------------------------
(* AvStream: the locked sections.                                           *)

\* _stop_av_ffmpeg_locked() by the task with the lock.
LEMMA StopBeginsKeeps ==
    ASSUME LiveCore, NEW q, NEW t, Has(q, at, LiveTasks, t), at[t] \notin Inside \ {"reap"},
           NEW next,
           next = "sdp" => t \in Clients /\ reaping = None /\ clients = {} /\ (proc = None \/ life[proc] = "gone"),
           next # "sdp" => next \in LiveStages(t) /\ next \notin Waits \cup Inside \cup {"on"},
           Live!StopBegins(t, q, next),
           clients' \subseteq clients \ {t}, clients \subseteq clients' \cup {t}, ended' \subseteq Clients,
           clients' # {} => t \in Stops
    PROVE  LiveCore' /\ Live!KeepsServing
  <1>. USE DEF LiveCore
  <1>1. t \in LiveTasks /\ Grace \in LiveTasks /\ Grace \notin Clients
    BY Kinds DEF Has
  <1>2. Here \in {"none", "reap"}
    BY HereIs DEF LiveCore
  <1>3. forward' = FALSE /\ proc' = None /\ victim' = proc /\ UNCHANGED <<ports, reaping, pump, pumping>>
    BY DEF Live!StopBegins, Live!pumpVars
  <1>4. /\ StagesInv' /\ (\A u \in LiveTasks \ {t, Grace} : at'[u] = at[u])
        /\ at'[t] \in Inside \cup {next} /\ at'[t] # "on"
        /\ Here' = IF proc = None THEN (IF next = "sdp" THEN "sdp" ELSE "none")
                                  ELSE (IF next = "sdp" THEN "replace" ELSE "kill")
        /\ Here' = "kill" => at'[t] = "kill"
    <2>. PICK s : s = IF next = "sdp" THEN (IF proc = None THEN "sdp" ELSE "replace")
                                      ELSE (IF proc = None THEN next ELSE "kill")
      OBVIOUS
    <2>1. CASE next = "sdp" \/ proc # None
      <3>1. lock' = Live!NoGrace(t, q) /\ at' = Live!NoIdle(t, Live!To(t, s))
        BY <2>1 DEF Live!StopBegins, Live!Suspends
      <3>2. s \in Inside /\ s \in LiveStages(t) /\ s \in {"sdp", "replace", "kill"}
        BY <1>1, <2>1 DEF Inside, LiveStages
      <3>3. StagesInv' /\ Here' = s /\ at'[t] = s /\ \A u \in LiveTasks \ {t, Grace} : at'[u] = at[u]
        BY <3>1, <3>2, IdleStays
      <3>. QED BY <2>1, <3>2, <3>3
    <2>2. CASE next # "sdp" /\ proc = None
      <3>1. lock' = Tail(Live!NoGrace(t, q)) /\ at' = Live!NoIdle(t, Live!To(t, next))
        BY <2>2 DEF Live!StopBegins, Live!Returns
      <3>2. next \in LiveStages(t) /\ next \notin Waits \cup Inside /\ next # "on"
        BY <2>2
      <3>3. StagesInv' /\ Here' = "none" /\ at'[t] = next /\ \A u \in LiveTasks \ {t, Grace} : at'[u] = at[u]
        BY <3>1, <3>2, NoIdleLeaves
      <3>. QED BY <2>2, <3>2, <3>3
    <2>. QED BY <2>1, <2>2
  <1>5. /\ life' \in [Live!Procs -> {"unborn", "spawning", "started", "listening", "dying", "gone"}]
        /\ \A p \in Live!Procs : /\ p # proc => life'[p] = life[p]
                                 /\ p = proc => life'[p] = IF life[p] = "gone" THEN "gone" ELSE "dying"
    <2>1. CASE proc = None
      BY <2>1, Kinds DEF Live!StopBegins, ProcTypes
    <2>2. CASE proc # None
      <3>1. life' = [life EXCEPT ![proc] = IF Live!Runs(proc) THEN "dying" ELSE @]
        BY <2>2 DEF Live!StopBegins, Live!Kill
      <3>. QED BY <2>2, <3>1 DEF Live!Runs, ProcTypes, ProcInv
    <2>. QED BY <2>1, <2>2
  <1>6. ProcTypes'
    BY <1>3, <1>5 DEF ProcTypes, Live!Procs
  <1>7. clients # {} => proc # None /\ pump \in pumping
    BY <1>2 DEF SectionInv
  <1>8. ProcInv'
    <2>1. ports' # None => life'[ports'] \in {"listening", "dying"}
      BY <1>3, <1>5 DEF ProcInv, ProcTypes
    <2>2. reaping' # None => life'[reaping'] \in {"spawning", "dying", "gone"} /\ reaping' # proc'
      BY <1>3, <1>5 DEF ProcInv, ProcTypes
    <2>3. pump' # None => life'[pump'] \notin {"unborn", "spawning"}
      BY <1>3, <1>5 DEF ProcInv, ProcTypes
    <2>4. ASSUME NEW p \in Live!Procs
          PROVE  /\ life'[p] = "started" => ports' = None
                 /\ life'[p] \in {"started", "listening"} => p = proc'
                 /\ life'[p] = "dying" => p = reaping' \/ (Here' = "kill" /\ p = victim')
                 /\ life'[p] = "spawning" => p = reaping' \/ Here' = "spawn"
      <3>1. life'[p] \notin {"started", "listening"}
        BY <1>5 DEF ProcInv
      <3>2. life'[p] = "spawning" => p = reaping'
        BY <1>2, <1>3, <1>5 DEF ProcInv
      <3>3. life'[p] = "dying" => p = reaping' \/ (Here' = "kill" /\ p = victim')
        BY <1>2, <1>3, <1>4, <1>5, Kinds DEF ProcInv
      <3>. QED BY <3>1, <3>2, <3>3
    <2>5. ASSUME NEW p \in Live!Procs, NEW o \in Live!Procs, life'[p] = "spawning", life'[o] = "spawning"
          PROVE  p = o \/ reaping' \in {p, o}
      BY <2>4, <2>5, <1>2, <1>3, <1>5 DEF ProcInv
    <2>. QED BY <1>3, <2>1, <2>2, <2>3, <2>4, <2>5 DEF ProcInv, Live!Procs
  <1>9. SectionInv'
    <2>1. Here' \in {"none", "sdp", "replace", "kill"} /\ (Here' \in {"sdp", "replace"} => next = "sdp")
      BY <1>4
    <2>2. clients' # {} => next # "sdp" /\ proc # None /\ pump \in pumping
      BY <1>7
    <2>3. clients' # {} => pump' \in pumping' /\ Here' = "kill"
      BY <1>3, <1>4, <2>2
    <2>. QED BY <1>3, <2>1, <2>2, <2>3 DEF SectionInv
  <1>10. WatchInv'
    <2>1. \A c \in clients' : c # t /\ c # Grace /\ c \in LiveTasks /\ c \in clients
      BY <1>1, Kinds DEF ProcTypes
    <2>2. \A c \in clients' : at'[c] \in {"on", "unsub"}
      BY <1>4, <2>1 DEF WatchInv
    <2>. QED BY <1>3, <2>2 DEF WatchInv
  <1>11. Live!KeepsServing
    <2>1. ASSUME NEW c \in (clients \ clients') \ Slow, at[c] = "on", at'[c] = "on" PROVE FALSE
      BY <1>4, <2>1
    <2>2. proc # None /\ life[proc] = "listening" /\ clients' # {} => \E s \in Stops : at'[s] = "kill"
      <3>. SUFFICES ASSUME proc # None, life[proc] = "listening", clients' # {} PROVE at'[t] = "kill"
        OBVIOUS
      <3>1. next # "sdp"
        OBVIOUS
      <3>. QED BY <1>4, <3>1
    <2>. QED BY <2>1, <2>2 DEF Live!KeepsServing
  <1>. QED BY <1>4, <1>6, <1>8, <1>9, <1>10, <1>11

\* The processes stay as they are.
LEMMA ProcSame ==
    ASSUME ProcTypes, ProcInv, UNCHANGED <<proc, life, ports, reaping, victim, pump, pumping>>,
           Here = "spawn" => Here' = "spawn", Here = "kill" => Here' = Here \/ life[victim] = "gone",
           clients' \cup ended' \subseteq Clients, forward' \in BOOLEAN
    PROVE  ProcTypes' /\ ProcInv'
  <1>1. ProcTypes'
    BY DEF ProcTypes, Live!Procs
  <1>2. \A p \in Live!Procs :
            /\ life'[p] = "started" => ports' = None
            /\ life'[p] \in {"started", "listening"} => p = proc'
            /\ life'[p] = "dying" => p = reaping' \/ (Here' = "kill" /\ p = victim')
            /\ life'[p] = "spawning" => p = reaping' \/ Here' = "spawn"
    <2>. TAKE p \in Live!Procs
    <2>1. life'[p] = life[p]
      OBVIOUS
    <2>2. life'[p] = "dying" => p = reaping' \/ (Here' = "kill" /\ p = victim')
      BY <2>1 DEF ProcInv
    <2>3. life'[p] = "spawning" => p = reaping' \/ Here' = "spawn"
      BY <2>1 DEF ProcInv
    <2>4. /\ life'[p] = "started" => ports' = None
          /\ life'[p] \in {"started", "listening"} => p = proc'
      BY <2>1 DEF ProcInv
    <2>. QED BY <2>2, <2>3, <2>4
  <1>3. \A p, o \in Live!Procs : life'[p] = "spawning" /\ life'[o] = "spawning" => p = o \/ reaping' \in {p, o}
    BY DEF ProcInv
  <1>4. /\ ports' # None => life'[ports'] \in {"listening", "dying"}
        /\ proc' # None => life'[proc'] \in {"started", "listening", "gone"}
        /\ reaping' # None => life'[reaping'] \in {"spawning", "dying", "gone"} /\ reaping' # proc'
        /\ pump' # None => life'[pump'] \notin {"unborn", "spawning"}
    BY DEF ProcInv
  <1>5. ProcInv'
    BY <1>2, <1>3, <1>4 DEF ProcInv, Live!Procs
  <1>. QED BY <1>1, <1>5

\* A task waits for the lock.
LEMMA QueuesKeeps ==
    ASSUME LiveCore, NEW t \in LiveTasks, NEW stage \in Waits, stage \in LiveStages(t),
           at[t] \in {"out", "on", "sleep"}, at[t] = "on" => stage = "unsub", at[t] = "sleep" => stage = "stop",
           Live!Queues(t, stage)
    PROVE  LiveCore' /\ Live!KeepsServing
  <1>. USE DEF LiveCore
  <1>1. at[t] \notin Waits \cup Inside /\ stage \in Stages
    BY DEF Waits, Inside, Stages
  <1>2. /\ at' \in [LiveTasks -> Stages] /\ at'[t] = stage /\ lock # <<>> /\ lock' = Append(lock, t)
        /\ \A u \in LiveTasks : u # t => at'[u] = at[u]
    BY <1>1 DEF Live!Queues, Live!Suspends, Live!To, StagesInv
  <1>3. \A u \in LiveTasks : at'[u] \in LiveStages(u)
    BY <1>2 DEF StagesInv
  <1>4. Line(lock', at', LiveTasks) /\ Place(at', LiveTasks) = Place(at, LiveTasks)
    <2>0. PICK a : a = at'
      OBVIOUS
    <2>1. a[t] \in Waits
      BY <1>2, <2>0
    <2>2. \A u \in LiveTasks : u # t => a[u] = at[u]
      BY <1>2, <2>0
    <2>3. Line(lock, at, LiveTasks) /\ lock # <<>>
      BY <1>2 DEF StagesInv
    <2>4. Line(Append(lock, t), a, LiveTasks)
      BY <1>1, <2>1, <2>2, <2>3, LineAppend
    <2>5. Place(a, LiveTasks) = Place(at, LiveTasks)
      BY <1>1, <2>1, <2>2, <2>3, LineAppend
    <2>. QED BY <1>2, <2>0, <2>4, <2>5
  <1>5. StagesInv' /\ Here' = Here
    BY <1>2, <1>3, <1>4 DEF StagesInv, Here, LiveTasks, Live!Tasks
  <1>6. UNCHANGED <<proc, life, ports, reaping, victim, pump, pumping, clients, ended, forward>>
    BY DEF Live!Queues, Live!ffmpegVars, Live!pumpVars, Live!clientVars
  <1>7. ProcTypes' /\ ProcInv'
    BY <1>5, <1>6, ProcSame DEF ProcTypes
  <1>8. SectionInv'
    BY <1>5, <1>6 DEF SectionInv
  <1>9. WatchInv'
    <2>1. \A u \in LiveTasks : at[u] \in {"on", "unsub"} => at'[u] \in {"on", "unsub"}
      BY <1>2
    <2>2. at[Grace] \in {"sleep", "stop"} => at'[Grace] \in {"sleep", "stop"}
      BY <1>2, Kinds
    <2>3. \A c \in Clients : c \in LiveTasks
      BY Kinds
    <2>. QED BY <1>5, <1>6, <2>1, <2>2, <2>3 DEF WatchInv, ProcTypes
  <1>10. Live!KeepsServing
    BY <1>6 DEF Live!KeepsServing
  <1>. QED BY <1>5, <1>7, <1>8, <1>9, <1>10

\* av_subscribe() with the lock.
LEMMA SubscribeKeeps ==
    ASSUME LiveCore, NEW q, NEW c \in Clients, Has(q, at, LiveTasks, c), at[c] \in {"out", "sub"},
           Live!SubscribeRuns(c, q)
    PROVE  LiveCore' /\ Live!KeepsServing
  <1>. USE DEF LiveCore
  <1>1. c \in LiveTasks /\ c # Grace /\ Grace \in LiveTasks /\ c \notin Stops
    BY Kinds
  <1>2. at[c] \notin Inside /\ at[c] \notin {"on", "unsub"}
    BY DEF Inside
  <1>3. Here = "none"
    BY <1>2, HereIs
  <1>4. c \notin clients
    BY <1>2 DEF WatchInv
  <1>5. Live!Restart => (proc = None \/ life[proc] = "gone") /\ clients = {}
    BY <1>3 DEF Live!Restart, SectionInv
  <1>6. CASE ~Live!Restart /\ clients' = clients \cup {c}
             /\ Live!Returns(Live!NoGrace(c, q), Live!NoIdle(c, Live!To(c, "on")))
             /\ UNCHANGED <<proc, life, ports, reaping, victim, pump, pumping, ended, forward>>
    <2>1. "on" \in LiveStages(c) /\ "on" \notin Waits \cup Inside
      BY DEF LiveStages, Waits, Inside
    <2>2. lock' = Tail(Live!NoGrace(c, q)) /\ at' = Live!NoIdle(c, Live!To(c, "on"))
      BY <1>6 DEF Live!Returns
    <2>3. /\ StagesInv' /\ Here' = "none" /\ at'[c] = "on"
          /\ \A u \in LiveTasks \ {c, Grace} : at'[u] = at[u]
      BY <2>1, <2>2, NoIdleLeaves
    <2>4. ProcTypes' /\ ProcInv'
      BY <1>3, <1>6, ProcSame DEF ProcTypes
    <2>5. SectionInv'
      BY <1>3, <1>6, <2>3 DEF SectionInv, Live!Restart
    <2>6. WatchInv'
      <3>1. \A d \in clients' : at'[d] \in {"on", "unsub"}
        BY <1>1, <1>6, <2>3, Kinds DEF WatchInv, ProcTypes
      <3>. QED BY <2>3, <3>1 DEF WatchInv
    <2>7. Live!KeepsServing
      BY <1>6 DEF Live!KeepsServing
    <2>. QED BY <2>3, <2>4, <2>5, <2>6, <2>7
  <1>7. CASE Live!Restart /\ reaping # None
             /\ Live!Suspends(Live!NoGrace(c, q), Live!NoIdle(c, Live!To(c, "reap")))
             /\ UNCHANGED <<proc, life, ports, reaping, victim, pump, pumping, clients, ended, forward>>
    <2>1. "reap" \in LiveStages(c) /\ "reap" \in Inside
      BY DEF LiveStages, Inside
    <2>2. lock' = Live!NoGrace(c, q) /\ at' = Live!NoIdle(c, Live!To(c, "reap"))
      BY <1>7 DEF Live!Suspends
    <2>3. StagesInv' /\ Here' = "reap"
      BY <2>1, <2>2, IdleStays
    <2>4. ProcTypes' /\ ProcInv'
      BY <1>3, <1>7, ProcSame DEF ProcTypes
    <2>5. SectionInv'
      BY <1>3, <1>5, <1>7, <2>3 DEF SectionInv
    <2>6. WatchInv'
      BY <1>5, <1>7 DEF WatchInv
    <2>7. Live!KeepsServing
      BY <1>7 DEF Live!KeepsServing
    <2>. QED BY <2>3, <2>4, <2>5, <2>6, <2>7
  <1>8. CASE Live!Restart /\ reaping = None /\ Live!StopBegins(c, q, "sdp") /\ UNCHANGED <<clients, ended>>
    <2>1. at[c] \notin Inside \ {"reap"} /\ clients = {} /\ clients' = {}
      BY <1>2, <1>5, <1>8
    <2>2. ended' \subseteq Clients
      BY <1>8 DEF ProcTypes
    <2>. QED BY <1>5, <1>8, <2>1, <2>2, StopBeginsKeeps
  <1>. QED BY <1>6, <1>7, <1>8 DEF Live!SubscribeRuns, Live!ffmpegVars, Live!pumpVars, Live!clientVars

\* av_unsubscribe() with the lock.
LEMMA UnsubscribeKeeps ==
    ASSUME LiveCore, NEW q, NEW c \in Clients, Has(q, at, LiveTasks, c), at[c] \in {"on", "unsub"},
           Live!UnsubscribeRuns(c, q)
    PROVE  LiveCore' /\ Live!KeepsServing
  <1>. USE DEF LiveCore
  <1>1. c \in LiveTasks /\ c # Grace /\ Grace \in LiveTasks /\ c \notin Stops
    BY Kinds
  <1>2. at[c] \notin Inside
    BY DEF Inside
  <1>3. Here = "none"
    BY <1>2, HereIs
  <1>4. "out" \in LiveStages(c) /\ "out" \notin Waits \cup Inside \cup {"on"}
    BY DEF LiveStages, Waits, Inside
  <1>5. clients' = clients \ {c} /\ ended' = ended \ {c}
    BY DEF Live!UnsubscribeRuns
  <1>6. CASE clients' # {} /\ Live!Returns(q, Live!To(c, "out"))
             /\ UNCHANGED <<proc, life, ports, reaping, victim, pump, pumping, forward>>
    <2>1. lock' = Tail(q) /\ at' = [at EXCEPT ![c] = "out"]
      BY <1>6 DEF Live!Returns, Live!To
    <2>2. StagesInv' /\ Here' = "none"
      BY <1>4, <2>1, LiveLeaves
    <2>3. ProcTypes' /\ ProcInv'
      BY <1>3, <1>5, <1>6, ProcSame DEF ProcTypes
    <2>4. SectionInv'
      BY <1>3, <1>5, <1>6, <2>2 DEF SectionInv
    <2>5. \A d \in Clients : d # c => at'[d] = at[d]
      BY <1>1, <2>1, Kinds DEF StagesInv
    <2>6. WatchInv'
      <3>1. \A d \in clients' : d \in Clients /\ at'[d] \in {"on", "unsub"}
        BY <1>5, <2>5 DEF WatchInv, ProcTypes
      <3>. QED BY <1>6, <3>1 DEF WatchInv
    <2>7. Live!KeepsServing
      <3>1. at'[c] = "out"
        BY <1>1, <2>1 DEF StagesInv
      <3>. QED BY <1>5, <1>6, <3>1 DEF Live!KeepsServing
    <2>. QED BY <2>2, <2>3, <2>4, <2>6, <2>7
  <1>7. CASE clients' = {} /\ Live!Returns(Live!NoGrace(c, q), [Live!To(c, "out") EXCEPT ![Grace] = "sleep"])
             /\ UNCHANGED <<proc, life, ports, reaping, victim, pump, pumping, forward>>
    <2>1. lock' = Tail(Live!NoGrace(c, q)) /\ at' = [[at EXCEPT ![c] = "out"] EXCEPT ![Grace] = "sleep"]
      BY <1>7 DEF Live!Returns, Live!To
    <2>2. StagesInv' /\ Here' = "none" /\ at'[c] = "out" /\ at'[Grace] = "sleep"
      BY <1>1, <1>4, <2>1, IdleLeaves
    <2>3. ProcTypes' /\ ProcInv'
      BY <1>3, <1>5, <1>7, ProcSame DEF ProcTypes
    <2>4. SectionInv'
      BY <1>3, <1>5, <1>7, <2>2 DEF SectionInv
    <2>5. WatchInv'
      BY <1>7, <2>2 DEF WatchInv
    <2>6. Live!KeepsServing
      BY <1>5, <1>7, <2>2 DEF Live!KeepsServing
    <2>. QED BY <2>2, <2>3, <2>4, <2>5, <2>6
  <1>8. CASE clients' = {} /\ Live!StopBegins(c, q, "out")
    <2>1. /\ at[c] \notin Inside \ {"reap"} /\ clients' \subseteq clients \ {c} /\ clients \subseteq clients' \cup {c}
          /\ ended' \subseteq Clients
      BY <1>2, <1>5 DEF ProcTypes
    <2>. QED BY <1>4, <1>8, <2>1, StopBeginsKeeps
  <1>. QED BY <1>6, <1>7, <1>8 DEF Live!UnsubscribeRuns, Live!ffmpegVars, Live!pumpVars

\* stop_av_ffmpeg(), and _stop_when_idle() after its sleep, with the lock.
LEMMA StopRunsKeeps ==
    ASSUME LiveCore, NEW q, NEW t \in Stops \cup {Grace}, Has(q, at, LiveTasks, t), at[t] \in {"out", "sleep", "stop"},
           Live!StopRuns(t, q)
    PROVE  LiveCore' /\ Live!KeepsServing
  <1>. USE DEF LiveCore
  <1>1. t \in LiveTasks /\ Grace \in LiveTasks /\ t \notin Clients
    BY Kinds
  <1>2. at[t] \notin Inside
    BY DEF Inside
  <1>3. Here = "none"
    BY <1>2, HereIs
  <1>4. UNCHANGED <<clients, ended>>
    BY DEF Live!StopRuns, Live!clientVars
  <1>5. CASE t = Grace /\ clients # {}
    <2>1. lock' = Tail(q) /\ at' = [at EXCEPT ![t] = "out"]
          /\ UNCHANGED <<proc, life, ports, reaping, victim, pump, pumping, forward>>
      BY <1>5 DEF Live!StopRuns, Live!Returns, Live!To, Live!ffmpegVars, Live!pumpVars
    <2>2. "out" \in LiveStages(t) /\ "out" \notin Waits \cup Inside
      BY <1>1 DEF LiveStages, Waits, Inside
    <2>3. StagesInv' /\ Here' = "none"
      BY <2>1, <2>2, LiveLeaves
    <2>4. ProcTypes' /\ ProcInv'
      BY <1>3, <1>4, <2>1, ProcSame DEF ProcTypes
    <2>5. SectionInv'
      BY <1>3, <1>4, <2>1, <2>3 DEF SectionInv
    <2>6. \A d \in Clients : at'[d] = at[d]
      BY <1>1, <2>1, Kinds DEF StagesInv
    <2>7. WatchInv'
      <3>1. \A d \in clients' : d \in Clients /\ at'[d] \in {"on", "unsub"}
        BY <1>4, <2>6 DEF WatchInv, ProcTypes
      <3>. QED BY <1>4, <1>5, <3>1 DEF WatchInv
    <2>8. Live!KeepsServing
      BY <1>4, <2>1 DEF Live!KeepsServing
    <2>. QED BY <2>3, <2>4, <2>5, <2>7, <2>8
  <1>6. CASE ~(t = Grace /\ clients # {})
    <2>. PICK next : next = IF t = Grace THEN "out" ELSE "done"
      OBVIOUS
    <2>1. Live!StopBegins(t, q, next)
      BY <1>6 DEF Live!StopRuns
    <2>2. next # "sdp" /\ next \in LiveStages(t) /\ next \notin Waits \cup Inside \cup {"on"}
      BY <1>1 DEF LiveStages, Waits, Inside
    <2>3. /\ at[t] \notin Inside \ {"reap"} /\ ended' \subseteq Clients
          /\ clients' \subseteq clients \ {t} /\ clients \subseteq clients' \cup {t}
      BY <1>1, <1>2, <1>4 DEF ProcTypes
    <2>4. clients' # {} => t \in Stops
      BY <1>4, <1>6
    <2>. QED BY <2>1, <2>2, <2>3, <2>4, StopBeginsKeeps
  <1>. QED BY <1>5, <1>6

-----------------------------------------------------------------------------
(* AvStream: the rest of a stop, and of a start.                            *)

\* The task inside has the lock, and is where the section is.
LEMMA HoldsIs ==
    ASSUME StagesInv, NEW t \in LiveTasks, NEW stage, Live!Holds(t, stage)
    PROVE  /\ Has(lock, at, LiveTasks, t) /\ at[t] = stage
           /\ Here = IF stage \in Inside THEN stage ELSE "none"
  <1>1. lock # <<>> /\ Head(lock) = t /\ at[t] = stage
    BY DEF Live!Holds
  <1>2. at \in [LiveTasks -> Stages] /\ Line(lock, at, LiveTasks)
    BY DEF StagesInv
  <1>3. Has(lock, at, LiveTasks, t)
    BY <1>1, <1>2, HasIt
  <1>. QED BY <1>1, <1>3, HereIs

\* proc.wait(2) is over.
LEMMA StoppedKeeps ==
    ASSUME LiveCore, NEW t \in LiveTasks, Live!Stopped(t)
    PROVE  LiveCore' /\ Live!KeepsServing
  <1>. USE DEF LiveCore
  <1>1. life[victim] = "gone" /\ clients' = {} /\ ended' = ended \cup clients
        /\ UNCHANGED <<proc, life, ports, reaping, victim, pump, pumping, forward>>
    BY DEF Live!Stopped, Live!EndClients, Live!ffmpegVars, Live!pumpVars
  <1>2. ended' \subseteq Clients
    BY <1>1 DEF ProcTypes
  <1>3. /\ StagesInv' /\ Here \in {"kill", "replace"} /\ Here' \in {"none", "sdp"}
        /\ Here' = "sdp" => Here = "replace"
    <2>1. CASE Live!Holds(t, "kill") /\ Live!Returns(lock, Live!To(t, IF t \in Stops THEN "done" ELSE "out"))
      <3>. PICK s : s = IF t \in Stops THEN "done" ELSE "out"
        OBVIOUS
      <3>1. s \in LiveStages(t) /\ s \notin Waits \cup Inside
        BY Kinds DEF LiveStages, Waits, Inside
      <3>2. lock' = Tail(lock) /\ at' = [at EXCEPT ![t] = s]
        BY <2>1 DEF Live!Returns, Live!To
      <3>3. Has(lock, at, LiveTasks, t) /\ Here = "kill"
        BY <2>1, HoldsIs DEF Inside
      <3>4. StagesInv' /\ Here' = "none"
        BY <3>1, <3>2, <3>3, LiveLeaves
      <3>. QED BY <3>3, <3>4
    <2>2. CASE Live!Holds(t, "replace") /\ Live!Suspends(lock, Live!To(t, "sdp"))
      <3>1. lock' = lock /\ at' = [at EXCEPT ![t] = "sdp"]
        BY <2>2 DEF Live!Suspends, Live!To
      <3>2. Has(lock, at, LiveTasks, t) /\ Here = "replace" /\ at[t] = "replace"
        BY <2>2, HoldsIs DEF Inside
      <3>3. "sdp" \in Inside /\ "sdp" \in LiveStages(t)
        BY <3>2, Kinds DEF LiveStages, Inside, StagesInv
      <3>4. StagesInv' /\ Here' = "sdp"
        BY <3>1, <3>2, <3>3, LiveStays
      <3>. QED BY <3>2, <3>4
    <2>. QED BY <2>1, <2>2 DEF Live!Stopped
  <1>4. ProcTypes' /\ ProcInv'
    BY <1>1, <1>2, <1>3, ProcSame DEF ProcTypes
  <1>5. SectionInv'
    BY <1>1, <1>3 DEF SectionInv
  <1>6. WatchInv'
    BY <1>1, <1>3 DEF WatchInv, SectionInv
  <1>7. Live!KeepsServing
    <2>1. proc = None /\ (clients # {} => pump \in Live!Procs)
      BY <1>3 DEF SectionInv, ProcTypes
    <2>2. clients # {} => life[pump] \in {"dying", "gone"}
      BY <2>1, Kinds DEF ProcInv, ProcTypes
    <2>. QED BY <1>1, <2>1, <2>2 DEF Live!KeepsServing
  <1>. QED BY <1>3, <1>4, <1>5, <1>6, <1>7

\* The previous ffmpeg is reaped.
LEMMA ReapedKeeps ==
    ASSUME LiveCore, NEW c \in Clients, Live!Reaped(c)
    PROVE  LiveCore' /\ Live!KeepsServing
  <1>1. c \in LiveTasks
    BY Kinds
  <1>2. Has(lock, at, LiveTasks, c) /\ at[c] = "reap" /\ Here = "reap"
    BY <1>1, HoldsIs DEF Live!Reaped, LiveCore, Inside
  <1>3. /\ reaping = None /\ Live!StopBegins(c, lock, "sdp") /\ clients = {} /\ clients' = {} /\ ended' \subseteq Clients
        /\ proc = None \/ life[proc] = "gone"
    BY <1>2 DEF Live!Reaped, LiveCore, SectionInv, ProcTypes, Live!clientVars
  <1>4. at[c] \notin Inside \ {"reap"}
    BY <1>2
  <1>. QED BY <1>2, <1>3, <1>4, StopBeginsKeeps

\* The input SDP is written, or cannot be.
LEMMA SdpWrittenKeeps ==
    ASSUME LiveCore, NEW c \in Clients, Live!SdpWritten(c)
    PROVE  LiveCore' /\ Live!KeepsServing
  <1>. USE DEF LiveCore
  <1>1. c \in LiveTasks
    BY Kinds
  <1>2. Has(lock, at, LiveTasks, c) /\ Here = "sdp"
    BY <1>1, HoldsIs DEF Live!SdpWritten, Inside
  <1>3. UNCHANGED <<proc, ports, reaping, victim, pump, pumping, clients, ended, forward>>
    BY DEF Live!SdpWritten, Live!pumpVars, Live!clientVars
  <1>4. reaping = None /\ proc = None /\ ~forward /\ clients = {}
    BY <1>2 DEF SectionInv
  <1>5. Live!KeepsServing
    BY <1>3 DEF Live!KeepsServing
  <1>6. WatchInv'
    BY <1>3, <1>4 DEF WatchInv
  <1>7. ASSUME NEW p \in Live!Procs, life[p] = "unborn", life' = [life EXCEPT ![p] = "spawning"],
               Live!Suspends(lock, Live!To(c, "spawn"))
        PROVE  LiveCore' /\ Live!KeepsServing
    <2>1. lock' = lock /\ at' = [at EXCEPT ![c] = "spawn"] /\ "spawn" \in Inside /\ "spawn" \in LiveStages(c)
      BY <1>7 DEF Live!Suspends, Live!To, LiveStages, Inside
    <2>2. StagesInv' /\ Here' = "spawn"
      BY <1>2, <2>1, LiveStays
    <2>3. /\ life' \in [Live!Procs -> {"unborn", "spawning", "started", "listening", "dying", "gone"}]
          /\ life'[p] = "spawning" /\ \A o \in Live!Procs : o # p => life'[o] = life[o]
      BY <1>7 DEF ProcTypes
    <2>4. ProcTypes'
      BY <1>3, <2>3 DEF ProcTypes, Live!Procs
    <2>5. \A o \in Live!Procs : life[o] \notin {"spawning", "dying", "started", "listening"}
      BY <1>2, <1>4, Kinds DEF ProcInv
    <2>6. /\ ports' # None => life'[ports'] \in {"listening", "dying"}
          /\ pump' # None => life'[pump'] \notin {"unborn", "spawning"}
      BY <1>3, <1>7, <2>3 DEF ProcInv, ProcTypes
    <2>7. \A o \in Live!Procs : life'[o] \notin {"dying", "started", "listening"} /\ (life'[o] = "spawning" => o = p)
      BY <2>3, <2>5
    <2>8. ProcInv'
      BY <1>3, <1>4, <2>2, <2>6, <2>7 DEF ProcInv, Live!Procs
    <2>9. SectionInv'
      BY <1>3, <1>4, <2>2 DEF SectionInv
    <2>. QED BY <1>5, <1>6, <2>2, <2>4, <2>8, <2>9
  <1>8. CASE Live!Returns(lock, Live!To(c, "out")) /\ UNCHANGED life
    <2>1. lock' = Tail(lock) /\ at' = [at EXCEPT ![c] = "out"] /\ "out" \notin Waits \cup Inside /\ "out" \in LiveStages(c)
      BY <1>8 DEF Live!Returns, Live!To, LiveStages, Waits, Inside
    <2>2. StagesInv' /\ Here' = "none"
      BY <1>2, <2>1, LiveLeaves
    <2>3. ProcTypes' /\ ProcInv'
      BY <1>2, <1>3, <1>8, ProcSame DEF ProcTypes
    <2>4. SectionInv'
      BY <1>3, <1>4, <2>2 DEF SectionInv
    <2>. QED BY <1>5, <1>6, <2>2, <2>3, <2>4
  <1>. QED BY <1>7, <1>8 DEF Live!SdpWritten

\* Popen returns or raises.
LEMMA SpawnedKeeps ==
    ASSUME LiveCore, NEW c \in Clients, Live!Spawned(c)
    PROVE  LiveCore' /\ Live!KeepsServing
  <1>. USE DEF LiveCore
  <1>1. c \in LiveTasks
    BY Kinds
  <1>2. Has(lock, at, LiveTasks, c) /\ Here = "spawn"
    BY <1>1, HoldsIs DEF Live!Spawned, Inside
  <1>3. UNCHANGED <<ports, reaping, victim, pump, pumping, clients, ended, forward>>
    BY DEF Live!Spawned, Live!pumpVars, Live!clientVars
  <1>4. reaping = None /\ proc = None /\ ~forward /\ clients = {}
    BY <1>2 DEF SectionInv
  <1>5. Live!KeepsServing
    BY <1>3, <1>4 DEF Live!KeepsServing
  <1>6. ports = None /\ \A o \in Live!Procs : life[o] \notin {"dying", "started", "listening"}
    BY <1>2, <1>4, Kinds DEF ProcInv, ProcTypes
  <1>7. PICK p \in Live!Procs :
            /\ life[p] = "spawning" /\ p # reaping
            /\ \/ /\ life' = [life EXCEPT ![p] = "started"] /\ proc' = p
                  /\ Live!Suspends(lock, Live!To(c, "listen"))
               \/ /\ life' = [life EXCEPT ![p] = "gone"] /\ proc' = None
                  /\ Live!Returns(lock, Live!To(c, "out"))
    BY DEF Live!Spawned
  <1>8. /\ life' \in [Live!Procs -> {"unborn", "spawning", "started", "listening", "dying", "gone"}]
        /\ \A o \in Live!Procs : o # p => life'[o] = life[o]
        /\ life'[p] \in {"started", "gone"}
    BY <1>7 DEF ProcTypes
  <1>9. ProcTypes'
    BY <1>3, <1>7, <1>8 DEF ProcTypes, Live!Procs
  <1>10. \A o \in Live!Procs : o # p => life[o] # "spawning"
    BY <1>2, <1>4, <1>7, Kinds DEF ProcInv
  <1>11. \A o \in Live!Procs : life'[o] \notin {"dying", "listening", "spawning"} /\ (life'[o] = "started" => o = p)
    BY <1>6, <1>8, <1>10
  <1>12. pump' # None => life'[pump'] \notin {"unborn", "spawning"}
    BY <1>3, <1>8, <1>7 DEF ProcInv, ProcTypes
  <1>13. CASE life'[p] = "started" /\ proc' = p /\ Live!Suspends(lock, Live!To(c, "listen"))
    <2>1. lock' = lock /\ at' = [at EXCEPT ![c] = "listen"] /\ "listen" \in Inside /\ "listen" \in LiveStages(c)
      BY <1>13 DEF Live!Suspends, Live!To, LiveStages, Inside
    <2>2. StagesInv' /\ Here' = "listen"
      BY <1>2, <2>1, LiveStays
    <2>3. p # None
      BY Kinds
    <2>4. ProcInv'
      BY <1>3, <1>4, <1>6, <1>11, <1>12, <1>13 DEF ProcInv, Live!Procs
    <2>5. SectionInv'
      BY <1>3, <1>4, <1>13, <2>2, <2>3 DEF SectionInv
    <2>6. WatchInv'
      BY <1>3, <1>4, <2>2 DEF WatchInv
    <2>. QED BY <1>5, <1>9, <2>2, <2>4, <2>5, <2>6
  <1>14. CASE life'[p] = "gone" /\ proc' = None /\ Live!Returns(lock, Live!To(c, "out"))
    <2>1. lock' = Tail(lock) /\ at' = [at EXCEPT ![c] = "out"] /\ "out" \notin Waits \cup Inside /\ "out" \in LiveStages(c)
      BY <1>14 DEF Live!Returns, Live!To, LiveStages, Waits, Inside
    <2>2. StagesInv' /\ Here' = "none"
      BY <1>2, <2>1, LiveLeaves
    <2>3. ProcInv'
      BY <1>3, <1>4, <1>6, <1>11, <1>12, <1>14 DEF ProcInv, Live!Procs
    <2>4. SectionInv'
      BY <1>3, <1>4, <1>14, <2>2 DEF SectionInv
    <2>5. WatchInv'
      BY <1>3, <1>4, <1>14 DEF WatchInv
    <2>. QED BY <1>5, <1>9, <2>2, <2>3, <2>4, <2>5
  <1>. QED BY <1>7, <1>8, <1>13, <1>14 DEF ProcTypes

\* The ports are bound, or the wait timed out.
LEMMA ListensKeeps ==
    ASSUME LiveCore, NEW c \in Clients, Live!Listens(c)
    PROVE  LiveCore' /\ Live!KeepsServing
  <1>. USE DEF LiveCore
  <1>1. c \in LiveTasks
    BY Kinds
  <1>2. Has(lock, at, LiveTasks, c) /\ Here = "listen"
    BY <1>1, HoldsIs DEF Live!Listens, Inside
  <1>3. /\ forward' = TRUE /\ pump' = proc /\ pumping' = pumping \cup {proc} /\ clients' = clients \cup {c}
        /\ UNCHANGED <<proc, life, ports, reaping, victim, ended>>
    BY DEF Live!Listens, Live!ffmpegVars
  <1>4. reaping = None /\ clients = {} /\ proc # None /\ proc \in Live!Procs
    BY <1>2 DEF SectionInv, ProcTypes
  <1>5. lock' = Tail(lock) /\ at' = [at EXCEPT ![c] = "on"] /\ "on" \notin Waits \cup Inside /\ "on" \in LiveStages(c)
    BY DEF Live!Listens, Live!Returns, Live!To, LiveStages, Waits, Inside
  <1>6. StagesInv' /\ Here' = "none"
    BY <1>2, <1>5, LiveLeaves
  <1>7. at'[c] = "on"
    BY <1>1, <1>5 DEF StagesInv
  <1>8. ProcTypes'
    BY <1>3, <1>4 DEF ProcTypes, Live!Procs
  <1>9. ProcInv'
    BY <1>2, <1>3, <1>4, <1>6 DEF ProcInv, Live!Procs
  <1>10. SectionInv'
    BY <1>3, <1>4, <1>6 DEF SectionInv
  <1>11. WatchInv'
    BY <1>3, <1>4, <1>7 DEF WatchInv
  <1>12. Live!KeepsServing
    BY <1>3 DEF Live!KeepsServing
  <1>. QED BY <1>6, <1>8, <1>9, <1>10, <1>11, <1>12

\* ffmpeg exited during a start.
LEMMA ExitedKeeps ==
    ASSUME LiveCore, NEW c \in Clients, Live!Exited(c)
    PROVE  LiveCore' /\ Live!KeepsServing
  <1>. USE DEF LiveCore
  <1>1. c \in LiveTasks
    BY Kinds
  <1>2. UNCHANGED <<proc, life, ports, reaping, victim, pump, pumping, clients, ended, forward>>
    BY DEF Live!Exited, Live!ffmpegVars, Live!pumpVars, Live!clientVars
  <1>3. /\ StagesInv' /\ Here \in {"listen", "autopsy"} /\ Here' \in {"autopsy", "none"}
        /\ Here = "listen" => Here' = "autopsy" /\ ~Live!Runs(proc)
    <2>1. CASE Live!Holds(c, "listen") /\ ~Live!Runs(proc) /\ Live!Suspends(lock, Live!To(c, "autopsy"))
      <3>1. lock' = lock /\ at' = [at EXCEPT ![c] = "autopsy"] /\ "autopsy" \in Inside /\ "autopsy" \in LiveStages(c)
        BY <2>1 DEF Live!Suspends, Live!To, LiveStages, Inside
      <3>2. Has(lock, at, LiveTasks, c) /\ Here = "listen"
        BY <1>1, <2>1, HoldsIs DEF Inside
      <3>3. StagesInv' /\ Here' = "autopsy"
        BY <3>1, <3>2, LiveStays
      <3>. QED BY <2>1, <3>2, <3>3
    <2>2. CASE Live!Holds(c, "autopsy") /\ Live!Returns(lock, Live!To(c, "out"))
      <3>1. lock' = Tail(lock) /\ at' = [at EXCEPT ![c] = "out"] /\ "out" \notin Waits \cup Inside /\ "out" \in LiveStages(c)
        BY <2>2 DEF Live!Returns, Live!To, LiveStages, Waits, Inside
      <3>2. Has(lock, at, LiveTasks, c) /\ Here = "autopsy"
        BY <1>1, <2>2, HoldsIs DEF Inside
      <3>3. StagesInv' /\ Here' = "none"
        BY <3>1, <3>2, LiveLeaves
      <3>. QED BY <3>2, <3>3
    <2>. QED BY <2>1, <2>2 DEF Live!Exited
  <1>4. proc = None \/ life[proc] = "gone"
    BY <1>3 DEF SectionInv, ProcInv, Live!Runs
  <1>5. ProcTypes' /\ ProcInv'
    BY <1>2, <1>3, ProcSame DEF ProcTypes
  <1>6. SectionInv'
    BY <1>2, <1>3, <1>4 DEF SectionInv
  <1>7. WatchInv'
    BY <1>2, <1>3, <1>4 DEF WatchInv, SectionInv
  <1>8. Live!KeepsServing
    BY <1>2 DEF Live!KeepsServing
  <1>. QED BY <1>3, <1>5, <1>6, <1>7, <1>8

-----------------------------------------------------------------------------
(* AvStream: cancellations, and what happens without the lock.              *)

\* A cancelled task leaves the queue of the lock, and the section when it is inside.
LEMMA CutLine ==
    ASSUME StagesInv, NEW t \in LiveTasks, at[t] \in Waits \cup Inside,
           NEW s \in LiveStages(t), s \notin Waits \cup Inside,
           lock' = Live!Without(lock, t), at' = [at EXCEPT ![t] = s]
    PROVE  /\ StagesInv' /\ at'[t] = s /\ \A u \in LiveTasks : u # t => at'[u] = at[u]
           /\ at[t] \in Waits => Here' = Here
           /\ at[t] \in Inside => Here = at[t] /\ Here' = "none"
  <1>1. t \in LiveTasks /\ at \in [LiveTasks -> Stages] /\ Line(lock, at, LiveTasks)
    BY DEF StagesInv
  <1>2. s \in Stages /\ s \notin Waits \cup Inside
    BY Kinds
  <1>3. at' \in [LiveTasks -> Stages] /\ at'[t] = s /\ \A u \in LiveTasks : u # t => at'[u] = at[u]
    BY <1>1, <1>2
  <1>4. \A u \in LiveTasks : at'[u] \in LiveStages(u)
    BY <1>2, <1>3 DEF StagesInv
  <1>5. Line(lock', at', LiveTasks)
    <2>0. PICK a : a = at'
      OBVIOUS
    <2>1. a[t] \notin Waits \cup Inside
      BY <2>0, <1>2, <1>3
    <2>2. \A u \in LiveTasks : u # t => a[u] = at[u]
      BY <2>0, <1>3
    <2>3. Line(Drop(lock, t), a, LiveTasks)
      BY <1>1, <2>1, <2>2, LineDrop
    <2>. QED BY <2>0, <2>3, LiveDrop
  <1>6. StagesInv'
    BY <1>3, <1>4, <1>5 DEF StagesInv, LiveTasks, Live!Tasks
  <1>7. ASSUME at[t] \in Waits PROVE Here' = Here
    <2>1. at[t] \notin Inside /\ at'[t] \notin Inside
      BY <1>2, <1>3, <1>7 DEF Waits, Inside
    <2>2. { u \in LiveTasks : at'[u] \in Inside } = { u \in LiveTasks : at[u] \in Inside }
      BY <1>3, <2>1
    <2>3. Within(at', LiveTasks) = Within(at, LiveTasks)
      BY <1>3, <2>1, <2>2 DEF Within
    <2>4. \A a : Within(a, LiveTasks) = Within(at, LiveTasks) => Place(a, LiveTasks) = Place(at, LiveTasks)
      BY PlaceIs
    <2>5. Place(at', LiveTasks) = Place(at, LiveTasks)
      BY <2>3, <2>4
    <2>. QED BY <2>5 DEF Here, LiveTasks, Live!Tasks
  <1>8. ASSUME at[t] \in Inside PROVE Here = at[t] /\ Here' = "none"
    <2>1. PICK i \in 1 .. Len(lock) : lock[i] = t
      BY <1>1, <1>8 DEF Line
    <2>2. i = 1
      BY <1>1, <1>8, <2>1 DEF Line
    <2>3. lock # <<>> /\ Head(lock) = t
      BY <1>1, <2>1, <2>2 DEF Line
    <2>4. Has(lock, at, LiveTasks, t)
      BY <1>1, <2>3, HasIt
    <2>5. Here = at[t]
      BY <1>8, <2>4, HereIs
    <2>6. \A u \in LiveTasks : u # t => at[u] \notin Inside
      BY <2>4, HasAlone
    <2>7. { u \in LiveTasks : at'[u] \in Inside } = {}
      BY <1>2, <1>3, <2>6
    <2>8. Within(at', LiveTasks) = {}
      BY <2>7 DEF Within
    <2>9. Place(at', LiveTasks) = "none"
      BY <2>8 DEF Place
    <2>. QED BY <2>5, <2>9 DEF Here, LiveTasks, Live!Tasks
  <1>. QED BY <1>3, <1>6, <1>7, <1>8

\* A handler is cancelled: the process it started goes to _reap_task.
LEMMA CutKeeps ==
    ASSUME LiveCore, NEW t \in LiveTasks, Live!Cut(t)
    PROVE  LiveCore' /\ Live!KeepsServing
  <1>. USE DEF LiveCore
  <1>. PICK s : s = IF t \in Stops THEN "done" ELSE "out"
    OBVIOUS
  <1>1. at[t] \in {"sub", "reap", "replace", "sdp", "spawn", "listen", "autopsy", "stop"} /\ t # Grace
    BY CuttableAssumption DEF Live!Cut
  <1>2. s \in LiveStages(t) /\ s \notin Waits \cup Inside
    BY <1>1, Kinds DEF LiveStages, Waits, Inside
  <1>3. lock' = Live!Without(lock, t) /\ at' = [at EXCEPT ![t] = s]
    BY DEF Live!Cut, Live!To
  <1>4. at[t] \in Waits \cup Inside
    BY <1>1 DEF Waits, Inside
  <1>5. /\ StagesInv' /\ at'[t] = s /\ \A u \in LiveTasks : u # t => at'[u] = at[u]
        /\ at[t] \in Waits => Here' = Here
        /\ at[t] \in Inside => Here = at[t] /\ Here' = "none"
    BY <1>2, <1>3, <1>4, CutLine
  <1>6. UNCHANGED <<ports, victim, pump, pumping, clients, ended, forward>>
    BY DEF Live!Cut, Live!pumpVars, Live!clientVars
  <1>7. CASE at[t] \in {"sub", "stop"}
    <2>1. UNCHANGED <<proc, life, reaping>> /\ Here' = Here
      BY <1>5, <1>7 DEF Live!Cut, Waits
    <2>2. ProcTypes' /\ ProcInv'
      BY <1>6, <2>1, ProcSame DEF ProcTypes
    <2>3. SectionInv'
      BY <1>6, <2>1 DEF SectionInv
    <2>4. \A u \in LiveTasks : at[u] \in {"on", "unsub"} => at'[u] = at[u]
      BY <1>5, <1>7
    <2>5. WatchInv'
      <3>1. \A c \in clients' : c \in Clients /\ at'[c] \in {"on", "unsub"}
        BY <1>6, <2>4, Kinds DEF WatchInv, ProcTypes
      <3>2. at'[Grace] = at[Grace]
        BY <1>1, <1>5, Kinds
      <3>3. \A c \in Clients : at[c] \in {"on", "unsub"} => at'[c] \in {"on", "unsub"}
        BY <2>4, Kinds
      <3>. QED BY <1>6, <2>1, <3>1, <3>2, <3>3 DEF WatchInv
    <2>6. Live!KeepsServing
      BY <1>6, <2>1 DEF Live!KeepsServing
    <2>. QED BY <1>5, <2>2, <2>3, <2>5, <2>6
  <1>8. CASE at[t] \in {"reap", "replace", "sdp", "autopsy"}
    <2>1. UNCHANGED <<proc, life, reaping>> /\ Here \in {"reap", "replace", "sdp", "autopsy"} /\ Here' = "none"
      BY <1>5, <1>8 DEF Live!Cut, Inside
    <2>2. clients = {} /\ (proc = None \/ life[proc] = "gone")
      BY <2>1 DEF SectionInv
    <2>3. ProcTypes' /\ ProcInv'
      BY <1>6, <2>1, ProcSame DEF ProcTypes
    <2>4. SectionInv'
      BY <1>6, <2>1, <2>2 DEF SectionInv
    <2>5. WatchInv'
      BY <1>6, <2>1, <2>2 DEF WatchInv
    <2>6. Live!KeepsServing
      BY <1>6, <2>1 DEF Live!KeepsServing
    <2>. QED BY <1>5, <2>3, <2>4, <2>5, <2>6
  <1>9. CASE at[t] \in {"spawn", "listen"}
    <2>1. Here = at[t] /\ Here' = "none" /\ clients = {} /\ reaping = None /\ ~forward
      BY <1>5, <1>9 DEF Inside, SectionInv
    <2>2. PICK p \in Live!Procs :
              /\ life[p] = "spawning" \/ p = proc
              /\ reaping' = p /\ proc' = None
              /\ life' = [life EXCEPT ![p] = IF Live!Runs(p) THEN "dying" ELSE @]
      BY <1>9 DEF Live!Cut
    <2>3. p # None
      BY Kinds
    <2>4. /\ life' \in [Live!Procs -> {"unborn", "spawning", "started", "listening", "dying", "gone"}]
          /\ \A o \in Live!Procs : o # p => life'[o] = life[o]
          /\ life'[p] = IF life[p] \in {"started", "listening", "dying"} THEN "dying" ELSE life[p]
      BY <2>2, <2>3 DEF ProcTypes, Live!Runs
    <2>5. life[p] \in {"spawning", "started", "listening", "gone"}
      BY <2>2, <2>3 DEF ProcInv
    <2>6. \A o \in Live!Procs : o # p => life[o] \notin {"spawning", "started", "listening", "dying"}
      <3>1. CASE Here = "spawn"
        <4>1. proc = None /\ life[p] = "spawning"
          BY <2>2, <2>3, <3>1 DEF SectionInv
        <4>. QED BY <2>1, <3>1, <4>1, Kinds DEF ProcInv
      <3>2. CASE Here = "listen"
        <4>1. \A o \in Live!Procs : life[o] # "spawning"
          BY <2>1, <3>2, Kinds DEF ProcInv
        <4>2. p = proc
          BY <2>2, <4>1
        <4>. QED BY <2>1, <3>2, <4>1, <4>2, Kinds DEF ProcInv
      <3>. QED BY <1>9, <2>1, <3>1, <3>2
    <2>7. ProcTypes'
      BY <1>6, <2>2, <2>4 DEF ProcTypes, Live!Procs
    <2>8. ports' # None => life'[ports'] \in {"listening", "dying"}
      BY <1>6, <2>4 DEF ProcInv, ProcTypes
    <2>9. pump' # None => life'[pump'] \notin {"unborn", "spawning"}
      BY <1>6, <2>4 DEF ProcInv, ProcTypes
    <2>10. life'[p] \in {"spawning", "dying", "gone"}
      BY <2>4, <2>5
    <2>11. \A o \in Live!Procs : o # p => life'[o] \notin {"spawning", "started", "listening", "dying"}
      BY <2>4, <2>6
    <2>12. ProcInv'
      BY <2>2, <2>3, <2>8, <2>9, <2>10, <2>11 DEF ProcInv, Live!Procs
    <2>13. SectionInv'
      BY <1>6, <2>1, <2>2 DEF SectionInv
    <2>14. WatchInv'
      BY <1>6, <2>1, <2>2 DEF WatchInv
    <2>15. Live!KeepsServing
      BY <1>6, <2>1 DEF Live!KeepsServing
    <2>. QED BY <1>5, <2>7, <2>12, <2>13, <2>14, <2>15
  <1>. QED BY <1>1, <1>7, <1>8, <1>9

\* _reap().
LEMMA ReapKeeps ==
    ASSUME LiveCore, Live!Reap
    PROVE  LiveCore' /\ Live!KeepsServing
  <1>. USE DEF LiveCore
  <1>1. UNCHANGED <<lock, at, proc, ports, victim, pump, pumping, clients, ended, forward>> /\ reaping # None
    BY DEF Live!Reap, Live!pumpVars, Live!clientVars
  <1>2. StagesInv' /\ Here' = Here
    BY <1>1 DEF StagesInv, Here, LiveTasks, Live!Tasks
  <1>3. reaping \in Live!Procs
    BY <1>1 DEF ProcTypes
  <1>4. \/ life[reaping] = "gone" /\ reaping' = None /\ life' = life
        \/ /\ life[reaping] = "spawning" /\ reaping' = reaping /\ life'[reaping] \in {"dying", "gone"}
           /\ life' \in [Live!Procs -> {"unborn", "spawning", "started", "listening", "dying", "gone"}]
           /\ \A o \in Live!Procs : o # reaping => life'[o] = life[o]
    BY <1>3 DEF Live!Reap, ProcTypes
  <1>5. ProcTypes'
    BY <1>1, <1>4 DEF ProcTypes, Live!Procs
  <1>6. reaping # proc /\ proc' = proc /\ (proc # None => life'[proc] = life[proc])
    BY <1>1, <1>4 DEF ProcInv, ProcTypes
  <1>7. ProcInv'
    <2>1. /\ ports' # None => life'[ports'] \in {"listening", "dying"}
          /\ proc' # None => life'[proc'] \in {"started", "listening", "gone"}
          /\ reaping' # None => life'[reaping'] \in {"spawning", "dying", "gone"} /\ reaping' # proc'
          /\ pump' # None => life'[pump'] \notin {"unborn", "spawning"}
      BY <1>1, <1>4, <1>6 DEF ProcInv, ProcTypes
    <2>2. ASSUME NEW p \in Live!Procs
          PROVE  /\ life'[p] = "started" => ports' = None
                 /\ life'[p] \in {"started", "listening"} => p = proc'
                 /\ life'[p] = "dying" => p = reaping' \/ (Here' = "kill" /\ p = victim')
                 /\ life'[p] = "spawning" => p = reaping' \/ Here' = "spawn"
      BY <1>1, <1>2, <1>4 DEF ProcInv
    <2>3. ASSUME NEW p \in Live!Procs, NEW o \in Live!Procs, life'[p] = "spawning", life'[o] = "spawning"
          PROVE  p = o \/ reaping' \in {p, o}
      BY <1>3, <1>4, <2>3 DEF ProcInv
    <2>. QED BY <2>1, <2>2, <2>3 DEF ProcInv, Live!Procs
  <1>8. SectionInv'
    <2>1. Here \in {"replace", "sdp", "spawn", "listen", "autopsy"} => reaping' = None
      BY <1>1 DEF SectionInv
    <2>. QED BY <1>1, <1>2, <1>6, <2>1 DEF SectionInv
  <1>9. WatchInv'
    BY <1>1, <1>2, <1>6 DEF WatchInv
  <1>10. Live!KeepsServing
    BY <1>1 DEF Live!KeepsServing
  <1>. QED BY <1>2, <1>5, <1>7, <1>8, <1>9, <1>10

\* ffmpeg opens its input.
LEMMA BindsKeeps ==
    ASSUME LiveCore, NEW p \in Live!Procs, Live!Binds(p)
    PROVE  LiveCore' /\ Live!KeepsServing
  <1>. USE DEF LiveCore
  <1>1. UNCHANGED <<lock, at, proc, reaping, victim, pump, pumping, clients, ended, forward>>
    BY DEF Live!Binds, Live!pumpVars, Live!clientVars
  <1>2. StagesInv' /\ Here' = Here
    BY <1>1 DEF StagesInv, Here, LiveTasks, Live!Tasks
  <1>3. life[p] = "started" /\ p = proc /\ ports = None /\ proc # None /\ p # reaping
    BY Kinds DEF Live!Binds, ProcInv
  <1>4. /\ ports' = p /\ life'[p] = "listening" /\ \A o \in Live!Procs : o # p => life'[o] = life[o]
        /\ life' \in [Live!Procs -> {"unborn", "spawning", "started", "listening", "dying", "gone"}]
    BY <1>3 DEF Live!Binds, ProcTypes
  <1>5. ProcTypes'
    BY <1>1, <1>4 DEF ProcTypes, Live!Procs
  <1>6. ProcInv'
    <2>1. /\ ports' # None => life'[ports'] \in {"listening", "dying"}
          /\ proc' # None => life'[proc'] \in {"started", "listening", "gone"}
          /\ reaping' # None => life'[reaping'] \in {"spawning", "dying", "gone"} /\ reaping' # proc'
          /\ pump' # None => life'[pump'] \notin {"unborn", "spawning"}
      BY <1>1, <1>3, <1>4 DEF ProcInv, ProcTypes
    <2>2. ASSUME NEW o \in Live!Procs
          PROVE  /\ life'[o] = "started" => ports' = None
                 /\ life'[o] \in {"started", "listening"} => o = proc'
                 /\ life'[o] = "dying" => o = reaping' \/ (Here' = "kill" /\ o = victim')
                 /\ life'[o] = "spawning" => o = reaping' \/ Here' = "spawn"
      BY <1>1, <1>2, <1>3, <1>4 DEF ProcInv
    <2>3. ASSUME NEW q \in Live!Procs, NEW o \in Live!Procs, life'[q] = "spawning", life'[o] = "spawning"
          PROVE  q = o \/ reaping' \in {q, o}
      BY <1>1, <1>4, <2>3 DEF ProcInv
    <2>. QED BY <2>1, <2>2, <2>3 DEF ProcInv, Live!Procs
  <1>7. life[proc] # "gone" /\ life'[proc'] # "gone"
    BY <1>1, <1>3, <1>4
  <1>8. SectionInv'
    BY <1>1, <1>2, <1>7 DEF SectionInv
  <1>9. WatchInv'
    BY <1>1, <1>2, <1>3, <1>7 DEF WatchInv
  <1>10. Live!KeepsServing
    BY <1>1 DEF Live!KeepsServing
  <1>. QED BY <1>2, <1>5, <1>6, <1>8, <1>9, <1>10

\* ffmpeg exits.
LEMMA ExitsKeeps ==
    ASSUME LiveCore, NEW p \in Live!Procs, Live!Exits(p)
    PROVE  LiveCore' /\ Live!KeepsServing
  <1>. USE DEF LiveCore
  <1>1. UNCHANGED <<lock, at, proc, reaping, victim, pump, pumping, clients, ended, forward>>
    BY DEF Live!Exits, Live!pumpVars, Live!clientVars
  <1>2. StagesInv' /\ Here' = Here
    BY <1>1 DEF StagesInv, Here, LiveTasks, Live!Tasks
  <1>3. p # None
    BY Kinds
  <1>4. /\ life'[p] = "gone" /\ (\A o \in Live!Procs : o # p => life'[o] = life[o])
        /\ life' \in [Live!Procs -> {"unborn", "spawning", "started", "listening", "dying", "gone"}]
        /\ ports' = IF ports = p THEN None ELSE ports
    BY DEF Live!Exits, ProcTypes
  <1>5. \A o \in Live!Procs : life'[o] = life[o] \/ life'[o] = "gone"
    BY <1>4
  <1>6. ProcTypes'
    BY <1>1, <1>4 DEF ProcTypes, Live!Procs
  <1>7. ProcInv'
    <2>1. /\ ports' # None => life'[ports'] \in {"listening", "dying"}
          /\ proc' # None => life'[proc'] \in {"started", "listening", "gone"}
          /\ reaping' # None => life'[reaping'] \in {"spawning", "dying", "gone"} /\ reaping' # proc'
          /\ pump' # None => life'[pump'] \notin {"unborn", "spawning"}
      BY <1>1, <1>3, <1>4 DEF ProcInv, ProcTypes
    <2>2. ASSUME NEW o \in Live!Procs
          PROVE  /\ life'[o] = "started" => ports' = None
                 /\ life'[o] \in {"started", "listening"} => o = proc'
                 /\ life'[o] = "dying" => o = reaping' \/ (Here' = "kill" /\ o = victim')
                 /\ life'[o] = "spawning" => o = reaping' \/ Here' = "spawn"
      BY <1>1, <1>2, <1>4 DEF ProcInv
    <2>3. ASSUME NEW q \in Live!Procs, NEW o \in Live!Procs, life'[q] = "spawning", life'[o] = "spawning"
          PROVE  q = o \/ reaping' \in {q, o}
      BY <1>1, <1>5, <2>3 DEF ProcInv
    <2>. QED BY <2>1, <2>2, <2>3 DEF ProcInv, Live!Procs
  <1>8. proc # None => life'[proc] = life[proc] \/ life'[proc] = "gone"
    BY <1>5 DEF ProcTypes
  <1>9. SectionInv'
    BY <1>1, <1>2, <1>8 DEF SectionInv
  <1>10. WatchInv'
    BY <1>1, <1>2, <1>8 DEF WatchInv
  <1>11. Live!KeepsServing
    BY <1>1 DEF Live!KeepsServing
  <1>. QED BY <1>2, <1>6, <1>7, <1>9, <1>10, <1>11

\* A pump ends: the current one with its clients, whose process is finished.
LEMMA PumpEndsKeeps ==
    ASSUME LiveCore, NEW p \in Live!Procs, Live!PumpEnds(p)
    PROVE  LiveCore' /\ Live!KeepsServing
  <1>. USE DEF LiveCore
  <1>1. /\ UNCHANGED <<lock, at, proc, life, ports, reaping, victim, pump, forward>>
        /\ p \in pumping /\ ~(life[p] \in {"started", "listening"}) /\ pumping' = pumping \ {p}
        /\ clients' = clients \ (IF pump = p THEN clients ELSE {})
        /\ ended' = ended \cup (IF pump = p THEN clients ELSE {})
    BY DEF Live!PumpEnds, Live!MayEnd, Live!EndClients, Live!ffmpegVars
  <1>2. StagesInv' /\ Here' = Here
    BY <1>1 DEF StagesInv, Here, LiveTasks, Live!Tasks
  <1>3. clients' \subseteq clients /\ (pump = p => clients' = {}) /\ clients' \cup ended' \subseteq Clients
    BY <1>1 DEF ProcTypes
  <1>4. ProcTypes'
    BY <1>1, <1>3 DEF ProcTypes, Live!Procs
  <1>5. ProcInv'
    <2>1. ASSUME NEW o \in Live!Procs
          PROVE  /\ life'[o] = "started" => ports' = None
                 /\ life'[o] \in {"started", "listening"} => o = proc'
                 /\ life'[o] = "dying" => o = reaping' \/ (Here' = "kill" /\ o = victim')
                 /\ life'[o] = "spawning" => o = reaping' \/ Here' = "spawn"
      BY <1>1, <1>2 DEF ProcInv
    <2>. QED BY <1>1, <2>1 DEF ProcInv, Live!Procs
  <1>6. proc # None /\ life[proc] # "gone" => p # proc
    BY <1>1 DEF ProcInv
  <1>7. SectionInv'
    <2>1. clients' # {} => pump' \in pumping' /\ (proc' # None \/ Here' = "kill")
      BY <1>1, <1>2, <1>3 DEF SectionInv
    <2>2. proc' # None /\ life'[proc'] # "gone" => Here' = "listen" \/ (pump' = proc' /\ pump' \in pumping')
      BY <1>1, <1>2, <1>6 DEF SectionInv
    <2>3. clients = {} => clients' = {}
      BY <1>3
    <2>. QED BY <1>1, <1>2, <2>1, <2>2, <2>3 DEF SectionInv
  <1>8. WatchInv'
    BY <1>1, <1>2, <1>3 DEF WatchInv
  <1>9. Live!KeepsServing
    <2>1. pump = p => life[pump] \in {"dying", "gone"}
      BY <1>1, Kinds DEF ProcInv, ProcTypes
    <2>. QED BY <1>1, <1>3, <2>1 DEF Live!KeepsServing
  <1>. QED BY <1>2, <1>4, <1>5, <1>7, <1>8, <1>9

\* A client is too slow; or a call starts, and nothing changes.
LEMMA ClientsLess ==
    ASSUME LiveCore, UNCHANGED <<lock, at, proc, life, ports, reaping, victim, pump, pumping, forward>>,
           clients' \subseteq clients, clients \ clients' \subseteq Slow, ended' \subseteq Clients
    PROVE  LiveCore' /\ Live!KeepsServing
  <1>. USE DEF LiveCore
  <1>1. StagesInv' /\ Here' = Here
    BY DEF StagesInv, Here, LiveTasks, Live!Tasks
  <1>2. ProcTypes' /\ ProcInv'
    BY <1>1, ProcSame DEF ProcTypes
  <1>3. SectionInv'
    BY <1>1 DEF SectionInv
  <1>4. WatchInv'
    BY <1>1 DEF WatchInv
  <1>5. Live!KeepsServing
    BY DEF Live!KeepsServing
  <1>. QED BY <1>1, <1>2, <1>3, <1>4, <1>5

-----------------------------------------------------------------------------
(* AvStream: every step.                                                    *)

\* A free lock is had without suspending.
LEMMA Free ==
    ASSUME StagesInv, NEW t \in LiveTasks, lock = <<>>
    PROVE  Has(<<t>>, at, LiveTasks, t)
  BY HasIt DEF StagesInv

LEMMA LiveInit == Live!Init => LiveInv
  <1>. SUFFICES ASSUME Live!Init PROVE LiveInv
    OBVIOUS
  <1>1. /\ lock = <<>> /\ at = [t \in LiveTasks |-> "out"]
        /\ life = [p \in Live!Procs |-> "unborn"] /\ ports = None /\ reaping = None /\ victim = None
        /\ proc = None /\ pump = None /\ pumping = {} /\ clients = {} /\ ended = {} /\ cut = {}
        /\ forward = FALSE /\ live = FALSE /\ calls = 0
    BY DEF Live!Init, LiveTasks
  <1>2. \A t \in LiveTasks : at[t] = "out"
    BY <1>1
  <1>3. "out" \in Stages /\ "out" \notin Waits \cup Inside /\ \A t \in LiveTasks : "out" \in LiveStages(t)
    BY DEF Stages, Waits, Inside, LiveStages
  <1>4. Line(lock, at, LiveTasks)
    BY <1>1, <1>2, <1>3 DEF Line
  <1>5. StagesInv
    BY <1>1, <1>3, <1>4 DEF StagesInv
  <1>6. Here = "none"
    <2>1. { t \in LiveTasks : at[t] \in Inside } = {}
      BY <1>2, <1>3
    <2>2. Within(at, LiveTasks) = {}
      BY <2>1 DEF Within
    <2>. QED BY <2>2, PlaceIs DEF Here
  <1>7. ProcTypes
    BY <1>1 DEF ProcTypes
  <1>8. \A p \in Live!Procs : life[p] = "unborn"
    BY <1>1
  <1>9. ProcInv
    BY <1>1, <1>8 DEF ProcInv
  <1>10. SectionInv
    BY <1>1, <1>6 DEF SectionInv
  <1>11. WatchInv
    BY <1>1 DEF WatchInv
  <1>12. CallTypes
    <2>1. MaxCalls \in Nat
      BY BoundsAssumption
    <2>2. 0 \in 0 .. MaxCalls
      BY <2>1
    <2>. QED BY <1>1, <2>2 DEF CallTypes
  <1>. QED BY <1>5, <1>7, <1>9, <1>10, <1>11, <1>12 DEF LiveInv, LiveCore

\* A task that takes the lock, or waits for it.
LEMMA SubscribesKeeps ==
    ASSUME LiveCore, NEW c \in Clients, Live!Subscribe(c)
    PROVE  LiveCore' /\ Live!KeepsServing
  <1>1. c \in LiveTasks /\ at[c] = "out" /\ "sub" \in LiveStages(c) /\ "sub" \in Waits /\ StagesInv
    BY Kinds DEF Live!Subscribe, LiveStages, Waits, LiveCore
  <1>2. CASE lock = <<>> /\ Live!SubscribeRuns(c, <<c>>)
    <2>1. Has(<<c>>, at, LiveTasks, c)
      BY <1>1, <1>2, Free
    <2>. QED BY <1>1, <1>2, <2>1, SubscribeKeeps
  <1>3. CASE Live!Queues(c, "sub")
    <2>1. at[c] \in {"out", "on", "sleep"} /\ (at[c] = "on" => "sub" = "unsub") /\ (at[c] = "sleep" => "sub" = "stop")
      BY <1>1
    <2>. QED BY <1>1, <1>3, <2>1, QueuesKeeps
  <1>. QED BY <1>2, <1>3 DEF Live!Subscribe
LEMMA LeavesKeeps ==
    ASSUME LiveCore, NEW c \in Clients, Live!Leave(c)
    PROVE  LiveCore' /\ Live!KeepsServing
  <1>1. c \in LiveTasks /\ at[c] = "on" /\ "unsub" \in LiveStages(c) /\ "unsub" \in Waits /\ StagesInv
    BY Kinds DEF Live!Leave, LiveStages, Waits, LiveCore
  <1>2. CASE lock = <<>> /\ Live!UnsubscribeRuns(c, <<c>>)
    <2>1. Has(<<c>>, at, LiveTasks, c)
      BY <1>1, <1>2, Free
    <2>. QED BY <1>1, <1>2, <2>1, UnsubscribeKeeps
  <1>3. CASE Live!Queues(c, "unsub")
    <2>1. at[c] \in {"out", "on", "sleep"} /\ (at[c] = "on" => "unsub" = "unsub") /\ (at[c] = "sleep" => "unsub" = "stop")
      BY <1>1
    <2>. QED BY <1>1, <1>3, <2>1, QueuesKeeps
  <1>. QED BY <1>2, <1>3 DEF Live!Leave
LEMMA StopsKeep ==
    ASSUME LiveCore, NEW t \in Stops \cup {Grace}, (Live!StopMedia(t) /\ t \in Stops) \/ (Live!GraceOver /\ t = Grace)
    PROVE  LiveCore' /\ Live!KeepsServing
  <1>1. t \in LiveTasks /\ at[t] \in {"out", "sleep"} /\ "stop" \in LiveStages(t) /\ "stop" \in Waits /\ StagesInv
    BY Kinds DEF Live!StopMedia, Live!GraceOver, LiveStages, Waits, LiveCore
  <1>2. (lock = <<>> /\ Live!StopRuns(t, <<t>>)) \/ Live!Queues(t, "stop")
    BY DEF Live!StopMedia, Live!GraceOver
  <1>3. CASE lock = <<>> /\ Live!StopRuns(t, <<t>>)
    <2>1. Has(<<t>>, at, LiveTasks, t)
      BY <1>1, <1>3, Free
    <2>2. at[t] \in {"out", "sleep", "stop"}
      BY <1>1
    <2>. QED BY <1>3, <2>1, <2>2, StopRunsKeeps
  <1>4. CASE Live!Queues(t, "stop")
    <2>1. at[t] \in {"out", "on", "sleep"} /\ (at[t] = "on" => "stop" = "unsub") /\ (at[t] = "sleep" => "stop" = "stop")
      BY <1>1
    <2>. QED BY <1>1, <1>4, <2>1, QueuesKeeps
  <1>. QED BY <1>2, <1>3, <1>4
\* The lock is handed over.
LEMMA WokenKeeps ==
    ASSUME LiveCore, NEW t \in LiveTasks, Live!Woken(t)
    PROVE  LiveCore' /\ Live!KeepsServing
  <1>0. StagesInv
    BY DEF LiveCore
  <1>1. CASE Live!Holds(t, "sub") /\ Live!SubscribeRuns(t, lock)
    <2>1. Has(lock, at, LiveTasks, t) /\ at[t] = "sub"
      BY <1>0, <1>1, HoldsIs
    <2>2. t \in Clients
      BY <1>0, <2>1, Kinds DEF StagesInv, LiveStages
    <2>3. at[t] \in {"out", "sub"}
      BY <2>1
    <2>. QED BY <1>1, <2>1, <2>2, <2>3, SubscribeKeeps
  <1>2. CASE Live!Holds(t, "unsub") /\ Live!UnsubscribeRuns(t, lock)
    <2>1. Has(lock, at, LiveTasks, t) /\ at[t] = "unsub"
      BY <1>0, <1>2, HoldsIs
    <2>2. t \in Clients
      BY <1>0, <2>1, Kinds DEF StagesInv, LiveStages
    <2>3. at[t] \in {"on", "unsub"}
      BY <2>1
    <2>. QED BY <1>2, <2>1, <2>2, <2>3, UnsubscribeKeeps
  <1>3. CASE Live!Holds(t, "stop") /\ Live!StopRuns(t, lock)
    <2>1. Has(lock, at, LiveTasks, t) /\ at[t] = "stop"
      BY <1>0, <1>3, HoldsIs
    <2>2. t \in Stops \cup {Grace}
      BY <1>0, <2>1, Kinds DEF StagesInv, LiveStages
    <2>3. at[t] \in {"out", "sleep", "stop"}
      BY <2>1
    <2>. QED BY <1>3, <2>1, <2>2, <2>3, StopRunsKeeps
  <1>. QED BY <1>1, <1>2, <1>3 DEF Live!Woken

\* Every step keeps the invariant, and serves the clients.
LEMMA LiveStep ==
    ASSUME LiveInv, Live!Next
    PROVE  LiveInv' /\ Live!KeepsServing
  <1>0. LiveCore /\ CallTypes
    BY DEF LiveInv
  <1>1. CASE Live!CallStarts
    <2>1. /\ UNCHANGED <<lock, at, cut, proc, life, ports, reaping, victim, pump, pumping, clients, ended, forward>>
          /\ live' = TRUE /\ calls < MaxCalls /\ calls' = calls + 1
      BY <1>1 DEF Live!CallStarts, Live!ffmpegVars, Live!pumpVars, Live!clientVars
    <2>2. clients' \subseteq clients /\ clients \ clients' \subseteq Slow /\ ended' \subseteq Clients
      BY <1>0, <2>1 DEF LiveCore, ProcTypes
    <2>3. LiveCore' /\ Live!KeepsServing
      BY <1>0, <2>1, <2>2, ClientsLess
    <2>4. CallTypes'
      BY <1>0, <2>1, BoundsAssumption DEF CallTypes, LiveTasks, Live!Tasks
    <2>. QED BY <2>3, <2>4 DEF LiveInv
  <1>2. CASE Live!GraceOver
    <2>1. Grace \in Stops \cup {Grace}
      OBVIOUS
    <2>2. LiveCore' /\ Live!KeepsServing
      BY <1>0, <1>2, <2>1, StopsKeep
    <2>3. CallTypes'
      BY <1>0, <1>2 DEF Live!GraceOver, Live!callVars, CallTypes, LiveTasks, Live!Tasks
    <2>. QED BY <2>2, <2>3 DEF LiveInv
  <1>3. CASE Live!Reap
    <2>1. CallTypes'
      BY <1>0, <1>3 DEF Live!Reap, Live!callVars, CallTypes, LiveTasks, Live!Tasks
    <2>. QED BY <1>0, <1>3, <2>1, ReapKeeps DEF LiveInv
  <1>4. ASSUME NEW c \in Clients,
               \/ Live!Subscribe(c) \/ Live!Leave(c) \/ Live!Reaped(c) \/ Live!SdpWritten(c) \/ Live!Spawned(c)
               \/ Live!Listens(c) \/ Live!Exited(c) \/ Live!TooSlow(c)
        PROVE  LiveInv' /\ Live!KeepsServing
    <2>1. UNCHANGED <<live, calls, cut>>
      BY <1>4 DEF Live!Subscribe, Live!Leave, Live!Reaped, Live!SdpWritten, Live!Spawned, Live!Listens, Live!Exited,
                  Live!TooSlow, Live!callVars
    <2>2. CallTypes'
      BY <1>0, <2>1 DEF CallTypes, LiveTasks, Live!Tasks
    <2>3. ASSUME Live!TooSlow(c) PROVE LiveCore' /\ Live!KeepsServing
      <3>1. /\ UNCHANGED <<lock, at, proc, life, ports, reaping, victim, pump, pumping, forward>>
            /\ c \in Clients \cap Slow /\ clients' = clients \ {c} /\ ended' = ended \cup {c}
        BY <2>3 DEF Live!TooSlow, Live!EndClients, Live!ffmpegVars, Live!pumpVars
      <3>2. clients' \subseteq clients /\ clients \ clients' \subseteq Slow /\ ended' \subseteq Clients
        BY <1>0, <3>1 DEF LiveCore, ProcTypes
      <3>. QED BY <1>0, <3>1, <3>2, ClientsLess
    <2>4. LiveCore' /\ Live!KeepsServing
      BY <1>0, <1>4, <2>3, SubscribesKeeps, LeavesKeeps, ReapedKeeps, SdpWrittenKeeps, SpawnedKeeps, ListensKeeps,
         ExitedKeeps
    <2>. QED BY <2>2, <2>4 DEF LiveInv
  <1>5. ASSUME NEW s \in Stops, Live!StopMedia(s) PROVE LiveInv' /\ Live!KeepsServing
    <2>0. LiveCore
      BY <1>0
    <2>1. s \in Stops \cup {Grace}
      OBVIOUS
    <2>2. (Live!StopMedia(s) /\ s \in Stops) \/ (Live!GraceOver /\ s = Grace)
      BY <1>5
    <2>3. LiveCore' /\ Live!KeepsServing
      BY <2>0, <2>1, <2>2, StopsKeep
    <2>4. CallTypes'
      BY <1>0, <1>5 DEF Live!StopMedia, CallTypes, LiveTasks, Live!Tasks
    <2>. QED BY <2>3, <2>4 DEF LiveInv
  <1>6. ASSUME NEW t \in LiveTasks, Live!Woken(t) \/ Live!Stopped(t) \/ Live!Cut(t)
        PROVE  LiveInv' /\ Live!KeepsServing
    <2>1. live' = live /\ calls' = calls /\ cut' \in {cut, cut \cup {t}}
      BY <1>6 DEF Live!Woken, Live!Stopped, Live!Cut, Live!callVars
    <2>2. CallTypes'
      BY <1>0, <2>1 DEF CallTypes, LiveTasks, Live!Tasks
    <2>. QED BY <1>0, <1>6, <2>2, WokenKeeps, StoppedKeeps, CutKeeps DEF LiveInv
  <1>7. ASSUME NEW p \in Live!Procs, Live!Binds(p) \/ Live!Exits(p) \/ Live!PumpEnds(p)
        PROVE  LiveInv' /\ Live!KeepsServing
    <2>1. UNCHANGED <<live, calls, cut>>
      BY <1>7 DEF Live!Binds, Live!Exits, Live!PumpEnds, Live!callVars
    <2>2. CallTypes'
      BY <1>0, <2>1 DEF CallTypes, LiveTasks, Live!Tasks
    <2>. QED BY <1>0, <1>7, <2>2, BindsKeeps, ExitsKeeps, PumpEndsKeeps DEF LiveInv
  <1>. QED BY <1>1, <1>2, <1>3, <1>4, <1>5, <1>6, <1>7 DEF Live!Next, LiveTasks

\* Nothing happens.
LEMMA LiveStill ==
    ASSUME LiveInv, UNCHANGED onCall
    PROVE  LiveInv' /\ Live!KeepsServing
  <1>1. /\ UNCHANGED <<lock, at, proc, life, ports, reaping, victim, pump, pumping, clients, ended, forward>>
        /\ UNCHANGED <<live, calls, cut>> /\ LiveCore /\ CallTypes
    BY DEF onCall, LiveInv
  <1>2. clients' \subseteq clients /\ clients \ clients' \subseteq Slow /\ ended' \subseteq Clients
    BY <1>1 DEF LiveCore, ProcTypes
  <1>3. LiveCore' /\ Live!KeepsServing
    BY <1>1, <1>2, ClientsLess
  <1>4. CallTypes'
    BY <1>1 DEF CallTypes, LiveTasks, Live!Tasks
  <1>. QED BY <1>3, <1>4 DEF LiveInv

-----------------------------------------------------------------------------
(* AvStream: what is checked of it.                                         *)

LEMMA LiveTyped == LiveInv => Live!TypeOK
  <1>. SUFFICES ASSUME LiveInv PROVE Live!TypeOK
    OBVIOUS
  <1>1. lock \in Seq(LiveTasks) /\ DOMAIN lock = 1 .. Len(lock) /\ \A i \in 1 .. Len(lock) : lock[i] \in LiveTasks
    BY LenProperties DEF LiveInv, LiveCore, StagesInv, Line
  <1>2. \A i \in DOMAIN lock : lock[i] \in LiveTasks /\ \A j \in DOMAIN lock : lock[i] = lock[j] => i = j
    BY <1>1 DEF LiveInv, LiveCore, StagesInv, Line
  <1>3. at \in [LiveTasks -> {"out", "sub", "reap", "replace", "sdp", "spawn", "listen", "autopsy", "on",
                              "unsub", "sleep", "stop", "kill", "done"}]
    <2>1. \A t \in LiveTasks : LiveStages(t) \subseteq {"out", "sub", "reap", "replace", "sdp", "spawn", "listen",
                                                        "autopsy", "on", "unsub", "sleep", "stop", "kill", "done"}
      BY DEF LiveStages
    <2>. QED BY <2>1 DEF LiveInv, LiveCore, StagesInv
  <1>. QED BY <1>2, <1>3 DEF Live!TypeOK, LiveTasks, LiveInv, LiveCore, ProcTypes, CallTypes

LEMMA LiveLeftNone == LiveInv => Live!PortsFree /\ Live!Watched /\ Live!ForwardedToItsOwn
  <1>. SUFFICES ASSUME LiveInv PROVE Live!PortsFree /\ Live!Watched /\ Live!ForwardedToItsOwn
    OBVIOUS
  <1>1. Live!PortsFree
    BY DEF Live!PortsFree, LiveInv, LiveCore, ProcInv
  <1>2. Live!ForwardedToItsOwn
    <2>. SUFFICES ASSUME forward
                  PROVE  /\ proc # None /\ life[proc] # "dying" /\ ports \in {proc, None}
                         /\ \A c \in Clients : at[c] \notin {"replace", "sdp", "spawn", "listen"}
      BY DEF Live!ForwardedToItsOwn
    <2>1. proc # None /\ reaping = None /\ Here \notin {"replace", "kill", "sdp", "spawn", "listen"}
      BY DEF LiveInv, LiveCore, SectionInv
    <2>2. life[proc] # "dying"
      BY <2>1 DEF LiveInv, LiveCore, ProcInv
    <2>3. ports \in {proc, None}
      <3>. SUFFICES ASSUME ports # None PROVE ports = proc
        OBVIOUS
      <3>1. ports \in Live!Procs /\ life[ports] \in {"listening", "dying"}
        BY DEF LiveInv, LiveCore, ProcTypes, ProcInv
      <3>2. life[ports] # "dying"
        BY <2>1, <3>1 DEF LiveInv, LiveCore, ProcInv
      <3>. QED BY <3>1, <3>2 DEF LiveInv, LiveCore, ProcInv
    <2>4. ASSUME NEW c \in Clients, at[c] \in {"replace", "sdp", "spawn", "listen"} PROVE FALSE
      <3>1. c \in LiveTasks /\ at[c] \in Inside
        BY <2>4, Kinds DEF Inside
      <3>2. PICK i \in 1 .. Len(lock) : lock[i] = c
        BY <3>1 DEF LiveInv, LiveCore, StagesInv, Line
      <3>3. i = 1 /\ lock # <<>>
        BY <3>1, <3>2 DEF LiveInv, LiveCore, StagesInv, Line
      <3>4. Has(lock, at, LiveTasks, c)
        BY <3>1, <3>2, <3>3, HasIt DEF LiveInv, LiveCore, StagesInv
      <3>. QED BY <2>1, <2>4, <3>1, <3>4, HereIs
    <2>. QED BY <2>1, <2>2, <2>3, <2>4
  <1>3. Live!Watched
    <2>. SUFFICES ASSUME lock = <<>>, proc # None, life[proc] # "gone"
                  PROVE  at[Grace] = "sleep" \/ \E c \in Clients : at[c] = "on"
      BY DEF Live!Watched
    <2>1. \A t \in LiveTasks : at[t] \notin Waits \cup Inside
      BY DEF LiveInv, LiveCore, StagesInv, Line
    <2>2. Here = "none"
      <3>1. { t \in LiveTasks : at[t] \in Inside } = {}
        BY <2>1
      <3>2. Within(at, LiveTasks) = {}
        BY <3>1 DEF Within
      <3>. QED BY <3>2, PlaceIs DEF Here
    <2>3. at[Grace] \in {"sleep", "stop"} \/ \E c \in Clients : at[c] \in {"on", "unsub"}
      BY <2>2 DEF LiveInv, LiveCore, WatchInv
    <2>4. at[Grace] # "stop" /\ \A c \in Clients : at[c] # "unsub"
      BY <2>1, Kinds DEF Waits
    <2>. QED BY <2>3, <2>4
  <1>. QED BY <1>1, <1>2, <1>3

-----------------------------------------------------------------------------
(* AvPassive: what holds of it.                                             *)

StandbyTasks == Standby!Tasks
StandbyStages(t) ==
    IF t \in Clients THEN {"out", "sub", "encoder", "on", "unsub", "gather", "reap"}
    ELSE {"out", "stop", "gather", "reap", "done"}
StandbyLine ==
    /\ p_at \in [StandbyTasks -> Stages] /\ \A t \in StandbyTasks : p_at[t] \in StandbyStages(t)
    /\ Line(p_lock, p_at, StandbyTasks)
\* The stage the task with the lock is at.
There == Place(p_at, StandbyTasks)

RunTypes ==
    /\ {task, stopping} \subseteq Standby!Runs \cup {None}
    /\ run \in [Standby!Runs -> {"unborn", "new", "audio", "loop", "decoder", "wait", "pump", "done"}]
    /\ encoder \in [Standby!Runs -> {"unborn", "running", "dying", "gone"}]
    /\ decoder \in [Standby!Runs -> {"none", "attach", "decode", "leaving", "done"}]
    /\ hit \cup byCancel \cup p_pumping \subseteq Standby!Runs
WatcherTypes ==
    /\ p_clients \cup p_ended \cup p_cut \subseteq Clients
    /\ p_live \in BOOLEAN /\ lives \in 0 .. MaxLive
\* A run that feeds its encoder is the one of _task; one that was interrupted in its `finally` is
\* being stopped, and whoever stops it kills the encoder it may have left.
RunInv ==
    /\ stopping # None <=> There \in {"gather", "reap"}
    /\ stopping # None => run[stopping] \in {"decoder", "wait", "pump", "done"}
    /\ There = "reap" => run[stopping] = "done" /\ encoder[stopping] # "running"
    /\ There = "encoder" => Standby!NeedsEncoder
    /\ \A r \in Standby!Runs :
        /\ r \in hit => run[r] = "done" \/ stopping = r
        /\ run[r] \in {"new", "audio", "loop"} => task = r
        /\ run[r] \in {"wait", "pump"} => encoder[r] # "running"
        /\ encoder[r] = "running" => run[r] # "done" \/ stopping = r
StandbyInv == StandbyLine /\ RunTypes /\ WatcherTypes /\ RunInv

-----------------------------------------------------------------------------
(* AvPassive: the tasks.                                                    *)

LEMMA StandbyKinds ==
    /\ Unload \in StandbyTasks /\ Unload \notin Clients /\ StandbyTasks = Clients \cup {Unload}
    /\ \A t \in StandbyTasks : StandbyStages(t) \subseteq Stages
    /\ None \notin Standby!Runs
  <1>1. None \notin Standby!Runs
    BY BoundsAssumption DEF Standby!Runs
  <1>2. \A t \in StandbyTasks : StandbyStages(t) \subseteq Stages
    BY DEF StandbyStages, Stages, Waits, Inside
  <1>. QED BY <1>1, <1>2, TasksAssumption DEF StandbyTasks, Standby!Tasks

\* A task goes to another stage.
LEMMA StandbyMoves ==
    ASSUME StandbyLine, NEW t \in StandbyTasks, NEW s \in StandbyStages(t), p_at' = [p_at EXCEPT ![t] = s]
    PROVE  /\ p_at' \in [StandbyTasks -> Stages] /\ p_at'[t] = s
           /\ \A u \in StandbyTasks : u # t => p_at'[u] = p_at[u]
           /\ \A u \in StandbyTasks : p_at'[u] \in StandbyStages(u)
  <1>1. s \in Stages
    BY StandbyKinds
  <1>2. /\ p_at' \in [StandbyTasks -> Stages] /\ p_at'[t] = s
        /\ \A u \in StandbyTasks : u # t => p_at'[u] = p_at[u]
    BY <1>1 DEF StandbyLine
  <1>3. \A u \in StandbyTasks : p_at'[u] \in StandbyStages(u)
    BY <1>2 DEF StandbyLine
  <1>. QED BY <1>2, <1>3

\* Who has the lock, and is inside, is where the section is.
LEMMA ThereIs ==
    ASSUME StandbyLine, NEW q, NEW t \in StandbyTasks,
           (p_lock = <<>> /\ q = <<t>>) \/ (p_lock # <<>> /\ Head(p_lock) = t /\ q = p_lock)
    PROVE  Has(q, p_at, StandbyTasks, t) /\ There = IF p_at[t] \in Inside THEN p_at[t] ELSE "none"
  <1>1. p_at \in [StandbyTasks -> Stages] /\ Line(p_lock, p_at, StandbyTasks)
    BY DEF StandbyLine
  <1>2. Has(q, p_at, StandbyTasks, t)
    BY <1>1, HasIt
  <1>. QED BY <1>2, HasAlone DEF There

\* It goes on inside, ...
LEMMA StandbyStays ==
    ASSUME StandbyLine, NEW q, NEW t \in StandbyTasks, Has(q, p_at, StandbyTasks, t),
           NEW s \in Inside, s \in StandbyStages(t), Standby!Suspends(q, t, s)
    PROVE  StandbyLine' /\ There' = s
  <1>1. p_lock' = q /\ p_at' = [p_at EXCEPT ![t] = s]
    BY DEF Standby!Suspends
  <1>2. /\ p_at' \in [StandbyTasks -> Stages] /\ p_at'[t] = s
        /\ \A u \in StandbyTasks : u # t => p_at'[u] = p_at[u]
        /\ \A u \in StandbyTasks : p_at'[u] \in StandbyStages(u)
    BY <1>1, StandbyMoves
  <1>3. Line(p_lock', p_at', StandbyTasks) /\ Place(p_at', StandbyTasks) = s
    <2>0. PICK a : a = p_at'
      OBVIOUS
    <2>1. a[t] \in Inside
      BY <2>0, <1>2
    <2>2. \A u \in StandbyTasks : u # t => a[u] = p_at[u]
      BY <2>0, <1>2
    <2>3. Line(q, a, StandbyTasks)
      BY <2>1, <2>2, HasStays
    <2>4. Place(a, StandbyTasks) = a[t]
      BY <2>1, <2>2, HasStays
    <2>. QED BY <2>0, <1>1, <1>2, <2>3, <2>4
  <1>. QED BY <1>2, <1>3 DEF StandbyLine, There, StandbyTasks, Standby!Tasks

\* ... or leaves.
LEMMA StandbyLeaves ==
    ASSUME StandbyLine, NEW q, NEW t \in StandbyTasks, Has(q, p_at, StandbyTasks, t),
           NEW s \in StandbyStages(t), s \notin Waits \cup Inside, Standby!Returns(q, t, s)
    PROVE  StandbyLine' /\ There' = "none"
  <1>1. p_lock' = Tail(q) /\ p_at' = [p_at EXCEPT ![t] = s]
    BY DEF Standby!Returns
  <1>2. /\ p_at' \in [StandbyTasks -> Stages] /\ p_at'[t] = s
        /\ \A u \in StandbyTasks : u # t => p_at'[u] = p_at[u]
        /\ \A u \in StandbyTasks : p_at'[u] \in StandbyStages(u)
    BY <1>1, StandbyMoves
  <1>3. Line(p_lock', p_at', StandbyTasks) /\ Place(p_at', StandbyTasks) = "none"
    <2>0. PICK a : a = p_at'
      OBVIOUS
    <2>1. a[t] \notin Waits \cup Inside
      BY <2>0, <1>2
    <2>2. \A u \in StandbyTasks : u # t => a[u] = p_at[u]
      BY <2>0, <1>2
    <2>3. Line(Tail(q), a, StandbyTasks)
      BY <2>1, <2>2, HasLeaves
    <2>4. Place(a, StandbyTasks) = "none"
      BY <2>1, <2>2, HasLeaves
    <2>. QED BY <2>0, <1>1, <2>3, <2>4
  <1>. QED BY <1>2, <1>3 DEF StandbyLine, There, StandbyTasks, Standby!Tasks

\* A cancelled task leaves the queue of the lock, and the section when it is inside.
LEMMA StandbyCutLine ==
    ASSUME StandbyLine, NEW t \in Clients, p_at[t] \in Waits \cup Inside,
           p_lock' = Standby!Without(p_lock, t), p_at' = [p_at EXCEPT ![t] = "out"]
    PROVE  /\ StandbyLine'
           /\ p_at[t] \in Waits => There' = There
           /\ p_at[t] \in Inside => There = p_at[t] /\ There' = "none"
  <1>1. t \in StandbyTasks /\ p_at \in [StandbyTasks -> Stages] /\ Line(p_lock, p_at, StandbyTasks)
    BY StandbyKinds DEF StandbyLine
  <1>2. "out" \notin Waits \cup Inside /\ "out" \in StandbyStages(t)
    BY DEF Waits, Inside, StandbyStages
  <1>3. /\ p_at' \in [StandbyTasks -> Stages] /\ p_at'[t] = "out"
        /\ \A u \in StandbyTasks : u # t => p_at'[u] = p_at[u]
        /\ \A u \in StandbyTasks : p_at'[u] \in StandbyStages(u)
    BY <1>1, <1>2, StandbyMoves
  <1>4. p_lock' = Drop(p_lock, t)
    BY DEF Standby!Without, Drop
  <1>5. Line(p_lock', p_at', StandbyTasks)
    <2>0. PICK a : a = p_at'
      OBVIOUS
    <2>1. a[t] \notin Waits \cup Inside
      BY <2>0, <1>2, <1>3
    <2>2. \A u \in StandbyTasks : u # t => a[u] = p_at[u]
      BY <2>0, <1>3
    <2>3. Line(Drop(p_lock, t), a, StandbyTasks)
      BY <1>1, <2>1, <2>2, LineDrop
    <2>. QED BY <2>0, <1>4, <2>3
  <1>6. StandbyLine'
    BY <1>3, <1>5 DEF StandbyLine, StandbyTasks, Standby!Tasks
  <1>7. ASSUME p_at[t] \in Waits PROVE There' = There
    <2>1. p_at[t] \notin Inside /\ p_at'[t] \notin Inside
      BY <1>2, <1>3, <1>7 DEF Waits, Inside
    <2>2. { u \in StandbyTasks : p_at'[u] \in Inside } = { u \in StandbyTasks : p_at[u] \in Inside }
      BY <1>3, <2>1
    <2>3. Within(p_at', StandbyTasks) = Within(p_at, StandbyTasks)
      BY <1>3, <2>1, <2>2 DEF Within
    <2>4. \A a : Within(a, StandbyTasks) = Within(p_at, StandbyTasks)
                    => Place(a, StandbyTasks) = Place(p_at, StandbyTasks)
      BY PlaceIs
    <2>5. Place(p_at', StandbyTasks) = Place(p_at, StandbyTasks)
      BY <2>3, <2>4
    <2>. QED BY <2>5 DEF There, StandbyTasks, Standby!Tasks
  <1>8. ASSUME p_at[t] \in Inside PROVE There = p_at[t] /\ There' = "none"
    <2>1. PICK i \in 1 .. Len(p_lock) : p_lock[i] = t
      BY <1>1, <1>8 DEF Line
    <2>2. i = 1
      BY <1>1, <1>8, <2>1 DEF Line
    <2>3. p_lock # <<>> /\ Head(p_lock) = t
      BY <1>1, <2>1, <2>2 DEF Line
    <2>4. Has(p_lock, p_at, StandbyTasks, t) /\ There = p_at[t]
      BY <1>1, <1>8, <2>3, ThereIs
    <2>5. \A u \in StandbyTasks : u # t => p_at[u] \notin Inside
      BY <2>4, HasAlone
    <2>6. { u \in StandbyTasks : p_at'[u] \in Inside } = {}
      BY <1>2, <1>3, <2>5
    <2>7. Within(p_at', StandbyTasks) = {}
      BY <2>6 DEF Within
    <2>8. Place(p_at', StandbyTasks) = "none"
      BY <2>7 DEF Place
    <2>. QED BY <2>4, <2>8 DEF There, StandbyTasks, Standby!Tasks
  <1>. QED BY <1>6, <1>7, <1>8

\* No task moves.
LEMMA StandbyRests ==
    ASSUME StandbyLine, UNCHANGED <<p_lock, p_at>>
    PROVE  StandbyLine' /\ There' = There
  BY DEF StandbyLine, There, StandbyTasks, Standby!Tasks

-----------------------------------------------------------------------------
(* AvPassive: the locked sections.                                          *)

\* The runs stay as they are.
LEMMA RunsSame ==
    ASSUME RunTypes, RunInv, UNCHANGED <<task, stopping, run, hit, byCancel, encoder, decoder, p_pumping>>,
           There' = There \/ (There \notin {"gather", "reap"} /\ There' \in {"none", "encoder"}),
           There' = "encoder" => There = "encoder" \/ Standby!NeedsEncoder
    PROVE  RunTypes' /\ RunInv'
  <1>1. RunTypes'
    BY DEF RunTypes, Standby!Runs
  <1>2. Standby!NeedsEncoder => Standby!NeedsEncoder'
    BY DEF Standby!NeedsEncoder, Standby!Runs
  <1>3. \A r \in Standby!Runs :
            /\ r \in hit' => run'[r] = "done" \/ stopping' = r
            /\ run'[r] \in {"new", "audio", "loop"} => task' = r
            /\ run'[r] \in {"wait", "pump"} => encoder'[r] # "running"
            /\ encoder'[r] = "running" => run'[r] # "done" \/ stopping' = r
    BY DEF RunInv
  <1>4. /\ stopping' # None <=> There' \in {"gather", "reap"}
        /\ stopping' # None => run'[stopping'] \in {"decoder", "wait", "pump", "done"}
        /\ There' = "reap" => run'[stopping'] = "done" /\ encoder'[stopping'] # "running"
        /\ There' = "encoder" => Standby!NeedsEncoder
    BY DEF RunInv
  <1>5. RunInv'
    BY <1>2, <1>3, <1>4 DEF RunInv, Standby!Runs
  <1>. QED BY <1>1, <1>5

\* A task waits for the lock.
LEMMA StandbyQueues ==
    ASSUME StandbyLine, RunTypes, RunInv, NEW t \in StandbyTasks, NEW s \in Waits, s \in StandbyStages(t),
           p_at[t] \notin Waits \cup Inside, Standby!Queues(t, s)
    PROVE  StandbyLine' /\ RunTypes' /\ RunInv' /\ UNCHANGED <<p_clients, p_ended>>
  <1>1. p_lock # <<>> /\ p_lock' = Append(p_lock, t) /\ p_at' = [p_at EXCEPT ![t] = s]
    BY DEF Standby!Queues, Standby!Suspends
  <1>2. /\ p_at' \in [StandbyTasks -> Stages] /\ p_at'[t] = s
        /\ \A u \in StandbyTasks : u # t => p_at'[u] = p_at[u]
        /\ \A u \in StandbyTasks : p_at'[u] \in StandbyStages(u)
    BY <1>1, StandbyMoves
  <1>3. Line(p_lock', p_at', StandbyTasks) /\ Place(p_at', StandbyTasks) = Place(p_at, StandbyTasks)
    <2>0. PICK a : a = p_at'
      OBVIOUS
    <2>1. a[t] \in Waits
      BY <2>0, <1>2
    <2>2. \A u \in StandbyTasks : u # t => a[u] = p_at[u]
      BY <2>0, <1>2
    <2>3. Line(p_lock, p_at, StandbyTasks) /\ p_lock # <<>>
      BY <1>1 DEF StandbyLine
    <2>4. Line(Append(p_lock, t), a, StandbyTasks)
      BY <2>1, <2>2, <2>3, LineAppend
    <2>5. Place(a, StandbyTasks) = Place(p_at, StandbyTasks)
      BY <2>1, <2>2, <2>3, LineAppend
    <2>. QED BY <2>0, <1>1, <2>4, <2>5
  <1>4. StandbyLine' /\ There' = There
    BY <1>2, <1>3 DEF StandbyLine, There, StandbyTasks, Standby!Tasks
  <1>5. UNCHANGED <<task, stopping, run, hit, byCancel, encoder, decoder, p_pumping, p_clients, p_ended>>
    BY DEF Standby!Queues, Standby!taskVars, Standby!clientVars
  <1>6. RunTypes' /\ RunInv'
    BY <1>4, <1>5, RunsSame
  <1>. QED BY <1>4, <1>5, <1>6

\* _stop_task() with the lock: the run is cancelled, wherever it is.
LEMMA StopTaskKeeps ==
    ASSUME StandbyLine, RunTypes, RunInv, NEW q, NEW t \in StandbyTasks, Has(q, p_at, StandbyTasks, t),
           There \notin Inside, Standby!StopTask(t, q), UNCHANGED <<encoder, p_pumping>>
    PROVE  StandbyLine' /\ RunTypes' /\ RunInv'
  <1>1. There \notin {"gather", "reap", "encoder"} /\ stopping = None
    BY DEF RunInv, Inside
  <1>2. CASE task = None /\ Standby!Returns(q, t, Standby!Left(t)) /\ UNCHANGED <<task, stopping, run, hit, byCancel, decoder>>
    <2>1. Standby!Left(t) \in StandbyStages(t) /\ Standby!Left(t) \notin Waits \cup Inside
      BY StandbyKinds DEF Standby!Left, StandbyStages, Waits, Inside
    <2>2. StandbyLine' /\ There' = "none"
      BY <1>2, <2>1, StandbyLeaves
    <2>3. RunTypes' /\ RunInv'
      BY <1>1, <1>2, <2>2, RunsSame
    <2>. QED BY <2>2, <2>3
  <1>3. CASE task # None /\ task' = None /\ stopping' = task /\ Standby!Interrupt(task) /\ Standby!Suspends(q, t, "gather")
    <2>1. "gather" \in StandbyStages(t) /\ "gather" \in Inside
      BY StandbyKinds DEF StandbyStages, Inside
    <2>2. StandbyLine' /\ There' = "gather"
      BY <1>3, <2>1, StandbyStays
    <2>3. task \in Standby!Runs
      BY <1>3 DEF RunTypes
    <2>4. /\ \A r \in Standby!Runs : r # task => run'[r] = run[r] /\ decoder'[r] = decoder[r]
          /\ run' \in [Standby!Runs -> {"unborn", "new", "audio", "loop", "decoder", "wait", "pump", "done"}]
          /\ decoder' \in [Standby!Runs -> {"none", "attach", "decode", "leaving", "done"}]
          /\ run'[task] \in {"decoder", "wait", "pump", "done"}
          /\ run'[task] \in {"wait", "pump"} => run[task] = run'[task]
          /\ hit' \in {hit, hit \cup {task}} /\ byCancel' \in {byCancel, byCancel \cup {task}}
      BY <1>3, <2>3 DEF Standby!Interrupt, Standby!Cancelled, RunTypes
    <2>5. RunTypes'
      BY <1>3, <2>3, <2>4 DEF RunTypes, Standby!Runs
    <2>6. ASSUME NEW r \in Standby!Runs
          PROVE  /\ r \in hit' => run'[r] = "done" \/ stopping' = r
                 /\ run'[r] \in {"new", "audio", "loop"} => task' = r
                 /\ run'[r] \in {"wait", "pump"} => encoder'[r] # "running"
                 /\ encoder'[r] = "running" => run'[r] # "done" \/ stopping' = r
      <3>1. CASE r = task
        BY <1>3, <2>4, <3>1 DEF RunInv
      <3>2. CASE r # task
        BY <1>1, <1>3, <2>4, <3>2, StandbyKinds DEF RunInv
      <3>. QED BY <3>1, <3>2
    <2>7. RunInv'
      BY <1>3, <2>2, <2>3, <2>4, <2>6, StandbyKinds DEF RunInv, Standby!Runs
    <2>. QED BY <2>2, <2>5, <2>7
  <1>. QED BY <1>2, <1>3 DEF Standby!StopTask

\* The task with the lock runs until its first await.
LEMMA StandbySubscribes ==
    ASSUME StandbyInv, NEW q, NEW c \in Clients, Has(q, p_at, StandbyTasks, c), There \notin Inside,
           Standby!SubscribeRuns(c, q)
    PROVE  StandbyLine' /\ RunTypes' /\ RunInv' /\ p_clients' \cup p_ended' \subseteq Clients
  <1>. USE DEF StandbyInv
  <1>1. /\ UNCHANGED <<task, stopping, run, hit, byCancel, encoder, decoder, p_pumping>> /\ p_ended' = p_ended
        /\ p_clients' \in {p_clients, p_clients \cup {c}}
    BY DEF Standby!SubscribeRuns, Standby!taskVars
  <1>2. c \in StandbyTasks /\ There \notin {"gather", "reap", "encoder"}
    BY StandbyKinds DEF Inside
  <1>3. CASE Standby!NeedsEncoder /\ Standby!Suspends(q, c, "encoder")
    <2>1. "encoder" \in StandbyStages(c) /\ "encoder" \in Inside
      BY DEF StandbyStages, Inside
    <2>2. StandbyLine' /\ There' = "encoder"
      BY <1>2, <1>3, <2>1, StandbyStays
    <2>3. RunTypes' /\ RunInv'
      BY <1>1, <1>2, <1>3, <2>2, RunsSame
    <2>. QED BY <1>1, <2>2, <2>3 DEF WatcherTypes
  <1>4. CASE Standby!Returns(q, c, "on")
    <2>1. "on" \in StandbyStages(c) /\ "on" \notin Waits \cup Inside
      BY DEF StandbyStages, Waits, Inside
    <2>2. StandbyLine' /\ There' = "none"
      BY <1>2, <1>4, <2>1, StandbyLeaves
    <2>3. RunTypes' /\ RunInv'
      BY <1>1, <1>2, <2>2, RunsSame
    <2>. QED BY <1>1, <2>2, <2>3 DEF WatcherTypes
  <1>. QED BY <1>3, <1>4 DEF Standby!SubscribeRuns
LEMMA StandbyUnsubscribes ==
    ASSUME StandbyInv, NEW q, NEW c \in Clients, Has(q, p_at, StandbyTasks, c), There \notin Inside,
           Standby!UnsubscribeRuns(c, q)
    PROVE  StandbyLine' /\ RunTypes' /\ RunInv' /\ p_clients' \cup p_ended' \subseteq Clients
  <1>. USE DEF StandbyInv
  <1>1. p_clients' = p_clients \ {c} /\ p_ended' = p_ended \ {c} /\ UNCHANGED <<encoder, p_pumping>>
    BY DEF Standby!UnsubscribeRuns
  <1>2. c \in StandbyTasks /\ There \notin {"gather", "reap", "encoder"}
    BY StandbyKinds DEF Inside
  <1>3. CASE Standby!StopTask(c, q)
    <2>1. StandbyLine' /\ RunTypes' /\ RunInv'
      BY <1>1, <1>2, <1>3, StopTaskKeeps
    <2>. QED BY <1>1, <2>1 DEF WatcherTypes
  <1>4. CASE Standby!Returns(q, c, "out") /\ UNCHANGED <<task, stopping, run, hit, byCancel, decoder>>
    <2>1. "out" \in StandbyStages(c) /\ "out" \notin Waits \cup Inside
      BY DEF StandbyStages, Waits, Inside
    <2>2. StandbyLine' /\ There' = "none"
      BY <1>2, <1>4, <2>1, StandbyLeaves
    <2>3. RunTypes' /\ RunInv'
      BY <1>1, <1>2, <1>4, <2>2, RunsSame
    <2>. QED BY <1>1, <2>2, <2>3 DEF WatcherTypes
  <1>. QED BY <1>3, <1>4 DEF Standby!UnsubscribeRuns
LEMMA StandbyStops ==
    ASSUME StandbyInv, NEW q, NEW t \in StandbyTasks, Has(q, p_at, StandbyTasks, t), There \notin Inside,
           Standby!StopRuns(t, q)
    PROVE  StandbyLine' /\ RunTypes' /\ RunInv' /\ p_clients' \cup p_ended' \subseteq Clients
  <1>1. /\ p_clients' = {} /\ p_ended' = p_ended \cup p_clients /\ UNCHANGED <<encoder, p_pumping>>
        /\ Standby!StopTask(t, q)
    BY DEF Standby!StopRuns
  <1>2. StandbyLine' /\ RunTypes' /\ RunInv'
    BY <1>1, StopTaskKeeps DEF StandbyInv
  <1>. QED BY <1>1, <1>2 DEF StandbyInv, WatcherTypes

\* The standby picture is rendered and the encoder launched.
LEMMA LaunchedKeeps ==
    ASSUME StandbyInv, NEW c \in Clients, Standby!Launched(c)
    PROVE  StandbyLine' /\ RunTypes' /\ RunInv' /\ p_clients' \cup p_ended' \subseteq Clients
  <1>. USE DEF StandbyInv
  <1>1. c \in StandbyTasks /\ p_lock # <<>> /\ Head(p_lock) = c /\ p_at[c] = "encoder"
    BY StandbyKinds DEF Standby!Launched, Standby!Holds
  <1>2. Has(p_lock, p_at, StandbyTasks, c) /\ There = "encoder"
    BY <1>1, ThereIs DEF Inside
  <1>3. UNCHANGED <<stopping, hit, byCancel, p_pumping, decoder, p_ended>> /\ stopping = None /\ Standby!NeedsEncoder
    BY <1>2 DEF Standby!Launched, RunInv
  <1>4. ASSUME NEW r \in Standby!Runs, run[r] = "unborn", task' = r, run' = [run EXCEPT ![r] = "new"],
               encoder' = [encoder EXCEPT ![r] = "running"], p_clients' = p_clients \cup {c},
               Standby!Returns(p_lock, c, "on")
        PROVE  StandbyLine' /\ RunTypes' /\ RunInv' /\ p_clients' \cup p_ended' \subseteq Clients
    <2>1. "on" \in StandbyStages(c) /\ "on" \notin Waits \cup Inside
      BY DEF StandbyStages, Waits, Inside
    <2>2. StandbyLine' /\ There' = "none"
      BY <1>1, <1>2, <1>4, <2>1, StandbyLeaves
    <2>3. /\ run' \in [Standby!Runs -> {"unborn", "new", "audio", "loop", "decoder", "wait", "pump", "done"}]
          /\ encoder' \in [Standby!Runs -> {"unborn", "running", "dying", "gone"}]
          /\ run'[r] = "new" /\ \A o \in Standby!Runs : o # r => run'[o] = run[o] /\ encoder'[o] = encoder[o]
      BY <1>4 DEF RunTypes
    <2>4. RunTypes'
      BY <1>3, <1>4, <2>3 DEF RunTypes, Standby!Runs
    <2>5. ASSUME NEW o \in Standby!Runs
          PROVE  /\ o \in hit' => run'[o] = "done" \/ stopping' = o
                 /\ run'[o] \in {"new", "audio", "loop"} => task' = o
                 /\ run'[o] \in {"wait", "pump"} => encoder'[o] # "running"
                 /\ encoder'[o] = "running" => run'[o] # "done" \/ stopping' = o
      <3>1. CASE o = r
        BY <1>3, <1>4, <2>3, <3>1, StandbyKinds DEF RunInv
      <3>2. CASE o # r
        BY <1>3, <2>3, <3>2 DEF RunInv, Standby!NeedsEncoder
      <3>. QED BY <3>1, <3>2
    <2>6. RunInv'
      BY <1>3, <2>2, <2>5 DEF RunInv, Standby!Runs
    <2>. QED BY <1>3, <1>4, <2>2, <2>4, <2>6 DEF WatcherTypes
  <1>5. CASE Standby!Returns(p_lock, c, "out") /\ UNCHANGED <<task, run, encoder, p_clients>>
    <2>1. "out" \in StandbyStages(c) /\ "out" \notin Waits \cup Inside
      BY DEF StandbyStages, Waits, Inside
    <2>2. StandbyLine' /\ There' = "none"
      BY <1>1, <1>2, <1>5, <2>1, StandbyLeaves
    <2>3. RunTypes' /\ RunInv'
      BY <1>2, <1>3, <1>5, <2>2, RunsSame
    <2>. QED BY <1>3, <1>5, <2>2, <2>3 DEF WatcherTypes
  <1>. QED BY <1>4, <1>5 DEF Standby!Launched

\* The run awaited by _stop_task is over, and its encoder is gone or killed.
LEMMA GatheredKeeps ==
    ASSUME StandbyInv, NEW t \in StandbyTasks, Standby!Gathered(t) \/ Standby!Reaped(t)
    PROVE  StandbyLine' /\ RunTypes' /\ RunInv' /\ UNCHANGED <<p_clients, p_ended>>
  <1>. USE DEF StandbyInv
  <1>1. p_lock # <<>> /\ Head(p_lock) = t /\ p_at[t] \in {"gather", "reap"}
    BY DEF Standby!Gathered, Standby!Reaped, Standby!Holds
  <1>2. Has(p_lock, p_at, StandbyTasks, t) /\ There = p_at[t]
    BY <1>1, ThereIs DEF Inside
  <1>3. /\ UNCHANGED <<task, run, hit, byCancel, p_pumping, decoder, p_clients, p_ended>>
        /\ stopping \in Standby!Runs /\ run[stopping] = "done"
    BY <1>1, <1>2, StandbyKinds
       DEF Standby!Gathered, Standby!Reaped, Standby!Holds, RunInv, RunTypes, Standby!clientVars, Standby!taskVars
  <1>4. CASE encoder[stopping] = "gone" /\ Standby!Returns(p_lock, t, Standby!Left(t)) /\ stopping' = None
             /\ UNCHANGED encoder
    <2>1. Standby!Left(t) \in StandbyStages(t) /\ Standby!Left(t) \notin Waits \cup Inside
      BY StandbyKinds DEF Standby!Left, StandbyStages, Waits, Inside
    <2>2. StandbyLine' /\ There' = "none"
      BY <1>2, <1>4, <2>1, StandbyLeaves
    <2>3. RunTypes'
      BY <1>3, <1>4 DEF RunTypes, Standby!Runs
    <2>4. ASSUME NEW r \in Standby!Runs
          PROVE  /\ r \in hit' => run'[r] = "done" \/ stopping' = r
                 /\ run'[r] \in {"new", "audio", "loop"} => task' = r
                 /\ run'[r] \in {"wait", "pump"} => encoder'[r] # "running"
                 /\ encoder'[r] = "running" => run'[r] # "done" \/ stopping' = r
      BY <1>3, <1>4 DEF RunInv
    <2>5. RunInv'
      BY <1>4, <2>2, <2>4 DEF RunInv, Standby!Runs
    <2>. QED BY <1>3, <2>2, <2>3, <2>5
  <1>5. CASE p_at[t] = "gather" /\ encoder' = [encoder EXCEPT ![stopping] = "dying"]
             /\ Standby!Suspends(p_lock, t, "reap") /\ UNCHANGED stopping
    <2>1. "reap" \in StandbyStages(t) /\ "reap" \in Inside
      BY StandbyKinds DEF StandbyStages, Inside
    <2>2. StandbyLine' /\ There' = "reap"
      BY <1>2, <1>5, <2>1, StandbyStays
    <2>3. /\ encoder' \in [Standby!Runs -> {"unborn", "running", "dying", "gone"}] /\ encoder'[stopping] = "dying"
          /\ \A r \in Standby!Runs : encoder'[r] = "running" => encoder[r] = "running"
      BY <1>3, <1>5 DEF RunTypes
    <2>4. RunTypes'
      BY <1>3, <1>5, <2>3 DEF RunTypes, Standby!Runs
    <2>5. ASSUME NEW r \in Standby!Runs
          PROVE  /\ r \in hit' => run'[r] = "done" \/ stopping' = r
                 /\ run'[r] \in {"new", "audio", "loop"} => task' = r
                 /\ run'[r] \in {"wait", "pump"} => encoder'[r] # "running"
                 /\ encoder'[r] = "running" => run'[r] # "done" \/ stopping' = r
      BY <1>3, <1>5, <2>3 DEF RunInv
    <2>6. stopping' # None /\ run'[stopping'] = "done" /\ encoder'[stopping'] # "running"
      BY <1>3, <1>5, <2>3, StandbyKinds
    <2>7. RunInv'
      BY <2>2, <2>5, <2>6 DEF RunInv, Standby!Runs
    <2>. QED BY <1>3, <2>2, <2>4, <2>7
  <1>. QED BY <1>4, <1>5 DEF Standby!Gathered, Standby!Reaped, Standby!Holds, Standby!taskVars

\* A handler is cancelled; where it waits for an encoder that it has killed, that one is gone.
LEMMA StandbyCut ==
    ASSUME StandbyInv, NEW c \in Clients, Standby!Cut(c)
    PROVE  StandbyLine' /\ RunTypes' /\ RunInv' /\ UNCHANGED <<p_clients, p_ended>>
  <1>. USE DEF StandbyInv
  <1>1. p_at[c] \in {"sub", "unsub", "encoder", "reap"}
    BY CuttableAssumption DEF Standby!Cut
  <1>2. /\ p_lock' = Standby!Without(p_lock, c) /\ p_at' = [p_at EXCEPT ![c] = "out"]
        /\ stopping' = IF p_at[c] = "reap" THEN None ELSE stopping
        /\ UNCHANGED <<task, run, hit, byCancel, encoder, decoder, p_pumping, p_clients, p_ended>>
    BY <1>1 DEF Standby!Cut, Standby!clientVars
  <1>3. p_at[c] \in Waits \cup Inside
    BY <1>1 DEF Waits, Inside
  <1>4. /\ StandbyLine'
        /\ p_at[c] \in Waits => There' = There
        /\ p_at[c] \in Inside => There = p_at[c] /\ There' = "none"
    BY <1>2, <1>3, StandbyCutLine
  <1>5. CASE p_at[c] # "reap"
    <2>1. There' = There \/ (There = "encoder" /\ There' = "none")
      BY <1>1, <1>4, <1>5 DEF Waits, Inside
    <2>2. UNCHANGED <<task, stopping, run, hit, byCancel, encoder, decoder, p_pumping>>
      BY <1>2, <1>5
    <2>3. RunTypes' /\ RunInv'
      BY <2>1, <2>2, RunsSame
    <2>. QED BY <1>2, <1>4, <2>3
  <1>6. CASE p_at[c] = "reap"
    <2>1. There = "reap" /\ There' = "none" /\ stopping' = None
      BY <1>2, <1>4, <1>6 DEF Inside
    <2>2. run[stopping] = "done" /\ encoder[stopping] # "running"
      BY <2>1 DEF RunInv
    <2>3. RunTypes'
      BY <1>2, <2>1 DEF RunTypes, Standby!Runs
    <2>4. \A r \in Standby!Runs :
              /\ r \in hit' => run'[r] = "done" \/ stopping' = r
              /\ run'[r] \in {"new", "audio", "loop"} => task' = r
              /\ run'[r] \in {"wait", "pump"} => encoder'[r] # "running"
              /\ encoder'[r] = "running" => run'[r] # "done" \/ stopping' = r
      BY <1>2, <2>2 DEF RunInv
    <2>5. RunInv'
      BY <2>1, <2>4 DEF RunInv, Standby!Runs
    <2>. QED BY <1>2, <1>4, <2>3, <2>5
  <1>. QED BY <1>5, <1>6

-----------------------------------------------------------------------------
(* AvPassive: the runs, and every step.                                     *)

\* A run goes on, or its encoder does.
LEMMA RunGoesOn ==
    ASSUME StandbyInv, NEW r \in Standby!Runs, UNCHANGED <<p_lock, p_at, task, stopping, hit>>,
           \A o \in Standby!Runs : o # r => run'[o] = run[o] /\ encoder'[o] = encoder[o],
           run'[r] \in {"new", "audio", "loop"} => run[r] \in {"new", "audio", "loop"},
           run[r] \in {"decoder", "wait", "pump", "done"} => run'[r] \in {"decoder", "wait", "pump", "done"},
           run[r] = "done" => run'[r] = "done",
           run'[r] \in {"wait", "pump"} => encoder'[r] # "running",
           encoder'[r] = "running" => encoder[r] = "running" /\ (run'[r] # "done" \/ run[r] = "done" \/ stopping = r)
    PROVE  StandbyLine' /\ RunInv'
  <1>. USE DEF StandbyInv
  <1>1. StandbyLine' /\ There' = There
    BY StandbyRests
  <1>2. \A o \in Standby!Runs :
            /\ o \in hit' => run'[o] = "done" \/ stopping' = o
            /\ run'[o] \in {"new", "audio", "loop"} => task' = o
            /\ run'[o] \in {"wait", "pump"} => encoder'[o] # "running"
            /\ encoder'[o] = "running" => run'[o] # "done" \/ stopping' = o
    <2>. TAKE o \in Standby!Runs
    <2>1. CASE o = r
      BY <2>1 DEF RunInv
    <2>2. CASE o # r
      BY <2>2 DEF RunInv
    <2>. QED BY <2>1, <2>2
  <1>3. stopping # None => stopping \in Standby!Runs
    BY DEF RunTypes
  <1>4. /\ stopping # None => run'[stopping] \in {"decoder", "wait", "pump", "done"}
        /\ There = "reap" => run'[stopping] = "done" /\ encoder'[stopping] # "running"
    <2>1. CASE stopping = r
      BY <2>1 DEF RunInv
    <2>2. CASE stopping # r
      BY <1>3, <2>2 DEF RunInv
    <2>. QED BY <2>1, <2>2
  <1>5. Standby!NeedsEncoder => Standby!NeedsEncoder'
    BY DEF Standby!NeedsEncoder, Standby!Runs
  <1>6. RunInv'
    BY <1>1, <1>2, <1>4, <1>5 DEF RunInv, Standby!Runs
  <1>. QED BY <1>1, <1>6

\* A step of _run.
LEMMA RunStepKeeps ==
    ASSUME StandbyInv, NEW r \in Standby!Runs, Standby!RunSteps(r)
    PROVE  StandbyLine' /\ RunTypes' /\ RunInv' /\ p_clients' \cup p_ended' \subseteq Clients
  <1>. USE DEF StandbyInv
  <1>1. /\ UNCHANGED <<p_lock, p_at, task, stopping, hit, byCancel>>
        /\ \E s \in {"audio", "loop", "decoder", "wait", "pump", "done"} : run' = [run EXCEPT ![r] = s]
        /\ encoder' \in {encoder, [encoder EXCEPT ![r] = "dying"]}
        /\ decoder' \in {decoder, [decoder EXCEPT ![r] = Standby!Cancelled(r)]}
        /\ p_pumping' \in {p_pumping, p_pumping \cup {r}, p_pumping \ {r}}
        /\ p_clients' \in {p_clients, {}} /\ p_ended' \in {p_ended, p_ended \cup p_clients}
    BY DEF Standby!RunSteps, Standby!Begins, Standby!AudioIn, Standby!Broken, Standby!DecoderAwaited,
           Standby!EncoderAwaited, Standby!Finishes, Standby!Unfinished, Standby!clientVars, RunTypes
  <1>2. /\ run' \in [Standby!Runs -> {"unborn", "new", "audio", "loop", "decoder", "wait", "pump", "done"}]
        /\ encoder' \in [Standby!Runs -> {"unborn", "running", "dying", "gone"}]
        /\ \A o \in Standby!Runs : o # r => run'[o] = run[o] /\ encoder'[o] = encoder[o]
    BY <1>1 DEF RunTypes
  <1>3. decoder' \in [Standby!Runs -> {"none", "attach", "decode", "leaving", "done"}]
    BY <1>1 DEF RunTypes, Standby!Cancelled
  <1>4. RunTypes'
    BY <1>1, <1>2, <1>3 DEF RunTypes, Standby!Runs
  <1>5. /\ run'[r] \in {"new", "audio", "loop"} => run[r] \in {"new", "audio", "loop"}
        /\ run[r] \in {"decoder", "wait", "pump", "done"} => run'[r] \in {"decoder", "wait", "pump", "done"}
        /\ run[r] = "done" => run'[r] = "done"
        /\ run'[r] \in {"wait", "pump"} => encoder'[r] # "running"
        /\ encoder'[r] = "running" => encoder[r] = "running" /\ (run'[r] # "done" \/ run[r] = "done" \/ stopping = r)
    <2>1. CASE Standby!Begins(r) \/ Standby!AudioIn(r) \/ Standby!Broken(r)
      BY <2>1 DEF Standby!Begins, Standby!AudioIn, Standby!Broken, RunTypes
    <2>2. CASE Standby!DecoderAwaited(r)
      BY <2>2 DEF Standby!DecoderAwaited, RunTypes
    <2>3. CASE Standby!EncoderAwaited(r)
      BY <2>3 DEF Standby!EncoderAwaited, RunTypes
    <2>4. CASE Standby!Finishes(r)
      BY <2>4 DEF Standby!Finishes, RunTypes, RunInv
    <2>5. CASE Standby!Unfinished(r)
      BY <2>5 DEF Standby!Unfinished, RunTypes, RunInv
    <2>. QED BY <2>1, <2>2, <2>3, <2>4, <2>5 DEF Standby!RunSteps
  <1>6. StandbyLine' /\ RunInv'
    BY <1>1, <1>2, <1>5, RunGoesOn
  <1>7. p_clients' \cup p_ended' \subseteq Clients
    BY <1>1 DEF WatcherTypes
  <1>. QED BY <1>4, <1>6, <1>7

\* A step of the decoder, of a process or of the pump.
LEMMA ProcessKeeps ==
    ASSUME StandbyInv, NEW r \in Standby!Runs,
           \/ Standby!Tick(r) \/ Standby!Attached(r) \/ Standby!StreamEnds(r) \/ Standby!DecoderLeaves(r)
           \/ Standby!EncoderExits(r) \/ Standby!PumpEnds(r)
    PROVE  StandbyLine' /\ RunTypes' /\ RunInv' /\ UNCHANGED <<p_clients, p_ended>>
  <1>. USE DEF StandbyInv
  <1>1. /\ UNCHANGED <<p_lock, p_at, task, stopping, run, hit, byCancel, p_clients, p_ended>>
        /\ p_pumping' \in {p_pumping, p_pumping \ {r}}
        /\ encoder' \in {encoder, [encoder EXCEPT ![r] = "gone"]}
    BY DEF Standby!Tick, Standby!Attached, Standby!StreamEnds, Standby!DecoderLeaves, Standby!EncoderExits,
           Standby!PumpEnds, Standby!clientVars, Standby!taskVars
  <1>2. decoder' \in [Standby!Runs -> {"none", "attach", "decode", "leaving", "done"}]
    <2>1. CASE Standby!Tick(r)
      BY <2>1 DEF Standby!Tick, Standby!Cancelled, RunTypes
    <2>2. CASE ~Standby!Tick(r)
      BY <2>2 DEF Standby!Attached, Standby!StreamEnds, Standby!DecoderLeaves, Standby!EncoderExits,
                  Standby!PumpEnds, Standby!taskVars, RunTypes
    <2>. QED BY <2>1, <2>2
  <1>3. /\ encoder' \in [Standby!Runs -> {"unborn", "running", "dying", "gone"}]
        /\ \A o \in Standby!Runs : o # r => encoder'[o] = encoder[o]
        /\ encoder'[r] = "running" => encoder[r] = "running"
    BY <1>1 DEF RunTypes
  <1>4. RunTypes'
    BY <1>1, <1>2, <1>3 DEF RunTypes, Standby!Runs
  <1>5. /\ \A o \in Standby!Runs : o # r => run'[o] = run[o] /\ encoder'[o] = encoder[o]
        /\ run'[r] = run[r] /\ (run'[r] \in {"wait", "pump"} => encoder'[r] # "running")
        /\ encoder'[r] = "running" => encoder[r] = "running" /\ (run'[r] # "done" \/ run[r] = "done" \/ stopping = r)
    BY <1>1, <1>3 DEF RunInv
  <1>6. StandbyLine' /\ RunInv'
    BY <1>1, <1>5, RunGoesOn
  <1>. QED BY <1>1, <1>4, <1>6

LEMMA StandbyInit == Standby!Init => StandbyInv
  <1>. SUFFICES ASSUME Standby!Init PROVE StandbyInv
    OBVIOUS
  <1>1. /\ p_lock = <<>> /\ p_at = [t \in StandbyTasks |-> "out"] /\ task = None /\ stopping = None
        /\ run = [r \in Standby!Runs |-> "unborn"] /\ encoder = [r \in Standby!Runs |-> "unborn"]
        /\ decoder = [r \in Standby!Runs |-> "none"]
        /\ hit = {} /\ byCancel = {} /\ p_pumping = {} /\ p_clients = {} /\ p_ended = {} /\ p_cut = {}
        /\ p_live = FALSE /\ lives = 0
    BY DEF Standby!Init, StandbyTasks
  <1>2. \A t \in StandbyTasks : p_at[t] = "out"
    BY <1>1
  <1>3. "out" \in Stages /\ "out" \notin Waits \cup Inside /\ \A t \in StandbyTasks : "out" \in StandbyStages(t)
    BY DEF Stages, Waits, Inside, StandbyStages
  <1>4. Line(p_lock, p_at, StandbyTasks)
    BY <1>1, <1>2, <1>3 DEF Line
  <1>5. StandbyLine
    BY <1>1, <1>3, <1>4 DEF StandbyLine
  <1>6. There = "none"
    <2>1. { t \in StandbyTasks : p_at[t] \in Inside } = {}
      BY <1>2, <1>3
    <2>2. Within(p_at, StandbyTasks) = {}
      BY <2>1 DEF Within
    <2>. QED BY <2>2, PlaceIs DEF There
  <1>7. RunTypes
    BY <1>1 DEF RunTypes
  <1>8. \A r \in Standby!Runs : run[r] = "unborn" /\ encoder[r] = "unborn"
    BY <1>1
  <1>9. RunInv
    BY <1>1, <1>6, <1>8 DEF RunInv
  <1>10. WatcherTypes
    <2>1. MaxLive \in Nat
      BY BoundsAssumption
    <2>2. 0 \in 0 .. MaxLive
      BY <2>1
    <2>. QED BY <1>1, <2>2 DEF WatcherTypes
  <1>. QED BY <1>5, <1>7, <1>9, <1>10 DEF StandbyInv

\* A task that takes a free lock, or is handed it.
LEMMA StandbyTakes ==
    ASSUME StandbyInv, NEW t \in StandbyTasks,
           \/ t \in Clients /\ (Standby!Subscribe(t) \/ Standby!Leave(t))
           \/ t = Unload /\ Standby!Unloads
           \/ Standby!Woken(t)
    PROVE  StandbyLine' /\ RunTypes' /\ RunInv' /\ p_clients' \cup p_ended' \subseteq Clients
  <1>. USE DEF StandbyInv
  <1>1. p_clients \cup p_ended \subseteq Clients
    BY DEF WatcherTypes
  <1>2. ASSUME NEW q,
               (p_lock = <<>> /\ q = <<t>>) \/ (p_lock # <<>> /\ Head(p_lock) = t /\ q = p_lock),
               p_at[t] \notin Inside
        PROVE  Has(q, p_at, StandbyTasks, t) /\ There \notin Inside
    <2>1. Has(q, p_at, StandbyTasks, t) /\ There = "none"
      BY <1>2, ThereIs
    <2>. QED BY <2>1 DEF Inside
  <1>3. CASE t \in Clients /\ Standby!Subscribe(t)
    <2>1. p_at[t] = "out" /\ p_at[t] \notin Waits \cup Inside /\ "sub" \in Waits /\ "sub" \in StandbyStages(t)
      BY <1>3 DEF Standby!Subscribe, Waits, Inside, StandbyStages
    <2>2. CASE Standby!Queues(t, "sub")
      BY <1>1, <2>1, <2>2, StandbyQueues
    <2>3. CASE p_lock = <<>> /\ Standby!SubscribeRuns(t, <<t>>)
      <3>1. Has(<<t>>, p_at, StandbyTasks, t) /\ There \notin Inside
        BY <1>2, <2>1, <2>3
      <3>. QED BY <1>3, <2>3, <3>1, StandbySubscribes
    <2>. QED BY <1>3, <2>2, <2>3 DEF Standby!Subscribe
  <1>4. CASE t \in Clients /\ Standby!Leave(t)
    <2>1. p_at[t] = "on" /\ p_at[t] \notin Waits \cup Inside /\ "unsub" \in Waits /\ "unsub" \in StandbyStages(t)
      BY <1>4 DEF Standby!Leave, Waits, Inside, StandbyStages
    <2>2. CASE Standby!Queues(t, "unsub")
      BY <1>1, <2>1, <2>2, StandbyQueues
    <2>3. CASE p_lock = <<>> /\ Standby!UnsubscribeRuns(t, <<t>>)
      <3>1. Has(<<t>>, p_at, StandbyTasks, t) /\ There \notin Inside
        BY <1>2, <2>1, <2>3
      <3>. QED BY <1>4, <2>3, <3>1, StandbyUnsubscribes
    <2>. QED BY <1>4, <2>2, <2>3 DEF Standby!Leave
  <1>5. CASE t = Unload /\ Standby!Unloads
    <2>1. p_at[t] = "out" /\ p_at[t] \notin Waits \cup Inside /\ "stop" \in Waits /\ "stop" \in StandbyStages(t)
      BY <1>5, StandbyKinds DEF Standby!Unloads, Waits, Inside, StandbyStages
    <2>2. CASE Standby!Queues(t, "stop")
      BY <1>1, <2>1, <2>2, StandbyQueues
    <2>3. CASE p_lock = <<>> /\ Standby!StopRuns(t, <<t>>)
      <3>1. Has(<<t>>, p_at, StandbyTasks, t) /\ There \notin Inside
        BY <1>2, <2>1, <2>3
      <3>. QED BY <2>3, <3>1, StandbyStops
    <2>. QED BY <1>5, <2>2, <2>3 DEF Standby!Unloads
  <1>6. CASE Standby!Woken(t)
    <2>1. p_lock # <<>> /\ Head(p_lock) = t /\ p_at[t] \in {"sub", "unsub", "stop"} /\ p_at[t] \notin Inside
      BY <1>6 DEF Standby!Woken, Standby!Holds, Inside
    <2>2. Has(p_lock, p_at, StandbyTasks, t) /\ There \notin Inside
      BY <1>2, <2>1
    <2>3. p_at[t] \in {"sub", "unsub"} => t \in Clients
      BY StandbyKinds DEF StandbyLine, StandbyStages
    <2>4. CASE p_at[t] = "sub" /\ Standby!SubscribeRuns(t, p_lock)
      BY <2>2, <2>3, <2>4, StandbySubscribes
    <2>5. CASE p_at[t] = "unsub" /\ Standby!UnsubscribeRuns(t, p_lock)
      BY <2>2, <2>3, <2>5, StandbyUnsubscribes
    <2>6. CASE Standby!StopRuns(t, p_lock)
      BY <2>2, <2>6, StandbyStops
    <2>. QED BY <1>6, <2>4, <2>5, <2>6 DEF Standby!Woken, Standby!Holds
  <1>. QED BY <1>3, <1>4, <1>5, <1>6

\* Every step keeps the invariant.
LEMMA StandbyStep ==
    ASSUME StandbyInv, Standby!Next
    PROVE  StandbyInv'
  <1>0. StandbyLine /\ RunTypes /\ WatcherTypes /\ RunInv
    BY DEF StandbyInv
  <1>1. ASSUME StandbyLine' /\ RunTypes' /\ RunInv' /\ p_clients' \cup p_ended' \subseteq Clients,
               UNCHANGED <<p_live, lives>>, p_cut' \subseteq Clients
        PROVE  StandbyInv'
    BY <1>0, <1>1 DEF StandbyInv, WatcherTypes
  <1>2. p_clients \cup p_ended \cup p_cut \subseteq Clients
    BY <1>0 DEF WatcherTypes
  <1>3. CASE Standby!Unloads
    <2>1. Unload \in StandbyTasks /\ UNCHANGED <<p_live, lives, p_cut>>
      BY <1>3, StandbyKinds DEF Standby!Unloads, Standby!lineVars
    <2>. QED BY <1>1, <1>2, <1>3, <2>1, StandbyTakes
  <1>4. CASE Standby!VideoComes \/ Standby!VideoGoes
    <2>1. /\ UNCHANGED <<p_lock, p_at, task, stopping, run, hit, byCancel, encoder, p_pumping, decoder, p_clients,
                         p_ended, p_cut>>
          /\ p_live' \in BOOLEAN /\ (lives' = lives \/ (lives < MaxLive /\ lives' = lives + 1))
      BY <1>4 DEF Standby!VideoComes, Standby!VideoGoes, Standby!taskVars, Standby!clientVars
    <2>2. StandbyLine' /\ There' = There
      BY <1>0, <2>1, StandbyRests
    <2>3. RunTypes' /\ RunInv'
      BY <1>0, <2>1, <2>2, RunsSame
    <2>4. lives' \in 0 .. MaxLive
      BY <1>0, <2>1, BoundsAssumption DEF WatcherTypes
    <2>. QED BY <1>2, <2>1, <2>2, <2>3, <2>4 DEF StandbyInv, WatcherTypes
  <1>5. ASSUME NEW c \in Clients, Standby!Subscribe(c) \/ Standby!Leave(c) PROVE StandbyInv'
    <2>1. c \in StandbyTasks /\ UNCHANGED <<p_live, lives, p_cut>>
      BY <1>5, StandbyKinds DEF Standby!Subscribe, Standby!Leave, Standby!lineVars
    <2>. QED BY <1>1, <1>2, <1>5, <2>1, StandbyTakes
  <1>6. ASSUME NEW c \in Clients, Standby!Launched(c) PROVE StandbyInv'
    <2>1. UNCHANGED <<p_live, lives, p_cut>>
      BY <1>6 DEF Standby!Launched, Standby!lineVars
    <2>. QED BY <1>1, <1>2, <1>6, <2>1, LaunchedKeeps
  <1>7. ASSUME NEW c \in Clients, Standby!Cut(c) PROVE StandbyInv'
    <2>1. UNCHANGED <<p_live, lives>> /\ p_cut' = p_cut \cup {c}
      BY <1>7 DEF Standby!Cut, Standby!lineVars
    <2>2. p_cut' \subseteq Clients
      BY <1>2, <2>1
    <2>3. StandbyLine' /\ RunTypes' /\ RunInv' /\ UNCHANGED <<p_clients, p_ended>>
      BY <1>7, StandbyCut
    <2>4. p_clients' \cup p_ended' \subseteq Clients
      BY <1>2, <2>3
    <2>. QED BY <1>1, <2>1, <2>2, <2>3, <2>4
  <1>8. ASSUME NEW c \in Clients, Standby!TooSlow(c) PROVE StandbyInv'
    <2>1. /\ UNCHANGED <<p_lock, p_at, task, stopping, run, hit, byCancel, encoder, p_pumping, decoder, p_live, lives,
                         p_cut>>
          /\ p_clients' = p_clients \ {c} /\ p_ended' = p_ended \cup {c}
      BY <1>8 DEF Standby!TooSlow, Standby!taskVars, Standby!lineVars
    <2>2. StandbyLine' /\ There' = There
      BY <1>0, <2>1, StandbyRests
    <2>3. RunTypes' /\ RunInv'
      BY <1>0, <2>1, <2>2, RunsSame
    <2>. QED BY <1>1, <1>2, <2>1, <2>2, <2>3
  <1>9. ASSUME NEW t \in StandbyTasks, Standby!Woken(t) PROVE StandbyInv'
    <2>1. UNCHANGED <<p_live, lives, p_cut>>
      BY <1>9 DEF Standby!Woken, Standby!lineVars
    <2>. QED BY <1>1, <1>2, <1>9, <2>1, StandbyTakes
  <1>10. ASSUME NEW t \in StandbyTasks, Standby!Gathered(t) \/ Standby!Reaped(t) PROVE StandbyInv'
    <2>1. UNCHANGED <<p_live, lives, p_cut>>
      BY <1>10 DEF Standby!Gathered, Standby!Reaped, Standby!lineVars
    <2>2. StandbyLine' /\ RunTypes' /\ RunInv' /\ UNCHANGED <<p_clients, p_ended>>
      BY <1>10, GatheredKeeps
    <2>. QED BY <1>1, <1>2, <2>1, <2>2
  <1>11. ASSUME NEW r \in Standby!Runs, Standby!RunSteps(r) PROVE StandbyInv'
    <2>1. UNCHANGED <<p_live, lives, p_cut>>
      BY <1>11 DEF Standby!RunSteps, Standby!Begins, Standby!AudioIn, Standby!Broken, Standby!DecoderAwaited,
                   Standby!EncoderAwaited, Standby!Finishes, Standby!Unfinished, Standby!lineVars
    <2>. QED BY <1>1, <1>2, <1>11, <2>1, RunStepKeeps
  <1>12. ASSUME NEW r \in Standby!Runs,
                \/ Standby!Tick(r) \/ Standby!Attached(r) \/ Standby!StreamEnds(r) \/ Standby!DecoderLeaves(r)
                \/ Standby!EncoderExits(r) \/ Standby!PumpEnds(r)
         PROVE  StandbyInv'
    <2>1. UNCHANGED <<p_live, lives, p_cut>>
      BY <1>12 DEF Standby!Tick, Standby!Attached, Standby!StreamEnds, Standby!DecoderLeaves, Standby!EncoderExits,
                   Standby!PumpEnds, Standby!lineVars
    <2>2. StandbyLine' /\ RunTypes' /\ RunInv' /\ UNCHANGED <<p_clients, p_ended>>
      BY <1>12, ProcessKeeps
    <2>. QED BY <1>1, <1>2, <2>1, <2>2
  <1>. QED BY <1>3, <1>4, <1>5, <1>6, <1>7, <1>8, <1>9, <1>10, <1>11, <1>12 DEF Standby!Next, StandbyTasks

LEMMA StandbyStill ==
    ASSUME StandbyInv, UNCHANGED standby
    PROVE  StandbyInv'
  <1>1. /\ UNCHANGED <<p_lock, p_at, task, stopping, run, hit, byCancel, encoder, p_pumping, decoder>>
        /\ UNCHANGED <<p_clients, p_ended, p_live, lives, p_cut>>
        /\ StandbyLine /\ RunTypes /\ WatcherTypes /\ RunInv
    BY DEF standby, StandbyInv
  <1>2. StandbyLine' /\ There' = There
    BY <1>1, StandbyRests
  <1>3. RunTypes' /\ RunInv'
    BY <1>1, <1>2, RunsSame
  <1>4. WatcherTypes'
    BY <1>1 DEF WatcherTypes
  <1>. QED BY <1>2, <1>3, <1>4 DEF StandbyInv

-----------------------------------------------------------------------------
(* AvPassive: what is checked of it.                                        *)

LEMMA StandbyTyped == StandbyInv => Standby!TypeOK
  <1>. SUFFICES ASSUME StandbyInv PROVE Standby!TypeOK
    OBVIOUS
  <1>1. p_lock \in Seq(StandbyTasks) /\ DOMAIN p_lock = 1 .. Len(p_lock)
        /\ \A i \in 1 .. Len(p_lock) : p_lock[i] \in StandbyTasks
    BY LenProperties DEF StandbyInv, StandbyLine, Line
  <1>2. \A i \in DOMAIN p_lock : p_lock[i] \in StandbyTasks /\ \A j \in DOMAIN p_lock : p_lock[i] = p_lock[j] => i = j
    BY <1>1 DEF StandbyInv, StandbyLine, Line
  <1>3. p_at \in [StandbyTasks -> {"out", "sub", "encoder", "on", "unsub", "stop", "gather", "reap", "done"}]
    <2>1. \A t \in StandbyTasks :
              StandbyStages(t) \subseteq {"out", "sub", "encoder", "on", "unsub", "stop", "gather", "reap", "done"}
      BY DEF StandbyStages
    <2>. QED BY <2>1 DEF StandbyInv, StandbyLine
  <1>. QED BY <1>2, <1>3 DEF Standby!TypeOK, StandbyTasks, StandbyInv, RunTypes, WatcherTypes

LEMMA StandbyLeftNone == StandbyInv => Standby!EncoderOwned /\ Standby!OneEncoder
  BY DEF Standby!EncoderOwned, Standby!OneEncoder, StandbyInv, RunInv

-----------------------------------------------------------------------------
(* The services together.                                                   *)

StreamsInv == LiveInv /\ StandbyInv

LEMMA StreamsInit == Init => StreamsInv
  BY LiveInit, StandbyInit DEF Init, StreamsInv
LEMMA StreamsStep == StreamsInv /\ [Next]_vars => StreamsInv' /\ Live!KeepsServing
  <1>. SUFFICES ASSUME StreamsInv, [Next]_vars PROVE StreamsInv' /\ Live!KeepsServing
    OBVIOUS
  <1>0. LiveInv /\ StandbyInv
    BY DEF StreamsInv
  <1>1. CASE Live!Next /\ UNCHANGED standby
    BY <1>0, <1>1, LiveStep, StandbyStill DEF StreamsInv
  <1>2. CASE Standby!Next /\ UNCHANGED onCall
    BY <1>0, <1>2, LiveStill, StandbyStep DEF StreamsInv
  <1>3. CASE UNCHANGED vars
    <2>1. UNCHANGED onCall /\ UNCHANGED standby
      BY <1>3 DEF vars
    <2>. QED BY <1>0, <2>1, LiveStill, StandbyStill DEF StreamsInv
  <1>. QED BY <1>1, <1>2, <1>3 DEF Next
LEMMA StreamsAlways == Spec => []StreamsInv
  BY StreamsInit, StreamsStep, PTL DEF Spec

\* The state of both services has its type; in particular a task is in the queue of a lock at
\* most once (asyncio.Lock, _av_lock and _lock).
THEOREM StreamsTyped == Spec => []TypeOK
  <1>1. StreamsInv => TypeOK
    BY LiveTyped, StandbyTyped DEF StreamsInv, TypeOK
  <1>. QED BY <1>1, StreamsAlways, PTL

\* Whatever is cancelled, and wherever, no start of ffmpeg finds its ports taken by a process that
\* is still dying, no ffmpeg runs that nobody watches and nobody will stop, RTP is never sent while
\* one is being started, nor read by one that is being stopped, and an encoder of the standby is fed alone and killed by whoever stops it
\* (_start_av_ffmpeg, _stop_av_ffmpeg_locked, _reap_task, _stop_when_idle; _run, _stop_task).
THEOREM NothingLeftRunning == Spec => []NoneLeftRunning
  <1>1. StreamsInv => NoneLeftRunning
    BY LiveLeftNone, StandbyLeftNone DEF StreamsInv, NoneLeftRunning
  <1>. QED BY <1>1, StreamsAlways, PTL

\* No step detaches a client whose ffmpeg runs, unless it is too slow, and none but the end of the
\* call takes ffmpeg away from clients (av_subscribe, av_unsubscribe, _stop_when_idle, _av_pump_run).
THEOREM StreamsServed == Spec => Served
  BY StreamsAlways, StreamsStep, PTL DEF Spec, Served

=============================================================================
