--------------------------- MODULE TerminalProofs ---------------------------
(***************************************************************************)
(* What moves through the terminal, for all sizes: the ring buffer         *)
(* implements LossyQueue (RingCalls), the ring of events and its pool keep *)
(* their order, and every character of a line gets into the ring once      *)
(* (TtyInput).                                                             *)
(***************************************************************************)
EXTENDS RingCalls, TtyInput, TLAPS

\* The number of values between two positions, and where the i-th of them is,
\* without remainders.
Between(read, write, n) ==
    LET from == FromOne(read)
    IN  IF read = write THEN 0 ELSE IF write = from THEN n
        ELSE IF write > from THEN write - from ELSE write - from + n
Slot(from, i, n) == IF from + i - 1 <= n THEN from + i - 1 ELSE from + i - 1 - n

-----------------------------------------------------------------------------
\* Remainders of numbers that are less than one modulus away from 0 .. m - 1.
LEMMA NearMod ==
    ASSUME NEW m \in Nat \ {0}, NEW a \in Int
    PROVE  /\ 0 <= a /\ a < m => a % m = a
           /\ m <= a /\ a < 2 * m => a % m = a - m
           /\ -m <= a /\ a < 0 => a % m = a + m
  OBVIOUS

\* Different values are in different slots, and moving on by a slot moves each
\* value up by one.
LEMMA SlotFacts ==
    ASSUME NEW n \in Nat \ {0}, NEW from \in 1 .. n, NEW i \in 1 .. n
    PROVE  /\ Slot(from, i, n) \in 1 .. n /\ Slot(from, 1, n) = from
           /\ \A j \in 1 .. n : i # j => Slot(from, i, n) # Slot(from, j, n)
           /\ Slot(IF from = n THEN 1 ELSE from + 1, i, n) = Slot(from, i + 1, n)
  BY DEF Slot

\* The number of values before and after a write.
LEMMA AfterWrite ==
    ASSUME NEW n \in Nat \ {0}, NEW read \in 0 .. n, NEW write \in 0 .. n, write = 0 => read = 0
    PROVE  LET w == FromOne(write)
               old == Between(read, write, n)
               new == Between(read, IF w = n THEN 1 ELSE w + 1, n)
           IN  \/ new = old + 1 /\ old < n /\ w = Slot(FromOne(read), old + 1, n)
               \/ old >= n - 1 /\ new = 0
               \/ old = n /\ new = 1 /\ w = FromOne(read)
  <1>1. CASE read = write
    BY <1>1 DEF FromOne, Between, Slot
  <1>2. CASE read # write /\ read = 0
    BY <1>2 DEF FromOne, Between, Slot
  <1>3. CASE read # write /\ read # 0
    BY <1>3 DEF FromOne, Between, Slot
  <1> QED
    BY <1>1, <1>2, <1>3

\* A sequence that is one longer than another and begins with it.
LEMMA AppendIs ==
    ASSUME NEW S, NEW s \in Seq(S), NEW u \in Seq(S), Len(u) = Len(s) + 1,
           \A i \in 1 .. Len(s) : u[i] = s[i]
    PROVE  u = Append(s, u[Len(u)])
  <1>1. u[Len(u)] \in S
    OBVIOUS
  <1>2. /\ Append(s, u[Len(u)]) \in Seq(S)
        /\ Len(Append(s, u[Len(u)])) = Len(s) + 1
        /\ \A i \in 1 .. Len(s) : Append(s, u[Len(u)])[i] = s[i]
        /\ Append(s, u[Len(u)])[Len(s) + 1] = u[Len(u)]
    BY <1>1
  <1>3. \A i \in 1 .. Len(u) : u[i] = Append(s, u[Len(u)])[i]
    BY <1>2
  <1> QED
    BY <1>2, <1>3

\* A sequence that is another without its first element.
LEMMA TailIs ==
    ASSUME NEW S, NEW s \in Seq(S), NEW u \in Seq(S), s # <<>>, Len(u) = Len(s) - 1,
           \A i \in 1 .. Len(u) : u[i] = s[i + 1]
    PROVE  u = Tail(s)
  <1>1. Tail(s) \in Seq(S) /\ Len(Tail(s)) = Len(s) - 1 /\ \A i \in 1 .. Len(Tail(s)) : Tail(s)[i] = s[i + 1]
    OBVIOUS
  <1> QED
    BY <1>1

\* Two sequences in one, item by item.
LEMMA JoinIs ==
    ASSUME NEW S, NEW q \in Seq(S), NEW u \in Seq(S)
    PROVE  /\ q \o u \in Seq(S) /\ Len(q \o u) = Len(q) + Len(u)
           /\ \A i \in 1 .. Len(q) + Len(u) :
                 (q \o u)[i] = IF i <= Len(q) THEN q[i] ELSE u[i - Len(q)]
    OBVIOUS

\* Sequences with the same items are equal.
LEMMA EqualIs ==
    ASSUME NEW S, NEW q \in Seq(S), NEW u \in Seq(S), Len(q) = Len(u),
           \A i \in 1..Len(q) : q[i] = u[i]
    PROVE  q = u
    OBVIOUS

-----------------------------------------------------------------------------
\* The abstract queue of a ring, slot by slot.
LEMMA UnreadIs ==
    ASSUME NEW n \in Nat \ {0}, NEW S, NEW x, RingOK(x, n, S)
    PROVE  /\ Between(x.readPos, x.writePos, n) \in 0 .. n
           /\ Unread(x) \in Seq(S) /\ Len(Unread(x)) = Between(x.readPos, x.writePos, n)
           /\ \A i \in 1 .. Len(Unread(x)) : Unread(x)[i] = x.buf[Slot(FromOne(x.readPos), i, n)]
  <1> DEFINE from == FromOne(x.readPos)
             gap == (x.writePos - from) % x.size
             m == IF ~HasValue(x) THEN 0 ELSE IF gap = 0 THEN x.size ELSE gap
             at(i) == 1 + ((from + i - 2) % x.size)
  <1>1. /\ n \in Nat \ {0} /\ x.size = n /\ from \in 1 .. n
        /\ x.readPos \in 0 .. n /\ x.writePos \in 0 .. n
        /\ x.writePos = 0 => x.readPos = 0
        /\ x.buf \in [0 .. n -> S]
    BY DEF RingOK, FromOne
  <1>2. m = Between(x.readPos, x.writePos, n) /\ m \in 0 .. n
    <2>1. CASE x.readPos = x.writePos
      BY <1>1, <2>1 DEF HasValue, Between
    <2>2. CASE x.readPos # x.writePos
      <3>1. x.writePos \in 1 .. n
        BY <1>1, <2>2
      <3>2. gap = IF x.writePos >= from THEN x.writePos - from ELSE x.writePos - from + n
        <4> DEFINE d == x.writePos - from
        <4>1. from \in 1 .. n /\ d \in Int /\ -n <= d /\ d < n
          BY <1>1, <3>1
        <4>2. gap = d % n
          BY <1>1
        <4> HIDE DEF d, gap, from
        <4>3. /\ 0 <= d /\ d < n => d % n = d
              /\ -n <= d /\ d < 0 => d % n = d + n
          BY <4>1, NearMod
        <4>4. gap = IF d >= 0 THEN d ELSE d + n
          BY <4>1, <4>2, <4>3
        <4>5. d = x.writePos - from /\ (d >= 0 <=> x.writePos >= from)
          BY <3>1, <4>1 DEF d
        <4> QED
          BY <4>4, <4>5
      <3> HIDE DEF gap
      <3> QED
        BY <1>1, <2>2, <3>1, <3>2 DEF HasValue, Between
    <2> QED
      BY <2>1, <2>2
  <1>3. ASSUME NEW i \in 1 .. m
        PROVE  at(i) = Slot(from, i, n) /\ at(i) \in 1 .. n
    <2> HIDE DEF from, m
    <2>1. i \in 1 .. n
      BY <1>1, <1>2
    <2> DEFINE a == from + i - 2
    <2>2. a \in Int /\ 0 <= a /\ a < 2 * n
      BY <1>1, <2>1
    <2> HIDE DEF a
    <2>3. a % n = IF a < n THEN a ELSE a - n
      <3>1. n \in Nat \ {0} /\ a \in Int
        BY <1>1, <2>2
      <3>2. /\ 0 <= a /\ a < n => a % n = a
            /\ n <= a /\ a < 2 * n => a % n = a - n
        BY <3>1, NearMod
      <3> HIDE DEF gap, at
      <3>3. CASE a < n
        BY <2>2, <3>2, <3>3
      <3>4. CASE ~(a < n)
        <4>1. n <= a
          BY <3>1, <3>4
        <4> QED
          BY <2>2, <3>2, <3>4, <4>1
      <3> QED
        BY <3>3, <3>4
    <2>4. at(i) = 1 + (a % n)
      BY <1>1 DEF a
    <2> HIDE DEF at
    <2>5. a = from + i - 2
      BY DEF a
    <2>6. n \in Nat \ {0} /\ from \in 1 .. n
      BY <1>1
    <2>7. at(i) = 1 + (IF a < n THEN a ELSE a - n)
      BY <2>3, <2>4
    <2> QED
      BY <2>1, <2>5, <2>6, <2>7 DEF Slot
  <1>4. Unread(x) = [i \in 1 .. m |-> x.buf[at(i)]]
    BY DEF Unread
  <1> HIDE DEF m, at, from
  <1>5. /\ Unread(x) \in Seq(S) /\ Len(Unread(x)) = m
        /\ \A i \in 1 .. m : Unread(x)[i] = x.buf[at(i)]
    <2>1. \A i \in 1 .. m : x.buf[at(i)] \in S
      BY <1>1, <1>3
    <2>2. m \in Nat
      BY <1>1, <1>2
    <2> QED
      BY <1>4, <2>1, <2>2
  <1> QED
    BY <1>2, <1>3, <1>5 DEF from

\* ringbuffer_write appends, or, when there are size - 1 values or more, loses all
\* of them and perhaps the new one.
LEMMA WriteStep ==
    ASSUME NEW n \in Nat \ {0}, NEW S, NEW x, RingOK(x, n, S), NEW v \in S
    PROVE  /\ RingOK(RingbufferWrite(x, v), n, S)
           /\ \/ Unread(RingbufferWrite(x, v)) = Append(Unread(x), v)
              \/ /\ Len(Unread(x)) >= n - 1
                 /\ Unread(RingbufferWrite(x, v)) \in {<<v>>, <<>>}
  <1> DEFINE y == RingbufferWrite(x, v)
             w == FromOne(x.writePos)
             from == FromOne(x.readPos)
  <1>1. /\ n \in Nat \ {0} /\ x.size = n /\ w \in 1 .. n /\ from \in 1 .. n
        /\ x.readPos \in 0 .. n /\ x.writePos \in 0 .. n
        /\ x.writePos = 0 => x.readPos = 0
        /\ x.buf \in [0 .. n -> S]
    BY DEF RingOK, FromOne
  <1>2. y = [buf |-> [x.buf EXCEPT ![w] = v], readPos |-> x.readPos,
             writePos |-> IF w + 1 > n THEN 1 ELSE w + 1, size |-> n]
    <2> DEFINE z == [x EXCEPT !.buf[w] = v]
    <2>1. z = [buf |-> [x.buf EXCEPT ![w] = v], readPos |-> x.readPos, writePos |-> x.writePos, size |-> n]
      BY DEF RingOK
    <2>2. y = [z EXCEPT !.writePos = Advance(x, w)]
      BY DEF RingbufferWrite
    <2>3. Advance(x, w) = IF w + 1 > n THEN 1 ELSE w + 1
      BY <1>1 DEF Advance
    <2> HIDE DEF z, w, y
    <2> QED
      BY <2>1, <2>2, <2>3
  <1>3. RingOK(y, n, S)
    <2> HIDE DEF w, y
    <2> QED
      BY <1>1, <1>2 DEF RingOK
  <1> DEFINE q == Unread(x)
             u == Unread(y)
  <1>4. /\ q \in Seq(S) /\ Len(q) = Between(x.readPos, x.writePos, n) /\ Len(q) \in 0 .. n
        /\ \A i \in 1 .. Len(q) : q[i] = x.buf[Slot(from, i, n)]
    BY UnreadIs
  <1>5. /\ u \in Seq(S) /\ Len(u) = Between(y.readPos, y.writePos, n) /\ Len(u) \in 0 .. n
        /\ \A i \in 1 .. Len(u) : u[i] = y.buf[Slot(from, i, n)]
    <2>1. y.readPos = x.readPos
      BY <1>2
    <2> QED
      BY <1>3, <2>1, UnreadIs
  <1>6. /\ y.readPos = x.readPos /\ y.writePos = IF w = n THEN 1 ELSE w + 1
        /\ \A j \in 0 .. n : y.buf[j] = IF j = w THEN v ELSE x.buf[j]
    <2> HIDE DEF w, y
    <2> QED
      BY <1>1, <1>2
  <1> HIDE DEF y, q, u
  <1>7. CASE Len(u) = Len(q) + 1 /\ Len(q) < n /\ w = Slot(from, Len(q) + 1, n)
    <2>1. u[Len(u)] = v
      BY <1>1, <1>4, <1>5, <1>6, <1>7
    <2>2. ASSUME NEW i \in 1 .. Len(q)
          PROVE  u[i] = q[i]
      <3>1. Slot(from, i, n) # w /\ Slot(from, i, n) \in 0 .. n
        <4> HIDE DEF w, from
        <4>1. i \in 1 .. n /\ Len(q) + 1 \in 1 .. n /\ i # Len(q) + 1
          BY <1>1, <1>4, <1>7
        <4>2. from \in 1 .. n /\ w = Slot(from, Len(q) + 1, n)
          BY <1>1, <1>7
        <4>3. Slot(from, i, n) \in 1 .. n /\ \A j \in 1 .. n : i # j => Slot(from, i, n) # Slot(from, j, n)
          BY <4>1, <4>2, SlotFacts
        <4> QED
          BY <4>1, <4>2, <4>3
      <3> QED
        BY <1>4, <1>5, <1>6, <1>7, <3>1
    <2>3. u = Append(q, v)
      BY <1>4, <1>5, <1>7, <2>1, <2>2, AppendIs
    <2> QED
      BY <1>3, <2>3 DEF q, u, y
  <1>8. CASE Len(q) >= n - 1 /\ Len(u) = 0
    <2>1. u = <<>>
      BY <1>5, <1>8
    <2> QED
      BY <1>3, <1>8, <2>1 DEF q, u, y
  <1>9. CASE Len(q) = n /\ Len(u) = 1 /\ w = from
    <2>1. u[1] = v
      <3>1. u[1] = y.buf[from]
        <4>1. from \in 1 .. n /\ 1 \in 1 .. n
          BY <1>1
        <4>2. Slot(from, 1, n) = from
          BY <4>1, SlotFacts
        <4> QED
          BY <1>5, <1>9, <4>2
      <3> QED
        BY <1>1, <1>6, <1>9, <3>1
    <2>2. u = <<v>>
      BY <1>5, <1>9, <2>1
    <2> QED
      BY <1>1, <1>3, <1>9, <2>2 DEF q, u, y
  <1>10. \/ Len(u) = Len(q) + 1 /\ Len(q) < n /\ w = Slot(from, Len(q) + 1, n)
         \/ Len(q) >= n - 1 /\ Len(u) = 0
         \/ Len(q) = n /\ Len(u) = 1 /\ w = from
    BY <1>1, <1>4, <1>5, <1>6, AfterWrite
  <1> QED
    BY <1>7, <1>8, <1>9, <1>10

\* ringbuffer_read takes the first value.
LEMMA ReadStep ==
    ASSUME NEW n \in Nat \ {0}, NEW S, NEW x, RingOK(x, n, S)
    PROVE  /\ HasValue(x) <=> Unread(x) # <<>>
           /\ HasValue(x) => /\ RingOK(RingbufferRead(x), n, S)
                             /\ NextValue(x) = Head(Unread(x))
                             /\ Unread(RingbufferRead(x)) = Tail(Unread(x))
  <1> DEFINE y == RingbufferRead(x)
             from == FromOne(x.readPos)
             q == Unread(x)
             u == Unread(y)
  <1>1. /\ n \in Nat \ {0} /\ x.size = n /\ from \in 1 .. n
        /\ x.readPos \in 0 .. n /\ x.writePos \in 0 .. n
        /\ x.writePos = 0 => x.readPos = 0
    BY DEF RingOK, FromOne
  <1>2. /\ q \in Seq(S) /\ Len(q) = Between(x.readPos, x.writePos, n) /\ Len(q) \in 0 .. n
        /\ \A i \in 1 .. Len(q) : q[i] = x.buf[Slot(from, i, n)]
    BY UnreadIs
  <1> HIDE DEF q
  <1>3. HasValue(x) <=> Len(q) > 0
    BY <1>1, <1>2 DEF HasValue, Between, FromOne
  <1>4. HasValue(x) <=> q # <<>>
    BY <1>2, <1>3
  <1>5. ASSUME HasValue(x)
        PROVE  RingOK(y, n, S) /\ NextValue(x) = Head(q) /\ u = Tail(q)
    <2>1. y = [buf |-> x.buf, readPos |-> IF from + 1 > n THEN 1 ELSE from + 1,
               writePos |-> x.writePos, size |-> n]
      BY <1>1 DEF RingbufferRead, Advance, RingOK
    <2>2. x.writePos # 0
      BY <1>1, <1>5 DEF HasValue
    <2>3. RingOK(y, n, S)
      <3> HIDE DEF from, y
      <3> QED
        BY <1>1, <2>1, <2>2 DEF RingOK
    <2>4. /\ u \in Seq(S) /\ Len(u) = Between(y.readPos, y.writePos, n) /\ Len(u) \in 0 .. n
          /\ \A i \in 1 .. Len(u) : u[i] = y.buf[Slot(FromOne(y.readPos), i, n)]
      BY <2>3, UnreadIs
    <2>5. /\ y.buf = x.buf /\ y.readPos = (IF from = n THEN 1 ELSE from + 1) /\ y.writePos = x.writePos
          /\ FromOne(y.readPos) = y.readPos
      <3> HIDE DEF from, y
      <3> QED
        BY <1>1, <2>1 DEF FromOne
    <2> HIDE DEF u, y
    <2>6. NextValue(x) = Head(q)
      <3>1. Slot(from, 1, n) = from
        BY <1>1 DEF Slot
      <3> QED
        BY <1>2, <1>3, <1>5, <3>1 DEF NextValue
    <2>7. Len(u) = Len(q) - 1
      <3>1. Len(q) = IF x.writePos = from THEN n
                     ELSE IF x.writePos > from THEN x.writePos - from
                     ELSE x.writePos - from + n
        BY <1>2, <1>5 DEF Between, HasValue
      <3>2. Len(u) = IF y.readPos = x.writePos THEN 0
                     ELSE IF x.writePos > y.readPos THEN x.writePos - y.readPos
                     ELSE x.writePos - y.readPos + n
        BY <2>4, <2>5 DEF Between
      <3>3. from \in 1 .. n /\ x.writePos \in 1 .. n /\ n \in Nat \ {0}
        BY <1>1, <2>2
      <3> HIDE DEF from
      <3> QED
        BY <2>5, <3>1, <3>2, <3>3
    <2>8. ASSUME NEW i \in 1 .. Len(u)
          PROVE  u[i] = q[i + 1]
      <3>1. Slot(y.readPos, i, n) = Slot(from, i + 1, n)
        <4> HIDE DEF from
        <4>1. i \in 1 .. n /\ i + 1 \in 1 .. n
          BY <1>1, <1>2, <2>7
        <4> QED
          BY <1>1, <2>5, <4>1, SlotFacts
      <3> QED
        BY <1>2, <2>4, <2>5, <2>7, <3>1
    <2>9. u = Tail(q)
      BY <1>2, <1>4, <1>5, <2>4, <2>7, <2>8, TailIs
    <2> QED
      BY <2>3, <2>6, <2>9
  <1> QED
    BY <1>4, <1>5 DEF q, u, y

-----------------------------------------------------------------------------
Slots == Value \cup {None}

\* For every size: reads and writes of the ring in any order are reads and
\* writes of a queue that loses values only when it holds size - 1 or more.
THEOREM RingImplementsQueue == RingSpec => ImplementsQueue
  <1>1. RingInit => RingOK(r, Size, Slots) /\ Queue!Init
    <2> SUFFICES ASSUME RingInit PROVE RingOK(r, Size, Slots) /\ Queue!Init
      OBVIOUS
    <2>1. RingOK(r, Size, Slots) /\ r.readPos = 0 /\ r.writePos = 0
      BY SizeAssumption DEF RingInit, RingbufferNew, RingOK, Slots
    <2>2. Unread(r) = <<>>
      BY <2>1, SizeAssumption, ReadStep DEF HasValue
    <2> QED
      BY <2>1, <2>2 DEF RingInit, Queue!Init
  <1>2. RingOK(r, Size, Slots) /\ [RingNext]_ringVars
          => RingOK(r, Size, Slots)' /\ [Queue!Next]_<<Unread(r), out>>
    <2> SUFFICES ASSUME RingOK(r, Size, Slots), [RingNext]_ringVars
                 PROVE  RingOK(r', Size, Slots) /\ [Queue!Next]_<<Unread(r), out>>
      OBVIOUS
    <2>1. ASSUME NEW v \in Value, Write(v)
          PROVE  RingOK(r', Size, Slots) /\ Queue!Next
      <3>1. Size \in Nat \ {0} /\ v \in Slots /\ r' = RingbufferWrite(r, v) /\ out' = out
        BY <2>1, SizeAssumption DEF Write, Slots
      <3>2. /\ RingOK(RingbufferWrite(r, v), Size, Slots)
            /\ \/ Unread(RingbufferWrite(r, v)) = Append(Unread(r), v)
               \/ /\ Len(Unread(r)) >= Size - 1
                  /\ Unread(RingbufferWrite(r, v)) \in {<<v>>, <<>>}
        BY <3>1, WriteStep
      <3>3. Queue!Write(v)
        BY <3>1, <3>2 DEF Queue!Write
      <3> QED
        BY <3>1, <3>2, <3>3 DEF Queue!Next
    <2>2. CASE Read
      <3>1. RingOK(r', Size, Slots) /\ Queue!Read
        BY <2>2, SizeAssumption, ReadStep DEF Read, Queue!Read
      <3> QED
        BY <3>1 DEF Queue!Next
    <2>3. CASE UNCHANGED ringVars
      BY <2>3 DEF ringVars, Unread, HasValue, FromOne
    <2> QED
      BY <2>1, <2>2, <2>3 DEF RingNext
  <1> QED
    BY <1>1, <1>2, PTL DEF RingSpec, ImplementsQueue, Queue!Spec

-----------------------------------------------------------------------------
(* Events *)

\* Numbers less than one modulus apart have different remainders.
LEMMA ModApart ==
    ASSUME NEW m \in Nat \ {0}, NEW a \in Nat, NEW b \in Nat, a < b, b - a < m
    PROVE  a % m # b % m
<1> DEFINE qa == a \div m
           qb == b \div m
<1>1. qa \in Int /\ qb \in Int /\ a = m * qa + (a % m) /\ b = m * qb + (b % m)
    OBVIOUS
<1> HIDE DEF qa, qb
<1>2. a % m \in Int /\ b % m \in Int
    OBVIOUS
<1>3. SUFFICES ASSUME a % m = b % m PROVE FALSE
    OBVIOUS
<1>4. m * qb - m * qa = b - a
    BY <1>1, <1>2, <1>3
<1>5. m * (qb - qa) = b - a
    BY <1>1, <1>4
<1> DEFINE d == qb - qa
<1>6. d \in Int /\ m * d = b - a
    BY <1>1, <1>5
<1> HIDE DEF d
<1>7. CASE d <= 0
    <2>1. m * d <= 0
        BY <1>6, <1>7
    <2> QED  BY <1>6, <2>1
<1>8. CASE d >= 1
    <2>1. m * d >= m
        BY <1>6, <1>8
    <2> QED  BY <1>6, <2>1
<1> QED  BY <1>6, <1>7, <1>8

\* keyboard_write_event: the event is the last in the ring, or the ring has overrun.
LEMMA EventWritten ==
    ASSUME EventsOK(kb), kb.next < MaxKeys
    PROVE  EventsOK(WriteEvent) /\ WriteEvent.next = kb.next + 1 /\ WriteEvent.seen = kb.seen
<1> DEFINE n == kb.next
           slot == n % EventSize
           u == Unread(kb.ring)
           b == WriteEvent
           v == Unread(b.ring)
           first == n - Len(u)
           S == 0 .. EventSize - 1
<1>1. /\ kb = [ring |-> kb.ring, pool |-> kb.pool, next |-> kb.next, seen |-> kb.seen]
      /\ RingOK(kb.ring, EventSize, S) /\ kb.pool \in [S -> Nat]
      /\ n \in Nat /\ n < MaxKeys /\ kb.seen \in Int /\ first >= 0 /\ kb.seen < first
      /\ \A i \in 1..Len(u) : u[i] = (first + i - 1) % EventSize /\ kb.pool[u[i]] = first + i - 1
    BY DEF EventsOK
<1>2. EventSize \in Nat \ {0} /\ MaxKeys \in Nat
    BY InputAssumption
<1>3. slot \in S
    BY <1>1, <1>2
<1>4. /\ b.ring = RingbufferWrite(kb.ring, slot) /\ b.pool = [kb.pool EXCEPT ![slot] = n]
      /\ b.next = n + 1 /\ b.seen = kb.seen
      /\ b = [ring |-> b.ring, pool |-> b.pool, next |-> b.next, seen |-> b.seen]
    <2> DEFINE w == RingbufferWrite(kb.ring, slot)
    <2>1. b = [kb EXCEPT !.pool[slot] = n, !.ring = w, !.next = n + 1]
        BY <1>1 DEF WriteEvent
    <2> HIDE DEF w, slot, b
    <2>2. b = [ring |-> w, pool |-> [kb.pool EXCEPT ![slot] = n], next |-> n + 1,
               seen |-> kb.seen]
        BY <1>1, <2>1
    <2> QED  BY <2>2 DEF w
<1> HIDE DEF slot, b
<1>5. /\ RingOK(b.ring, EventSize, S)
      /\ v = Append(u, slot) \/ v \in {<<slot>>, <<>>}
    BY <1>1, <1>2, <1>3, <1>4, WriteStep
<1>6. /\ u \in Seq(S) /\ v \in Seq(S) /\ Len(u) \in Nat /\ Len(v) \in 0 .. EventSize
    <2>1. u \in Seq(S)
        BY <1>1, <1>2, UnreadIs
    <2>2. v \in Seq(S) /\ Len(v) \in 0 .. EventSize
        BY <1>2, <1>5, UnreadIs
    <2> QED  BY <2>1, <2>2
<1>7. b.pool \in [S -> Nat] /\ b.pool[slot] = n /\ \A i \in S \ {slot} : b.pool[i] = kb.pool[i]
    BY <1>1, <1>3, <1>4
<1> HIDE DEF u, v
<1>8. /\ (n + 1) - Len(v) >= 0 /\ kb.seen < (n + 1) - Len(v)
      /\ \A i \in 1..Len(v) : /\ v[i] = ((n + 1) - Len(v) + i - 1) % EventSize
                              /\ b.pool[v[i]] = (n + 1) - Len(v) + i - 1
    <2>1. CASE v = Append(u, slot)
        <3>1. Len(v) = Len(u) + 1 /\ (n + 1) - Len(v) = first
            BY <1>1, <1>6, <2>1
        <3>2. Len(u) < EventSize
            BY <1>2, <1>6, <3>1
        <3>3. ASSUME NEW i \in 1..Len(u)
              PROVE  v[i] = (first + i - 1) % EventSize /\ b.pool[v[i]] = first + i - 1
            <4>1. v[i] = u[i] /\ u[i] = (first + i - 1) % EventSize /\ u[i] \in S
                  /\ kb.pool[u[i]] = first + i - 1
                <5> HIDE DEF first, S
                <5>1. v[i] = u[i] /\ u[i] \in S
                    BY <1>6, <2>1
                <5> QED  BY <1>1, <5>1
            <4>2. first + i - 1 \in Nat /\ first + i - 1 < n /\ n - (first + i - 1) < EventSize
                <5>1. /\ n \in Nat /\ first >= 0 /\ first = n - Len(u) /\ Len(u) \in Nat
                      /\ EventSize \in Nat
                    BY <1>1, <1>2, <1>6
                <5> HIDE DEF first, n
                <5> QED  BY <3>2, <5>1
            <4>3. u[i] # slot
                BY <1>1, <1>2, <4>1, <4>2, ModApart DEF slot
            <4> QED  BY <1>7, <4>1, <4>3
        <3>4. v[Len(v)] = slot /\ first + Len(v) - 1 = n
            BY <1>1, <1>6, <2>1, <3>1
        <3>5. ASSUME NEW i \in 1..Len(v)
              PROVE  v[i] = (first + i - 1) % EventSize /\ b.pool[v[i]] = first + i - 1
            <4>1. CASE i = Len(v)
                BY <1>7, <3>4, <4>1 DEF slot
            <4>2. CASE i # Len(v)
                <5>1. i \in 1..Len(u)
                    BY <1>6, <3>1, <4>2
                <5> QED  BY <3>3, <5>1
            <4> QED  BY <4>1, <4>2
        <3> QED  BY <1>1, <3>1, <3>5
    <2>2. CASE v = <<slot>>
        <3>1. Len(v) = 1 /\ v[1] = slot /\ (n + 1) - 1 = n /\ n + 1 - 1 = n
            BY <1>1, <2>2
        <3>2. \A i \in 1..1 : i = 1
            OBVIOUS
        <3>3. kb.seen < n
            BY <1>1, <1>6
        <3> QED  BY <1>1, <1>7, <3>1, <3>2, <3>3 DEF slot
    <2>3. CASE v = <<>>
        <3>1. Len(v) = 0 /\ kb.seen < n + 1
            BY <1>1, <1>6, <2>3
        <3> QED  BY <1>1, <3>1
    <2> QED  BY <1>5, <2>1, <2>2, <2>3
<1>9. b.next \in 0..MaxKeys
    BY <1>1, <1>2, <1>4
<1> QED  BY <1>1, <1>4, <1>5, <1>7, <1>8, <1>9 DEF EventsOK, b, v

\* keyboard_read_event: the first event of the ring is newer than the last one read.
LEMMA EventTaken ==
    ASSUME EventsOK(kb), HasValue(kb.ring), TakeEvent
    PROVE  EventsOK(kb') /\ kb'.next = kb.next /\ kb'.seen > kb.seen
<1> DEFINE n == kb.next
           u == Unread(kb.ring)
           v == Unread(kb'.ring)
           first == n - Len(u)
           S == 0 .. EventSize - 1
<1>1. /\ kb = [ring |-> kb.ring, pool |-> kb.pool, next |-> kb.next, seen |-> kb.seen]
      /\ RingOK(kb.ring, EventSize, S) /\ kb.pool \in [S -> Nat]
      /\ n \in 0..MaxKeys /\ n \in Nat /\ kb.seen \in Int /\ first >= 0 /\ kb.seen < first
      /\ \A i \in 1..Len(u) : u[i] = (first + i - 1) % EventSize /\ kb.pool[u[i]] = first + i - 1
    BY DEF EventsOK
<1>2. EventSize \in Nat \ {0}
    BY InputAssumption
<1>3. /\ kb'.ring = RingbufferRead(kb.ring) /\ kb'.seen = kb.pool[NextValue(kb.ring)]
      /\ kb'.pool = kb.pool /\ kb'.next = n
      /\ kb' = [ring |-> kb'.ring, pool |-> kb'.pool, next |-> kb'.next, seen |-> kb'.seen]
    BY <1>1 DEF TakeEvent
<1>4. /\ RingOK(kb'.ring, EventSize, S) /\ u # <<>>
      /\ NextValue(kb.ring) = Head(u) /\ v = Tail(u)
    <2>1. /\ Unread(kb.ring) # <<>> /\ NextValue(kb.ring) = Head(Unread(kb.ring))
          /\ RingOK(RingbufferRead(kb.ring), EventSize, S)
          /\ Unread(RingbufferRead(kb.ring)) = Tail(Unread(kb.ring))
        BY <1>1, <1>2, ReadStep
    <2> QED  BY <1>3, <2>1
<1>5. u \in Seq(S)
    BY <1>1, <1>2, UnreadIs
<1> HIDE DEF u, v
<1>6. /\ Len(u) \in Nat \ {0} /\ Head(u) = u[1] /\ Len(v) = Len(u) - 1
      /\ \A i \in 1..Len(v) : v[i] = u[i + 1]
    BY <1>4, <1>5
<1>7. kb'.seen = first
    BY <1>1, <1>3, <1>4, <1>6
<1>8. n - Len(v) = first + 1 /\ first \in Nat
    BY <1>1, <1>6
<1>9. ASSUME NEW i \in 1..Len(v)
      PROVE  v[i] = (first + 1 + i - 1) % EventSize /\ kb.pool[v[i]] = first + 1 + i - 1
    <2> HIDE DEF first
    <2>1. i + 1 \in 1..Len(u) /\ v[i] = u[i + 1]
        BY <1>6
    <2>2. first + (i + 1) - 1 = first + 1 + i - 1
        BY <1>6, <1>8
    <2> QED  BY <1>1, <2>1, <2>2
<1>10. first < first + 1
    BY <1>8
<1> QED  BY <1>1, <1>3, <1>4, <1>7, <1>8, <1>9, <1>10 DEF EventsOK, v

-----------------------------------------------------------------------------
(* Characters *)

\* The first character of the rest of a line is moved to the end of the ring.
LEMMA MoveOne ==
    ASSUME NEW S, NEW u \in Seq(S), NEW l \in Seq(S), NEW i \in 1..Len(l)
    PROVE  /\ Append(u, l[i]) \o SubSeq(l, i + 1, Len(l)) = u \o SubSeq(l, i, Len(l))
           /\ Len(u \o SubSeq(l, i, Len(l))) = Len(u) + (Len(l) - i + 1)
<1> DEFINE a == SubSeq(l, i, Len(l))
           b == SubSeq(l, i + 1, Len(l))
           v == Append(u, l[i])
<1>1. /\ a \in Seq(S) /\ Len(a) = Len(l) - i + 1 /\ \A j \in 1..Len(a) : a[j] = l[i + j - 1]
    OBVIOUS
<1>2. /\ b \in Seq(S) /\ Len(b) = Len(l) - i /\ \A j \in 1..Len(b) : b[j] = l[i + j]
    <2>1. i + 1 \in 1 .. Len(l) + 1 /\ Len(l) \in Nat
        OBVIOUS
    <2>2. /\ b \in Seq(S) /\ Len(b) = (IF i + 1 <= Len(l) THEN Len(l) - (i + 1) + 1 ELSE 0)
          /\ \A j \in 1..Len(b) : b[j] = l[i + 1 + j - 1]
        BY <2>1
    <2> QED  BY <2>1, <2>2
<1>3. l[i] \in S
    OBVIOUS
<1>4. v \in Seq(S) /\ Len(v) = Len(u) + 1 /\ v[Len(u) + 1] = l[i]
      /\ \A j \in 1..Len(u) : v[j] = u[j]
    BY <1>3
<1> HIDE DEF a, b, v
<1>5. /\ v \o b \in Seq(S) /\ Len(v \o b) = Len(v) + Len(b)
      /\ \A j \in 1 .. Len(v) + Len(b) :
            (v \o b)[j] = IF j <= Len(v) THEN v[j] ELSE b[j - Len(v)]
    BY <1>2, <1>4, JoinIs
<1>6. /\ u \o a \in Seq(S) /\ Len(u \o a) = Len(u) + Len(a)
      /\ \A j \in 1 .. Len(u) + Len(a) :
            (u \o a)[j] = IF j <= Len(u) THEN u[j] ELSE a[j - Len(u)]
    BY <1>1, JoinIs
<1>7. Len(v \o b) = Len(u \o a)
    BY <1>1, <1>2, <1>4, <1>5, <1>6
<1>8. ASSUME NEW j \in 1..Len(v \o b) PROVE (v \o b)[j] = (u \o a)[j]
    <2>1. /\ j \in 1 .. Len(v) + Len(b) /\ j \in 1 .. Len(u) + Len(a)
        BY <1>5, <1>6, <1>7
    <2>2. CASE j <= Len(u)
        BY <1>4, <1>5, <1>6, <2>1, <2>2
    <2>3. CASE j = Len(u) + 1
        <3>1. (v \o b)[j] = l[i]
            BY <1>4, <1>5, <2>1, <2>3
        <3>2. (u \o a)[j] = a[1] /\ 1 \in 1..Len(a)
            BY <1>1, <1>6, <2>1, <2>3
        <3>3. a[1] = l[i]
            BY <1>1, <3>2
        <3> QED  BY <3>1, <3>2, <3>3
    <2>4. CASE j > Len(u) + 1
        <3>1. (v \o b)[j] = b[j - Len(v)] /\ j - Len(v) \in 1..Len(b)
            BY <1>2, <1>4, <1>5, <2>1, <2>4
        <3>2. (u \o a)[j] = a[j - Len(u)] /\ j - Len(u) \in 1..Len(a)
            BY <1>1, <1>6, <2>1, <2>4
        <3>3. b[j - Len(v)] = l[i + (j - Len(v))] /\ a[j - Len(u)] = l[i + (j - Len(u)) - 1]
            BY <1>1, <1>2, <3>1, <3>2
        <3>4. i + (j - Len(v)) = i + (j - Len(u)) - 1
            BY <1>4
        <3> QED  BY <3>1, <3>2, <3>3, <3>4
    <2> QED  BY <2>1, <2>2, <2>3, <2>4
<1>9. v \o b = u \o a
    BY <1>5, <1>6, <1>7, <1>8, EqualIs
<1>10. Len(u \o a) = Len(u) + (Len(l) - i + 1)
    BY <1>1, <1>6
<1> QED  BY <1>9, <1>10 DEF a, b, v

\* There is room in the ring, in numbers.
LEMMA RoomIs == Room \in Nat /\ Room <= InputSize - 1
    BY InputAssumption DEF Room

\* The facts about characters that hold whatever the handler does.
LEMMA TextFacts ==
    ASSUME TextOK(t, h, sent)
    PROVE  /\ t = [locks |-> t.locks, input |-> t.input, line |-> t.line, mode |-> t.mode]
           /\ RingOK(t.input, InputSize, Char \cup {NoChar})
           /\ Unread(t.input) \in Seq(Char \cup {NoChar}) /\ Len(Unread(t.input)) \in Nat
           /\ t.line \in Seq(Char) /\ Len(t.line) \in Nat /\ sent \in Seq(Char)
           /\ Len(sent) \in Nat
           /\ InputSize \in Nat \ {0} /\ LineSize \in Nat \ {0}
           /\ ~Moving(h) => Unread(t.input) = sent
           /\ ~Moving(h) => Len(sent) + Len(t.line) <= Room
           /\ ~Moving(h) => Len(t.line) < LineSize
<1> USE RoomIs
<1>1. InputSize \in Nat \ {0} /\ LineSize \in Nat \ {0}
    BY InputAssumption
<1>2. RingOK(t.input, InputSize, Char \cup {NoChar}) /\ t.line \in Seq(Char)
      /\ sent \in Seq(Char)
    BY DEF TextOK
<1>3. Unread(t.input) \in Seq(Char \cup {NoChar})
    BY <1>1, <1>2, UnreadIs
<1>4. Len(Unread(t.input)) \in Nat /\ Len(t.line) \in Nat /\ Len(sent) \in Nat
    BY <1>2, <1>3
<1>5. ASSUME ~Moving(h) PROVE Unread(t.input) = sent
    <2>1. sent = Unread(t.input) \o <<>>
        BY <1>5 DEF TextOK, Pending
    <2> QED  BY <1>3, <2>1
<1>6. ASSUME ~Moving(h) PROVE Len(sent) + Len(t.line) <= Room
    BY <1>4, <1>6 DEF TextOK, MovingLine
<1>7. ASSUME ~Moving(h) PROVE Len(t.line) < LineSize
    BY <1>7 DEF TextOK, MovingLine
<1> QED  BY <1>1, <1>2, <1>3, <1>4, <1>5, <1>6, <1>7 DEF TextOK

\* The handler goes on or ends without a character to move.
LEMMA TextRest ==
    ASSUME TextOK(t, h, sent), ~Moving(h), NEW x,
           ~Moving(x), x.c \in Char \cup {NoChar}, x.i \in Nat, x.raw \in BOOLEAN,
           x.at = "receive" => x.raw = FALSE /\ Len(sent) + Len(t.line) < Room
    PROVE  TextOK(t, x, sent)
<1> USE RoomIs
<1>1. ~MovingLine(h) /\ ~MovingLine(x) /\ Pending(t, x) = <<>> /\ Pending(t, h) = <<>>
    BY DEF MovingLine, Pending
<1>2. Len(sent) + Len(t.line) <= Room /\ Len(sent) \in Nat /\ Len(t.line) \in Nat
    BY TextFacts
<1>3. Len(sent) + Len(t.line) + (IF x.at = "receive" THEN 1 ELSE 0) <= Room
    <2>1. \A a, b, c \in Nat : (a < c => a + 1 <= c) /\ (a <= c => a + 0 <= c)
        OBVIOUS
    <2>2. Len(sent) + Len(t.line) \in Nat
        BY <1>2
    <2> QED  BY <1>2, <2>1, <2>2
<1> QED  BY <1>1, <1>3 DEF TextOK

\* tty_receive_char in raw mode.
LEMMA TextRaw ==
    ASSUME TextOK(t, h, sent), h.at = "receive", h.c # NoChar,
           NEW x, x.at = "lock", x.raw = TRUE, x.c = h.c, x.i = h.i
    PROVE  TextOK(t, x, Append(sent, h.c))
<1> USE RoomIs
<1> DEFINE u == Unread(t.input)
<1>1. ~Moving(h) /\ Moving(x) /\ ~MovingLine(x) /\ ~MovingLine(h) /\ Pending(t, x) = <<h.c>>
    BY DEF Moving, MovingLine, Pending
<1>2. /\ u = sent /\ sent \in Seq(Char) /\ Len(sent) \in Nat /\ Len(t.line) \in Nat
      /\ Len(t.line) < LineSize
    BY <1>1, TextFacts
<1>3. h.c \in Char /\ h.i \in Nat
    BY DEF TextOK
<1>4. Len(sent) + Len(t.line) + 1 <= Room
    BY <1>1 DEF TextOK
<1> HIDE DEF u
<1>5. Append(sent, h.c) \in Seq(Char) /\ Len(Append(sent, h.c)) = Len(sent) + 1
      /\ Append(sent, h.c) = u \o <<h.c>>
    BY <1>2, <1>3
<1>6. Len(Append(sent, h.c)) + Len(t.line) + 0 <= Room
    <2> HIDE DEF TextOK
    <2>1. \A a, b, c \in Nat : a + b + 1 <= c => (a + 1) + b + 0 <= c
        OBVIOUS
    <2> QED  BY <1>2, <1>4, <1>5, <2>1
<1> QED  BY <1>1, <1>2, <1>3, <1>5, <1>6 DEF TextOK, u

\* The line after the character in it has been edited.
LEMMA EditedLine ==
    ASSUME NEW S, t.line \in Seq(S), h.c \in S, Len(t.line) < LineSize, LineSize \in Nat
    PROVE  /\ Edited \in Seq(S) /\ Len(Edited) \in Nat /\ Len(Edited) <= Len(t.line) + 1
           /\ h.c = "erase" => Len(Edited) <= Len(t.line)
<1>1. Len(t.line) \in Nat
    OBVIOUS
<1>2. CASE h.c = "erase"
    <2>1. Edited = SubSeq(t.line, 1, Len(t.line) - 1)
        BY <1>2 DEF Edited
    <2>2. \A i \in 1 .. Len(t.line) - 1 : t.line[i] \in S
        OBVIOUS
    <2>3. /\ SubSeq(t.line, 1, Len(t.line) - 1) \in Seq(S)
          /\ Len(SubSeq(t.line, 1, Len(t.line) - 1))
                = IF 1 <= Len(t.line) - 1 THEN Len(t.line) - 1 - 1 + 1 ELSE 0
        BY <1>1, <2>2
    <2> QED  BY <1>1, <2>1, <2>3
<1>3. CASE h.c # "erase"
    <2>1. Edited = Append(t.line, h.c)
        BY <1>3 DEF Edited
    <2> QED  BY <1>1, <1>3, <2>1
<1> QED  BY <1>2, <1>3

\* tty_receive_char in canonical mode.
LEMMA TextLine ==
    ASSUME TextOK(t, h, sent), h.at = "receive", h.c # NoChar,
           NEW s, s = [t EXCEPT !.line = Edited],
           NEW x, x.at = IF LineDone THEN "lock" ELSE "eoi", x.raw = h.raw, x.c = h.c, x.i = 1
    PROVE  TextOK(s, x, IF LineDone THEN sent \o Edited ELSE sent)
<1> USE RoomIs
<1> DEFINE u == Unread(t.input)
           l == Edited
<1>1. ~Moving(h) /\ ~MovingLine(h) /\ h.raw = FALSE
    BY DEF Moving, MovingLine, TextOK
<1>2. /\ u = sent /\ sent \in Seq(Char) /\ Len(sent) \in Nat /\ Len(t.line) \in Nat
      /\ t.line \in Seq(Char) /\ Len(t.line) < LineSize /\ LineSize \in Nat
      /\ t = [locks |-> t.locks, input |-> t.input, line |-> t.line, mode |-> t.mode]
    BY <1>1, TextFacts
<1>3. h.c \in Char /\ h.c \in Char \cup {NoChar}
    BY DEF TextOK
<1>4. Len(sent) + Len(t.line) + 1 <= Room
    BY <1>1 DEF TextOK
<1>5. /\ l \in Seq(Char) /\ Len(l) \in Nat /\ Len(l) <= Len(t.line) + 1
      /\ h.c = "erase" => Len(l) <= Len(t.line)
    BY <1>2, <1>3, EditedLine
<1>6. ~LineDone => Len(l) < LineSize
    <2>1. ~LineDone => h.c = "erase" \/ Len(l) # LineSize
        BY DEF LineDone
    <2> HIDE DEF l
    <2> QED  BY <1>2, <1>5, <2>1
<1> HIDE DEF l, u
<1>7. /\ s.line = l /\ s.input = t.input /\ s.mode = t.mode
      /\ s = [locks |-> s.locks, input |-> s.input, line |-> s.line, mode |-> s.mode]
    BY <1>2 DEF l
<1>8. Len(sent) + Len(l) <= Room
    BY <1>2, <1>4, <1>5
<1>9. CASE LineDone
    <2>1. Moving(x) /\ MovingLine(x) /\ x.at = "lock" /\ x.raw = FALSE
        BY <1>1, <1>9 DEF Moving, MovingLine
    <2>2. Pending(s, x) = l
        <3>1. Pending(s, x) = SubSeq(l, 1, Len(l))
            BY <1>7, <2>1 DEF Pending
        <3>2. \A z \in Seq(Char) : SubSeq(z, 1, Len(z)) = z
            OBVIOUS
        <3> QED  BY <1>5, <3>1, <3>2
    <2>3. sent \o l \in Seq(Char) /\ Len(sent \o l) = Len(sent) + Len(l)
        BY <1>2, <1>5
    <2>4. 1 \in 1 .. Len(l) + 1 /\ 1 \in Nat
        BY <1>5
    <2>5. Len(sent \o l) + 0 + 0 <= Room
        BY <1>2, <1>5, <1>8, <2>3
    <2>6. TextOK(s, x, sent \o l)
        BY <1>1, <1>2, <1>3, <1>5, <1>7, <2>1, <2>2, <2>3, <2>4, <2>5 DEF TextOK, u
    <2> QED  BY <1>9, <2>6 DEF l
<1>10. CASE ~LineDone
    <2>1. ~Moving(x) /\ ~MovingLine(x) /\ x.at = "eoi" /\ x.raw = FALSE
        BY <1>1, <1>10 DEF Moving, MovingLine
    <2>2. Pending(s, x) = <<>> /\ u \o <<>> = sent
        BY <1>2, <2>1 DEF Pending
    <2>3. Len(sent) + Len(l) + 0 <= Room
        BY <1>2, <1>5, <1>8
    <2>4. 1 \in Nat /\ x.raw \in BOOLEAN
        BY <2>1
    <2>5. TextOK(s, x, sent)
        BY <1>2, <1>3, <1>5, <1>6, <1>7, <1>10, <2>1, <2>2, <2>3, <2>4 DEF TextOK, u
    <2> QED  BY <1>10, <2>5
<1> QED  BY <1>9, <1>10

\* mutex_lock in ringbuffer_write: the next character is fetched.
LEMMA TextLock ==
    ASSUME TextOK(t, h, sent), h.at = "lock",
           h.raw \/ h.i <= Len(t.line), NEW s, s = [t EXCEPT !.locks = 1],
           NEW x, x.at = "put", x.raw = h.raw, x.i = h.i,
           x.c = IF h.raw THEN h.c ELSE t.line[h.i]
    PROVE  TextOK(s, x, sent)
<1> USE RoomIs
<1>1. Moving(h) /\ Moving(x) /\ (MovingLine(x) <=> ~h.raw) /\ (MovingLine(h) <=> ~h.raw)
    BY DEF Moving, MovingLine
<1>2. /\ t.line \in Seq(Char) /\ h.i \in Nat /\ h.raw \in BOOLEAN /\ h.c \in Char
      /\ t = [locks |-> t.locks, input |-> t.input, line |-> t.line, mode |-> t.mode]
      /\ ~h.raw => h.i \in 1 .. Len(t.line) + 1
    BY <1>1 DEF TextOK
<1>3. /\ s.line = t.line /\ s.input = t.input /\ s.mode = t.mode
      /\ s = [locks |-> s.locks, input |-> s.input, line |-> s.line, mode |-> s.mode]
    BY <1>2
<1>4. x.c \in Char /\ (~h.raw => h.i \in 1..Len(t.line) /\ x.c = t.line[h.i])
    <2>1. CASE h.raw
        BY <1>2, <2>1
    <2>2. CASE ~h.raw
        BY <1>2, <2>2
    <2> QED  BY <2>1, <2>2
<1>5. Pending(s, x) = Pending(t, h)
    BY <1>1, <1>3 DEF Pending
<1>6. ~h.raw => x.i <= Len(s.line) /\ x.c = s.line[x.i]
    BY <1>2, <1>3, <1>4
<1> QED  BY <1>1, <1>2, <1>3, <1>4, <1>5, <1>6 DEF TextOK

\* Append as a concatenation.
LEMMA AppendOne ==
    ASSUME NEW S, NEW u \in Seq(S), NEW v \in S
    PROVE  u \o <<v>> = Append(u, v) /\ Len(Append(u, v)) = Len(u) + 1
    OBVIOUS

\* ringbuffer_write: the character in hand goes into the ring, which has room.
LEMMA TextPut ==
    ASSUME TextOK(t, h, sent), h.at = "put", NEW free, NEW s,
           s = [t EXCEPT !.input = RingbufferWrite(@, h.c), !.locks = free],
           NEW x, x.at = IF h.raw THEN "wake" ELSE "lock", x.raw = h.raw, x.c = h.c,
           x.i = h.i + 1
    PROVE  TextOK(s, x, sent)
<1> USE RoomIs
<1> DEFINE u == Unread(t.input)
           y == RingbufferWrite(t.input, h.c)
<1>1. Moving(h) /\ (MovingLine(h) <=> ~h.raw)
    BY DEF Moving, MovingLine
<1>2. InputSize \in Nat \ {0}
    BY InputAssumption
<1>3. /\ u \in Seq(Char \cup {NoChar}) /\ Len(u) \in Nat /\ t.line \in Seq(Char)
      /\ Len(t.line) \in Nat /\ sent \in Seq(Char) /\ Len(sent) \in Nat
      /\ t = [locks |-> t.locks, input |-> t.input, line |-> t.line, mode |-> t.mode]
      /\ RingOK(t.input, InputSize, Char \cup {NoChar})
    BY <1>2, TextFacts
<1>4. /\ h.c \in Char /\ h.i \in Nat /\ h.raw \in BOOLEAN /\ sent = u \o Pending(t, h)
      /\ h.c \in Char \cup {NoChar} /\ h.i + 1 \in Nat
      /\ ~h.raw => h.i \in 1..Len(t.line) /\ h.c = t.line[h.i]
      /\ ~h.raw => Len(sent) <= Room
      /\ h.raw => /\ Len(sent) + Len(t.line) + 0 <= Room /\ Len(t.line) < LineSize
                  /\ Len(sent) <= Room
    <2>1. /\ h.c \in Char /\ h.i \in Nat /\ h.raw \in BOOLEAN /\ sent = u \o Pending(t, h)
          /\ ~h.raw => h.i \in 1 .. Len(t.line) + 1 /\ h.i <= Len(t.line) /\ h.c = t.line[h.i]
          /\ Len(sent) + (IF ~h.raw THEN 0 ELSE Len(t.line)) + 0 <= Room
          /\ h.raw => Len(t.line) < LineSize
        BY <1>1 DEF TextOK
    <2> HIDE DEF u
    <2>2. ~h.raw => Len(sent) + 0 + 0 <= Room
        BY <2>1
    <2>3. h.raw => Len(sent) + Len(t.line) + 0 <= Room
        BY <2>1
    <2>4. \A a, b, c \in Nat : a + b + 0 <= c => a <= c
        OBVIOUS
    <2>5. ~h.raw \/ h.raw => Len(sent) <= Room
        BY <1>2, <1>3, <2>2, <2>3, <2>4
    <2> QED  BY <1>2, <1>3, <2>1, <2>2, <2>3, <2>5
<1> HIDE DEF u, y
<1>5. /\ s.line = t.line /\ s.input = y /\ s.mode = t.mode
      /\ s = [locks |-> s.locks, input |-> s.input, line |-> s.line, mode |-> s.mode]
    BY <1>3 DEF y
<1>6. /\ RingOK(y, InputSize, Char \cup {NoChar})
      /\ Unread(y) = Append(u, h.c) \/ Len(u) >= InputSize - 1
    BY <1>2, <1>3, <1>4, WriteStep DEF u, y
<1>7. CASE h.raw
    <2>1. ~Moving(x) /\ ~MovingLine(x) /\ x.at = "wake" /\ x.raw \in BOOLEAN
        BY <1>4, <1>7 DEF Moving, MovingLine
    <2>2. sent = Append(u, h.c)
        <3>1. sent = u \o <<h.c>>
            BY <1>1, <1>4, <1>7 DEF Pending
        <3> QED  BY <1>3, <1>4, <3>1, AppendOne
    <2>3. Len(sent) = Len(u) + 1
        BY <1>3, <1>4, <2>2, AppendOne
    <2>4. Unread(y) = sent
        BY <1>2, <1>3, <1>4, <1>6, <1>7, <2>2, <2>3
    <2>5. Pending(s, x) = <<>> /\ sent = Unread(y) \o <<>>
        BY <1>3, <2>1, <2>4 DEF Pending
    <2>6. Len(sent) + Len(t.line) + 0 <= Room
        BY <1>4, <1>7
    <2> QED  BY <1>3, <1>4, <1>5, <1>6, <1>7, <2>1, <2>5, <2>6 DEF TextOK
<1>8. CASE ~h.raw
    <2>1. Moving(x) /\ MovingLine(x) /\ x.at = "lock" /\ x.raw = FALSE /\ h.raw = FALSE
        BY <1>4, <1>8 DEF Moving, MovingLine
    <2>2. /\ h.i \in 1..Len(t.line) /\ h.c = t.line[h.i] /\ Len(sent) <= Room
          /\ sent = u \o SubSeq(t.line, h.i, Len(t.line))
        BY <1>1, <1>4, <1>8 DEF Pending
    <2>3. /\ sent = Append(u, h.c) \o SubSeq(t.line, h.i + 1, Len(t.line))
          /\ Len(sent) = Len(u) + (Len(t.line) - h.i + 1)
        <3> DEFINE l == t.line
                   i == h.i
        <3>1. l \in Seq(Char \cup {NoChar}) /\ i \in 1..Len(l)
            BY <1>3, <2>2
        <3> HIDE DEF l, i
        <3>2. /\ Append(u, l[i]) \o SubSeq(l, i + 1, Len(l)) = u \o SubSeq(l, i, Len(l))
              /\ Len(u \o SubSeq(l, i, Len(l))) = Len(u) + (Len(l) - i + 1)
            BY <1>3, <3>1, MoveOne
        <3> QED  BY <2>2, <3>2 DEF l, i
    <2>4. Unread(y) = Append(u, h.c)
        <3>1. \A a, b, i, c, d \in Nat : i <= b /\ a + (b - i + 1) <= c /\ c <= d - 1
                 => ~(a >= d - 1)
            OBVIOUS
        <3>2. Len(u) + (Len(t.line) - h.i + 1) <= Room /\ h.i <= Len(t.line) /\ h.i \in Nat
            BY <1>3, <2>2, <2>3
        <3>3. ~(Len(u) >= InputSize - 1)
            BY <1>2, <1>3, <3>1, <3>2
        <3> QED  BY <1>6, <3>3
    <2>5. sent = Unread(y) \o Pending(s, x)
        <3>1. Pending(s, x) = SubSeq(t.line, h.i + 1, Len(t.line))
            BY <1>5, <2>1 DEF Pending
        <3> QED  BY <2>3, <2>4, <3>1
    <2>6. Len(sent) + 0 + 0 <= Room
        <3>1. \A a, c \in Nat : a <= c => a + 0 + 0 <= c
            OBVIOUS
        <3> QED  BY <1>2, <1>3, <2>2, <3>1
    <2>7. h.i + 1 \in 1 .. Len(t.line) + 1
        <3>1. \A n \in Nat : \A i \in 1..n : i + 1 \in 1 .. n + 1
            OBVIOUS
        <3> QED  BY <1>3, <2>2, <3>1
    <2> QED  BY <1>3, <1>4, <1>5, <1>6, <2>1, <2>5, <2>6, <2>7 DEF TextOK
<1> QED  BY <1>4, <1>7, <1>8

\* The whole line is in the ring.
LEMMA TextBuffered ==
    ASSUME TextOK(t, h, sent), h.at = "lock", ~h.raw,
           h.i > Len(t.line), NEW s, s = [t EXCEPT !.line = <<>>],
           NEW x, x.at = "wake", x.raw = h.raw, x.c = h.c, x.i = h.i
    PROVE  TextOK(s, x, sent)
<1> USE RoomIs
<1> DEFINE u == Unread(t.input)
<1>1. Moving(h) /\ MovingLine(h) /\ ~Moving(x) /\ ~MovingLine(x)
    BY DEF Moving, MovingLine
<1>2. /\ u \in Seq(Char \cup {NoChar}) /\ t.line \in Seq(Char) /\ Len(t.line) \in Nat
      /\ sent \in Seq(Char) /\ Len(sent) \in Nat /\ LineSize \in Nat \ {0}
      /\ t = [locks |-> t.locks, input |-> t.input, line |-> t.line, mode |-> t.mode]
      /\ RingOK(t.input, InputSize, Char \cup {NoChar})
    BY TextFacts
<1>3. /\ h.c \in Char \cup {NoChar} /\ h.i \in 1 .. Len(t.line) + 1 /\ h.i \in Nat
      /\ h.raw \in BOOLEAN /\ t.mode \in {"CANONICAL", "RAW"}
      /\ sent = u \o Pending(t, h) /\ Len(sent) + 0 + 0 <= Room
    BY <1>1 DEF TextOK
<1> HIDE DEF u
<1>4. h.i = Len(t.line) + 1
    BY <1>2, <1>3
<1>5. Pending(t, h) = <<>>
    <2>1. Pending(t, h) = SubSeq(t.line, h.i, Len(t.line))
        BY <1>1 DEF Pending
    <2>2. SubSeq(t.line, Len(t.line) + 1, Len(t.line)) = <<>>
        BY <1>2
    <2> QED  BY <1>4, <2>1, <2>2
<1>6. Pending(s, x) = <<>>
    BY <1>1 DEF Pending
<1>7. /\ s.line = <<>> /\ s.input = t.input /\ s.mode = t.mode
      /\ s = [locks |-> s.locks, input |-> s.input, line |-> s.line, mode |-> s.mode]
    BY <1>2
<1>8. Len(sent) + Len(<<>>) + 0 <= Room /\ Len(<<>>) < LineSize /\ <<>> \in Seq(Char)
    BY <1>2, <1>3
<1> QED  BY <1>1, <1>2, <1>3, <1>5, <1>6, <1>7, <1>8 DEF TextOK, u

\* ringbuffer_read in tty_read.
LEMMA TextRead ==
    ASSUME TextOK(t, h, sent), h.at = "off", HasValue(t.input),
           NEW s, s = [t EXCEPT !.input = RingbufferRead(@)]
    PROVE  TextOK(s, h, IF sent # <<>> THEN Tail(sent) ELSE sent)
<1> USE RoomIs
<1> DEFINE y == RingbufferRead(t.input)
<1>1. ~Moving(h) /\ ~MovingLine(h) /\ Pending(s, h) = <<>>
    BY DEF Moving, MovingLine, Pending
<1>2. /\ Unread(t.input) = sent /\ sent \in Seq(Char) /\ Len(sent) \in Nat
      /\ t.line \in Seq(Char) /\ Len(t.line) \in Nat /\ InputSize \in Nat \ {0}
      /\ Len(sent) + Len(t.line) <= Room /\ Len(t.line) < LineSize
      /\ t = [locks |-> t.locks, input |-> t.input, line |-> t.line, mode |-> t.mode]
      /\ RingOK(t.input, InputSize, Char \cup {NoChar})
    BY <1>1, TextFacts
<1>3. sent # <<>> /\ RingOK(y, InputSize, Char \cup {NoChar}) /\ Unread(y) = Tail(sent)
    BY <1>2, ReadStep
<1> HIDE DEF y
<1>4. /\ s.line = t.line /\ s.input = y /\ s.mode = t.mode
      /\ s = [locks |-> s.locks, input |-> s.input, line |-> s.line, mode |-> s.mode]
    BY <1>2 DEF y
<1>5. /\ Tail(sent) \in Seq(Char) /\ Len(Tail(sent)) = Len(sent) - 1
      /\ Tail(sent) = Tail(sent) \o <<>>
    BY <1>2, <1>3
<1>6. Len(Tail(sent)) + Len(t.line) + 0 <= Room
    BY <1>2, <1>5
<1>7. TextOK(s, h, Tail(sent))
    BY <1>1, <1>2, <1>3, <1>4, <1>5, <1>6 DEF TextOK
<1> QED  BY <1>3, <1>7

\* The ioctl that sets the mode drops the line.
LEMMA TextMode ==
    ASSUME TextOK(t, h, sent), h.at = "off",
           NEW m \in {"CANONICAL", "RAW"}, NEW s, s = [t EXCEPT !.mode = m, !.line = <<>>]
    PROVE  TextOK(s, h, sent)
<1> USE RoomIs
<1>1. ~Moving(h) /\ ~MovingLine(h) /\ Pending(s, h) = <<>> /\ Pending(t, h) = <<>>
    BY DEF Moving, MovingLine, Pending
<1>2. /\ Len(sent) \in Nat /\ Len(t.line) \in Nat /\ Len(sent) + Len(t.line) <= Room
      /\ LineSize \in Nat \ {0}
      /\ t = [locks |-> t.locks, input |-> t.input, line |-> t.line, mode |-> t.mode]
    BY <1>1, TextFacts
<1>3. /\ s.line = <<>> /\ s.input = t.input /\ s.mode = m
      /\ s = [locks |-> s.locks, input |-> s.input, line |-> s.line, mode |-> s.mode]
    BY <1>2
<1>4. Len(sent) + Len(<<>>) + 0 <= Room /\ Len(<<>>) < LineSize /\ <<>> \in Seq(Char)
    BY <1>2
<1> QED  BY <1>1, <1>3, <1>4 DEF TextOK
=============================================================================
