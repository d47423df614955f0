---------------------------- MODULE SchedProofs -----------------------------
(***************************************************************************)
(* The operators of SchedState keep the queues consistent with the process *)
(* statuses and the lock count in step with the unreturned switches, for   *)
(* every set of processes and wait queues.  The first part is about        *)
(* sequences: what the queue operations do to the set of processes in a    *)
(* queue, and that they keep a queue free of duplicates.  The second is    *)
(* about the context switch, the third about the functions that move       *)
(* processes between queues: sleep, timer, wait queues and exit.           *)
(***************************************************************************)
EXTENDS SchedState, WellFoundedInduction, TLAPS

(* Facts about sequences *)

\* A sequence as a function.
LEMMA SeqItems ==
    ASSUME NEW S, NEW q \in Seq(S)
    PROVE  /\ Len(q) \in Nat /\ DOMAIN q = 1..Len(q) /\ q \in [1..Len(q) -> S]
           /\ \A i \in 1..Len(q) : q[i] \in S
           /\ q = <<>> <=> Len(q) = 0
    OBVIOUS

\* What Append, \o, SubSeq and Tail return, item by item.
LEMMA AppendItems ==
    ASSUME NEW S, NEW q \in Seq(S), NEW e \in S
    PROVE  /\ Append(q, e) \in Seq(S) /\ Append(q, e) # <<>>
           /\ Len(Append(q, e)) = Len(q) + 1 /\ Append(q, e)[Len(q) + 1] = e
           /\ \A i \in 1..Len(q) : Append(q, e)[i] = q[i]
    OBVIOUS

LEMMA JoinItems ==
    ASSUME NEW S, NEW q \in Seq(S), NEW r \in Seq(S)
    PROVE  /\ q \o r \in Seq(S) /\ Len(q \o r) = Len(q) + Len(r)
           /\ \A i \in 1 .. Len(q) + Len(r) :
                 (q \o r)[i] = IF i <= Len(q) THEN q[i] ELSE r[i - Len(q)]
    OBVIOUS

\* Sequences with the same items are equal.
LEMMA SameItems ==
    ASSUME NEW S, NEW q \in Seq(S), NEW r \in Seq(S), Len(q) = Len(r),
           \A i \in 1..Len(q) : q[i] = r[i]
    PROVE  q = r
    OBVIOUS

LEMMA PartItems ==
    ASSUME NEW S, NEW q \in Seq(S), NEW m \in 1 .. Len(q) + 1, NEW n \in m - 1 .. Len(q)
    PROVE  /\ SubSeq(q, m, n) \in Seq(S) /\ Len(SubSeq(q, m, n)) = n - m + 1
           /\ \A i \in 1 .. n - m + 1 : SubSeq(q, m, n)[i] = q[m + i - 1]
    OBVIOUS

LEMMA TailItems ==
    ASSUME NEW S, NEW q \in Seq(S), q # <<>>
    PROVE  /\ Head(q) = q[1] /\ Head(q) \in S /\ Tail(q) \in Seq(S) /\ Len(Tail(q)) = Len(q) - 1
           /\ \A i \in 1 .. Len(q) - 1 : Tail(q)[i] = q[i + 1]
    OBVIOUS

\* Appending does not change the head.
LEMMA TailOfAppend ==
    ASSUME NEW S, NEW q \in Seq(S), NEW e \in S, q # <<>>
    PROVE  Head(Append(q, e)) = Head(q) /\ Tail(Append(q, e)) = Append(Tail(q), e)
<1>1. /\ Tail(Append(q, e)) \in Seq(S) /\ Append(Tail(q), e) \in Seq(S)
      /\ Len(Tail(Append(q, e))) = Len(q) /\ Len(Append(Tail(q), e)) = Len(q)
      /\ Len(q) \in Nat
    BY SeqItems, AppendItems, TailItems
<1>2. \A i \in 1..Len(q) : Tail(Append(q, e))[i] = Append(Tail(q), e)[i]
    BY SeqItems, AppendItems, TailItems
<1>3. Tail(Append(q, e)) = Append(Tail(q), e)
    BY <1>1, <1>2, SameItems
<1> QED  BY <1>3, SeqItems, AppendItems, TailItems

\* A sequence is its first m items and the others.
LEMMA JoinParts ==
    ASSUME NEW S, NEW q \in Seq(S), NEW m \in 0..Len(q)
    PROVE  SubSeq(q, 1, m) \o SubSeq(q, m + 1, Len(q)) = q
<1> DEFINE a == SubSeq(q, 1, m)
           b == SubSeq(q, m + 1, Len(q))
<1>1. /\ a \in Seq(S) /\ Len(a) = m /\ \A i \in 1..m : a[i] = q[i]
      /\ m \in Nat /\ Len(q) \in Nat /\ m <= Len(q)
    BY PartItems, SeqItems
<1>2. /\ b \in Seq(S) /\ Len(b) = Len(q) - m
      /\ \A i \in 1 .. Len(q) - m : b[i] = q[m + i]
    BY PartItems, SeqItems
<1> HIDE DEF a, b
<1>3. /\ a \o b \in Seq(S) /\ Len(a \o b) = Len(q)
      /\ \A i \in 1..Len(q) : (a \o b)[i] = IF i <= m THEN a[i] ELSE b[i - m]
    BY <1>1, <1>2, JoinItems
<1>4. \A i \in 1..Len(q) : (a \o b)[i] = q[i]
    BY <1>1, <1>2, <1>3
<1>5. a \o b = q
    BY <1>3, <1>4, SameItems
<1> QED  BY <1>5 DEF a, b

\* The end of a sequence starts with the item at the cut.
LEMMA TailOfPart ==
    ASSUME NEW S, NEW q \in Seq(S), NEW m \in 1..Len(q)
    PROVE  LET p == SubSeq(q, m, Len(q))
           IN  p # <<>> /\ Head(p) = q[m] /\ Tail(p) = SubSeq(q, m + 1, Len(q))
<1> DEFINE p == SubSeq(q, m, Len(q))
           r == SubSeq(q, m + 1, Len(q))
<1>1. /\ p \in Seq(S) /\ Len(p) = Len(q) - m + 1 /\ p[1] = q[m]
      /\ \A i \in 1 .. Len(q) - m + 1 : p[i] = q[m + i - 1]
      /\ m \in Nat /\ Len(q) \in Nat /\ m <= Len(q)
    BY PartItems, SeqItems
<1>2. /\ r \in Seq(S) /\ Len(r) = Len(q) - m
      /\ \A i \in 1 .. Len(q) - m : r[i] = q[m + i]
    BY PartItems, SeqItems
<1> HIDE DEF p, r
<1>3. p # <<>>
    BY <1>1, SeqItems
<1>4. /\ Head(p) = q[m] /\ Tail(p) \in Seq(S) /\ Len(Tail(p)) = Len(q) - m
      /\ \A i \in 1 .. Len(q) - m : Tail(p)[i] = q[m + i]
    BY <1>1, <1>3, TailItems
<1>5. Tail(p) = r
    BY <1>2, <1>4, SameItems
<1> QED  BY <1>3, <1>4, <1>5 DEF p, r

\* Membership and injectivity of a sequence, by index.
LEMMA ByIndex ==
    ASSUME NEW S, NEW q \in Seq(S)
    PROVE  /\ \A x : x \in Range(q) <=> \E i \in 1..Len(q) : x = q[i]
           /\ IsInjective(q) <=>
                \A i, j \in 1..Len(q) : q[i] = q[j] => i = j
           /\ Range(q) \subseteq S
           /\ Len(q) \in Nat
<1>1. DOMAIN q = 1..Len(q) /\ Len(q) \in Nat /\ \A i \in 1..Len(q) : q[i] \in S
    BY SeqItems
<1> QED  BY <1>1, Zenon DEF Range, IsInjective

\* proc_queue_push_tail adds one process and, if it was not there, no duplicate.
LEMMA PushTail ==
    ASSUME NEW S, NEW q \in Seq(S), NEW e \in S
    PROVE  /\ Append(q, e) \in Seq(S)
           /\ Append(q, e) # <<>>
           /\ Range(Append(q, e)) = Range(q) \cup {e}
           /\ IsInjective(q) /\ e \notin Range(q) => IsInjective(Append(q, e))
<1> DEFINE r == Append(q, e)
<1>1. /\ r \in Seq(S) /\ r # <<>> /\ Len(r) = Len(q) + 1 /\ Len(q) \in Nat
      /\ \A i \in 1..Len(q) : r[i] = q[i]
      /\ r[Len(q) + 1] = e
    BY AppendItems, SeqItems
<1> HIDE DEF r
<1>2. \A x : x \in Range(r) <=> \E i \in 1..Len(r) : x = r[i]
    BY <1>1, ByIndex
<1>3. \A x : x \in Range(q) <=> \E i \in 1..Len(q) : x = q[i]
    BY ByIndex
<1>4. Range(r) = Range(q) \cup {e}
    BY <1>1, <1>2, <1>3
<1>5. ASSUME IsInjective(q), e \notin Range(q)
      PROVE  IsInjective(r)
    <2>1. \A i, j \in 1..Len(q) : q[i] = q[j] => i = j
        BY <1>5, ByIndex
    <2>2. \A i, j \in 1..Len(r) : r[i] = r[j] => i = j
        BY <1>1, <1>3, <1>5, <2>1
    <2> QED  BY <1>1, <2>2, ByIndex
<1> QED  BY <1>1, <1>4, <1>5 DEF r

\* The splice of one queue to the end of another (proc_queue_splice_prefix_tail,
\* and wait_queue_wake_all waking a whole queue).
LEMMA Splice ==
    ASSUME NEW S, NEW q \in Seq(S), NEW r \in Seq(S)
    PROVE  /\ q \o r \in Seq(S)
           /\ Range(q \o r) = Range(q) \cup Range(r)
           /\ IsInjective(q \o r) <=> /\ IsInjective(q)
                                      /\ IsInjective(r)
                                      /\ Range(q) \cap Range(r) = {}
<1> DEFINE t == q \o r
<1>1. /\ t \in Seq(S) /\ Len(t) = Len(q) + Len(r)
      /\ Len(q) \in Nat /\ Len(r) \in Nat
      /\ \A i \in 1..(Len(q) + Len(r)) :
            t[i] = IF i <= Len(q) THEN q[i] ELSE r[i - Len(q)]
    BY JoinItems, SeqItems
<1> HIDE DEF t
<1>2. /\ \A x : x \in Range(t) <=> \E i \in 1..Len(t) : x = t[i]
      /\ IsInjective(t) <=> \A i, j \in 1..Len(t) : t[i] = t[j] => i = j
    BY <1>1, ByIndex
<1>3. /\ \A x : x \in Range(q) <=> \E i \in 1..Len(q) : x = q[i]
      /\ IsInjective(q) <=> \A i, j \in 1..Len(q) : q[i] = q[j] => i = j
    BY ByIndex
<1>4. /\ \A x : x \in Range(r) <=> \E i \in 1..Len(r) : x = r[i]
      /\ IsInjective(r) <=> \A i, j \in 1..Len(r) : r[i] = r[j] => i = j
    BY ByIndex
<1>5. /\ \A i \in 1..Len(q) : i \in 1..Len(t) /\ t[i] = q[i]
      /\ \A i \in 1..Len(r) : i + Len(q) \in 1..Len(t) /\ t[i + Len(q)] = r[i]
    <2>1. ASSUME NEW i \in 1..Len(q) PROVE i \in 1..Len(t) /\ t[i] = q[i]
        BY <1>1
    <2>2. ASSUME NEW i \in 1..Len(r)
          PROVE  i + Len(q) \in 1..Len(t) /\ t[i + Len(q)] = r[i]
        <3>1. /\ i + Len(q) \in 1..(Len(q) + Len(r))
              /\ ~(i + Len(q) <= Len(q))
              /\ (i + Len(q)) - Len(q) = i
            BY <1>1
        <3>2. t[i + Len(q)] = r[(i + Len(q)) - Len(q)]
            BY <1>1, <3>1
        <3> QED  BY <1>1, <3>1, <3>2
    <2> QED  BY <2>1, <2>2
<1>6. \A i \in 1..Len(t) :
          \/ i \in 1..Len(q) /\ t[i] = q[i]
          \/ i - Len(q) \in 1..Len(r) /\ t[i] = r[i - Len(q)]
    BY <1>1
<1>7. Range(t) = Range(q) \cup Range(r)
    <2>1. ASSUME NEW x \in Range(t) PROVE x \in Range(q) \cup Range(r)
        BY <1>2, <1>3, <1>4, <1>6
    <2>2. ASSUME NEW x \in Range(q) PROVE x \in Range(t)
        BY <1>2, <1>3, <1>5
    <2>3. ASSUME NEW x \in Range(r) PROVE x \in Range(t)
        BY <1>2, <1>4, <1>5
    <2> QED  BY <2>1, <2>2, <2>3
<1>8. ASSUME IsInjective(t)
      PROVE  IsInjective(q) /\ IsInjective(r) /\ Range(q) \cap Range(r) = {}
    <2>1. IsInjective(q)
        BY <1>8, <1>2, <1>3, <1>5
    <2>2. IsInjective(r)
        <3> SUFFICES ASSUME NEW i \in 1..Len(r), NEW j \in 1..Len(r), r[i] = r[j]
                     PROVE  i = j
            BY <1>4
        <3>1. i + Len(q) = j + Len(q)
            BY <1>8, <1>2, <1>5
        <3> QED  BY <3>1, <1>1
    <2>3. ASSUME NEW x \in Range(q), x \in Range(r) PROVE FALSE
        <3>1. PICK i \in 1..Len(q) : x = q[i]
            BY <1>3
        <3>2. PICK j \in 1..Len(r) : x = r[j]
            BY <2>3, <1>4
        <3>3. /\ i \in 1..Len(t) /\ j + Len(q) \in 1..Len(t)
              /\ t[i] = x /\ t[j + Len(q)] = x
            BY <3>1, <3>2, <1>5
        <3>4. i = j + Len(q)
            BY <3>3, <1>8, <1>2
        <3> QED  BY <3>4, <1>1
    <2> QED  BY <2>1, <2>2, <2>3
<1>9. ASSUME IsInjective(q), IsInjective(r), Range(q) \cap Range(r) = {}
      PROVE  IsInjective(t)
    <2> SUFFICES ASSUME NEW i \in 1..Len(t), NEW j \in 1..Len(t), t[i] = t[j]
                 PROVE  i = j
        BY <1>2
    <2>1. \A a \in 1..Len(q), b \in 1..Len(r) : q[a] # r[b]
        BY <1>9, <1>3, <1>4
    <2>2. CASE i \in 1..Len(q) /\ t[i] = q[i]
        BY <2>1, <2>2, <1>6, <1>9, <1>3
    <2>3. CASE i - Len(q) \in 1..Len(r) /\ t[i] = r[i - Len(q)]
        <3>1. j - Len(q) \in 1..Len(r) /\ t[j] = r[j - Len(q)]
            BY <2>1, <2>3, <1>6
        <3>2. i - Len(q) = j - Len(q)
            BY <3>1, <2>3, <1>9, <1>4
        <3> QED  BY <3>2, <1>1
    <2> QED  BY <2>2, <2>3, <1>6
<1> QED  BY <1>1, <1>7, <1>8, <1>9 DEF t

\* A queue of one process.
LEMMA Singleton ==
    ASSUME NEW S, NEW e \in S
    PROVE  <<e>> \in Seq(S) /\ Range(<<e>>) = {e} /\ IsInjective(<<e>>)
<1>1. /\ <<e>> \in Seq(S)
      /\ \A i \in DOMAIN <<e>> : i = 1
      /\ 1 \in DOMAIN <<e>> /\ <<e>>[1] = e
    OBVIOUS
<1> QED  BY <1>1, Zenon DEF Range, IsInjective

\* proc_queue_push_head.
LEMMA PushHead ==
    ASSUME NEW S, NEW q \in Seq(S), NEW e \in S
    PROVE  /\ <<e>> \o q \in Seq(S)
           /\ Range(<<e>> \o q) = Range(q) \cup {e}
           /\ IsInjective(q) /\ e \notin Range(q) => IsInjective(<<e>> \o q)
<1>1. <<e>> \in Seq(S) /\ Range(<<e>>) = {e} /\ IsInjective(<<e>>)
    BY Singleton
<1>2. /\ <<e>> \o q \in Seq(S)
      /\ Range(<<e>> \o q) = Range(<<e>>) \cup Range(q)
      /\ IsInjective(<<e>> \o q) <=> /\ IsInjective(<<e>>)
                                     /\ IsInjective(q)
                                     /\ Range(<<e>>) \cap Range(q) = {}
    BY <1>1, Splice
<1> QED  BY <1>1, <1>2, Zenon

\* Cutting a queue after m processes.
LEMMA Cut ==
    ASSUME NEW S, NEW q \in Seq(S), NEW m \in 0..Len(q)
    PROVE  /\ SubSeq(q, 1, m) \in Seq(S)
           /\ SubSeq(q, m + 1, Len(q)) \in Seq(S)
           /\ q = SubSeq(q, 1, m) \o SubSeq(q, m + 1, Len(q))
           /\ Range(q) = Range(SubSeq(q, 1, m))
                           \cup Range(SubSeq(q, m + 1, Len(q)))
           /\ IsInjective(q) =>
                /\ IsInjective(SubSeq(q, 1, m))
                /\ IsInjective(SubSeq(q, m + 1, Len(q)))
                /\ Range(SubSeq(q, 1, m)) \cap Range(SubSeq(q, m + 1, Len(q))) = {}
<1> DEFINE a == SubSeq(q, 1, m)
           b == SubSeq(q, m + 1, Len(q))
<1>1. Len(q) \in Nat /\ m \in Nat /\ m <= Len(q)
    BY SeqItems
<1>2. a \in Seq(S)
    BY <1>1, PartItems
<1>3. b \in Seq(S)
    BY <1>1, PartItems
<1>4. q = a \o b
    BY <1>1, JoinParts
<1> HIDE DEF a, b
<1>5. /\ Range(a \o b) = Range(a) \cup Range(b)
      /\ IsInjective(a \o b) => /\ IsInjective(a)
                                 /\ IsInjective(b)
                                 /\ Range(a) \cap Range(b) = {}
    BY <1>2, <1>3, Splice
<1> QED  BY <1>2, <1>3, <1>4, <1>5 DEF a, b

\* proc_queue_pop_head removes exactly the head.
LEMMA PopHead ==
    ASSUME NEW S, NEW q \in Seq(S), q # <<>>
    PROVE  /\ Head(q) \in S
           /\ Tail(q) \in Seq(S)
           /\ Range(q) = {Head(q)} \cup Range(Tail(q))
           /\ IsInjective(q) => /\ IsInjective(Tail(q))
                                /\ Head(q) \notin Range(Tail(q))
<1>1. Head(q) \in S /\ Tail(q) \in Seq(S) /\ q = <<Head(q)>> \o Tail(q)
    OBVIOUS
<1>2. <<Head(q)>> \in Seq(S) /\ Range(<<Head(q)>>) = {Head(q)}
    BY <1>1, Singleton
<1>3. /\ Range(<<Head(q)>> \o Tail(q)) = Range(<<Head(q)>>) \cup Range(Tail(q))
      /\ IsInjective(<<Head(q)>> \o Tail(q)) =>
            /\ IsInjective(Tail(q))
            /\ Range(<<Head(q)>>) \cap Range(Tail(q)) = {}
    BY <1>1, <1>2, Splice
<1> QED  BY <1>1, <1>2, <1>3, Zenon

\* proc_queue_insert_after: the new process is added once.
LEMMA Insert ==
    ASSUME NEW S, NEW q \in Seq(S), NEW e \in S, NEW m \in 0..Len(q)
    PROVE  /\ InsertBehind(q, m, e) \in Seq(S)
           /\ Range(InsertBehind(q, m, e)) = Range(q) \cup {e}
           /\ IsInjective(q) /\ e \notin Range(q) =>
                IsInjective(InsertBehind(q, m, e))
<1> DEFINE a == SubSeq(q, 1, m)
           b == SubSeq(q, m + 1, Len(q))
<1>1. InsertBehind(q, m, e) = (a \o <<e>>) \o b
    BY DEF InsertBehind
<1>2. /\ a \in Seq(S) /\ b \in Seq(S)
      /\ Range(q) = Range(a) \cup Range(b)
      /\ IsInjective(q) => /\ IsInjective(a) /\ IsInjective(b)
                           /\ Range(a) \cap Range(b) = {}
    BY Cut
<1> HIDE DEF a, b
<1>3. <<e>> \in Seq(S) /\ Range(<<e>>) = {e} /\ IsInjective(<<e>>)
    BY Singleton
<1>4. /\ a \o <<e>> \in Seq(S)
      /\ Range(a \o <<e>>) = Range(a) \cup {e}
      /\ IsInjective(a) /\ e \notin Range(a) => IsInjective(a \o <<e>>)
    <2>1. /\ a \o <<e>> \in Seq(S)
          /\ Range(a \o <<e>>) = Range(a) \cup Range(<<e>>)
          /\ IsInjective(a \o <<e>>) <=> /\ IsInjective(a)
                                         /\ IsInjective(<<e>>)
                                         /\ Range(a) \cap Range(<<e>>) = {}
        BY <1>2, <1>3, Splice
    <2> QED  BY <1>3, <2>1, Zenon
<1>5. /\ (a \o <<e>>) \o b \in Seq(S)
      /\ Range((a \o <<e>>) \o b) = Range(a \o <<e>>) \cup Range(b)
      /\ IsInjective((a \o <<e>>) \o b) <=>
            /\ IsInjective(a \o <<e>>) /\ IsInjective(b)
            /\ Range(a \o <<e>>) \cap Range(b) = {}
    BY <1>2, <1>4, Splice
<1>6. Range(InsertBehind(q, m, e)) = Range(q) \cup {e}
    BY <1>1, <1>2, <1>4, <1>5
<1>7. ASSUME IsInjective(q), e \notin Range(q)
      PROVE  IsInjective(InsertBehind(q, m, e))
    BY <1>1, <1>2, <1>4, <1>5, <1>7
<1> QED  BY <1>1, <1>5, <1>6, <1>7

\* proc_queue_remove takes a process out of a queue that holds it once.
LEMMA RemoveOnce ==
    ASSUME NEW S, NEW q \in Seq(S), NEW e, IsInjective(q), e \in Range(q)
    PROVE  /\ Without(q, e) \in Seq(S)
           /\ Range(Without(q, e)) = Range(q) \ {e}
           /\ IsInjective(Without(q, e))
<1>1. PICK m \in 1..Len(q) : e = q[m]
    BY ByIndex
<1>2. Len(q) \in Nat /\ \A i, j \in 1..Len(q) : q[i] = q[j] => i = j
    BY ByIndex
<1>3. DOMAIN q = 1..Len(q)
    BY SeqItems
<1>4. (CHOOSE i \in DOMAIN q : q[i] = e) = m
    BY <1>1, <1>2, <1>3
<1> DEFINE a == SubSeq(q, 1, m - 1)
           b == SubSeq(q, m, Len(q))
           c == SubSeq(q, m + 1, Len(q))
<1>6. Without(q, e) = a \o c
    BY <1>4 DEF Without
<1>7. /\ a \in Seq(S) /\ b \in Seq(S)
      /\ Range(q) = Range(a) \cup Range(b)
      /\ IsInjective(a) /\ IsInjective(b) /\ Range(a) \cap Range(b) = {}
    <2>1. m - 1 \in 0..Len(q) /\ (m - 1) + 1 = m
        BY <1>1, <1>2
    <2> DEFINE n == m - 1
    <2>2. SubSeq(q, 1, n) = a /\ SubSeq(q, n + 1, Len(q)) = b
        BY <2>1
    <2> HIDE DEF n
    <2>3. n \in 0..Len(q)
        BY <2>1 DEF n
    <2> HIDE DEF a, b
    <2> QED  BY <2>2, <2>3, Cut
<1>8. /\ b # <<>> /\ Head(b) = e /\ Tail(b) = c
    <2>1. m \in 1..Len(q) /\ Len(q) \in m..Len(q)
        BY <1>1, <1>2
    <2>2. b # <<>> /\ Head(b) = q[m] /\ Tail(b) = c
        BY <2>1, TailOfPart
    <2> QED  BY <1>1, <2>2
<1> HIDE DEF a, b, c
<1>9. /\ c \in Seq(S) /\ Range(b) = {e} \cup Range(c)
      /\ IsInjective(c) /\ e \notin Range(c)
    BY <1>7, <1>8, PopHead
<1>10. Range(a) \cap Range(c) = {} /\ Range(a) \cup Range(c) = Range(q) \ {e}
    BY <1>7, <1>9
<1>11. /\ a \o c \in Seq(S)
       /\ Range(a \o c) = Range(a) \cup Range(c)
       /\ IsInjective(a \o c)
    BY <1>7, <1>9, <1>10, Splice
<1> QED  BY <1>6, <1>10, <1>11

-----------------------------------------------------------------------------
\* A well-typed state with a current process and consistent queues.  The status
\* of the current process is free: it changes before the switch away from it.
Consistent(k, aside) ==
    /\ k \in State
    /\ k.current \in Proc
    /\ aside \in Seq(Proc)
    /\ QueuesOK(k, aside)
    /\ WaitQueuesOK(k)

\* The two states agree on everything QueuesOK and WaitQueuesOK talk about.
SameQueues(a, b) ==
    /\ b.current = a.current /\ b.status = a.status
    /\ b.ready = a.ready /\ b.sleeping = a.sleeping
    /\ b.dying = a.dying /\ b.waitq = a.waitq

\* Only the lock fields of the state matter to SameQueues.
LEMMA Frame ==
    ASSUME NEW a, NEW b, NEW w, Consistent(a, w), b \in State, SameQueues(a, b)
    PROVE  Consistent(b, w)
BY DEF Consistent, SameQueues, QueuesOK, WaitQueuesOK, WithStatus

\* The lock counters stay natural numbers.
LEMMA Counters ==
    ASSUME NEW k \in State
    PROVE  /\ k.irq + 1 \in Nat /\ k.sw + 1 \in Nat
           /\ Dec(k.irq) \in Nat /\ Dec(k.sw) \in Nat
           /\ Dec(k.irq + 1) = k.irq /\ Dec(k.sw + 1) = k.sw
           /\ k.ints \in BOOLEAN /\ (k.ints \/ Dec(k.irq) = 0) \in BOOLEAN
<1>1. k.irq \in Nat /\ k.sw \in Nat /\ k.ints \in BOOLEAN
    BY DEF State
<1> QED  BY <1>1 DEF Dec

\* The locks touch no queue.
LEMMA LockTypes ==
    ASSUME NEW k \in State
    PROVE  /\ SchedLock(k) \in State /\ SameQueues(k, SchedLock(k))
           /\ SchedUnlock(k) \in State /\ SameQueues(k, SchedUnlock(k))
           /\ SchedPostpone(k) \in State /\ SameQueues(k, SchedPostpone(k))
<1>1. SchedLock(k) \in State
    BY Counters, Zenon DEF State, SchedLock
<1>2. SchedUnlock(k) \in State
    BY Counters, Zenon DEF State, SchedUnlock
<1>3. SchedPostpone(k) \in State
    BY Counters, Zenon DEF State, SchedPostpone
<1>4. /\ SameQueues(k, SchedLock(k))
      /\ SameQueues(k, SchedUnlock(k))
      /\ SameQueues(k, SchedPostpone(k))
    BY DEF State, SchedLock, SchedUnlock, SchedPostpone, SameQueues
<1> QED  BY <1>1, <1>2, <1>3, <1>4

\* A switch changes statuses between RUNNING and READY_TO_RUN only.
Quiet(a, b) ==
    \A p \in Proc : \/ b.status[p] = a.status[p]
                    \/ /\ a.status[p] \in {"RUNNING", "READY_TO_RUN"}
                       /\ b.status[p] \in {"RUNNING", "READY_TO_RUN"}

\* What the switch of schedule_advance does, field by field: the head h of the
\* ready queue gets the CPU from c.
Switched(k, j, c, h) ==
    /\ j \in State /\ h \in Proc /\ h # c
    /\ j.current = h
    /\ j.status[h] = IF k.status[h] = "UNINITIALIZED"
                     THEN "UNINITIALIZED" ELSE "RUNNING"
    /\ j.status[c] = IF k.status[c] = "RUNNING"
                     THEN "READY_TO_RUN" ELSE k.status[c]
    /\ \A p \in Proc \ {c, h} : j.status[p] = k.status[p]
    /\ j.ready = IF k.status[c] = "RUNNING" THEN Append(Tail(k.ready), c)
                 ELSE Tail(k.ready)
    /\ j.sleeping = k.sleeping /\ j.dying = k.dying /\ j.waitq = k.waitq
    /\ j.left = k.left /\ j.irq = k.irq /\ j.sw = k.sw /\ j.flag = k.flag
    /\ j.frames = [k.frames EXCEPT ![c] = @ + 1]
    /\ j.ints = (k.status[h] # "UNINITIALIZED")

\* What the two halves of schedule_advance do together, field by field.
LEMMA SwitchEffect ==
    ASSUME NEW k \in State, k.current \in Proc,
           k.ready # <<>>, k.current \notin Range(k.ready)
    PROVE  Switched(k, PickNext(Preempted(k)), k.current, Head(k.ready))
<1> DEFINE c == k.current
           h == Head(k.ready)
           j == PickNext(Preempted(k))
<1> DEFINE P == Preempted(k)
<1>1. /\ k.ready \in Seq(Proc) /\ h \in Proc /\ Tail(k.ready) \in Seq(Proc)
      /\ k.status \in [Proc -> Status] /\ k.frames[c] + 1 \in Nat
    <2>1. k.ready \in Seq(Proc) /\ k.frames[c] \in Nat /\ k.status \in [Proc -> Status]
        BY DEF State
    <2> QED  BY <2>1, PopHead
<1>2. h # c
    BY <1>1, PopHead
<1>3. /\ P \in State /\ P.current = c /\ P.frames = k.frames
      /\ P.status = IF k.status[c] = "RUNNING"
                    THEN [k.status EXCEPT ![c] = "READY_TO_RUN"] ELSE k.status
      /\ P.ready = IF k.status[c] = "RUNNING" THEN Append(k.ready, c) ELSE k.ready
      /\ P.sleeping = k.sleeping /\ P.dying = k.dying /\ P.waitq = k.waitq
      /\ P.left = k.left /\ P.irq = k.irq /\ P.sw = k.sw /\ P.flag = k.flag
    <2>1. Append(k.ready, c) \in Seq(Proc)
        BY <1>1
    <2>2. [k.status EXCEPT ![c] = "READY_TO_RUN"] \in [Proc -> Status]
        BY <1>1 DEF Status
    <2> QED  BY <2>1, <2>2 DEF Preempted, State
<1>4. /\ Head(P.ready) = h
      /\ Tail(P.ready) = IF k.status[c] = "RUNNING" THEN Append(Tail(k.ready), c)
                         ELSE Tail(k.ready)
    <2>1. /\ Head(Append(k.ready, c)) = h
          /\ Tail(Append(k.ready, c)) = Append(Tail(k.ready), c)
        BY <1>1, TailOfAppend
    <2> QED  BY <1>3, <2>1
<1>5. Tail(P.ready) \in Seq(Proc)
    <2>1. Append(Tail(k.ready), c) \in Seq(Proc)
        BY <1>1, AppendItems
    <2> QED  BY <1>1, <1>4, <2>1
<1> DEFINE Q == [P EXCEPT !.quantum = TRUE, !.ready = Tail(@)]
<1>6. j = MultitaskSwitch(Q, h)
    BY <1>4 DEF PickNext
<1> HIDE DEF P
<1>7. /\ Q \in State /\ Q.current = c /\ Q.frames = k.frames
      /\ Q.status = P.status /\ Q.ready = Tail(P.ready)
      /\ Q.sleeping = k.sleeping /\ Q.dying = k.dying /\ Q.waitq = k.waitq
      /\ Q.left = k.left /\ Q.irq = k.irq /\ Q.sw = k.sw /\ Q.flag = k.flag
    <2>1. Q \in State
        BY <1>3, <1>5, Zenon DEF State
    <2> QED  BY <1>3, <2>1 DEF State
<1> HIDE DEF Q
<1> DEFINE st == [Q.status EXCEPT ![h] = IF @ = "UNINITIALIZED" THEN @ ELSE "RUNNING"]
           fr == [Q.frames EXCEPT ![c] = @ + 1]
<1>8. j = [Q EXCEPT !.current = h, !.status = st,
                    !.ints = (Q.status[h] # "UNINITIALIZED"), !.frames = fr]
    BY <1>6, <1>7, Zenon DEF MultitaskSwitch
<1>9. Q.status \in [Proc -> Status] /\ Q.frames \in [Proc -> Nat]
    BY <1>7 DEF State
<1>10. st \in [Proc -> Status] /\ fr \in [Proc -> Nat]
    BY <1>1, <1>7, <1>9 DEF Status
<1>11. (Q.status[h] # "UNINITIALIZED") \in BOOLEAN
    OBVIOUS
<1>12. j \in State
    BY <1>1, <1>7, <1>8, <1>10, <1>11, Zenon DEF State
<1>13. /\ j.current = h /\ j.status = st /\ j.ready = Q.ready
       /\ j.sleeping = k.sleeping /\ j.dying = k.dying /\ j.waitq = k.waitq
       /\ j.left = k.left /\ j.irq = k.irq /\ j.sw = k.sw /\ j.flag = k.flag
       /\ j.frames = fr
       /\ j.ints = (Q.status[h] # "UNINITIALIZED")
    BY <1>7, <1>8 DEF State
<1>14. Q.status[h] = k.status[h]
    BY <1>1, <1>2, <1>3, <1>7
<1>15. /\ j.status[h] = IF k.status[h] = "UNINITIALIZED"
                        THEN "UNINITIALIZED" ELSE "RUNNING"
       /\ j.status[c] = IF k.status[c] = "RUNNING"
                        THEN "READY_TO_RUN" ELSE k.status[c]
       /\ \A p \in Proc \ {c, h} : j.status[p] = k.status[p]
    <2>1. /\ st[h] = IF Q.status[h] = "UNINITIALIZED" THEN Q.status[h] ELSE "RUNNING"
          /\ \A p \in Proc \ {h} : st[p] = Q.status[p]
        BY <1>1, <1>9
    <2>2. /\ Q.status[c] = IF k.status[c] = "RUNNING"
                           THEN "READY_TO_RUN" ELSE k.status[c]
          /\ \A p \in Proc \ {c} : Q.status[p] = k.status[p]
        BY <1>1, <1>3, <1>7
    <2> HIDE DEF st, j, c, h
    <2> QED  BY <1>1, <1>2, <1>13, <1>14, <2>1, <2>2 DEF c
<1> HIDE DEF st
<1> QED  BY <1>1, <1>2, <1>4, <1>7, <1>12, <1>13, <1>14, <1>15 DEF Switched

\* The switch keeps the queues consistent: a preempted process is queued once,
\* one that sleeps, blocks or dies stays where it was put before the switch,
\* and the process taken from the ready queue becomes the current one.
LEMMA SwitchOK ==
    ASSUME NEW k, NEW w, Consistent(k, w), k.ready # <<>>,
           k.status[k.current] \in
               {"RUNNING", "SLEEPING_TIMER", "BLOCKED", "READY_TO_DIE"},
           WithStatus(k, {"RUNNING"}) \subseteq {k.current},
           NEW j, j = PickNext(Preempted(k))
    PROVE  /\ Consistent(j, w) /\ CurrentOK(j) /\ Quiet(k, j)
           /\ j.current # k.current
<1> DEFINE c == k.current
           h == Head(k.ready)
<1>1. /\ k \in State /\ c \in Proc /\ w \in Seq(Proc)
      /\ QueuesOK(k, w) /\ WaitQueuesOK(k)
    BY DEF Consistent
<1>2. /\ k.ready \in Seq(Proc) /\ k.sleeping \in Seq(Proc) /\ k.dying \in Seq(Proc)
      /\ k.status \in [Proc -> Status]
    BY <1>1 DEF State
<1>3. /\ Range(k.ready) =
           WithStatus(k, {"READY_TO_RUN", "UNINITIALIZED"}) \ {c}
      /\ IsInjective(k.ready)
    BY <1>1 DEF QueuesOK
<1>4. c \notin Range(k.ready)
    BY <1>3
<1> HIDE DEF h, c
<1>5. Switched(k, j, c, h)
    BY <1>1, <1>4, SwitchEffect DEF c, h
<1>6. k.status[h] \in {"READY_TO_RUN", "UNINITIALIZED"}
    <2>1. h \in Range(k.ready)
        BY <1>2, PopHead DEF h
    <2> QED  BY <2>1, <1>3 DEF WithStatus
<1>7. /\ Tail(k.ready) \in Seq(Proc) /\ IsInjective(Tail(k.ready))
      /\ Range(Tail(k.ready)) = Range(k.ready) \ {h}
    BY <1>2, <1>3, PopHead DEF h
<1>8. /\ IsInjective(j.ready)
      /\ Range(j.ready) = (Range(k.ready) \ {h})
                           \cup (IF k.status[c] = "RUNNING" THEN {c} ELSE {})
    <2>1. CASE k.status[c] = "RUNNING"
        <3>1. j.ready = Append(Tail(k.ready), c) /\ c \in Proc /\ c \notin Range(Tail(k.ready))
            BY <2>1, <1>1, <1>4, <1>5, <1>7 DEF Switched, c
        <3> DEFINE t == Tail(k.ready)
        <3>2. t \in Seq(Proc) /\ IsInjective(t) /\ c \in Proc /\ c \notin Range(t)
            BY <3>1, <1>7
        <3> HIDE DEF t
        <3>3. IsInjective(Append(t, c)) /\ Range(Append(t, c)) = Range(t) \cup {c}
            BY <3>2, PushTail
        <3> QED  BY <2>1, <3>1, <3>3, <1>7 DEF t
    <2>2. CASE k.status[c] # "RUNNING"
        BY <2>2, <1>5, <1>7 DEF Switched
    <2> QED  BY <2>1, <2>2
<1>9. Range(j.ready) = WithStatus(j, {"READY_TO_RUN", "UNINITIALIZED"}) \ {j.current}
    BY <1>1, <1>3, <1>5, <1>8 DEF WithStatus, Switched, c
<1>10. /\ WithStatus(j, {"SLEEPING_TIMER"}) = WithStatus(k, {"SLEEPING_TIMER"})
       /\ WithStatus(j, {"READY_TO_DIE"}) = WithStatus(k, {"READY_TO_DIE"})
       /\ \A p \in Proc : j.status[p] = "BLOCKED" <=> k.status[p] = "BLOCKED"
    BY <1>1, <1>5, <1>6 DEF WithStatus, Switched, c
<1>11. QueuesOK(j, w)
    BY <1>1, <1>5, <1>8, <1>9, <1>10 DEF QueuesOK, Switched
<1>12. WaitQueuesOK(j)
    BY <1>1, <1>5, <1>10 DEF WaitQueuesOK, Switched
<1>13. CurrentOK(j)
    BY <1>1, <1>5, <1>6 DEF CurrentOK, WithStatus, Switched, c
<1>14. Quiet(k, j)
    BY <1>5, <1>6 DEF Quiet, Switched
<1> QED  BY <1>1, <1>5, <1>11, <1>12, <1>13, <1>14 DEF Consistent, Switched, c

\* The outcome of a completed switch from the state k: everything but the CPU,
\* the ready queue and the frames of the process that was left is as before.
SwitchedAway(k, j, w) ==
    /\ Consistent(j, w) /\ CurrentOK(j) /\ Quiet(k, j)
    /\ j.current # k.current
    /\ j.sw = 0 /\ j.flag = FALSE
    /\ j.sleeping = k.sleeping /\ j.dying = k.dying /\ j.waitq = k.waitq
    /\ j.left = k.left
    /\ j.frames = [k.frames EXCEPT ![k.current] = @ + 1]
    /\ j.ints = (j.status[j.current] # "UNINITIALIZED")

\* A state in which schedule_advance will find another process to run.
MaySwitch(k, w) ==
    /\ Consistent(k, w)
    /\ k.ready # <<>>
    /\ k.status[k.current] \in
         {"RUNNING", "SLEEPING_TIMER", "BLOCKED", "READY_TO_DIE"}
    /\ WithStatus(k, {"RUNNING"}) \subseteq {k.current}

\* schedule_advance with the switch lock free switches to another process.
LEMMA AdvanceOK ==
    ASSUME NEW k, NEW w, MaySwitch(k, w), k.sw = 0, k.flag = FALSE
    PROVE  /\ SwitchedAway(k, ScheduleAdvance(k), w)
           /\ ~Returned(k, ScheduleAdvance(k)) /\ ScheduleAdvance(k).irq = k.irq
<1> DEFINE j == PickNext(Preempted(k))
<1>1. ScheduleAdvance(k) = j
    BY DEF ScheduleAdvance, MaySwitch
<1>2. Consistent(j, w) /\ CurrentOK(j) /\ Quiet(k, j) /\ j.current # k.current
    BY SwitchOK DEF MaySwitch
<1>3. Switched(k, j, k.current, Head(k.ready))
    <2>1. k \in State /\ k.current \in Proc /\ k.ready # <<>>
        BY DEF MaySwitch, Consistent
    <2>2. k.current \notin Range(k.ready)
        BY DEF MaySwitch, Consistent, QueuesOK
    <2> QED  BY <2>1, <2>2, SwitchEffect
<1> HIDE DEF j
<1> QED  BY <1>1, <1>2, <1>3 DEF SwitchedAway, Switched, Returned

\* sched_yield by a process that goes on running.
LEMMA YieldOK ==
    ASSUME NEW k, NEW w, MaySwitch(k, w), k.sw = 0, k.flag = FALSE
    PROVE  SwitchedAway(k, SchedYield(k), w) /\ SchedYield(k).irq = k.irq + 1
<1> DEFINE a == SchedLock(k)
<1>1. /\ k \in State /\ Consistent(k, w)
    BY DEF MaySwitch, Consistent
<1>2. a \in State /\ SameQueues(k, a)
    BY <1>1, LockTypes
<1>3. /\ a.sw = 0 /\ a.flag = FALSE /\ a.left = k.left
      /\ a.irq = k.irq + 1 /\ a.frames = k.frames
    BY <1>1 DEF SchedLock, State
<1>4. SchedYield(k) = IF Returned(a, ScheduleAdvance(a))
                      THEN SchedUnlock(ScheduleAdvance(a)) ELSE ScheduleAdvance(a)
    BY DEF SchedYield
<1> HIDE DEF a
<1>5. Consistent(a, w)
    BY <1>1, <1>2, Frame
<1>6. MaySwitch(a, w)
    BY <1>2, <1>5 DEF MaySwitch, SameQueues, WithStatus
<1>7. /\ SwitchedAway(a, ScheduleAdvance(a), w) /\ ~Returned(a, ScheduleAdvance(a))
      /\ ScheduleAdvance(a).irq = a.irq
    BY <1>3, <1>6, AdvanceOK
<1> QED  BY <1>2, <1>3, <1>4, <1>7 DEF SwitchedAway, SameQueues, Quiet

\* The outermost sched_resume makes the switch that was put off.
LEMMA ResumeSwitch ==
    ASSUME NEW k, NEW w, MaySwitch(k, w), k.sw = 1, k.flag = TRUE
    PROVE  SwitchedAway(k, SchedResume(k), w) /\ SchedResume(k).irq = k.irq
<1> DEFINE a == [k EXCEPT !.sw = Dec(@)]
           b == [a EXCEPT !.flag = FALSE]
<1>1. /\ k \in State /\ Consistent(k, w)
    BY DEF MaySwitch, Consistent
<1>2. Dec(k.sw) = 0
    BY DEF Dec
<1>3. /\ b \in State /\ SameQueues(k, b) /\ b.sw = 0 /\ b.flag = FALSE
      /\ b.left = k.left /\ b.frames = a.frames /\ b.current = a.current
      /\ b.irq = k.irq /\ b.frames = k.frames
      /\ a.sw = 0 /\ a.flag = TRUE
    <2>1. b = [k EXCEPT !.sw = 0, !.flag = FALSE]
        BY <1>1, <1>2 DEF State
    <2>2. 0 \in Nat /\ FALSE \in BOOLEAN
        OBVIOUS
    <2>3. [k EXCEPT !.sw = 0, !.flag = FALSE] \in State
        BY <1>1, <2>2, Zenon DEF State
    <2> QED  BY <1>1, <1>2, <2>1, <2>3 DEF State, SameQueues
<1>4. SchedResume(k) =
          LET c == IF a.sw = 0 /\ a.flag THEN ScheduleAdvance(b) ELSE a
          IN  IF Returned(a, c) THEN SchedUnlock(c) ELSE c
    BY DEF SchedResume
<1> HIDE DEF a, b
<1>5. Consistent(b, w)
    BY <1>1, <1>3, Frame
<1>6. MaySwitch(b, w)
    BY <1>3, <1>5 DEF MaySwitch, SameQueues, WithStatus
<1>7. /\ SwitchedAway(b, ScheduleAdvance(b), w) /\ ~Returned(b, ScheduleAdvance(b))
      /\ ScheduleAdvance(b).irq = b.irq
    BY <1>3, <1>6, AdvanceOK
<1>8. SchedResume(k) = ScheduleAdvance(b)
    BY <1>3, <1>4, <1>7 DEF Returned
<1> QED  BY <1>3, <1>7, <1>8 DEF SwitchedAway, SameQueues, Quiet

\* A sched_resume that finds no switch put off returns at once.
LEMMA ResumeReturn ==
    ASSUME NEW k \in State, k.flag = FALSE
    PROVE  /\ SchedResume(k) \in State /\ SameQueues(k, SchedResume(k))
           /\ SchedResume(k).sw = Dec(k.sw) /\ SchedResume(k).flag = FALSE
           /\ SchedResume(k).left = k.left /\ SchedResume(k).frames = k.frames
           /\ SchedResume(k).irq = Dec(k.irq)
<1> DEFINE a == [k EXCEPT !.sw = Dec(@)]
<1>1. /\ a \in State /\ SameQueues(k, a) /\ a.sw = Dec(k.sw) /\ a.flag = FALSE
      /\ a.left = k.left /\ a.frames = k.frames /\ a.irq = k.irq
    <2>1. Dec(k.sw) \in Nat
        BY Counters
    <2>2. a \in State
        BY <2>1 DEF State
    <2> QED  BY <2>2 DEF State, SameQueues
<1>2. SchedResume(k) = SchedUnlock(a)
    <2>1. ~(a.sw = 0 /\ a.flag)
        BY <1>1
    <2> QED  BY <2>1 DEF SchedResume, Returned
<1> HIDE DEF a
<1>3. SchedUnlock(a) \in State /\ SameQueues(a, SchedUnlock(a))
    BY <1>1, LockTypes
<1>4. /\ SchedUnlock(a).sw = a.sw /\ SchedUnlock(a).flag = a.flag
      /\ SchedUnlock(a).left = a.left /\ SchedUnlock(a).frames = a.frames
      /\ SchedUnlock(a).irq = Dec(a.irq)
    BY <1>1 DEF SchedUnlock, State
<1> QED  BY <1>1, <1>2, <1>3, <1>4 DEF SameQueues

\* With nobody else ready, a running process keeps the CPU.
LEMMA ResumeStay ==
    ASSUME NEW k \in State, k.sw = 1, k.ready = <<>>, k.status[k.current] = "RUNNING"
    PROVE  /\ SchedResume(k) \in State /\ SameQueues(k, SchedResume(k))
           /\ SchedResume(k).sw = 0 /\ SchedResume(k).flag = FALSE
           /\ SchedResume(k).left = k.left /\ SchedResume(k).frames = k.frames
           /\ SchedResume(k).irq = Dec(k.irq)
<1> DEFINE a == [k EXCEPT !.sw = Dec(@)]
           b == [a EXCEPT !.flag = FALSE]
<1>1. Dec(k.sw) = 0 /\ k.flag \in BOOLEAN
    BY DEF Dec, State
<1>2. CASE k.flag = FALSE
    BY <1>1, <1>2, ResumeReturn
<1>3. CASE k.flag = TRUE
    <2>1. b = [k EXCEPT !.sw = 0, !.flag = FALSE]
        BY <1>1 DEF State
    <2>2. 0 \in Nat /\ FALSE \in BOOLEAN
        OBVIOUS
    <2>3. [k EXCEPT !.sw = 0, !.flag = FALSE] \in State
        BY <2>2, Zenon DEF State
    <2>4. /\ b \in State /\ SameQueues(k, b) /\ b.sw = 0 /\ b.flag = FALSE
          /\ b.left = k.left /\ b.frames = k.frames /\ b.irq = k.irq
        BY <2>1, <2>3 DEF State, SameQueues
    <2>5. /\ a.sw = 0 /\ a.flag = TRUE
          /\ a.frames = b.frames /\ a.current = b.current
        BY <1>1, <1>3 DEF State
    <2>6. SchedResume(k) =
              LET c == IF a.sw = 0 /\ a.flag THEN ScheduleAdvance(b) ELSE a
              IN  IF Returned(a, c) THEN SchedUnlock(c) ELSE c
        BY DEF SchedResume
    <2> HIDE DEF a, b
    <2>7. ScheduleAdvance(b) = b
        BY <2>4 DEF ScheduleAdvance, SameQueues
    <2>8. SchedResume(k) = SchedUnlock(b)
        BY <2>5, <2>6, <2>7 DEF Returned
    <2>9. SchedUnlock(b) \in State /\ SameQueues(b, SchedUnlock(b))
        BY <2>4, LockTypes
    <2>10. /\ SchedUnlock(b).sw = b.sw /\ SchedUnlock(b).flag = b.flag
           /\ SchedUnlock(b).left = b.left /\ SchedUnlock(b).frames = b.frames
           /\ SchedUnlock(b).irq = Dec(b.irq)
        BY <2>4 DEF SchedUnlock, State
    <2> QED  BY <2>4, <2>8, <2>9, <2>10 DEF SameQueues
<1> QED  BY <1>1, <1>2, <1>3

\* The same for sched_yield.
LEMMA YieldStay ==
    ASSUME NEW k \in State, k.sw = 0, k.ready = <<>>, k.status[k.current] = "RUNNING"
    PROVE  /\ SchedYield(k) \in State /\ SameQueues(k, SchedYield(k))
           /\ SchedYield(k).sw = 0 /\ SchedYield(k).flag = k.flag
<1> DEFINE a == SchedLock(k)
<1>1. a \in State /\ SameQueues(k, a)
    BY LockTypes
<1>2. a.sw = 0 /\ a.flag = k.flag
    BY DEF SchedLock, State
<1>3. SchedYield(k) = IF Returned(a, ScheduleAdvance(a))
                      THEN SchedUnlock(ScheduleAdvance(a)) ELSE ScheduleAdvance(a)
    BY DEF SchedYield
<1> HIDE DEF a
<1>4. ScheduleAdvance(a) = a
    BY <1>1, <1>2 DEF ScheduleAdvance, SameQueues
<1>5. SchedYield(k) = SchedUnlock(a)
    BY <1>3, <1>4 DEF Returned
<1>6. SchedUnlock(a) \in State /\ SameQueues(a, SchedUnlock(a))
    BY <1>1, LockTypes
<1>7. SchedUnlock(a).sw = a.sw /\ SchedUnlock(a).flag = a.flag
    BY <1>1 DEF SchedUnlock, State
<1> QED  BY <1>1, <1>2, <1>5, <1>6, <1>7 DEF SameQueues

-----------------------------------------------------------------------------
\* Inside a postponed section a request to switch only raises the flag.
LEMMA PutOff ==
    ASSUME NEW k \in State, k.sw > 0
    PROVE  /\ AdvanceLater(k) \in State /\ SameQueues(k, AdvanceLater(k))
           /\ AdvanceLater(k).sw = k.sw /\ AdvanceLater(k).flag = TRUE
           /\ AdvanceLater(k).left = k.left
           /\ AdvanceLater(k).irq = k.irq /\ AdvanceLater(k).frames = k.frames
<1> DEFINE a == SchedLock(k)
           b == [a EXCEPT !.flag = TRUE]
<1>1. /\ a \in State /\ SameQueues(k, a) /\ a.sw = k.sw /\ a.left = k.left
      /\ a.irq = k.irq + 1 /\ a.frames = k.frames
    <2>1. a.sw = k.sw /\ a.left = k.left /\ a.irq = k.irq + 1 /\ a.frames = k.frames
        BY DEF SchedLock, State
    <2> QED  BY <2>1, LockTypes
<1> HIDE DEF a
<1>2. /\ b \in State /\ SameQueues(k, b) /\ b.sw = k.sw /\ b.flag = TRUE /\ b.left = k.left
      /\ b.irq = k.irq + 1 /\ b.frames = k.frames
    BY <1>1 DEF State, SameQueues
<1>3. AdvanceLater(k) = SchedUnlock(b)
    BY <1>1 DEF AdvanceLater, ScheduleAdvance, a
<1> HIDE DEF b
<1>4. /\ SchedUnlock(b) \in State /\ SameQueues(b, SchedUnlock(b))
    BY <1>2, LockTypes
<1>5. /\ SchedUnlock(b).sw = b.sw /\ SchedUnlock(b).flag = b.flag
      /\ SchedUnlock(b).left = b.left
      /\ SchedUnlock(b).irq = Dec(b.irq) /\ SchedUnlock(b).frames = b.frames
    BY <1>2 DEF SchedUnlock, State
<1>6. Dec(k.irq + 1) = k.irq
    BY Counters
<1> QED  BY <1>2, <1>3, <1>4, <1>5, <1>6 DEF SameQueues

\* sched_postpone counts up and touches no queue.
LEMMA PostponeEffect ==
    ASSUME NEW k \in State
    PROVE  /\ SchedPostpone(k) \in State /\ SameQueues(k, SchedPostpone(k))
           /\ SchedPostpone(k).sw = k.sw + 1 /\ SchedPostpone(k).flag = k.flag
           /\ SchedPostpone(k).left = k.left
           /\ SchedPostpone(k).irq = k.irq + 1 /\ SchedPostpone(k).frames = k.frames
<1>1. /\ SchedPostpone(k).sw = k.sw + 1 /\ SchedPostpone(k).flag = k.flag
      /\ SchedPostpone(k).left = k.left
      /\ SchedPostpone(k).irq = k.irq + 1 /\ SchedPostpone(k).frames = k.frames
    BY DEF SchedPostpone, State
<1> QED  BY <1>1, LockTypes

\* There is always a longest prefix of the sleeping queue that is due.
LEMMA DuePrefixExists ==
    ASSUME NEW k \in State, NEW n \in Nat
    PROVE  /\ DuePrefix(k, n) \in 0..Len(k.sleeping)
           /\ \A i \in 1..DuePrefix(k, n) : k.left[k.sleeping[i]] <= n
           /\ DuePrefix(k, n) < Len(k.sleeping) =>
                k.left[k.sleeping[DuePrefix(k, n) + 1]] > n
<1> DEFINE N == Len(k.sleeping)
           Stop == {i \in 0..N : i < N => k.left[k.sleeping[i + 1]] > n}
<1>1. /\ k.sleeping \in Seq(Proc) /\ N \in Nat /\ k.left \in [Proc -> Nat]
      /\ \A i \in 1..N : k.left[k.sleeping[i]] \in Nat
    <2>1. k.sleeping \in Seq(Proc) /\ k.left \in [Proc -> Nat]
        BY DEF State
    <2>2. N \in Nat /\ \A i \in 1..N : k.sleeping[i] \in Proc
        BY <2>1, SeqItems
    <2> QED  BY <2>1, <2>2
<1>2. Stop \subseteq Nat /\ N \in Stop
    BY <1>1
<1>3. PICK m \in Stop : \A y \in Stop : ~(<<y, m>> \in OpToRel(<, Nat))
    <2> HIDE DEF Stop
    <2> QED  BY <1>2, WFMin, NatLessThanWellFounded
<1>4. \A y \in Stop : ~(y < m)
    BY <1>2, <1>3 DEF OpToRel
<1>5. m \in 0..N /\ (m < N => k.left[k.sleeping[m + 1]] > n)
    OBVIOUS
<1>6. \A i \in 1..m : k.left[k.sleeping[i]] <= n
    <2> TAKE i \in 1..m
    <2>1. i - 1 \in 0..N /\ i - 1 < m /\ i - 1 < N /\ (i - 1) + 1 = i /\ i \in 1..N
        BY <1>1, <1>5
    <2>2. i - 1 \notin Stop
        BY <1>4, <2>1
    <2>3. ~(k.left[k.sleeping[i]] > n)
        BY <2>1, <2>2
    <2> QED  BY <1>1, <2>1, <2>3
<1> HIDE DEF N, Stop
<1> QED  BY <1>5, <1>6 DEF DuePrefix, N

\* A postponed section in which nothing asks for a switch, from state s to j.
Passed(s, j) ==
    /\ j \in State /\ SameQueues(s, j)
    /\ j.sw = s.sw /\ j.flag = FALSE /\ j.left = s.left
    /\ j.irq = s.irq /\ j.frames = s.frames

\* The section itself, wherever it is.
LEMMA SectionPassed ==
    ASSUME NEW s \in State, s.flag = FALSE
    PROVE  Passed(s, SchedResume(SchedPostpone(s)))
<1> DEFINE a == SchedPostpone(s)
           j == SchedResume(a)
<1>1. /\ a \in State /\ SameQueues(s, a) /\ a.sw = s.sw + 1 /\ a.flag = FALSE
      /\ a.left = s.left /\ a.irq = s.irq + 1 /\ a.frames = s.frames
    BY PostponeEffect
<1>2. Dec(s.sw + 1) = s.sw /\ Dec(s.irq + 1) = s.irq
    BY Counters
<1> HIDE DEF a
<1>3. /\ j \in State /\ SameQueues(a, j) /\ j.sw = Dec(a.sw) /\ j.flag = FALSE
      /\ j.left = a.left /\ j.irq = Dec(a.irq) /\ j.frames = a.frames
    BY <1>1, ResumeReturn
<1> HIDE DEF j
<1>4. Passed(s, j)
    BY <1>1, <1>2, <1>3 DEF Passed, SameQueues
<1> QED  BY <1>4 DEF a, j

\* A sched_resume under another lock leaves interrupts off.
LEMMA ResumeInts ==
    ASSUME NEW k \in State, k.flag = FALSE, k.irq > 1, k.ints = FALSE
    PROVE  SchedResume(k).ints = FALSE
<1> DEFINE a == [k EXCEPT !.sw = Dec(@)]
<1>1. a.flag = FALSE /\ a.irq = k.irq /\ a.ints = FALSE
    BY DEF State
<1>2. SchedResume(k) = SchedUnlock(a)
    <2>1. ~(a.sw = 0 /\ a.flag)
        BY <1>1
    <2> QED  BY <2>1 DEF SchedResume, Returned
<1>3. Dec(a.irq) # 0
    BY <1>1 DEF Dec, State
<1>4. SchedUnlock(a).ints = (a.ints \/ Dec(a.irq) = 0)
    BY DEF SchedUnlock, State
<1> HIDE DEF a
<1> QED  BY <1>1, <1>2, <1>3, <1>4

\* The same for a whole section.
LEMMA SectionInts ==
    ASSUME NEW s \in State, s.flag = FALSE, s.irq > 0
    PROVE  SchedResume(SchedPostpone(s)).ints = FALSE
<1> DEFINE a == SchedPostpone(s)
<1>1. a \in State /\ a.flag = FALSE /\ a.irq = s.irq + 1 /\ s.irq \in Nat
    BY PostponeEffect DEF State
<1>2. a.ints = FALSE
    BY DEF SchedPostpone, State
<1> HIDE DEF a
<1>3. a.irq > 1
    BY <1>1
<1>4. SchedResume(a).ints = FALSE
    BY <1>1, <1>2, <1>3, ResumeInts
<1> QED  BY <1>4 DEF a

-----------------------------------------------------------------------------
\* A switch away from c adds one call.
LEMMA CallsUp ==
    ASSUME NEW f \in [Proc -> Nat], NEW c \in Proc
    PROVE  /\ Unreturned([f EXCEPT ![c] = @ + 1]) = Unreturned(f) \cup {<<c, f[c] + 1>>}
           /\ <<c, f[c] + 1>> \notin Unreturned(f)
<1> DEFINE g == [f EXCEPT ![c] = @ + 1]
<1>1. /\ g \in [Proc -> Nat] /\ g[c] = f[c] + 1 /\ f[c] \in Nat
      /\ \A p \in Proc \ {c} : g[p] = f[p]
    OBVIOUS
<1>2. 1..(f[c] + 1) = (1..f[c]) \cup {f[c] + 1} /\ f[c] + 1 \notin 1..f[c]
    BY <1>1
<1> HIDE DEF g
<1>3. Unreturned(g) \subseteq Unreturned(f) \cup {<<c, f[c] + 1>>}
    <2> SUFFICES ASSUME NEW p \in Proc, NEW n \in 1..g[p]
                 PROVE  <<p, n>> \in Unreturned(f) \cup {<<c, f[c] + 1>>}
        BY DEF Unreturned
    <2>1. CASE p # c
        BY <1>1, <2>1 DEF Unreturned
    <2>2. CASE p = c
        BY <1>1, <1>2, <2>2 DEF Unreturned
    <2> QED  BY <2>1, <2>2
<1>4. Unreturned(f) \cup {<<c, f[c] + 1>>} \subseteq Unreturned(g)
    <2>1. <<c, f[c] + 1>> \in Unreturned(g)
        BY <1>1, <1>2 DEF Unreturned
    <2>2. ASSUME NEW p \in Proc, NEW n \in 1..f[p] PROVE <<p, n>> \in Unreturned(g)
        <3>1. n \in 1..g[p]
            BY <1>1, <1>2
        <3> QED  BY <3>1 DEF Unreturned
    <2> QED  BY <2>1, <2>2 DEF Unreturned
<1>5. <<c, f[c] + 1>> \notin Unreturned(f)
    BY <1>2 DEF Unreturned
<1> QED  BY <1>3, <1>4, <1>5 DEF g

\* The return of a call takes it away again.
LEMMA CallsDown ==
    ASSUME NEW f \in [Proc -> Nat], NEW c \in Proc, f[c] > 0
    PROVE  /\ Unreturned([f EXCEPT ![c] = @ - 1]) = Unreturned(f) \ {<<c, f[c]>>}
           /\ <<c, f[c]>> \in Unreturned(f)
<1> DEFINE g == [f EXCEPT ![c] = @ - 1]
<1>1. g \in [Proc -> Nat] /\ g[c] + 1 = f[c]
    <2>1. f[c] - 1 \in Nat /\ (f[c] - 1) + 1 = f[c]
        OBVIOUS
    <2> QED  BY <2>1
<1>2. f = [g EXCEPT ![c] = @ + 1]
    BY <1>1
<1> HIDE DEF g
<1>3. Unreturned(f) = Unreturned(g) \cup {<<c, f[c]>>} /\ <<c, f[c]>> \notin Unreturned(g)
    BY <1>1, <1>2, CallsUp
<1> QED  BY <1>3 DEF g

\* A call that switches away from the current process leaves one lock count and
\* one unreturned switch behind.
Owing(k, j) ==
    j.irq = k.irq + 1 /\ j.frames = [k.frames EXCEPT ![k.current] = @ + 1]

\* A process gives up the CPU for another status: every other process keeps
\* its status up to being preempted or resumed.
GaveUp(k, j, w, reason) ==
    /\ Consistent(j, w) /\ CurrentOK(j) /\ Owing(k, j)
    /\ j.current # k.current
    /\ j.sw = 0 /\ j.flag = FALSE
    /\ j.ints = (j.status[j.current] # "UNINITIALIZED")
    /\ j.status[k.current] = reason
    /\ \A p \in Proc \ {k.current} :
         \/ j.status[p] = k.status[p]
         \/ /\ k.status[p] \in {"RUNNING", "READY_TO_RUN"}
            /\ j.status[p] \in {"RUNNING", "READY_TO_RUN"}

\* The state of a process about to call into the scheduler.
Calling(k, w) ==
    /\ MaySwitch(k, w)
    /\ k.status[k.current] = "RUNNING"
    /\ k.sw = 0 /\ k.flag = FALSE

\* The process on the CPU runs outside every postponed section.
Steady(k, w) ==
    /\ Consistent(k, w)
    /\ k.status[k.current] = "RUNNING"
    /\ WithStatus(k, {"RUNNING"}) \subseteq {k.current}
    /\ k.sw = 0 /\ k.flag = FALSE

LEMMA CallingSteady ==
    ASSUME NEW k, NEW w PROVE Calling(k, w) <=> Steady(k, w) /\ k.ready # <<>>
BY DEF Calling, Steady, MaySwitch

\* The outermost sched_resume after the current process was put aside.
LEMMA LeaveOK ==
    ASSUME NEW k, NEW d, NEW w, NEW reason, Calling(k, w), Consistent(d, w),
           reason \in {"SLEEPING_TIMER", "BLOCKED", "READY_TO_DIE"},
           d.current = k.current, d.ready = k.ready, d.sw = 1, d.flag = TRUE,
           d.irq = k.irq + 1, d.frames = k.frames,
           d.status = [k.status EXCEPT ![k.current] = reason]
    PROVE  /\ GaveUp(k, SchedResume(d), w, reason)
           /\ SchedResume(d).dying = d.dying
           /\ SchedResume(d).waitq = d.waitq
           /\ SchedResume(d).sleeping = d.sleeping
           /\ SchedResume(d).left = d.left
<1> DEFINE j == SchedResume(d)
<1>1. k \in State /\ k.current \in Proc /\ k.status \in [Proc -> Status]
    BY DEF Consistent, Calling, MaySwitch, State
<1>2. MaySwitch(d, w)
    BY <1>1 DEF MaySwitch, Calling, WithStatus
<1>3. SwitchedAway(d, j, w) /\ j.irq = d.irq
    BY <1>2, ResumeSwitch
<1> HIDE DEF j
<1>4. j.status[k.current] = reason
    BY <1>1, <1>3 DEF SwitchedAway, Quiet
<1>5. \A p \in Proc \ {k.current} : d.status[p] = k.status[p]
    BY <1>1
<1>6. GaveUp(k, j, w, reason)
    BY <1>3, <1>4, <1>5 DEF GaveUp, SwitchedAway, Quiet, Owing
<1> QED  BY <1>3, <1>6 DEF j, SwitchedAway

\* The last two calls of every function that puts the current process to sleep.
LEMMA GiveUp ==
    ASSUME NEW k, NEW b, NEW w, NEW reason, Calling(k, w), Consistent(b, w),
           reason \in {"SLEEPING_TIMER", "BLOCKED", "READY_TO_DIE"},
           b.current = k.current, b.ready = k.ready, b.sw = 1,
           b.irq = k.irq + 1, b.frames = k.frames,
           b.status = [k.status EXCEPT ![k.current] = reason]
    PROVE  /\ GaveUp(k, SchedResume(AdvanceLater(b)), w, reason)
           /\ SchedResume(AdvanceLater(b)).dying = b.dying
           /\ SchedResume(AdvanceLater(b)).waitq = b.waitq
           /\ SchedResume(AdvanceLater(b)).sleeping = b.sleeping
           /\ SchedResume(AdvanceLater(b)).left = b.left
<1> DEFINE d == AdvanceLater(b)
<1>1. b \in State /\ b.sw > 0
    BY DEF Consistent
<1>2. /\ d \in State /\ SameQueues(b, d) /\ d.sw = 1 /\ d.flag = TRUE
      /\ d.irq = b.irq /\ d.frames = b.frames /\ d.left = b.left
    <2>1. /\ d \in State /\ SameQueues(b, d) /\ d.sw = b.sw /\ d.flag = TRUE
          /\ d.irq = b.irq /\ d.frames = b.frames /\ d.left = b.left
        BY <1>1, PutOff
    <2> QED  BY <2>1
<1> HIDE DEF d
<1>3. Consistent(d, w)
    BY <1>2, Frame
<1>4. /\ d.current = k.current /\ d.ready = k.ready /\ d.dying = b.dying
      /\ d.waitq = b.waitq /\ d.sleeping = b.sleeping
      /\ d.irq = k.irq + 1 /\ d.frames = k.frames /\ d.sw = 1 /\ d.flag = TRUE
      /\ d.status = [k.status EXCEPT ![k.current] = reason]
    BY <1>2 DEF SameQueues
<1>5. /\ GaveUp(k, SchedResume(d), w, reason)
      /\ SchedResume(d).dying = d.dying
      /\ SchedResume(d).waitq = d.waitq
      /\ SchedResume(d).sleeping = d.sleeping
      /\ SchedResume(d).left = d.left
    BY <1>3, <1>4, LeaveOK
<1> QED  BY <1>2, <1>4, <1>5 DEF d

\* sleep_current_ns.
LEMMA SleepOK ==
    ASSUME NEW k, NEW w, NEW n \in Nat, Calling(k, w)
    PROVE  /\ GaveUp(k, SleepCurrentNs(k, n), w, "SLEEPING_TIMER")
           /\ SleepCurrentNs(k, n).dying = k.dying
           /\ SleepCurrentNs(k, n).waitq = k.waitq
           /\ SleepCurrentNs(k, n).left = [k.left EXCEPT ![k.current] = n]
           /\ SleepCurrentNs(k, n).sleeping =
                InsertBehind(k.sleeping, DuePrefix(k, n), k.current)
<1> DEFINE c == k.current
           a == SchedPostpone(k)
           m == DuePrefix(a, n)
           q == InsertBehind(k.sleeping, m, c)
           st == [k.status EXCEPT ![c] = "SLEEPING_TIMER"]
           b == [a EXCEPT !.left[c] = n, !.status[c] = "SLEEPING_TIMER",
                          !.sleeping = InsertBehind(@, m, c)]
<1>1. /\ k \in State /\ c \in Proc /\ w \in Seq(Proc) /\ QueuesOK(k, w)
      /\ WaitQueuesOK(k) /\ k.status[c] = "RUNNING" /\ k.sw = 0
    BY DEF Calling, MaySwitch, Consistent
<1>2. /\ k.sleeping \in Seq(Proc) /\ k.status \in [Proc -> Status]
      /\ k.left \in [Proc -> Nat]
    BY <1>1 DEF State
<1>3. /\ a \in State /\ SameQueues(k, a) /\ a.sw = 1 /\ a.left = k.left
      /\ a.irq = k.irq + 1 /\ a.frames = k.frames
    BY <1>1, PostponeEffect
<1>4. m \in 0..Len(k.sleeping) /\ m = DuePrefix(k, n)
    <2>1. m = DuePrefix(k, n)
        BY <1>3 DEF SameQueues, DuePrefix
    <2> QED  BY <1>1, <2>1, DuePrefixExists
<1> HIDE DEF m
<1>5. c \notin Range(k.sleeping)
    BY <1>1 DEF QueuesOK, WithStatus
<1>6. IsInjective(k.sleeping)
    BY <1>1 DEF QueuesOK
<1>7. q \in Seq(Proc) /\ IsInjective(q) /\ Range(q) = Range(k.sleeping) \cup {c}
    BY <1>1, <1>2, <1>4, <1>5, <1>6, Insert
<1>8. /\ b = [a EXCEPT !.left = [k.left EXCEPT ![c] = n], !.status = st,
                       !.sleeping = q]
    BY <1>3 DEF State, SameQueues
<1> HIDE DEF q, a
<1>9. st \in [Proc -> Status] /\ [k.left EXCEPT ![c] = n] \in [Proc -> Nat]
    BY <1>2 DEF Status
<1> HIDE DEF st
<1>10. b \in State
    BY <1>3, <1>7, <1>8, <1>9, Zenon DEF State
<1>11. /\ b.status = st /\ b.sleeping = q /\ b.current = c /\ b.ready = k.ready
       /\ b.dying = k.dying /\ b.waitq = k.waitq /\ b.sw = 1
       /\ b.left = [k.left EXCEPT ![c] = n]
       /\ b.irq = k.irq + 1 /\ b.frames = k.frames
    BY <1>3, <1>8 DEF State, SameQueues
<1> HIDE DEF b
<1>12. st[c] = "SLEEPING_TIMER" /\ \A p \in Proc \ {c} : st[p] = k.status[p]
    BY <1>1, <1>2 DEF st
<1>13. QueuesOK(b, w)
    <2>1. WithStatus(b, {"SLEEPING_TIMER"}) = WithStatus(k, {"SLEEPING_TIMER"}) \cup {c}
        BY <1>1, <1>11, <1>12 DEF WithStatus
    <2>2. /\ WithStatus(b, {"READY_TO_RUN", "UNINITIALIZED"})
               = WithStatus(k, {"READY_TO_RUN", "UNINITIALIZED"})
          /\ WithStatus(b, {"READY_TO_DIE"}) = WithStatus(k, {"READY_TO_DIE"})
        BY <1>1, <1>11, <1>12 DEF WithStatus
    <2> HIDE DEF c
    <2> QED  BY <1>1, <1>7, <1>11, <2>1, <2>2 DEF QueuesOK, c
<1>14. WaitQueuesOK(b)
    BY <1>1, <1>11, <1>12 DEF WaitQueuesOK
<1>15. Consistent(b, w)
    BY <1>1, <1>10, <1>11, <1>13, <1>14 DEF Consistent
<1>16. /\ GaveUp(k, SchedResume(AdvanceLater(b)), w, "SLEEPING_TIMER")
       /\ SchedResume(AdvanceLater(b)).dying = b.dying
       /\ SchedResume(AdvanceLater(b)).waitq = b.waitq
       /\ SchedResume(AdvanceLater(b)).left = b.left
       /\ SchedResume(AdvanceLater(b)).sleeping = b.sleeping
    BY <1>11, <1>15, GiveUp DEF st
<1>17. SleepCurrentNs(k, n) = SchedResume(AdvanceLater(b))
    BY DEF SleepCurrentNs, a, b, m
<1> QED  BY <1>4, <1>11, <1>16, <1>17 DEF q

-----------------------------------------------------------------------------
\* wake_procs_before_timestamp moves a prefix of the sleeping queue.
LEMMA WakeDue ==
    ASSUME NEW k, NEW w, Consistent(k, w), k.status[k.current] = "RUNNING",
           NEW b, b = WakeProcsBeforeTimestamp(k)
    PROVE  /\ Consistent(b, w)
           /\ b.current = k.current /\ b.dying = k.dying /\ b.waitq = k.waitq
           /\ b.sw = k.sw /\ b.flag = k.flag /\ b.frames = k.frames
           /\ b.irq = k.irq /\ b.left = k.left
           /\ b.sleeping = SubSeq(k.sleeping, DuePrefix(k, 0) + 1, Len(k.sleeping))
           /\ \A p \in Proc : \/ b.status[p] = k.status[p]
                              \/ /\ k.status[p] = "SLEEPING_TIMER"
                                 /\ b.status[p] = "READY_TO_RUN"
<1> DEFINE m == DuePrefix(k, 0)
           due == SubSeq(k.sleeping, 1, m)
           rest == SubSeq(k.sleeping, m + 1, Len(k.sleeping))
           st == [p \in Proc |-> IF p \in Range(due)
                                THEN "READY_TO_RUN" ELSE k.status[p]]
<1>1. /\ k \in State /\ k.current \in Proc /\ w \in Seq(Proc) /\ QueuesOK(k, w)
      /\ WaitQueuesOK(k)
    BY DEF Consistent
<1>2. /\ k.sleeping \in Seq(Proc) /\ k.ready \in Seq(Proc)
      /\ k.status \in [Proc -> Status]
    BY <1>1 DEF State
<1>3. m \in 0..Len(k.sleeping)
    BY <1>1, DuePrefixExists
<1> HIDE DEF m
<1>4. /\ due \in Seq(Proc) /\ rest \in Seq(Proc)
      /\ Range(k.sleeping) = Range(due) \cup Range(rest)
      /\ IsInjective(due) /\ IsInjective(rest) /\ Range(due) \cap Range(rest) = {}
    <2>1. IsInjective(k.sleeping)
        BY <1>1 DEF QueuesOK
    <2> QED  BY <1>2, <1>3, <2>1, Cut
<1>5. b = [k EXCEPT !.status = st, !.ready = k.ready \o due, !.sleeping = rest]
    BY DEF WakeProcsBeforeTimestamp, m
<1> HIDE DEF due, rest
<1>6. /\ \A p \in Range(due) : p \in Proc /\ k.status[p] = "SLEEPING_TIMER"
      /\ \A p \in Range(rest) : p \in Proc /\ k.status[p] = "SLEEPING_TIMER"
      /\ \A p \in Proc : k.status[p] = "SLEEPING_TIMER" =>
                             p \in Range(due) \cup Range(rest)
    BY <1>1, <1>4 DEF QueuesOK, WithStatus
<1>7. Range(k.ready) \cap Range(due) = {} /\ IsInjective(k.ready)
    BY <1>1, <1>6 DEF QueuesOK, WithStatus
<1>8. /\ k.ready \o due \in Seq(Proc) /\ IsInjective(k.ready \o due)
      /\ Range(k.ready \o due) = Range(k.ready) \cup Range(due)
    BY <1>2, <1>4, <1>7, Splice
<1>9. st \in [Proc -> Status]
    BY <1>2 DEF Status
<1>10. \A p \in Proc : st[p] = IF p \in Range(due) THEN "READY_TO_RUN"
                               ELSE k.status[p]
    OBVIOUS
<1> HIDE DEF st
<1>11. b \in State
    BY <1>1, <1>4, <1>5, <1>8, <1>9, Zenon DEF State
<1>12. /\ b.status = st /\ b.ready = k.ready \o due /\ b.sleeping = rest
       /\ b.current = k.current /\ b.dying = k.dying /\ b.waitq = k.waitq
       /\ b.sw = k.sw /\ b.flag = k.flag /\ b.frames = k.frames
       /\ b.irq = k.irq /\ b.left = k.left
    BY <1>1, <1>5 DEF State
<1>14. /\ WithStatus(b, {"SLEEPING_TIMER"}) = Range(rest)
       /\ WithStatus(b, {"READY_TO_DIE"}) = WithStatus(k, {"READY_TO_DIE"})
       /\ \A p \in Proc : b.status[p] = "BLOCKED" <=> k.status[p] = "BLOCKED"
    <2>1. \A p \in Proc : b.status[p] = IF p \in Range(due) THEN "READY_TO_RUN"
                                       ELSE k.status[p]
        BY <1>10, <1>12
    <2>2. WithStatus(b, {"SLEEPING_TIMER"}) = Range(rest)
        BY <1>4, <1>6, <2>1 DEF WithStatus
    <2>3. WithStatus(b, {"READY_TO_DIE"}) = WithStatus(k, {"READY_TO_DIE"})
        BY <1>6, <2>1 DEF WithStatus
    <2>4. \A p \in Proc : b.status[p] = "BLOCKED" <=> k.status[p] = "BLOCKED"
        BY <1>6, <2>1
    <2> QED  BY <2>2, <2>3, <2>4
<1>15. WithStatus(b, {"READY_TO_RUN", "UNINITIALIZED"})
         = WithStatus(k, {"READY_TO_RUN", "UNINITIALIZED"}) \cup Range(due)
    BY <1>6, <1>10, <1>12 DEF WithStatus
<1>16. k.current \notin Range(due)
    BY <1>6
<1>17. QueuesOK(b, w)
    BY <1>1, <1>4, <1>8, <1>12, <1>14, <1>15, <1>16 DEF QueuesOK
<1>18. WaitQueuesOK(b)
    BY <1>1, <1>12, <1>14 DEF WaitQueuesOK
<1>19. Consistent(b, w)
    BY <1>1, <1>11, <1>12, <1>17, <1>18 DEF Consistent
<1> QED  BY <1>6, <1>10, <1>12, <1>19 DEF rest, m

\* The state k one tick later, before anyone is woken.
Later(k) == [k EXCEPT !.left = [p \in Proc |-> Dec(@[p])]]

\* A timer interrupt: due sleepers become ready and the CPU may change hands.
Ticked(k, j, w) ==
    /\ Consistent(j, w) /\ CurrentOK(j)
    /\ j.sw = 0 /\ j.flag = FALSE
    /\ j.dying = k.dying /\ j.waitq = k.waitq
    /\ j.left = [p \in Proc |-> Dec(k.left[p])]
    /\ j.sleeping = SubSeq(k.sleeping, DuePrefix(Later(k), 0) + 1, Len(k.sleeping))
    /\ \/ j.current = k.current /\ j.frames = k.frames /\ j.irq = k.irq
          /\ j.status[j.current] = "RUNNING"
       \/ j.current # k.current /\ Owing(k, j)
          /\ j.ints = (j.status[j.current] # "UNINITIALIZED")
    /\ \A p \in Proc : \/ j.status[p] = k.status[p]
                       \/ /\ k.status[p] \in {"RUNNING", "READY_TO_RUN", "SLEEPING_TIMER"}
                          /\ j.status[p] \in {"RUNNING", "READY_TO_RUN"}

\* handle_timer wakes the sleepers that are due and switches, if at all, in a
\* consistent state.
LEMMA TimerOK ==
    ASSUME NEW k, NEW w, Steady(k, w)
    PROVE  Ticked(k, HandleTimer(k), w)
<1> DEFINE l == [p \in Proc |-> Dec(k.left[p])]
           e == [k EXCEPT !.left = l]
           a == SchedPostpone(e)
           b == WakeProcsBeforeTimestamp(a)
<1>1. /\ Consistent(k, w) /\ k \in State /\ k.current \in Proc
      /\ k.left \in [Proc -> Nat]
      /\ k.status[k.current] = "RUNNING" /\ k.sw = 0 /\ k.flag = FALSE
      /\ WithStatus(k, {"RUNNING"}) \subseteq {k.current}
    BY DEF Steady, Consistent, State
<1>2. l \in [Proc -> Nat]
    <2>1. \A p \in Proc : Dec(k.left[p]) \in Nat
        BY <1>1 DEF Dec
    <2> QED  BY <2>1
<1> HIDE DEF l
<1>3. /\ e \in State /\ SameQueues(k, e) /\ e.sw = 0 /\ e.flag = FALSE
      /\ e.frames = k.frames /\ e.irq = k.irq /\ e.left = l /\ e = Later(k)
    <2>1. e \in State
        BY <1>1, <1>2, Zenon DEF State
    <2>2. e = Later(k)
        BY <1>1 DEF Later, l
    <2> QED  BY <1>1, <2>1, <2>2 DEF State, SameQueues
<1> HIDE DEF e
<1>4. /\ a \in State /\ SameQueues(e, a) /\ a.sw = 1 /\ a.flag = FALSE
      /\ a.frames = k.frames /\ a.irq = k.irq + 1 /\ a.left = l
      /\ DuePrefix(a, 0) = DuePrefix(Later(k), 0)
    <2>1. /\ a \in State /\ SameQueues(e, a) /\ a.sw = e.sw + 1 /\ a.flag = e.flag
          /\ a.left = e.left /\ a.irq = e.irq + 1 /\ a.frames = e.frames
        BY <1>3, PostponeEffect
    <2>2. DuePrefix(a, 0) = DuePrefix(e, 0)
        BY <2>1 DEF DuePrefix, SameQueues
    <2> QED  BY <1>3, <2>1, <2>2
<1> HIDE DEF a
<1>5. Consistent(a, w) /\ SameQueues(k, a)
    <2>1. SameQueues(k, a)
        BY <1>3, <1>4 DEF SameQueues
    <2> QED  BY <1>1, <1>4, <2>1, Frame
<1>6. /\ Consistent(b, w)
      /\ b.current = k.current /\ b.dying = k.dying /\ b.waitq = k.waitq
      /\ b.sw = 1 /\ b.flag = FALSE /\ b.frames = k.frames
      /\ b.irq = k.irq + 1 /\ b.left = l
      /\ b.sleeping = SubSeq(k.sleeping, DuePrefix(Later(k), 0) + 1, Len(k.sleeping))
      /\ \A p \in Proc : \/ b.status[p] = k.status[p]
                         \/ /\ k.status[p] = "SLEEPING_TIMER"
                            /\ b.status[p] = "READY_TO_RUN"
    <2>1. a.status[a.current] = "RUNNING"
        BY <1>1, <1>5 DEF SameQueues
    <2>2. /\ Consistent(b, w)
          /\ b.current = a.current /\ b.dying = a.dying /\ b.waitq = a.waitq
          /\ b.sw = a.sw /\ b.flag = a.flag /\ b.frames = a.frames
          /\ b.irq = a.irq /\ b.left = a.left
          /\ b.sleeping = SubSeq(a.sleeping, DuePrefix(a, 0) + 1, Len(a.sleeping))
          /\ \A p \in Proc : \/ b.status[p] = a.status[p]
                             \/ /\ a.status[p] = "SLEEPING_TIMER"
                                /\ b.status[p] = "READY_TO_RUN"
        BY <1>5, <2>1, WakeDue
    <2> HIDE DEF b
    <2>3. /\ a.current = k.current /\ a.dying = k.dying /\ a.waitq = k.waitq
          /\ a.ready = k.ready /\ a.sleeping = k.sleeping /\ a.status = k.status
        BY <1>5 DEF SameQueues
    <2> QED  BY <1>1, <1>4, <2>2, <2>3
<1>7. HandleTimer(k) = SchedResume(IF b.quantum THEN AdvanceLater(b) ELSE b)
    BY DEF HandleTimer, b, a, e, l
<1> HIDE DEF b
<1>8. b \in State /\ b.status[k.current] = "RUNNING" /\ WithStatus(b, {"RUNNING"}) \subseteq {k.current}
    BY <1>1, <1>6 DEF Consistent, WithStatus
<1> DEFINE d == IF b.quantum THEN AdvanceLater(b) ELSE b
           j == SchedResume(d)
<1>9. /\ d \in State /\ SameQueues(b, d) /\ d.sw = 1
      /\ d.flag = IF b.quantum THEN TRUE ELSE FALSE
      /\ d.left = l /\ d.irq = k.irq + 1 /\ d.frames = k.frames
    <2>1. CASE b.quantum
        <3>1. b.sw > 0
            BY <1>6
        <3> QED  BY <1>6, <1>8, <2>1, <3>1, PutOff
    <2>2. CASE ~b.quantum
        BY <1>6, <1>8, <2>2 DEF SameQueues
    <2> QED  BY <2>1, <2>2
<1>10. HandleTimer(k) = j
    BY <1>7
<1> HIDE DEF d, j
<1>11. Consistent(d, w)
    BY <1>6, <1>9, Frame
<1>12. /\ d.current = k.current /\ d.dying = k.dying /\ d.waitq = k.waitq
       /\ d.status = b.status /\ d.sleeping = b.sleeping
    BY <1>6, <1>9 DEF SameQueues
<1>13. CASE b.quantum /\ d.ready # <<>>
    <2>1. MaySwitch(d, w) /\ d.sw = 1 /\ d.flag = TRUE
        BY <1>8, <1>9, <1>11, <1>12, <1>13 DEF MaySwitch, WithStatus
    <2>2. SwitchedAway(d, j, w) /\ j.irq = d.irq
        BY <2>1, ResumeSwitch DEF j
    <2>3. \A p \in Proc : \/ j.status[p] = k.status[p]
                         \/ /\ k.status[p] \in {"RUNNING", "READY_TO_RUN", "SLEEPING_TIMER"}
                            /\ j.status[p] \in {"RUNNING", "READY_TO_RUN"}
        BY <1>6, <1>12, <2>2 DEF SwitchedAway, Quiet
    <2>4. /\ Owing(k, j) /\ j.left = l
          /\ j.sleeping = SubSeq(k.sleeping, DuePrefix(Later(k), 0) + 1, Len(k.sleeping))
        BY <1>6, <1>9, <1>12, <2>2 DEF Owing, SwitchedAway
    <2> QED  BY <1>10, <1>12, <2>2, <2>3, <2>4 DEF Ticked, SwitchedAway, l
<1>14. CASE ~(b.quantum /\ d.ready # <<>>)
    <2>1. /\ j \in State /\ SameQueues(d, j) /\ j.sw = 0 /\ j.flag = FALSE
          /\ j.left = d.left /\ j.frames = d.frames /\ j.irq = Dec(d.irq)
        <3>1. CASE ~b.quantum
            <4>1. Dec(d.sw) = 0
                BY <1>9 DEF Dec
            <4> QED  BY <1>9, <3>1, <4>1, ResumeReturn DEF j
        <3>2. CASE d.ready = <<>>
            <4>1. d.status[d.current] = "RUNNING"
                BY <1>8, <1>12
            <4> QED  BY <1>9, <3>2, <4>1, ResumeStay DEF j
        <3> QED  BY <1>14, <3>1, <3>2
    <2>2. Consistent(j, w)
        BY <1>11, <2>1, Frame
    <2>3. CurrentOK(j)
        BY <1>1, <1>8, <1>12, <2>1 DEF CurrentOK, SameQueues, WithStatus
    <2>4. j.irq = k.irq
        <3>1. Dec(k.irq + 1) = k.irq
            BY <1>1, Counters
        <3> QED  BY <1>9, <2>1, <3>1
    <2>5. /\ j.left = l
          /\ j.sleeping = SubSeq(k.sleeping, DuePrefix(Later(k), 0) + 1, Len(k.sleeping))
        BY <1>6, <1>9, <1>12, <2>1 DEF SameQueues
    <2> QED  BY <1>6, <1>8, <1>9, <1>10, <1>12, <2>1, <2>2, <2>3, <2>4, <2>5
                DEF Ticked, SameQueues, l
<1> QED  BY <1>13, <1>14

-----------------------------------------------------------------------------
\* The current process of k is at the end of the wait queue q in j.
Queued(k, j, q) == j.waitq = [k.waitq EXCEPT ![q] = Append(@, k.current)]

\* The current process enters a wait queue in the middle of a postponed section.
Parked(a, b, q) ==
    /\ b.current = a.current /\ b.ready = a.ready
    /\ b.sleeping = a.sleeping /\ b.dying = a.dying /\ b.sw = a.sw
    /\ b.left = a.left /\ b.irq = a.irq /\ b.frames = a.frames
    /\ b.status = [a.status EXCEPT ![a.current] = "BLOCKED"]
    /\ Queued(a, b, q)

Park(a, q) == [[a EXCEPT !.waitq[q] = Append(@, a.current)]
                 EXCEPT !.status[a.current] = "BLOCKED"]

\* The first two assignments of wait_queue_sleep_postponed.
LEMMA ParkOK ==
    ASSUME NEW a, NEW w, NEW q \in WaitQueue, Consistent(a, w),
           a.status[a.current] = "RUNNING"
    PROVE  Consistent(Park(a, q), w) /\ Parked(a, Park(a, q), q)
<1> DEFINE c == a.current
           wq == [a.waitq EXCEPT ![q] = Append(@, c)]
           st == [a.status EXCEPT ![c] = "BLOCKED"]
           b == Park(a, q)
<1>1. /\ a \in State /\ c \in Proc /\ w \in Seq(Proc) /\ QueuesOK(a, w)
      /\ WaitQueuesOK(a) /\ a.status[c] = "RUNNING"
    BY DEF Consistent
<1>2. a.status \in [Proc -> Status] /\ a.waitq \in [WaitQueue -> Seq(Proc)]
    BY <1>1 DEF State
<1>4. b = [a EXCEPT !.waitq = wq, !.status = st]
    BY <1>1 DEF State, Park
<1>6. \A r \in WaitQueue : c \notin Range(a.waitq[r])
    BY <1>1 DEF WaitQueuesOK
<1>7. /\ Append(a.waitq[q], c) \in Seq(Proc) /\ IsInjective(Append(a.waitq[q], c))
      /\ Range(Append(a.waitq[q], c)) = Range(a.waitq[q]) \cup {c}
    <2> DEFINE u == a.waitq[q]
    <2>1. u \in Seq(Proc) /\ IsInjective(u) /\ c \notin Range(u)
        BY <1>1, <1>2, <1>6 DEF WaitQueuesOK
    <2> HIDE DEF u, c
    <2>2. /\ Append(u, c) \in Seq(Proc) /\ IsInjective(Append(u, c))
          /\ Range(Append(u, c)) = Range(u) \cup {c}
        BY <1>1, <2>1, PushTail
    <2> QED  BY <2>2 DEF u
<1>8. wq \in [WaitQueue -> Seq(Proc)] /\ st \in [Proc -> Status]
    BY <1>2, <1>7 DEF Status
<1>9. /\ wq[q] = Append(a.waitq[q], c)
      /\ \A r \in WaitQueue \ {q} : wq[r] = a.waitq[r]
      /\ st[c] = "BLOCKED" /\ \A p \in Proc \ {c} : st[p] = a.status[p]
    BY <1>1, <1>2
<1> HIDE DEF wq, st
<1>10. b \in State
    BY <1>1, <1>4, <1>8, Zenon DEF State
<1>11. /\ b.status = st /\ b.waitq = wq /\ b.current = c /\ b.ready = a.ready
       /\ b.sleeping = a.sleeping /\ b.dying = a.dying /\ b.sw = a.sw
       /\ b.left = a.left /\ b.irq = a.irq /\ b.frames = a.frames
    BY <1>1, <1>4 DEF State
<1> HIDE DEF b
<1>12. QueuesOK(b, w)
    <2>1. /\ WithStatus(b, {"READY_TO_RUN", "UNINITIALIZED"})
               = WithStatus(a, {"READY_TO_RUN", "UNINITIALIZED"})
          /\ WithStatus(b, {"SLEEPING_TIMER"}) = WithStatus(a, {"SLEEPING_TIMER"})
          /\ WithStatus(b, {"READY_TO_DIE"}) = WithStatus(a, {"READY_TO_DIE"})
        BY <1>1, <1>9, <1>11 DEF WithStatus
    <2> HIDE DEF c
    <2> QED  BY <1>1, <1>11, <2>1 DEF QueuesOK, c
<1>13. WaitQueuesOK(b)
    <2> HIDE DEF c
    <2>1. ASSUME NEW r \in WaitQueue PROVE IsInjective(b.waitq[r])
        <3>1. CASE r = q
            BY <1>7, <1>9, <1>11, <3>1
        <3>2. CASE r # q
            <4>1. IsInjective(a.waitq[r])
                BY <1>1 DEF WaitQueuesOK
            <4> QED  BY <1>9, <1>11, <3>2, <4>1
        <3> QED  BY <3>1, <3>2
    <2>2. ASSUME NEW r \in WaitQueue, NEW p \in Proc
          PROVE  p \in Range(b.waitq[r]) <=>
                   p \in Range(a.waitq[r]) \/ (r = q /\ p = c)
        <3>1. CASE r = q
            BY <1>7, <1>9, <1>11, <3>1
        <3>2. CASE r # q
            BY <1>9, <1>11, <3>2
        <3> QED  BY <3>1, <3>2
    <2>3. \A r, t \in WaitQueue :
              r # t => Range(b.waitq[r]) \cap Range(b.waitq[t]) = {}
        <3> SUFFICES ASSUME NEW r \in WaitQueue, NEW t \in WaitQueue, r # t,
                            NEW p \in Range(b.waitq[r]), p \in Range(b.waitq[t])
                     PROVE  FALSE
            OBVIOUS
        <3>1. b.waitq[r] \in Seq(Proc)
            BY <1>8, <1>11
        <3>2. p \in Proc
            BY <3>1, ByIndex
        <3>3. Range(a.waitq[r]) \cap Range(a.waitq[t]) = {}
            BY <1>1 DEF WaitQueuesOK
        <3>4. /\ p \in Range(a.waitq[r]) \/ (r = q /\ p = c)
              /\ p \in Range(a.waitq[t]) \/ (t = q /\ p = c)
            BY <2>2, <3>2
        <3> QED  BY <1>6, <3>3, <3>4
    <2>4. \A p \in Proc : b.status[p] = "BLOCKED" <=>
                             \E r \in WaitQueue : p \in Range(b.waitq[r])
        <3> TAKE p \in Proc
        <3>1. a.status[p] = "BLOCKED" <=> \E r \in WaitQueue : p \in Range(a.waitq[r])
            BY <1>1 DEF WaitQueuesOK
        <3>2. b.status[p] = "BLOCKED" <=> a.status[p] = "BLOCKED" \/ p = c
            BY <1>9, <1>11
        <3> QED  BY <2>2, <3>1, <3>2
    <2> QED  BY <2>1, <2>3, <2>4 DEF WaitQueuesOK
<1>14. Consistent(b, w)
    BY <1>1, <1>10, <1>11, <1>12, <1>13 DEF Consistent
<1>15. /\ b.status = [a.status EXCEPT ![a.current] = "BLOCKED"]
       /\ b.waitq = [a.waitq EXCEPT ![q] = Append(@, a.current)]
    BY <1>11 DEF wq, st
<1>16. Parked(a, b, q)
    BY <1>11, <1>15 DEF Parked, Queued
<1> QED  BY <1>14, <1>16 DEF b

\* wait_queue_sleep_postponed by a process that has just postponed switches.
LEMMA BlockOK ==
    ASSUME NEW k, NEW w, NEW q \in WaitQueue, Calling(k, w),
           NEW j, j = WaitQueueSleepPostponed(SchedPostpone(k), q)
    PROVE  /\ GaveUp(k, j, w, "BLOCKED")
           /\ j.dying = k.dying /\ j.sleeping = k.sleeping /\ j.left = k.left
           /\ Queued(k, j, q)
<1> DEFINE a == SchedPostpone(k)
           b == Park(a, q)
<1>1. Consistent(k, w) /\ k \in State /\ k.status[k.current] = "RUNNING" /\ k.sw = 0
    BY DEF Calling, MaySwitch, Consistent
<1>2. /\ a \in State /\ SameQueues(k, a) /\ a.sw = 1
      /\ a.left = k.left /\ a.irq = k.irq + 1 /\ a.frames = k.frames
    BY <1>1, PostponeEffect
<1>3. j = SchedResume(AdvanceLater(b))
    BY DEF WaitQueueSleepPostponed, MpBlockProc, Park
<1> HIDE DEF a
<1>4. Consistent(a, w) /\ a.status[a.current] = "RUNNING"
    BY <1>1, <1>2, Frame DEF SameQueues
<1>5. Consistent(b, w) /\ Parked(a, b, q)
    BY <1>4, ParkOK
<1> HIDE DEF b
<1>6. /\ b.current = k.current /\ b.ready = k.ready /\ b.sw = 1
      /\ b.irq = k.irq + 1 /\ b.frames = k.frames /\ b.left = k.left
      /\ b.dying = k.dying /\ b.sleeping = k.sleeping /\ Queued(k, b, q)
      /\ b.status = [k.status EXCEPT ![k.current] = "BLOCKED"]
    BY <1>2, <1>5 DEF Parked, SameQueues, Queued
<1>7. /\ GaveUp(k, SchedResume(AdvanceLater(b)), w, "BLOCKED")
      /\ SchedResume(AdvanceLater(b)).dying = b.dying
      /\ SchedResume(AdvanceLater(b)).waitq = b.waitq
      /\ SchedResume(AdvanceLater(b)).sleeping = b.sleeping
      /\ SchedResume(AdvanceLater(b)).left = b.left
    BY <1>5, <1>6, GiveUp
<1> QED  BY <1>3, <1>6, <1>7 DEF Queued

\* A sched_resume that is not the outermost one only lowers the counts.
LEMMA ResumeNested ==
    ASSUME NEW k \in State, k.sw > 1
    PROVE  /\ SchedResume(k) \in State /\ SameQueues(k, SchedResume(k))
           /\ SchedResume(k).sw = k.sw - 1 /\ SchedResume(k).flag = k.flag
           /\ SchedResume(k).left = k.left /\ SchedResume(k).frames = k.frames
           /\ SchedResume(k).irq = Dec(k.irq)
<1> DEFINE a == [k EXCEPT !.sw = Dec(@)]
<1>1. /\ a \in State /\ SameQueues(k, a) /\ a.sw = k.sw - 1 /\ a.flag = k.flag
      /\ a.sw # 0 /\ a.left = k.left /\ a.frames = k.frames /\ a.irq = k.irq
    <2>1. k.sw \in Nat /\ Dec(k.sw) = k.sw - 1 /\ k.sw - 1 \in Nat /\ k.sw - 1 # 0
        BY DEF State, Dec
    <2>2. Dec(k.sw) \in Nat
        BY <2>1
    <2>3. a \in State
        BY <2>2, Zenon DEF State
    <2> QED  BY <2>1, <2>3 DEF State, SameQueues
<1>2. SchedResume(k) = SchedUnlock(a)
    BY <1>1 DEF SchedResume, Returned
<1> HIDE DEF a
<1>3. SchedUnlock(a) \in State /\ SameQueues(a, SchedUnlock(a))
    BY <1>1, LockTypes
<1>4. /\ SchedUnlock(a).sw = a.sw /\ SchedUnlock(a).flag = a.flag
      /\ SchedUnlock(a).left = a.left /\ SchedUnlock(a).frames = a.frames
      /\ SchedUnlock(a).irq = Dec(a.irq)
    BY <1>1 DEF SchedUnlock, State
<1> QED  BY <1>1, <1>2, <1>3, <1>4 DEF SameQueues

\* The state e is the state k in a postponed section.
Postponed(k, e) ==
    /\ e \in State /\ SameQueues(k, e)
    /\ e.sw = 1 /\ e.irq = k.irq + 1 /\ e.frames = k.frames

\* wait_queue_sleep inside a postponed section: the switch waits for the outer
\* sched_resume.
LEMMA BlockInside ==
    ASSUME NEW k, NEW w, NEW q \in WaitQueue, Calling(k, w), NEW e, Postponed(k, e),
           NEW j, j = SchedResume(WaitQueueSleep(e, q))
    PROVE  GaveUp(k, j, w, "BLOCKED") /\ Queued(k, j, q)
<1> DEFINE a == SchedPostpone(e)
           b == Park(a, q)
           d == AdvanceLater(b)
           f == SchedResume(d)
<1>1. /\ Consistent(k, w) /\ k \in State /\ k.status[k.current] = "RUNNING"
      /\ k.sw = 0 /\ k.irq \in Nat
    BY DEF Calling, MaySwitch, Consistent, State
<1>2. /\ e \in State /\ SameQueues(k, e) /\ e.sw = 1
      /\ e.irq = k.irq + 1 /\ e.frames = k.frames
    BY DEF Postponed
<1>3. j = SchedResume(f)
    BY DEF WaitQueueSleep, WaitQueueSleepPostponed, MpBlockProc, Park
<1>4. /\ a \in State /\ SameQueues(e, a) /\ a.sw = 2
      /\ a.irq = k.irq + 2 /\ a.frames = k.frames
    <2>1. /\ a \in State /\ SameQueues(e, a) /\ a.sw = e.sw + 1
          /\ a.irq = e.irq + 1 /\ a.frames = e.frames
        BY <1>2, PostponeEffect
    <2> QED  BY <1>1, <1>2, <2>1
<1> HIDE DEF a
<1>5. SameQueues(k, a)
    BY <1>2, <1>4 DEF SameQueues
<1>6. Consistent(a, w) /\ a.status[a.current] = "RUNNING"
    BY <1>1, <1>4, <1>5, Frame DEF SameQueues
<1>7. Consistent(b, w) /\ Parked(a, b, q)
    BY <1>6, ParkOK
<1> HIDE DEF b
<1>8. b \in State /\ b.sw = 2 /\ b.irq = k.irq + 2 /\ b.frames = k.frames
    BY <1>4, <1>7 DEF Consistent, Parked
<1>9. /\ d \in State /\ SameQueues(b, d) /\ d.sw = 2 /\ d.flag = TRUE
      /\ d.irq = k.irq + 2 /\ d.frames = k.frames
    <2>1. b.sw > 0
        BY <1>8
    <2>2. /\ d \in State /\ SameQueues(b, d) /\ d.sw = b.sw /\ d.flag = TRUE
          /\ d.irq = b.irq /\ d.frames = b.frames
        BY <1>8, <2>1, PutOff
    <2> QED  BY <1>8, <2>2
<1> HIDE DEF d
<1>10. /\ f \in State /\ SameQueues(d, f) /\ f.sw = 1 /\ f.flag = TRUE
       /\ f.irq = k.irq + 1 /\ f.frames = k.frames
    <2>1. d.sw > 1
        BY <1>9
    <2>2. /\ f \in State /\ SameQueues(d, f) /\ f.sw = d.sw - 1 /\ f.flag = d.flag
          /\ f.irq = Dec(d.irq) /\ f.frames = d.frames
        BY <1>9, <2>1, ResumeNested
    <2>3. Dec(k.irq + 2) = k.irq + 1
        BY <1>1 DEF Dec
    <2> QED  BY <1>9, <2>2, <2>3
<1> HIDE DEF f
<1>11. SameQueues(b, f)
    BY <1>9, <1>10 DEF SameQueues
<1>12. Consistent(f, w)
    BY <1>7, <1>10, <1>11, Frame
<1>13. /\ f.current = k.current /\ f.ready = k.ready /\ Queued(k, f, q)
       /\ f.status = [k.status EXCEPT ![k.current] = "BLOCKED"]
    BY <1>5, <1>7, <1>11 DEF Parked, SameQueues, Queued
<1>14. GaveUp(k, SchedResume(f), w, "BLOCKED") /\ SchedResume(f).waitq = f.waitq
    BY <1>10, <1>12, <1>13, LeaveOK
<1> QED  BY <1>3, <1>13, <1>14 DEF Queued

\* The same right after the section has begun.
LEMMA BlockNested ==
    ASSUME NEW k, NEW w, NEW q \in WaitQueue, Calling(k, w),
           NEW j, j = SchedResume(WaitQueueSleep(SchedPostpone(k), q))
    PROVE  GaveUp(k, j, w, "BLOCKED") /\ Queued(k, j, q)
<1> DEFINE e == SchedPostpone(k)
<1>1. k \in State /\ k.sw = 0
    BY DEF Calling, MaySwitch, Consistent
<1>2. Postponed(k, e)
    BY <1>1, PostponeEffect DEF Postponed
<1> HIDE DEF e
<1>3. j = SchedResume(WaitQueueSleep(e, q))
    BY DEF e
<1> QED  BY <1>2, <1>3, BlockInside

\* wait_queue_wake_all with no switch put off, or inside a postponed section.
Woken(k, j, w, q) ==
    /\ Consistent(j, w)
    /\ j.current = k.current /\ j.dying = k.dying /\ j.sleeping = k.sleeping
    /\ j.sw = k.sw /\ j.flag = k.flag
    /\ j.irq = k.irq /\ j.frames = k.frames /\ j.left = k.left
    /\ k.ready # <<>> => j.ready # <<>>
    /\ j.waitq = [k.waitq EXCEPT ![q] = <<>>]
    /\ \A p \in Proc : j.status[p] = IF p \in Range(k.waitq[q])
                                     THEN "READY_TO_RUN" ELSE k.status[p]

\* The processes u at the head of the wait queue q become ready; v stay in it.
Roused(k, j, w, q, u, v) ==
    /\ Consistent(j, w)
    /\ j.current = k.current /\ j.dying = k.dying /\ j.sleeping = k.sleeping
    /\ j.sw = k.sw /\ j.flag = k.flag
    /\ j.irq = k.irq /\ j.frames = k.frames /\ j.left = k.left
    /\ j.ready = k.ready \o u
    /\ j.waitq = [k.waitq EXCEPT ![q] = v]
    /\ \A p \in Proc : j.status[p] = IF p \in Range(u)
                                     THEN "READY_TO_RUN" ELSE k.status[p]

Rouse(k, q, u, v) ==
    [SchedPostpone(k) EXCEPT
        !.status = [p \in Proc |-> IF p \in Range(u)
                                   THEN "READY_TO_RUN" ELSE k.status[p]],
        !.ready = k.ready \o u,
        !.waitq = [k.waitq EXCEPT ![q] = v]]

\* Moving waiters from the head of a wait queue to the ready queue.
LEMMA WakeSome ==
    ASSUME NEW k, NEW w, NEW q \in WaitQueue, Consistent(k, w), k.sw > 0 \/ k.flag = FALSE,
           k.status[k.current] # "BLOCKED",
           NEW u \in Seq(Proc), NEW v \in Seq(Proc), k.waitq[q] = u \o v
    PROVE  Roused(k, SchedResume(Rouse(k, q, u, v)), w, q, u, v)
<1> DEFINE a == SchedPostpone(k)
           st == [p \in Proc |-> IF p \in Range(u) THEN "READY_TO_RUN" ELSE k.status[p]]
           wq == [k.waitq EXCEPT ![q] = v]
           b == Rouse(k, q, u, v)
           j == SchedResume(b)
<1>1. /\ k \in State /\ k.current \in Proc /\ w \in Seq(Proc) /\ QueuesOK(k, w)
      /\ WaitQueuesOK(k)
    BY DEF Consistent
<1>2. /\ k.status \in [Proc -> Status] /\ k.waitq \in [WaitQueue -> Seq(Proc)]
      /\ k.ready \in Seq(Proc) /\ k.sw \in Nat
    BY <1>1 DEF State
<1>3. /\ a \in State /\ SameQueues(k, a) /\ a.sw = k.sw + 1 /\ a.flag = k.flag
      /\ a.irq = k.irq + 1 /\ a.frames = k.frames /\ a.left = k.left
    BY <1>1, PostponeEffect
<1>4. b = [a EXCEPT !.status = st, !.ready = k.ready \o u, !.waitq = wq]
    BY DEF Rouse
<1> HIDE DEF a
<1>5. /\ IsInjective(u) /\ IsInjective(v) /\ Range(u) \cap Range(v) = {}
      /\ Range(k.waitq[q]) = Range(u) \cup Range(v)
    <2>1. IsInjective(k.waitq[q])
        BY <1>1 DEF WaitQueuesOK
    <2> QED  BY <2>1, Splice
<1>6. /\ Range(u) \subseteq Proc /\ Range(v) \subseteq Proc
      /\ \A p \in Range(u) : k.status[p] = "BLOCKED"
    <2>1. Range(u) \subseteq Proc /\ Range(v) \subseteq Proc
        BY ByIndex
    <2> QED  BY <1>1, <1>5, <2>1 DEF WaitQueuesOK
<1>7. Range(k.ready) \cap Range(u) = {} /\ IsInjective(k.ready)
    BY <1>1, <1>6 DEF QueuesOK, WithStatus
<1>8. /\ k.ready \o u \in Seq(Proc) /\ IsInjective(k.ready \o u)
      /\ Range(k.ready \o u) = Range(k.ready) \cup Range(u)
    BY <1>2, <1>5, <1>7, Splice
<1>9. st \in [Proc -> Status] /\ wq \in [WaitQueue -> Seq(Proc)]
    BY <1>2 DEF Status
<1>10. /\ \A p \in Proc : st[p] = IF p \in Range(u) THEN "READY_TO_RUN"
                                  ELSE k.status[p]
       /\ wq[q] = v /\ \A r \in WaitQueue \ {q} : wq[r] = k.waitq[r]
    BY <1>2
<1> HIDE DEF st, wq
<1>11. b \in State
    BY <1>3, <1>4, <1>8, <1>9, Zenon DEF State
<1>12. /\ b.status = st /\ b.ready = k.ready \o u /\ b.waitq = wq
       /\ b.current = k.current /\ b.dying = k.dying /\ b.sleeping = k.sleeping
       /\ b.sw = k.sw + 1 /\ b.flag = k.flag
       /\ b.irq = k.irq + 1 /\ b.frames = k.frames /\ b.left = k.left
    BY <1>3, <1>4 DEF State, SameQueues
<1> HIDE DEF b
<1>13. QueuesOK(b, w)
    <2>1. \A p \in Proc : b.status[p] = IF p \in Range(u) THEN "READY_TO_RUN"
                                       ELSE k.status[p]
        BY <1>10, <1>12
    <2>2. WithStatus(b, {"READY_TO_RUN", "UNINITIALIZED"})
            = WithStatus(k, {"READY_TO_RUN", "UNINITIALIZED"}) \cup Range(u)
        BY <1>6, <2>1 DEF WithStatus
    <2>3. WithStatus(b, {"SLEEPING_TIMER"}) = WithStatus(k, {"SLEEPING_TIMER"})
        BY <1>6, <2>1 DEF WithStatus
    <2>4. WithStatus(b, {"READY_TO_DIE"}) = WithStatus(k, {"READY_TO_DIE"})
        BY <1>6, <2>1 DEF WithStatus
    <2>5. k.current \notin Range(u)
        BY <1>6
    <2> QED  BY <1>1, <1>8, <1>12, <2>2, <2>3, <2>4, <2>5 DEF QueuesOK
<1>14. WaitQueuesOK(b)
    <2>1. ASSUME NEW r \in WaitQueue
          PROVE  /\ IsInjective(b.waitq[r])
                 /\ \A p \in Proc : p \in Range(b.waitq[r]) <=>
                                      p \in Range(k.waitq[r]) /\ p \notin Range(u)
        <3>1. CASE r = q
            BY <1>5, <1>10, <1>12, <3>1
        <3>2. CASE r # q
            <4>1. /\ IsInjective(k.waitq[r])
                  /\ Range(k.waitq[r]) \cap Range(k.waitq[q]) = {}
                BY <1>1, <3>2 DEF WaitQueuesOK
            <4> QED  BY <1>5, <1>10, <1>12, <3>2, <4>1
        <3> QED  BY <3>1, <3>2
    <2>4. \A r, t \in WaitQueue :
              r # t => Range(b.waitq[r]) \cap Range(b.waitq[t]) = {}
        <3> SUFFICES ASSUME NEW r \in WaitQueue, NEW t \in WaitQueue, r # t,
                            NEW p \in Range(b.waitq[r]), p \in Range(b.waitq[t])
                     PROVE  FALSE
            OBVIOUS
        <3>1. b.waitq[r] \in Seq(Proc)
            BY <1>9, <1>12
        <3>2. p \in Proc
            BY <3>1, ByIndex
        <3>3. Range(k.waitq[r]) \cap Range(k.waitq[t]) = {}
            BY <1>1 DEF WaitQueuesOK
        <3> QED  BY <2>1, <3>2, <3>3
    <2>5. \A p \in Proc : b.status[p] = "BLOCKED" <=>
                             \E r \in WaitQueue : p \in Range(b.waitq[r])
        <3> TAKE p \in Proc
        <3>1. k.status[p] = "BLOCKED" <=> \E r \in WaitQueue : p \in Range(k.waitq[r])
            BY <1>1 DEF WaitQueuesOK
        <3>2. b.status[p] = "BLOCKED" <=> k.status[p] = "BLOCKED" /\ p \notin Range(u)
            BY <1>10, <1>12
        <3> QED  BY <2>1, <3>1, <3>2
    <2> QED  BY <2>1, <2>4, <2>5 DEF WaitQueuesOK
<1>15. Consistent(b, w)
    BY <1>1, <1>11, <1>12, <1>13, <1>14 DEF Consistent
<1>16. k.sw \in Nat /\ Dec(k.sw + 1) = k.sw
    BY <1>1, <1>2, Counters
<1>17. /\ j \in State /\ SameQueues(b, j) /\ j.sw = k.sw /\ j.flag = b.flag
       /\ j.left = b.left /\ j.frames = b.frames /\ j.irq = Dec(b.irq)
    <2>1. CASE k.sw > 0
        <3>1. b.sw > 1 /\ b.sw - 1 = k.sw
            <4>1. k.sw \in Nat /\ b.sw = k.sw + 1
                BY <1>12, <1>16
            <4> QED  BY <2>1, <4>1
        <3> QED  BY <1>11, <3>1, ResumeNested
    <2>2. CASE k.flag = FALSE
        <3>1. b.flag = FALSE /\ Dec(b.sw) = k.sw
            BY <1>12, <1>16, <2>2
        <3> QED  BY <1>11, <3>1, ResumeReturn
    <2> QED  BY <2>1, <2>2
<1> HIDE DEF j
<1>18. Consistent(j, w)
    BY <1>15, <1>17, Frame
<1>20. /\ j.current = k.current /\ j.dying = k.dying /\ j.sleeping = k.sleeping
       /\ j.status = st /\ j.waitq = wq /\ j.ready = k.ready \o u
    BY <1>12, <1>17 DEF SameQueues
<1>21. j.sw = k.sw /\ j.flag = k.flag
    BY <1>12, <1>17
<1>22. j.irq = k.irq /\ j.frames = k.frames /\ j.left = k.left
    <2>1. Dec(k.irq + 1) = k.irq
        BY <1>1, Counters
    <2> QED  BY <1>12, <1>17, <2>1
<1>23. \A p \in Proc : j.status[p] = IF p \in Range(u)
                                    THEN "READY_TO_RUN" ELSE k.status[p]
    BY <1>10, <1>20
<1> QED  BY <1>18, <1>20, <1>21, <1>22, <1>23 DEF Roused, j, b, wq

\* wait_queue_wake_all moves every waiter of one queue to the ready queue.
LEMMA WakeAllOK ==
    ASSUME NEW k, NEW w, NEW q \in WaitQueue, Consistent(k, w), k.sw > 0 \/ k.flag = FALSE,
           k.status[k.current] # "BLOCKED"
    PROVE  Woken(k, WaitQueueWakeAll(k, q), w, q)
<1> DEFINE a == SchedPostpone(k)
           u == k.waitq[q]
           j == SchedResume(Rouse(k, q, u, <<>>))
<1>1. /\ k \in State /\ u \in Seq(Proc) /\ <<>> \in Seq(Proc) /\ u = u \o <<>>
      /\ k.ready \in Seq(Proc)
    BY DEF Consistent, State
<1>2. a \in State /\ SameQueues(k, a)
    BY <1>1, PostponeEffect
<1>3. WaitQueueWakeAll(k, q) = j
    BY <1>2 DEF WaitQueueWakeAll, Rouse, State, SameQueues
<1> HIDE DEF u
<1>4. Roused(k, j, w, q, u, <<>>)
    <2>1. k.waitq[q] = u \o <<>>
        BY <1>1 DEF u
    <2> QED  BY <1>1, <2>1, WakeSome
<1> HIDE DEF j
<1>5. k.ready # <<>> => k.ready \o u # <<>>
    BY <1>1
<1> QED  BY <1>3, <1>4, <1>5 DEF Woken, Roused, u

\* Under another lock it leaves interrupts off.
LEMMA WakeAllInts ==
    ASSUME NEW k, NEW w, NEW q \in WaitQueue, Consistent(k, w), k.flag = FALSE, k.irq > 0
    PROVE  WaitQueueWakeAll(k, q).ints = FALSE
<1> DEFINE a == SchedPostpone(k)
           st == [p \in Proc |-> IF p \in Range(k.waitq[q])
                                 THEN "READY_TO_RUN" ELSE a.status[p]]
           b == [a EXCEPT !.status = st, !.ready = @ \o k.waitq[q], !.waitq[q] = <<>>]
<1>1. k \in State /\ k.irq \in Nat /\ k.waitq[q] \in Seq(Proc)
    BY DEF Consistent, State
<1>2. /\ a \in State /\ a.flag = FALSE /\ a.irq = k.irq + 1
      /\ a.status \in [Proc -> Status] /\ a.waitq \in [WaitQueue -> Seq(Proc)]
      /\ a.ready \in Seq(Proc)
    BY <1>1, PostponeEffect DEF State
<1>3. a.ints = FALSE
    BY <1>1 DEF SchedPostpone, State
<1>4. WaitQueueWakeAll(k, q) = SchedResume(b)
    BY <1>2 DEF WaitQueueWakeAll
<1> HIDE DEF a
<1>5. st \in [Proc -> Status]
    BY <1>2 DEF Status
<1> HIDE DEF st
<1>6. a.ready \o k.waitq[q] \in Seq(Proc)
      /\ [a.waitq EXCEPT ![q] = <<>>] \in [WaitQueue -> Seq(Proc)]
    BY <1>1, <1>2
<1>7. b \in State
    BY <1>2, <1>5, <1>6, Zenon DEF State
<1>8. b.flag = FALSE /\ b.irq > 1 /\ b.ints = FALSE
    <2>1. b.flag = a.flag /\ b.irq = a.irq /\ b.ints = a.ints
        BY <1>2 DEF State
    <2> QED  BY <1>1, <1>2, <1>3, <2>1
<1> HIDE DEF b
<1> QED  BY <1>4, <1>7, <1>8, ResumeInts

\* wait_queue_wake_one moves the first waiter.
LEMMA WakeOneOK ==
    ASSUME NEW k, NEW w, NEW q \in WaitQueue, Consistent(k, w), k.sw > 0,
           k.status[k.current] # "BLOCKED", k.waitq[q] # <<>>
    PROVE  Roused(k, WaitQueueWakeOne(k, q), w, q, <<Head(k.waitq[q])>>, Tail(k.waitq[q]))
<1> DEFINE a == SchedPostpone(k)
           h == Head(k.waitq[q])
           v == Tail(k.waitq[q])
           st == [p \in Proc |-> IF p \in Range(<<h>>)
                                 THEN "READY_TO_RUN" ELSE k.status[p]]
           b == Rouse(k, q, <<h>>, v)
<1>1. /\ k \in State /\ k.waitq[q] \in Seq(Proc) /\ k.ready \in Seq(Proc)
      /\ k.status \in [Proc -> Status]
    BY DEF Consistent, State
<1>2. h \in Proc /\ v \in Seq(Proc) /\ k.waitq[q] = <<h>> \o v
    BY <1>1
<1>3. <<h>> \in Seq(Proc) /\ Range(<<h>>) = {h}
    BY <1>2, Singleton
<1>4. a \in State /\ SameQueues(k, a)
    BY <1>1, PostponeEffect
<1>5. WaitQueueWakeOne(k, q) = SchedResume(b)
    <2>1. st = [k.status EXCEPT ![h] = "READY_TO_RUN"]
        BY <1>1, <1>2, <1>3
    <2>2. k.ready \o <<h>> = Append(k.ready, h)
        BY <1>1, <1>2
    <2> HIDE DEF st, h
    <2>3. b = [a EXCEPT !.status[h] = "READY_TO_RUN",
                        !.ready = Append(@, h), !.waitq[q] = Tail(@)]
        <3>1. b = [a EXCEPT !.status = st, !.ready = k.ready \o <<h>>,
                            !.waitq = [k.waitq EXCEPT ![q] = v]]
            BY DEF Rouse, st
        <3> QED  BY <1>4, <2>1, <2>2, <3>1 DEF State, SameQueues
    <2> HIDE DEF b
    <2> QED  BY <2>3 DEF WaitQueueWakeOne, h
<1> HIDE DEF a, h, v
<1>6. Roused(k, SchedResume(b), w, q, <<h>>, v)
    BY <1>2, <1>3, WakeSome
<1> QED  BY <1>5, <1>6 DEF h, v

\* sched_add_proc puts a new process behind the ready ones.
LEMMA AddOK ==
    ASSUME NEW k, NEW w, Steady(k, w), NEW p \in Proc, k.status[p] = "UNUSED",
           NEW j, j = SchedAddProc([k EXCEPT !.status[p] = "UNINITIALIZED"], p)
    PROVE  /\ Steady(j, w) /\ j.current = k.current /\ j.waitq = k.waitq
           /\ j.status = [k.status EXCEPT ![p] = "UNINITIALIZED"]
<1> DEFINE st == [k.status EXCEPT ![p] = "UNINITIALIZED"]
           e == [k EXCEPT !.status[p] = "UNINITIALIZED"]
           a == SchedPostpone(e)
           b == [a EXCEPT !.ready = Append(@, p)]
<1>1. /\ k \in State /\ k.current \in Proc /\ w \in Seq(Proc) /\ QueuesOK(k, w)
      /\ WaitQueuesOK(k) /\ k.status[k.current] = "RUNNING" /\ k.sw = 0 /\ k.flag = FALSE
      /\ WithStatus(k, {"RUNNING"}) \subseteq {k.current}
    BY DEF Steady, Consistent
<1>2. /\ k.ready \in Seq(Proc) /\ k.status \in [Proc -> Status] /\ p # k.current
    BY <1>1 DEF State
<1>3. /\ st \in [Proc -> Status] /\ st[p] = "UNINITIALIZED"
      /\ \A r \in Proc \ {p} : st[r] = k.status[r]
    BY <1>2 DEF Status
<1>4. e = [k EXCEPT !.status = st]
    BY <1>1 DEF State
<1> HIDE DEF st
<1>5. e \in State
    BY <1>1, <1>3, <1>4, Zenon DEF State
<1>6. /\ e.status = st /\ e.current = k.current /\ e.ready = k.ready
      /\ e.sleeping = k.sleeping /\ e.dying = k.dying /\ e.waitq = k.waitq
      /\ e.sw = 0 /\ e.flag = FALSE
    BY <1>1, <1>4 DEF State
<1> HIDE DEF e
<1>7. a \in State /\ SameQueues(e, a) /\ a.sw = 1 /\ a.flag = FALSE
    <2>1. a \in State /\ SameQueues(e, a) /\ a.sw = e.sw + 1 /\ a.flag = e.flag
        BY <1>5, PostponeEffect
    <2> QED  BY <1>6, <2>1
<1>8. j = SchedResume(b)
    BY DEF SchedAddProc, e
<1> HIDE DEF a
<1>9. p \notin Range(k.ready) /\ IsInjective(k.ready)
    BY <1>1 DEF QueuesOK, WithStatus
<1>10. /\ Append(k.ready, p) \in Seq(Proc) /\ IsInjective(Append(k.ready, p))
       /\ Range(Append(k.ready, p)) = Range(k.ready) \cup {p}
    BY <1>2, <1>9, PushTail
<1>11. b = [a EXCEPT !.ready = Append(k.ready, p)]
    BY <1>6, <1>7 DEF SameQueues
<1>12. b \in State
    BY <1>7, <1>10, <1>11, Zenon DEF State
<1>13. /\ b.status = st /\ b.current = k.current /\ b.ready = Append(k.ready, p)
       /\ b.sleeping = k.sleeping /\ b.dying = k.dying /\ b.waitq = k.waitq
       /\ b.sw = 1 /\ b.flag = FALSE
    BY <1>6, <1>7, <1>11 DEF State, SameQueues
<1> HIDE DEF b
<1>14. QueuesOK(b, w)
    <2>1. /\ WithStatus(b, {"READY_TO_RUN", "UNINITIALIZED"})
               = WithStatus(k, {"READY_TO_RUN", "UNINITIALIZED"}) \cup {p}
          /\ WithStatus(b, {"SLEEPING_TIMER"}) = WithStatus(k, {"SLEEPING_TIMER"})
          /\ WithStatus(b, {"READY_TO_DIE"}) = WithStatus(k, {"READY_TO_DIE"})
        BY <1>3, <1>13 DEF WithStatus
    <2> QED  BY <1>1, <1>2, <1>10, <1>13, <2>1 DEF QueuesOK
<1>15. WaitQueuesOK(b)
    BY <1>1, <1>3, <1>13 DEF WaitQueuesOK
<1>16. Consistent(b, w)
    BY <1>1, <1>12, <1>13, <1>14, <1>15 DEF Consistent
<1>17. /\ j \in State /\ SameQueues(b, j) /\ j.sw = Dec(b.sw) /\ j.flag = FALSE
    BY <1>8, <1>12, <1>13, ResumeReturn
<1>18. Consistent(j, w) /\ j.sw = 0
    BY <1>13, <1>16, <1>17, Frame DEF Dec
<1>19. j.status = st /\ j.current = k.current /\ j.waitq = k.waitq
    BY <1>13, <1>17 DEF SameQueues
<1>20. Steady(j, w)
    BY <1>1, <1>2, <1>3, <1>17, <1>18, <1>19 DEF Steady, WithStatus
<1> QED  BY <1>19, <1>20 DEF st

-----------------------------------------------------------------------------
\* proc_exit by the current process: it is queued for the terminator, whoever
\* waits for it becomes ready, and the CPU goes to another process.
Exited(k, j, w, woken) ==
    /\ Consistent(j, w) /\ CurrentOK(j)
    /\ j.current # k.current /\ Owing(k, j)
    /\ j.sw = 0 /\ j.flag = FALSE
    /\ j.ints = (j.status[j.current] # "UNINITIALIZED")
    /\ j.sleeping = k.sleeping /\ j.left = k.left
    /\ j.dying = <<k.current>> \o k.dying
    /\ j.waitq = [q \in WaitQueue |-> IF q \in woken THEN <<>> ELSE k.waitq[q]]
    /\ j.status[k.current] = "READY_TO_DIE"
    /\ \A p \in Proc \ {k.current} :
         IF \E q \in woken : p \in Range(k.waitq[q])
         THEN j.status[p] \in {"RUNNING", "READY_TO_RUN"}
         ELSE \/ j.status[p] = k.status[p]
              \/ /\ k.status[p] \in {"RUNNING", "READY_TO_RUN"}
                 /\ j.status[p] \in {"RUNNING", "READY_TO_RUN"}

\* The first half of proc_exit, up to the wake-ups.
Doomed(k, d, w) ==
    /\ Consistent(d, w)
    /\ d.current = k.current /\ d.ready = k.ready /\ d.waitq = k.waitq
    /\ d.sw = 1 /\ d.flag = TRUE
    /\ d.irq = k.irq + 1 /\ d.frames = k.frames
    /\ d.sleeping = k.sleeping /\ d.left = k.left
    /\ d.dying = <<k.current>> \o k.dying
    /\ d.status = [k.status EXCEPT ![k.current] = "READY_TO_DIE"]

Doom(k) == MpBlockProc([SchedPostpone(k) EXCEPT !.dying = <<k.current>> \o @],
                       k.current, "READY_TO_DIE")

\* The first half of proc_exit, up to the request for a switch.
LEMMA DoomOK ==
    ASSUME NEW k, NEW w, Calling(k, w)
    PROVE  Doomed(k, Doom(k), w)
<1> DEFINE c == k.current
           a == SchedPostpone(k)
           st == [k.status EXCEPT ![c] = "READY_TO_DIE"]
           b == [[a EXCEPT !.dying = <<c>> \o @] EXCEPT !.status[c] = "READY_TO_DIE"]
<1>1. /\ k \in State /\ c \in Proc /\ w \in Seq(Proc) /\ QueuesOK(k, w)
      /\ WaitQueuesOK(k) /\ k.status[c] = "RUNNING" /\ k.sw = 0
    BY DEF Calling, MaySwitch, Consistent
<1>2. k.status \in [Proc -> Status] /\ k.dying \in Seq(Proc)
    BY <1>1 DEF State
<1>3. /\ a \in State /\ SameQueues(k, a) /\ a.sw = 1
      /\ a.left = k.left /\ a.irq = k.irq + 1 /\ a.frames = k.frames
    BY <1>1, PostponeEffect
<1>4. b = [a EXCEPT !.dying = <<c>> \o k.dying, !.status = st]
    BY <1>3 DEF State, SameQueues
<1> DEFINE d == Doom(k)
<1>5. d = AdvanceLater(b)
    BY DEF MpBlockProc, Doom
<1> HIDE DEF a, d
<1>6. /\ IsInjective(k.dying) /\ IsInjective(w) /\ Range(k.dying) \cap Range(w) = {}
      /\ Range(k.dying \o w) = Range(k.dying) \cup Range(w)
    <2>1. IsInjective(k.dying \o w)
        BY <1>1 DEF QueuesOK
    <2> QED  BY <1>1, <1>2, <2>1, Splice
<1>7. c \notin Range(k.dying) /\ c \notin Range(w)
    BY <1>1, <1>6 DEF QueuesOK, WithStatus
<1> DEFINE u == <<c>> \o k.dying
<1>8. u \in Seq(Proc) /\ IsInjective(u) /\ Range(u) = Range(k.dying) \cup {c}
    <2> HIDE DEF c
    <2> QED  BY <1>1, <1>2, <1>6, <1>7, PushHead
<1> HIDE DEF u
<1>9. IsInjective(u \o w) /\ Range(u \o w) = Range(k.dying \o w) \cup {c}
    <2>1. Range(u) \cap Range(w) = {}
        BY <1>6, <1>7, <1>8
    <2>2. IsInjective(u \o w) /\ Range(u \o w) = Range(u) \cup Range(w)
        BY <1>1, <1>6, <1>8, <2>1, Splice
    <2> QED  BY <1>6, <1>8, <2>2
<1>10. st \in [Proc -> Status]
    BY <1>2 DEF Status
<1>11. st[c] = "READY_TO_DIE" /\ \A p \in Proc \ {c} : st[p] = k.status[p]
    BY <1>1, <1>2
<1> HIDE DEF st
<1>12. b \in State
    BY <1>3, <1>4, <1>8, <1>10, Zenon DEF State, u
<1>13. /\ b.status = st /\ b.dying = u /\ b.current = c /\ b.ready = k.ready
       /\ b.sleeping = k.sleeping /\ b.waitq = k.waitq /\ b.sw = 1
       /\ b.left = k.left /\ b.irq = k.irq + 1 /\ b.frames = k.frames
    BY <1>3, <1>4 DEF State, SameQueues, u
<1> HIDE DEF b
<1>14. QueuesOK(b, w)
    <2>1. /\ WithStatus(b, {"READY_TO_RUN", "UNINITIALIZED"})
               = WithStatus(k, {"READY_TO_RUN", "UNINITIALIZED"})
          /\ WithStatus(b, {"SLEEPING_TIMER"}) = WithStatus(k, {"SLEEPING_TIMER"})
        BY <1>1, <1>11, <1>13 DEF WithStatus
    <2>2. WithStatus(b, {"READY_TO_DIE"}) = WithStatus(k, {"READY_TO_DIE"}) \cup {c}
        BY <1>1, <1>11, <1>13 DEF WithStatus
    <2> HIDE DEF c
    <2> QED  BY <1>1, <1>9, <1>13, <2>1, <2>2 DEF QueuesOK, c
<1>15. WaitQueuesOK(b)
    BY <1>1, <1>11, <1>13 DEF WaitQueuesOK
<1>16. Consistent(b, w)
    BY <1>1, <1>12, <1>13, <1>14, <1>15 DEF Consistent
<1>17. /\ d \in State /\ SameQueues(b, d) /\ d.sw = 1 /\ d.flag = TRUE
       /\ d.left = b.left /\ d.irq = b.irq /\ d.frames = b.frames
    <2>1. b.sw > 0
        BY <1>13
    <2>2. /\ AdvanceLater(b) \in State /\ SameQueues(b, AdvanceLater(b))
          /\ AdvanceLater(b).sw = b.sw /\ AdvanceLater(b).flag = TRUE
          /\ AdvanceLater(b).left = b.left /\ AdvanceLater(b).irq = b.irq
          /\ AdvanceLater(b).frames = b.frames
        BY <1>12, <2>1, PutOff
    <2> QED  BY <1>5, <1>13, <2>2
<1>18. Consistent(d, w)
    BY <1>16, <1>17, Frame
<1> QED  BY <1>13, <1>17, <1>18 DEF Doomed, SameQueues, u, st, d

\* proc_exit of a process without a parent wakes nobody.
LEMMA ExitAlone ==
    ASSUME NEW k, NEW w, Calling(k, w)
    PROVE  Exited(k, ProcExit(k, k.current, {}), w, {})
<1> DEFINE c == k.current
           d == Doom(k)
           j == SchedResume(d)
<1>1. /\ k \in State /\ c \in Proc /\ k.status[c] = "RUNNING" /\ k.ready # <<>>
      /\ k.status \in [Proc -> Status] /\ WithStatus(k, {"RUNNING"}) \subseteq {c}
      /\ k.waitq \in [WaitQueue -> Seq(Proc)]
    BY DEF Calling, MaySwitch, Consistent, State
<1>2. SchedPostpone(k).current = c
    BY <1>1, PostponeEffect DEF SameQueues
<1>3. ProcExit(k, c, {}) = j
    BY <1>1, <1>2 DEF ProcExit, Doom
<1>4. Doomed(k, d, w)
    BY DoomOK
<1> HIDE DEF d
<1>5. MaySwitch(d, w)
    BY <1>1, <1>4 DEF Doomed, MaySwitch, WithStatus
<1>6. SwitchedAway(d, j, w) /\ j.irq = d.irq
    BY <1>4, <1>5, ResumeSwitch DEF Doomed
<1> HIDE DEF j
<1>7. /\ d.status[c] = "READY_TO_DIE"
      /\ \A p \in Proc \ {c} : d.status[p] = k.status[p]
    BY <1>1, <1>4 DEF Doomed
<1>8. j.waitq = [q \in WaitQueue |-> IF q \in {} THEN <<>> ELSE k.waitq[q]]
    BY <1>1, <1>4, <1>6 DEF Doomed, SwitchedAway
<1>9. j.status[c] = "READY_TO_DIE"
    BY <1>1, <1>6, <1>7 DEF SwitchedAway, Quiet
<1>10. j.dying = <<k.current>> \o k.dying /\ j.current # k.current
    <2>1. j.dying = d.dying /\ j.current # d.current
        BY <1>6 DEF SwitchedAway
    <2> QED  BY <1>4, <2>1, Zenon DEF Doomed
<1>11. \A p \in Proc \ {c} :
          \/ j.status[p] = k.status[p]
          \/ /\ k.status[p] \in {"RUNNING", "READY_TO_RUN"}
             /\ j.status[p] \in {"RUNNING", "READY_TO_RUN"}
    BY <1>6, <1>7 DEF SwitchedAway, Quiet
<1>12. /\ Consistent(j, w) /\ CurrentOK(j) /\ j.sw = 0 /\ j.flag = FALSE
       /\ j.ints = (j.status[j.current] # "UNINITIALIZED")
    BY <1>6 DEF SwitchedAway
<1>13. Owing(k, j) /\ j.sleeping = k.sleeping /\ j.left = k.left
    BY <1>4, <1>6 DEF Doomed, SwitchedAway, Owing
<1> QED  BY <1>3, <1>8, <1>9, <1>10, <1>11, <1>12, <1>13, Zenon DEF Exited

\* proc_exit of a child wakes its own waiters and those of its parent.
LEMMA ExitWakes ==
    ASSUME NEW k, NEW w, Calling(k, w), NEW q \in WaitQueue, NEW r \in WaitQueue
    PROVE  Exited(k, ProcExit(k, k.current, {<<q, r>>}), w, {q, r})
<1> DEFINE c == k.current
           d == Doom(k)
           e == WaitQueueWakeAll(d, q)
           f == WaitQueueWakeAll(e, r)
           j == SchedResume(f)
<1>1. /\ k \in State /\ c \in Proc /\ k.status[c] = "RUNNING" /\ k.ready # <<>>
      /\ k.status \in [Proc -> Status] /\ WithStatus(k, {"RUNNING"}) \subseteq {c}
      /\ k.waitq \in [WaitQueue -> Seq(Proc)] /\ WaitQueuesOK(k)
    BY DEF Calling, MaySwitch, Consistent, State
<1>2. SchedPostpone(k).current = c
    BY <1>1, PostponeEffect DEF SameQueues
<1>3. ProcExit(k, c, {<<q, r>>}) = j
    <2>1. (CHOOSE v \in {<<q, r>>} : TRUE) = <<q, r>> /\ {<<q, r>>} # {}
        OBVIOUS
    <2> QED  BY <1>1, <1>2, <2>1 DEF ProcExit, Doom
<1>4. Doomed(k, d, w)
    BY DoomOK
<1> HIDE DEF d
<1>5. /\ d.status[c] = "READY_TO_DIE"
      /\ \A p \in Proc \ {c} : d.status[p] = k.status[p]
    BY <1>1, <1>4 DEF Doomed
<1>6. Woken(d, e, w, q)
    <2>1. Consistent(d, w) /\ d.sw > 0 /\ d.status[d.current] # "BLOCKED"
        BY <1>4, <1>5 DEF Doomed
    <2> QED  BY <2>1, WakeAllOK
<1> HIDE DEF e
<1>7. c \notin Range(k.waitq[q]) /\ c \notin Range(k.waitq[r])
    BY <1>1 DEF WaitQueuesOK
<1>8. /\ d.waitq = k.waitq /\ d.current = c /\ d.sw = 1 /\ d.flag = TRUE /\ d.ready # <<>>
      /\ d.irq = k.irq + 1 /\ d.frames = k.frames
      /\ d.sleeping = k.sleeping /\ d.left = k.left
    BY <1>1, <1>4 DEF Doomed
<1>9. /\ e.current = c /\ e.sw = 1 /\ e.flag = TRUE /\ e.ready # <<>>
      /\ e.dying = d.dying /\ e.waitq = [k.waitq EXCEPT ![q] = <<>>]
      /\ e.irq = k.irq + 1 /\ e.frames = k.frames
      /\ e.sleeping = k.sleeping /\ e.left = k.left
      /\ \A p \in Proc : e.status[p] = IF p \in Range(k.waitq[q])
                                       THEN "READY_TO_RUN" ELSE d.status[p]
    BY <1>6, <1>8 DEF Woken
<1>10. Woken(e, f, w, r)
    <2>1. Consistent(e, w) /\ e.sw > 0 /\ e.status[e.current] # "BLOCKED"
        BY <1>1, <1>5, <1>6, <1>7, <1>9 DEF Woken
    <2> QED  BY <2>1, WakeAllOK
<1> HIDE DEF f
<1>11. \A p \in Proc : p \in Range(e.waitq[r]) <=> p \in Range(k.waitq[r]) /\ r # q
    <2>1. Range(<<>>) = {}
        BY DEF Range
    <2> QED  BY <1>1, <1>9, <2>1
<1>12. /\ f.current = c /\ f.sw = 1 /\ f.flag = TRUE /\ f.ready # <<>>
       /\ f.dying = d.dying /\ f.waitq = [e.waitq EXCEPT ![r] = <<>>]
       /\ f.irq = k.irq + 1 /\ f.frames = k.frames
       /\ f.sleeping = k.sleeping /\ f.left = k.left
       /\ \A p \in Proc : f.status[p] =
             IF p \in Range(k.waitq[q]) \/ p \in Range(k.waitq[r])
             THEN "READY_TO_RUN" ELSE d.status[p]
    <2>1. \A p \in Proc : f.status[p] = IF p \in Range(e.waitq[r])
                                       THEN "READY_TO_RUN" ELSE e.status[p]
        BY <1>10 DEF Woken
    <2>2. \A p \in Proc : f.status[p] =
             IF p \in Range(k.waitq[q]) \/ p \in Range(k.waitq[r])
             THEN "READY_TO_RUN" ELSE d.status[p]
        BY <1>9, <1>11, <2>1
    <2> QED  BY <1>9, <1>10, <2>2 DEF Woken
<1>13. f.waitq = [s \in WaitQueue |-> IF s \in {q, r} THEN <<>> ELSE k.waitq[s]]
    BY <1>1, <1>9, <1>12
<1>14. MaySwitch(f, w)
    <2>1. Consistent(f, w)
        BY <1>10 DEF Woken
    <2>2. f.status[c] = "READY_TO_DIE"
        BY <1>1, <1>5, <1>7, <1>12
    <2>3. WithStatus(f, {"RUNNING"}) \subseteq {c}
        BY <1>1, <1>5, <1>12 DEF WithStatus
    <2> QED  BY <1>12, <2>1, <2>2, <2>3 DEF MaySwitch
<1>15. SwitchedAway(f, j, w) /\ j.irq = f.irq
    BY <1>12, <1>14, ResumeSwitch
<1> HIDE DEF j
<1>16. j.status[c] = "READY_TO_DIE"
    BY <1>1, <1>5, <1>7, <1>12, <1>15 DEF SwitchedAway, Quiet
<1>17. j.dying = <<k.current>> \o k.dying /\ j.current # k.current
    <2>1. j.dying = d.dying /\ j.current # c
        BY <1>12, <1>15 DEF SwitchedAway
    <2> QED  BY <1>4, <2>1, Zenon DEF Doomed
<1>18. \A p \in Proc \ {c} :
         IF \E s \in {q, r} : p \in Range(k.waitq[s])
         THEN j.status[p] \in {"RUNNING", "READY_TO_RUN"}
         ELSE \/ j.status[p] = k.status[p]
              \/ /\ k.status[p] \in {"RUNNING", "READY_TO_RUN"}
                 /\ j.status[p] \in {"RUNNING", "READY_TO_RUN"}
    <2> TAKE p \in Proc \ {c}
    <2>1. (\E s \in {q, r} : p \in Range(k.waitq[s])) <=>
             p \in Range(k.waitq[q]) \/ p \in Range(k.waitq[r])
        OBVIOUS
    <2>2. f.status[p] = IF p \in Range(k.waitq[q]) \/ p \in Range(k.waitq[r])
                        THEN "READY_TO_RUN" ELSE k.status[p]
        BY <1>5, <1>12
    <2>3. \/ j.status[p] = f.status[p]
          \/ /\ f.status[p] \in {"RUNNING", "READY_TO_RUN"}
             /\ j.status[p] \in {"RUNNING", "READY_TO_RUN"}
        BY <1>15 DEF SwitchedAway, Quiet
    <2> QED  BY <2>1, <2>2, <2>3
<1>19. /\ Consistent(j, w) /\ CurrentOK(j) /\ j.sw = 0 /\ j.flag = FALSE
       /\ j.ints = (j.status[j.current] # "UNINITIALIZED")
    BY <1>15 DEF SwitchedAway
<1>20. j.waitq = f.waitq
    BY <1>15 DEF SwitchedAway
<1>21. Owing(k, j) /\ j.sleeping = k.sleeping /\ j.left = k.left
    BY <1>12, <1>15 DEF SwitchedAway, Owing
<1> QED  BY <1>3, <1>13, <1>16, <1>17, <1>18, <1>19, <1>20, <1>21, Zenon DEF Exited
=============================================================================
