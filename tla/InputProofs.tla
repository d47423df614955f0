---------------------------- MODULE InputProofs -----------------------------
(***************************************************************************)
(* The way from the keyboard interrupt to read() loses no byte, no event   *)
(* and no wake-up, for every number of readers and all sizes (TtyInput).   *)
(***************************************************************************)
EXTENDS TerminalProofs, HandlerProofs

-----------------------------------------------------------------------------
(* The steps *)

\* The invariant in the next state, part by part.
LEMMA InvNext ==
    ASSUME Settled(k'), HandlerOK(k', t'.locks, h'), TextOK(t', h', sent'),
           EventsOK(kb'), NobodyMisses(k', t', kb', h'),
           pc' \in [Proc -> {"user", "tty", "event", "woken", "try", "leave"}]
    PROVE  InputInv'
    BY DEF InputInv

\* Outside the handler.
LEMMA Off ==
    ASSUME InputInv, h.at = "off"
    PROVE  /\ h = NoHandler /\ t.locks = 0 /\ h.raw = FALSE /\ h.c = NoChar /\ h.i = 0
           /\ \A s, x : x.locks = 0 => HandlerOK(s, x.locks, h)
    BY DEF InputInv, HandlerOK, NoHandler

\* What the invariant says in every step.
LEMMA Keys ==
    ASSUME InputInv
    PROVE  EventsOK(kb) /\ TextOK(t, h, sent) /\ Settled(k)
    BY DEF InputInv

\* A process that makes a system call, or goes on after a switch, is not in the
\* handler.
LEMMA CallerOff ==
    ASSUME InputInv
    PROVE  /\ \A p, a : At(p, a) => h.at = "off"
           /\ \A p \in Proc : UnwindReady(p) => h.at = "off" /\ k.frames[k.current] > 0
           /\ Mutex!TickReady => h.at = "off"
           /\ k.ints => h.at = "off"
<1>1. h.at # "off" => k.ints = FALSE /\ k.current = h.p /\ k.frames[h.p] = h.depth
    BY DEF InputInv, HandlerOK
<1>2. ASSUME NEW p, NEW a, At(p, a) PROVE h.at = "off"
    BY <1>1, <1>2 DEF At
<1>3. ASSUME NEW p \in Proc, UnwindReady(p) PROVE h.at = "off" /\ k.frames[k.current] > 0
    <2>1. k.current = p /\ k.frames[p] > IF h.p = p THEN h.depth ELSE 0
        BY <1>3 DEF UnwindReady
    <2>2. k.frames[p] \in Nat
        BY <1>3, Keys, Runs
    <2>3. h.at = "off"
        BY <1>1, <2>1, <2>2
    <2>4. h.depth = 0
        BY <2>3, Off DEF NoHandler
    <2> QED  BY <2>1, <2>3, <2>4
<1>4. Mutex!TickReady => h.at = "off"
    BY <1>1 DEF Mutex!TickReady
<1> QED  BY <1>1, <1>2, <1>3, <1>4

\* A step outside the handler that moves no byte and no event.
LEMMA CallStep ==
    ASSUME InputInv, h.at = "off", Settled(k'), UNCHANGED <<t, kb, h, sent>>,
           pc' \in [Proc -> {"user", "tty", "event", "woken", "try", "leave"}],
           k'.waitq["readers"] # <<>> => k.waitq["readers"] # <<>> \/ ~HasValue(t.input),
           k'.waitq["events"] # <<>> => k.waitq["events"] # <<>> \/ ~HasValue(kb.ring)
    PROVE  InputInv' /\ kb'.seen = kb.seen
<1>1. HandlerOK(k', t'.locks, h')
    BY Off
<1>2. TextOK(t', h', sent') /\ EventsOK(kb')
    BY Keys
<1>3. NobodyMisses(k', t', kb', h')
    BY DEF InputInv, NobodyMisses
<1> QED  BY <1>1, <1>2, <1>3, InvNext

\* The timer interrupt.
LEMMA TickInv ==
    ASSUME InputInv, Tick
    PROVE  InputInv' /\ kb'.seen = kb.seen
<1>1. Mutex!TickReady /\ k' = Mutex!AfterTick /\ UNCHANGED <<t, kb, h, pc, sent>>
    BY DEF Tick
<1>2. h.at = "off" /\ Settled(k)
    BY <1>1, CallerOff, Keys
<1>3. Settled(k') /\ k'.waitq = k.waitq
    BY <1>1, <1>2, TickSettled
<1>4. pc' \in [Proc -> {"user", "tty", "event", "woken", "try", "leave"}]
    BY <1>1 DEF InputInv
<1> QED  BY <1>1, <1>2, <1>3, <1>4, CallStep

\* A process goes on where it was switched out.
LEMMA UnwindInv ==
    ASSUME InputInv, NEW p \in Proc, UnwindStep(p)
    PROVE  InputInv' /\ kb'.seen = kb.seen
<1>1. UnwindReady(p) /\ k' = Unwind(k) /\ UNCHANGED <<t, kb, h, pc, sent>>
    BY DEF UnwindStep
<1>2. h.at = "off" /\ k.frames[k.current] > 0 /\ Settled(k)
    BY <1>1, CallerOff, Keys
<1>3. Settled(k') /\ k'.waitq = k.waitq
    BY <1>1, <1>2, UnwindSettled
<1>4. pc' \in [Proc -> {"user", "tty", "event", "woken", "try", "leave"}]
    BY <1>1 DEF InputInv
<1> QED  BY <1>1, <1>2, <1>3, <1>4, CallStep

\* Into the kernel and back.
LEMMA CrossInv ==
    ASSUME InputInv, NEW p \in Reader, NEW a, At(p, a), NEW b \in BOOLEAN,
           k' = [k EXCEPT !.ints = b], NEW to \in {"user", "tty", "event", "try"},
           pc' = [pc EXCEPT ![p] = to], UNCHANGED <<t, kb, h, sent>>
    PROVE  InputInv' /\ kb'.seen = kb.seen
<1>1. h.at = "off" /\ Settled(k)
    BY CallerOff, Keys
<1>2. Settled(k') /\ k'.waitq = k.waitq
    BY <1>1, SetInts DEF SameQueues
<1>3. pc' \in [Proc -> {"user", "tty", "event", "woken", "try", "leave"}]
    BY DEF InputInv
<1> QED  BY <1>1, <1>2, <1>3, CallStep

\* The ioctl that sets the mode.
LEMMA SetModeInv ==
    ASSUME InputInv, NEW p \in Reader, NEW m \in {"CANONICAL", "RAW"}, SetMode(p, m)
    PROVE  InputInv' /\ kb'.seen = kb.seen
<1>1. /\ At(p, "user") /\ t' = [t EXCEPT !.mode = m, !.line = <<>>]
      /\ UNCHANGED <<k, kb, h, pc, sent>>
    BY DEF SetMode
<1>2. h.at = "off" /\ Settled(k) /\ TextOK(t, h, sent) /\ EventsOK(kb)
    BY <1>1, CallerOff, Keys
<1>3. t = [locks |-> t.locks, input |-> t.input, line |-> t.line, mode |-> t.mode]
    BY <1>2 DEF TextOK
<1>4. t'.locks = t.locks /\ t'.input = t.input
    BY <1>1, <1>3
<1>5. HandlerOK(k', t'.locks, h')
    BY <1>1, <1>2, <1>4, Off
<1>6. TextOK(t', h', sent')
    BY <1>1, <1>2, TextMode
<1>7. NobodyMisses(k', t', kb', h')
    BY <1>1, <1>4 DEF InputInv, NobodyMisses
<1>8. pc' \in [Proc -> {"user", "tty", "event", "woken", "try", "leave"}]
    BY <1>1 DEF InputInv
<1> QED  BY <1>1, <1>2, <1>5, <1>6, <1>7, <1>8, InvNext

\* One turn of the loop in tty_read.
LEMMA TtyReadInv ==
    ASSUME InputInv, NEW p \in Reader, TtyRead(p)
    PROVE  InputInv' /\ kb'.seen = kb.seen
<1>1. At(p, "tty") /\ UNCHANGED <<kb, h>> /\ (TtyReadByte(p) \/ TtyReadShort(p) \/ TtyReadSleep(p))
    BY DEF TtyRead
<1>2. /\ h.at = "off" /\ Settled(k) /\ TextOK(t, h, sent)
      /\ EventsOK(kb) /\ t.locks = 0
    BY <1>1, CallerOff, Keys, Off
<1>3. k.current # Kernel /\ p \in Proc
    BY <1>1 DEF At, Reader
<1>4. pc \in [Proc -> {"user", "tty", "event", "woken", "try", "leave"}]
    BY DEF InputInv
<1>5. CASE TtyReadSleep(p)
    <2>1. /\ ~HasValue(t.input) /\ UNCHANGED <<t, pc, sent>>
          /\ k' = SchedResume(WaitQueueSleep(MutexAround(SchedPostpone(k)), "readers"))
        BY <1>5 DEF TtyReadSleep
    <2>2. Settled(k') /\ Queued(k, k', "readers")
        BY <1>2, <1>3, <2>1, TtySleeps
    <2>3. k'.waitq["events"] = k.waitq["events"]
        BY <1>2, <2>2 DEF Queued, Settled, State
    <2> QED  BY <1>1, <1>2, <1>4, <2>1, <2>2, <2>3, CallStep
<1>6. CASE TtyReadShort(p)
    <2>1. /\ UNCHANGED <<t, sent>> /\ pc' = [pc EXCEPT ![p] = "leave"]
          /\ k' = SchedResume(MutexAround(SchedPostpone(k)))
        BY <1>6 DEF TtyReadShort
    <2>2. Settled(k') /\ k'.waitq = k.waitq
        BY <1>2, <2>1, ReadSettled
    <2>3. pc' \in [Proc -> {"user", "tty", "event", "woken", "try", "leave"}]
        BY <1>4, <2>1
    <2> QED  BY <1>1, <1>2, <2>1, <2>2, <2>3, CallStep
<1>7. CASE TtyReadByte(p)
    <2>1. /\ HasValue(t.input) /\ k' = SchedResume(MutexAround(SchedPostpone(k)))
          /\ t' = [t EXCEPT !.input = RingbufferRead(@)]
          /\ \E x \in BOOLEAN : pc' = [pc EXCEPT ![p] = IF x THEN "leave" ELSE @]
          /\ sent' = IF sent # <<>> THEN Tail(sent) ELSE sent
        BY <1>7 DEF TtyReadByte
    <2>2. Settled(k') /\ k'.waitq = k.waitq
        BY <1>2, <2>1, ReadSettled
    <2>3. pc' \in [Proc -> {"user", "tty", "event", "woken", "try", "leave"}]
        BY <1>3, <1>4, <2>1
    <2>4. TextOK(t', h', sent')
        BY <1>1, <1>2, <2>1, TextRead
    <2>5. t = [locks |-> t.locks, input |-> t.input, line |-> t.line, mode |-> t.mode]
        BY <1>2 DEF TextOK
    <2>6. t'.locks = 0
        BY <1>2, <2>1, <2>5
    <2>7. HandlerOK(k', t'.locks, h')
        BY <1>1, <1>2, <2>6, Off
    <2>8. NobodyMisses(k', t', kb', h')
        BY <1>1, <1>2, <2>1, <2>2 DEF InputInv, NobodyMisses
    <2> QED  BY <1>1, <1>2, <2>2, <2>3, <2>4, <2>7, <2>8, InvNext
<1> QED  BY <1>1, <1>5, <1>6, <1>7

\* An event is taken out of the ring, and nobody waits for one.
LEMMA TakeInv ==
    ASSUME InputInv, h.at = "off", HasValue(kb.ring), TakeEvent, Settled(k'),
           k'.waitq = k.waitq, UNCHANGED <<t, h, sent>>,
           pc' \in [Proc -> {"user", "tty", "event", "woken", "try", "leave"}]
    PROVE  InputInv' /\ kb'.seen > kb.seen
<1>1. EventsOK(kb) /\ TextOK(t, h, sent)
    BY Keys
<1>2. EventsOK(kb') /\ kb'.next = kb.next /\ kb'.seen > kb.seen
    BY <1>1, EventTaken
<1>3. HandlerOK(k', t'.locks, h')
    BY Off
<1>4. TextOK(t', h', sent')
    BY <1>1, <1>2
<1>5. NobodyMisses(k', t', kb', h')
    BY DEF InputInv, NobodyMisses
<1> QED  BY <1>2, <1>3, <1>4, <1>5, InvNext

\* The reads of the keyboard device.
LEMMA EventInv ==
    ASSUME InputInv, NEW p \in Reader, EventRead(p) \/ EventWoken(p) \/ EventTry(p)
    PROVE  InputInv' /\ (kb'.seen = kb.seen \/ kb'.seen > kb.seen)
<1>1. /\ At(p, "event") \/ At(p, "woken") \/ At(p, "try")
      /\ UNCHANGED <<t, h, sent>>
    BY DEF EventRead, EventWoken, EventTry
<1>2. h.at = "off" /\ Settled(k)
    BY <1>1, CallerOff, Keys
<1>3. k.current # Kernel /\ p \in Proc
    BY <1>1 DEF At, Reader
<1>4. pc \in [Proc -> {"user", "tty", "event", "woken", "try", "leave"}]
    BY DEF InputInv
<1>5. \A to \in {"event", "woken", "leave"} :
         [pc EXCEPT ![p] = to] \in [Proc -> {"user", "tty", "event", "woken", "try", "leave"}]
    BY <1>4
<1>6. CASE EventRead(p) /\ HasValue(kb.ring)
    <2>1. TakeEvent /\ k' = SchedResume(SchedPostpone(k)) /\ pc' = [pc EXCEPT ![p] = "leave"]
        BY <1>6 DEF EventRead
    <2>2. Settled(k') /\ k'.waitq = k.waitq
        BY <1>2, <2>1, SectionSettled
    <2> QED  BY <1>1, <1>2, <1>5, <1>6, <2>1, <2>2, TakeInv
<1>7. CASE EventRead(p) /\ ~HasValue(kb.ring)
    <2>1. /\ k' = WaitQueueSleepPostponed(SchedPostpone(k), "events") /\ UNCHANGED kb
          /\ pc' = [pc EXCEPT ![p] = "woken"]
        BY <1>7 DEF EventRead
    <2>2. Settled(k') /\ Queued(k, k', "events")
        BY <1>2, <1>3, <2>1, EventSleeps
    <2>3. k'.waitq["readers"] = k.waitq["readers"]
        BY <1>2, <2>2 DEF Queued, Settled, State
    <2> QED  BY <1>1, <1>2, <1>5, <1>7, <2>1, <2>2, <2>3, CallStep
<1>8. CASE EventWoken(p)
    <2>1. k' = SchedResume(SchedPostpone(k)) /\ UNCHANGED kb /\ pc' = [pc EXCEPT ![p] = "event"]
        BY <1>8 DEF EventWoken
    <2>2. Settled(k') /\ k'.waitq = k.waitq
        BY <1>2, <2>1, SectionSettled
    <2> QED  BY <1>1, <1>2, <1>5, <2>1, <2>2, CallStep
<1>9. CASE EventTry(p)
    <2>1. /\ IF HasValue(kb.ring) THEN TakeEvent ELSE UNCHANGED kb
          /\ UNCHANGED k /\ pc' = [pc EXCEPT ![p] = "leave"]
        BY <1>9 DEF EventTry
    <2>2. HasValue(kb.ring) => InputInv' /\ kb'.seen > kb.seen
        BY <1>1, <1>2, <1>5, <2>1, TakeInv
    <2>3. ~HasValue(kb.ring) => InputInv' /\ kb'.seen = kb.seen
        BY <1>1, <1>2, <1>5, <2>1, CallStep
    <2> QED  BY <2>2, <2>3
<1> QED  BY <1>6, <1>7, <1>8, <1>9

\* handle_keyboard up to the end of keyboard_write_event.
LEMMA KeyInv ==
    ASSUME InputInv, NEW c \in Char \cup {NoChar}, Key(c)
    PROVE  InputInv' /\ kb'.seen = kb.seen
<1> DEFINE j == [k EXCEPT !.ints = FALSE]
<1>1. /\ k.ints /\ h.at = "off" /\ kb.next < MaxKeys /\ kb' = WriteEvent
      /\ Len(sent) + Len(t.line) < Room
      /\ k' = WaitQueueWakeAll(j, "events") /\ UNCHANGED <<t, pc, sent>>
      /\ h' = [NoHandler EXCEPT !.p = k.current, !.depth = k.frames[k.current],
                                !.at = "receive", !.c = c]
    BY DEF Key
<1>2. /\ Settled(k) /\ TextOK(t, h, sent) /\ EventsOK(kb)
      /\ t.locks = 0
    BY <1>1, Keys, Off
<1>3. EventsOK(kb') /\ kb'.next = kb.next + 1 /\ kb'.seen = kb.seen
    BY <1>1, <1>2, EventWritten
<1>4. /\ Settled(j) /\ j.waitq = k.waitq /\ j.current = k.current /\ j.frames = k.frames
    BY <1>2, SetInts DEF SameQueues
<1> HIDE DEF j
<1>5. /\ Settled(k') /\ k'.waitq = [k.waitq EXCEPT !["events"] = <<>>]
      /\ k'.current = k.current /\ k'.frames = k.frames /\ k'.ints = FALSE
    <2> DEFINE w == WaitQueueWakeAll(j, "events")
    <2>1. /\ Settled(w) /\ w.waitq = [j.waitq EXCEPT !["events"] = <<>>]
          /\ w.current = j.current /\ w.frames = j.frames /\ w.ints = FALSE
        BY <1>4, WakeSettled
    <2>2. k' = w
        BY <1>1
    <2> HIDE DEF w
    <2> QED  BY <1>4, <2>1, <2>2
<1>6. /\ h' = [p |-> k.current, depth |-> k.frames[k.current], at |-> "receive", c |-> c,
               raw |-> FALSE, i |-> 0]
    BY <1>1 DEF NoHandler
<1>7. k.current \in Proc
    BY <1>2, Runs
<1>8. HandlerOK(k', t'.locks, h')
    <2>1. /\ h'.p = k.current /\ h'.depth = k.frames[k.current] /\ h'.at = "receive"
          /\ h' = [p |-> h'.p, depth |-> h'.depth, at |-> h'.at, c |-> h'.c, raw |-> h'.raw,
                   i |-> h'.i]
        BY <1>6
    <2>2. t'.locks = 0
        BY <1>1, <1>2
    <2> QED  BY <1>5, <1>7, <2>1, <2>2 DEF HandlerOK
<1>9. TextOK(t', h', sent')
    <2>1. ~Moving(h) /\ ~Moving(h')
        BY <1>1, <1>6 DEF Moving
    <2>2. /\ h'.c \in Char \cup {NoChar} /\ h'.i \in Nat /\ h'.raw \in BOOLEAN
          /\ h'.at = "receive" /\ h'.raw = FALSE
        BY <1>2, <1>6
    <2>3. TextOK(t, h', sent)
        BY <1>1, <1>2, <2>1, <2>2, TextRest
    <2> QED  BY <1>1, <2>3
<1>10. NobodyMisses(k', t', kb', h')
    <2>1. /\ k'.waitq["events"] = <<>> /\ k'.waitq["readers"] = k.waitq["readers"]
        BY <1>2, <1>5, InputAssumption DEF Settled, State
    <2> QED  BY <1>1, <2>1 DEF InputInv, NobodyMisses
<1>11. pc' \in [Proc -> {"user", "tty", "event", "woken", "try", "leave"}]
    BY <1>1 DEF InputInv
<1> QED  BY <1>3, <1>5, <1>8, <1>9, <1>10, <1>11, InvNext

\* The handler between its actions.
LEMMA Inside ==
    ASSUME InputInv, NEW a, InHandler(a), a # "off"
    PROVE  /\ h.at = a /\ k.ints = FALSE /\ k.current = h.p /\ k.frames[h.p] = h.depth
           /\ h.p \in Proc /\ t.locks = (IF a = "put" THEN 1 ELSE 0)
           /\ h = [p |-> h.p, depth |-> h.depth, at |-> h.at, c |-> h.c, raw |-> h.raw,
                   i |-> h.i]
           /\ h.c \in Char \cup {NoChar} /\ h.i \in Nat /\ h.raw \in BOOLEAN
           /\ t = [locks |-> t.locks, input |-> t.input, line |-> t.line, mode |-> t.mode]
<1>1. h.at = a
    BY DEF InHandler
<1>2. HandlerOK(k, t.locks, h) /\ TextOK(t, h, sent)
    BY DEF InputInv
<1>3. /\ k.ints = FALSE /\ k.current = h.p /\ k.frames[h.p] = h.depth /\ h.p \in Proc
      /\ t.locks = (IF a = "put" THEN 1 ELSE 0)
      /\ h = [p |-> h.p, depth |-> h.depth, at |-> h.at, c |-> h.c, raw |-> h.raw, i |-> h.i]
    BY <1>1, <1>2 DEF HandlerOK
<1>4. /\ h.c \in Char \cup {NoChar} /\ h.i \in Nat /\ h.raw \in BOOLEAN
      /\ t = [locks |-> t.locks, input |-> t.input, line |-> t.line, mode |-> t.mode]
    BY <1>2 DEF TextOK
<1> QED  BY <1>1, <1>3, <1>4

\* A step of the handler that keeps the CPU.
LEMMA HandlerStep ==
    ASSUME InputInv, NEW a, InHandler(a), a # "off", Settled(k'), UNCHANGED <<kb, pc>>,
           k'.current = k.current, k'.frames = k.frames, k'.ints = FALSE,
           h' = [p |-> h.p, depth |-> h.depth, at |-> h'.at, c |-> h'.c, raw |-> h'.raw,
                 i |-> h'.i],
           h'.at \in {"lock", "put", "wake", "eoi"},
           t'.locks = (IF h'.at = "put" THEN 1 ELSE 0), TextOK(t', h', sent'),
           k'.waitq["events"] = k.waitq["events"],
           h'.at = "eoi" => ~(k'.waitq["readers"] # <<>> /\ HasValue(t'.input))
    PROVE  InputInv' /\ kb'.seen = kb.seen
<1>1. /\ k.current = h.p /\ k.frames[h.p] = h.depth /\ h.p \in Proc
    BY Inside
<1>2. HandlerOK(k', t'.locks, h')
    <2>1. h'.p = h.p /\ h'.depth = h.depth
        OBVIOUS
    <2> QED  BY <1>1, <2>1 DEF HandlerOK
<1>3. EventsOK(kb') /\ TextOK(t', h', sent')
    BY Keys
<1>4. NobodyMisses(k', t', kb', h')
    BY DEF InputInv, NobodyMisses
<1>5. pc' \in [Proc -> {"user", "tty", "event", "woken", "try", "leave"}]
    BY DEF InputInv
<1> QED  BY <1>2, <1>3, <1>4, <1>5, InvNext

\* tty_receive_char up to the first character it buffers.
LEMMA ReceiveInv ==
    ASSUME InputInv, Receive
    PROVE  InputInv' /\ kb'.seen = kb.seen
<1>1. /\ InHandler("receive") /\ UNCHANGED <<k, kb, pc>>
      /\ ReceiveRaw \/ ReceiveCanonical \/ ReceiveNothing
    BY DEF Receive
<1>2. /\ Settled(k) /\ TextOK(t, h, sent)
    BY Keys
<1>3. /\ h.at = "receive" /\ k.ints = FALSE /\ t.locks = 0
      /\ h = [p |-> h.p, depth |-> h.depth, at |-> h.at, c |-> h.c, raw |-> h.raw, i |-> h.i]
      /\ h.c \in Char \cup {NoChar} /\ h.i \in Nat /\ h.raw \in BOOLEAN
      /\ t = [locks |-> t.locks, input |-> t.input, line |-> t.line, mode |-> t.mode]
    BY <1>1, Inside
<1>4. ~(k.waitq["readers"] # <<>> /\ HasValue(t.input))
    BY <1>3 DEF InputInv, NobodyMisses
<1>5. CASE ReceiveRaw
    <2>1. /\ h.c # NoChar /\ h' = [h EXCEPT !.at = "lock", !.raw = TRUE]
          /\ sent' = Append(sent, h.c) /\ UNCHANGED t
        BY <1>5 DEF ReceiveRaw
    <2>2. /\ h' = [p |-> h.p, depth |-> h.depth, at |-> "lock", c |-> h.c, raw |-> TRUE,
                   i |-> h.i]
        BY <1>3, <2>1
    <2>3. h'.at = "lock" /\ h'.raw = TRUE /\ h'.c = h.c /\ h'.i = h.i
        BY <2>2
    <2>4. TextOK(t', h', sent')
        BY <1>2, <1>3, <2>1, <2>3, TextRaw
    <2> QED  BY <1>1, <1>2, <1>3, <2>1, <2>2, <2>3, <2>4, HandlerStep
<1>6. CASE ReceiveCanonical
    <2> DEFINE a == IF LineDone THEN "lock" ELSE "eoi"
    <2>1. /\ h.c # NoChar /\ t' = [t EXCEPT !.line = Edited]
          /\ h' = [h EXCEPT !.at = a, !.i = 1]
          /\ sent' = IF LineDone THEN sent \o Edited ELSE sent
        BY <1>6 DEF ReceiveCanonical
    <2>2. a \in {"lock", "eoi"}
        OBVIOUS
    <2>3. TextOK(t', h', sent')
        <3>1. h'.at = a /\ h'.raw = h.raw /\ h'.c = h.c /\ h'.i = 1
            BY <1>3, <2>1
        <3> QED  BY <1>2, <1>3, <2>1, <3>1, TextLine
    <2> HIDE DEF a
    <2>4. h' = [p |-> h.p, depth |-> h.depth, at |-> a, c |-> h.c, raw |-> h.raw, i |-> 1]
        BY <1>3, <2>1
    <2>5. h'.at = a /\ h'.raw = h.raw /\ h'.c = h.c /\ h'.i = 1
        BY <2>4
    <2>6. t'.locks = 0 /\ t'.input = t.input
        BY <1>3, <2>1
    <2> QED  BY <1>1, <1>2, <1>3, <1>4, <2>2, <2>3, <2>4, <2>5, <2>6, HandlerStep
<1>7. CASE ReceiveNothing
    <2>1. h' = [h EXCEPT !.at = "eoi"] /\ UNCHANGED <<t, sent>>
        BY <1>7 DEF ReceiveNothing
    <2>2. h' = [p |-> h.p, depth |-> h.depth, at |-> "eoi", c |-> h.c, raw |-> h.raw, i |-> h.i]
        BY <1>3, <2>1
    <2>3. h'.at = "eoi" /\ h'.raw = h.raw /\ h'.c = h.c /\ h'.i = h.i
        BY <2>2
    <2>4. ~Moving(h) /\ ~Moving(h')
        BY <1>3, <2>3 DEF Moving
    <2>5. TextOK(t', h', sent')
        BY <1>2, <1>3, <2>1, <2>3, <2>4, TextRest
    <2> QED  BY <1>1, <1>2, <1>3, <1>4, <2>1, <2>2, <2>3, <2>5, HandlerStep
<1> QED  BY <1>1, <1>5, <1>6, <1>7

\* mutex_lock in ringbuffer_write.
LEMMA LockInv ==
    ASSUME InputInv, LockInput
    PROVE  InputInv' /\ kb'.seen = kb.seen
<1> DEFINE c == IF h.raw THEN h.c ELSE t.line[h.i]
<1>1. /\ InHandler("lock") /\ (h.raw \/ h.i <= Len(t.line)) /\ k' = Mutex!SemaphoreLock(k)
      /\ t' = [t EXCEPT !.locks = Mutex!Locked] /\ UNCHANGED <<kb, pc, sent>>
      /\ h' = [h EXCEPT !.at = "put", !.c = c]
    BY DEF LockInput
<1>2. /\ Settled(k) /\ TextOK(t, h, sent)
    BY Keys
<1>3. /\ h.at = "lock" /\ k.ints = FALSE /\ t.locks = 0
      /\ h = [p |-> h.p, depth |-> h.depth, at |-> h.at, c |-> h.c, raw |-> h.raw, i |-> h.i]
      /\ t = [locks |-> t.locks, input |-> t.input, line |-> t.line, mode |-> t.mode]
    BY <1>1, Inside
<1>4. /\ Settled(k') /\ k'.waitq = k.waitq /\ k'.ints = FALSE
      /\ k'.current = k.current /\ k'.frames = k.frames
    <2>1. k.waitq[InputLock] = <<>>
        BY <1>2 DEF Settled
    <2>2. k' = SchedResume(SchedPostpone(k))
        BY <1>1, <1>3, <2>1, MutexFree
    <2> QED  BY <1>2, <2>2, SectionSettled
<1>5. Mutex!Locked = 1
    BY <1>3 DEF Mutex!Locked
<1> HIDE DEF c
<1>6. h' = [p |-> h.p, depth |-> h.depth, at |-> "put", c |-> c, raw |-> h.raw, i |-> h.i]
    BY <1>1, <1>3
<1>7. h'.at = "put" /\ h'.raw = h.raw /\ h'.c = c /\ h'.i = h.i
    BY <1>6
<1>8. TextOK(t', h', sent')
    BY <1>1, <1>2, <1>3, <1>5, <1>7, TextLock DEF c
<1>9. t'.locks = 1
    BY <1>1, <1>3, <1>5
<1> QED  BY <1>1, <1>2, <1>3, <1>4, <1>6, <1>7, <1>8, <1>9, HandlerStep

\* ringbuffer_write and mutex_unlock, with nobody waiting for the mutex.
LEMMA PutInv ==
    ASSUME InputInv, PutInput
    PROVE  InputInv' /\ kb'.seen = kb.seen
<1> DEFINE a == IF h.raw THEN "wake" ELSE "lock"
           i == h.i + 1
<1>1. /\ InHandler("put") /\ k' = Mutex!SemaphoreUnlock(k) /\ UNCHANGED <<kb, pc, sent>>
      /\ t' = [t EXCEPT !.input = RingbufferWrite(@, h.c), !.locks = Mutex!Unlocked]
      /\ h' = [h EXCEPT !.at = a, !.i = i]
    BY DEF PutInput
<1>2. /\ Settled(k) /\ TextOK(t, h, sent)
    BY Keys
<1>3. /\ h.at = "put" /\ k.ints = FALSE /\ t.locks = 1
      /\ h = [p |-> h.p, depth |-> h.depth, at |-> h.at, c |-> h.c, raw |-> h.raw, i |-> h.i]
      /\ t = [locks |-> t.locks, input |-> t.input, line |-> t.line, mode |-> t.mode]
    BY <1>1, Inside
<1>4. /\ Settled(k') /\ k'.waitq = k.waitq /\ k'.ints = FALSE
      /\ k'.current = k.current /\ k'.frames = k.frames
    <2>1. k.waitq[InputLock] = <<>>
        BY <1>2 DEF Settled
    <2>2. Mutex!SemaphoreUnlock(k) = Mutex!SchedResume(Mutex!SchedPostpone(k))
        BY <2>1 DEF Mutex!SemaphoreUnlock, Mutex!Waiters, InputLock
    <2>3. k' = SchedResume(SchedPostpone(k))
        BY <1>1, <2>2, OneScheduler
    <2> QED  BY <1>2, <2>3, SectionSettled
<1>5. Mutex!Unlocked = 0
    <2>1. k.waitq[InputLock] = <<>> /\ (1 - 1) % 256 = 0
        BY <1>2 DEF Settled
    <2> QED  BY <1>3, <2>1 DEF Mutex!Unlocked, Mutex!Waiters, InputLock
<1>6. a \in {"wake", "lock"}
    OBVIOUS
<1>7. TextOK(t', h', sent')
    <2>1. h'.at = a /\ h'.raw = h.raw /\ h'.c = h.c /\ h'.i = h.i + 1
        BY <1>1, <1>3
    <2> QED  BY <1>1, <1>2, <1>3, <2>1, TextPut
<1> HIDE DEF a, i
<1>8. h' = [p |-> h.p, depth |-> h.depth, at |-> a, c |-> h.c, raw |-> h.raw, i |-> i]
    BY <1>1, <1>3
<1>9. h'.at = a /\ h'.raw = h.raw /\ h'.c = h.c /\ h'.i = i
    BY <1>8
<1>10. t'.locks = 0
    <2> DEFINE y == RingbufferWrite(t.input, h.c)
    <2>1. t' = [t EXCEPT !.input = y, !.locks = 0]
        BY <1>1, <1>5
    <2> HIDE DEF y
    <2> QED  BY <1>3, <2>1
<1> QED  BY <1>1, <1>3, <1>4, <1>6, <1>7, <1>8, <1>9, <1>10, HandlerStep

\* The end of a line.
LEMMA BufferedInv ==
    ASSUME InputInv, LineBuffered
    PROVE  InputInv' /\ kb'.seen = kb.seen
<1>1. /\ InHandler("lock") /\ ~h.raw /\ h.i > Len(t.line) /\ UNCHANGED <<k, kb, pc, sent>>
      /\ t' = [t EXCEPT !.line = <<>>] /\ h' = [h EXCEPT !.at = "wake"]
    BY DEF LineBuffered
<1>2. /\ Settled(k) /\ TextOK(t, h, sent)
    BY Keys
<1>3. /\ h.at = "lock" /\ k.ints = FALSE /\ t.locks = 0
      /\ h = [p |-> h.p, depth |-> h.depth, at |-> h.at, c |-> h.c, raw |-> h.raw, i |-> h.i]
      /\ t = [locks |-> t.locks, input |-> t.input, line |-> t.line, mode |-> t.mode]
    BY <1>1, Inside
<1>4. h' = [p |-> h.p, depth |-> h.depth, at |-> "wake", c |-> h.c, raw |-> h.raw, i |-> h.i]
    BY <1>1, <1>3
<1>5. h'.at = "wake" /\ h'.raw = h.raw /\ h'.c = h.c /\ h'.i = h.i
    BY <1>4
<1>6. TextOK(t', h', sent')
    BY <1>1, <1>2, <1>3, <1>5, TextBuffered
<1>7. t'.locks = 0
    BY <1>1, <1>3
<1> QED  BY <1>1, <1>2, <1>3, <1>4, <1>5, <1>6, <1>7, HandlerStep

\* The wake-up of the readers.
LEMMA WakeInv ==
    ASSUME InputInv, WakeReaders
    PROVE  InputInv' /\ kb'.seen = kb.seen
<1>1. /\ InHandler("wake") /\ k' = WaitQueueWakeAll(k, "readers")
      /\ h' = [h EXCEPT !.at = "eoi"] /\ UNCHANGED <<t, kb, pc, sent>>
    BY DEF WakeReaders
<1>2. /\ Settled(k) /\ TextOK(t, h, sent)
    BY Keys
<1>3. /\ h.at = "wake" /\ t.locks = 0
      /\ h = [p |-> h.p, depth |-> h.depth, at |-> h.at, c |-> h.c, raw |-> h.raw, i |-> h.i]
      /\ h.c \in Char \cup {NoChar} /\ h.i \in Nat /\ h.raw \in BOOLEAN
    BY <1>1, Inside
<1>4. /\ Settled(k') /\ k'.waitq = [k.waitq EXCEPT !["readers"] = <<>>]
      /\ k'.current = k.current /\ k'.frames = k.frames /\ k'.ints = FALSE
    BY <1>1, <1>2, WakeSettled
<1>5. k'.waitq["readers"] = <<>> /\ k'.waitq["events"] = k.waitq["events"]
    BY <1>2, <1>4, InputAssumption DEF Settled, State
<1>6. h' = [p |-> h.p, depth |-> h.depth, at |-> "eoi", c |-> h.c, raw |-> h.raw, i |-> h.i]
    BY <1>1, <1>3
<1>7. h'.at = "eoi" /\ h'.raw = h.raw /\ h'.c = h.c /\ h'.i = h.i
    BY <1>6
<1>8. ~Moving(h) /\ ~Moving(h')
    BY <1>3, <1>7 DEF Moving
<1>9. TextOK(t', h', sent')
    BY <1>1, <1>2, <1>3, <1>7, <1>8, TextRest
<1> QED  BY <1>1, <1>3, <1>4, <1>5, <1>6, <1>7, <1>9, HandlerStep

\* The return from the interrupt.
LEMMA EndInv ==
    ASSUME InputInv, EndOfInterrupt
    PROVE  InputInv' /\ kb'.seen = kb.seen
<1>1. /\ InHandler("eoi") /\ h' = NoHandler /\ k' = [k EXCEPT !.ints = TRUE]
      /\ UNCHANGED <<t, kb, pc, sent>>
    BY DEF EndOfInterrupt
<1>2. /\ Settled(k) /\ TextOK(t, h, sent) /\ EventsOK(kb)
    BY Keys
<1>3. h.at = "eoi" /\ t.locks = 0
    BY <1>1, Inside
<1>4. Settled(k') /\ k'.waitq = k.waitq
    BY <1>1, <1>2, SetInts DEF SameQueues
<1>5. /\ h'.at = "off" /\ h'.c \in Char \cup {NoChar} /\ h'.i \in Nat /\ h'.raw \in BOOLEAN
      /\ HandlerOK(k', 0, h')
    BY <1>1 DEF NoHandler, HandlerOK
<1>6. ~Moving(h) /\ ~Moving(h')
    BY <1>3, <1>5 DEF Moving
<1>7. TextOK(t', h', sent')
    BY <1>1, <1>2, <1>5, <1>6, TextRest
<1>8. HandlerOK(k', t'.locks, h')
    BY <1>1, <1>3, <1>5
<1>9. NobodyMisses(k', t', kb', h')
    BY <1>1, <1>3, <1>4 DEF InputInv, NobodyMisses
<1>10. pc' \in [Proc -> {"user", "tty", "event", "woken", "try", "leave"}]
    BY <1>1 DEF InputInv
<1> QED  BY <1>1, <1>2, <1>4, <1>7, <1>8, <1>9, <1>10, InvNext

\* Every step keeps the invariant and reads events in their order.
LEMMA StepInv ==
    ASSUME InputInv, Next
    PROVE  InputInv' /\ (kb'.seen = kb.seen \/ kb'.seen > kb.seen)
<1>1. CASE Tick
    BY <1>1, TickInv
<1>2. CASE Handler
    BY <1>2, ReceiveInv, LockInv, PutInv, BufferedInv, WakeInv, EndInv DEF Handler
<1>3. ASSUME NEW c \in Char \cup {NoChar}, Key(c)
      PROVE  InputInv' /\ kb'.seen = kb.seen
    BY <1>3, KeyInv
<1>4. ASSUME NEW p \in Proc, UnwindStep(p)
      PROVE  InputInv' /\ kb'.seen = kb.seen
    BY <1>4, UnwindInv
<1>5. ASSUME NEW p \in Reader, SystemCall(p)
      PROVE  InputInv' /\ (kb'.seen = kb.seen \/ kb'.seen > kb.seen)
    <2>1. CASE TtyRead(p)
        BY <2>1, TtyReadInv
    <2>2. CASE EventRead(p) \/ EventWoken(p) \/ EventTry(p)
        BY <2>2, EventInv
    <2>3. CASE Leave(p)
        <3>1. /\ At(p, "leave") /\ k' = [k EXCEPT !.ints = TRUE]
              /\ pc' = [pc EXCEPT ![p] = "user"] /\ UNCHANGED <<t, kb, h, sent>>
            BY <2>3 DEF Leave
        <3> QED  BY <3>1, CrossInv
    <2> QED  BY <1>5, <2>1, <2>2, <2>3 DEF SystemCall
<1>6. ASSUME NEW p \in Reader, User(p)
      PROVE  InputInv' /\ kb'.seen = kb.seen
    <2>1. ASSUME NEW to \in {"tty", "event", "try"}, NEW n, Enter(p, to, n)
          PROVE  InputInv' /\ kb'.seen = kb.seen
        <3>1. /\ At(p, "user") /\ k' = [k EXCEPT !.ints = FALSE]
              /\ pc' = [pc EXCEPT ![p] = to] /\ UNCHANGED <<t, kb, h, sent>>
            BY <2>1 DEF Enter
        <3> QED  BY <3>1, CrossInv
    <2>2. ASSUME NEW m \in {"CANONICAL", "RAW"}, SetMode(p, m)
          PROVE  InputInv' /\ kb'.seen = kb.seen
        BY <2>2, SetModeInv
    <2> QED  BY <1>6, <2>1, <2>2 DEF User
<1> QED  BY <1>1, <1>2, <1>3, <1>4, <1>5, <1>6 DEF Next

\* A ring that was never written to.
LEMMA NewRing ==
    ASSUME NEW n \in Nat \ {0}, NEW S, NEW v \in S
    PROVE  /\ RingOK(RingbufferNew(n, v), n, S) /\ Unread(RingbufferNew(n, v)) = <<>>
           /\ ~HasValue(RingbufferNew(n, v))
    BY DEF RingOK, RingbufferNew, Unread, HasValue

LEMMA InitInv ==
    ASSUME Init
    PROVE  InputInv
<1>1. /\ t = [locks |-> 0, input |-> RingbufferNew(InputSize, NoChar), line |-> <<>>,
              mode |-> "CANONICAL"]
      /\ kb = [ring |-> RingbufferNew(EventSize, 0), pool |-> [i \in 0..EventSize - 1 |-> 0],
               next |-> 0, seen |-> -1]
      /\ h = NoHandler /\ pc = [p \in Proc |-> "user"] /\ sent = <<>>
    BY DEF Init
<1>2. /\ InputSize \in Nat \ {0} /\ EventSize \in Nat \ {0} /\ LineSize \in Nat \ {0}
      /\ MaxKeys \in Nat /\ 0 \in 0 .. EventSize - 1
    BY InputAssumption
<1>3. /\ RingOK(t.input, InputSize, Char \cup {NoChar}) /\ Unread(t.input) = <<>>
      /\ ~HasValue(t.input)
    BY <1>1, <1>2, NewRing
<1>4. /\ RingOK(kb.ring, EventSize, 0 .. EventSize - 1) /\ Unread(kb.ring) = <<>>
      /\ ~HasValue(kb.ring)
    BY <1>1, <1>2, NewRing
<1>5. /\ h.at = "off" /\ h.c = NoChar /\ h.i = 0 /\ h.raw = FALSE
      /\ HandlerOK(k, t.locks, h)
    BY <1>1 DEF NoHandler, HandlerOK
<1>6. TextOK(t, h, sent)
    <2>1. ~Moving(h) /\ ~MovingLine(h) /\ Pending(t, h) = <<>>
        BY <1>5 DEF Moving, MovingLine, Pending
    <2>2. /\ <<>> \in Seq(Char) /\ Len(<<>>) + Len(<<>>) + 0 <= Room /\ Len(<<>>) < LineSize
          /\ <<>> = <<>> \o <<>> /\ 0 \in Nat
        BY <1>2, RoomIs
    <2> QED  BY <1>1, <1>3, <1>5, <2>1, <2>2 DEF TextOK
<1>7. EventsOK(kb)
    <2>1. /\ kb.pool \in [0 .. EventSize - 1 -> Nat] /\ kb.next \in 0..MaxKeys
          /\ kb.seen = -1 /\ kb.next = 0
          /\ kb = [ring |-> kb.ring, pool |-> kb.pool, next |-> kb.next, seen |-> kb.seen]
        BY <1>1, <1>2
    <2>2. Len(Unread(kb.ring)) = 0
        BY <1>4
    <2> QED  BY <1>4, <2>1, <2>2 DEF EventsOK
<1>8. NobodyMisses(k, t, kb, h)
    BY <1>3, <1>4 DEF NobodyMisses
<1> QED  BY <1>1, <1>5, <1>6, <1>7, <1>8, InitSettled DEF InputInv

-----------------------------------------------------------------------------
\* The invariant gives what is promised to those who type and read.
LEMMA InvExact ==
    ASSUME InputInv
    PROVE  InputExact
<1>1. Settled(k) /\ HandlerOK(k, t.locks, h) /\ TextOK(t, h, sent)
    BY Keys DEF InputInv
<1>2. SchedulerIntact /\ k \in State /\ k.waitq[InputLock] = <<>>
    BY <1>1 DEF Settled, SchedulerIntact
<1>3. HandlerUndisturbed
    BY <1>1, <1>2 DEF HandlerOK, HandlerUndisturbed
<1>4. TypeOK
    <2>1. h.p \in Proc \cup {NoProc} /\ t.locks \in 0..1
        BY <1>1 DEF HandlerOK, NoHandler
    <2>2. t.line \in Seq(Char) /\ t.mode \in {"CANONICAL", "RAW"} /\ sent \in Seq(Char)
        BY <1>1 DEF TextOK
    <2> QED  BY <1>2, <2>1, <2>2 DEF TypeOK, InputInv
<1>5. NothingLost
    BY <1>1, TextFacts DEF NothingLost, Moving
<1>6. LineHasRoom
    BY <1>1, TextFacts DEF LineHasRoom, Moving
<1>7. NoReaderMissesInput /\ NoReaderMissesEvent
    BY DEF InputInv, NobodyMisses, NoReaderMissesInput, NoReaderMissesEvent
<1> QED  BY <1>2, <1>3, <1>4, <1>5, <1>6, <1>7 DEF InputExact

\* For any number of readers, any sizes of the buffers and any typing that the
\* ring can hold: no byte is lost, doubled or overtaken on the way from the
\* keyboard interrupt to read(), no reader sleeps on input or on an event that is
\* there, and the handler is not disturbed.
THEOREM InputAlwaysExact == Spec => []InputExact
<1>1. Init => InputInv
    BY InitInv
<1>2. InputInv /\ UNCHANGED vars => InputInv'
    BY DEF vars, InputInv
<1>3. InputInv /\ [Next]_vars => InputInv'
    BY <1>2, StepInv
<1>4. InputInv => InputExact
    BY InvExact
<1> QED  BY <1>1, <1>3, <1>4, PTL DEF Spec

\* Under the same assumptions, events are read in the order of the keys and none
\* twice, whatever the ring has lost.
THEOREM EventsAlwaysInOrder == Spec => EventsInOrder
<1>1. Init => InputInv
    BY InitInv
<1>2. InputInv /\ UNCHANGED vars => InputInv'
    BY DEF vars, InputInv
<1>3. InputInv /\ [Next]_vars => InputInv'
    BY <1>2, StepInv
<1>4. InputInv /\ [Next]_vars => [kb'.seen # kb.seen => kb'.seen > kb.seen]_vars
    BY StepInv
<1> QED  BY <1>1, <1>3, <1>4, PTL DEF Spec, EventsInOrder
=============================================================================
