------------------------------ MODULE TtyInput ------------------------------
(***************************************************************************)
(* From the keyboard interrupt to read(): drivers/keyboard.c, dev/kb.c and *)
(* the input side of drivers/tty.c, on the scheduler.                      *)
(*                                                                         *)
(* The interrupt handler runs on the stack of the process it interrupts,   *)
(* h.p.  It is no atomic step: every wake-up and every mutex call in it    *)
(* ends in sched_resume, which turns interrupts on when irq_lock_count is  *)
(* 0.  Then the timer, whose interrupt has priority, may preempt the       *)
(* handler.  No second key interrupts it, because the end of interrupt is  *)
(* sent last.  The count never is 0 once a forked child has run; Forked is *)
(* the number of those that have before the behaviour starts.              *)
(*                                                                         *)
(* The readers are forked user processes.  A character is what             *)
(* handle_scancode finds in its tables, NoChar for a key without one and   *)
(* for the shift key; echoing is in module Terminal.                       *)
(***************************************************************************)
EXTENDS SchedState, Ringbuffer, FiniteSets

CONSTANTS
    Kernel,     \* the boot process in its hlt loop
    Order,      \* the readers in the order in which they were forked
    Letters,    \* characters other than newline and backspace
    NoChar,
    Forked,
    InputSize,  \* TTY_INPUT_BUFFER_SIZE
    LineSize,   \* TTY_LINE_BUFFER_SIZE
    EventSize,  \* KEYBOARD_EVENT_BUFFER_SIZE
    MaxLen,     \* bound: longest read
    MaxKeys,    \* bound: keys pressed
    MaxFrames   \* bound: unreturned switches on one kernel stack

VARIABLES
    k,      \* the scheduler
    t,      \* tty_state: input_lock, input, line_buffer, mode
    kb,     \* event ring, pool and sequence; seen is the event last read
    h,      \* the keyboard interrupt that is being handled
    pc,     \* where each reader is in its system call
    call,   \* the length asked for, and the bytes read so far
    sent    \* history: the bytes the line discipline has released, not yet read

vars == <<k, t, kb, h, pc, call, sent>>

Reader == Proc \ {Kernel}
Char == Letters \cup {"newline", "erase"}
InputLock == "waiters"

\* Bound: the readers keep up with the keys as far as the input ring can hold what
\* they have not read.  What an overrun does is in RingCalls.
Room == InputSize - 1

ASSUME InputAssumption ==
    /\ Kernel \in Proc
    /\ {InputLock, "readers", "events"} \subseteq WaitQueue
    /\ Order \in Seq(Reader)
    /\ \A p \in Reader : \E i \in 1..Len(Order) : Order[i] = p
    /\ \A i, j \in 1..Len(Order) : Order[i] = Order[j] => i = j
    /\ NoChar \notin Char
    /\ Forked \in Nat \ {0} /\ MaxFrames \in Nat /\ MaxLen \in Nat
    /\ InputSize \in Nat \ {0} /\ LineSize \in Nat \ {0} /\ EventSize \in Nat \ {0}
    /\ MaxKeys \in Nat

Mutex == INSTANCE Semaphore WITH locks <- t.locks, Limit <- 1, MaxSleep <- 0

NoHandler == [p |-> NoProc, depth |-> 0, at |-> "off", c |-> NoChar, raw |-> FALSE, i |-> 0]

\* tty_device_initialize and keyboard_initialize have run.
Init ==
    /\ k = [current  |-> Kernel,
            status   |-> [p \in Proc |-> IF p = Kernel THEN "RUNNING" ELSE "READY_TO_RUN"],
            ready    |-> Order,
            sleeping |-> <<>>,
            dying    |-> <<>>,
            waitq    |-> [q \in WaitQueue |-> <<>>],
            left     |-> [p \in Proc |-> 0],
            irq      |-> Forked,
            sw       |-> 0,
            flag     |-> FALSE,
            quantum  |-> TRUE,
            ints     |-> TRUE,
            frames   |-> [p \in Proc |-> 0]]
    /\ t = [locks |-> 0, input |-> RingbufferNew(InputSize, NoChar), line |-> <<>>,
            mode |-> "CANONICAL"]
    /\ kb = [ring |-> RingbufferNew(EventSize, 0), pool |-> [i \in 0..EventSize - 1 |-> 0],
             next |-> 0, seen |-> -1]
    /\ h = NoHandler
    /\ pc = [p \in Proc |-> "user"]
    /\ call = [p \in Proc |-> [len |-> 0, got |-> <<>>]]
    /\ sent = <<>>

InHandler(at) ==
    /\ h.at = at
    /\ k.current = h.p /\ k.status[h.p] = "RUNNING" /\ k.frames[h.p] = h.depth

At(p, at) ==
    /\ k.current = p /\ k.status[p] = "RUNNING" /\ k.frames[p] = 0
    /\ h.p # p /\ pc[p] = at

-----------------------------------------------------------------------------
(* The timer, and a process that is switched back in *)

Tick ==
    /\ Mutex!TickReady
    /\ k' = Mutex!AfterTick
    /\ UNCHANGED <<t, kb, h, pc, call, sent>>

UnwindReady(p) ==
    /\ k.current = p /\ k.status[p] = "RUNNING"
    /\ k.frames[p] > IF h.p = p THEN h.depth ELSE 0

UnwindStep(p) ==
    /\ UnwindReady(p)
    /\ k' = Unwind(k)
    /\ UNCHANGED <<t, kb, h, pc, call, sent>>

-----------------------------------------------------------------------------
(* The keyboard interrupt *)

\* The number goes up before it is used as the index.
BugWriteEvent ==
    LET slot == (kb.next + 1) % EventSize
    IN  [kb EXCEPT !.pool[slot] = kb.next, !.ring = RingbufferWrite(@, kb.next % EventSize),
                   !.next = @ + 1]

\* keyboard_write_event: the event is stored in the pool, and the ring gets a
\* pointer to it.
WriteEvent ==
    LET slot == kb.next % EventSize
    IN  [kb EXCEPT !.pool[slot] = kb.next, !.ring = RingbufferWrite(@, slot), !.next = @ + 1]

\* The readers of events are not woken.
BugKey(c) ==
    /\ k.ints /\ h.at = "off" /\ kb.next < MaxKeys /\ Len(sent) + Len(t.line) < Room
    /\ kb' = WriteEvent
    /\ k' = [k EXCEPT !.ints = FALSE]
    /\ h' = [NoHandler EXCEPT !.p = k.current, !.depth = k.frames[k.current],
                              !.at = "receive", !.c = c]
    /\ UNCHANGED <<t, pc, call, sent>>

\* handle_keyboard up to the end of keyboard_write_event.
Key(c) ==
    /\ k.ints /\ h.at = "off" /\ kb.next < MaxKeys /\ Len(sent) + Len(t.line) < Room
    /\ kb' = WriteEvent
    /\ k' = WaitQueueWakeAll([k EXCEPT !.ints = FALSE], "events")
    /\ h' = [NoHandler EXCEPT !.p = k.current, !.depth = k.frames[k.current],
                              !.at = "receive", !.c = c]
    /\ UNCHANGED <<t, pc, call, sent>>

\* tty_receive_char up to the first character it buffers.
ReceiveRaw ==
    /\ t.mode = "RAW" /\ h.c # NoChar
    /\ h' = [h EXCEPT !.at = "lock", !.raw = TRUE]
    /\ sent' = Append(sent, h.c)
    /\ UNCHANGED t

Edited ==
    IF h.c = "erase" THEN SubSeq(t.line, 1, Len(t.line) - 1)
    ELSE IF Len(t.line) < LineSize THEN Append(t.line, h.c) ELSE t.line

\* A full line is kept until the newline comes.
BugLineDone == h.c = "newline"

LineDone == h.c = "newline" \/ (h.c # "erase" /\ Len(Edited) = LineSize)

\* The first character of the line is passed over.
BugReceiveCanonical ==
    /\ t.mode = "CANONICAL" /\ h.c # NoChar
    /\ t' = [t EXCEPT !.line = Edited]
    /\ h' = [h EXCEPT !.at = IF LineDone THEN "lock" ELSE "eoi", !.i = 2]
    /\ sent' = IF LineDone THEN sent \o Edited ELSE sent

ReceiveCanonical ==
    /\ t.mode = "CANONICAL" /\ h.c # NoChar
    /\ t' = [t EXCEPT !.line = Edited]
    /\ h' = [h EXCEPT !.at = IF LineDone THEN "lock" ELSE "eoi", !.i = 1]
    /\ sent' = IF LineDone THEN sent \o Edited ELSE sent

ReceiveNothing ==
    /\ h.c = NoChar
    /\ h' = [h EXCEPT !.at = "eoi"]
    /\ UNCHANGED <<t, sent>>

Receive ==
    /\ InHandler("receive")
    /\ ReceiveRaw \/ ReceiveCanonical \/ ReceiveNothing
    /\ UNCHANGED <<k, kb, pc, call>>

\* tty_buffer_input_char for the character itself or the next one of the line:
\* ringbuffer_write takes the mutex ...
LockInput ==
    /\ InHandler("lock")
    /\ h.raw \/ h.i <= Len(t.line)
    /\ k' = Mutex!SemaphoreLock(k)
    /\ t' = [t EXCEPT !.locks = Mutex!Locked]
    /\ h' = [h EXCEPT !.at = "put", !.c = IF h.raw THEN @ ELSE t.line[h.i]]
    /\ UNCHANGED <<kb, pc, call, sent>>

\* ... and writes.
PutInput ==
    /\ InHandler("put")
    /\ k' = Mutex!SemaphoreUnlock(k)
    /\ t' = [t EXCEPT !.input = RingbufferWrite(@, h.c), !.locks = Mutex!Unlocked]
    /\ h' = [h EXCEPT !.at = IF h.raw THEN "wake" ELSE "lock", !.i = @ + 1]
    /\ UNCHANGED <<kb, pc, call, sent>>

LineBuffered ==
    /\ InHandler("lock")
    /\ ~h.raw /\ h.i > Len(t.line)
    /\ t' = [t EXCEPT !.line = <<>>]
    /\ h' = [h EXCEPT !.at = "wake"]
    /\ UNCHANGED <<k, kb, pc, call, sent>>

\* One reader is woken, however much there is to read.
BugWakeReaders ==
    /\ InHandler("wake")
    /\ k' = WaitQueueWakeOne(k, "readers")
    /\ h' = [h EXCEPT !.at = "eoi"]
    /\ UNCHANGED <<t, kb, pc, call, sent>>

WakeReaders ==
    /\ InHandler("wake")
    /\ k' = WaitQueueWakeAll(k, "readers")
    /\ h' = [h EXCEPT !.at = "eoi"]
    /\ UNCHANGED <<t, kb, pc, call, sent>>

\* send_end_of_interrupt and the return, which restores the interrupt flag.
EndOfInterrupt ==
    /\ InHandler("eoi")
    /\ h' = NoHandler
    /\ k' = [k EXCEPT !.ints = TRUE]
    /\ UNCHANGED <<t, kb, pc, call, sent>>

Handler ==
    Receive \/ LockInput \/ PutInput \/ LineBuffered \/ WakeReaders \/ EndOfInterrupt

-----------------------------------------------------------------------------
(* System calls of the readers *)

\* read() of the tty, or of the keyboard device, with room for n bytes or for one
\* event, and the ioctl that sets the mode.  They start with interrupts off.
Enter(p, to, n) ==
    /\ At(p, "user")
    /\ k' = [k EXCEPT !.ints = FALSE]
    /\ pc' = [pc EXCEPT ![p] = to]
    /\ call' = [call EXCEPT ![p] = [len |-> n, got |-> <<>>]]
    /\ UNCHANGED <<t, kb, h, sent>>

SetMode(p, m) ==
    /\ At(p, "user")
    /\ t' = [t EXCEPT !.mode = m, !.line = <<>>]
    /\ UNCHANGED <<k, kb, h, pc, call, sent>>

\* Back to user mode.
Leave(p) ==
    /\ At(p, "leave")
    /\ k' = [k EXCEPT !.ints = TRUE]
    /\ pc' = [pc EXCEPT ![p] = "user"]
    /\ call' = [call EXCEPT ![p] = [len |-> 0, got |-> <<>>]]
    /\ UNCHANGED <<t, kb, h, sent>>

\* ringbuffer_read takes the mutex and gives it back, inside the section that
\* tty_read has postponed: a lock that is taken queues the caller, which goes on
\* all the same, and the unlock then hands the lock to the head of the queue.
MutexAround(s) == Mutex!SemaphoreUnlock(Mutex!SemaphoreLock(s))

\* Nothing to read and nothing read: sleep, and try again.
TtyReadSleep(p) ==
    /\ ~HasValue(t.input) /\ call[p].got = <<>>
    /\ k' = SchedResume(WaitQueueSleep(MutexAround(SchedPostpone(k)), "readers"))
    /\ UNCHANGED <<t, pc, call, sent>>

TtyReadShort(p) ==
    /\ ~HasValue(t.input) /\ call[p].got # <<>>
    /\ k' = SchedResume(MutexAround(SchedPostpone(k)))
    /\ pc' = [pc EXCEPT ![p] = "leave"]
    /\ UNCHANGED <<t, call, sent>>

TtyReadByte(p) ==
    LET c == NextValue(t.input)
        got == Append(call[p].got, c)
    IN  /\ HasValue(t.input)
        /\ k' = SchedResume(MutexAround(SchedPostpone(k)))
        /\ t' = [t EXCEPT !.input = RingbufferRead(@)]
        /\ call' = [call EXCEPT ![p].got = got]
        /\ pc' = [pc EXCEPT ![p] = IF \/ Len(got) = call[p].len
                                      \/ t.mode = "CANONICAL" /\ c = "newline"
                                   THEN "leave" ELSE @]
        /\ sent' = IF sent # <<>> THEN Tail(sent) ELSE sent

\* One turn of the loop in tty_read.
TtyRead(p) ==
    /\ At(p, "tty")
    /\ TtyReadByte(p) \/ TtyReadShort(p) \/ TtyReadSleep(p)
    /\ UNCHANGED <<kb, h>>

\* keyboard_read_event
TakeEvent ==
    kb' = [kb EXCEPT !.ring = RingbufferRead(@), !.seen = kb.pool[NextValue(kb.ring)]]

\* One turn of the loop in keyboard_read_event_wait.
EventRead(p) ==
    /\ At(p, "event")
    /\ \/ /\ HasValue(kb.ring)
          /\ TakeEvent
          /\ k' = SchedResume(SchedPostpone(k))
          /\ pc' = [pc EXCEPT ![p] = "leave"]
       \/ /\ ~HasValue(kb.ring)
          /\ k' = WaitQueueSleepPostponed(SchedPostpone(k), "events")
          /\ pc' = [pc EXCEPT ![p] = "woken"]
          /\ UNCHANGED kb
    /\ UNCHANGED <<t, h, call, sent>>

\* The end of wait_queue_sleep_postponed, and the sched_resume after it.
EventWoken(p) ==
    /\ At(p, "woken")
    /\ k' = SchedResume(SchedPostpone(k))
    /\ pc' = [pc EXCEPT ![p] = "event"]
    /\ UNCHANGED <<t, kb, h, call, sent>>

\* kb_read of a file that was opened with VFS_OPEN_NONBLOCK.
EventTry(p) ==
    /\ At(p, "try")
    /\ IF HasValue(kb.ring) THEN TakeEvent ELSE UNCHANGED kb
    /\ pc' = [pc EXCEPT ![p] = "leave"]
    /\ UNCHANGED <<k, t, h, call, sent>>

SystemCall(p) ==
    TtyRead(p) \/ EventRead(p) \/ EventWoken(p) \/ EventTry(p) \/ Leave(p)

User(p) ==
    \/ \E n \in 1..MaxLen : Enter(p, "tty", n)
    \/ \E to \in {"event", "try"} : Enter(p, to, 1)
    \/ \E m \in {"CANONICAL", "RAW"} : SetMode(p, m)

Next ==
    \/ Tick
    \/ Handler
    \/ \E c \in Char \cup {NoChar} : Key(c)
    \/ \E p \in Proc : UnwindStep(p)
    \/ \E p \in Reader : SystemCall(p) \/ User(p)

Spec == Init /\ [][Next]_vars

-----------------------------------------------------------------------------
\* Every variable keeps its type.
TypeOK ==
    /\ k \in State
    /\ t.locks \in 0..1 /\ t.line \in Seq(Char) /\ t.mode \in {"CANONICAL", "RAW"}
    /\ h.p \in Proc \cup {NoProc}
    /\ pc \in [Proc -> {"user", "tty", "event", "woken", "try", "leave"}]
    /\ sent \in Seq(Char)

\* What handle_keyboard does on the stack of the process it interrupted runs to
\* its end: no wake-up and no mutex call in it turns interrupts on, switches to
\* another process, or has to wait for the mutex that readers take.
HandlerUndisturbed ==
    h.at # "off" => ~k.ints /\ k.current = h.p /\ k.waitq[InputLock] = <<>>

\* tty_read decides to sleep when the ring is empty; a byte that comes between
\* that decision and the sleep, or while other readers take bytes, still wakes
\* it: no reader is queued while there is a byte, but for the moment until the
\* handler gets to its wake-up.
NoReaderMissesInput ==
    k.waitq["readers"] # <<>> /\ HasValue(t.input) => h.at \in {"lock", "put", "wake"}

\* The same for keyboard_read_event_wait.
NoReaderMissesEvent == k.waitq["events"] # <<>> => ~HasValue(kb.ring)

\* The ring holds, in order, what the line discipline released and nobody read:
\* nothing typed is lost, doubled or mixed up by readers that share the tty, by
\* mode changes, by erasing or by a line that fills the line buffer.
NothingLost == h.at \in {"off", "eoi"} => Unread(t.input) = sent

\* In a line being edited there is always room for the next character, so that
\* none is dropped: a full line buffer is flushed at once.
LineHasRoom == h.at = "off" => Len(t.line) < LineSize

\* The readers' sleeps and the wake-ups from interrupts keep the queues intact.
SchedulerIntact == QueuesOK(k, <<>>) /\ WaitQueuesOK(k) /\ CurrentOK(k)

\* What the line discipline has released and nobody has read is in the ring, in
\* order, and the line buffer has room for the next key: no byte is lost,
\* repeated or overtaken, whatever preempts the handler or the readers.  A
\* reader sleeps only while there is nothing for it: the wake-up of a line or
\* of an event is not lost between the test and the sleep.  The interrupt
\* handler runs to its end undisturbed and leaves the scheduler's queues intact.
InputExact ==
    /\ TypeOK /\ NothingLost /\ LineHasRoom
    /\ NoReaderMissesInput /\ NoReaderMissesEvent
    /\ HandlerUndisturbed /\ SchedulerIntact

\* Events are read in the order in which the keys were pressed, none twice,
\* also when the ring has overrun and the pool slot of an event was used again.
EventsInOrder == [][kb'.seen # kb.seen => kb'.seen > kb.seen]_vars

-----------------------------------------------------------------------------
(* An inductive invariant that implies the above *)

\* Between the actions no switch is put off, the boot process is always there to
\* run, and every unreturned switch holds one of the lock's counts.
Settled(s) ==
    /\ s \in State
    /\ QueuesOK(s, <<>>) /\ WaitQueuesOK(s) /\ CurrentOK(s)
    /\ s.sw = 0 /\ s.flag = FALSE
    /\ \A p \in Proc : s.status[p] \in {"RUNNING", "READY_TO_RUN", "BLOCKED"}
    /\ s.status[Kernel] # "BLOCKED"
    /\ s.waitq[InputLock] = <<>>
    /\ IsFiniteSet(Unreturned(s.frames)) /\ s.irq = Forked + Cardinality(Unreturned(s.frames))

\* The handler has the CPU until its end, and has the mutex while it writes.
HandlerOK(s, locks, x) ==
    /\ x = [p |-> x.p, depth |-> x.depth, at |-> x.at, c |-> x.c, raw |-> x.raw, i |-> x.i]
    /\ x.at \in {"off", "receive", "lock", "put", "wake", "eoi"}
    /\ x.at = "off" => x = NoHandler
    /\ x.at # "off" => /\ s.ints = FALSE /\ s.current = x.p /\ s.frames[x.p] = x.depth
                       /\ x.p \in Proc
    /\ locks = IF x.at = "put" THEN 1 ELSE 0

\* The handler is moving characters of the line or, in raw mode, one character.
Moving(x) == x.at \in {"lock", "put"}
MovingLine(x) == Moving(x) /\ ~x.raw

\* What the handler has still to put into the ring.
Pending(tty, x) ==
    IF ~Moving(x) THEN <<>>
    ELSE IF x.raw THEN <<x.c>> ELSE SubSeq(tty.line, x.i, Len(tty.line))

\* Every character is in the ring, on its way there or in the line, and the
\* ring has room for all of them.
TextOK(tty, x, bytes) ==
    /\ tty = [locks |-> tty.locks, input |-> tty.input, line |-> tty.line,
              mode |-> tty.mode]
    /\ RingOK(tty.input, InputSize, Char \cup {NoChar})
    /\ tty.line \in Seq(Char) /\ tty.mode \in {"CANONICAL", "RAW"} /\ bytes \in Seq(Char)
    /\ x.c \in Char \cup {NoChar} /\ x.i \in Nat /\ x.raw \in BOOLEAN
    /\ Moving(x) => x.c \in Char
    /\ x.at = "receive" => x.raw = FALSE
    /\ MovingLine(x) => x.i \in 1 .. Len(tty.line) + 1
    /\ MovingLine(x) /\ x.at = "put" => x.i <= Len(tty.line) /\ x.c = tty.line[x.i]
    /\ bytes = Unread(tty.input) \o Pending(tty, x)
    /\ Len(bytes) + (IF MovingLine(x) THEN 0 ELSE Len(tty.line))
                  + (IF x.at = "receive" THEN 1 ELSE 0) <= Room
    /\ MovingLine(x) \/ Len(tty.line) < LineSize

\* The ring of events points to the last ones, in order, and none was read.
EventsOK(b) ==
    LET u == Unread(b.ring)
        first == b.next - Len(u)
    IN  /\ b = [ring |-> b.ring, pool |-> b.pool, next |-> b.next, seen |-> b.seen]
        /\ RingOK(b.ring, EventSize, 0 .. EventSize - 1)
        /\ b.pool \in [0 .. EventSize - 1 -> Nat]
        /\ b.next \in 0..MaxKeys /\ b.seen \in Int
        /\ first >= 0 /\ b.seen < first
        /\ \A i \in 1..Len(u) : /\ u[i] = (first + i - 1) % EventSize
                               /\ b.pool[u[i]] = first + i - 1

\* Nobody waits for what is there, unless the handler is about to wake them.
NobodyMisses(s, tty, b, x) ==
    /\ s.waitq["readers"] # <<>> /\ HasValue(tty.input) => x.at \in {"lock", "put", "wake"}
    /\ s.waitq["events"] # <<>> => ~HasValue(b.ring)

InputInv ==
    /\ Settled(k) /\ HandlerOK(k, t.locks, h)
    /\ TextOK(t, h, sent) /\ EventsOK(kb) /\ NobodyMisses(k, t, kb, h)
    /\ pc \in [Proc -> {"user", "tty", "event", "woken", "try", "leave"}]
=============================================================================
