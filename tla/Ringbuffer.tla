----------------------------- MODULE Ringbuffer -----------------------------
(***************************************************************************)
(* The ring of src/kernel/utils/ringbuffer.c: an array of size + 1 slots,  *)
(* of which slot 0 is never used.  Both positions start at 0, which stands *)
(* for 1.  A write does not look at the read position.  The locks a caller *)
(* may ask for are taken by the callers' modules.                          *)
(***************************************************************************)
EXTENDS Integers, Sequences

RingbufferNew(size, fill) ==
    [buf |-> [i \in 0..size |-> fill], readPos |-> 0, writePos |-> 0, size |-> size]

FromOne(pos) == IF pos = 0 THEN 1 ELSE pos

Advance(r, pos) == IF pos + 1 > r.size THEN 1 ELSE pos + 1

\* The value goes where the reader is.
BugRingbufferWrite(r, v) ==
    [r EXCEPT !.buf[FromOne(r.readPos)] = v,
              !.writePos = Advance(r, FromOne(r.writePos))]

RingbufferWrite(r, v) ==
    [r EXCEPT !.buf[FromOne(r.writePos)] = v,
              !.writePos = Advance(r, FromOne(r.writePos))]

HasValue(r) == r.readPos # r.writePos

\* ringbuffer_read when there is something to read: the value and the ring after.
NextValue(r) == r.buf[FromOne(r.readPos)]
RingbufferRead(r) == [r EXCEPT !.readPos = Advance(r, FromOne(r.readPos))]

\* The positions are 0 only until the first write and the first read.
RingOK(r, size, S) ==
    /\ r = [buf |-> r.buf, readPos |-> r.readPos, writePos |-> r.writePos, size |-> size]
    /\ r.buf \in [0..size -> S]
    /\ r.readPos \in 0..size /\ r.writePos \in 0..size
    /\ r.writePos = 0 => r.readPos = 0

\* The values written and not yet read, as far as the positions can tell.
Unread(r) ==
    LET from == FromOne(r.readPos)
        gap == (r.writePos - from) % r.size
        n == IF ~HasValue(r) THEN 0 ELSE IF gap = 0 THEN r.size ELSE gap
    IN  [i \in 1..n |-> r.buf[1 + ((from + i - 2) % r.size)]]
=============================================================================
