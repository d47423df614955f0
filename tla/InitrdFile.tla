----------------------------- MODULE InitrdFile -----------------------------
(***************************************************************************)
(* The bytes of one regular file of the initrd (fs/initrd.c) under read,    *)
(* write, lseek and open, through the checks of fs/vfs.c.                   *)
(*                                                                         *)
(* A file that came with the boot archive starts with a buffer inside the   *)
(* archive that it does not own; a file made later starts with none.  A     *)
(* system call runs with interrupts off until its first sched_resume, so    *)
(* only a write that finds no buffer is more than one step: it allocates    *)
(* one under sched_postpone and goes on with interrupts on.  Handles may be *)
(* shared between processes, as after fork.                                 *)
(***************************************************************************)
EXTENDS Integers, FiniteSets, FiniteSetsExt, Sequences

CONSTANTS Proc, Handle,
          Byte,         \* byte values, not 0
          Buf,          \* heap blocks: memory is limited to that many
          Starts,       \* how the file may begin: "new", "archive"
          OpenFlags,    \* sets of flags that open is called with
          MaxSize       \* no write reaches past this position

NoBuf == "NULL"
Archive == "archive"
ArchiveBytes == [i \in 1 .. 2 |-> Min(Byte)]

VARIABLES s,     \* inode, heap, handles, and whether a store left its buffer
          pc,    \* where each process is in initrd_write
          op,    \* the locals of initrd_write
          last   \* history: last byte written to each position
vars == <<s, pc, op, last>>

NoOp == [h |-> NoBuf, data |-> <<>>, new |-> NoBuf, size |-> 0, bufsize |-> 0, fsize |-> 0]

\* Free heap blocks are empty.  calloc takes any one, or fails.
FreeBufs(t) == {b \in Buf : t.heap[b] = <<>>}

NewBuf(t) == CHOOSE b \in FreeBufs(t) : TRUE

Calloc(t, b, n) == [t EXCEPT !.heap[b] = [i \in 1 .. n |-> 0]]

\* memcpy of data to block b from offset off.  What does not fit spills.
Memcpy(t, b, off, data) ==
  [t EXCEPT !.heap[b] = [i \in DOMAIN @ |->
                           IF i - off \in DOMAIN data THEN data[i - off] ELSE @[i]],
            !.spilled = @ \/ b = NoBuf \/ off + Len(data) > Len(t.heap[b])]

Content(t) == IF t.inode.len = 0 THEN <<>> ELSE SubSeq(t.heap[t.inode.buf], 1, t.inode.len)

Clamp(x, hi) == IF x < 0 THEN 0 ELSE IF x > hi THEN hi ELSE x

InitrdSeek(t, h, offset, whence) ==
  LET origin == CASE whence = "SET" -> 0
                  [] whence = "CUR" -> t.handle[h].offset
                  [] whence = "END" -> t.inode.len
  IN  [t EXCEPT !.handle[h].offset = Clamp(offset + origin, t.inode.len)]

CanRead(t, h) == "READ" \in t.handle[h].flags

CanWrite(t, h) == "WRITE" \in t.handle[h].flags

InitrdRead(t, h, n) ==
  IF t.handle[h].offset >= t.inode.len THEN t
  ELSE [t EXCEPT !.handle[h].offset = @ + Min({n, t.inode.len - @})]

\* The part of initrd_open that touches a regular file.
InitrdOpen(t, h, flags) ==
  LET len == IF {"TRUNC", "WRITE"} \subseteq flags THEN 0 ELSE t.inode.len
  IN  [t EXCEPT !.inode.len = len,
                !.handle[h] = [flags |-> flags, offset |-> IF "APPEND" \in flags THEN len ELSE 0]]

NewSize(t, h, n) ==
  LET content == Max({t.handle[h].offset + n, t.inode.len})
  IN  content + content \div 2

-----------------------------------------------------------------------------
(* The pieces of initrd_write.                                             *)

NeedsFirstBuffer(t) == t.inode.buf = NoBuf \/ t.inode.bufsize = 0

\* The offset and the length, once the bytes are in place.
Advance(t, h, n) ==
  LET off == t.handle[h].offset + n
  IN  [t EXCEPT !.handle[h].offset = off, !.inode.len = Max({@, off})]

\* The bytes fit into the buffer the inode has now.
WriteInPlace(t, h, data) ==
  Advance(Memcpy(t, t.inode.buf, t.handle[h].offset, data), h, Len(data))

BugWriteGrown(t, h, data, new, size, fsize) ==
  LET copied == Memcpy(Memcpy(t, new, 0, SubSeq(t.heap[t.inode.buf], 1, fsize)),
                       new, t.handle[h].offset, data)
      moved  == [copied EXCEPT !.inode.buf = new, !.inode.bufsize = size, !.inode.owned = TRUE]
  IN  Advance(moved, h, Len(data))

\* The bytes go to the larger block new with fsize bytes of the old buffer,
\* which is freed if it was the inode's own.
WriteGrown(t, h, data, new, size, fsize) ==
  LET old    == t.inode.buf
      copied == Memcpy(IF old # NoBuf /\ fsize > 0
                       THEN Memcpy(t, new, 0, SubSeq(t.heap[old], 1, Min({fsize, Len(t.heap[old])})))
                       ELSE t,
                       new, t.handle[h].offset, data)
      moved  == [copied EXCEPT !.inode = [@ EXCEPT !.buf = new, !.bufsize = size, !.owned = TRUE],
                               !.heap[old] = IF t.inode.owned THEN <<>> ELSE @]
  IN  Advance(moved, h, Len(data))

Fits(t, h, n, bufsize) == t.handle[h].offset + n <= bufsize

Written(off, data) ==
  last' = [i \in DOMAIN last |->
             IF i - off + 1 \in DOMAIN data THEN [v |-> data[i - off + 1], cut |-> FALSE]
             ELSE last[i]]

Idle(p) == pc[p] = "user"

Back(p) == pc' = [pc EXCEPT ![p] = "user"] /\ op' = [op EXCEPT ![p] = NoOp]

BugVfsWrite(t, h) == t

\* vfs_write before it calls the file system: an appending handle goes to
\* the end of the file.
VfsWrite(t, h) ==
  IF "APPEND" \in t.handle[h].flags THEN InitrdSeek(t, h, 0, "END") ELSE t

\* write with a buffer in place: one step.
Write(p, h, data) ==
  LET t == VfsWrite(s, h)
      n == Len(data)
  IN  /\ Idle(p) /\ CanWrite(s, h) /\ ~NeedsFirstBuffer(s)
      /\ t.handle[h].offset + n <= MaxSize
      /\ \/ /\ Fits(t, h, n, t.inode.bufsize)
            /\ s' = WriteInPlace(t, h, data)
            /\ Written(t.handle[h].offset, data)
         \/ /\ ~Fits(t, h, n, t.inode.bufsize) /\ FreeBufs(t) # {}
            /\ s' = WriteGrown(Calloc(t, NewBuf(t), NewSize(t, h, n)), h, data, NewBuf(t),
                               NewSize(t, h, n), t.inode.len)
            /\ Written(t.handle[h].offset, data)
         \/ /\ ~Fits(t, h, n, t.inode.bufsize)
            /\ s' = t
            /\ UNCHANGED last
      /\ UNCHANGED <<pc, op>>

\* write without one: up to the sched_resume after calloc.
WriteFirst(p, h, data) ==
  LET t    == VfsWrite(s, h)
      size == NewSize(t, h, Len(data))
  IN  /\ Idle(p) /\ CanWrite(s, h) /\ NeedsFirstBuffer(s)
      /\ t.handle[h].offset + Len(data) <= MaxSize
      /\ \/ /\ s' = t
            /\ UNCHANGED <<pc, op>>
         \/ /\ FreeBufs(t) # {}
            /\ s' = Calloc(t, NewBuf(t), size)
            /\ pc' = [pc EXCEPT ![p] = "buf"]
            /\ op' = [op EXCEPT ![p] = [h |-> h, data |-> data, new |-> NewBuf(t), size |-> size,
                                        bufsize |-> 0, fsize |-> t.inode.len]]
      /\ UNCHANGED last

\* The stores to the inode, with interrupts on.
WriteSetBuf(p) ==
  /\ pc[p] = "buf"
  /\ s' = [s EXCEPT !.inode.buf = op[p].new]
  /\ pc' = [pc EXCEPT ![p] = "size"]
  /\ UNCHANGED <<op, last>>

WriteSetSize(p) ==
  /\ pc[p] = "size"
  /\ s' = [s EXCEPT !.inode.bufsize = op[p].size, !.inode.owned = TRUE]
  /\ op' = [op EXCEPT ![p].bufsize = op[p].size]
  /\ pc' = [pc EXCEPT ![p] = "check"]
  /\ UNCHANGED last

BugWriteCheck(p) ==
  LET o == op[p]
  IN  /\ pc[p] = "check"
      /\ \/ /\ Fits(s, o.h, Len(o.data), o.bufsize)
            /\ pc' = [pc EXCEPT ![p] = "fit"]
            /\ UNCHANGED <<s, op>>
         \/ /\ ~Fits(s, o.h, Len(o.data), o.bufsize) /\ FreeBufs(s) # {}
            /\ s' = Calloc(s, NewBuf(s), o.size)
            /\ op' = [op EXCEPT ![p].new = NewBuf(s)]
            /\ pc' = [pc EXCEPT ![p] = "grow"]
         \/ /\ ~Fits(s, o.h, Len(o.data), o.bufsize)
            /\ Back(p)
            /\ s' = [s EXCEPT !.heap[o.new] = <<>>]
      /\ UNCHANGED last

\* The test against the local bufsize.  A shared handle may have moved on, so
\* that the new buffer does not do.
WriteCheck(p) ==
  LET o == op[p]
  IN  /\ pc[p] = "check"
      /\ \/ /\ Fits(s, o.h, Len(o.data), o.bufsize)
            /\ pc' = [pc EXCEPT ![p] = "fit"]
            /\ UNCHANGED <<s, op>>
         \/ /\ ~Fits(s, o.h, Len(o.data), o.bufsize) /\ FreeBufs(s) # {}
            /\ s' = Calloc(s, NewBuf(s), o.size)
            /\ op' = [op EXCEPT ![p].new = NewBuf(s)]
            /\ pc' = [pc EXCEPT ![p] = "grow"]
         \/ /\ ~Fits(s, o.h, Len(o.data), o.bufsize)
            /\ Back(p)
            /\ UNCHANGED s
      /\ UNCHANGED last

WriteCopy(p) ==
  LET o == op[p]
  IN  /\ \/ pc[p] = "fit" /\ s' = WriteInPlace(s, o.h, o.data)
         \/ pc[p] = "grow" /\ s' = WriteGrown(s, o.h, o.data, o.new, o.size, o.fsize)
      /\ Written(s.handle[o.h].offset, o.data)
      /\ Back(p)

Read(p, h) ==
  /\ Idle(p) /\ CanRead(s, h)
  /\ \E n \in 1 .. 2 : s' = InitrdRead(s, h, n)
  /\ UNCHANGED <<pc, op, last>>

Lseek(p, h) ==
  /\ Idle(p)
  /\ \E offset \in -1 .. 1, whence \in {"SET", "CUR", "END"} :
       s' = InitrdSeek(s, h, offset, whence)
  /\ UNCHANGED <<pc, op, last>>

\* close and open; not while some process is writing through the handle.
Open(p, h) ==
  /\ Idle(p) /\ \A q \in Proc : op[q].h # h
  /\ \E flags \in OpenFlags :
       /\ s' = InitrdOpen(s, h, flags)
       /\ last' = [i \in DOMAIN last |->
                     [last[i] EXCEPT !.cut = @ \/ {"TRUNC", "WRITE"} \subseteq flags]]
  /\ UNCHANGED <<pc, op>>

Data == {[i \in 1 .. n |-> b] : n \in 1 .. 2, b \in Byte}

\* load_ustar for a file of the archive, initrd_create_file for a new one.
Inode(start) ==
  IF start = "archive"
  THEN [buf |-> Archive, bufsize |-> Len(ArchiveBytes), len |-> Len(ArchiveBytes), owned |-> FALSE]
  ELSE [buf |-> NoBuf, bufsize |-> 0, len |-> 0, owned |-> FALSE]

Init ==
  /\ \E start \in Starts :
       /\ s = [inode |-> Inode(start),
               heap |-> [b \in Buf \cup {Archive, NoBuf} |-> IF b = Archive THEN ArchiveBytes ELSE <<>>],
               handle |-> [h \in Handle |-> [flags |-> {"READ", "WRITE"}, offset |-> 0]],
               spilled |-> FALSE]
       /\ last = [i \in 0 .. MaxSize - 1 |->
                    [v |-> IF i < Inode(start).len THEN ArchiveBytes[i + 1] ELSE 0, cut |-> FALSE]]
  /\ pc = [p \in Proc |-> "user"]
  /\ op = [p \in Proc |-> NoOp]

Next == \E p \in Proc :
          \/ \E h \in Handle : \/ Read(p, h) \/ Lseek(p, h) \/ Open(p, h)
                               \/ \E data \in Data : Write(p, h, data) \/ WriteFirst(p, h, data)
          \/ WriteSetBuf(p) \/ WriteSetSize(p) \/ WriteCheck(p) \/ WriteCopy(p)

Spec == Init /\ [][Next]_vars

-----------------------------------------------------------------------------

\* The byte at each position of the file is the one written there last.  Where
\* the file was truncated since and a handle then wrote beyond the end, the
\* gap holds the old byte or 0, depending on whether the buffer grew.
ContentExact ==
  \A i \in 1 .. s.inode.len :
    /\ i \in DOMAIN s.heap[s.inode.buf]
    /\ s.heap[s.inode.buf][i] \in {last[i - 1].v} \cup (IF last[i - 1].cut THEN {0} ELSE {})

\* Between writes every heap block is the inode's own buffer or free, the
\* archive is never given to free, the sizes recorded are the real ones and no
\* store leaves its buffer.
BuffersSound ==
  /\ ~s.spilled
  /\ s.inode.len <= s.inode.bufsize
  /\ (\A p \in Proc : Idle(p)) =>
       /\ {b \in Buf : s.heap[b] # <<>>} = IF s.inode.owned THEN {s.inode.buf} ELSE {}
       /\ s.inode.bufsize = Len(s.heap[s.inode.buf])

\* With any number of writers, the buffer of the inode is never a block that
\* was freed: every writer installs its own and frees only what it replaces.
BufferAlive == s.inode.buf \in Buf => s.heap[s.inode.buf] # <<>>

\* A write through an appending handle leaves what the file held in place, also
\* when other handles write in between.
AppendKeeps ==
  \A p \in Proc, h \in Handle, data \in Data :
    "APPEND" \in s.handle[h].flags /\ Write(p, h, data) =>
      SubSeq(Content(s'), 1, s.inode.len) = Content(s)
=============================================================================
