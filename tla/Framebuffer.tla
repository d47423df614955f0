---------------------------- MODULE Framebuffer ----------------------------
(***************************************************************************)
(* The framebuffer as a file (kernel/dev/fb.c): open files with their      *)
(* offsets over one screen.  fb_mmap is in AddressSpace.                   *)
(*                                                                         *)
(* Offsets are unsigned and seek distances signed numbers of one width;    *)
(* Half is half of the number of values (2^63 in the code).                *)
(***************************************************************************)
EXTENDS Integers

CONSTANTS
    File, Pixel,
    Size,       \* fb_size
    Half,
    MaxLen      \* bound: longest transfer

ASSUME FbAssumption ==
    /\ Size \in Nat /\ MaxLen \in Nat /\ Half \in Nat \ {0}
    /\ Size < 2 * Half

VARIABLES screen, offset

fbVars == <<screen, offset>>

Cell == 0 .. Size - 1
Signed == -Half .. Half - 1
Whence == {"SET", "CUR", "END"}

FbInit == screen \in [Cell -> Pixel] /\ offset = [f \in File |-> 0]

\* The sum is taken before it is compared with the limit, and may wrap.
BugSeekOffset(origin, distance, limit) ==
    LET target == (origin + distance) % (2 * Half)
    IN  IF distance < 0 THEN IF -distance > origin THEN 0 ELSE origin + distance
        ELSE IF target > limit THEN limit ELSE target

\* seek_offset.  The way a negative distance is negated avoids the one that has
\* no positive counterpart.
SeekOffset(origin, distance, limit) ==
    LET delta == -(distance + 1) + 1
        target == (origin + distance) % (2 * Half)
    IN  IF distance < 0 THEN IF delta > origin THEN 0 ELSE origin - delta
        ELSE IF distance > 2 * Half - 1 - origin THEN limit
        ELSE IF target > limit THEN limit ELSE target

Origin(f, whence) ==
    IF whence = "SET" THEN 0 ELSE IF whence = "CUR" THEN offset[f] ELSE Size

Seek(f, whence, distance) ==
    /\ offset' = [offset EXCEPT ![f] = SeekOffset(Origin(f, whence), distance, Size)]
    /\ UNCHANGED screen

\* How many cells a transfer of length len moves.
Count(f, len) ==
    IF offset[f] >= Size THEN 0
    ELSE IF len < Size - offset[f] THEN len ELSE Size - offset[f]

Read(f, len) ==
    /\ offset' = [offset EXCEPT ![f] = @ + Count(f, len)]
    /\ UNCHANGED screen

\* The offset is moved before the copy.
BugWrite(f, len, data) ==
    LET n == Count(f, len)
    IN  /\ offset' = [offset EXCEPT ![f] = @ + n]
        /\ screen' = [c \in Cell |-> IF offset'[f] <= c /\ c < offset'[f] + n THEN data[c - offset'[f]]
                                     ELSE screen[c]]

\* data is the caller's buffer.
Write(f, len, data) ==
    LET n == Count(f, len)
    IN  /\ screen' = [c \in Cell |-> IF offset[f] <= c /\ c < offset[f] + n THEN data[c - offset[f]]
                                     ELSE screen[c]]
        /\ offset' = [offset EXCEPT ![f] = @ + n]

\* The file is closed and opened again.
Reopen(f) == offset' = [offset EXCEPT ![f] = 0] /\ UNCHANGED screen

FbNext ==
    \E f \in File :
        \/ \E w \in Whence, d \in Signed : Seek(f, w, d)
        \/ \E len \in 0 .. MaxLen : Read(f, len) \/ \E data \in [0 .. MaxLen -> Pixel] : Write(f, len, data)
        \/ Reopen(f)

FbSpec == FbInit /\ [][FbNext]_fbVars
-----------------------------------------------------------------------------
(* Properties *)

\* Types of the variables: no sequence of transfers and seeks moves an offset
\* past the end of the screen.
FbTypeOK == screen \in [Cell -> Pixel] /\ offset \in [File -> 0 .. Size]

Clamp(n) == IF n < 0 THEN 0 ELSE IF n > Size THEN Size ELSE n

\* fb_seek goes where the exact sum of origin and distance says, kept within the
\* screen, for every distance of the width, the smallest and the largest too.
SeekExact ==
    \A f \in File, w \in Whence, d \in Signed :
        SeekOffset(Origin(f, w), d, Size) = Clamp(Origin(f, w) + d)

\* A step changes only cells between the old and the new offset of one file: a
\* writer never touches the cells of others, or any that it does not report.
WritesInside ==
    [][\A c \in Cell : screen'[c] # screen[c]
          => \E f \in File : offset[f] <= c /\ c < offset'[f]]_fbVars
=============================================================================
