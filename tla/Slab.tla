-------------------------------- MODULE Slab --------------------------------
(***************************************************************************)
(* The slab allocator of src/kernel/memory/slab.c on top of malloc.  A     *)
(* slab is some pages cut into objects of one class; a class has a list,   *)
(* newest slab first, and gives none back.  Sizes beyond the last class    *)
(* come from malloc directly.                                              *)
(***************************************************************************)
EXTENDS Integers, FiniteSets, SequencesExt

CONSTANTS
    Classes,    \* the size classes are 1 .. Classes
    PageSize,   \* the objects of class c have 2^c cells
    MaxSlabs,   \* bound: slabs of all classes
    MaxBig      \* bound: objects beyond the last class

VARIABLES
    slabs,      \* slab -> class, first cell, object_count, bitmap, free_count
    classes,    \* slab_classes: class -> list of slabs
    big,        \* numbers of big objects -> magic is set
    inUse       \* pointers the callers hold

vars == <<slabs, classes, big, inUse>>

Class == 1 .. Classes
BigClass == Classes + 1
\* A pointer is a class, a slab (or the number of a big object) and an index.
Ptr(class, slab, idx) == <<class, slab, idx>>

Init ==
    /\ slabs = <<>>
    /\ classes = [c \in Class |-> <<>>]
    /\ big = <<>>
    /\ inUse = {}

ClassSize(class) == 2 ^ class
PagesForClass(class) == (ClassSize(class) + PageSize - 1) \div PageSize

\* One object too many.
BugSlabGrow(s, class) ==
    LET new   == Len(s.slabs) + 1
        count == (PagesForClass(class) * PageSize) \div ClassSize(class) + 1
        page  == IF new = 1 THEN 0 ELSE s.slabs[new - 1].page + PagesForClass(s.slabs[new - 1].class) * PageSize
    IN  [slabs |-> Append(s.slabs, [class |-> class, page |-> page, count |-> count, used |-> {}, free |-> count]),
         classes |-> [s.classes EXCEPT ![class] = <<new>> \o @]]

\* slab_grow: three calls of malloc; if one fails the others are freed.
SlabGrow(s, class) ==
    LET new   == Len(s.slabs) + 1
        bytes == PagesForClass(class) * PageSize
        count == bytes \div ClassSize(class)
        page  == IF new = 1 THEN 0 ELSE s.slabs[new - 1].page + PagesForClass(s.slabs[new - 1].class) * PageSize
    IN  [slabs |-> Append(s.slabs, [class |-> class, page |-> page, count |-> count, used |-> {}, free |-> count]),
         classes |-> [s.classes EXCEPT ![class] = <<new>> \o @]]

Obj(slab) == 0 .. slab.count - 1

\* bitmap_find_clear
FindClear(slab) == CHOOSE i \in Obj(slab) \ slab.used : \A j \in Obj(slab) \ slab.used : i <= j

\* The first slab of the class with free_count # 0, or 0.
FirstWithRoom(s, class) ==
    LET l == SelectSeq(s.classes[class], LAMBDA i : s.slabs[i].free # 0)
    IN  IF l = <<>> THEN 0 ELSE Head(l)

\* slab_alloc of a size that fits a class; mallocOk says whether it can grow.
SlabAlloc(class, mallocOk) ==
    LET s0 == [slabs |-> slabs, classes |-> classes]
        full == FirstWithRoom(s0, class) = 0
        s  == IF full THEN SlabGrow(s0, class) ELSE s0
        i  == FirstWithRoom(s, class)
        o  == FindClear(s.slabs[i])
    IN  /\ full => Len(slabs) < MaxSlabs
        /\ IF full /\ ~mallocOk THEN UNCHANGED vars
           ELSE /\ slabs' = [s.slabs EXCEPT ![i].used = @ \cup {o}, ![i].free = @ - 1]
                /\ classes' = s.classes
                /\ inUse' = inUse \cup {Ptr(class, i, o)}
                /\ UNCHANGED big

SlabAllocBig(mallocOk) ==
    /\ Len(big) < MaxBig
    /\ IF mallocOk
       THEN big' = Append(big, TRUE) /\ inUse' = inUse \cup {Ptr(BigClass, Len(big) + 1, 0)}
       ELSE UNCHANGED <<big, inUse>>
    /\ UNCHANGED <<slabs, classes>>

\* The tests of slab_free: the magic number, and for slabs the index and bit.
Accepts(s, p) ==
    IF p[1] = BigClass THEN s.big[p[2]]
    ELSE p[2] \in 1 .. Len(s.slabs) /\ p[3] \in Obj(s.slabs[p[2]]) /\ p[3] \in s.slabs[p[2]].used

\* The bit is cleared and the count forgotten.
BugSlabFreeOp(s, p) ==
    IF ~Accepts(s, p) THEN s
    ELSE IF p[1] = BigClass THEN [s EXCEPT !.big[p[2]] = FALSE]
    ELSE [s EXCEPT !.slabs[p[2]].used = @ \ {p[3]}]

SlabFreeOp(s, p) ==
    IF ~Accepts(s, p) THEN s
    ELSE IF p[1] = BigClass THEN [s EXCEPT !.big[p[2]] = FALSE]
    ELSE [s EXCEPT !.slabs[p[2]].used = @ \ {p[3]}, !.slabs[p[2]].free = @ + 1]

SlabFree(p) ==
    LET s == SlabFreeOp([slabs |-> slabs, big |-> big], p)
    IN  /\ p \in inUse
        /\ slabs' = s.slabs /\ big' = s.big
        /\ inUse' = inUse \ {p}
        /\ UNCHANGED classes

Next ==
    \/ \E mallocOk \in BOOLEAN : SlabAllocBig(mallocOk) \/ \E c \in Class : SlabAlloc(c, mallocOk)
    \/ \E p \in inUse : SlabFree(p)

Spec == Init /\ [][Next]_vars
-----------------------------------------------------------------------------
\* The bits and counts of the slabs say exactly which objects the callers
\* hold, so the branch of slab_alloc for a full bitmap with a positive count
\* is dead and an object is never lost or handed out twice.
CountsExact ==
    \A i \in 1 .. Len(slabs) :
        /\ slabs[i].free = slabs[i].count - Cardinality(slabs[i].used)
        /\ slabs[i].used = {p[3] : p \in {q \in inUse : q[1] # BigClass /\ q[2] = i}}

\* The memory of a pointer; big objects are somewhere else.
Cells(p) ==
    LET from == slabs[p[2]].page + p[3] * ClassSize(p[1])
    IN  IF p[1] = BigClass THEN {0 - p[2]} ELSE from .. from + ClassSize(p[1]) - 1

\* Objects of any class never overlap while callers hold them.
Abstract == INSTANCE Allocator WITH live <- {Cells(p) : p \in inUse}
ImplementsAllocator == Abstract!Spec

\* A second slab_free of a pointer that nobody holds changes nothing.
SecondFreeIgnored ==
    LET s == [slabs |-> slabs, big |-> big]
    IN  \A i \in 1 .. Len(slabs) : \A o \in Obj(slabs[i]) :
            LET p == Ptr(slabs[i].class, i, o)
            IN  p \notin inUse => SlabFreeOp(s, p) = s

\* A class grows only when all of its slabs are full.
GrowsWhenFull ==
    [][\A c \in Class : classes'[c] # classes[c] =>
        \A i \in 1 .. Len(classes[c]) : slabs[classes[c][i]].used = Obj(slabs[classes[c][i]])]_vars
=============================================================================
