------------------------------- MODULE Ustar -------------------------------
(***************************************************************************)
(* load_ustar: the tree of the initial file system made from a tar archive *)
(* (initrd.c).                                                             *)
(*                                                                         *)
(* An archive is a sequence of entries, each a header block followed by    *)
(* the blocks of its content.  A path is the sequence of names after       *)
(* "./"; the root's own entry has none.  Inodes are numbered in the order  *)
(* they are made, which is also the order of siblings: add_child appends.  *)
(* Memory may run out at any allocation.                                   *)
(***************************************************************************)
EXTENDS Integers, SequencesExt

CONSTANTS
    Archives,       \* the archives to load
    Block           \* HOJICHA_USTAR_HEADER_LEN_BYTES

VARIABLES
    archive,
    pos,        \* buf_pos
    inodes,     \* [name, parent, kind, len, buf, entry] of each inode; the first is the root
    status      \* "loading", or what load_ustar returns, or "fault"

vars == <<archive, pos, inodes, status>>

\* The rounding forgets the last block of a content that does not fill it.
BugHeaderSize(e) == (e.size \div Block + 1) * Block

\* get_header_size
HeaderSize(e) == ((e.size + Block - 1) \div Block + 1) * Block

\* Where entry i begins in the file that tar wrote.
Blocks(n) == IF n % Block = 0 THEN n \div Block ELSE n \div Block + 1
Start(i) ==
    LET f[n \in 1 .. Len(archive) + 1] ==
            IF n = 1 THEN 0 ELSE f[n - 1] + Block * (1 + Blocks(archive[n - 1].size))
    IN  f[i]
End == Start(Len(archive) + 1)

Inode(name, parent, kind, len, buf, entry) ==
    [name |-> name, parent |-> parent, kind |-> kind, len |-> len, buf |-> buf, entry |-> entry]

Root == 1
NoInode == 0

\* After create_root; without a root nothing happens.
Init ==
    /\ archive \in Archives
    /\ pos = 0 /\ status = "loading"
    /\ inodes = <<Inode("", NoInode, "dir", 0, 0, 0)>>

\* add_child, for an inode whose parent field is set.
AddChild(ns, n) == Append([ns EXCEPT ![n.parent].len = @ + 1], n)

FindChild(ns, d, name) ==
    LET found == {i \in DOMAIN ns : ns[i].parent = d /\ ns[i].name = name}
    IN  IF found = {} THEN NoInode ELSE Min(found)

\* dir_lookup
DirLookup(ns, path) ==
    FoldLeft(LAMBDA d, name :
                LET next == IF d = NoInode THEN NoInode ELSE FindChild(ns, d, name)
                IN  IF next # NoInode /\ ns[next].kind = "dir" THEN next ELSE NoInode,
             Root, path)

\* One round of the loop of get_or_create_prefix.  A directory that cannot be
\* allocated is linked all the same, through a null pointer.
PrefixStep(s, name, i) ==
    LET next == FindChild(s.inodes, s.dir, name)
    IN  IF s.status # "loading" THEN s
        ELSE IF next = NoInode /\ s.memory = 0 THEN [s EXCEPT !.status = "fault"]
        ELSE IF next = NoInode
        THEN [s EXCEPT !.inodes = AddChild(@, Inode(name, s.dir, "dir", 0, 0, i)),
                       !.dir = Len(s.inodes) + 1, !.memory = @ - 1]
        ELSE IF s.inodes[next].kind # "dir" THEN [s EXCEPT !.status = "NOTDIR"]
        ELSE [s EXCEPT !.dir = next]

\* get_or_create_prefix, with memory for so many inodes.  dir_lookup goes first.
GetOrCreatePrefix(ns, path, i, memory) ==
    LET found == DirLookup(ns, path)
        start == [inodes |-> ns, dir |-> Root, status |-> "loading", memory |-> memory]
    IN  IF found # NoInode THEN [start EXCEPT !.dir = found]
        ELSE FoldLeft(LAMBDA s, name : PrefixStep(s, name, i), start, path)

Stop(ns, st) == inodes' = ns /\ status' = st /\ UNCHANGED <<archive, pos>>

Proceed(ns, e) == inodes' = ns /\ pos' = pos + HeaderSize(e) /\ UNCHANGED <<archive, status>>

\* The entry whose header is read next.
Current == CHOOSE i \in DOMAIN archive : Start(i) = pos
More == status = "loading" /\ pos < End

\* The parent is looked for after the inode has been made, and the inode is
\* freed if there is none.  A sibling of the same name is not looked for.
LoadFile ==
    LET e == archive[Current]
    IN  /\ More /\ e.kind = "file"
        /\ \E memory \in 0 .. Len(e.path) :
             LET s == GetOrCreatePrefix(inodes, Front(e.path), Current, memory - 1)
                 new == Inode(Last(e.path), s.dir, "file", e.size, pos + Block, Current)
             IN  IF memory = 0 THEN Stop(inodes, "NOMEM")
                 ELSE IF s.status # "loading" THEN Stop(s.inodes, s.status)
                 ELSE Proceed(AddChild(s.inodes, new), e)

\* The length of a link, which is that of its target, is left out.
LoadSymlink ==
    LET e == archive[Current]
    IN  /\ More /\ e.kind = "link"
        /\ \E memory \in 0 .. Len(e.path) :
             LET s == GetOrCreatePrefix(inodes, Front(e.path), Current, memory)
                 new == Inode(Last(e.path), s.dir, "link", 0, 0, Current)
             IN  IF s.status # "loading" THEN Stop(s.inodes, s.status)
                 ELSE IF FindChild(s.inodes, s.dir, Last(e.path)) # NoInode
                 THEN Stop(s.inodes, "EXISTS")
                 ELSE IF s.memory = 0 THEN Stop(s.inodes, "NOMEM")
                 ELSE Proceed(AddChild(s.inodes, new), e)

\* The name is not looked for before the directory is made.
BugLoadDir ==
    LET e == archive[Current]
    IN  /\ More /\ e.kind = "dir" /\ e.path # <<>>
        /\ LET s == GetOrCreatePrefix(inodes, Front(e.path), Current, Len(e.path))
               new == Inode(Last(e.path), s.dir, "dir", 0, 0, Current)
           IN  IF s.status # "loading" THEN Stop(s.inodes, s.status)
               ELSE Proceed(AddChild(s.inodes, new), e)

\* A directory that an earlier path has led to is there already; anything else of
\* that name is taken for it.
LoadDir ==
    LET e == archive[Current]
    IN  /\ More /\ e.kind = "dir" /\ e.path # <<>>
        /\ \E memory \in 0 .. Len(e.path) :
             LET s == GetOrCreatePrefix(inodes, Front(e.path), Current, memory)
                 new == Inode(Last(e.path), s.dir, "dir", 0, 0, Current)
             IN  IF s.status # "loading" THEN Stop(s.inodes, s.status)
                 ELSE IF FindChild(s.inodes, s.dir, Last(e.path)) # NoInode
                 THEN Proceed(s.inodes, e)
                 ELSE IF s.memory = 0 THEN Stop(s.inodes, "NOMEM")
                 ELSE Proceed(AddChild(s.inodes, new), e)

\* The root's own entry sets its times; other types are passed over.
Skip ==
    LET e == archive[Current]
    IN  /\ More /\ (e.path = <<>> \/ e.kind = "other")
        /\ Proceed(inodes, e)

\* At the block of zeros, or the end of the buffer; the mount may lack memory.
Finish ==
    /\ status = "loading" /\ pos >= End
    /\ Stop(inodes, "OK") \/ Stop(inodes, "NOMEM")

Next == LoadFile \/ LoadSymlink \/ LoadDir \/ Skip \/ Finish

Spec == Init /\ [][Next]_vars
-----------------------------------------------------------------------------
(* Properties *)

\* Types of the variables, and parents that are made before their children.
TypeOK ==
    /\ pos \in Nat
    /\ status \in {"loading", "OK", "NOMEM", "NOTDIR", "EXISTS", "fault"}
    /\ \A i \in DOMAIN inodes \ {Root} : inodes[i].parent \in 1 .. i - 1

\* Every position that is read is that of a header, for all sizes: the rounding
\* in get_header_size agrees with the padding of tar.
OnHeaders == \E i \in 1 .. Len(archive) + 1 : pos = Start(i)

Children(d) == {i \in DOMAIN inodes : inodes[i].parent = d}

\* Only directories have children, and the length of one is their number.
DirectoriesCount ==
    \A d \in DOMAIN inodes : IF inodes[d].kind = "dir" THEN inodes[d].len = Cardinality(Children(d))
                             ELSE Children(d) = {}

\* The inode that a path leads to.
Resolve(path) ==
    FoldLeft(LAMBDA d, name : IF d = NoInode THEN NoInode ELSE FindChild(inodes, d, name), Root, path)

Mentions(i, path) == archive[i].kind # "other" /\ IsPrefix(path, archive[i].path)

\* Loading with success yields the archive's tree: a path exists if an entry is
\* on it or below it, and it is what the first such entry says: that entry, with
\* its size and its content, or a directory on the way to it.
LoadsArchive ==
    status = "OK" =>
        \A i \in DOMAIN archive : \A n \in 1 .. Len(archive[i].path) :
            LET path == SubSeq(archive[i].path, 1, n)
                first == CHOOSE j \in 1 .. i : /\ Mentions(j, path)
                                               /\ \A k \in 1 .. j - 1 : ~Mentions(k, path)
                e == archive[first]
                node == inodes[Resolve(path)]
            IN  archive[i].kind # "other" =>
                    /\ Resolve(path) # NoInode
                    /\ node.entry = first
                    /\ node.kind = IF e.path = path THEN e.kind ELSE "dir"
                    /\ node.kind = "file" => node.len = e.size /\ node.buf = Start(first) + Block

PathTo ==
    LET f[i \in DOMAIN inodes] ==
            IF i = Root THEN <<>> ELSE Append(f[inodes[i].parent], inodes[i].name)
    IN  f

\* And nothing else: every inode lies on the path of the entry that made it, and
\* siblings have different names, but for a file that comes again.
NothingElse ==
    \A i \in DOMAIN inodes \ {Root} :
        /\ IsPrefix(PathTo[i], archive[inodes[i].entry].path)
        /\ \A j \in DOMAIN inodes : j < i /\ PathTo[j] = PathTo[i] => inodes[i].kind = "file"
=============================================================================
