------------------------------- MODULE MCFiles ------------------------------
(***************************************************************************)
(* Files and directories for TLC.  A behaviour exercises one part, chosen  *)
(* at the start, while the others stay in an initial state:                *)
(*   screen    the framebuffer as a file, read and written through two     *)
(*             handles                                                     *)
(*   file      a file of the initrd, one process with two handles          *)
(*   writers   the same, two processes that write at the same time         *)
(*   initrd    a directory of the initrd, listed while it changes          *)
(*   devfs     a directory of devfs, where new entries go to the front     *)
(*   load      all archives of up to three entries, loaded at boot         *)
(***************************************************************************)
EXTENDS Framebuffer, SequencesExt

VARIABLES
    part,
    s, pc, op, last,                    \* see InitrdFile
    dir, handle, seen, due, exact,      \* see DirRead
    archive, pos, inodes, status        \* see Ustar

One == INSTANCE InitrdFile WITH
    Proc <- {"p1"}, Handle <- {"h1", "h2"}, Byte <- {1, 2}, Buf <- {"b1", "b2"},
    Starts <- {"new", "archive"}, MaxSize <- 3,
    OpenFlags <- {{"READ", "WRITE"}, {"WRITE", "APPEND"}, {"WRITE", "TRUNC"}}

Two == INSTANCE InitrdFile WITH
    Proc <- {"p1", "p2"}, Handle <- {"h1"}, Byte <- {1}, Buf <- {"b1", "b2", "b3"},
    Starts <- {"new"}, MaxSize <- 3, OpenFlags <- {{"READ", "WRITE"}}

Initrd == INSTANCE DirRead WITH
    Node <- {"n1", "n2", "n3", "n4"}, Handle <- {"h1"}, LongNames <- {"n2", "n4"},
    Prepend <- FALSE, MaxCount <- 3, MaxOffset <- 5

Devfs == INSTANCE DirRead WITH
    Node <- {"n1", "n2", "n3", "n4"}, Handle <- {"h1"}, LongNames <- {"n2", "n4"},
    Prepend <- TRUE, MaxCount <- 3, MaxOffset <- 5

\* Files of no, one full and one and a half blocks; links, directories, others.
Block == 2
Paths == SeqOf({"a", "b"}, 2) \ {<<>>}
Entries ==
    [kind : {"file"}, path : Paths, size : {0, Block, Block + 1}]
        \cup [kind : {"dir"}, path : Paths, size : {0}]
        \cup [kind : {"link"}, path : {<<"a">>, <<"a", "b">>}, size : {0}]
        \cup [kind : {"dir"}, path : {<<>>}, size : {0}]
        \cup [kind : {"other"}, path : {<<"a">>, <<"b">>}, size : {1}]

Tar == INSTANCE Ustar WITH Archives <- SeqOf(Entries, 3)

-----------------------------------------------------------------------------
fileVars == <<s, pc, op, last>>
dirVars == <<dir, handle, seen, due, exact>>
tarVars == <<archive, pos, inodes, status>>

FilesInit ==
    /\ part \in {"screen", "file", "writers", "initrd", "devfs", "load"}
    /\ IF part = "screen" THEN FbInit
       ELSE screen = [c \in Cell |-> 0] /\ offset = [f \in File |-> 0]
    /\ IF part = "file" THEN One!Init ELSE Two!Init
    /\ Initrd!Init
    /\ part = "load" \/ archive = <<>>
    /\ Tar!Init

FilesNext ==
    /\ UNCHANGED part
    /\ \/ part = "screen" /\ FbNext /\ UNCHANGED <<fileVars, dirVars, tarVars>>
       \/ part = "file" /\ One!Next /\ UNCHANGED <<fbVars, dirVars, tarVars>>
       \/ part = "writers" /\ Two!Next /\ UNCHANGED <<fbVars, dirVars, tarVars>>
       \/ part = "initrd" /\ Initrd!Next /\ UNCHANGED <<fbVars, fileVars, tarVars>>
       \/ part = "devfs" /\ Devfs!Next /\ UNCHANGED <<fbVars, fileVars, tarVars>>
       \/ part = "load" /\ Tar!Next /\ UNCHANGED <<fbVars, fileVars, dirVars>>

FilesSpec == FilesInit /\ [][FilesNext]_<<part, fbVars, fileVars, dirVars, tarVars>>

-----------------------------------------------------------------------------
\* The bytes of a file are the ones written last, its buffer is big enough, its
\* own and not freed, also between the two halves of concurrent writes, and no
\* append overwrites anything.
FileSound ==
    /\ [](part = "file" => One!ContentExact /\ One!BuffersSound)
    /\ [](part = "writers" => Two!BufferAlive)
    /\ [][part = "file" => One!AppendKeeps]_s

\* A directory's length is right, and a listing shows every entry that was there
\* when it began, in the initrd once, however the caller's buffers cut it up and
\* whatever is added meanwhile.
ListingExact ==
    /\ part = "initrd" => Initrd!LenExact /\ Initrd!ListingComplete /\ Initrd!ListedOnce
    /\ part = "devfs" => Devfs!LenExact /\ Devfs!ListingComplete

\* Loading an archive finds each header and yields the archive's tree and
\* nothing else.
TreeLoaded ==
    part = "load" =>
        /\ Tar!TypeOK /\ Tar!OnHeaders /\ Tar!DirectoriesCount
        /\ Tar!LoadsArchive /\ Tar!NothingElse
=============================================================================
