--------------------------------- MODULE Vfs --------------------------------
(***************************************************************************)
(* The virtual file system under the system calls of several processes.    *)
(* Each of these system calls runs to its end with interrupts off, so each  *)
(* is one action.  A scenario says which paths each of them is given.      *)
(* Open files and descriptors (vfs.c, initrd.c, devfs.c, proc.c, fork.c,   *)
(* syscall_open.c, syscall_utils.c, syscall_dup2.c, syscall_chdir.c) come  *)
(* first, as operators on the file system state s: s.file gives for each   *)
(* file handle its node, its reference count and its flags; s.fds the      *)
(* descriptor table of each process, of MAX_FDS entries.  Offsets and      *)
(* cursors are the subject of DirRead and InitrdFile.                      *)
(***************************************************************************)
EXTENDS VfsTree

CONSTANTS
  Proc,      \* processes
  Kernel,    \* the boot process
  InitProc,  \* the user process init, which never ends
  Scenarios  \* what may happen, one of these in each behaviour: .users, the user
             \* processes; .nodes, .files and .fds, how many vnodes and file
             \* handles there is memory for and MAX_FDS; .devices, the names
             \* of the devices, which serve as minor numbers; .aux, may a second
             \* tree be mounted and unmounted (vfs_test.c does); for each
             \* system call the arguments tried

BlankFile == [live |-> FALSE, vnode |-> NULL, ref |-> 0, flags |-> {}]

UnusedFiles(s) == {f \in DOMAIN s.file : ~s.file[f].live}

\* translate_open_flags.  acc is O_RDONLY, O_WRONLY or O_RDWR, opts the other
\* flags.
TranslateOpenFlags(acc, opts) ==
  LET rw == CASE acc = "RDONLY" -> {"READ"} [] acc = "WRONLY" -> {"WRITE"}
              [] OTHER -> {"READ", "WRITE"}
      bad == \/ "DIRECTORY" \in opts /\ acc # "RDONLY"
             \/ "DIRECTORY" \in opts /\ opts \cap {"CREATE", "TRUNC", "APPEND"} # {}
             \/ "TRUNC" \in opts /\ acc = "RDONLY"
  IN  IF bad THEN [st |-> "INVALID_ARG", flags |-> {}]
      ELSE [st |-> "OK", flags |-> IF "DIRECTORY" \in opts THEN opts ELSE rw \cup opts]

-----------------------------------------------------------------------------
(* Opening.                                                                *)

OpenCreatePathInvalid(path, flags) ==
  /\ "CREATE" \in flags
  /\ "DIRECTORY" \in flags \/ (path.slash /\ path.comps # <<>>)

CanOpen(s, n, flags) ==
  LET type == s.node[n].type
  IN  IF "DIRECTORY" \in flags THEN IF type = "DIR" THEN "OK" ELSE "NOTDIR"
      ELSE IF type = "DIR" THEN "ISDIR"
      ELSE IF type \in {"FILE", "DEVICE"} THEN "OK" ELSE "INVALID_ARG"

NewFile(s, n, flags) ==
  LET f == Min(UnusedFiles(s))
  IN  IF UnusedFiles(s) = {} THEN Ret(s, "NOMEM", NULL)
      ELSE Ret([s EXCEPT !.file[f] = [live |-> TRUE, vnode |-> n, ref |-> 1,
                                      flags |-> flags]], "OK", f)

\* The handle takes over the caller's reference to the node.
InitrdOpen(s, n, flags) ==
  LET type == s.node[n].type
  IN  IF "DIRECTORY" \in flags /\ type # "DIR" THEN Ret(s, "NOTDIR", NULL)
      ELSE IF "READ" \in flags /\ type # "FILE" THEN Ret(s, "ISDIR", NULL)
      ELSE NewFile(s, n, flags)

DevfsOpen(s, n, flags) ==
  LET type == s.node[n].type
  IN  IF "DIRECTORY" \in flags /\ type # "DIR" THEN Ret(s, "NOTDIR", NULL)
      ELSE IF "READ" \in flags /\ type # "DEVICE" THEN Ret(s, "ISDIR", NULL)
      ELSE IF type # "DIR" /\ GetDevice(s, n) = NULL THEN Ret(s, "NOENT", NULL)
      ELSE NewFile(s, n, flags)

OpOpen(s, n, flags) ==
  IF Initrd(s, n) THEN InitrdOpen(s, n, flags) ELSE DevfsOpen(s, n, flags)

\* A node that was found or created is opened; on failure its reference is
\* given back.
OpenNode(r, flags) ==
  LET can == CanOpen(r.s, r.out, flags)
      o   == OpOpen(r.s, r.out, flags \ {"CREATE"})
  IN  IF can # "OK" THEN Ret(VfsVnodeRelease(r.s, r.out), can, NULL)
      ELSE IF o.st # "OK" THEN Ret(VfsVnodeRelease(o.s, r.out), o.st, NULL)
      ELSE o

CreateAndOpen(e, flags) ==
  Leaving(e.out, AndThen(VfsCreate(e.s, e.out, e.name),
                         LAMBDA c : OpenNode(c, flags)))

\* l is the answer of the lookup: an absent file is created when the flags ask
\* for it.
OpenOrCreate(l, p, path, flags) ==
  IF l.st = "OK" THEN OpenNode(l, flags)
  ELSE IF l.st # "NOENT" \/ "CREATE" \notin flags THEN Ret(l.s, l.st, NULL)
  ELSE AndThen(LookupParentEntry(l.s, p, path), LAMBDA e : CreateAndOpen(e, flags))

VfsGetFileHandle(s, p, path, flags) ==
  IF OpenCreatePathInvalid(path, flags) THEN Ret(s, "INVALID_ARG", NULL)
  ELSE OpenOrCreate(VfsLookup(s, p, path), p, path, flags)

ProcFdFindNull(s, p) == {fd \in DOMAIN s.fds[p] : s.fds[p][fd] = NULL}

VfsOpen(s, p, path, flags) ==
  LET fd == Min(ProcFdFindNull(s, p))
  IN  IF OpenCreatePathInvalid(path, flags) THEN Ret(s, "INVALID_ARG", NULL)
      ELSE IF ProcFdFindNull(s, p) = {} THEN Ret(s, "TOO_MANY_OPEN", NULL)
      ELSE AndThen(VfsGetFileHandle(s, p, path, flags),
                   LAMBDA r : Ret([r.s EXCEPT !.fds[p][fd] = r.out], "OK", fd))

SyscallOpen(s, p, path, acc, opts) ==
  LET t == TranslateOpenFlags(acc, opts)
  IN  IF t.st # "OK" THEN Ret(s, t.st, NULL) ELSE VfsOpen(s, p, path, t.flags)

-----------------------------------------------------------------------------
(* Closing.                                                                *)

VfsFileBorrow(s, f) == IF f = NULL THEN s ELSE [s EXCEPT !.file[f].ref = @ + 1]

VfsFileRelease(s, f) ==
  IF f = NULL \/ s.file[f].ref = 0 THEN s ELSE [s EXCEPT !.file[f].ref = @ - 1]

\* clear_process_fd: the first descriptor of the current process for f.
ClearProcessFd(s, p, f) ==
  LET hits == {fd \in DOMAIN s.fds[p] : s.fds[p][fd] = f}
  IN  IF hits = {} THEN s ELSE [s EXCEPT !.fds[p][Min(hits)] = NULL]

\* Both free the handle; the close hooks of all devices succeed.
InitrdClose(s, f) == [s EXCEPT !.file[f] = BlankFile]

DevfsClose(s, f) == [s EXCEPT !.file[f] = BlankFile]

VfsClose(s, p, f) ==
  LET n == s.file[f].vnode
      t == ClearProcessFd(s, p, f)
      u == IF Initrd(s, n) THEN InitrdClose(t, f) ELSE DevfsClose(t, f)
  IN  IF s.file[f].ref = 0 THEN Ret(s, "INVALID_ARG", NULL)
      ELSE IF s.file[f].ref > 1 THEN Ret(VfsFileRelease(t, f), "OK", NULL)
      ELSE Ret(VfsVnodeRelease(u, n), "OK", NULL)

\* A shared handle leaves exactly the descriptor that is closed.
SyscallCloseFd(s, p, fd) ==
  LET f == s.fds[p][fd]
  IN  IF f = NULL THEN Ret(s, "BAD_FD", NULL)
      ELSE IF s.file[f].ref > 1
           THEN Ret(VfsFileRelease([s EXCEPT !.fds[p][fd] = NULL], f), "OK", NULL)
      ELSE VfsClose(s, p, f)

BugSyscallDup2(s, p, old, new) ==
  LET f == s.fds[p][old]
  IN  IF f = NULL THEN Ret(s, "BAD_FD", NULL)
      ELSE IF old = new THEN Ret(s, "OK", new)
      ELSE Ret([VfsFileBorrow(s, f) EXCEPT !.fds[p][new] = f], "OK", new)

SyscallDup2(s, p, old, new) ==
  LET f == s.fds[p][old]
      c == IF s.fds[p][new] = NULL THEN Ret(s, "OK", NULL)
           ELSE SyscallCloseFd(s, p, new)
  IN  IF f = NULL THEN Ret(s, "BAD_FD", NULL)
      ELSE IF old = new THEN Ret(s, "OK", new)
      ELSE IF c.st # "OK" THEN c
      ELSE Ret([VfsFileBorrow(c.s, f) EXCEPT !.fds[p][new] = f], "OK", new)

SyscallFchdir(s, p, fd) ==
  LET f == s.fds[p][fd]
  IN  IF f = NULL THEN Ret(s, "BAD_FD", NULL)
      ELSE IF s.node[s.file[f].vnode].type # "DIR" THEN Ret(s, "NOTDIR", NULL)
      ELSE Ret(ProcSetCwd(s, p, s.file[f].vnode), "OK", NULL)

-----------------------------------------------------------------------------
(* Processes.                                                              *)

\* The loop of proc_new_user over the three standard descriptors of a user
\* process q made by p.
TtyOrConsole(tty, p) ==
  IF tty.st = "OK" THEN tty
  ELSE VfsGetFileHandle(tty.s, p, Path(TRUE, <<"dev", "console">>), {"WRITE"})

SetFd(r, q, fd) ==
  IF r.st = "OK" THEN [r.s EXCEPT !.fds[q][fd] = r.out] ELSE r.s

OpenTty(s, p, q, fd) ==
  LET tty == VfsGetFileHandle(s, p, Path(TRUE, <<"dev", "tty0">>), {"READ", "WRITE"})
  IN  SetFd(TtyOrConsole(tty, p), q, fd)

ProcNewUser(s, p, q) ==
  ProcSetCwd(FoldLeft(LAMBDA t, i : OpenTty(t, p, q, i - 1), s,
                      [i \in 1 .. Min({3, Cardinality(DOMAIN s.fds[q])}) |-> i]), q, s.cwd[p])

\* The part of fork_proc: the child q shares the handles of p.
ForkFds(s, p, q) ==
  LET Borrow(t, fd) == VfsFileBorrow([t EXCEPT !.fds[q][fd] = s.fds[p][fd]],
                                     s.fds[p][fd])
  IN  ProcSetCwd(FoldSet(LAMBDA fd, t : Borrow(t, fd), s, DOMAIN s.fds[p]), q, s.cwd[p])

\* Every handle is closed.
BugCloseOnExec(s, p, fd) ==
  LET f == s.fds[p][fd]
  IN  IF f = NULL THEN s ELSE VfsClose([s EXCEPT !.fds[p][fd] = NULL], p, f).s

\* One turn of the loop of execve_proc.  vfs_close looks for another descriptor
\* of the handle to clear.
CloseOnExec(s, p, fd) ==
  LET f == s.fds[p][fd]
  IN  IF f = NULL \/ "CLOEXEC" \notin s.file[f].flags THEN s
      ELSE VfsClose([s EXCEPT !.fds[p][fd] = NULL], p, f).s

\* The part of execve_proc, in the order of the descriptors.
ExecFds(s, p) ==
  FoldLeft(LAMBDA t, i : CloseOnExec(t, p, i - 1), s,
           [i \in 1 .. Cardinality(DOMAIN s.fds[p]) |-> i])

\* process_fd_release, by p.
ProcessFdRelease(s, p, f) ==
  IF s.file[f].ref > 1 THEN VfsFileRelease(s, f) ELSE VfsClose(s, p, f).s

\* The part of proc_free for q, run by p (the terminator or the parent).
ProcFree(s, p, q) ==
  LET Release(t, fd) ==
        IF s.fds[q][fd] = NULL THEN t
        ELSE ProcessFdRelease([t EXCEPT !.fds[q][fd] = NULL], p, s.fds[q][fd])
  IN  ProcSetCwd(FoldSet(LAMBDA fd, t : Release(t, fd), s, DOMAIN s.fds[q]), q, NULL)

-----------------------------------------------------------------------------
(* The system.                                                             *)

VARIABLES
  args,   \* the scenario
  fs,     \* the file system state, see VfsTree
  procs   \* the processes that have not been freed

vars == <<args, fs, procs>>

Fd == 0 .. args.fds - 1

MountId == {"root", "dev", "aux"}

NoMount == [point |-> NULL, root |-> NULL, parent |-> NULL]

-----------------------------------------------------------------------------
(* Boot.                                                                   *)

CreateRoot(s) == [s EXCEPT !.node[Min(Unused(s))] = InitrdNode("DIR", "", NULL)]

\* initrd_initalize with an empty archive.
InitrdInitialize(s, p) ==
  VfsMountRoot(CreateRoot(s), p, "root", Min(Unused(s))).s

DevfsInitialize(s, p) ==
  LET root == VfsLookup(s, p, Path(TRUE, <<>>))
      dir  == OpCreateDir(root.s, root.out, "dev")
      n    == Min(Unused(dir.s))
      t    == [dir.s EXCEPT !.node[n] = DevfsNode("DIR", NULL, NULL, NULL)]
      m    == VfsMount(t, dir.out, "dev", n, t.node[root.out].mount)
  IN  VfsVnodeRelease(VfsVnodeRelease(m.s, root.out), dir.out)

\* chardev_initialize.
ChardevInitialize(s) ==
  FoldSet(LAMBDA name, t : DevfsRegister(t, t.mnt["dev"].root, name, name).s,
          s, args.devices)

Memory ==
  [node |-> [n \in 1 .. args.nodes |-> BlankNode], dev |-> [m \in Minor |-> NULL],
   mnt |-> [m \in MountId |-> NoMount], rootm |-> NULL,
   file |-> [f \in 1 .. args.files |-> BlankFile],
   fds |-> [p \in Proc |-> [fd \in Fd |-> NULL]], cwd |-> [p \in Proc |-> NULL]]

Boot ==
  LET booted == ChardevInitialize(DevfsInitialize(InitrdInitialize(Memory, Kernel),
                                                  Kernel))
      more   == IF args.aux THEN CreateRoot(booted) ELSE booted
  IN  ProcNewUser(more, Kernel, InitProc)

Init ==
  /\ args \in Scenarios
  /\ fs = Boot
  /\ procs = {Kernel, InitProc}

Node == DOMAIN fs.node
File == DOMAIN fs.file

\* The node CreateRoot made for the second tree.
AuxRoot == CHOOSE n \in Node : fs.node[n].live /\ fs.node[n].name = ""
                               /\ n # RootNode(fs)

-----------------------------------------------------------------------------
Done(s) == fs' = s /\ UNCHANGED <<args, procs>>

Mkdir(p) == \E a \in args.mkdir : Done(SyscallMkdir(fs, p, a).s)
Rmdir(p) == \E a \in args.rmdir : Done(SyscallRmdir(fs, p, a).s)
Unlink(p) == \E a \in args.unlink : Done(SyscallUnlink(fs, p, a).s)
Link(p) == \E a \in args.link : Done(SyscallLink(fs, p, a[1], a[2]).s)
Symlink(p) == \E a \in args.symlink : Done(SyscallSymlink(fs, p, a[1], a[2]).s)
Chdir(p) == \E a \in args.chdir : Done(SyscallChdir(fs, p, a).s)
Open(p) ==
  \E a \in args.open : Done(SyscallOpen(fs, p, a.path, a.acc, a.opts).s)
BugClose(p, fd) ==
  fs.fds[p][fd] # NULL /\ Done(VfsClose(fs, p, fs.fds[p][fd]).s)
Close(p, fd) == Done(SyscallCloseFd(fs, p, fd).s)
Dup2(p) == \E a \in args.dup2 : Done(SyscallDup2(fs, p, a[1], a[2]).s)
Fchdir(p) == \E fd \in Fd : Done(SyscallFchdir(fs, p, fd).s)

Fork(p, q) ==
  /\ fs' = ForkFds(fs, p, q)
  /\ procs' = procs \cup {q}
  /\ UNCHANGED args

\* execve, once nothing can fail any more.
Exec(p) == Done(ExecFds(fs, p))

\* An exited process is freed by another one.
Free(p, q) ==
  /\ p # q
  /\ fs' = ProcFree(fs, p, q)
  /\ procs' = procs \ {q}
  /\ UNCHANGED args

Mount(p) ==
  /\ args.aux /\ fs.mnt["aux"].point = NULL
  /\ \E a \in args.mount :
       LET r == VfsLookup(fs, p, a)
           m == VfsMount(r.s, r.out, "aux", AuxRoot, NULL)
       IN  /\ r.st = "OK"
           /\ Done(VfsVnodeRelease(m.s, r.out))

Unmount == fs.mnt["aux"].point # NULL /\ Done(VfsUnmount(fs, "aux").s)

Next ==
  \/ \E p \in procs \ {Kernel} :
       \/ Mkdir(p) \/ Rmdir(p) \/ Unlink(p) \/ Link(p) \/ Symlink(p)
       \/ Chdir(p) \/ Open(p) \/ Dup2(p) \/ Fchdir(p) \/ Mount(p) \/ Exec(p)
       \/ \E fd \in Fd : Close(p, fd)
       \/ \E q \in args.users \ procs : Fork(p, q)
  \/ \E p \in procs, q \in procs \ {Kernel, InitProc} : Free(p, q)
  \/ Unmount

Spec == Init /\ [][Next]_vars

-----------------------------------------------------------------------------
(* Properties.                                                             *)

Live == {n \in Node : fs.node[n].live}

LiveFiles == {f \in File : fs.file[f].live}

\* The names of node n: directory entries that lead to it, through a hard
\* link or not.
Entries(n) ==
  {e \in Live \X Live : /\ e[2] \in Range(fs.node[e[1]].kids)
                        /\ n = e[2] \/ n = fs.node[e[2]].hard}

\* Types of the nodes, files, descriptors and mounts.
TypeOK ==
  /\ {Kernel, InitProc} \subseteq procs /\ procs \subseteq Proc
  /\ \A n \in Node :
       LET v == fs.node[n]
       IN  /\ v.ref \in Nat /\ v.links \in Nat /\ v.live \in BOOLEAN
           /\ v.kids \in Seq(Node)
           /\ v.type \in {"FILE", "DIR", "SYMLINK", "DEVICE", NULL}
           /\ v.live = (v.type # NULL)
  /\ \A p \in Proc : /\ fs.cwd[p] \in Node \cup {NULL}
                     /\ \A fd \in Fd : fs.fds[p][fd] \in File \cup {NULL}

\* vfs_vnode_borrow and vfs_vnode_release balance on every path through the
\* code: the reference count of a node is the number of working directories,
\* open files and mounts that hold it.
NodeRefsExact ==
  \A n \in Live :
    fs.node[n].ref = Cardinality({p \in Proc : fs.cwd[p] = n})
                     + Cardinality({f \in LiveFiles : fs.file[f].vnode = n})
                     + Cardinality({m \in MountId : fs.mnt[m].point = n})
                     + Cardinality({m \in MountId :
                         fs.mnt[m].root = n /\ (m = fs.rootm \/ fs.mnt[m].point # NULL)})

\* The reference count of a file handle is the number of descriptors that
\* hold it, over dup2, fork, close and the end of a process; a handle
\* without descriptors has been freed.
FileRefsExact ==
  /\ \A f \in LiveFiles :
       /\ fs.file[f].ref > 0
       /\ fs.file[f].ref = Cardinality({pf \in Proc \X Fd : fs.fds[pf[1]][pf[2]] = f})
  /\ \A p \in Proc, fd \in Fd : fs.fds[p][fd] \in LiveFiles \cup {NULL}

\* link_count is the number of names of a node, over create, link, unlink
\* and rmdir.  Roots have no name but count one; a hard link's own node is
\* only a name.
LinksExact ==
  \A n \in Live :
    LET isRoot == n = RootNode(fs) \/ fs.node[n].name \in {"", NULL}
    IN  fs.node[n].hard # NULL \/ isRoot
          \/ fs.node[n].links = Cardinality(Entries(n))

\* A node is freed at once when it has neither names nor users, and not
\* before: what has a name or a user is alive, and what is alive has one.
FreedExactly ==
  /\ \A n \in Live :
       /\ Range(fs.node[n].kids) \subseteq Live
       /\ {fs.node[n].parent, fs.node[n].hard} \subseteq Live \cup {NULL}
       /\ fs.node[n].ref > 0 \/ fs.node[n].name \in {"", NULL} \/ Entries(n) # {}
  /\ \A p \in Proc : fs.cwd[p] \in Live \cup {NULL}
  /\ \A f \in LiveFiles : fs.file[f].vnode \in Live

\* What getcwd answers leads back to the working directory; it has an answer
\* exactly as long as the directory has a name.
CwdRoundTrip ==
  \A p \in procs :
    LET r == SyscallGetcwd(fs, p, 2 * args.nodes)
        n == fs.cwd[p]
    IN  /\ r.st = "OK" => VfsLookup(fs, p, r.out).out = n
        /\ r.st = "OK" <=> (n = RootNode(fs) \/ n = fs.mnt["dev"].root
                            \/ Entries(n) # {})

\* What a chain of components leads to from node n when each symbolic link is
\* resolved before the components behind it are looked at; NULL for nothing.
RECURSIVE Reach(_, _, _)
Reach(n, comps, fuel) ==
  LET v     == fs.node[n]
      c     == Head(comps)
      entry == SelectSeq(v.kids, LAMBDA k : fs.node[k].name = c)
      k     == IF fs.node[Head(entry)].hard = NULL THEN Head(entry)
               ELSE fs.node[Head(entry)].hard
      child == IF fs.node[k].mount = NULL THEN k ELSE fs.mnt[fs.node[k].mount].root
      text  == fs.node[child].text
      up    == IF IsMountRoot(fs, n) THEN fs.node[fs.mnt[v.mount].point].parent
               ELSE v.parent
      next  == CASE c = "." -> n
                 [] c = ".." -> IF n = RootNode(fs) THEN NULL
                                ELSE IF up = NULL THEN n ELSE up
                 [] entry = <<>> -> NULL
                 [] fs.node[child].type = "SYMLINK" ->
                      Reach(IF text.abs THEN RootNode(fs) ELSE n, text.comps, fuel - 1)
                 [] OTHER -> child
  IN  IF n = NULL \/ fuel = 0 THEN NULL
      ELSE IF comps = <<>> THEN n
      ELSE IF v.type # "DIR" THEN NULL
      ELSE Reach(next, Tail(comps), fuel)

\* walk_path, which puts the target of a link in front of the rest of the path
\* and starts again, finds what resolving link by link finds.
LookupFollowsLinks ==
  \A p \in procs, a \in args.chdir :
    LET r    == VfsLookup(fs, p, a)
        from == IF a.abs THEN RootNode(fs) ELSE fs.cwd[p]
    IN  r.st # "LOOP" => r.out = Reach(from, a.comps, 2 * SymlinkMaxDepth)

\* A call that fails leaves the file system as it was, and so do the calls
\* that only look: references taken on the way are all given back.
FailuresChangeNothing ==
  \A p \in procs :
    LET Same(r) == r.st # "OK" => r.s = fs
    IN  /\ \A a \in args.mkdir : Same(SyscallMkdir(fs, p, a))
        /\ \A a \in args.rmdir : Same(SyscallRmdir(fs, p, a))
        /\ \A a \in args.unlink : Same(SyscallUnlink(fs, p, a))
        /\ \A a \in args.link : Same(SyscallLink(fs, p, a[1], a[2]))
        /\ \A a \in args.symlink : Same(SyscallSymlink(fs, p, a[1], a[2]))
        /\ \A a \in args.chdir : /\ Same(SyscallChdir(fs, p, a))
                                 /\ SyscallStat(fs, p, a).s = fs
                                 /\ SyscallLstat(fs, p, a).s = fs
                                 /\ SyscallReadlink(fs, p, a).s = fs
        /\ \A len \in 0 .. 5 : SyscallGetcwd(fs, p, len).s = fs

\* Closing a descriptor takes away that one and no other, also when several
\* descriptors share the handle.
CloseClosesOne ==
  \A p \in procs, fd \in Fd :
    Close(p, fd) => fs'.fds = [fs.fds EXCEPT ![p] = [@ EXCEPT ![fd] = NULL]]

\* execve takes away the descriptors of handles marked CLOEXEC and no other.
ExecKeepsTheRest ==
  \A p \in procs :
    Exec(p) =>
      fs'.fds = [fs.fds EXCEPT ![p] = [fd \in Fd |->
        IF @[fd] # NULL /\ "CLOEXEC" \in fs.file[@[fd]].flags THEN NULL ELSE @[fd]]]
=============================================================================
