------------------------------- MODULE VfsTree ------------------------------
(***************************************************************************)
(* The tree of the virtual file system: the nodes and node operations of   *)
(* its two file systems, initrd (src/kernel/fs/initrd.c), which holds the  *)
(* tree, and devfs (src/kernel/fs/devfs.c), mounted on /dev; mounts, path  *)
(* walking and the operations on the tree of vfs.c.  The module has no     *)
(* variables; every operator goes from a file system state s to a result   *)
(* Ret(state, status, value).  A state is a record with the fields         *)
(*   node   the vnodes, each with the inode that contains it               *)
(*   dev    devfs's dev_table: for each minor number a node or NULL        *)
(*   mnt, rootm   the mounts; cwd   the working directories                *)
(*   file, fds    see Vfs                                                  *)
(* Nodes are numbered from 1 to as many as there is memory for; an         *)
(* allocation takes the least number that is free and fails (NOMEM) when   *)
(* there is none.  Timestamps are left out.  A path is a record: does it   *)
(* start with a slash, its components, does it end with a slash.           *)
(* References taken on the way are modelled one by one, so that a way      *)
(* through the code that keeps or gives back one too many shows.           *)
(***************************************************************************)
EXTENDS Integers, Sequences, FiniteSets, FiniteSetsExt, SequencesExt

CONSTANTS
  NULL,             \* the null pointer
  Minor,            \* minor numbers of character devices
  SymlinkMaxDepth,  \* VFS_SYMLINK_MAX_DEPTH, 40 in the code
  ParentMaxDepth    \* VFS_SYMLINK_TARGET_MAX as the bound of climbing loops

Ret(s, st, out) == [s |-> s, st |-> st, out |-> out]

\* `if (status != OK) return status`: what follows when result r is a success.
AndThen(r, F(_)) == IF r.st = "OK" THEN F(r) ELSE Ret(r.s, r.st, NULL)

\* A vnode and the inode of its file system.  `hard` is hard_target, `text`
\* the target of a symbolic link, `kids` the list of children in order.
BlankNode ==
  [live |-> FALSE, fs |-> NULL, type |-> NULL, ref |-> 0, links |-> 0,
   mount |-> NULL, name |-> NULL, parent |-> NULL, hard |-> NULL,
   text |-> NULL, minor |-> NULL, kids |-> <<>>]

Unused(s) == {n \in DOMAIN s.node : ~s.node[n].live}

\* init_vnode and the assignments around it in initrd_create_file,
\* initrd_link, initrd_symlink, create_dir and create_root.
InitrdNode(type, name, parent) ==
  [BlankNode EXCEPT !.live = TRUE, !.fs = "initrd", !.type = type,
                    !.links = 1, !.name = name, !.parent = parent]

DevfsNode(type, name, parent, minor) ==
  [BlankNode EXCEPT !.live = TRUE, !.fs = "devfs", !.type = type,
                    !.links = 1, !.name = name, !.parent = parent,
                    !.minor = minor]

-----------------------------------------------------------------------------
(* Reference counts (vfs.c).                                               *)

VfsVnodeBorrow(s, n) == IF n = NULL THEN s ELSE [s EXCEPT !.node[n].ref = @ + 1]

\* Returns the memory of the inode; children are not looked at.
InitrdFree(s, n) == [s EXCEPT !.node[n] = BlankNode]

DevfsFree(s, n) == [s EXCEPT !.node[n] = BlankNode]

NodeFree(s, n) ==
  IF s.node[n].fs = "initrd" THEN InitrdFree(s, n) ELSE DevfsFree(s, n)

VfsVnodeRelease(s, n) ==
  IF n = NULL \/ s.node[n].ref = 0 THEN s
  ELSE LET t == [s EXCEPT !.node[n].ref = @ - 1]
       IN  IF t.node[n].ref = 0 /\ t.node[n].links = 0
           THEN NodeFree(t, n) ELSE t

-----------------------------------------------------------------------------
(* initrd.                                                                 *)

\* The first child of that name, in the order of the list.
InitrdFindChild(s, d, name) ==
  LET hits == SelectSeq(s.node[d].kids, LAMBDA k : s.node[k].name = name)
  IN  IF hits = <<>> THEN NULL ELSE Head(hits)

\* add_child: at the end of the list.
InitrdAddChild(s, d, n) == [s EXCEPT !.node[d].kids = Append(@, n)]

\* detach_child: out of the parent's list, and without a parent.
InitrdDetachChild(s, n) ==
  LET d == s.node[n].parent
  IN  [s EXCEPT !.node[d].kids = SelectSeq(@, LAMBDA k : k # n),
                !.node[n].parent = NULL]

\* A hard link leads to the node it was made for.
InitrdLookup(s, d, name) ==
  LET child == InitrdFindChild(s, d, name)
      n     == IF s.node[child].hard = NULL THEN child ELSE s.node[child].hard
  IN  IF child = NULL THEN Ret(s, "NOENT", NULL)
      ELSE Ret(VfsVnodeBorrow(s, n), "OK", n)

\* A node without a parent is its own parent.
InitrdParent(s, n) ==
  LET up == IF s.node[n].parent = NULL THEN n ELSE s.node[n].parent
  IN  Ret(VfsVnodeBorrow(s, up), "OK", up)

InitrdName(s, n) == s.node[n].name

\* Neither of the two looks for an entry of the same name.
InitrdCreateFile(s, d, name) ==
  LET n == Min(Unused(s))
      t == InitrdAddChild([s EXCEPT !.node[n] = InitrdNode("FILE", name, d)],
                          d, n)
  IN  IF Unused(s) = {} THEN Ret(s, "NOMEM", NULL)
      ELSE Ret(VfsVnodeBorrow(t, n), "OK", n)

InitrdCreateDir(s, d, name) ==
  LET n == Min(Unused(s))
      t == InitrdAddChild([s EXCEPT !.node[n] = InitrdNode("DIR", name, d)],
                          d, n)
  IN  IF Unused(s) = {} THEN Ret(s, "NOMEM", NULL)
      ELSE Ret(VfsVnodeBorrow(t, n), "OK", n)

\* The inode of a hard link is freed at once; that of a file when the last
\* reference to its vnode goes.
InitrdDeleteFile(s, d, name) ==
  LET child == InitrdFindChild(s, d, name)
      t     == InitrdDetachChild(s, child)
  IN  IF child = NULL THEN Ret(s, "NOENT", NULL)
      ELSE IF s.node[child].type = "DIR" THEN Ret(s, "ISDIR", NULL)
      ELSE Ret(IF s.node[child].hard = NULL THEN t ELSE InitrdFree(t, child),
               "OK", NULL)

InitrdDeleteDir(s, d, name) ==
  LET child == InitrdFindChild(s, d, name)
  IN  IF child = NULL THEN Ret(s, "NOENT", NULL)
      ELSE IF s.node[child].type # "DIR" THEN Ret(s, "NOTDIR", NULL)
      ELSE IF s.node[child].kids # <<>> THEN Ret(s, "NOTEMPTY", NULL)
      ELSE Ret(InitrdDetachChild(s, child), "OK", NULL)

InitrdLink(s, d, name, target) ==
  LET n == Min(Unused(s))
      alias == [InitrdNode("FILE", name, d) EXCEPT !.hard = target]
  IN  IF s.node[target].type # "FILE" THEN Ret(s, "INVALID_ARG", NULL)
      ELSE IF InitrdFindChild(s, d, name) # NULL THEN Ret(s, "EXISTS", NULL)
      ELSE IF Unused(s) = {} THEN Ret(s, "NOMEM", NULL)
      ELSE Ret(InitrdAddChild([s EXCEPT !.node[n] = alias], d, n), "OK", NULL)

InitrdSymlink(s, d, name, text) ==
  LET n == Min(Unused(s))
      link == [InitrdNode("SYMLINK", name, d) EXCEPT !.text = text]
      t == InitrdAddChild([s EXCEPT !.node[n] = link], d, n)
  IN  IF InitrdFindChild(s, d, name) # NULL THEN Ret(s, "EXISTS", NULL)
      ELSE IF Unused(s) = {} THEN Ret(s, "NOMEM", NULL)
      ELSE Ret(VfsVnodeBorrow(t, n), "OK", n)

InitrdReadlink(s, n) == s.node[n].text

-----------------------------------------------------------------------------
(* devfs.                                                                  *)

DevfsFindChild(s, d, name) ==
  LET hits == SelectSeq(s.node[d].kids, LAMBDA k : s.node[k].name = name)
  IN  IF hits = <<>> THEN NULL ELSE Head(hits)

\* create_child: in front of the list.
DevfsCreateChild(s, d, type, name, minor) ==
  LET n == Min(Unused(s))
  IN  IF Unused(s) = {} THEN Ret(s, "NOMEM", NULL)
      ELSE Ret([s EXCEPT !.node[n] = DevfsNode(type, name, d, minor),
                         !.node[d].kids = <<n>> \o @], "OK", n)

DevfsDetachChild(s, n) ==
  LET d == s.node[n].parent
  IN  IF d = NULL THEN s
      ELSE [s EXCEPT !.node[d].kids = SelectSeq(@, LAMBDA k : k # n),
                     !.node[n].parent = NULL]

DevfsLookup(s, d, name) ==
  LET child == DevfsFindChild(s, d, name)
  IN  IF child = NULL THEN Ret(s, "NOENT", NULL)
      ELSE Ret(VfsVnodeBorrow(s, child), "OK", child)

DevfsParent(s, n) ==
  LET up == IF s.node[n].parent = NULL THEN n ELSE s.node[n].parent
  IN  Ret(VfsVnodeBorrow(s, up), "OK", up)

DevfsName(s, n) == s.node[n].name

DevfsCreateFile(s, d, name) == Ret(s, "NOT_IMPLEMENTED", NULL)

DevfsCreateDir(s, d, name) ==
  LET r == DevfsCreateChild(s, d, "DIR", name, NULL)
  IN  IF r.st # "OK" THEN r ELSE Ret(VfsVnodeBorrow(r.s, r.out), "OK", r.out)

\* Only symbolic links can be unlinked.
DevfsDeleteFile(s, d, name) ==
  LET child == DevfsFindChild(s, d, name)
  IN  IF child = NULL THEN Ret(s, "NOENT", NULL)
      ELSE IF s.node[child].type = "DIR" THEN Ret(s, "ISDIR", NULL)
      ELSE IF s.node[child].type # "SYMLINK" THEN Ret(s, "NOT_IMPLEMENTED", NULL)
      ELSE Ret(DevfsDetachChild(s, child), "OK", NULL)

DevfsDeleteDir(s, d, name) ==
  LET child == DevfsFindChild(s, d, name)
  IN  IF child = NULL THEN Ret(s, "NOENT", NULL)
      ELSE IF s.node[child].type # "DIR" THEN Ret(s, "NOTDIR", NULL)
      ELSE IF s.node[child].kids # <<>> THEN Ret(s, "NOTEMPTY", NULL)
      ELSE Ret(DevfsDetachChild(s, child), "OK", NULL)

DevfsSymlink(s, d, name, text) ==
  LET r == DevfsCreateChild(s, d, "SYMLINK", name, NULL)
  IN  IF DevfsFindChild(s, d, name) # NULL THEN Ret(s, "EXISTS", NULL)
      ELSE IF r.st # "OK" THEN r
      ELSE Ret(VfsVnodeBorrow([r.s EXCEPT !.node[r.out].text = text], r.out),
               "OK", r.out)

DevfsReadlink(s, n) == s.node[n].text

\* devfs_register puts the node of a device into the root of devfs.
DevfsRegister(s, d, minor, name) ==
  LET r == DevfsCreateChild(s, d, "DEVICE", name, minor)
  IN  IF s.dev[minor] # NULL THEN Ret(s, "EXISTS", NULL)
      ELSE IF r.st # "OK" THEN r
      ELSE Ret([r.s EXCEPT !.dev[minor] = r.out], "OK", NULL)

\* get_device: the device of a node, as long as it is registered.
GetDevice(s, n) == IF s.node[n].minor = NULL THEN NULL ELSE s.dev[s.node[n].minor]

-----------------------------------------------------------------------------
(* The call through vnode->ops.                                            *)

Initrd(s, n) == s.node[n].fs = "initrd"

OpLookup(s, d, name) ==
  IF Initrd(s, d) THEN InitrdLookup(s, d, name) ELSE DevfsLookup(s, d, name)
OpParent(s, n) == IF Initrd(s, n) THEN InitrdParent(s, n) ELSE DevfsParent(s, n)
OpName(s, n) == IF Initrd(s, n) THEN InitrdName(s, n) ELSE DevfsName(s, n)
OpCreateFile(s, d, name) ==
  IF Initrd(s, d) THEN InitrdCreateFile(s, d, name) ELSE DevfsCreateFile(s, d, name)
OpCreateDir(s, d, name) ==
  IF Initrd(s, d) THEN InitrdCreateDir(s, d, name) ELSE DevfsCreateDir(s, d, name)
OpUnlink(s, d, name) ==
  IF Initrd(s, d) THEN InitrdDeleteFile(s, d, name) ELSE DevfsDeleteFile(s, d, name)
OpRmdir(s, d, name) ==
  IF Initrd(s, d) THEN InitrdDeleteDir(s, d, name) ELSE DevfsDeleteDir(s, d, name)
OpSymlink(s, d, name, text) ==
  IF Initrd(s, d) THEN InitrdSymlink(s, d, name, text)
  ELSE DevfsSymlink(s, d, name, text)
OpReadlink(s, n) == IF Initrd(s, n) THEN InitrdReadlink(s, n) ELSE DevfsReadlink(s, n)

-----------------------------------------------------------------------------
(* Paths.                                                                  *)

Path(abs, comps) == [abs |-> abs, comps |-> comps, slash |-> FALSE]

RootNode(s) == s.mnt[s.rootm].root

IsMountRoot(s, n) == s.node[n].mount # NULL /\ s.mnt[s.node[n].mount].root = n

-----------------------------------------------------------------------------
(* Mounts.                                                                 *)

\* proc_set_cwd: the new reference is taken before the old one is given back.
ProcSetCwd(s, p, n) ==
  [VfsVnodeRelease(VfsVnodeBorrow(s, n), s.cwd[p]) EXCEPT !.cwd[p] = n]

VfsMountRoot(s, p, m, root) ==
  LET t == [s EXCEPT !.mnt[m] = [point |-> NULL, root |-> root, parent |-> NULL],
                     !.rootm = m, !.node[root].mount = m]
      u == VfsVnodeBorrow(t, root)
  IN  IF s.rootm # NULL THEN Ret(s, "INVALID_ARG", NULL)
      ELSE Ret(IF u.cwd[p] = NULL THEN ProcSetCwd(u, p, root) ELSE u, "OK", NULL)

VfsMount(s, point, m, root, parent) ==
  LET t == [s EXCEPT !.mnt[m] = [point |-> point, root |-> root,
                                 parent |-> parent],
                     !.node[point].mount = m, !.node[root].mount = m]
  IN  IF s.node[point].type # "DIR" THEN Ret(s, "NOTDIR", NULL)
      ELSE IF s.node[point].mount # NULL THEN Ret(s, "INVALID_ARG", NULL)
      ELSE Ret(VfsVnodeBorrow(VfsVnodeBorrow(t, point), root), "OK", NULL)

BugVfsUnmount(s, m) ==
  LET point == s.mnt[m].point  root == s.mnt[m].root
      t == [s EXCEPT !.node[point].mount = NULL, !.node[root].mount = NULL]
  IN  IF m = s.rootm \/ point = NULL THEN Ret(s, "INVALID_ARG", NULL)
      ELSE Ret([VfsVnodeRelease(t, root) EXCEPT !.mnt[m].point = NULL,
                                                !.mnt[m].parent = NULL],
               "OK", NULL)

\* Nobody asks whether the file system is in use.
VfsUnmount(s, m) ==
  LET point == s.mnt[m].point  root == s.mnt[m].root
      t == [s EXCEPT !.node[point].mount = NULL, !.node[root].mount = NULL]
      u == VfsVnodeRelease(VfsVnodeRelease(t, root), point)
  IN  IF m = s.rootm \/ point = NULL THEN Ret(s, "INVALID_ARG", NULL)
      ELSE Ret([u EXCEPT !.mnt[m].point = NULL, !.mnt[m].parent = NULL],
               "OK", NULL)

\* cross_mount: from a covered directory to the root mounted on it.
BugCrossMount(s, n) ==
  LET m == s.node[n].mount
  IN  IF m = NULL \/ s.mnt[m].root = n THEN Ret(s, "OK", n)
      ELSE Ret(VfsVnodeBorrow(s, s.mnt[m].root), "OK", s.mnt[m].root)

CrossMount(s, n) ==
  LET m == s.node[n].mount
  IN  IF m = NULL \/ s.mnt[m].root = n THEN Ret(s, "OK", n)
      ELSE Ret(VfsVnodeRelease(VfsVnodeBorrow(s, s.mnt[m].root), n), "OK",
               s.mnt[m].root)

\* component_parent: `..` from n.  The reference to n becomes one to the
\* parent; on failure it stays.
ComponentParent(s, n) ==
  LET m  == s.node[n].mount
      up == IF s.mnt[m].parent = NULL THEN s.rootm ELSE s.mnt[m].parent
      r  == OpParent(s, IF IsMountRoot(s, n) THEN s.mnt[m].point ELSE n)
  IN  IF n = RootNode(s) THEN Ret(s, "NOENT", n)
      ELSE IF IsMountRoot(s, n) /\ s.mnt[m].point = s.mnt[up].root
           THEN Ret(VfsVnodeRelease(VfsVnodeBorrow(s, s.mnt[up].root), n), "OK",
                    s.mnt[up].root)
      ELSE Ret(VfsVnodeRelease(r.s, n), "OK", r.out)

-----------------------------------------------------------------------------
(* walk_path.  The recursive call for a symbolic link is the last thing     *)
(* walk_path does but for giving back its references, so the walk is a loop: *)
(* w holds the state, the current node, the components left, the number of  *)
(* links followed and whether to stop at the last component.                *)

Walking(s, n, rest, depth, stop) ==
  [s |-> s, cur |-> n, rest |-> rest, depth |-> depth, stop |-> stop,
   st |-> "OK", name |-> NULL, done |-> FALSE]

WalkFails(w, s, st) ==
  [w EXCEPT !.s = VfsVnodeRelease(s, w.cur), !.cur = NULL, !.st = st,
            !.done = TRUE]

\* The first lines of walk_path: where the path starts.
WalkStart(s, p, base, path, depth, stop) ==
  LET from == IF path.abs THEN RootNode(s)
              ELSE IF base # NULL THEN base
              ELSE IF s.cwd[p] = NULL THEN RootNode(s) ELSE s.cwd[p]
      x == CrossMount(VfsVnodeBorrow(s, from), from)
  IN  IF s.rootm = NULL \/ (~path.abs /\ path.comps = <<>>)
      THEN [Walking(s, NULL, <<>>, depth, stop) EXCEPT !.st = "NOENT",
                                                       !.done = TRUE]
      ELSE Walking(x.s, x.out, path.comps, depth, stop)

\* join_symlink_path: the target, then what was left of the path.
JoinSymlinkPath(target, rest) == [target EXCEPT !.comps = @ \o rest]

\* resolve_symlink_component for the link n below the current node, and the
\* releases after it.  The rest of the path is walked to its end, whether or
\* not the caller wanted the parent.
BugResolveSymlinkComponent(w, s, p, n) ==
  LET path == JoinSymlinkPath(OpReadlink(s, n), Tail(w.rest))
      v    == WalkStart(s, p, RootNode(s), path, w.depth + 1, FALSE)
  IN  IF w.depth >= SymlinkMaxDepth THEN WalkFails(w, VfsVnodeRelease(s, n), "LOOP")
      ELSE [v EXCEPT !.s = VfsVnodeRelease(VfsVnodeRelease(@, n), w.cur)]

ResolveSymlinkComponent(w, s, p, n) ==
  LET path == JoinSymlinkPath(OpReadlink(s, n), Tail(w.rest))
      v    == WalkStart(s, p, w.cur, path, w.depth + 1, FALSE)
  IN  IF w.depth >= SymlinkMaxDepth THEN WalkFails(w, VfsVnodeRelease(s, n), "LOOP")
      ELSE [v EXCEPT !.s = VfsVnodeRelease(VfsVnodeRelease(@, n), w.cur)]

\* The end of a round: r is what the lookup of the component gave, x the node
\* behind the mount on it.
WalkInto(w, p, x) ==
  IF x.s.node[x.out].type = "SYMLINK"
  THEN ResolveSymlinkComponent(w, x.s, p, x.out)
  ELSE [w EXCEPT !.s = VfsVnodeRelease(x.s, w.cur), !.cur = x.out,
                 !.rest = Tail(@)]

WalkDown(w, p, r) ==
  IF r.st # "OK" THEN WalkFails(w, r.s, r.st)
  ELSE WalkInto(w, p, CrossMount(r.s, r.out))

WalkUp(w, up) ==
  IF up.st # "OK" THEN WalkFails(w, up.s, up.st)
  ELSE [w EXCEPT !.s = up.s, !.cur = up.out, !.rest = Tail(@)]

\* One round of the loop.
WalkStep(w, p) ==
  LET c == Head(w.rest)
  IN  IF w.s.node[w.cur].type # "DIR" THEN WalkFails(w, w.s, "NOTDIR")
      ELSE IF w.stop /\ Len(w.rest) = 1 THEN [w EXCEPT !.name = c, !.done = TRUE]
      ELSE IF c = "." THEN [w EXCEPT !.rest = Tail(@)]
      ELSE IF c = ".." THEN WalkUp(w, ComponentParent(w.s, w.cur))
      ELSE WalkDown(w, p, OpLookup(w.s, w.cur, c))

RECURSIVE WalkLoop(_, _)
WalkLoop(w, p) == IF w.done \/ w.rest = <<>> THEN w ELSE WalkLoop(WalkStep(w, p), p)

\* What the walk found: the node, and the last component if it stopped there.
Found(w) == [s |-> w.s, st |-> w.st, out |-> w.cur, name |-> w.name]

VfsLookupAt(s, p, base, path) ==
  Found(WalkLoop(WalkStart(s, p, base, path, 0, FALSE), p))

VfsLookup(s, p, path) == VfsLookupAt(s, p, NULL, path)

\* out is the directory, name the last component.
VfsLookupParentAt(s, p, base, path) ==
  Found(WalkLoop(WalkStart(s, p, base, path, 0, TRUE), p))

VfsLookupParent(s, p, path) == VfsLookupParentAt(s, p, NULL, path)

\* A path without a last component is refused.
NamedEntry(r) ==
  IF r.st = "OK" /\ r.name = NULL
  THEN [r EXCEPT !.s = VfsVnodeRelease(@, r.out), !.st = "INVALID_ARG",
                 !.out = NULL]
  ELSE r

LookupParentEntry(s, p, path) == NamedEntry(VfsLookupParent(s, p, path))

\* The result of an operation in directory d, whose reference is given back.
Leaving(d, r) == Ret(VfsVnodeRelease(r.s, d), r.st, r.out)

LookupChildNoFollow(s, p, path) ==
  AndThen(LookupParentEntry(s, p, path),
          LAMBDA e : Leaving(e.out, OpLookup(e.s, e.out, e.name)))

-----------------------------------------------------------------------------
(* The operations that read or change the tree, with the system calls that  *)
(* are a path lookup around them (src/kernel/kernel/syscalls).  Each takes   *)
(* the state s and the calling process p.                                   *)

\* vnode_owning_mount: climbs to the root of the file system.
RECURSIVE ClimbToMount(_, _, _)
ClimbToMount(s, n, depth) ==
  LET r == OpParent(s, n)
  IN  IF depth = 0 THEN Ret(VfsVnodeRelease(s, n), "LOOP", NULL)
      ELSE IF n = RootNode(s) THEN Ret(VfsVnodeRelease(s, n), "OK", s.rootm)
      ELSE IF IsMountRoot(s, n)
           THEN Ret(VfsVnodeRelease(s, n), "OK", s.node[n].mount)
      ELSE IF r.out = n
           THEN Ret(VfsVnodeRelease(VfsVnodeRelease(r.s, n), n), "NOENT", NULL)
      ELSE ClimbToMount(VfsVnodeRelease(r.s, n), r.out, depth - 1)

VnodeOwningMount(s, n) == ClimbToMount(VfsVnodeBorrow(s, n), n, ParentMaxDepth)

\* getcwd_step_to_parent.  out is the parent, name the component in front.
GetcwdStepToParent(s, n) ==
  LET m  == s.node[n].mount
      up == IF s.mnt[m].parent = NULL THEN s.rootm ELSE s.mnt[m].parent
      v  == IF IsMountRoot(s, n) THEN s.mnt[m].point ELSE n
      r  == OpParent(s, v)
  IN  IF IsMountRoot(s, n) /\ v = s.mnt[up].root
      THEN [s |-> VfsVnodeRelease(VfsVnodeBorrow(s, v), n), st |-> "OK",
            out |-> v, name |-> NULL]
      ELSE IF r.out = v
           THEN [s |-> VfsVnodeRelease(r.s, v), st |-> "NOENT", out |-> n,
                 name |-> NULL]
      ELSE [s |-> VfsVnodeRelease(r.s, n), st |-> "OK", out |-> r.out,
            name |-> OpName(s, v)]

\* The loop of vfs_getcwd.  Names have one letter, so a component takes two
\* of the `room` bytes left in the buffer.
RECURSIVE GetcwdLoop(_, _, _, _, _)
GetcwdLoop(s, n, comps, room, depth) ==
  LET r    == GetcwdStepToParent(s, n)
      done == VfsVnodeRelease(s, n)
  IN  IF depth = 0 THEN Ret(done, "LOOP", NULL)
      ELSE IF n = RootNode(s)
           THEN IF comps = <<>> /\ room = 0 THEN Ret(done, "RANGE", NULL)
                ELSE Ret(done, "OK", Path(TRUE, comps))
      ELSE IF r.st # "OK" THEN Ret(VfsVnodeRelease(r.s, n), r.st, NULL)
      ELSE IF r.name = NULL THEN GetcwdLoop(r.s, r.out, comps, room, depth - 1)
      ELSE IF room < 2
           \* getcwd_prepend_component fails: the step is taken back
           THEN Ret(VfsVnodeRelease(r.s, r.out), "RANGE", NULL)
      ELSE GetcwdLoop(r.s, r.out, <<r.name>> \o comps, room - 2, depth - 1)

VfsGetcwd(s, n, len) ==
  LET from == IF n = NULL THEN RootNode(s) ELSE n
  IN  IF len = 0 THEN Ret(s, "RANGE", NULL)
      ELSE IF s.rootm = NULL THEN Ret(s, "NOENT", NULL)
      ELSE GetcwdLoop(VfsVnodeBorrow(s, from), from, <<>>, len - 1, ParentMaxDepth)

-----------------------------------------------------------------------------
(* Changes.                                                                *)

DirMutationAllowed(s, d) == IF s.node[d].type # "DIR" THEN "NOTDIR" ELSE "OK"

\* vfs_create; the caller owns a reference to the new node.
VfsCreate(s, d, name) ==
  IF DirMutationAllowed(s, d) # "OK" THEN Ret(s, DirMutationAllowed(s, d), NULL)
  ELSE OpCreateFile(s, d, name)

\* vfs_mkdir with out = NULL: return_created_ref gives the reference back.
VfsMkdir(s, d, name) ==
  LET r == OpCreateDir(s, d, name)
  IN  IF DirMutationAllowed(s, d) # "OK" THEN Ret(s, DirMutationAllowed(s, d), NULL)
      ELSE Ret(VfsVnodeRelease(r.s, r.out), r.st, NULL)

\* remove_child, for vfs_unlink and vfs_rmdir.  The entry is looked up
\* without crossing mounts.
RemoveChild(s, d, name, dir) ==
  LET t == OpLookup(s, d, name)
      r == IF dir THEN OpRmdir(t.s, d, name) ELSE OpUnlink(t.s, d, name)
      u == [r.s EXCEPT !.node[t.out].links = IF @ > 0 THEN @ - 1 ELSE @]
  IN  IF DirMutationAllowed(s, d) # "OK" THEN Ret(s, DirMutationAllowed(s, d), NULL)
      ELSE IF t.st # "OK" THEN Ret(s, t.st, NULL)
      ELSE IF dir /\ t.s.node[t.out].type # "DIR"
           THEN Ret(VfsVnodeRelease(t.s, t.out), "NOTDIR", NULL)
      ELSE IF ~dir /\ t.s.node[t.out].type = "DIR"
           THEN Ret(VfsVnodeRelease(t.s, t.out), "ISDIR", NULL)
      ELSE IF r.st # "OK" THEN Ret(VfsVnodeRelease(r.s, t.out), r.st, NULL)
      ELSE Ret(VfsVnodeRelease(u, t.out), "OK", NULL)

VfsUnlink(s, d, name) == RemoveChild(s, d, name, FALSE)

VfsRmdir(s, d, name) == RemoveChild(s, d, name, TRUE)

\* vfs_link from its cleanup backwards: target n, entry e, mounts tm and pm of
\* the target and of the directory of the entry, result l of the link itself.
LinkCleanup(s, d, n, st) ==
  Ret(VfsVnodeRelease(VfsVnodeRelease(s, d), n), st, NULL)

LinkMade(l, d, n) ==
  IF l.st # "OK" THEN LinkCleanup(l.s, d, n, l.st)
  ELSE LinkCleanup([l.s EXCEPT !.node[n].links = @ + 1], d, n, "OK")

LinkOnMounts(tm, pm, e, n) ==
  IF tm.st # "OK" THEN LinkCleanup(tm.s, e.out, n, tm.st)
  ELSE IF pm.st # "OK" THEN LinkCleanup(pm.s, e.out, n, pm.st)
  ELSE IF tm.out # pm.out THEN LinkCleanup(pm.s, e.out, n, "XDEV")
  ELSE IF ~Initrd(pm.s, e.out) THEN LinkCleanup(pm.s, e.out, n, "NOT_IMPLEMENTED")
  ELSE LinkMade(InitrdLink(pm.s, e.out, e.name, n), e.out, n)

LinkEntry(e, n) ==
  LET tm == VnodeOwningMount(e.s, n)
  IN  IF e.st # "OK" THEN LinkCleanup(e.s, NULL, n, e.st)
      ELSE IF DirMutationAllowed(e.s, e.out) # "OK"
           THEN LinkCleanup(e.s, e.out, n, DirMutationAllowed(e.s, e.out))
      ELSE LinkOnMounts(tm, VnodeOwningMount(tm.s, e.out), e, n)

LinkTarget(t, p, new) ==
  LET type == t.s.node[t.out].type
  IN  IF type = "FILE" THEN LinkEntry(LookupParentEntry(t.s, p, new), t.out)
      ELSE LinkCleanup(t.s, NULL, t.out,
                       IF type = "DIR" THEN "ISDIR" ELSE "INVALID_ARG")

VfsLink(s, p, old, new) ==
  AndThen(VfsLookup(s, p, old), LAMBDA t : LinkTarget(t, p, new))

VfsSymlink(s, p, text, path) ==
  AndThen(LookupParentEntry(s, p, path),
          LAMBDA e : LET r == OpSymlink(e.s, e.out, e.name, text)
                     IN  Ret(VfsVnodeRelease(VfsVnodeRelease(r.s, r.out), e.out),
                             r.st, NULL))

VfsReadlink(s, p, path) ==
  AndThen(LookupChildNoFollow(s, p, path),
          LAMBDA r : LET ok == r.s.node[r.out].type = "SYMLINK"
                     IN  Ret(VfsVnodeRelease(r.s, r.out),
                             IF ok THEN "OK" ELSE "INVALID_ARG",
                             IF ok THEN OpReadlink(r.s, r.out) ELSE NULL))

\* vfs_stat: the type and the link count are what the models look at.
StatVnode(s, n) == [type |-> s.node[n].type, links |-> s.node[n].links]

Stated(r) == Ret(VfsVnodeRelease(r.s, r.out), "OK", StatVnode(r.s, r.out))

VfsStat(s, p, path) == AndThen(VfsLookup(s, p, path), Stated)

VfsLstat(s, p, path) ==
  AndThen(IF path.abs /\ path.comps = <<>> THEN VfsLookup(s, p, path)
          ELSE LookupChildNoFollow(s, p, path), Stated)

-----------------------------------------------------------------------------
(* System calls.  Arguments are checked and copied, which changes nothing  *)
(* and is left out.                                                        *)

SyscallLookupParentForChild(s, p, path) == LookupParentEntry(s, p, path)

SyscallMkdir(s, p, path) ==
  AndThen(SyscallLookupParentForChild(s, p, path),
          LAMBDA e : Leaving(e.out, VfsMkdir(e.s, e.out, e.name)))

SyscallUnlink(s, p, path) ==
  AndThen(SyscallLookupParentForChild(s, p, path),
          LAMBDA e : Leaving(e.out, VfsUnlink(e.s, e.out, e.name)))

SyscallRmdir(s, p, path) ==
  AndThen(SyscallLookupParentForChild(s, p, path),
          LAMBDA e : Leaving(e.out, VfsRmdir(e.s, e.out, e.name)))

SyscallLink(s, p, old, new) == VfsLink(s, p, old, new)

SyscallSymlink(s, p, text, path) == VfsSymlink(s, p, text, path)

SyscallReadlink(s, p, path) == VfsReadlink(s, p, path)

SyscallStat(s, p, path) == VfsStat(s, p, path)

SyscallLstat(s, p, path) == VfsLstat(s, p, path)

SyscallGetcwd(s, p, len) == VfsGetcwd(s, s.cwd[p], len)

ChdirTo(r, p) ==
  IF r.s.node[r.out].type # "DIR"
  THEN Ret(VfsVnodeRelease(r.s, r.out), "NOTDIR", NULL)
  ELSE Ret(VfsVnodeRelease(ProcSetCwd(r.s, p, r.out), r.out), "OK", NULL)

SyscallChdir(s, p, path) ==
  AndThen(VfsLookup(s, p, path), LAMBDA r : ChdirTo(r, p))
=============================================================================
