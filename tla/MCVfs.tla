-------------------------------- MODULE MCVfs -------------------------------
(***************************************************************************)
(* The virtual file system for TLC.  A behaviour is in one of four         *)
(* scenarios, chosen at the start, which differ in what the system calls   *)
(* are given:                                                              *)
(*   tree     directories, symbolic links and working directories          *)
(*   files    files, hard links and the descriptors of two processes       *)
(*   mounts   a second tree mounted on and taken off a directory           *)
(*   exec     handles that are closed by execve                            *)
(* Only absolute names are created.                                        *)
(***************************************************************************)
EXTENDS Vfs

Nothing ==
  [users |-> {"p"}, nodes |-> 7, files |-> 1, fds |-> 1, devices |-> {}, aux |-> FALSE,
   mkdir |-> {}, rmdir |-> {}, unlink |-> {}, link |-> {}, symlink |-> {},
   chdir |-> {}, open |-> {}, mount |-> {}, dup2 |-> {<<0, 0>>}]

A == Path(TRUE, <<"a">>)
B == Path(TRUE, <<"b">>)
AB == Path(TRUE, <<"a", "b">>)
DevA == Path(TRUE, <<"dev", "a">>)
Up == Path(FALSE, <<"..">>)
Rel(n) == Path(FALSE, <<n>>)
Root == Path(TRUE, <<>>)

\* Directories, symbolic links and working directories.
TreeArgs ==
  [Nothing EXCEPT !.mkdir = {A, AB}, !.rmdir = {A, AB, DevA, Rel("b")},
               !.unlink = {A, B, Rel("a")},
               !.symlink = {<<Rel("a"), B>>, <<Path(FALSE, <<"..", "b">>), DevA>>,
                            <<Path(FALSE, <<"..", "b">>), AB>>},
               !.chdir = {A, B, Up, Rel("b"), Root, Path(TRUE, <<"dev">>),
                          Path(TRUE, <<"b", "b">>), Path(TRUE, <<"dev", "a">>)}]

\* Files, hard links and descriptors of two processes.
FilesArgs ==
  [Nothing EXCEPT !.users = {"p", "q"}, !.nodes = 6, !.files = 3, !.fds = 2,
               !.devices = {"tty0"},
               !.dup2 = (0 .. 1) \X (0 .. 1), !.unlink = {A, B}, !.link = {<<A, B>>},
               !.open = {[path |-> A, acc |-> "RDWR", opts |-> {"CREATE"}],
                         [path |-> B, acc |-> "RDONLY", opts |-> {}]}]

\* A second tree mounted on and taken off a directory.
MountArgs ==
  [Nothing EXCEPT !.aux = TRUE, !.files = 2, !.mkdir = {A, AB, DevA}, !.rmdir = {A, AB, DevA},
               !.mount = {A, Path(TRUE, <<"dev">>)},
               !.chdir = {A, AB, Up, Path(TRUE, <<"a", "..", "a">>)},
               !.open = {[path |-> A, acc |-> "RDONLY", opts |-> {"DIRECTORY"}]}]

\* Handles that are closed by execve, shared by fork but not by dup2.
ExecArgs ==
  [Nothing EXCEPT !.users = {"p", "q"}, !.nodes = 6, !.files = 3, !.fds = 2,
               !.devices = {"tty0"}, !.unlink = {A},
               !.open = {[path |-> A, acc |-> "RDWR", opts |-> {"CREATE", "CLOEXEC"}],
                         [path |-> A, acc |-> "RDONLY", opts |-> {}]}]

AllScenarios == {TreeArgs, FilesArgs, MountArgs, ExecArgs}

-----------------------------------------------------------------------------
\* Nodes and files count their users and names exactly, and are freed when, and
\* only when, they have neither, over every path through open, dup2, fork,
\* close, execve, exit, link, unlink, rmdir, mount and unmount.
CountsExact ==
  /\ args = TreeArgs => NodeRefsExact /\ LinksExact /\ FreedExactly
  /\ args = FilesArgs => /\ NodeRefsExact /\ FileRefsExact
                       /\ LinksExact /\ FreedExactly
  /\ args = MountArgs => NodeRefsExact /\ FreedExactly
  /\ args = ExecArgs => NodeRefsExact /\ FileRefsExact /\ FreedExactly

\* getcwd's answer leads back to the working directory, walk_path finds what
\* resolving links one by one finds, and a call that fails changes nothing.
LookupsExact ==
  args = TreeArgs => CwdRoundTrip /\ LookupFollowsLinks /\ FailuresChangeNothing

\* close and execve take away the descriptors they should and no others, also
\* when several share a handle.
DescriptorsExact ==
  [][/\ args = FilesArgs => CloseClosesOne
     /\ args = ExecArgs => ExecKeepsTheRest]_vars
=============================================================================
