------------------------------ MODULE Syscalls ------------------------------
(***************************************************************************)
(* The file calls of the system call handler (kernel-x86/src/syscall.rs)   *)
(* as operators: each takes the file system with the descriptor table and  *)
(* gives back what it made of them, sys, and what it returned.             *)
(*                                                                         *)
(* A read gives bytes, of a file or of the text of a directory: a line for *)
(* each entry.  A byte of such a text stands for itself by the text and    *)
(* its place in it.  Interrupts are masked in a call: each is one step.    *)
(***************************************************************************)
EXTENDS FileTree

CONSTANT Fds   \* the descriptors that are given out, 3 .. 15 in the code

ASSUME FdsAssumption == Fds \subseteq Nat \ 0 .. 2 /\ Fds # {}

Failed == -1     \* u64::MAX
TableFull == -2  \* u64::MAX - 2
Closed == [open |-> FALSE, path |-> <<>>, offset |-> 0]
File(path, offset) == [open |-> TRUE, path |-> path, offset |-> offset]
Sys(tree, fds) == [tree |-> tree, fds |-> fds]
SetFd(s, fd, file) == Sys(s.tree, [s.fds EXCEPT ![fd] = file])
IsOpen(s, fd) == fd \in Fds /\ s.fds[fd].open

Smallest(S) == CHOOSE x \in S : \A y \in S : x <= y
Returns(s, ret) == [sys |-> s, ret |-> ret, data |-> <<>>]

(* The directory above is made first, in the root and under the whole of   *)
(* its path as a name: for a path of two components this is its parent,    *)
(* for a longer one it is a directory no path leads to.                    *)
MakeAbove(t, path) ==
  IF Above(path) = <<>> THEN t ELSE AddNode(t, <<>>, Above(path), DirNode).tree

(* SYS_OPEN, which does not look at its flags: what is not there is        *)
(* created.                                                                *)
Created(t, path) ==
  IF Resolve(t, path) # NoNode THEN t
  ELSE AddNode(MakeAbove(t, path), Above(path), NameOf(path), FileNode).tree
TakeFd(s, path, unused) ==
  IF Resolve(s.tree, path) = NoNode THEN Returns(s, Failed)
  ELSE IF unused = {} THEN Returns(s, TableFull)
  ELSE Returns(SetFd(s, Smallest(unused), File(path, 0)), Smallest(unused))
SysOpen(s, path) ==
  TakeFd(Sys(Created(s.tree, path), s.fds), path, { fd \in Fds : ~s.fds[fd].open })

(* The lines of a directory, in the order of its entries: the name, a      *)
(* slash if it is a directory's, and the end of the line.                  *)
Line(t, e) == [name |-> e.name, dir |-> IsDir(t, e.node)]
Lines(t, i) == [k \in DOMAIN t[i].entries |-> Line(t, t[i].entries[k])]
NameBytes(name) == IF name = <<>> THEN 0 ELSE Bytes(name) - 1
LineBytes(line) == NameBytes(line.name) + (IF line.dir THEN 2 ELSE 1)
LineEnds(lines) == Ends([k \in DOMAIN lines |-> LineBytes(lines[k])])

Content(t, i) ==
  IF IsDir(t, i)
  THEN [n \in 1 .. LineEnds(Lines(t, i))[Len(t[i].entries)] |->
          [text |-> Lines(t, i), at |-> n]]
  ELSE t[i].data

(* SYS_READ.                                                               *)
ReadFrom(s, fd, file, all, end) ==
  IF file.offset >= Len(all) THEN Returns(s, 0)
  ELSE [sys |-> SetFd(s, fd, File(file.path, end)),
        ret |-> end - file.offset,
        data |-> SubSeq(all, file.offset + 1, end)]
ReadNode(s, fd, file, all, len) ==
  ReadFrom(s, fd, file, all,
           IF file.offset + len < Len(all) THEN file.offset + len ELSE Len(all))
SysRead(s, fd, len) ==
  IF ~IsOpen(s, fd) \/ Resolve(s.tree, s.fds[fd].path) = NoNode THEN Returns(s, Failed)
  ELSE ReadNode(s, fd, s.fds[fd], Content(s.tree, Resolve(s.tree, s.fds[fd].path)), len)

(* SYS_WRITE: all of the file is read, spliced, padded and written back; a *)
(* read that fails gives no bytes.                                         *)
Splice(old, offset, data) ==
  [k \in 1 .. (IF Len(old) > offset + Len(data) THEN Len(old) ELSE offset + Len(data)) |->
     IF k \in offset + 1 .. offset + Len(data) THEN data[k - offset]
     ELSE IF k <= Len(old) THEN old[k] ELSE 0]

WriteInto(s, fd, file, i, data) ==
  LET old == IF IsFile(s.tree, i) THEN s.tree[i].data ELSE <<>>
      w == WriteNode(s.tree, i, Splice(old, file.offset, data))
  IN  IF ~w.ok THEN Returns(s, Failed)
      ELSE Returns(SetFd(Sys(w.tree, s.fds), fd, File(file.path, file.offset + Len(data))),
                   Len(data))
SysWrite(s, fd, data) ==
  IF data = <<>> THEN Returns(s, 0)
  ELSE IF ~IsOpen(s, fd) THEN Returns(s, Failed)
  ELSE WriteInto(s, fd, s.fds[fd], Resolve(s.tree, s.fds[fd].path), data)

(* SYS_CLOSE.                                                              *)
SysClose(s, fd) ==
  IF IsOpen(s, fd) THEN Returns(SetFd(s, fd, Closed), 0)
  ELSE Returns(s, Failed)

(* SYS_MKDIR.                                                              *)
Changed(s, done) == Returns(Sys(done.tree, s.fds), IF done.ok THEN 0 ELSE Failed)
SysMkdir(s, path) ==
  Changed(s, AddNode(MakeAbove(s.tree, path), Above(path), NameOf(path), DirNode))

(* SYS_REMOVE.                                                             *)
SysRemove(s, path) == Changed(s, RemoveNode(s.tree, path))
=============================================================================
