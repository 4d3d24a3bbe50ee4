--------------------------------- MODULE Vfs ---------------------------------
(***************************************************************************)
(* The virtual file system over SECDED page frames (virtual-fs/src/vfs.rs  *)
(* and inode.rs).  Its operations run to completion, each an action here;  *)
(* between them bits flip and the kernel's scrubber sweeps.                *)
(*                                                                         *)
(* A path is the sequence of its components.  A call that returns an error *)
(* and changes nothing is a stuttering step and has no action.             *)
(***************************************************************************)
EXTENDS Scrubber, Sequences, FiniteSets

CONSTANTS
  Names,      \* names of files and directories
  Data,       \* what is written to files: sequences of bytes
  MaxInodes,  \* bound: inodes ever created, the root included
  MaxDepth,   \* bound: components of a path
  MaxFlips    \* bound: bit flips

ASSUME VfsAssumption ==
  /\ Data \subseteq Seq(Byte)
  /\ MaxInodes \in Nat \ {0} /\ MaxDepth \in Nat /\ MaxFlips \in Nat

FilePid == 0      \* the PID file blocks are allocated under
Root == 0
NoInode == -1
Paths == UNION { [1 .. n -> Names] : n \in 0 .. MaxDepth }

VARIABLES
  mem,      \* the allocator and its frames
  inodes,   \* the inode table; no inode is ever taken out of it
  written,  \* history: written[i], what was last written to file i
  astray,   \* history: the file system has lost track of some frame
  lossy,    \* history: some word has been uncorrectable
  flips     \* bit flips so far

vars == <<mem, inodes, written, astray, lossy, flips>>

Directory(name) ==
  [kind |-> "dir", name |-> name, entries |-> {}, blocks |-> <<>>, size |-> 0]
File(name) ==
  [kind |-> "file", name |-> name, entries |-> {}, blocks |-> <<>>, size |-> 0]

NoName == "root"

Init ==
  /\ mem = [status |-> [f \in Frame |-> 0],
            owner  |-> [f \in Frame |-> NoOwner],
            cells  |-> [f \in Frame |-> BlankPage]]
  /\ inodes = [i \in {Root} |-> Directory(NoName)]
  /\ written = [i \in {Root} |-> <<>>]
  /\ astray = FALSE /\ lossy = FALSE /\ flips = 0
-----------------------------------------------------------------------------
IsDirectory(i) == inodes[i].kind = "dir"
IsFile(i) == inodes[i].kind = "file"

(* The entry of that name in directory d, which may have none.             *)
Lookup(d, name) ==
  IF \E e \in inodes[d].entries : e[1] = name
  THEN (CHOOSE e \in inodes[d].entries : e[1] = name)[2]
  ELSE NoInode

(* resolve_path; NoInode is its Err.                                       *)
Resolve(path) ==
  LET at[k \in 0 .. Len(path)] ==
        IF k = 0 THEN Root
        ELSE IF at[k - 1] = NoInode THEN NoInode
        ELSE IF ~IsDirectory(at[k - 1]) THEN NoInode
        ELSE Lookup(at[k - 1], path[k])
  IN  at[Len(path)]

Parent(path) == SubSeq(path, 1, Len(path) - 1)
Base(path) == path[Len(path)]

Children(S) == { e[2] : e \in UNION { inodes[i].entries : i \in S } }

(* Inode i and everything below it.                                        *)
Below(i) ==
  LET reach[n \in 0 .. MaxInodes] ==
        IF n = 0 THEN {i} ELSE reach[n - 1] \cup Children(reach[n - 1])
  IN  reach[MaxInodes]

Linked == Below(Root)
LinkedFiles == { i \in Linked : IsFile(i) }

(* The table and the history with one more inode, entered in directory d.  *)
NextInode == Cardinality(DOMAIN inodes)
WithInode(d, node) ==
  [i \in 0 .. NextInode |->
     IF i = NextInode THEN node
     ELSE IF i = d
          THEN [inodes[d] EXCEPT !.entries = @ \cup {<<node.name, NextInode>>}]
          ELSE inodes[i]]
WithHistory(data) ==
  [i \in 0 .. NextInode |-> IF i = NextInode THEN data ELSE written[i]]

CanCreate(path, name) ==
  /\ Resolve(path) # NoInode
  /\ IsDirectory(Resolve(path))
  /\ Lookup(Resolve(path), name) = NoInode

CreateNode(path, node) ==
  /\ CanCreate(path, node.name) /\ NextInode < MaxInodes
  /\ inodes' = WithInode(Resolve(path), node)
  /\ written' = WithHistory(<<>>)
  /\ UNCHANGED <<mem, astray, lossy, flips>>

Mkdir(path, name) == CreateNode(path, Directory(name))
CreateFile(path, name) == CreateNode(path, File(name))
-----------------------------------------------------------------------------
FreeAll(m, S) == [m EXCEPT !.owner = [f \in Frame |-> IF f \in S THEN NoOwner ELSE @[f]]]
BlockSet(node) == { node.blocks[k] : k \in 1 .. Len(node.blocks) }

(* One page of data, zero-padded, written to frame f.                      *)
FillPage(m, f, data, start) ==
  [m EXCEPT !.cells[f] = [o \in Offset |->
     [val |-> IF start + o < Len(data) THEN data[start + o + 1] ELSE 0, noise |-> 0]]]

(* The last, partial block is forgotten.                                   *)
NumBlocks_Floor(data) == IF data = <<>> THEN 1 ELSE Len(data) \div PageSize

NumBlocks(data) ==
  IF data = <<>> THEN 1 ELSE (Len(data) + PageSize - 1) \div PageSize

(* The loop of write_file: allocate a frame, fill it; with no frame left   *)
(* the frames this call has allocated are freed.                           *)
WriteBlocks(m, data) ==
  LET done[k \in 0 .. NumBlocks(data)] ==
        IF k = 0 THEN [ok |-> TRUE, mem |-> m, blocks |-> <<>>]
        ELSE LET w == done[k - 1]
                 f == NextFree(w.mem)
             IN  CASE ~w.ok -> w
                   [] w.ok /\ Available(w.mem) = {} ->
                        [ok |-> FALSE, blocks |-> w.blocks,
                         mem |-> FreeAll(w.mem, BlockSet(w))]
                   [] OTHER ->
                        [ok |-> TRUE, blocks |-> Append(w.blocks, f),
                         mem |-> FillPage(AllocatePage(w.mem, FilePid), f, data,
                                          (k - 1) * PageSize)]
  IN  done[NumBlocks(data)]

(* The old blocks are not given back.                                      *)
FreeOld_Leaks(m, node) == m

(* The old blocks are given back before the new ones are allocated.        *)
FreeOld(m, node) == FreeAll(m, BlockSet(node))

WriteFile(path, data) ==
  LET i == Resolve(path)
      w == WriteBlocks(FreeOld(mem, inodes[i]), data)
  IN  /\ i # NoInode /\ IsFile(i)
      /\ mem' = w.mem
      /\ \/ /\ w.ok
            /\ inodes' = [inodes EXCEPT ![i].blocks = w.blocks, ![i].size = Len(data)]
            /\ written' = [written EXCEPT ![i] = data]
            /\ UNCHANGED astray
         \/ /\ ~w.ok
            /\ astray' = (astray \/ inodes[i].blocks # <<>>)
            /\ UNCHANGED <<inodes, written>>
      /\ UNCHANGED <<lossy, flips>>
-----------------------------------------------------------------------------
(* The block table is not updated when a block has been relocated.         *)
ReadBlocks_NoSwap(m, node) ==
  LET byte[n \in 0 .. node.size] ==
        IF n = 0 THEN [ok |-> TRUE, mem |-> m, blocks |-> node.blocks, data |-> <<>>]
        ELSE LET r == byte[n - 1]
                 k == (n - 1) \div PageSize + 1
                 o == (n - 1) % PageSize
                 read == ReadByte(r.mem, r.blocks[k], o)
                 moved == RelocateAndQuarantine(read, r.blocks[k])
             IN  CASE ~r.ok -> r
                   [] r.ok /\ ~ReadFaults(r.mem, r.blocks[k], o) ->
                        [r EXCEPT !.mem = read,
                                  !.data = Append(@, r.mem.cells[r.blocks[k]][o].val)]
                   [] OTHER ->
                        [r EXCEPT !.ok = moved.ok, !.mem = moved.mem,
                                  !.data = IF moved.ok THEN Append(@, 0) ELSE @]
  IN  byte[node.size]

(* The loop of read_file, byte by byte: a fault relocates the block, swaps *)
(* it in the block table and reads the byte again on the clean new frame,  *)
(* where it is 0; when that fails, so does the call.                       *)
ReadBlocks(m, node) ==
  LET byte[n \in 0 .. node.size] ==
        IF n = 0 THEN [ok |-> TRUE, mem |-> m, blocks |-> node.blocks, data |-> <<>>]
        ELSE LET r == byte[n - 1]
                 k == (n - 1) \div PageSize + 1
                 o == (n - 1) % PageSize
                 read == ReadByte(r.mem, r.blocks[k], o)
                 moved == RelocateAndQuarantine(read, r.blocks[k])
             IN  CASE ~r.ok -> r
                   [] r.ok /\ ~ReadFaults(r.mem, r.blocks[k], o) ->
                        [r EXCEPT !.mem = read,
                                  !.data = Append(@, r.mem.cells[r.blocks[k]][o].val)]
                   [] OTHER ->
                        [ok |-> moved.ok, mem |-> moved.mem,
                         blocks |-> [r.blocks EXCEPT ![k] = moved.frame],
                         data |-> IF moved.ok THEN Append(r.data, 0) ELSE r.data]
  IN  byte[node.size]

(* The swapped block table is committed only when every byte was read.     *)
ReadFile(path) ==
  LET i == Resolve(path)
      r == ReadBlocks(mem, inodes[i])
  IN  /\ i # NoInode /\ IsFile(i)
      /\ mem' = r.mem
      /\ \/ r.ok /\ inodes' = [inodes EXCEPT ![i].blocks = r.blocks] /\ UNCHANGED astray
         \/ ~r.ok /\ astray' = TRUE /\ UNCHANGED inodes
      /\ UNCHANGED <<written, lossy, flips>>

(* copy_file: read the source, create the copy, write it; a copy that      *)
(* cannot be written leaves an empty file.  With a read that fails, or a   *)
(* copy that cannot be created, the call is a ReadFile.                    *)
CopyFile(path, to, name) ==
  LET i == Resolve(path)
      r == ReadBlocks(mem, inodes[i])
      w == WriteBlocks(r.mem, r.data)
      copied == IF w.ok
                THEN [File(name) EXCEPT !.blocks = w.blocks, !.size = Len(r.data)]
                ELSE File(name)
  IN  /\ i # NoInode /\ IsFile(i) /\ r.ok
      /\ CanCreate(to, name) /\ NextInode < MaxInodes
      /\ mem' = w.mem
      /\ inodes' = [WithInode(Resolve(to), copied) EXCEPT ![i].blocks = r.blocks]
      /\ written' = WithHistory(IF w.ok THEN r.data ELSE <<>>)
      /\ UNCHANGED <<astray, lossy, flips>>
-----------------------------------------------------------------------------
Without(d, name) == [inodes EXCEPT ![d].entries = { e \in @ : e[1] # name }]

(* Only the node itself is freed, not what is below it.                    *)
Freed_Shallow(i) == BlockSet(inodes[i])

(* The frames deallocate_inode_recursive gives back.                       *)
Freed(i) == UNION { BlockSet(inodes[j]) : j \in Below(i) }

RemoveNode(path, recursive) ==
  LET i == Resolve(path)
  IN  /\ path # <<>> /\ i # NoInode
      /\ recursive \/ inodes[i].entries = {}
      /\ mem' = FreeAll(mem, Freed(i))
      /\ inodes' = Without(Resolve(Parent(path)), Base(path))
      /\ UNCHANGED <<written, astray, lossy, flips>>

(* The node's own name is forgotten.                                       *)
Moved_KeepsName(i, d, from, name) ==
  [[inodes EXCEPT ![from[1]].entries = { e \in @ : e[1] # from[2] }]
     EXCEPT ![d].entries = @ \cup {<<name, i>>}]

(* The table with inode i's entry from = <<directory, name>> moved to d.   *)
Moved(i, d, from, name) ==
  [[inodes EXCEPT ![from[1]].entries = { e \in @ : e[1] # from[2] }]
     EXCEPT ![d].entries = @ \cup {<<name, i>>}, ![i].name = name]

(* rename_node; nothing keeps a directory from moving below itself.        *)
RenameNode(path, to, name) ==
  LET i == Resolve(path)
      d == Resolve(to)
  IN  /\ path # <<>> /\ i # NoInode
      /\ CanCreate(to, name)
      /\ inodes' = Moved(i, d, <<Resolve(Parent(path)), Base(path)>>, name)
      /\ astray' = (astray \/ d \in Below(i))
      /\ UNCHANGED <<mem, written, lossy, flips>>
-----------------------------------------------------------------------------
InjectFlip(f, o) ==
  /\ flips < MaxFlips
  /\ \E n \in FlipTo(mem, f, o) :
       /\ mem' = InjectBitFlip(mem, f, o, n)
       /\ lossy' = (lossy \/ n = 2)
  /\ flips' = flips + 1
  /\ UNCHANGED <<inodes, written, astray>>

(* The kernel's sweep: a frame it takes from its owner is lost to the file *)
(* system, whose block tables are not told.                                *)
ScrubberSweep ==
  /\ mem' = Sweep(mem)
  /\ astray' = (astray \/ \E f \in Frame : Owned(mem, f) /\ ~Owned(mem', f))
  /\ UNCHANGED <<inodes, written, lossy, flips>>

Next ==
  \/ \E path \in Paths, name \in Names : Mkdir(path, name) \/ CreateFile(path, name)
  \/ \E path \in Paths, data \in Data : WriteFile(path, data)
  \/ \E path \in Paths : ReadFile(path)
  \/ \E path, to \in Paths, name \in Names :
       CopyFile(path, to, name) \/ RenameNode(path, to, name)
  \/ \E path \in Paths, recursive \in BOOLEAN : RemoveNode(path, recursive)
  \/ \E f \in Frame, o \in Offset : InjectFlip(f, o)
  \/ ScrubberSweep

Spec == Init /\ [][Next]_vars
-----------------------------------------------------------------------------
Inode(n) ==
  [kind : {"dir", "file"}, name : Names \cup {NoName},
   entries : SUBSET (Names \X (0 .. n - 1)), blocks : Seq(Frame), size : Nat]

TypeOK ==
  /\ mem \in Memory
  /\ DOMAIN inodes = 0 .. NextInode - 1 /\ DOMAIN written = DOMAIN inodes
  /\ \A i \in DOMAIN inodes :
       /\ inodes[i] \in Inode(NextInode)
       /\ inodes[i].size <= Len(inodes[i].blocks) * PageSize
       /\ written[i] \in Seq(Byte)
  /\ astray \in BOOLEAN /\ lossy \in BOOLEAN /\ flips \in 0 .. MaxFlips

(* Whatever was created, moved and removed, the directories that can be    *)
(* reached form a tree: one entry leads to each node and none to the root, *)
(* names are unique in a directory, files have no entries and each node    *)
(* bears the name it is entered under.  Walks through it end.              *)
Entries == UNION { {d} \X inodes[d].entries : d \in Linked }
TreeIsSound ==
  /\ \A i \in Linked \ {Root} : Cardinality({ x \in Entries : x[2][2] = i }) = 1
  /\ \A x \in Entries :
       /\ x[2][2] # Root /\ IsDirectory(x[1])
       /\ inodes[x[2][2]].name = x[2][1]
  /\ \A x, y \in Entries : x[1] = y[1] /\ x[2][1] = y[2][1] => x = y

(* As long as the file system has not lost track of a frame, the frames    *)
(* the allocation map gives away are exactly the blocks of the files that  *)
(* can be reached, each of one file at one place.                          *)
Blocks == { b \in LinkedFiles \X (1 .. TotalPages) : b[2] <= Len(inodes[b[1]].blocks) }
BlockAt(b) == inodes[b[1]].blocks[b[2]]
FilesOwnTheirBlocks ==
  ~astray =>
    /\ { f \in Frame : Owned(mem, f) } = { BlockAt(b) : b \in Blocks }
    /\ \A b, c \in Blocks : BlockAt(b) = BlockAt(c) => b = c

(* A file that can be reached can be read to its end, unless its relocated *)
(* blocks find no frame, and gives back what was last written to it, a     *)
(* byte of which may be 0 only once some word has been uncorrectable.      *)
ReadsRecover ==
  ~astray => \A i \in LinkedFiles :
    LET r == ReadBlocks(mem, inodes[i])
    IN  IF r.ok
        THEN /\ Len(r.data) = Len(written[i])
             /\ \A n \in 1 .. Len(r.data) :
                  r.data[n] = written[i][n] \/ (lossy /\ r.data[n] = 0)
        ELSE Available(r.mem) = {}

(* A failed write_file stays consistent (vfs.rs line 193): no file that    *)
(* can be reached names a frame that has been given back.                  *)
BlocksAreAllocated == \A b \in Blocks : Owned(mem, BlockAt(b))
=============================================================================
