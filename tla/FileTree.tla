------------------------------ MODULE FileTree ------------------------------
(***************************************************************************)
(* What the system calls see of the virtual file system (virtual-fs/src/   *)
(* vfs.rs): a table of nodes, as a value, and operations on it.  Module    *)
(* Vfs has the blocks below it; here memory does not run out, and a file   *)
(* is its bytes.                                                           *)
(*                                                                         *)
(* A path is the sequence of its components, and a component that of its   *)
(* letters, for buffers cut paths and names anywhere.  The name of an      *)
(* entry is a path, too: mkdir takes a name with slashes in it, which no   *)
(* path then finds, and the empty name.                                    *)
(***************************************************************************)
EXTENDS Integers, Sequences, FiniteSets, SequencesExt

Root == 0
NoNode == -1

DirNode == [kind |-> "dir", entries |-> <<>>, data |-> <<>>]
FileNode == [kind |-> "file", entries |-> <<>>, data |-> <<>>]
EntryFor(name, node) == [name |-> name, node |-> node]

(* The bytes up to the end of each of some parts of these sizes.           *)
Ends(sizes) ==
  LET end[k \in 0 .. Len(sizes)] == IF k = 0 THEN 0 ELSE end[k - 1] + sizes[k]
  IN  end
Total(sizes) == Ends(sizes)[Len(sizes)]

(* A component is written after a slash.                                   *)
Sizes(path) == [k \in DOMAIN path |-> 1 + Len(path[k])]
Bytes(path) == Total(Sizes(path))

(* What is left of a path in a buffer of n bytes; a slash at the end is    *)
(* none of it.                                                             *)
FirstOf(component, n) == IF n < Len(component) THEN SubSeq(component, 1, n) ELSE component
Begins(path, k) == Ends(Sizes(path))[k - 1] + 1
CutTo(path, n) ==
  [k \in { j \in DOMAIN path : Begins(path, j) < n } |->
     FirstOf(path[k], n - Begins(path, k))]

(* The tree with this node, entered last in directory d.                   *)
Size(t) == Cardinality(DOMAIN t)
WithNode(t, d, name, node) ==
  [i \in 0 .. Size(t) |->
     IF i = Size(t) THEN node
     ELSE IF i = d THEN [t[d] EXCEPT !.entries = Append(@, EntryFor(name, Size(t)))]
     ELSE t[i]]

EntryNames(t, d) == { e.name : e \in Range(t[d].entries) }
IsDir(t, i) == i # NoNode /\ t[i].kind = "dir"
IsFile(t, i) == i # NoNode /\ t[i].kind = "file"

Place(entries, name) == SelectInSeq(entries, LAMBDA e : e.name = name)
Find(t, d, component) ==
  IF <<component>> \in EntryNames(t, d)
  THEN t[d].entries[Place(t[d].entries, <<component>>)].node
  ELSE NoNode

(* resolve_path.                                                           *)
Resolve(t, path) ==
  LET at[k \in 0 .. Len(path)] ==
        IF k = 0 THEN Root
        ELSE IF IsDir(t, at[k - 1]) THEN Find(t, at[k - 1], path[k])
        ELSE NoNode
  IN  at[Len(path)]

(* split_path of the kernel: the path above, and the last component or the *)
(* empty name.                                                             *)
Above(path) == IF path = <<>> THEN <<>> ELSE Front(path)
NameOf(path) == IF path = <<>> THEN <<>> ELSE <<Last(path)>>

(* A name that is taken is entered a second time.                          *)
AddTo_Twice(t, d, name, node) ==
  IF IsDir(t, d) THEN [ok |-> TRUE, tree |-> WithNode(t, d, name, node)]
  ELSE [ok |-> FALSE, tree |-> t]

(* mkdir and create_file.                                                  *)
AddTo(t, d, name, node) ==
  IF IsDir(t, d) /\ name \notin EntryNames(t, d)
  THEN [ok |-> TRUE, tree |-> WithNode(t, d, name, node)]
  ELSE [ok |-> FALSE, tree |-> t]
AddNode(t, path, name, node) == AddTo(t, Resolve(t, path), name, node)

(* remove_node, recursive: the node's entry goes, and with it what is      *)
(* below; the table keeps all nodes.                                       *)
Without(entries, name) == RemoveFirstMatch(entries, LAMBDA e : e.name = name)
RemoveNode(t, path) ==
  IF path = <<>> \/ Resolve(t, path) = NoNode THEN [ok |-> FALSE, tree |-> t]
  ELSE [ok |-> TRUE,
        tree |-> [t EXCEPT ![Resolve(t, Above(path))].entries =
                    Without(@, NameOf(path))]]

WriteNode(t, i, data) ==
  IF IsFile(t, i) THEN [ok |-> TRUE, tree |-> [t EXCEPT ![i].data = data]]
  ELSE [ok |-> FALSE, tree |-> t]

(* What a tree is: no directory has a name twice, no node is entered twice *)
(* anywhere, and below the root a name is one component.                   *)
NodeType(components, bytes) ==
  [kind : {"dir", "file"}, data : Seq(bytes),
   entries : Seq([name : Seq(components), node : Nat])]
EntryAt(t, i, k) == t[i].entries[k]
IsTree(t, components, bytes) ==
  /\ Size(t) \in Nat \ {0}
  /\ t \in [0 .. Size(t) - 1 -> NodeType(components, bytes)] /\ t[Root].kind = "dir"
  /\ \A i \in DOMAIN t : t[i].kind = "file" => t[i].entries = <<>>
  /\ \A i \in DOMAIN t : \A k \in DOMAIN t[i].entries :
       /\ EntryAt(t, i, k).node \in DOMAIN t \ {Root}
       /\ i # Root => Len(EntryAt(t, i, k).name) = 1
  /\ \A i, j \in DOMAIN t :
       \A k \in DOMAIN t[i].entries, l \in DOMAIN t[j].entries :
         \/ EntryAt(t, i, k).node = EntryAt(t, j, l).node
         \/ i = j /\ EntryAt(t, i, k).name = EntryAt(t, i, l).name
         => i = j /\ k = l
=============================================================================
