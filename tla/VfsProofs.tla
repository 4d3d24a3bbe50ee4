------------------------------ MODULE VfsProofs ------------------------------
(***************************************************************************)
(* That the directories of the virtual file system form a tree (Vfs),      *)
(* whatever was created, moved and removed, for every bound.               *)
(***************************************************************************)
EXTENDS Vfs, SequenceTheorems, WellFoundedInduction, FiniteSetTheorems, TLAPS

(* Induction on the members of a set of numbers.                           *)
LEMMA SetInduction ==
  ASSUME NEW T, 0 \in T, \A n \in Nat : n \in T => n + 1 \in T
  PROVE  Nat \subseteq T
<1> SUFFICES ASSUME Nat \ T # {} PROVE FALSE
  OBVIOUS
<1> DEFINE R == OpToRel(<, Nat)
<1>1. \A x, y \in Nat : x < y => <<x, y>> \in R
  BY DEF OpToRel
<1>2. IsWellFoundedOn(R, Nat)
  BY NatLessThanWellFounded
<1> HIDE DEF R
<1>3. PICK x \in Nat \ T : \A y \in Nat \ T : ~(<<y, x>> \in R)
  BY <1>2, WFMin
<1>4. x # 0 /\ x - 1 \in Nat /\ (x - 1) + 1 = x /\ x - 1 < x
  OBVIOUS
<1> QED BY <1>1, <1>3, <1>4

-----------------------------------------------------------------------------
(* The function Below computes with: what n steps down from i lead to.     *)
Reach(i) ==
  CHOOSE reach : reach = [n \in 0 .. MaxInodes |->
    IF n = 0 THEN {i} ELSE reach[n - 1] \cup Children(reach[n - 1])]

LEMMA ReachIs ==
  ASSUME NEW i
  PROVE  /\ Below(i) = Reach(i)[MaxInodes]
         /\ Reach(i)[0] = {i}
         /\ \A n \in 1 .. MaxInodes :
              Reach(i)[n] = Reach(i)[n - 1] \cup Children(Reach(i)[n - 1])
<1> DEFINE Defines(g, m) ==
      g = [n \in 0 .. m |-> IF n = 0 THEN {i} ELSE g[n - 1] \cup Children(g[n - 1])]
           T == { m \in Nat : \E g : Defines(g, m) }
<1>1. 0 \in T
  <2> DEFINE g == [n \in 0 .. 0 |-> {i}]
  <2>1. Defines(g, 0)
    OBVIOUS
  <2> QED BY <2>1
<1>2. ASSUME NEW m \in Nat, m \in T PROVE m + 1 \in T
  <2>1. PICK g : Defines(g, m)
    BY <1>2
  <2> DEFINE h == [n \in 0 .. m + 1 |->
                     IF n = m + 1 THEN g[m] \cup Children(g[m]) ELSE g[n]]
  <2>2. ASSUME NEW n \in 0 .. m + 1
        PROVE  h[n] = IF n = 0 THEN {i} ELSE h[n - 1] \cup Children(h[n - 1])
    <3>1. CASE n = m + 1
      BY <3>1
    <3>2. CASE n \in 0 .. m
      <4>1. h[n] = g[n] /\ (n # 0 => h[n - 1] = g[n - 1])
        BY <3>2
      <4>2. g[n] = IF n = 0 THEN {i} ELSE g[n - 1] \cup Children(g[n - 1])
        BY <2>1, <3>2
      <4> QED BY <4>1, <4>2
    <3> QED BY <3>1, <3>2
  <2>3. h = [n \in 0 .. m + 1 |-> h[n]]
    OBVIOUS
  <2> HIDE DEF h
  <2>4. Defines(h, m + 1)
    BY <2>2, <2>3
  <2> HIDE DEF Defines
  <2>5. (\E f : Defines(f, m + 1)) /\ m + 1 \in Nat
    BY <2>4
  <2> QED BY <2>5
<1> HIDE DEF T
<1>3. MaxInodes \in T /\ MaxInodes \in Nat
  BY <1>1, <1>2, SetInduction, VfsAssumption
<1>4. \E g : Defines(g, MaxInodes)
  BY <1>3 DEF T
<1>5. Defines(Reach(i), MaxInodes)
  BY <1>4 DEF Reach
<1>6. Below(i) = Reach(i)[MaxInodes]
  BY DEF Below, Reach
<1>7. ASSUME NEW n \in 0 .. MaxInodes
      PROVE  Reach(i)[n] = IF n = 0 THEN {i}
                           ELSE Reach(i)[n - 1] \cup Children(Reach(i)[n - 1])
  BY <1>3, <1>5
<1>8. MaxInodes \in Nat
  BY <1>3
<1>9. Reach(i)[0] = {i}
  <2>1. 0 \in 0 .. MaxInodes
    BY <1>8
  <2>2. Reach(i)[0] = IF 0 = 0 THEN {i} ELSE Reach(i)[0 - 1] \cup Children(Reach(i)[0 - 1])
    BY <1>7, <2>1
  <2> QED BY <2>2
<1>10. \A n \in 1 .. MaxInodes :
         Reach(i)[n] = Reach(i)[n - 1] \cup Children(Reach(i)[n - 1])
  <2> TAKE n \in 1 .. MaxInodes
  <2>1. n \in 0 .. MaxInodes /\ n # 0
    BY <1>8
  <2> QED BY <1>7, <2>1
<1> QED BY <1>6, <1>9, <1>10

(* The function Resolve computes with: where the first k components lead.  *)
Walk(path) ==
  CHOOSE at : at = [k \in 0 .. Len(path) |->
    IF k = 0 THEN Root
    ELSE IF at[k - 1] = NoInode THEN NoInode
    ELSE IF ~IsDirectory(at[k - 1]) THEN NoInode
    ELSE Lookup(at[k - 1], path[k])]
Onward(i, name) ==
  IF i = NoInode THEN NoInode ELSE IF ~IsDirectory(i) THEN NoInode ELSE Lookup(i, name)

LEMMA WalkIs ==
  ASSUME NEW path \in Seq(Names)
  PROVE  /\ Resolve(path) = Walk(path)[Len(path)]
         /\ Walk(path)[0] = Root
         /\ \A k \in 1 .. Len(path) : Walk(path)[k] = Onward(Walk(path)[k - 1], path[k])
<1> DEFINE Defines(g, m) ==
      g = [k \in 0 .. m |-> IF k = 0 THEN Root ELSE Onward(g[k - 1], path[k])]
           T == { m \in Nat : \E g : Defines(g, m) }
<1>1. 0 \in T
  <2> DEFINE g == [k \in 0 .. 0 |-> Root]
  <2>1. Defines(g, 0)
    OBVIOUS
  <2> QED BY <2>1
<1>2. ASSUME NEW m \in Nat, m \in T PROVE m + 1 \in T
  <2>1. PICK g : Defines(g, m)
    BY <1>2
  <2> DEFINE h == [k \in 0 .. m + 1 |->
                     IF k = m + 1 THEN Onward(g[m], path[m + 1]) ELSE g[k]]
  <2>2. ASSUME NEW k \in 0 .. m + 1
        PROVE  h[k] = IF k = 0 THEN Root ELSE Onward(h[k - 1], path[k])
    <3>1. CASE k = m + 1
      BY <3>1
    <3>2. CASE k \in 0 .. m
      <4>1. h[k] = g[k] /\ (k # 0 => h[k - 1] = g[k - 1])
        BY <3>2
      <4>2. g[k] = IF k = 0 THEN Root ELSE Onward(g[k - 1], path[k])
        BY <2>1, <3>2
      <4> QED BY <4>1, <4>2
    <3> QED BY <3>1, <3>2
  <2>3. h = [k \in 0 .. m + 1 |-> h[k]]
    OBVIOUS
  <2> HIDE DEF h
  <2>4. Defines(h, m + 1)
    BY <2>2, <2>3
  <2> HIDE DEF Defines
  <2>5. (\E f : Defines(f, m + 1)) /\ m + 1 \in Nat
    BY <2>4
  <2> QED BY <2>5
<1> HIDE DEF T
<1>3. Len(path) \in T /\ Len(path) \in Nat
  BY <1>1, <1>2, SetInduction, LenProperties
<1>4. \E g : Defines(g, Len(path))
  BY <1>3 DEF T
<1>5. Defines(Walk(path), Len(path))
  BY <1>4 DEF Walk, Onward
<1>6. Resolve(path) = Walk(path)[Len(path)]
  BY DEF Resolve, Walk
<1> QED BY <1>3, <1>5, <1>6
-----------------------------------------------------------------------------
(* What is true of the whole table, linked or not: no inode is ever taken  *)
(* out of it, and what was removed keeps its entries.                      *)
IsNode(r) ==
  r = [kind |-> r.kind, name |-> r.name, entries |-> r.entries,
       blocks |-> r.blocks, size |-> r.size]
TableOK ==
  /\ \E n \in Nat \ {0} : DOMAIN inodes = 0 .. n - 1
  /\ inodes = [i \in DOMAIN inodes |-> inodes[i]]
  /\ \A i \in DOMAIN inodes : IsNode(inodes[i])

(* An entry is in a directory, leads to a node that bears its name and is  *)
(* not the root, and no other entry leads there.                           *)
EntriesLead ==
  \A d \in DOMAIN inodes : \A e \in inodes[d].entries :
    /\ e = <<e[1], e[2]>> /\ IsDirectory(d)
    /\ e[2] \in DOMAIN inodes \ {Root} /\ inodes[e[2]].name = e[1]
OneParent ==
  \A c, d \in DOMAIN inodes : \A x \in inodes[c].entries, y \in inodes[d].entries :
    x[2] = y[2] => c = d
NamesDiffer ==
  \A d \in DOMAIN inodes : \A x, y \in inodes[d].entries : x[1] = y[1] => x = y

TableInv == TableOK /\ EntriesLead /\ OneParent /\ NamesDiffer
-----------------------------------------------------------------------------
LEMMA Table ==
  ASSUME TableOK
  PROVE  /\ NextInode \in Nat \ {0} /\ DOMAIN inodes = 0 .. NextInode - 1
         /\ Root \in DOMAIN inodes /\ NoInode \notin DOMAIN inodes
         /\ NextInode \notin DOMAIN inodes
         /\ 0 .. NextInode = DOMAIN inodes \cup {NextInode}
<1>1. PICK n \in Nat \ {0} : DOMAIN inodes = 0 .. n - 1
  BY DEF TableOK
<1>2. NextInode = n
  BY <1>1, FS_Interval DEF NextInode
<1> QED BY <1>1, <1>2 DEF Root, NoInode

(* A look for a name that is there finds the entry, and one that finds     *)
(* nothing means there is none.                                            *)
LEMMA LookupIs ==
  ASSUME TableInv, NEW d \in DOMAIN inodes, NEW name
  PROVE  /\ Lookup(d, name) = NoInode => \A e \in inodes[d].entries : e[1] # name
         /\ Lookup(d, name) # NoInode =>
              /\ <<name, Lookup(d, name)>> \in inodes[d].entries
              /\ Lookup(d, name) \in DOMAIN inodes \ {Root}
<1>1. CASE \E e \in inodes[d].entries : e[1] = name
  <2> DEFINE found == CHOOSE e \in inodes[d].entries : e[1] = name
  <2>1. found \in inodes[d].entries /\ found[1] = name /\ Lookup(d, name) = found[2]
    BY <1>1 DEF Lookup
  <2> HIDE DEF found
  <2>2. found = <<name, found[2]>> /\ found[2] \in DOMAIN inodes \ {Root}
    BY <2>1 DEF TableInv, EntriesLead
  <2>3. NoInode \notin DOMAIN inodes
    BY Table DEF TableInv
  <2> QED BY <2>1, <2>2, <2>3
<1>2. CASE ~\E e \in inodes[d].entries : e[1] = name
  BY <1>2 DEF Lookup
<1> QED BY <1>1, <1>2

LEMMA NameIsFree ==
  ASSUME TableInv, NEW d \in DOMAIN inodes, NEW name, Lookup(d, name) = NoInode
  PROVE  \A e \in inodes[d].entries : e[1] # name
BY LookupIs

LEMMA WalksStay ==
  ASSUME TableInv, NEW path \in Seq(Names), NEW k \in 0 .. Len(path)
  PROVE  Walk(path)[k] \in DOMAIN inodes \cup {NoInode}
<1> DEFINE T == { n \in Nat : n <= Len(path) =>
                    Walk(path)[n] \in DOMAIN inodes \cup {NoInode} }
<1>1. Len(path) \in Nat
  BY LenProperties
<1>2. 0 \in T
  BY WalkIs, Table DEF TableInv
<1>3. ASSUME NEW n \in Nat, n \in T PROVE n + 1 \in T
  <2> SUFFICES ASSUME n + 1 <= Len(path)
               PROVE  Walk(path)[n + 1] \in DOMAIN inodes \cup {NoInode}
    OBVIOUS
  <2>1. Walk(path)[n] \in DOMAIN inodes \cup {NoInode}
    BY <1>1, <1>3
  <2>2. n + 1 \in 1 .. Len(path) /\ (n + 1) - 1 = n
    BY <1>1
  <2>3. Walk(path)[n + 1] = Onward(Walk(path)[n], path[n + 1])
    BY <2>2, WalkIs
  <2>4. CASE Walk(path)[n] = NoInode
    BY <2>3, <2>4 DEF Onward
  <2>5. CASE Walk(path)[n] \in DOMAIN inodes
    <3>1. Lookup(Walk(path)[n], path[n + 1]) \in DOMAIN inodes \cup {NoInode}
      BY <2>5, LookupIs
    <3> QED BY <2>3, <3>1 DEF Onward
  <2> QED BY <2>1, <2>4, <2>5
<1> HIDE DEF T
<1>4. k \in T
  BY <1>1, <1>2, <1>3, SetInduction
<1> QED BY <1>1, <1>4 DEF T

LEMMA ResolveStays ==
  ASSUME TableInv, NEW path \in Seq(Names)
  PROVE  Resolve(path) \in DOMAIN inodes \cup {NoInode}
BY WalksStay, WalkIs, LenProperties

(* A path is resolved by looking its last component up in its parent.      *)
LEMMA ResolveLast ==
  ASSUME TableInv, NEW path \in Seq(Names), path # <<>>
  PROVE  /\ Parent(path) \in Seq(Names)
         /\ Resolve(path) = Onward(Resolve(Parent(path)), Base(path))
<1> DEFINE up == Parent(path)
<1>1. Len(path) \in Nat \ {0} /\ \A k \in 1 .. Len(path) : path[k] \in Names
  BY LenProperties, EmptySeq, ElementOfSeq
<1>2. /\ up \in Seq(Names) /\ Len(up) = Len(path) - 1
      /\ \A k \in 1 .. Len(path) - 1 : up[k] = path[k]
  <2> DEFINE m == Len(path) - 1
  <2>1. m \in Nat /\ \A k \in 1 .. m : path[k] \in Names
    BY <1>1
  <2>2. up = SubSeq(path, 1, m)
    BY DEF Parent
  <2> HIDE DEF m, up
  <2>3. /\ SubSeq(path, 1, m) \in Seq(Names)
        /\ Len(SubSeq(path, 1, m)) = IF 1 <= m THEN m - 1 + 1 ELSE 0
        /\ \A k \in 1 .. m - 1 + 1 : SubSeq(path, 1, m)[k] = path[1 + k - 1]
    BY <2>1, SubSeqProperties
  <2>4. up \in Seq(Names) /\ Len(up) = m /\ \A k \in 1 .. m : up[k] = path[k]
    BY <2>1, <2>2, <2>3
  <2> QED BY <2>4 DEF m
<1> HIDE DEF up
<1> DEFINE T == { n \in Nat : n <= Len(path) - 1 => Walk(up)[n] = Walk(path)[n] }
<1>3. 0 \in T
  BY <1>2, WalkIs
<1>4. ASSUME NEW n \in Nat, n \in T PROVE n + 1 \in T
  <2> SUFFICES ASSUME n + 1 <= Len(path) - 1
               PROVE  Walk(up)[n + 1] = Walk(path)[n + 1]
    OBVIOUS
  <2>1. Walk(up)[n] = Walk(path)[n]
    BY <1>1, <1>4
  <2>2. /\ n + 1 \in 1 .. Len(path) /\ n + 1 \in 1 .. Len(up) /\ (n + 1) - 1 = n
        /\ up[n + 1] = path[n + 1]
    BY <1>1, <1>2
  <2>3. Walk(up)[n + 1] = Onward(Walk(up)[n], up[n + 1])
    BY <1>2, <2>2, WalkIs
  <2>4. Walk(path)[n + 1] = Onward(Walk(path)[n], path[n + 1])
    BY <2>2, WalkIs
  <2> QED BY <2>1, <2>2, <2>3, <2>4
<1> HIDE DEF T
<1>5. Len(path) - 1 \in T
  BY <1>1, <1>3, <1>4, SetInduction
<1>6. Walk(up)[Len(path) - 1] = Walk(path)[Len(path) - 1]
  BY <1>1, <1>5 DEF T
<1>7. Resolve(up) = Walk(path)[Len(path) - 1]
  BY <1>2, <1>6, WalkIs
<1>8. Resolve(path) = Onward(Walk(path)[Len(path) - 1], path[Len(path)])
  BY <1>1, WalkIs
<1> QED BY <1>2, <1>7, <1>8 DEF up, Base
-----------------------------------------------------------------------------
(* What an operation makes of a node.                                      *)
Alike(x, y) == x.blocks = y.blocks /\ x.size = y.size
LEMMA NodeEntries ==
  ASSUME NEW r, IsNode(r), NEW E, NEW z, z = [r EXCEPT !.entries = E]
  PROVE  /\ IsNode(z) /\ z.kind = r.kind /\ z.name = r.name /\ z.entries = E
         /\ Alike(r, z)
BY DEF IsNode, Alike

LEMMA NodeName ==
  ASSUME NEW r, IsNode(r), NEW name, NEW z, z = [r EXCEPT !.name = name]
  PROVE  /\ IsNode(z) /\ z.kind = r.kind /\ z.name = name /\ z.entries = r.entries
         /\ Alike(r, z)
BY DEF IsNode, Alike

LEMMA NodeBlocks ==
  ASSUME NEW r, IsNode(r), NEW blocks, NEW z, z = [r EXCEPT !.blocks = blocks]
  PROVE  /\ IsNode(z) /\ z.kind = r.kind /\ z.name = r.name /\ z.entries = r.entries
         /\ z.blocks = blocks /\ z.size = r.size
BY DEF IsNode



(* Steps that leave every node its kind and name, and at most take entries *)
(* away.                                                                   *)
LEMMA TableKeeps ==
  ASSUME TableInv, inodes' = [i \in DOMAIN inodes |-> inodes'[i]],
         \A i \in DOMAIN inodes :
           /\ IsNode(inodes'[i]) /\ inodes'[i].kind = inodes[i].kind
           /\ inodes'[i].name = inodes[i].name
           /\ inodes'[i].entries \subseteq inodes[i].entries
  PROVE  TableInv'
<1>1. DOMAIN inodes' = DOMAIN inodes
  OBVIOUS
<1>2. TableOK'
  BY <1>1 DEF TableInv, TableOK, IsNode
<1>3. EntriesLead'
  BY <1>1 DEF TableInv, EntriesLead, IsDirectory
<1>4. OneParent' /\ NamesDiffer'
  BY <1>1 DEF TableInv, OneParent, NamesDiffer
<1> QED BY <1>2, <1>3, <1>4 DEF TableInv

(* Table w is the present one with one more node, without entries, that is *)
(* entered in directory d.                                                 *)
Grown(w, d, name) ==
  /\ w = [i \in 0 .. NextInode |-> w[i]]
  /\ IsNode(w[NextInode]) /\ w[NextInode].name = name /\ w[NextInode].entries = {}
  /\ \A i \in DOMAIN inodes :
       /\ IsNode(w[i]) /\ w[i].kind = inodes[i].kind
       /\ w[i].name = inodes[i].name
       /\ w[i].entries = inodes[i].entries \cup
                         (IF i = d THEN {<<name, NextInode>>} ELSE {})

(* The directory had no entry of that name.                                *)
LEMMA TableGrows ==
  ASSUME TableInv, NEW d \in DOMAIN inodes, NEW name,
         IsDirectory(d), Lookup(d, name) = NoInode, Grown(inodes', d, name)
  PROVE  TableInv'
<1> USE DEF Grown
<1> DEFINE new == NextInode
<1>1. /\ new \in Nat \ {0} /\ DOMAIN inodes = 0 .. new - 1 /\ Root \in DOMAIN inodes
      /\ new \notin DOMAIN inodes /\ 0 .. new = DOMAIN inodes \cup {new}
  BY Table DEF TableInv
<1>2. DOMAIN inodes' = DOMAIN inodes \cup {new} /\ DOMAIN inodes' = 0 .. (new + 1) - 1
  BY <1>1
<1>3. \A e \in inodes[d].entries : e[1] # name
  BY NameIsFree
<1>4. \A i \in DOMAIN inodes : \A e \in inodes[i].entries :
        e = <<e[1], e[2]>> /\ e[2] \in DOMAIN inodes \ {Root}
  BY DEF TableInv, EntriesLead
<1>5. \A i \in DOMAIN inodes' : \A e \in inodes'[i].entries :
        \/ i \in DOMAIN inodes /\ e \in inodes[i].entries
        \/ i = d /\ e = <<name, new>>
  BY <1>2
<1>6. TableOK'
  <2>1. new + 1 \in Nat \ {0}
    BY <1>1
  <2>2. \A i \in DOMAIN inodes' : IsNode(inodes'[i])
    BY <1>2
  <2>3. inodes' = [i \in DOMAIN inodes' |-> inodes'[i]]
    OBVIOUS
  <2> QED BY <1>2, <2>1, <2>2, <2>3 DEF TableOK, IsNode
<1> HIDE DEF new
<1>7. EntriesLead'
  <2> SUFFICES ASSUME NEW i \in DOMAIN inodes', NEW e \in inodes'[i].entries
               PROVE  /\ e = <<e[1], e[2]>> /\ inodes'[i].kind = "dir"
                      /\ e[2] \in DOMAIN inodes' \ {Root} /\ inodes'[e[2]].name = e[1]
    BY DEF EntriesLead, IsDirectory
  <2>1. CASE i \in DOMAIN inodes /\ e \in inodes[i].entries
    BY <1>2, <2>1 DEF TableInv, EntriesLead, IsDirectory
  <2>2. CASE i = d /\ e = <<name, new>>
    <3>1. inodes'[i].kind = "dir" /\ new \in DOMAIN inodes' \ {Root}
      BY <1>1, <1>2, <2>2 DEF IsDirectory
    <3> QED BY <2>2, <3>1 DEF new
  <2> QED BY <1>5, <2>1, <2>2
<1>8. OneParent'
  <2> SUFFICES ASSUME NEW b \in DOMAIN inodes', NEW c \in DOMAIN inodes',
                      NEW x \in inodes'[b].entries, NEW y \in inodes'[c].entries,
                      x[2] = y[2]
               PROVE  b = c
    BY DEF OneParent
  <2>1. CASE b \in DOMAIN inodes /\ x \in inodes[b].entries
    <3>1. x[2] # new
      BY <1>1, <1>4, <2>1
    <3>2. c \in DOMAIN inodes /\ y \in inodes[c].entries
      BY <1>5, <3>1
    <3> QED BY <2>1, <3>2 DEF TableInv, OneParent
  <2>2. CASE b = d /\ x = <<name, new>>
    <3>1. y[2] = new
      BY <2>2
    <3>2. c = d
      BY <1>1, <1>4, <1>5, <3>1
    <3> QED BY <2>2, <3>2
  <2> QED BY <1>5, <2>1, <2>2
<1>9. NamesDiffer'
  <2> SUFFICES ASSUME NEW i \in DOMAIN inodes', NEW x \in inodes'[i].entries,
                      NEW y \in inodes'[i].entries, x[1] = y[1]
               PROVE  x = y
    BY DEF NamesDiffer
  <2>1. CASE x = <<name, new>> \/ y = <<name, new>>
    <3>1. i = d /\ x[1] = name /\ y[1] = name
      <4>1. \A e : e = <<name, new>> => ~(i \in DOMAIN inodes /\ e \in inodes[i].entries)
        BY <1>1, <1>4
      <4> QED BY <1>5, <2>1, <4>1
    <3> QED BY <1>3, <1>5, <3>1
  <2>2. CASE i \in DOMAIN inodes /\ x \in inodes[i].entries /\ y \in inodes[i].entries
    BY <2>2 DEF TableInv, NamesDiffer
  <2> QED BY <1>5, <2>1, <2>2
<1> QED BY <1>6, <1>7, <1>8, <1>9 DEF TableInv

(* The entry from = <<a, b>> that leads to node i gives way to one named   *)
(* name in directory d, which had none of that name.                       *)
MovedTo(w, a, b, i, d, name) ==
  /\ w = [j \in DOMAIN inodes |-> w[j]]
  /\ \A j \in DOMAIN inodes :
       /\ IsNode(w[j]) /\ w[j].kind = inodes[j].kind
       /\ w[j].name = (IF j = i THEN name ELSE inodes[j].name)
       /\ w[j].entries =
            (IF j = a THEN { e \in inodes[j].entries : e[1] # b } ELSE inodes[j].entries)
              \cup (IF j = d THEN {<<name, i>>} ELSE {})

LEMMA TableMoves ==
  ASSUME TableInv, NEW a \in DOMAIN inodes, NEW b, NEW i \in DOMAIN inodes \ {Root},
         <<b, i>> \in inodes[a].entries,
         NEW d \in DOMAIN inodes, NEW name, IsDirectory(d),
         \A e \in inodes[d].entries : e[1] # name, MovedTo(inodes', a, b, i, d, name)
  PROVE  TableInv'
<1> USE DEF MovedTo
<1>1. DOMAIN inodes' = DOMAIN inodes
  OBVIOUS
<1>2. TableOK'
  BY <1>1 DEF TableInv, TableOK, IsNode
<1>3. \A j \in DOMAIN inodes : \A e \in inodes[j].entries :
        e = <<e[1], e[2]>> /\ e[2] \in DOMAIN inodes \ {Root} /\ inodes[e[2]].name = e[1]
  BY DEF TableInv, EntriesLead
<1>4. inodes[i].name = b
  BY <1>3
<1>5. ASSUME NEW j \in DOMAIN inodes, NEW e \in inodes'[j].entries
      PROVE  \/ e \in inodes[j].entries /\ e[2] # i
             \/ j = d /\ e = <<name, i>>
  <2>1. CASE e \in inodes[j].entries /\ e[2] = i
    <3>1. e[1] = b
      BY <1>3, <1>4, <2>1
    <3>2. j = a
      BY <2>1 DEF TableInv, OneParent
    <3>3. e \notin { x \in inodes[j].entries : x[1] # b }
      BY <3>1
    <3> QED BY <1>5, <3>2, <3>3
  <2>2. CASE ~(e \in inodes[j].entries)
    BY <1>5, <2>2
  <2> QED BY <2>1, <2>2
<1>6. EntriesLead'
  <2> SUFFICES ASSUME NEW j \in DOMAIN inodes', NEW e \in inodes'[j].entries
               PROVE  /\ e = <<e[1], e[2]>> /\ inodes'[j].kind = "dir"
                      /\ e[2] \in DOMAIN inodes' \ {Root} /\ inodes'[e[2]].name = e[1]
    BY DEF EntriesLead, IsDirectory
  <2>1. CASE e \in inodes[j].entries /\ e[2] # i
    <3>1. inodes[j].kind = "dir"
      BY <1>1, <2>1 DEF TableInv, EntriesLead, IsDirectory
    <3> QED BY <1>1, <1>3, <2>1, <3>1
  <2>2. CASE j = d /\ e = <<name, i>>
    BY <1>1, <2>2 DEF IsDirectory
  <2> QED BY <1>1, <1>5, <2>1, <2>2
<1>7. OneParent'
  <2> SUFFICES ASSUME NEW c \in DOMAIN inodes', NEW f \in DOMAIN inodes',
                      NEW x \in inodes'[c].entries, NEW y \in inodes'[f].entries,
                      x[2] = y[2]
               PROVE  c = f
    BY DEF OneParent
  <2>1. CASE x[2] = i
    BY <1>1, <1>5, <2>1
  <2>2. CASE x[2] # i
    <3>1. x \in inodes[c].entries /\ y \in inodes[f].entries
      BY <1>1, <1>5, <2>2
    <3> QED BY <1>1, <3>1 DEF TableInv, OneParent
  <2> QED BY <2>1, <2>2
<1>8. NamesDiffer'
  <2> SUFFICES ASSUME NEW j \in DOMAIN inodes', NEW x \in inodes'[j].entries,
                      NEW y \in inodes'[j].entries, x[1] = y[1]
               PROVE  x = y
    BY DEF NamesDiffer
  <2>1. CASE x = <<name, i>> /\ j = d
    BY <1>1, <1>5, <2>1
  <2>2. CASE y = <<name, i>> /\ j = d
    BY <1>1, <1>5, <2>2
  <2>3. CASE x \in inodes[j].entries /\ y \in inodes[j].entries
    BY <1>1, <2>3 DEF TableInv, NamesDiffer
  <2> QED BY <1>1, <1>5, <2>1, <2>2, <2>3
<1> QED BY <1>2, <1>6, <1>7, <1>8 DEF TableInv
-----------------------------------------------------------------------------
LEMMA TableInit == Init => TableInv
<1> SUFFICES ASSUME Init PROVE TableInv
  OBVIOUS
<1>1. DOMAIN inodes = 0 .. 1 - 1 /\ inodes[Root] = Directory(NoName)
  BY DEF Init, Root
<1>2. TableOK
  <2>1. 1 \in Nat \ {0} /\ DOMAIN inodes = 0 .. 1 - 1
    BY <1>1
  <2>2. inodes = [i \in DOMAIN inodes |-> inodes[i]]
    BY DEF Init
  <2>3. \A i \in DOMAIN inodes : IsNode(inodes[i])
    BY <1>1 DEF IsNode, Directory, Root
  <2> QED BY <2>1, <2>2, <2>3 DEF TableOK
<1>3. \A d \in DOMAIN inodes : inodes[d].entries = {}
  BY <1>1 DEF Directory, Root
<1> QED BY <1>2, <1>3 DEF TableInv, EntriesLead, OneParent, NamesDiffer

LEMMA PathSeq == Paths \subseteq Seq(Names)
<1> SUFFICES ASSUME NEW n \in 0 .. MaxDepth, NEW path \in [1 .. n -> Names]
             PROVE  path \in Seq(Names)
  BY DEF Paths
<1>1. n \in Nat /\ path \in [1 .. n -> Names]
  BY VfsAssumption
<1>2. [1 .. n -> Names] \in { [1 .. m -> Names] : m \in Nat }
  BY <1>1
<1> QED BY <1>1, <1>2, SeqDef

(* The table with one more inode.                                          *)
LEMMA WithInodeIs ==
  ASSUME TableInv, NEW d \in DOMAIN inodes, NEW node, IsNode(node), node.entries = {},
         NEW w, w = WithInode(d, node)
  PROVE  /\ Grown(w, d, node.name) /\ w[NextInode] = node
         /\ \A i \in DOMAIN inodes : Alike(inodes[i], w[i])
<1>1. /\ NextInode \in Nat \ {0} /\ NextInode \notin DOMAIN inodes
      /\ 0 .. NextInode = DOMAIN inodes \cup {NextInode}
      /\ \A i \in DOMAIN inodes : IsNode(inodes[i])
  BY Table DEF TableInv, TableOK
<1>2. w = [i \in 0 .. NextInode |-> w[i]] /\ w[NextInode] = node
  BY <1>1 DEF WithInode
<1>3. \A i \in DOMAIN inodes \ {d} : w[i] = inodes[i]
  BY <1>1 DEF WithInode
<1>4. w[d] = [inodes[d] EXCEPT !.entries = inodes[d].entries \cup {<<node.name, NextInode>>}]
  BY <1>1 DEF WithInode, IsNode
<1>5. /\ IsNode(w[d]) /\ w[d].kind = inodes[d].kind /\ w[d].name = inodes[d].name
      /\ w[d].entries = inodes[d].entries \cup {<<node.name, NextInode>>}
      /\ Alike(inodes[d], w[d])
  BY <1>1, <1>4, NodeEntries
<1>6. ASSUME NEW i \in DOMAIN inodes
      PROVE  /\ IsNode(w[i]) /\ w[i].kind = inodes[i].kind
             /\ w[i].name = inodes[i].name
             /\ w[i].entries = inodes[i].entries \cup
                  (IF i = d THEN {<<node.name, NextInode>>} ELSE {})
             /\ Alike(inodes[i], w[i])
  BY <1>1, <1>3, <1>5 DEF Alike
<1> QED BY <1>2, <1>6 DEF Grown

LEMMA CreatePlace ==
  ASSUME TableInv, NEW path \in Paths, NEW name, CanCreate(path, name)
  PROVE  /\ Resolve(path) \in DOMAIN inodes /\ IsDirectory(Resolve(path))
         /\ Lookup(Resolve(path), name) = NoInode
         /\ \A e \in inodes[Resolve(path)].entries : e[1] # name
<1>1. Resolve(path) \in DOMAIN inodes
  BY PathSeq, ResolveStays DEF CanCreate
<1>2. Lookup(Resolve(path), name) = NoInode /\ IsDirectory(Resolve(path))
  BY DEF CanCreate
<1> QED BY <1>1, <1>2, NameIsFree

LEMMA CreateNodeKeeps ==
  ASSUME TableInv, NEW path \in Paths, NEW node, IsNode(node), node.entries = {},
         CreateNode(path, node)
  PROVE  /\ TableInv' /\ Grown(inodes', Resolve(path), node.name)
         /\ inodes'[NextInode] = node
         /\ \A i \in DOMAIN inodes : Alike(inodes[i], inodes'[i])
<1> DEFINE d == Resolve(path)
<1>1. d \in DOMAIN inodes /\ IsDirectory(d) /\ Lookup(d, node.name) = NoInode
  BY CreatePlace DEF CreateNode
<1>2. inodes' = WithInode(d, node)
  BY DEF CreateNode
<1> HIDE DEF d
<1>3. /\ Grown(inodes', d, node.name) /\ inodes'[NextInode] = node
      /\ \A i \in DOMAIN inodes : Alike(inodes[i], inodes'[i])
  BY <1>1, <1>2, WithInodeIs
<1>4. TableInv'
  BY <1>1, <1>3, TableGrows
<1> QED BY <1>3, <1>4 DEF d

Copied(name, r, w) ==
  IF w.ok THEN [File(name) EXCEPT !.blocks = w.blocks, !.size = Len(r.data)] ELSE File(name)
LEMMA CopyFileKeeps ==
  ASSUME TableInv, NEW path \in Paths, NEW to \in Paths, NEW name, CopyFile(path, to, name)
  PROVE  LET i == Resolve(path)
             r == ReadBlocks(mem, inodes[i])
             w == WriteBlocks(r.mem, r.data)
         IN  /\ TableInv' /\ Grown(inodes', Resolve(to), name)
             /\ inodes'[NextInode] = Copied(name, r, w)
             /\ inodes'[i].blocks = r.blocks /\ inodes'[i].size = inodes[i].size
             /\ \A j \in DOMAIN inodes : j # i => Alike(inodes[j], inodes'[j])
<1> DEFINE i == Resolve(path)
           d == Resolve(to)
           r == ReadBlocks(mem, inodes[i])
           w == WriteBlocks(r.mem, r.data)
           copied == Copied(name, r, w)
           table == WithInode(d, copied)
<1>1. d \in DOMAIN inodes /\ IsDirectory(d) /\ Lookup(d, name) = NoInode
  BY CreatePlace DEF CopyFile
<1>2. i \in DOMAIN inodes
  BY PathSeq, ResolveStays DEF CopyFile
<1>3. inodes' = [table EXCEPT ![i].blocks = r.blocks]
  BY DEF CopyFile, Copied
<1>4. IsNode(copied) /\ copied.name = name /\ copied.entries = {}
  <2>1. IsNode(File(name)) /\ File(name).name = name /\ File(name).entries = {}
    BY DEF IsNode, File
  <2> HIDE DEF w, r
  <2>2. CASE w.ok
    <3>1. copied = [File(name) EXCEPT !.blocks = w.blocks, !.size = Len(r.data)]
      BY <2>2 DEF Copied
    <3> HIDE DEF copied
    <3> DEFINE size == Len(r.data)
    <3>2. copied = [kind |-> "file", name |-> name, entries |-> {},
                    blocks |-> w.blocks, size |-> size]
      BY <3>1 DEF File
    <3> HIDE DEF size
    <3> QED BY <3>2 DEF IsNode
  <2> QED BY <2>1, <2>2 DEF Copied
<1> HIDE DEF i, d, r, w, copied
<1>5. /\ Grown(table, d, name) /\ table[NextInode] = copied
      /\ \A j \in DOMAIN inodes : Alike(inodes[j], table[j])
  <2>1. /\ Grown(table, d, copied.name) /\ table[NextInode] = copied
        /\ \A j \in DOMAIN inodes : Alike(inodes[j], table[j])
    BY <1>1, <1>4, WithInodeIs
  <2> QED BY <1>4, <2>1
<1>6. /\ NextInode \notin DOMAIN inodes /\ 0 .. NextInode = DOMAIN inodes \cup {NextInode}
  BY Table DEF TableInv
<1> HIDE DEF table
<1>7. /\ inodes' = [j \in 0 .. NextInode |-> inodes'[j]]
      /\ inodes'[i] = [table[i] EXCEPT !.blocks = r.blocks]
      /\ \A j \in 0 .. NextInode : j # i => inodes'[j] = table[j]
  BY <1>2, <1>3, <1>5, <1>6 DEF Grown
<1>13. IsNode(table[i])
  BY <1>2, <1>5 DEF Grown
<1>14. inodes'[i] = [table[i] EXCEPT !.blocks = r.blocks]
  BY <1>7
<1>8. /\ IsNode(inodes'[i]) /\ inodes'[i].kind = table[i].kind
      /\ inodes'[i].name = table[i].name /\ inodes'[i].entries = table[i].entries
      /\ inodes'[i].blocks = r.blocks /\ inodes'[i].size = table[i].size
  BY <1>13, <1>14, NodeBlocks
<1>9. /\ IsNode(inodes'[NextInode]) /\ inodes'[NextInode].name = name
      /\ inodes'[NextInode].entries = {} /\ inodes'[NextInode] = copied
  <2>1. inodes'[NextInode] = table[NextInode]
    BY <1>2, <1>6, <1>7
  <2> QED BY <1>5, <2>1 DEF Grown
<1>10. ASSUME NEW j \in DOMAIN inodes
       PROVE  /\ IsNode(inodes'[j]) /\ inodes'[j].kind = inodes[j].kind
              /\ inodes'[j].name = inodes[j].name
              /\ inodes'[j].entries = inodes[j].entries \cup
                   (IF j = d THEN {<<name, NextInode>>} ELSE {})
  <2>1. CASE j = i
    BY <1>5, <1>8, <2>1 DEF Grown
  <2>2. CASE j # i
    BY <1>5, <1>6, <1>7, <2>2 DEF Grown
  <2> QED BY <2>1, <2>2
<1>11. Grown(inodes', d, name)
  BY <1>7, <1>9, <1>10 DEF Grown
<1>12. TableInv'
  BY <1>1, <1>11, TableGrows
<1>15. inodes'[i].blocks = r.blocks /\ inodes'[i].size = inodes[i].size
  BY <1>2, <1>5, <1>8 DEF Alike
<1>16. \A j \in DOMAIN inodes : j # i => Alike(inodes[j], inodes'[j])
  BY <1>5, <1>6, <1>7 DEF Alike
<1> QED BY <1>9, <1>11, <1>12, <1>15, <1>16 DEF i, d, r, w, copied

(* Writing and reading change blocks and sizes only.                       *)
Rewritten(w, i, blocks, size) ==
  \/ w = [inodes EXCEPT ![i].blocks = blocks] /\ size = inodes[i].size
  \/ w = [inodes EXCEPT ![i].blocks = blocks, ![i].size = size]
LEMMA BlocksKeep ==
  ASSUME TableInv, NEW i \in DOMAIN inodes, NEW blocks, NEW size,
         Rewritten(inodes', i, blocks, size)
  PROVE  /\ TableInv' /\ DOMAIN inodes' = DOMAIN inodes
         /\ \A j \in DOMAIN inodes : j # i => inodes'[j] = inodes[j]
         /\ inodes'[i].kind = inodes[i].kind /\ inodes'[i].name = inodes[i].name
         /\ inodes'[i].entries = inodes[i].entries
         /\ inodes'[i].blocks = blocks /\ inodes'[i].size = size
<1>1. inodes = [j \in DOMAIN inodes |-> inodes[j]] /\ \A j \in DOMAIN inodes : IsNode(inodes[j])
  BY DEF TableInv, TableOK
<1>2. /\ inodes' = [j \in DOMAIN inodes |-> inodes'[j]]
      /\ \A j \in DOMAIN inodes : j # i => inodes'[j] = inodes[j]
      /\ \/ inodes'[i] = [inodes[i] EXCEPT !.blocks = blocks] /\ size = inodes[i].size
         \/ inodes'[i] = [inodes[i] EXCEPT !.blocks = blocks, !.size = size]
  BY <1>1 DEF Rewritten
<1>3. /\ IsNode(inodes'[i]) /\ inodes'[i].kind = inodes[i].kind
      /\ inodes'[i].name = inodes[i].name /\ inodes'[i].entries = inodes[i].entries
      /\ inodes'[i].blocks = blocks /\ inodes'[i].size = size
  <2>1. IsNode(inodes[i])
    BY <1>1
  <2>2. CASE inodes'[i] = [inodes[i] EXCEPT !.blocks = blocks] /\ size = inodes[i].size
    BY <2>1, <2>2, NodeBlocks
  <2>3. CASE inodes'[i] = [inodes[i] EXCEPT !.blocks = blocks, !.size = size]
    <3> DEFINE y == [inodes[i] EXCEPT !.blocks = blocks]
    <3>1. inodes'[i] = [y EXCEPT !.size = size]
      BY <2>3
    <3> HIDE DEF y
    <3>2. y = [inodes[i] EXCEPT !.blocks = blocks]
      BY DEF y
    <3> DEFINE z == inodes'[i]
    <3>3. z = [y EXCEPT !.size = size]
      BY <3>1
    <3> HIDE DEF z
    <3> DEFINE r == inodes[i]
    <3>5. IsNode(r) /\ y = [r EXCEPT !.blocks = blocks]
      BY <2>1, <3>2
    <3> HIDE DEF r
    <3>4. /\ IsNode(z) /\ z.kind = r.kind /\ z.name = r.name
          /\ z.entries = r.entries /\ z.blocks = blocks /\ z.size = size
      BY <3>3, <3>5 DEF IsNode
    <3> QED BY <3>4 DEF z, r
  <2> QED BY <1>2, <2>2, <2>3
<1>4. ASSUME NEW j \in DOMAIN inodes
      PROVE  /\ IsNode(inodes'[j]) /\ inodes'[j].kind = inodes[j].kind
             /\ inodes'[j].name = inodes[j].name
             /\ inodes'[j].entries \subseteq inodes[j].entries
  BY <1>1, <1>2, <1>3
<1>5. TableInv'
  BY <1>2, <1>4, TableKeeps
<1> QED BY <1>2, <1>3, <1>5

LEMMA TableUnchanged == TableInv /\ UNCHANGED inodes => TableInv'
BY DEF TableInv, TableOK, EntriesLead, OneParent, NamesDiffer, IsNode, IsDirectory

LEMMA WriteFileKeeps ==
  ASSUME TableInv, NEW path \in Paths, NEW data, WriteFile(path, data)
  PROVE  TableInv'
<1> DEFINE i == Resolve(path)
           w == WriteBlocks(FreeOld(mem, inodes[i]), data)
<1>1. i \in DOMAIN inodes
  BY PathSeq, ResolveStays DEF WriteFile
<1>2. Rewritten(inodes', i, w.blocks, Len(data)) \/ UNCHANGED inodes
  BY DEF WriteFile, Rewritten
<1> HIDE DEF i, w
<1> QED BY <1>1, <1>2, BlocksKeep, TableUnchanged

LEMMA ReadFileKeeps ==
  ASSUME TableInv, NEW path \in Paths, ReadFile(path)
  PROVE  TableInv'
<1> DEFINE i == Resolve(path)
           r == ReadBlocks(mem, inodes[i])
<1>1. i \in DOMAIN inodes
  BY PathSeq, ResolveStays DEF ReadFile
<1>2. Rewritten(inodes', i, r.blocks, inodes[i].size) \/ UNCHANGED inodes
  BY DEF ReadFile, Rewritten
<1> HIDE DEF i, r
<1> QED BY <1>1, <1>2, BlocksKeep, TableUnchanged

LEMMA RemoveNodeKeeps ==
  ASSUME TableInv, NEW path \in Paths, NEW recursive, RemoveNode(path, recursive)
  PROVE  /\ TableInv' /\ DOMAIN inodes' = DOMAIN inodes
         /\ Resolve(path) \in DOMAIN inodes \ {Root}
         /\ \A j \in DOMAIN inodes :
              /\ inodes'[j].kind = inodes[j].kind /\ inodes'[j].name = inodes[j].name
              /\ Alike(inodes[j], inodes'[j])
              /\ \A e : e \in inodes'[j].entries <=>
                          e \in inodes[j].entries /\ e[2] # Resolve(path)
<1> DEFINE i == Resolve(path)
           d == Resolve(Parent(path))
           b == Base(path)
           kept == { e \in inodes[d].entries : e[1] # b }
<1>1. d \in DOMAIN inodes /\ i \in DOMAIN inodes \ {Root} /\ <<b, i>> \in inodes[d].entries
  <2>1. path \in Seq(Names) /\ path # <<>> /\ i # NoInode
    BY PathSeq DEF RemoveNode
  <2>2. Parent(path) \in Seq(Names) /\ i = Onward(d, b)
    BY <2>1, ResolveLast
  <2>3. d # NoInode /\ i = Lookup(d, b)
    BY <2>1, <2>2 DEF Onward
  <2>4. d \in DOMAIN inodes
    BY <2>2, <2>3, ResolveStays
  <2> HIDE DEF d, b, i
  <2>5. <<b, Lookup(d, b)>> \in inodes[d].entries /\ Lookup(d, b) \in DOMAIN inodes \ {Root}
    BY <2>1, <2>3, <2>4, LookupIs
  <2> QED BY <2>3, <2>4, <2>5
<1>2. inodes = [j \in DOMAIN inodes |-> inodes[j]] /\ \A j \in DOMAIN inodes : IsNode(inodes[j])
  BY DEF TableInv, TableOK
<1>3. inodes' = [inodes EXCEPT ![d].entries = kept]
  BY <1>1, <1>2 DEF RemoveNode, Without, IsNode
<1>4. kept \subseteq inodes[d].entries
  OBVIOUS
<1>8. ASSUME NEW j \in DOMAIN inodes, NEW e \in inodes[j].entries
      PROVE  e[2] = i <=> j = d /\ e[1] = b
  <2> HIDE DEF i, d, b
  <2>1. <<b, i>>[1] = b /\ <<b, i>>[2] = i
    OBVIOUS
  <2>2. e[2] = i => j = d /\ e[1] = b
    BY <1>1, <2>1 DEF TableInv, OneParent, EntriesLead
  <2>3. j = d /\ e[1] = b => e[2] = i
    BY <1>1, <2>1 DEF TableInv, NamesDiffer
  <2> QED BY <2>2, <2>3
<1>9. \A e : e \in kept <=> e \in inodes[d].entries /\ e[2] # i
  BY <1>1, <1>8
<1> HIDE DEF d, kept, i, b
<1>5. /\ inodes' = [j \in DOMAIN inodes |-> inodes'[j]]
      /\ \A j \in DOMAIN inodes : j # d => inodes'[j] = inodes[j]
      /\ inodes'[d] = [inodes[d] EXCEPT !.entries = kept]
  BY <1>1, <1>2, <1>3
<1>6. /\ IsNode(inodes'[d]) /\ inodes'[d].kind = inodes[d].kind
      /\ inodes'[d].name = inodes[d].name /\ inodes'[d].entries = kept
      /\ Alike(inodes[d], inodes'[d])
  BY <1>1, <1>2, <1>5, NodeEntries
<1>7. ASSUME NEW j \in DOMAIN inodes
      PROVE  /\ IsNode(inodes'[j]) /\ inodes'[j].kind = inodes[j].kind
             /\ inodes'[j].name = inodes[j].name
             /\ inodes'[j].entries \subseteq inodes[j].entries
             /\ Alike(inodes[j], inodes'[j])
  BY <1>2, <1>4, <1>5, <1>6 DEF Alike
<1>10. TableInv'
  BY <1>5, <1>7, TableKeeps
<1>11. ASSUME NEW j \in DOMAIN inodes, NEW e
       PROVE  e \in inodes'[j].entries <=> e \in inodes[j].entries /\ e[2] # i
  BY <1>5, <1>6, <1>8, <1>9, <1>11
<1> QED BY <1>1, <1>5, <1>7, <1>10, <1>11 DEF i

LEMMA RenameNodeKeeps ==
  ASSUME TableInv, NEW path \in Paths, NEW to \in Paths, NEW name, RenameNode(path, to, name)
  PROVE  LET i == Resolve(path)
             d == Resolve(to)
             a == Resolve(Parent(path))
             b == Base(path)
         IN  /\ TableInv' /\ i \in DOMAIN inodes \ {Root} /\ a \in DOMAIN inodes
             /\ d \in DOMAIN inodes /\ <<b, i>> \in inodes[a].entries
             /\ MovedTo(inodes', a, b, i, d, name)
             /\ \A j \in DOMAIN inodes : Alike(inodes[j], inodes'[j])
<1> DEFINE i == Resolve(path)
           d == Resolve(to)
           a == Resolve(Parent(path))
           b == Base(path)
           left == { e \in inodes[a].entries : e[1] # b }
           X == [inodes EXCEPT ![a].entries = left]
<1>1. /\ d \in DOMAIN inodes /\ IsDirectory(d)
      /\ \A e \in inodes[d].entries : e[1] # name
  BY CreatePlace DEF RenameNode
<1>2. a \in DOMAIN inodes /\ i \in DOMAIN inodes \ {Root} /\ <<b, i>> \in inodes[a].entries
  <2>1. path \in Seq(Names) /\ path # <<>> /\ i # NoInode
    BY PathSeq DEF RenameNode
  <2>2. Parent(path) \in Seq(Names) /\ i = Onward(a, b)
    BY <2>1, ResolveLast
  <2>3. a # NoInode /\ i = Lookup(a, b)
    BY <2>1, <2>2 DEF Onward
  <2>4. a \in DOMAIN inodes
    BY <2>2, <2>3, ResolveStays
  <2> HIDE DEF a, b, i
  <2>5. <<b, Lookup(a, b)>> \in inodes[a].entries /\ Lookup(a, b) \in DOMAIN inodes \ {Root}
    BY <2>1, <2>3, <2>4, LookupIs
  <2> QED BY <2>3, <2>4, <2>5
<1>3. inodes = [j \in DOMAIN inodes |-> inodes[j]] /\ \A j \in DOMAIN inodes : IsNode(inodes[j])
  BY DEF TableInv, TableOK
<1>4. inodes' = [X EXCEPT ![d].entries = @ \cup {<<name, i>>}, ![i].name = name]
  <2>1. inodes' = Moved(i, d, <<a, b>>, name)
    BY DEF RenameNode
  <2>2. X = [inodes EXCEPT ![a].entries = { e \in @ : e[1] # b }]
    BY <1>2, <1>3 DEF IsNode
  <2> QED BY <2>1, <2>2 DEF Moved
<1> HIDE DEF i, d, a, b
<1>5. /\ X = [j \in DOMAIN inodes |-> X[j]]
      /\ \A j \in DOMAIN inodes : j # a => X[j] = inodes[j]
      /\ X[a] = [inodes[a] EXCEPT !.entries = left]
  BY <1>2, <1>3
<1>6. /\ IsNode(X[a]) /\ X[a].kind = inodes[a].kind
      /\ X[a].name = inodes[a].name /\ X[a].entries = left
      /\ Alike(inodes[a], X[a])
  <2> HIDE DEF X, left
  <2>1. IsNode(inodes[a]) /\ X[a] = [inodes[a] EXCEPT !.entries = left]
    BY <1>2, <1>3, <1>5
  <2> QED BY <2>1, NodeEntries
<1>7. ASSUME NEW j \in DOMAIN inodes
      PROVE  /\ IsNode(X[j]) /\ X[j].kind = inodes[j].kind /\ X[j].name = inodes[j].name
             /\ Alike(inodes[j], X[j])
             /\ X[j].entries = IF j = a THEN { e \in inodes[j].entries : e[1] # b }
                               ELSE inodes[j].entries
  BY <1>3, <1>5, <1>6 DEF Alike
<1> HIDE DEF X
<1> DEFINE Y == [X EXCEPT ![d].entries = X[d].entries \cup {<<name, i>>}]
<1>8. /\ Y = [j \in DOMAIN inodes |-> Y[j]]
      /\ \A j \in DOMAIN inodes : j # d => Y[j] = X[j]
      /\ Y[d] = [X[d] EXCEPT !.entries = X[d].entries \cup {<<name, i>>}]
  BY <1>1, <1>5
<1>9. /\ IsNode(Y[d]) /\ Y[d].kind = X[d].kind /\ Y[d].name = X[d].name
      /\ Y[d].entries = X[d].entries \cup {<<name, i>>} /\ Alike(X[d], Y[d])
  <2> DEFINE grown == X[d].entries \cup {<<name, i>>}
  <2> HIDE DEF Y, grown
  <2>1. IsNode(X[d]) /\ Y[d] = [X[d] EXCEPT !.entries = grown]
    BY <1>1, <1>7, <1>8 DEF grown
  <2>2. /\ IsNode(Y[d]) /\ Y[d].kind = X[d].kind /\ Y[d].name = X[d].name
        /\ Y[d].entries = grown /\ Alike(X[d], Y[d])
    BY <2>1, NodeEntries
  <2> QED BY <2>2 DEF grown
<1>10. inodes' = [Y EXCEPT ![i].name = name]
  BY <1>1, <1>4, <1>5, <1>7 DEF IsNode
<1> HIDE DEF Y
<1>11. ASSUME NEW j \in DOMAIN inodes
       PROVE  /\ IsNode(Y[j]) /\ Y[j].kind = X[j].kind /\ Y[j].name = X[j].name
              /\ Y[j].entries = X[j].entries \cup (IF j = d THEN {<<name, i>>} ELSE {})
              /\ Alike(inodes[j], Y[j])
  BY <1>7, <1>8, <1>9 DEF Alike
<1>12. /\ inodes' = [j \in DOMAIN inodes |-> inodes'[j]]
       /\ \A j \in DOMAIN inodes : j # i => inodes'[j] = Y[j]
       /\ inodes'[i] = [Y[i] EXCEPT !.name = name]
  BY <1>2, <1>8, <1>10
<1>13. /\ IsNode(inodes'[i]) /\ inodes'[i].kind = Y[i].kind
       /\ inodes'[i].name = name /\ inodes'[i].entries = Y[i].entries
       /\ Alike(Y[i], inodes'[i])
  <2>1. IsNode(Y[i]) /\ inodes'[i] = [Y[i] EXCEPT !.name = name]
    BY <1>2, <1>11, <1>12
  <2> QED BY <2>1, NodeName
<1>14. ASSUME NEW j \in DOMAIN inodes
       PROVE  /\ IsNode(inodes'[j]) /\ inodes'[j].kind = inodes[j].kind
              /\ inodes'[j].name = (IF j = i THEN name ELSE inodes[j].name)
              /\ inodes'[j].entries =
                   (IF j = a THEN { e \in inodes[j].entries : e[1] # b }
                    ELSE inodes[j].entries)
                   \cup (IF j = d THEN {<<name, i>>} ELSE {})
  <2>1. CASE j = i
    BY <1>2, <1>7, <1>11, <1>13, <2>1
  <2>2. CASE j # i
    BY <1>7, <1>11, <1>12, <2>2
  <2> QED BY <2>1, <2>2
<1>15. MovedTo(inodes', a, b, i, d, name)
  BY <1>12, <1>14 DEF MovedTo
<1>16. \A j \in DOMAIN inodes : Alike(inodes[j], inodes'[j])
  BY <1>11, <1>12, <1>13 DEF Alike
<1>17. TableInv'
  BY <1>1, <1>2, <1>15, TableMoves
<1> QED BY <1>1, <1>2, <1>15, <1>16, <1>17 DEF i, d, a, b
-----------------------------------------------------------------------------
LEMMA TableNext == TableInv /\ [Next]_vars => TableInv'
<1> SUFFICES ASSUME TableInv, [Next]_vars PROVE TableInv'
  OBVIOUS
<1>1. ASSUME NEW path \in Paths, NEW name \in Names, Mkdir(path, name)
      PROVE  TableInv'
  <2> DEFINE node == Directory(name)
  <2>1. IsNode(node) /\ node.entries = {}
    BY DEF IsNode, Directory
  <2>2. CreateNode(path, node)
    BY <1>1 DEF Mkdir
  <2> HIDE DEF node
  <2> QED BY <2>1, <2>2, CreateNodeKeeps
<1>2. ASSUME NEW path \in Paths, NEW name \in Names, CreateFile(path, name)
      PROVE  TableInv'
  <2> DEFINE node == File(name)
  <2>1. IsNode(node) /\ node.entries = {}
    BY DEF IsNode, File
  <2>2. CreateNode(path, node)
    BY <1>2 DEF CreateFile
  <2> HIDE DEF node
  <2> QED BY <2>1, <2>2, CreateNodeKeeps
<1>3. ASSUME NEW path \in Paths, NEW data \in Data, WriteFile(path, data)
      PROVE  TableInv'
  BY <1>3, WriteFileKeeps
<1>4. ASSUME NEW path \in Paths, ReadFile(path)
      PROVE  TableInv'
  BY <1>4, ReadFileKeeps
<1>5. ASSUME NEW path \in Paths, NEW to \in Paths, NEW name \in Names,
             CopyFile(path, to, name)
      PROVE  TableInv'
  BY <1>5, CopyFileKeeps
<1>6. ASSUME NEW path \in Paths, NEW to \in Paths, NEW name \in Names,
             RenameNode(path, to, name)
      PROVE  TableInv'
  BY <1>6, RenameNodeKeeps
<1>7. ASSUME NEW path \in Paths, NEW recursive \in BOOLEAN, RemoveNode(path, recursive)
      PROVE  TableInv'
  BY <1>7, RemoveNodeKeeps
<1>8. ASSUME NEW f \in Frame, NEW o \in Offset, InjectFlip(f, o)
      PROVE  TableInv'
  BY <1>8, TableUnchanged DEF InjectFlip
<1>9. CASE ScrubberSweep
  BY <1>9, TableUnchanged DEF ScrubberSweep
<1>10. CASE UNCHANGED vars
  BY <1>10, TableUnchanged DEF vars
<1> QED BY <1>1, <1>2, <1>3, <1>4, <1>5, <1>6, <1>7, <1>8, <1>9, <1>10 DEF Next

LEMMA TableInvariance == Spec => []TableInv
<1>1. Init => TableInv
  BY TableInit
<1>2. TableInv /\ [Next]_vars => TableInv'
  BY TableNext
<1> QED BY <1>1, <1>2, PTL DEF Spec
-----------------------------------------------------------------------------
(* Nothing below a node of the table is outside it.                        *)
LEMMA LinkedInTable ==
  ASSUME TableInv
  PROVE  Linked \subseteq DOMAIN inodes
<1> DEFINE T == { n \in Nat : n <= MaxInodes => Reach(Root)[n] \subseteq DOMAIN inodes }
<1>1. MaxInodes \in Nat
  BY VfsAssumption
<1>2. 0 \in T
  BY ReachIs, Table DEF TableInv
<1>3. ASSUME NEW n \in Nat, n \in T PROVE n + 1 \in T
  <2> SUFFICES ASSUME n + 1 <= MaxInodes
               PROVE  Reach(Root)[n + 1] \subseteq DOMAIN inodes
    OBVIOUS
  <2>1. Reach(Root)[n] \subseteq DOMAIN inodes
    BY <1>1, <1>3
  <2>2. n + 1 \in 1 .. MaxInodes /\ (n + 1) - 1 = n
    BY <1>1
  <2>3. Reach(Root)[n + 1] = Reach(Root)[n] \cup Children(Reach(Root)[n])
    BY <2>2, ReachIs
  <2>4. Children(Reach(Root)[n]) \subseteq DOMAIN inodes
    BY <2>1 DEF Children, TableInv, EntriesLead
  <2> QED BY <2>1, <2>3, <2>4
<1> HIDE DEF T
<1>4. MaxInodes \in T
  BY <1>1, <1>2, <1>3, SetInduction
<1> QED BY <1>1, <1>4, ReachIs DEF T, Linked

(* What fewer steps lead to can be reached too.                            *)
LEMMA ReachInLinked ==
  ASSUME NEW n \in 0 .. MaxInodes
  PROVE  Reach(Root)[n] \subseteq Linked
<1> DEFINE T == { k \in Nat : k <= MaxInodes => Reach(Root)[MaxInodes - k] \subseteq Linked }
<1>1. MaxInodes \in Nat
  BY VfsAssumption
<1>2. 0 \in T
  BY <1>1, ReachIs DEF Linked
<1>3. ASSUME NEW k \in Nat, k \in T PROVE k + 1 \in T
  <2> SUFFICES ASSUME k + 1 <= MaxInodes
               PROVE  Reach(Root)[MaxInodes - (k + 1)] \subseteq Linked
    OBVIOUS
  <2>1. Reach(Root)[MaxInodes - k] \subseteq Linked
    BY <1>1, <1>3
  <2>2. MaxInodes - k \in 1 .. MaxInodes /\ (MaxInodes - k) - 1 = MaxInodes - (k + 1)
    BY <1>1
  <2>3. Reach(Root)[MaxInodes - (k + 1)] \subseteq Reach(Root)[MaxInodes - k]
    BY <2>2, ReachIs
  <2> QED BY <2>1, <2>3
<1> HIDE DEF T
<1>4. MaxInodes - n \in T
  BY <1>1, <1>2, <1>3, SetInduction
<1>5. MaxInodes - n <= MaxInodes /\ MaxInodes - (MaxInodes - n) = n
  BY <1>1
<1> QED BY <1>4, <1>5 DEF T

(* An entry of a linked directory leads to each linked node but the root.  *)
LEMMA LinkedHasParent ==
  ASSUME TableInv, NEW i \in Linked, i # Root
  PROVE  \E d \in Linked : \E e \in inodes[d].entries : e[2] = i
<1> DEFINE T == { n \in Nat : n <= MaxInodes /\ i \in Reach(Root)[n] =>
                    \E d \in Linked : \E e \in inodes[d].entries : e[2] = i }
<1>1. MaxInodes \in Nat
  BY VfsAssumption
<1>2. 0 \in T
  BY ReachIs
<1>3. ASSUME NEW n \in Nat, n \in T PROVE n + 1 \in T
  <2> SUFFICES ASSUME n + 1 <= MaxInodes, i \in Reach(Root)[n + 1]
               PROVE  \E d \in Linked : \E e \in inodes[d].entries : e[2] = i
    OBVIOUS
  <2>1. n + 1 \in 1 .. MaxInodes /\ (n + 1) - 1 = n /\ n \in 0 .. MaxInodes
    BY <1>1
  <2>2. i \in Reach(Root)[n] \/ i \in Children(Reach(Root)[n])
    BY <2>1, ReachIs
  <2>3. CASE i \in Reach(Root)[n]
    BY <1>3, <2>1, <2>3
  <2>4. CASE i \in Children(Reach(Root)[n])
    <3>1. PICK d \in Reach(Root)[n] : \E e \in inodes[d].entries : e[2] = i
      BY <2>4 DEF Children
    <3>2. d \in Linked
      BY <2>1, ReachInLinked
    <3> QED BY <3>1, <3>2
  <2> QED BY <2>2, <2>3, <2>4
<1> HIDE DEF T
<1>4. MaxInodes \in T /\ i \in Reach(Root)[MaxInodes]
  BY <1>1, <1>2, <1>3, SetInduction, ReachIs DEF Linked
<1> QED BY <1>1, <1>4 DEF T

LEMMA TableIsTree ==
  ASSUME TableInv
  PROVE  TreeIsSound
<1>1. Linked \subseteq DOMAIN inodes
  BY LinkedInTable
<1>2. \A x \in Entries : /\ x = <<x[1], x[2]>> /\ x[1] \in DOMAIN inodes
                        /\ x[2] \in inodes[x[1]].entries
  BY <1>1 DEF Entries
<1>3. ASSUME NEW x \in Entries
      PROVE  /\ x[2] = <<x[2][1], x[2][2]>> /\ IsDirectory(x[1])
             /\ x[2][2] # Root /\ inodes[x[2][2]].name = x[2][1]
  BY <1>2 DEF TableInv, EntriesLead
<1>4. ASSUME NEW x \in Entries, NEW y \in Entries, x[1] = y[1], x[2][1] = y[2][1]
      PROVE  x = y
  BY <1>2, <1>4 DEF TableInv, NamesDiffer
<1>5. ASSUME NEW i \in Linked \ {Root}
      PROVE  Cardinality({ x \in Entries : x[2][2] = i }) = 1
  <2>5. PICK d \in Linked : \E e \in inodes[d].entries : e[2] = i
    BY LinkedHasParent
  <2>1. PICK e \in inodes[d].entries : e[2] = i
    BY <2>5
  <2> DEFINE z == <<d, e>>
  <2>2. z \in Entries /\ z[1] = d /\ z[2] = e
    BY DEF Entries
  <2>3. ASSUME NEW x \in Entries, x[2][2] = i PROVE x = z
    <3>1. x[1] = d
      BY <1>1, <1>2, <2>1, <2>3 DEF TableInv, OneParent
    <3>2. x[2][1] = e[1]
      BY <1>3, <2>1, <2>2, <2>3
    <3> QED BY <1>4, <2>2, <3>1, <3>2
  <2> HIDE DEF z
  <2>4. { x \in Entries : x[2][2] = i } = {z}
    BY <2>1, <2>2, <2>3
  <2> QED BY <2>4, FS_Singleton
<1> QED BY <1>3, <1>4, <1>5 DEF TreeIsSound

(* vfs.rs: whatever is created, written, read, copied, renamed and removed *)
(* by paths of any length, in any order, and whatever bits flip meanwhile, *)
(* the directories that can be reached from the root form a tree.          *)
THEOREM TreeStaysSound == Spec => []TreeIsSound
<1>1. TableInv => TreeIsSound
  BY TableIsTree
<1> QED BY <1>1, TableInvariance, PTL
=============================================================================
