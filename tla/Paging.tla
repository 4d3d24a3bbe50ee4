------------------------------- MODULE Paging -------------------------------
(***************************************************************************)
(* The page tables of x86-64 and what usermode-x86/src/usermode.rs does to *)
(* them: translation, marking a page as the user's, and mapping a frame.   *)
(*                                                                         *)
(* An address is a page: its indices in the four levels of tables.  Every  *)
(* table is reached by one entry (each comes fresh and zeroed from the     *)
(* heap), so an entry is named by the indices that lead to it.             *)
(***************************************************************************)
EXTENDS Integers

CONSTANTS
  Index,  \* the slots of a table
  Frame   \* page frames a program is given, or the bootloader maps

Path1 == Index
Path2 == Index \X Index
Path3 == Index \X Index \X Index
Address == Index \X Index \X Index \X Index

NoFrame == "none"
Entry ==
  [present : BOOLEAN, huge : BOOLEAN, user : BOOLEAN, writable : BOOLEAN,
   nx : BOOLEAN, frame : Frame \cup {NoFrame}]
Tables ==
  [l4 : [Path1 -> Entry], l3 : [Path2 -> Entry],
   l2 : [Path3 -> Entry], l1 : [Address -> Entry]]

Absent ==
  [present |-> FALSE, huge |-> FALSE, user |-> FALSE, writable |-> FALSE,
   nx |-> FALSE, frame |-> NoFrame]
FreshTable ==
  [present |-> TRUE, huge |-> FALSE, user |-> TRUE, writable |-> TRUE,
   nx |-> FALSE, frame |-> NoFrame]
Leaf(f, writable) ==
  [present |-> TRUE, huge |-> FALSE, user |-> TRUE, writable |-> writable,
   nx |-> FALSE, frame |-> f]
ForUser(e) ==
  [present |-> e.present, huge |-> e.huge, user |-> TRUE, writable |-> e.writable,
   nx |-> FALSE, frame |-> e.frame]

(* The entries on the way to an address.                                   *)
E4(t, a) == t.l4[a[1]]
E3(t, a) == t.l3[<<a[1], a[2]>>]
E2(t, a) == t.l2[<<a[1], a[2], a[3]>>]
E1(t, a) == t.l1[a]

(* A bit of the entry above bounds what is below: tables allow writes.     *)
TablesAreWritable(t) ==
  /\ \A p \in Path1 : t.l4[p].present => t.l4[p].writable
  /\ \A p \in Path2 : t.l3[p].present /\ ~t.l3[p].huge => t.l3[p].writable
  /\ \A p \in Path3 : t.l2[p].present /\ ~t.l2[p].huge => t.l2[p].writable

(* How far a walk gets: the level of the entry it ends at.                 *)
Has4(t, a) == E4(t, a).present
Has3(t, a) == Has4(t, a) /\ E3(t, a).present
Has2(t, a) == Has3(t, a) /\ ~E3(t, a).huge /\ E2(t, a).present
Has1(t, a) == Has2(t, a) /\ ~E2(t, a).huge /\ E1(t, a).present

(* virt_to_phys: the frame, how large it is, and the page in it.           *)
Mapping(size, frame, page) == [size |-> size, frame |-> frame, page |-> page]
Page(frame) == Mapping("4K", frame, <<>>)
Unmapped == Mapping("none", NoFrame, <<>>)
VirtToPhys(t, a) ==
  IF Has3(t, a) /\ E3(t, a).huge THEN Mapping("1G", E3(t, a).frame, <<a[3], a[4]>>)
  ELSE IF Has2(t, a) /\ E2(t, a).huge THEN Mapping("2M", E2(t, a).frame, <<a[4]>>)
  ELSE IF Has1(t, a) THEN Page(E1(t, a).frame)
  ELSE Unmapped

(* What the processor lets a program in ring 3 do with a page of 4 KB.     *)
UserReads(t, a) ==
  Has1(t, a) /\ E4(t, a).user /\ E3(t, a).user /\ E2(t, a).user /\ E1(t, a).user
UserWrites(t, a) ==
  /\ UserReads(t, a)
  /\ E4(t, a).writable /\ E3(t, a).writable /\ E2(t, a).writable /\ E1(t, a).writable
-----------------------------------------------------------------------------
(* map_page_user for every page of a set, none of them in a huge page of   *)
(* the third level: it does not look for one there.  An entry that is the  *)
(* user's already is not changed by it, so their order is no matter.       *)
MapPageUser(t, pages) ==
  [l4 |-> [p \in Path1 |->
             IF \E a \in pages : p = a[1] /\ Has4(t, a) THEN ForUser(t.l4[p]) ELSE t.l4[p]],
   l3 |-> [p \in Path2 |->
             IF \E a \in pages : p = <<a[1], a[2]>> /\ Has3(t, a)
             THEN ForUser(t.l3[p]) ELSE t.l3[p]],
   l2 |-> [p \in Path3 |->
             IF \E a \in pages : p = <<a[1], a[2], a[3]>> /\ Has2(t, a)
             THEN ForUser(t.l2[p]) ELSE t.l2[p]],
   l1 |-> [p \in Address |->
             IF p \in pages /\ Has1(t, p) THEN ForUser(t.l1[p]) ELSE t.l1[p]]]

(* The walk gets to the page: only then is the TLB flushed after a change. *)
Reaches(t, a) == VirtToPhys(t, a).size \in {"2M", "4K"}

(* Which levels a mapping puts a fresh table at: one that is missing, one  *)
(* that is a huge page, and those below a fresh one.                       *)
New4(t, a) == ~E4(t, a).present
New3(t, a) == New4(t, a) \/ ~E3(t, a).present \/ E3(t, a).huge

(* A huge page of the second level is taken for a table.                   *)
New2_KeepsHuge(t, a) == New3(t, a) \/ ~E2(t, a).present

New2(t, a) == New3(t, a) \/ ~E2(t, a).present \/ E2(t, a).huge

(* The address of a page in the same huge page as b.                       *)
SharesHugePage(t, a, b) ==
  \/ VirtToPhys(t, a).size = "1G" /\ <<a[1], a[2]>> = <<b[1], b[2]>>
  \/ VirtToPhys(t, a).size = "2M" /\ <<a[1], a[2], a[3]>> = <<b[1], b[2], b[3]>>

(* The tables with a fresh one at every level, whatever was there.         *)
CreateMapping_Fresh(t, a, leaf) ==
  [l4 |-> [t.l4 EXCEPT ![a[1]] = FreshTable],
   l3 |-> [p \in Path2 |-> IF p = <<a[1], a[2]>> THEN FreshTable
                           ELSE IF New4(t, a) /\ p[1] = a[1] THEN Absent ELSE t.l3[p]],
   l2 |-> [p \in Path3 |-> IF p = <<a[1], a[2], a[3]>> THEN FreshTable
                           ELSE IF New3(t, a) /\ <<p[1], p[2]>> = <<a[1], a[2]>>
                           THEN Absent ELSE t.l2[p]],
   l1 |-> [p \in Address |-> IF p = a THEN leaf
                             ELSE IF <<p[1], p[2], p[3]>> = <<a[1], a[2], a[3]>>
                             THEN Absent ELSE t.l1[p]]]

(* create_user_page_mapping and its read-only sister, which differ in the  *)
(* leaf they set.  (The latter looks for no huge pages: it is for          *)
(* addresses that are in none.)                                            *)
CreateMapping(t, a, leaf) ==
  [l4 |-> [t.l4 EXCEPT ![a[1]] = IF New4(t, a) THEN FreshTable ELSE ForUser(@)],
   l3 |-> [p \in Path2 |->
             IF p = <<a[1], a[2]>>
             THEN IF New3(t, a) THEN FreshTable ELSE ForUser(t.l3[p])
             ELSE IF New4(t, a) /\ p[1] = a[1] THEN Absent ELSE t.l3[p]],
   l2 |-> [p \in Path3 |->
             IF p = <<a[1], a[2], a[3]>>
             THEN IF New2(t, a) THEN FreshTable ELSE ForUser(t.l2[p])
             ELSE IF New3(t, a) /\ <<p[1], p[2]>> = <<a[1], a[2]>> THEN Absent
             ELSE t.l2[p]],
   l1 |-> [p \in Address |->
             IF p = a THEN leaf
             ELSE IF New2(t, a) /\ <<p[1], p[2], p[3]>> = <<a[1], a[2], a[3]>> THEN Absent
             ELSE t.l1[p]]]
=============================================================================
