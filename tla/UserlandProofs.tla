---------------------------- MODULE UserlandProofs ----------------------------
(* That the program's pages are mapped as they should be, that nothing     *)
(* else is remapped, that no descriptor is kept, and that the file manager *)
(* shows, selects and deletes what the user means, for all constants.      *)
EXTENDS Userland, TLAPS, SequenceTheorems, FiniteSetTheorems, WellFoundedInduction,
        NaturalsInduction

(* What a mapping and a marking do to the translation of every address.    *)
LEMMA AddressParts ==
  ASSUME NEW a \in Address
  PROVE  /\ a = <<a[1], a[2], a[3], a[4]>>
         /\ a[1] \in Path1 /\ <<a[1], a[2]>> \in Path2 /\ <<a[1], a[2], a[3]>> \in Path3
BY DEF Address, Path1, Path2, Path3

(* The entries that are written, and what marking keeps of an entry.       *)
LEMMA EntryFacts ==
  /\ Absent \in Entry /\ FreshTable \in Entry
  /\ ~Absent.present
  /\ FreshTable.present /\ ~FreshTable.huge /\ FreshTable.user /\ FreshTable.writable
  /\ \A f \in Frame, w \in BOOLEAN :
       /\ Leaf(f, w) \in Entry
       /\ Leaf(f, w).present /\ Leaf(f, w).user /\ ~Leaf(f, w).huge
       /\ Leaf(f, w).writable = w /\ Leaf(f, w).frame = f
  /\ \A e \in Entry :
       /\ ForUser(e) \in Entry /\ ForUser(e).user
       /\ ForUser(e).present = e.present /\ ForUser(e).huge = e.huge
       /\ ForUser(e).writable = e.writable /\ ForUser(e).frame = e.frame
BY DEF Entry, Absent, FreshTable, Leaf, ForUser

LEMMA EntryTypes ==
  ASSUME NEW t \in Tables, NEW a \in Address
  PROVE  E4(t, a) \in Entry /\ E3(t, a) \in Entry /\ E2(t, a) \in Entry /\ E1(t, a) \in Entry
BY AddressParts DEF Tables, E4, E3, E2, E1
-----------------------------------------------------------------------------
(* The way to b in the tables in which a was mapped.                       *)
LEMMA CreatedEntries ==
  ASSUME NEW t \in Tables, NEW a \in Address, NEW leaf \in Entry, NEW b \in Address
  PROVE  LET u == CreateMapping(t, a, leaf)
         IN  /\ E4(u, b) = IF b[1] = a[1]
                           THEN IF New4(t, a) THEN FreshTable ELSE ForUser(E4(t, b))
                           ELSE E4(t, b)
             /\ E3(u, b) = IF b[1] = a[1] /\ b[2] = a[2]
                           THEN IF New3(t, a) THEN FreshTable ELSE ForUser(E3(t, b))
                           ELSE IF New4(t, a) /\ b[1] = a[1] THEN Absent ELSE E3(t, b)
             /\ E2(u, b) = IF b[1] = a[1] /\ b[2] = a[2] /\ b[3] = a[3]
                           THEN IF New2(t, a) THEN FreshTable ELSE ForUser(E2(t, b))
                           ELSE IF New3(t, a) /\ b[1] = a[1] /\ b[2] = a[2] THEN Absent
                           ELSE E2(t, b)
             /\ E1(u, b) = IF b = a THEN leaf
                           ELSE IF New2(t, a) /\ b[1] = a[1] /\ b[2] = a[2] /\ b[3] = a[3]
                           THEN Absent ELSE E1(t, b)
<1> DEFINE u == CreateMapping(t, a, leaf)
<1>1. E4(u, b) = IF b[1] = a[1]
                 THEN IF New4(t, a) THEN FreshTable ELSE ForUser(E4(t, b))
                 ELSE E4(t, b)
  BY AddressParts DEF CreateMapping, Tables, E4
<1>2. E3(u, b) = IF b[1] = a[1] /\ b[2] = a[2]
                 THEN IF New3(t, a) THEN FreshTable ELSE ForUser(E3(t, b))
                 ELSE IF New4(t, a) /\ b[1] = a[1] THEN Absent ELSE E3(t, b)
  BY AddressParts DEF CreateMapping, E3
<1>3. E2(u, b) = IF b[1] = a[1] /\ b[2] = a[2] /\ b[3] = a[3]
                 THEN IF New2(t, a) THEN FreshTable ELSE ForUser(E2(t, b))
                 ELSE IF New3(t, a) /\ b[1] = a[1] /\ b[2] = a[2] THEN Absent
                 ELSE E2(t, b)
  BY AddressParts DEF CreateMapping, E2
<1>4. E1(u, b) = IF b = a THEN leaf
                 ELSE IF New2(t, a) /\ b[1] = a[1] /\ b[2] = a[2] /\ b[3] = a[3]
                 THEN Absent ELSE E1(t, b)
  BY AddressParts DEF CreateMapping, E1
<1> QED BY <1>1, <1>2, <1>3, <1>4

LEMMA CreateMappingType ==
  ASSUME NEW t \in Tables, NEW a \in Address, NEW leaf \in Entry
  PROVE  CreateMapping(t, a, leaf) \in Tables
<1>1. [t.l4 EXCEPT ![a[1]] = IF New4(t, a) THEN FreshTable ELSE ForUser(@)] \in [Path1 -> Entry]
  BY AddressParts, EntryFacts DEF Tables
<1>2. \A p \in Path2 : t.l3[p] \in Entry /\ ForUser(t.l3[p]) \in Entry
  BY EntryFacts DEF Tables
<1>3. \A p \in Path3 : t.l2[p] \in Entry /\ ForUser(t.l2[p]) \in Entry
  BY EntryFacts DEF Tables
<1>4. \A p \in Address : t.l1[p] \in Entry
  BY DEF Tables
<1> QED BY <1>1, <1>2, <1>3, <1>4, EntryFacts DEF Tables, CreateMapping

LEMMA CreateMappingWritable ==
  ASSUME NEW t \in Tables, NEW a \in Address, NEW leaf \in Entry, TablesAreWritable(t)
  PROVE  TablesAreWritable(CreateMapping(t, a, leaf))
<1> DEFINE u == CreateMapping(t, a, leaf)
<1>1. \A p \in Path1 : u.l4[p].present => u.l4[p].writable
  BY AddressParts, EntryFacts DEF Tables, CreateMapping, TablesAreWritable
<1>2. \A p \in Path2 : u.l3[p].present /\ ~u.l3[p].huge => u.l3[p].writable
  BY AddressParts, EntryFacts DEF Tables, CreateMapping, TablesAreWritable
<1>3. \A p \in Path3 : u.l2[p].present /\ ~u.l2[p].huge => u.l2[p].writable
  BY AddressParts, EntryFacts DEF Tables, CreateMapping, TablesAreWritable
<1> QED BY <1>1, <1>2, <1>3 DEF TablesAreWritable
-----------------------------------------------------------------------------
(* An address that is mapped gets its leaf.                                *)
LEMMA CreateMappingMaps ==
  ASSUME NEW t \in Tables, NEW a \in Address, NEW f \in Frame, NEW w \in BOOLEAN,
         TablesAreWritable(t)
  PROVE  LET u == CreateMapping(t, a, Leaf(f, w))
         IN  VirtToPhys(u, a) = Page(f) /\ UserReads(u, a) /\ (UserWrites(u, a) <=> w)
<1> DEFINE u == CreateMapping(t, a, Leaf(f, w))
<1>1. Leaf(f, w) \in Entry
  BY EntryFacts
<1>2. /\ E4(u, a) = IF New4(t, a) THEN FreshTable ELSE ForUser(E4(t, a))
      /\ E3(u, a) = IF New3(t, a) THEN FreshTable ELSE ForUser(E3(t, a))
      /\ E2(u, a) = IF New2(t, a) THEN FreshTable ELSE ForUser(E2(t, a))
      /\ E1(u, a) = Leaf(f, w)
  BY <1>1, CreatedEntries
<1> HIDE DEF u
<1>3. E4(u, a).present /\ E4(u, a).user
  BY <1>2, EntryTypes, EntryFacts DEF New4
<1>4. E3(u, a).present /\ E3(u, a).user /\ ~E3(u, a).huge
  BY <1>2, EntryTypes, EntryFacts DEF New3
<1>5. E2(u, a).present /\ E2(u, a).user /\ ~E2(u, a).huge
  BY <1>2, EntryTypes, EntryFacts DEF New2
<1>6. E1(u, a).present /\ E1(u, a).user /\ E1(u, a).writable = w /\ E1(u, a).frame = f
  BY <1>2, EntryFacts
<1>7. TablesAreWritable(u) /\ u \in Tables
  BY <1>1, CreateMappingWritable, CreateMappingType DEF u
<1>8. E4(u, a).writable /\ E3(u, a).writable /\ E2(u, a).writable
  BY <1>3, <1>4, <1>5, <1>7, AddressParts DEF TablesAreWritable, E4, E3, E2
<1>9. Has1(u, a) /\ ~E3(u, a).huge /\ ~E2(u, a).huge
  BY <1>3, <1>4, <1>5, <1>6 DEF Has4, Has3, Has2, Has1
<1>10. VirtToPhys(u, a) = Page(f)
  BY <1>6, <1>9 DEF VirtToPhys
<1>11. UserReads(u, a) /\ (UserWrites(u, a) <=> w)
  BY <1>3, <1>4, <1>5, <1>6, <1>8, <1>9 DEF UserReads, UserWrites
<1> QED BY <1>10, <1>11 DEF u

(* Marking entries on the way to b changes no more than who may use it.    *)
Keeps(t, u, b) ==
  /\ VirtToPhys(u, b) = VirtToPhys(t, b)
  /\ UserReads(t, b) => UserReads(u, b) /\ (UserWrites(u, b) <=> UserWrites(t, b))

LEMMA MarkedWay ==
  ASSUME NEW t \in Tables, NEW u, NEW b \in Address,
         E4(u, b) \in {E4(t, b), ForUser(E4(t, b))},
         E3(u, b) \in {E3(t, b), ForUser(E3(t, b))},
         E2(u, b) \in {E2(t, b), ForUser(E2(t, b))},
         E1(u, b) \in {E1(t, b), ForUser(E1(t, b))}
  PROVE  Keeps(t, u, b)
<1>1. /\ E4(u, b).present = E4(t, b).present /\ E4(u, b).writable = E4(t, b).writable
      /\ E4(t, b).user => E4(u, b).user
  BY EntryTypes, EntryFacts
<1>2. /\ E3(u, b).present = E3(t, b).present /\ E3(u, b).writable = E3(t, b).writable
      /\ E3(u, b).huge = E3(t, b).huge /\ E3(u, b).frame = E3(t, b).frame
      /\ E3(t, b).user => E3(u, b).user
  BY EntryTypes, EntryFacts
<1>3. /\ E2(u, b).present = E2(t, b).present /\ E2(u, b).writable = E2(t, b).writable
      /\ E2(u, b).huge = E2(t, b).huge /\ E2(u, b).frame = E2(t, b).frame
      /\ E2(t, b).user => E2(u, b).user
  BY EntryTypes, EntryFacts
<1>4. /\ E1(u, b).present = E1(t, b).present /\ E1(u, b).writable = E1(t, b).writable
      /\ E1(u, b).frame = E1(t, b).frame
      /\ E1(t, b).user => E1(u, b).user
  BY EntryTypes, EntryFacts
<1>5. /\ Has3(u, b) <=> Has3(t, b)
      /\ Has2(u, b) <=> Has2(t, b)
      /\ Has1(u, b) <=> Has1(t, b)
  BY <1>1, <1>2, <1>3, <1>4 DEF Has4, Has3, Has2, Has1
<1>6. VirtToPhys(u, b) = VirtToPhys(t, b)
  BY <1>2, <1>3, <1>4, <1>5 DEF VirtToPhys
<1>7. UserReads(t, b) => UserReads(u, b) /\ (UserWrites(u, b) <=> UserWrites(t, b))
  BY <1>1, <1>2, <1>3, <1>4, <1>5 DEF UserReads, UserWrites
<1> QED BY <1>6, <1>7 DEF Keeps

(* Another address keeps its translation, unless it is in a huge page that *)
(* the mapping replaces.                                                   *)
LEMMA CreateMappingIsLocal ==
  ASSUME NEW t \in Tables, NEW a \in Address, NEW leaf \in Entry,
         NEW b \in Address, b # a, ~SharesHugePage(t, b, a)
  PROVE  Keeps(t, CreateMapping(t, a, leaf), b)
<1> DEFINE u == CreateMapping(t, a, leaf)
<1> DEFINE same1 == b[1] = a[1]
           same2 == same1 /\ b[2] = a[2]
           same3 == same2 /\ b[3] = a[3]
<1>1. /\ E4(u, b) = IF same1 THEN IF New4(t, a) THEN FreshTable ELSE ForUser(E4(t, b))
                    ELSE E4(t, b)
      /\ E3(u, b) = IF same2 THEN IF New3(t, a) THEN FreshTable ELSE ForUser(E3(t, b))
                    ELSE IF New4(t, a) /\ same1 THEN Absent ELSE E3(t, b)
      /\ E2(u, b) = IF same3 THEN IF New2(t, a) THEN FreshTable ELSE ForUser(E2(t, b))
                    ELSE IF New3(t, a) /\ same2 THEN Absent ELSE E2(t, b)
      /\ E1(u, b) = IF New2(t, a) /\ same3 THEN Absent ELSE E1(t, b)
  BY CreatedEntries
<1>2. /\ same1 => (New4(t, a) <=> ~Has4(t, b))
      /\ same2 => (New3(t, a) <=> ~Has3(t, b) \/ E3(t, b).huge)
      /\ same3 => (New2(t, a) <=> ~Has2(t, b) \/ E2(t, b).huge)
  BY DEF New4, New3, New2, Has4, Has3, Has2, E4, E3, E2
<1>3. (New4(t, a) => New3(t, a)) /\ (New3(t, a) => New2(t, a))
  BY DEF New3, New2
<1>4. CASE \/ same1 /\ New4(t, a)
           \/ same2 /\ New3(t, a)
           \/ same3 /\ New2(t, a)
  <2>1. same2 => ~(Has3(t, b) /\ E3(t, b).huge)
    <3>1. Has3(t, b) /\ E3(t, b).huge => VirtToPhys(t, b).size = "1G"
      BY DEF VirtToPhys, Mapping
    <3> QED BY <3>1 DEF SharesHugePage
  <2>2. same3 => ~(Has2(t, b) /\ E2(t, b).huge)
    <3>1. Has2(t, b) /\ E2(t, b).huge => VirtToPhys(t, b).size = "2M"
      BY DEF VirtToPhys, Mapping, Has2
    <3> QED BY <3>1 DEF SharesHugePage
  <2>3. ~Has1(t, b) /\ ~(Has3(t, b) /\ E3(t, b).huge) /\ ~(Has2(t, b) /\ E2(t, b).huge)
    BY <1>2, <1>4, <2>1, <2>2 DEF Has1, Has2, Has3
  <2>4. ~Has1(u, b) /\ ~(Has3(u, b) /\ E3(u, b).huge) /\ ~(Has2(u, b) /\ E2(u, b).huge)
    <3> HIDE DEF u
    <3>1. CASE same3
      <4>1. E2(u, b) = FreshTable /\ E1(u, b) = Absent
        BY <1>1, <1>3, <1>4, <3>1
      <4>2. E3(u, b) = FreshTable \/ (E3(u, b) = ForUser(E3(t, b)) /\ ~E3(t, b).huge)
        BY <1>1, <1>2, <3>1
      <4>3. ~E3(u, b).huge
        BY <4>2, EntryTypes, EntryFacts
      <4> QED BY <4>1, <4>3, EntryFacts DEF Has1
    <3>2. CASE same2 /\ ~same3
      BY <1>1, <1>3, <1>4, <3>2, EntryFacts DEF Has1, Has2, Has3
    <3>3. CASE same1 /\ ~same2
      BY <1>1, <1>3, <1>4, <3>3, EntryFacts DEF Has1, Has2, Has3
    <3> QED BY <1>4, <3>1, <3>2, <3>3
  <2> HIDE DEF u
  <2>5. VirtToPhys(t, b) = Unmapped /\ VirtToPhys(u, b) = Unmapped
    BY <2>3, <2>4 DEF VirtToPhys
  <2>6. ~UserReads(t, b)
    BY <2>3 DEF UserReads
  <2> QED BY <2>5, <2>6 DEF Keeps, u
<1>5. CASE ~(\/ same1 /\ New4(t, a)
             \/ same2 /\ New3(t, a)
             \/ same3 /\ New2(t, a))
  <2>1. /\ E4(u, b) \in {E4(t, b), ForUser(E4(t, b))}
        /\ E3(u, b) \in {E3(t, b), ForUser(E3(t, b))}
        /\ E2(u, b) \in {E2(t, b), ForUser(E2(t, b))}
        /\ E1(u, b) \in {E1(t, b), ForUser(E1(t, b))}
    BY <1>1, <1>3, <1>5
  <2> HIDE DEF u
  <2>2. Keeps(t, u, b)
    BY <2>1, MarkedWay
  <2> QED BY <2>2 DEF u
<1> QED BY <1>4, <1>5
-----------------------------------------------------------------------------
(* map_page_user, for any set of pages.                                    *)
LEMMA MapPageUserKeeps ==
  ASSUME NEW t \in Tables, NEW pages \in SUBSET Address, NEW b \in Address
  PROVE  Keeps(t, MapPageUser(t, pages), b)
<1> DEFINE u == MapPageUser(t, pages)
<1>1. E4(u, b) \in {E4(t, b), ForUser(E4(t, b))}
  BY AddressParts DEF MapPageUser, E4
<1>2. E3(u, b) \in {E3(t, b), ForUser(E3(t, b))}
  BY AddressParts DEF MapPageUser, E3
<1>3. E2(u, b) \in {E2(t, b), ForUser(E2(t, b))}
  BY AddressParts DEF MapPageUser, E2
<1>4. E1(u, b) \in {E1(t, b), ForUser(E1(t, b))}
  BY DEF MapPageUser, E1
<1> HIDE DEF u
<1>5. Keeps(t, u, b)
  BY <1>1, <1>2, <1>3, <1>4, MarkedWay
<1> QED BY <1>5 DEF u

LEMMA MapPageUserType ==
  ASSUME NEW t \in Tables, NEW pages \in SUBSET Address, TablesAreWritable(t)
  PROVE  MapPageUser(t, pages) \in Tables /\ TablesAreWritable(MapPageUser(t, pages))
<1> DEFINE u == MapPageUser(t, pages)
<1>1. /\ \A p \in Path1 : t.l4[p] \in Entry /\ ForUser(t.l4[p]) \in Entry
      /\ \A p \in Path2 : t.l3[p] \in Entry /\ ForUser(t.l3[p]) \in Entry
      /\ \A p \in Path3 : t.l2[p] \in Entry /\ ForUser(t.l2[p]) \in Entry
      /\ \A p \in Address : t.l1[p] \in Entry /\ ForUser(t.l1[p]) \in Entry
  BY EntryFacts DEF Tables
<1>2. u \in Tables
  BY <1>1 DEF Tables, MapPageUser
<1>3. /\ \A p \in Path1 : u.l4[p] \in {t.l4[p], ForUser(t.l4[p])}
      /\ \A p \in Path2 : u.l3[p] \in {t.l3[p], ForUser(t.l3[p])}
      /\ \A p \in Path3 : u.l2[p] \in {t.l2[p], ForUser(t.l2[p])}
  BY DEF MapPageUser
<1> HIDE DEF u
<1>4. TablesAreWritable(u)
  BY <1>1, <1>3, EntryFacts DEF TablesAreWritable
<1> QED BY <1>2, <1>4 DEF u
-----------------------------------------------------------------------------

(* What every state's page tables are; the pages of the program are mapped *)
(* one after the other, so that a part of it speaks of those that are.     *)
PagesOK ==
  /\ phase \in {"boot", "start", "shared", "running", "halted"}
  /\ pt \in Tables /\ TablesAreWritable(pt) /\ boot \in BootTables
  /\ mapped \subseteq DOMAIN Program
  /\ \A a \in mapped : IsMapped(a)
  /\ phase # "boot" => mapped = DOMAIN Program /\ ~stale
  /\ phase \notin {"boot", "start"} => SharedIsMapped
  /\ BootMappingsAreKept

LEMMA Constants ==
  /\ DOMAIN Program \subseteq Address /\ SharedPage \in Address
  /\ SharedPage \notin DOMAIN Program /\ UserPages \subseteq Address
  /\ \A a \in DOMAIN Program : Program[a] \in Frame
  /\ SharedFrame \in Frame
  /\ Stack \subseteq DOMAIN Program /\ Framebuffer \subseteq Address
  /\ \A t \in BootTables : IsBootTable(t)
BY UserlandAssumption DEF UserPages

(* A mapping of one of the user's pages keeps those of the others, and the *)
(* bootloader's.                                                           *)
LEMMA MappingKeeps ==
  ASSUME PagesOK, NEW a \in UserPages, NEW leaf \in Entry,
         pt' = CreateMapping(pt, a, leaf), boot' = boot
  PROVE  /\ \A b \in mapped \ {a} : IsMapped(b)'
         /\ phase \notin {"boot", "start"} /\ a # SharedPage => SharedIsMapped'
         /\ BootMappingsAreKept'
<1>1. pt \in Tables /\ a \in Address
  BY Constants DEF PagesOK
<1>2. ASSUME NEW b \in Address, b # a, VirtToPhys(pt, b).size = "4K"
      PROVE  Keeps(pt, pt', b)
  BY <1>1, <1>2, CreateMappingIsLocal DEF SharesHugePage
<1>3. ASSUME NEW b \in mapped, b # a
      PROVE  IsMapped(b)'
  <2>1. b \in Address /\ VirtToPhys(pt, b) = Page(Program[b]) /\ UserWrites(pt, b)
    BY Constants DEF PagesOK, IsMapped
  <2>2. Keeps(pt, pt', b)
    BY <1>2, <1>3, <2>1 DEF Page, Mapping
  <2> QED BY <2>1, <2>2 DEF IsMapped, Keeps, UserWrites
<1>4. phase \notin {"boot", "start"} /\ a # SharedPage => SharedIsMapped'
  <2> SUFFICES ASSUME phase \notin {"boot", "start"}, a # SharedPage PROVE SharedIsMapped'
    OBVIOUS
  <2>1. SharedIsMapped
    BY DEF PagesOK
  <2>2. Keeps(pt, pt', SharedPage)
    BY <1>2, <2>1, Constants DEF SharedIsMapped, Page, Mapping
  <2> QED BY <2>1, <2>2 DEF SharedIsMapped, Keeps
<1>5. ASSUME NEW b \in Address, ~IsShadowed(b)
      PROVE  VirtToPhys(pt', b) = VirtToPhys(boot, b)
  <2>1. VirtToPhys(pt, b) = VirtToPhys(boot, b)
    BY <1>5 DEF PagesOK, BootMappingsAreKept
  <2>2. b # a /\ ~SharesHugePage(pt, b, a)
    BY <1>5, <2>1 DEF IsShadowed, SharesHugePage
  <2> QED BY <1>1, <2>1, <2>2, CreateMappingIsLocal DEF Keeps
<1>6. BootMappingsAreKept'
  BY <1>5 DEF BootMappingsAreKept, IsShadowed
<1> QED BY <1>3, <1>4, <1>6

(* So does marking pages as the user's.                                    *)
LEMMA MarkingKeeps ==
  ASSUME PagesOK, NEW pages \in SUBSET Address,
         pt' = MapPageUser(pt, pages), boot' = boot
  PROVE  /\ pt' \in Tables /\ TablesAreWritable(pt')
         /\ \A a \in mapped : IsMapped(a)'
         /\ phase \notin {"boot", "start"} => SharedIsMapped'
         /\ BootMappingsAreKept'
<1>1. pt' \in Tables /\ TablesAreWritable(pt')
  BY MapPageUserType DEF PagesOK
<1>2. ASSUME NEW b \in Address PROVE Keeps(pt, pt', b)
  BY MapPageUserKeeps DEF PagesOK
<1>3. ASSUME NEW a \in mapped PROVE IsMapped(a)'
  <2>1. a \in Address /\ IsMapped(a)
    BY Constants DEF PagesOK
  <2> QED BY <1>2, <2>1 DEF IsMapped, Keeps, UserWrites
<1>4. phase \notin {"boot", "start"} => SharedIsMapped'
  <2> SUFFICES ASSUME phase \notin {"boot", "start"} PROVE SharedIsMapped'
    OBVIOUS
  <2>1. SharedIsMapped /\ SharedPage \in Address
    BY Constants DEF PagesOK
  <2> QED BY <1>2, <2>1 DEF SharedIsMapped, Keeps
<1>5. BootMappingsAreKept'
  BY <1>2 DEF PagesOK, BootMappingsAreKept, IsShadowed, Keeps
<1> QED BY <1>1, <1>3, <1>4, <1>5

(* Marking what is mapped leaves nothing without a flush.                  *)
LEMMA MarkingFlushes ==
  ASSUME PagesOK, phase # "boot", NEW pages \in SUBSET (Framebuffer \cup Stack),
         MapUser(pages)
  PROVE  ~stale'
<1>1. ASSUME NEW a \in Stack PROVE Reaches(pt, a)
  BY Constants DEF PagesOK, IsMapped, Reaches, Page, Mapping
<1>2. ASSUME NEW a \in Framebuffer PROVE Reaches(pt, a)
  <2>1. a \in Address /\ Reaches(boot, a) /\ ~IsShadowed(a)
    BY Constants DEF PagesOK, IsBootTable, IsShadowed
  <2> QED BY <2>1 DEF PagesOK, BootMappingsAreKept, Reaches
<1> QED BY <1>1, <1>2 DEF PagesOK, MapUser
-----------------------------------------------------------------------------
LEMMA PagesInit == Init => PagesOK
<1> SUFFICES ASSUME Init PROVE PagesOK
  OBVIOUS
<1>1. pt \in BootTables /\ boot = pt /\ phase = "boot" /\ mapped = {}
  BY DEF Init
<1>2. pt \in Tables /\ TablesAreWritable(pt)
  BY <1>1, Constants DEF IsBootTable
<1> QED BY <1>1, <1>2 DEF PagesOK, BootMappingsAreKept

LEMMA PagesStep == PagesOK /\ [Next]_vars => PagesOK'
<1> SUFFICES ASSUME PagesOK, [Next]_vars PROVE PagesOK'
  OBVIOUS
<1>1. ASSUME NEW a \in DOMAIN Program, MapProgramPage(a) PROVE PagesOK'
  <2>1. /\ phase = "boot" /\ phase' = "boot" /\ boot' = boot
        /\ pt' = CreateMapping(pt, a, Leaf(Program[a], TRUE))
        /\ mapped' = mapped \cup {a} /\ a \notin mapped
    BY <1>1 DEF MapProgramPage
  <2>2. Leaf(Program[a], TRUE) \in Entry /\ a \in UserPages /\ a \in Address
    BY Constants, EntryFacts DEF UserPages
  <2>3. pt' \in Tables /\ TablesAreWritable(pt')
    BY <2>1, <2>2, CreateMappingType, CreateMappingWritable DEF PagesOK
  <2>4. IsMapped(a)'
    BY <2>1, <2>2, Constants, CreateMappingMaps DEF PagesOK, IsMapped
  <2>5. (\A b \in mapped \ {a} : IsMapped(b)') /\ BootMappingsAreKept'
    BY <2>1, <2>2, MappingKeeps
  <2> QED BY <2>1, <2>3, <2>4, <2>5 DEF PagesOK
<1>2. CASE EnterUserMode
  BY <1>2 DEF EnterUserMode, PagesOK, IsMapped, BootMappingsAreKept, IsShadowed
<1>3. ASSUME GetSharedInfo, boot' = boot, mapped' = mapped, phase # "boot",
             phase' \in {"shared", "running"}
      PROVE  PagesOK'
  <2>1. Leaf(SharedFrame, FALSE) \in Entry /\ SharedPage \in UserPages /\ SharedPage \in Address
    BY Constants, EntryFacts DEF UserPages
  <2>2. /\ pt' = CreateMapping(pt, SharedPage, Leaf(SharedFrame, FALSE))
        /\ ~stale'
    BY <1>3 DEF GetSharedInfo
  <2>3. pt' \in Tables /\ TablesAreWritable(pt')
    BY <2>1, <2>2, CreateMappingType, CreateMappingWritable DEF PagesOK
  <2>4. SharedIsMapped'
    BY <2>1, <2>2, Constants, CreateMappingMaps DEF PagesOK, SharedIsMapped
  <2>5. (\A b \in mapped \ {SharedPage} : IsMapped(b)') /\ BootMappingsAreKept'
    BY <1>3, <2>1, <2>2, MappingKeeps
  <2>6. SharedPage \notin mapped
    BY Constants DEF PagesOK
  <2> QED BY <1>3, <2>2, <2>3, <2>4, <2>5, <2>6 DEF PagesOK
<1>4. ASSUME NEW pages \in SUBSET (Framebuffer \cup Stack), MapUser(pages),
             boot' = boot, mapped' = mapped, phase \notin {"boot", "start"},
             phase' = "running"
      PROVE  PagesOK'
  <2>1. pages \in SUBSET Address /\ pt' = MapPageUser(pt, pages)
    BY <1>4, Constants DEF MapUser
  <2>2. ~stale'
    BY <1>4, MarkingFlushes
  <2> QED BY <1>4, <2>1, <2>2, MarkingKeeps DEF PagesOK
<1>5. CASE StartDesktop
  BY <1>3, <1>5 DEF StartDesktop
<1>6. CASE MapFramebuffer
  BY <1>4, <1>6 DEF MapFramebuffer
<1>7. CASE Turn
  <2>1. phase = "running" /\ phase' = "running" /\ boot' = boot /\ mapped' = mapped
    BY <1>7 DEF Turn
  <2>2. GetSharedInfo \/ MapUser(Stack)
    BY <1>7 DEF Turn, DrawFrame
  <2> QED BY <1>3, <1>4, <2>1, <2>2
<1>8. CASE Exit
  BY <1>8 DEF Exit, PagesOK, IsMapped, SharedIsMapped, BootMappingsAreKept, IsShadowed
<1>9. CASE Halt \/ UNCHANGED vars
  BY <1>9 DEF Halt, vars, PagesOK, IsMapped, SharedIsMapped, BootMappingsAreKept, IsShadowed
<1> QED BY <1>1, <1>2, <1>5, <1>6, <1>7, <1>8, <1>9 DEF Next

(* The program's pages are its frames with the rights they should have,    *)
(* and the TLB does not contradict the tables (create_user_page_mapping,   *)
(* map_page_user and their callers).                                       *)
THEOREM ProgramStaysMapped == Spec => []ProgramIsMapped
<1>1. PagesOK => ProgramIsMapped
  BY DEF PagesOK, ProgramIsMapped
<1> QED BY <1>1, PagesInit, PagesStep, PTL DEF Spec

(* No other address is remapped by the mappings of the program, but for    *)
(* those in huge pages they replace.                                       *)
THEOREM BootMappingsStay == Spec => []BootMappingsAreKept
<1>1. PagesOK => BootMappingsAreKept
  BY DEF PagesOK
<1> QED BY <1>1, PagesInit, PagesStep, PTL DEF Spec
-----------------------------------------------------------------------------
(* A file system with an empty descriptor table, and one with one open.    *)
NoFds == [fd \in Fds |-> Closed]
Quiet(s) == \E tree : s = Sys(tree, NoFds)
OneOpen(s, fd) ==
  \E tree, path, offset : s = Sys(tree, [NoFds EXCEPT ![fd] = File(path, offset)])

LEMMA NotFds == Failed \notin Fds /\ TableFull \notin Fds
BY FdsAssumption DEF Failed, TableFull

(* The one call that gives out a descriptor, and what then is done with it *)
(* until it is given back.                                                 *)
LEMMA OpenOne ==
  ASSUME NEW s, Quiet(s), NEW path
  PROVE  LET o == SysOpen(s, path)
         IN  \/ Quiet(o.sys) /\ ~HasFd(o)
             \/ HasFd(o) /\ OneOpen(o.sys, o.ret)
<1> DEFINE o == SysOpen(s, path)
<1>1. s.fds = NoFds
  BY DEF Quiet, Sys
<1>2. PICK tree : \/ o = Returns(Sys(tree, NoFds), Failed)
                  \/ o = Returns(Sys(tree, NoFds), TableFull)
                  \/ \E fd : o = Returns(SetFd(Sys(tree, NoFds), fd, File(path, 0)), fd)
  BY <1>1 DEF SysOpen, TakeFd, Sys
<1> HIDE DEF o
<1>3. CASE o = Returns(Sys(tree, NoFds), Failed) \/ o = Returns(Sys(tree, NoFds), TableFull)
  BY <1>3, NotFds DEF HasFd, Quiet, Returns, o
<1>4. ASSUME NEW fd, o = Returns(SetFd(Sys(tree, NoFds), fd, File(path, 0)), fd)
      PROVE  (Quiet(o.sys) /\ ~HasFd(o)) \/ (HasFd(o) /\ OneOpen(o.sys, o.ret))
  <2>1. o.ret = fd /\ o.sys = Sys(tree, [NoFds EXCEPT ![fd] = File(path, 0)])
    BY <1>4 DEF Returns, SetFd, Sys
  <2>2. CASE fd \in Fds
    BY <2>1, <2>2 DEF OneOpen, HasFd
  <2>3. CASE fd \notin Fds
    BY <2>1, <2>3 DEF HasFd, Quiet, NoFds
  <2> QED BY <2>2, <2>3
<1> QED BY <1>2, <1>3, <1>4 DEF o

(* What one call puts in the place of the descriptor that is open.         *)
LEMMA SetOne ==
  ASSUME NEW s, NEW fd \in Fds, OneOpen(s, fd), NEW tree, NEW path, NEW offset
  PROVE  /\ OneOpen(SetFd(s, fd, File(path, offset)), fd)
         /\ OneOpen(SetFd(Sys(tree, s.fds), fd, File(path, offset)), fd)
         /\ Quiet(SetFd(s, fd, Closed)) /\ IsOpen(s, fd)
<1>1. PICK t0, p0, o0 : s = Sys(t0, [NoFds EXCEPT ![fd] = File(p0, o0)])
  BY DEF OneOpen
<1>2. [s.fds EXCEPT ![fd] = File(path, offset)] = [NoFds EXCEPT ![fd] = File(path, offset)]
  BY <1>1 DEF NoFds, Sys
<1>3. [s.fds EXCEPT ![fd] = Closed] = NoFds
  BY <1>1 DEF NoFds, Sys
<1>4. IsOpen(s, fd)
  BY <1>1 DEF IsOpen, NoFds, Sys, File
<1> QED BY <1>2, <1>3, <1>4 DEF SetFd, Sys, OneOpen, Quiet

LEMMA ReadOne ==
  ASSUME NEW s, NEW fd \in Fds, OneOpen(s, fd), NEW len
  PROVE  OneOpen(SysRead(s, fd, len).sys, fd)
<1>1. \/ SysRead(s, fd, len).sys = s
      \/ \E path, end : SysRead(s, fd, len).sys = SetFd(s, fd, File(path, end))
  BY DEF SysRead, ReadNode, ReadFrom, Returns
<1> QED BY <1>1, SetOne

LEMMA WriteOne ==
  ASSUME NEW s, NEW fd \in Fds, OneOpen(s, fd), NEW data
  PROVE  OneOpen(SysWrite(s, fd, data).sys, fd)
<1>1. \/ SysWrite(s, fd, data).sys = s
      \/ \E tree, path, end :
           SysWrite(s, fd, data).sys = SetFd(Sys(tree, s.fds), fd, File(path, end))
  BY DEF SysWrite, WriteInto, Returns
<1> QED BY <1>1, SetOne

LEMMA CloseOne ==
  ASSUME NEW s, NEW fd \in Fds, OneOpen(s, fd)
  PROVE  Quiet(SysClose(s, fd).sys)
BY SetOne DEF SysClose, Returns

LEMMA CloseQuiet ==
  ASSUME NEW s, Quiet(s), NEW fd
  PROVE  Quiet(SysClose(s, fd).sys)
<1>1. s.fds = NoFds
  BY DEF Quiet, Sys
<1>2. ~IsOpen(s, fd)
  BY <1>1 DEF IsOpen, NoFds, Closed
<1> QED BY <1>2 DEF SysClose, Returns
-----------------------------------------------------------------------------
(* Whatever the desktop does with a file, nothing is left open.            *)
LEMMA ClosedAfter ==
  ASSUME NEW s, NEW fd \in Fds, OneOpen(s, fd), NEW len, NEW data
  PROVE  /\ Quiet(CloseAfter(SysRead(s, fd, len), fd).sys)
         /\ Quiet(CloseAfter(SysWrite(s, fd, data), fd).sys)
<1>1. \A r : "sys" \in DOMAIN r => CloseAfter(r, fd).sys = SysClose(r.sys, fd).sys
  BY DEF CloseAfter
<1>2. "sys" \in DOMAIN SysRead(s, fd, len) /\ "sys" \in DOMAIN SysWrite(s, fd, data)
  BY DEF SysRead, ReadNode, ReadFrom, SysWrite, WriteInto, Returns
<1> QED BY <1>1, <1>2, ReadOne, WriteOne, CloseOne

LEMMA ReadAllQuiet ==
  ASSUME NEW s, Quiet(s), NEW path
  PROVE  Quiet(ReadAll(s, path).sys)
<1> DEFINE o == SysOpen(s, path)
<1>1. CASE Quiet(o.sys) /\ ~HasFd(o)
  BY <1>1 DEF ReadAll, ReadOpened, Returns
<1>2. CASE HasFd(o) /\ OneOpen(o.sys, o.ret)
  BY <1>2, ClosedAfter DEF HasFd, ReadAll, ReadOpened
<1> QED BY <1>1, <1>2, OpenOne

LEMMA WriteAllQuiet ==
  ASSUME NEW s, Quiet(s), NEW path, NEW data
  PROVE  Quiet(WriteAll(s, path, data))
<1> DEFINE o == SysOpen(s, path)
<1>1. CASE Quiet(o.sys) /\ ~HasFd(o)
  BY <1>1 DEF WriteAll, WriteOpened
<1>2. CASE HasFd(o) /\ OneOpen(o.sys, o.ret)
  BY <1>2, ClosedAfter DEF HasFd, WriteAll, WriteOpened
<1> QED BY <1>1, <1>2, OpenOne

LEMMA MakingQuiet ==
  ASSUME NEW s, Quiet(s), NEW path
  PROVE  Quiet(SysMkdir(s, path).sys) /\ Quiet(SysRemove(s, path).sys)
<1>1. s.fds = NoFds
  BY DEF Quiet, Sys
<1>2. \E tree : SysMkdir(s, path).sys = Sys(tree, s.fds)
  BY DEF SysMkdir, Changed, Returns
<1>3. \E tree : SysRemove(s, path).sys = Sys(tree, s.fds)
  BY DEF SysRemove, Changed, Returns
<1> QED BY <1>1, <1>2, <1>3 DEF Quiet

LEMMA DrawQuiet ==
  ASSUME NEW s, Quiet(s), NEW f
  PROVE  Quiet(Draw(f, s))
BY ReadAllQuiet DEF Draw, DrawRows, List, Listing

LEMMA ClickQuiet ==
  ASSUME NEW s, Quiet(s), NEW f, NEW row
  PROVE  Quiet(ClickRow(f, s, row).sys)
BY ReadAllQuiet DEF ClickRow, ClickListed, List, Listing, Does

LEMMA ModalQuiet ==
  ASSUME NEW s, Quiet(s), NEW f
  PROVE  Quiet(ExecuteModal(f, s).sys)
<1>1. Quiet(RemoveSelected(f, s))
  BY ReadAllQuiet, MakingQuiet DEF RemoveSelected, RemoveRow, List, Listing
<1> QED BY <1>1, MakingQuiet, WriteAllQuiet DEF ExecuteModal, Does

LEMMA CommandQuiet ==
  ASSUME NEW s, Quiet(s), NEW command \in Commands, NEW path, NEW text
  PROVE  Quiet(RunCommand(s, command, path, text))
<1>1. command = "touch" => Quiet(RunCommand(s, command, path, text))
  BY OpenOne, CloseOne DEF RunCommand, TouchOpened, HasFd
<1> QED
  BY <1>1, ReadAllQuiet, WriteAllQuiet, MakingQuiet DEF RunCommand, Commands

IsQuiet == Quiet(sys)

LEMMA QuietStep == IsQuiet /\ [Next]_vars => IsQuiet'
<1> SUFFICES ASSUME Quiet(sys), [Next]_vars PROVE Quiet(sys')
  BY DEF IsQuiet
<1>1. CASE sys' = sys
  BY <1>1
<1>2. CASE Turn
  <2>1. ASSUME NEW row, Click(row) PROVE Quiet(sys')
    BY <2>1, ClickQuiet DEF Click, Handled
  <2>2. CASE Toolbar \/ Type \/ Cancel
    BY <1>1, <2>2 DEF Toolbar, Type, Cancel, Button
  <2>3. CASE Confirm
    BY <2>3, ModalQuiet DEF Confirm, Handled
  <2>4. CASE DrawFrame
    BY <2>4, DrawQuiet DEF DrawFrame
  <2>5. CASE Radiate
    <3>1. Quiet(Hurt(sys))
      BY DEF Quiet, Hurt, Sys
    <3> QED BY <2>5, <3>1, ReadAllQuiet DEF Radiate
  <2>6. ASSUME NEW command \in Commands, NEW path, NEW text, Console(command, path, text)
        PROVE  Quiet(sys')
    BY <2>6, CommandQuiet DEF Console
  <2> QED BY <1>2, <2>1, <2>2, <2>3, <2>4, <2>5, <2>6 DEF Turn, Browse
<1>3. CASE Exit
  BY <1>3, CloseQuiet DEF Exit
<1>4. CASE ~Turn /\ ~Exit
  BY <1>1, <1>4 DEF Next, MapProgramPage, EnterUserMode, StartDesktop, MapFramebuffer, Halt,
                    vars, desktopVars
<1> QED BY <1>2, <1>3, <1>4

(* The desktop closes every descriptor it is given, on every path through  *)
(* its handlers, so that the table never fills (console.rs, file_manager). *)
THEOREM DescriptorsStayReturned == Spec => []DescriptorsAreReturned
<1>1. Init => IsQuiet
  BY DEF Init, IsQuiet, Quiet, NoFds
<1>2. IsQuiet => DescriptorsAreReturned
  BY DEF IsQuiet, Quiet, Sys, NoFds, DescriptorsAreReturned, IsOpen, Closed
<1> QED BY <1>1, <1>2, QuietStep, PTL DEF Spec
-----------------------------------------------------------------------------
(* Trees of the user's file system, and what it is for one to have grown   *)
(* into another: nodes and entries were added, and bytes may have changed. *)
Tree(t) == IsTree(t, Components, Nat)
Node == NodeType(Components, Nat)
Link == [name : Seq(Components), node : Nat]

Grows(t, u) ==
  /\ DOMAIN t \subseteq DOMAIN u
  /\ \A i \in DOMAIN t :
       /\ u[i].kind = t[i].kind /\ DOMAIN t[i].entries \subseteq DOMAIN u[i].entries
       /\ \A k \in DOMAIN t[i].entries : u[i].entries[k] = t[i].entries[k]

LEMMA SetInduction ==
  ASSUME NEW T, 0 \in T, \A n \in Nat : n \in T => n + 1 \in T
  PROVE  Nat \subseteq T
<1> SUFFICES ASSUME Nat \ T # {} PROVE FALSE
  OBVIOUS
<1> DEFINE R == OpToRel(<, Nat)
<1>1. \A x, y \in Nat : x < y => <<x, y>> \in R
  BY DEF OpToRel
<1>2. IsWellFoundedOn(R, Nat)
  BY NatLessThanWellFounded
<1> HIDE DEF R
<1>3. PICK x \in Nat \ T : \A y \in Nat \ T : ~(<<y, x>> \in R)
  BY <1>2, WFMin
<1>4. x # 0 /\ x - 1 \in Nat /\ (x - 1) + 1 = x /\ x - 1 < x
  OBVIOUS
<1> QED BY <1>1, <1>3, <1>4

LEMMA TreeNode ==
  ASSUME NEW t, Tree(t)
  PROVE  /\ Size(t) \in Nat \ {0} /\ DOMAIN t = 0 .. Size(t) - 1 /\ Root \in DOMAIN t
         /\ t = [i \in DOMAIN t |-> t[i]]
         /\ \A i \in DOMAIN t :
              /\ t[i] \in Node /\ t[i].kind \in {"dir", "file"} /\ t[i].data \in Seq(Nat)
              /\ t[i].entries \in Seq(Link)
              /\ Len(t[i].entries) \in Nat /\ DOMAIN t[i].entries = 1 .. Len(t[i].entries)
              /\ \A k \in DOMAIN t[i].entries :
                   /\ t[i].entries[k] \in Link /\ t[i].entries[k].name \in Seq(Components)
                   /\ t[i].entries[k].node \in DOMAIN t \ {Root}
<1>1. Size(t) \in Nat \ {0} /\ t \in [0 .. Size(t) - 1 -> Node]
  BY DEF Tree, IsTree, Node
<1>2. DOMAIN t = 0 .. Size(t) - 1 /\ Root \in DOMAIN t /\ t = [i \in DOMAIN t |-> t[i]]
  BY <1>1 DEF Root
<1>3. ASSUME NEW i \in DOMAIN t
      PROVE  /\ t[i] \in Node /\ t[i].kind \in {"dir", "file"} /\ t[i].data \in Seq(Nat)
             /\ t[i].entries \in Seq(Link)
  <2>1. t[i] \in Node
    BY <1>1, <1>3
  <2> QED BY <2>1 DEF Node, NodeType, Link
<1>4. ASSUME NEW i \in DOMAIN t
      PROVE  /\ Len(t[i].entries) \in Nat /\ DOMAIN t[i].entries = 1 .. Len(t[i].entries)
             /\ \A k \in DOMAIN t[i].entries : t[i].entries[k] \in Link
  BY <1>3, LenProperties, ElementOfSeq
<1>5. \A i \in DOMAIN t : \A k \in DOMAIN t[i].entries : t[i].entries[k].node \in DOMAIN t \ {Root}
  BY DEF Tree, IsTree, EntryAt
<1>6. \A l \in Link : l.name \in Seq(Components)
  BY DEF Link
<1> QED BY <1>1, <1>2, <1>3, <1>4, <1>5, <1>6

(* No name and no node is entered twice.                                   *)
LEMMA TreeLinks ==
  ASSUME NEW t, Tree(t), NEW i \in DOMAIN t, NEW j \in DOMAIN t,
         NEW k \in DOMAIN t[i].entries, NEW l \in DOMAIN t[j].entries
  PROVE  /\ t[i].entries[k].node = t[j].entries[l].node => i = j /\ k = l
         /\ i = j /\ t[i].entries[k].name = t[i].entries[l].name => k = l
BY DEF Tree, IsTree, EntryAt

LEMMA TreeNames ==
  ASSUME NEW t, Tree(t), NEW i \in DOMAIN t
  PROVE  /\ t[i].kind = "file" => t[i].entries = <<>>
         /\ \A k \in DOMAIN t[i].entries : i # Root => Len(t[i].entries[k].name) = 1
         /\ \A name : name \in EntryNames(t, i) <=>
              \E k \in DOMAIN t[i].entries : t[i].entries[k].name = name
BY DEF Tree, IsTree, EntryAt, EntryNames, Range

(* The entry of a name.                                                    *)
LEMMA PlaceIs ==
  ASSUME NEW t, Tree(t), NEW i \in DOMAIN t, NEW k \in DOMAIN t[i].entries
  PROVE  Place(t[i].entries, t[i].entries[k].name) = k
<1> DEFINE name == t[i].entries[k].name
           I == { n \in 1 .. Len(t[i].entries) : t[i].entries[n].name = name }
<1>1. I = {k} /\ k \in Int
  BY TreeNode, TreeLinks
<1>2. Place(t[i].entries, name) = Min(I)
  BY <1>1 DEF Place, SelectInSeq
<1>3. Min({k}) = k
  BY <1>1 DEF Min
<1> QED BY <1>1, <1>2, <1>3

LEMMA FindIs ==
  ASSUME NEW t, Tree(t), NEW d \in DOMAIN t, NEW c
  PROVE  /\ \A k \in DOMAIN t[d].entries :
              t[d].entries[k].name = <<c>> => Find(t, d, c) = t[d].entries[k].node
         /\ Find(t, d, c) # NoNode =>
              \E k \in DOMAIN t[d].entries :
                t[d].entries[k].name = <<c>> /\ Find(t, d, c) = t[d].entries[k].node
         /\ Find(t, d, c) \in DOMAIN t \cup {NoNode}
<1>1. ASSUME NEW k \in DOMAIN t[d].entries, t[d].entries[k].name = <<c>>
      PROVE  Find(t, d, c) = t[d].entries[k].node
  BY <1>1, PlaceIs, TreeNames DEF Find
<1>2. ~(\E k \in DOMAIN t[d].entries : t[d].entries[k].name = <<c>>) => Find(t, d, c) = NoNode
  BY TreeNames DEF Find
<1>3. \A k \in DOMAIN t[d].entries : t[d].entries[k].node \in DOMAIN t
  BY TreeNode
<1> QED BY <1>1, <1>2, <1>3
-----------------------------------------------------------------------------
(* Looking a path up, a component at a time.                               *)
Step(t, i, c) == IF IsDir(t, i) THEN Find(t, i, c) ELSE NoNode
Walk(t, path) ==
  LET at[k \in 0 .. Len(path)] ==
        IF k = 0 THEN Root ELSE Step(t, at[k - 1], path[k])
  IN  at

LEMMA WalkIs ==
  ASSUME NEW t, NEW path, Len(path) \in Nat
  PROVE  /\ Resolve(t, path) = Walk(t, path)[Len(path)]
         /\ Walk(t, path)[0] = Root
         /\ \A k \in 1 .. Len(path) :
              Walk(t, path)[k] = Step(t, Walk(t, path)[k - 1], path[k])
<1> DEFINE size == Len(path)
           Defines(g, n) ==
             g = [k \in 0 .. n |-> IF k = 0 THEN Root ELSE Step(t, g[k - 1], path[k])]
           T == { n \in Nat : \E g : Defines(g, n) }
<1>1. Resolve(t, path) = Walk(t, path)[size]
  BY DEF Resolve, Walk, Step
<1>2. size \in Nat
  OBVIOUS
<1> HIDE DEF size
<1>3. 0 \in T
  <2> DEFINE g == [k \in 0 .. 0 |-> Root]
  <2>1. Defines(g, 0)
    OBVIOUS
  <2> HIDE DEF Defines
  <2> QED BY <2>1
<1>4. ASSUME NEW n \in Nat, n \in T PROVE n + 1 \in T
  <2>1. PICK g : Defines(g, n)
    BY <1>4
  <2> DEFINE h == [k \in 0 .. n + 1 |->
                     IF k = n + 1 THEN Step(t, g[n], path[n + 1]) ELSE g[k]]
  <2>2. ASSUME NEW k \in 0 .. n + 1
        PROVE  h[k] = IF k = 0 THEN Root ELSE Step(t, h[k - 1], path[k])
    <3>1. CASE k = n + 1
      BY <3>1
    <3>2. CASE k \in 0 .. n
      <4>1. h[k] = g[k] /\ (k # 0 => h[k - 1] = g[k - 1])
        BY <3>2
      <4>2. g[k] = IF k = 0 THEN Root ELSE Step(t, g[k - 1], path[k])
        BY <2>1, <3>2
      <4> QED BY <4>1, <4>2
    <3> QED BY <3>1, <3>2
  <2>3. h = [k \in 0 .. n + 1 |-> h[k]]
    OBVIOUS
  <2> HIDE DEF h
  <2>4. Defines(h, n + 1)
    BY <2>2, <2>3
  <2> HIDE DEF Defines
  <2>5. (\E f : Defines(f, n + 1)) /\ n + 1 \in Nat
    BY <2>4
  <2> QED BY <2>5
<1>5. size \in T
  <2> HIDE DEF T
  <2> QED BY <1>2, <1>3, <1>4, SetInduction
<1>6. \E g : Defines(g, size)
  BY <1>5
<1>7. Defines(Walk(t, path), size)
  BY <1>6 DEF Walk, size
<1> QED BY <1>1, <1>2, <1>7 DEF size

(* Paths that agree are looked up alike as far as they do.                 *)
LEMMA WalksAgree ==
  ASSUME NEW t, NEW p, NEW q, Len(p) \in Nat, Len(q) \in Nat, NEW n \in Nat,
         n <= Len(p), n <= Len(q), \A k \in 1 .. n : p[k] = q[k]
  PROVE  Walk(t, p)[n] = Walk(t, q)[n]
<1> DEFINE T == { k \in Nat : k <= n => Walk(t, p)[k] = Walk(t, q)[k] }
<1>1. 0 \in T
  BY WalkIs
<1>2. ASSUME NEW k \in Nat, k \in T PROVE k + 1 \in T
  <2> SUFFICES ASSUME k + 1 <= n PROVE Walk(t, p)[k + 1] = Walk(t, q)[k + 1]
    OBVIOUS
  <2>1. /\ k + 1 \in 1 .. Len(p) /\ k + 1 \in 1 .. Len(q) /\ k + 1 \in 1 .. n
        /\ (k + 1) - 1 = k /\ Walk(t, p)[k] = Walk(t, q)[k]
    BY <1>2
  <2>2. Walk(t, p)[k + 1] = Step(t, Walk(t, p)[(k + 1) - 1], p[k + 1])
    BY <2>1, WalkIs
  <2>3. Walk(t, q)[k + 1] = Step(t, Walk(t, q)[(k + 1) - 1], q[k + 1])
    BY <2>1, WalkIs
  <2> QED BY <2>1, <2>2, <2>3
<1>3. n \in T
  <2> HIDE DEF T
  <2> QED BY <1>1, <1>2, SetInduction
<1> QED BY <1>3

Path == Seq(Components)

LEMMA FrontIs ==
  ASSUME NEW p \in Path, p # <<>>
  PROVE  /\ Len(p) \in Nat \ {0} /\ Front(p) \in Path /\ Len(Front(p)) = Len(p) - 1
         /\ \A k \in 1 .. Len(p) - 1 : Front(p)[k] = p[k]
         /\ Last(p) \in Components /\ Last(p) = p[Len(p)]
         /\ Above(p) = Front(p) /\ NameOf(p) = <<Last(p)>> /\ NameOf(p) \in Path
         /\ Len(NameOf(p)) = 1
<1>1. Len(p) \in Nat \ {0}
  BY EmptySeq DEF Path
<1>2. \A k \in 1 .. Len(p) : p[k] \in Components
  BY ElementOfSeq DEF Path
<1>3. \A k \in 1 .. Len(p) - 1 : p[k] \in Components
  BY <1>1, <1>2
<1>4. /\ SubSeq(p, 1, Len(p) - 1) \in Path
      /\ Len(SubSeq(p, 1, Len(p) - 1)) = IF 1 <= Len(p) - 1 THEN Len(p) - 1 - 1 + 1 ELSE 0
      /\ \A k \in 1 .. Len(p) - 1 - 1 + 1 : SubSeq(p, 1, Len(p) - 1)[k] = p[1 + k - 1]
  BY <1>1, <1>3, SubSeqProperties DEF Path
<1>5. Len(Front(p)) = Len(p) - 1 /\ Front(p) \in Path
  <2>1. (IF 1 <= Len(p) - 1 THEN Len(p) - 1 - 1 + 1 ELSE 0) = Len(p) - 1
    BY <1>1
  <2>2. Front(p) = SubSeq(p, 1, Len(p) - 1)
    BY DEF Front
  <2> QED BY <1>4, <2>1, <2>2
<1>6. \A k \in 1 .. Len(p) - 1 : Front(p)[k] = p[k]
  BY <1>1, <1>4 DEF Front
<1>7. Last(p) \in Components /\ Last(p) = p[Len(p)]
  BY <1>1, <1>2 DEF Last
<1>8. Above(p) = Front(p) /\ NameOf(p) = <<Last(p)>>
  BY DEF Above, NameOf
<1>9. <<Last(p)>> \in Path /\ Len(<<Last(p)>>) = 1
  BY <1>7 DEF Path
<1> QED BY <1>1, <1>5, <1>6, <1>7, <1>8, <1>9

LEMMA ResolveIs ==
  ASSUME NEW t, NEW p \in Path
  PROVE  /\ Resolve(t, <<>>) = Root
         /\ p # <<>> => Resolve(t, p) = Step(t, Resolve(t, Front(p)), Last(p))
<1>1. Resolve(t, <<>>) = Root
  BY WalkIs, EmptySeq
<1>2. ASSUME p # <<>> PROVE Resolve(t, p) = Step(t, Resolve(t, Front(p)), Last(p))
  <2> DEFINE n == Len(p) - 1
  <2>1. /\ Len(p) \in Nat /\ Len(p) \in 1 .. Len(p) /\ n \in Nat /\ n <= Len(p)
        /\ Len(Front(p)) = n /\ \A k \in 1 .. n : Front(p)[k] = p[k]
    BY <1>2, FrontIs
  <2>2. Resolve(t, Front(p)) = Walk(t, Front(p))[n]
    BY <2>1, WalkIs
  <2>3. Walk(t, Front(p))[n] = Walk(t, p)[n]
    BY <2>1, WalksAgree
  <2>4. Resolve(t, p) = Step(t, Walk(t, p)[Len(p) - 1], p[Len(p)])
    BY <2>1, WalkIs
  <2> QED BY <1>2, <2>2, <2>3, <2>4, FrontIs
<1> QED BY <1>1, <1>2
-----------------------------------------------------------------------------
(* A path leads to a node, through entries of directories.                 *)
LEMMA ResolveTypes ==
  ASSUME NEW t, Tree(t), NEW p \in Path
  PROVE  Resolve(t, p) \in DOMAIN t \cup {NoNode}
<1> DEFINE T == { n \in Nat : \A q \in Path :
                    Len(q) = n => Resolve(t, q) \in DOMAIN t \cup {NoNode} }
<1>1. 0 \in T
  <2>1. \A q \in Path : Len(q) = 0 => q = <<>>
    BY EmptySeq DEF Path
  <2>2. Resolve(t, <<>>) \in DOMAIN t
    <3>1. <<>> \in Path
      BY EmptySeq DEF Path
    <3>2. Resolve(t, <<>>) = Root
      BY <3>1, ResolveIs
    <3> QED BY <3>2, TreeNode
  <2> QED BY <2>1, <2>2
<1>2. ASSUME NEW n \in Nat, n \in T PROVE n + 1 \in T
  <2> SUFFICES ASSUME NEW q \in Path, Len(q) = n + 1
               PROVE  Resolve(t, q) \in DOMAIN t \cup {NoNode}
    OBVIOUS
  <2>1. q # <<>> /\ Len(q) - 1 = n
    BY EmptySeq
  <2>2. Front(q) \in Path /\ Len(Front(q)) = n
    BY <2>1, FrontIs
  <2>3. Resolve(t, Front(q)) \in DOMAIN t \cup {NoNode}
    BY <1>2, <2>2
  <2> HIDE DEF T
  <2>4. Resolve(t, q) = Step(t, Resolve(t, Front(q)), Last(q))
    BY <2>1, ResolveIs
  <2> QED BY <2>3, <2>4, FindIs DEF Step, IsDir
<1>3. Len(p) \in T
  <2>1. Len(p) \in Nat
    BY LenProperties DEF Path
  <2> HIDE DEF T
  <2> QED BY <2>1, <1>1, <1>2, SetInduction
<1> QED BY <1>3

LEMMA ResolveNode ==
  ASSUME NEW t, Tree(t), NEW p \in Path, Resolve(t, p) # NoNode
  PROVE  /\ Resolve(t, p) \in DOMAIN t
         /\ p # <<>> =>
              /\ Resolve(t, Front(p)) \in DOMAIN t /\ IsDir(t, Resolve(t, Front(p)))
              /\ Resolve(t, p) # Root
              /\ \E k \in DOMAIN t[Resolve(t, Front(p))].entries :
                   /\ t[Resolve(t, Front(p))].entries[k].name = <<Last(p)>>
                   /\ t[Resolve(t, Front(p))].entries[k].node = Resolve(t, p)
<1>1. Resolve(t, p) \in DOMAIN t
  BY ResolveTypes
<1>2. ASSUME p # <<>>
      PROVE  LET d == Resolve(t, Front(p))
             IN  /\ d \in DOMAIN t /\ IsDir(t, d) /\ Resolve(t, p) # Root
                 /\ \E k \in DOMAIN t[d].entries :
                      t[d].entries[k].name = <<Last(p)>> /\ t[d].entries[k].node = Resolve(t, p)
  <2> DEFINE d == Resolve(t, Front(p))
  <2>1. Resolve(t, p) = Step(t, d, Last(p)) /\ Front(p) \in Path
    BY <1>2, ResolveIs, FrontIs
  <2>2. d \in DOMAIN t \cup {NoNode}
    BY <2>1, ResolveTypes
  <2> HIDE DEF d
  <2>3. d \in DOMAIN t /\ IsDir(t, d) /\ Resolve(t, p) = Find(t, d, Last(p))
    BY <2>1, <2>2 DEF Step, IsDir
  <2>4. PICK k \in DOMAIN t[d].entries :
          t[d].entries[k].name = <<Last(p)>> /\ Find(t, d, Last(p)) = t[d].entries[k].node
    BY <2>3, FindIs
  <2>5. t[d].entries[k].node \in DOMAIN t \ {Root}
    BY <2>3, TreeNode
  <2> QED BY <2>3, <2>4, <2>5 DEF d
<1> QED BY <1>1, <1>2

(* Only one path leads to a node.                                          *)
LEMMA ResolveUnique ==
  ASSUME NEW t, Tree(t), NEW p \in Path, NEW q \in Path,
         Resolve(t, p) # NoNode, Resolve(t, q) = Resolve(t, p)
  PROVE  p = q
<1> DEFINE T == { n \in Nat : \A a, b \in Path :
                    Len(a) = n /\ Resolve(t, a) # NoNode /\ Resolve(t, b) = Resolve(t, a)
                      => a = b }
<1>1. 0 \in T
  <2> SUFFICES ASSUME NEW a \in Path, NEW b \in Path, Len(a) = 0,
                      Resolve(t, a) # NoNode, Resolve(t, b) = Resolve(t, a)
               PROVE  a = b
    OBVIOUS
  <2>1. a = <<>>
    BY EmptySeq DEF Path
  <2>2. Resolve(t, b) = Root
    BY <2>1, ResolveIs
  <2> QED BY <2>1, <2>2, ResolveNode
<1>2. ASSUME NEW n \in Nat, n \in T PROVE n + 1 \in T
  <2> SUFFICES ASSUME NEW a \in Path, NEW b \in Path, Len(a) = n + 1,
                      Resolve(t, a) # NoNode, Resolve(t, b) = Resolve(t, a)
               PROVE  a = b
    OBVIOUS
  <2>1. a # <<>> /\ Len(a) - 1 = n
    BY EmptySeq
  <2>2. b # <<>>
    BY <2>1, ResolveIs, ResolveNode
  <2>3. /\ Front(a) \in Path /\ Front(b) \in Path /\ Len(Front(a)) = n
        /\ Last(a) \in Components /\ Last(b) \in Components
    BY <2>1, <2>2, FrontIs
  <2>4. PICK k \in DOMAIN t[Resolve(t, Front(a))].entries :
          /\ t[Resolve(t, Front(a))].entries[k].name = <<Last(a)>>
          /\ t[Resolve(t, Front(a))].entries[k].node = Resolve(t, a)
    BY <2>1, ResolveNode
  <2>5. PICK l \in DOMAIN t[Resolve(t, Front(b))].entries :
          /\ t[Resolve(t, Front(b))].entries[l].name = <<Last(b)>>
          /\ t[Resolve(t, Front(b))].entries[l].node = Resolve(t, b)
    BY <2>2, ResolveNode
  <2>6. Resolve(t, Front(a)) \in DOMAIN t /\ Resolve(t, Front(b)) \in DOMAIN t
    BY <2>1, <2>2, ResolveNode
  <2>7. Resolve(t, Front(a)) = Resolve(t, Front(b)) /\ k = l
    BY <2>4, <2>5, <2>6, TreeLinks
  <2>8. Front(a) = Front(b)
    <3>1. Resolve(t, Front(a)) # NoNode
      BY <2>6, TreeNode DEF NoNode
    <3> QED BY <1>2, <2>3, <2>7, <3>1
  <2> HIDE DEF T
  <2>9. Last(a) = Last(b)
    BY <2>4, <2>5, <2>7
  <2>10. \A c \in Path : c # <<>> =>
           /\ Len(c) \in Nat \ {0} /\ Len(Front(c)) = Len(c) - 1 /\ Last(c) = c[Len(c)]
           /\ \A i \in 1 .. Len(c) - 1 : Front(c)[i] = c[i]
    BY FrontIs
  <2>11. Len(b) = Len(a)
    BY <2>1, <2>2, <2>8, <2>10
  <2>12. ASSUME NEW i \in 1 .. Len(a) PROVE a[i] = b[i]
    <3>1. CASE i = Len(a)
      BY <2>1, <2>2, <2>9, <2>10, <2>11, <3>1
    <3>2. CASE i # Len(a)
      <4>1. i \in 1 .. Len(a) - 1
        BY <2>1, <2>10, <3>2
      <4> QED BY <2>1, <2>2, <2>8, <2>10, <2>11, <4>1
    <3> QED BY <3>1, <3>2
  <2> QED BY <2>11, <2>12, SeqEqual DEF Path
<1>3. Len(p) \in T
  <2>1. Len(p) \in Nat
    BY LenProperties DEF Path
  <2> HIDE DEF T
  <2> QED BY <2>1, <1>1, <1>2, SetInduction
<1> QED BY <1>3
-----------------------------------------------------------------------------
LEMMA ChildIs ==
  ASSUME NEW p \in Path, NEW c \in Components
  PROVE  /\ p \o <<c>> \in Path /\ p \o <<c>> # <<>>
         /\ Front(p \o <<c>>) = p /\ Last(p \o <<c>>) = c
<1> DEFINE q == p \o <<c>>
<1>1. <<c>> \in Path /\ Len(<<c>>) = 1 /\ <<c>>[1] = c
  BY DEF Path
<1>2. /\ q \in Path /\ Len(q) = Len(p) + 1 /\ Len(p) \in Nat
      /\ \A i \in 1 .. Len(p) + 1 : q[i] = IF i <= Len(p) THEN p[i] ELSE <<c>>[i - Len(p)]
  BY <1>1, ConcatProperties, LenProperties DEF Path
<1> HIDE DEF q
<1>3. q # <<>>
  BY <1>2, EmptySeq
<1>4. q[Len(p) + 1] = c
  BY <1>1, <1>2
<1>5. Last(q) = c
  BY <1>2, <1>3, <1>4, FrontIs
<1>6. /\ Front(q) \in Path /\ Len(Front(q)) = Len(p)
      /\ \A i \in 1 .. Len(p) : Front(q)[i] = q[i]
  <2>1. /\ Front(q) \in Path /\ Len(Front(q)) = Len(q) - 1
        /\ \A i \in 1 .. Len(q) - 1 : Front(q)[i] = q[i]
    BY <1>2, <1>3, FrontIs
  <2>2. Len(q) - 1 = Len(p)
    BY <1>2
  <2> QED BY <2>1, <2>2
<1>7. \A i \in 1 .. Len(p) : Front(q)[i] = p[i]
  BY <1>2, <1>6
<1>8. Front(q) = p
  BY <1>6, <1>7, SeqEqual DEF Path
<1> QED BY <1>2, <1>3, <1>5, <1>8 DEF q

LEMMA GrowsSelf == ASSUME NEW t, Tree(t) PROVE Grows(t, t)
BY DEF Grows

LEMMA GrowsTrans ==
  ASSUME NEW t, NEW u, NEW v, Grows(t, u), Grows(u, v)
  PROVE  Grows(t, v)
BY DEF Grows

(* What is found stays where it is found as the tree grows.                *)
LEMMA GrowsResolve ==
  ASSUME NEW t, NEW u, Tree(t), Tree(u), Grows(t, u), NEW p \in Path,
         Resolve(t, p) # NoNode
  PROVE  Resolve(u, p) = Resolve(t, p)
<1> DEFINE T == { n \in Nat : \A q \in Path :
                    Len(q) = n /\ Resolve(t, q) # NoNode => Resolve(u, q) = Resolve(t, q) }
<1>1. 0 \in T
  <2>1. \A q \in Path : Len(q) = 0 => q = <<>>
    BY EmptySeq DEF Path
  <2> QED BY <2>1, ResolveIs
<1>2. ASSUME NEW n \in Nat, n \in T PROVE n + 1 \in T
  <2> SUFFICES ASSUME NEW q \in Path, Len(q) = n + 1, Resolve(t, q) # NoNode
               PROVE  Resolve(u, q) = Resolve(t, q)
    OBVIOUS
  <2>1. q # <<>> /\ Len(q) - 1 = n
    BY EmptySeq
  <2>2. Front(q) \in Path /\ Len(Front(q)) = n
    BY <2>1, FrontIs
  <2> DEFINE d == Resolve(t, Front(q))
  <2>3. /\ d \in DOMAIN t /\ IsDir(t, d)
        /\ \E k \in DOMAIN t[d].entries :
             t[d].entries[k].name = <<Last(q)>> /\ t[d].entries[k].node = Resolve(t, q)
    BY <2>1, ResolveNode
  <2>4. Resolve(u, Front(q)) = d
    <3>1. d # NoNode
      BY <2>3, TreeNode DEF NoNode
    <3> QED BY <1>2, <2>2, <3>1
  <2>5. Resolve(u, q) = Step(u, Resolve(u, Front(q)), Last(q))
    BY <2>1, ResolveIs
  <2> HIDE DEF d, T
  <2>6. PICK k \in DOMAIN t[d].entries :
          t[d].entries[k].name = <<Last(q)>> /\ t[d].entries[k].node = Resolve(t, q)
    BY <2>3
  <2>7. /\ d \in DOMAIN u /\ IsDir(u, d) /\ k \in DOMAIN u[d].entries
        /\ u[d].entries[k] = t[d].entries[k]
    BY <2>3, <2>6 DEF Grows, IsDir
  <2>8. Find(u, d, Last(q)) = u[d].entries[k].node
    BY <2>6, <2>7, FindIs
  <2> QED BY <2>4, <2>5, <2>6, <2>7, <2>8 DEF Step
<1>3. Len(p) \in T
  <2>1. Len(p) \in Nat
    BY LenProperties DEF Path
  <2> HIDE DEF T
  <2> QED BY <2>1, <1>1, <1>2, SetInduction
<1> QED BY <1>3

LEMMA IntervalSize ==
  ASSUME NEW n \in Nat \ {0}
  PROVE  Cardinality(0 .. n - 1) = n
BY FS_Interval

(* What shows that something is a tree.                                    *)
LEMMA IsTreeBy ==
  ASSUME NEW t, NEW n \in Nat \ {0}, t \in [0 .. n - 1 -> Node], t[Root].kind = "dir",
         \A i \in 0 .. n - 1 : t[i].kind = "file" => t[i].entries = <<>>,
         \A i \in 0 .. n - 1 : \A k \in DOMAIN t[i].entries :
           /\ t[i].entries[k].node \in (0 .. n - 1) \ {Root}
           /\ i # Root => Len(t[i].entries[k].name) = 1,
         \A i, j \in 0 .. n - 1 : \A k \in DOMAIN t[i].entries, l \in DOMAIN t[j].entries :
           \/ t[i].entries[k].node = t[j].entries[l].node
           \/ i = j /\ t[i].entries[k].name = t[i].entries[l].name
           => i = j /\ k = l
  PROVE  Tree(t) /\ Size(t) = n /\ DOMAIN t = 0 .. n - 1
<1>1. DOMAIN t = 0 .. n - 1
  OBVIOUS
<1>2. Size(t) = n
  BY <1>1, IntervalSize DEF Size
<1>3. Size(t) \in Nat \ {0} /\ t \in [0 .. Size(t) - 1 -> NodeType(Components, Nat)]
  BY <1>2 DEF Node
<1>4. /\ \A i \in DOMAIN t : t[i].kind = "file" => t[i].entries = <<>>
      /\ \A i \in DOMAIN t : \A k \in DOMAIN t[i].entries :
           /\ EntryAt(t, i, k).node \in DOMAIN t \ {Root}
           /\ i # Root => Len(EntryAt(t, i, k).name) = 1
  BY <1>1 DEF EntryAt
<1>5. \A i, j \in DOMAIN t : \A k \in DOMAIN t[i].entries, l \in DOMAIN t[j].entries :
        \/ EntryAt(t, i, k).node = EntryAt(t, j, l).node
        \/ i = j /\ EntryAt(t, i, k).name = EntryAt(t, i, l).name
        => i = j /\ k = l
  BY <1>1 DEF EntryAt
<1> QED BY <1>1, <1>2, <1>3, <1>4, <1>5 DEF Tree, IsTree

LEMMA NewNodes ==
  /\ DirNode \in Node /\ DirNode.entries = <<>> /\ DirNode.kind = "dir"
  /\ FileNode \in Node /\ FileNode.entries = <<>> /\ FileNode.kind = "file"
  /\ DOMAIN DirNode.entries = {} /\ DOMAIN FileNode.entries = {}
<1>1. /\ <<>> \in Seq(Link) /\ <<>> \in Seq(Nat) /\ DOMAIN <<>> = {}
  BY EmptySeq
<1> QED BY <1>1 DEF Node, NodeType, Link, DirNode, FileNode

(* Bytes of a file are no part of the tree's shape.                        *)
LEMMA DataTree ==
  ASSUME NEW t, Tree(t), NEW i \in DOMAIN t, NEW data \in Seq(Nat)
  PROVE  LET u == [t EXCEPT ![i].data = data] IN Tree(u) /\ Grows(t, u) /\ Grows(u, t)
<1> DEFINE u == [t EXCEPT ![i].data = data]
           n == Size(t)
<1>1. n \in Nat \ {0} /\ DOMAIN t = 0 .. n - 1 /\ DOMAIN u = 0 .. n - 1 /\ Root \in DOMAIN t
  BY TreeNode
<1>2. \A j \in DOMAIN t : t[j] \in Node
  BY TreeNode
<1>3. ASSUME NEW j \in DOMAIN t
      PROVE  u[j].kind = t[j].kind /\ u[j].entries = t[j].entries /\ u[j] \in Node
  <2>1. CASE j # i
    BY <1>2, <2>1
  <2>2. CASE j = i
    BY <1>2, <2>2 DEF Node, NodeType
  <2> QED BY <2>1, <2>2
<1>4. u = [j \in 0 .. n - 1 |-> u[j]]
  BY <1>1
<1> HIDE DEF n, u
<1>5. u \in [0 .. n - 1 -> Node]
  BY <1>1, <1>3, <1>4
<1>6. t[Root].kind = "dir"
  BY DEF Tree, IsTree
<1>7. Tree(u)
  <2>1. u[Root].kind = "dir"
    BY <1>1, <1>3, <1>6
  <2>2. \A j \in 0 .. n - 1 : u[j].kind = "file" => u[j].entries = <<>>
    <3>1. \A j \in DOMAIN t : t[j].kind = "file" => t[j].entries = <<>>
      BY TreeNames
    <3> QED BY <1>1, <1>3, <3>1
  <2>3. \A j \in 0 .. n - 1 : \A k \in DOMAIN u[j].entries :
          /\ u[j].entries[k].node \in (0 .. n - 1) \ {Root}
          /\ j # Root => Len(u[j].entries[k].name) = 1
    <3>1. \A j \in DOMAIN t : \A k \in DOMAIN t[j].entries :
            /\ t[j].entries[k].node \in DOMAIN t \ {Root}
            /\ j # Root => Len(t[j].entries[k].name) = 1
      BY TreeNode, TreeNames
    <3> QED BY <1>1, <1>3, <3>1
  <2>4. \A j, h \in 0 .. n - 1 : \A k \in DOMAIN u[j].entries, l \in DOMAIN u[h].entries :
          \/ u[j].entries[k].node = u[h].entries[l].node
          \/ j = h /\ u[j].entries[k].name = u[j].entries[l].name
          => j = h /\ k = l
    <3>1. \A j, h \in DOMAIN t : \A k \in DOMAIN t[j].entries, l \in DOMAIN t[h].entries :
            \/ t[j].entries[k].node = t[h].entries[l].node
            \/ j = h /\ t[j].entries[k].name = t[j].entries[l].name
            => j = h /\ k = l
      BY TreeLinks
    <3> QED BY <1>1, <1>3, <3>1
  <2> QED BY <1>1, <1>5, <2>1, <2>2, <2>3, <2>4, IsTreeBy
<1>8. Grows(t, u) /\ Grows(u, t)
  BY <1>1, <1>3 DEF Grows
<1> QED BY <1>7, <1>8 DEF u

(* A node more, entered under a new name.                                  *)
LEMMA WithNodeTree ==
  ASSUME NEW t, Tree(t), NEW d \in DOMAIN t, t[d].kind = "dir",
         NEW name \in Path, name \notin EntryNames(t, d), d = Root \/ Len(name) = 1,
         NEW node \in {DirNode, FileNode}
  PROVE  LET u == WithNode(t, d, name, node)
         IN  /\ Tree(u) /\ Grows(t, u) /\ u[Size(t)] = node
             /\ \A i \in DOMAIN t \ {d} : u[i] = t[i]
             /\ u[d].entries = Append(t[d].entries, EntryFor(name, Size(t)))
<1> DEFINE u == WithNode(t, d, name, node)
           n == Size(t)
           e == EntryFor(name, n)
           m == Len(t[d].entries)
<1>1. /\ n \in Nat \ {0} /\ DOMAIN t = 0 .. n - 1 /\ Root \in DOMAIN t
      /\ DOMAIN u = 0 .. n /\ u = [i \in 0 .. n |-> u[i]]
  BY TreeNode DEF WithNode
<1>2. /\ \A i \in DOMAIN t \ {d} : u[i] = t[i]
      /\ u[n] = node
      /\ u[d] = [t[d] EXCEPT !.entries = Append(t[d].entries, e)]
  BY <1>1 DEF WithNode
<1>3. /\ e \in Link /\ e.name = name /\ e.node = n
  BY <1>1 DEF EntryFor, Link, Path
<1>4. /\ t[d].entries \in Seq(Link) /\ m \in Nat /\ DOMAIN t[d].entries = 1 .. m
      /\ t[d] \in Node
  BY TreeNode
<1> HIDE DEF u, n, e, m
<1>5. /\ u[d] \in Node /\ u[d].kind = "dir" /\ u[d].entries = Append(t[d].entries, e)
  <2>1. Append(t[d].entries, e) \in Seq(Link)
    BY <1>3, <1>4, AppendProperties
  <2> QED BY <1>2, <1>4, <2>1 DEF Node, NodeType, Link
<1>6. /\ DOMAIN u[d].entries = 1 .. m + 1 /\ u[d].entries[m + 1] = e
      /\ \A k \in 1 .. m : u[d].entries[k] = t[d].entries[k]
  <2>1. /\ Append(t[d].entries, e) \in Seq(Link) /\ Len(Append(t[d].entries, e)) = m + 1
        /\ \A k \in 1 .. m : Append(t[d].entries, e)[k] = t[d].entries[k]
        /\ Append(t[d].entries, e)[m + 1] = e
    BY <1>3, <1>4, AppendProperties DEF m
  <2> QED BY <1>5, <2>1, LenProperties
<1>7. /\ u[n] \in Node /\ DOMAIN u[n].entries = {}
      /\ u[n].kind = "file" => u[n].entries = <<>>
  BY <1>2, NewNodes
(* An entry of the new tree is one of the old tree or the new one.         *)
<1>8. ASSUME NEW i \in 0 .. n, NEW k \in DOMAIN u[i].entries
      PROVE  \/ i = d /\ k = m + 1 /\ u[i].entries[k] = e
             \/ /\ i \in DOMAIN t /\ k \in DOMAIN t[i].entries
                /\ u[i].entries[k] = t[i].entries[k]
  <2>1. CASE i = n
    BY <1>7, <2>1
  <2>2. CASE i = d
    <3>1. k \in 1 .. m + 1
      BY <1>6, <2>2
    <3>2. k = m + 1 \/ k \in 1 .. m
      BY <1>4, <3>1
    <3> QED BY <1>4, <1>6, <2>2, <3>2
  <2>3. CASE i # n /\ i # d
    <3>1. i \in DOMAIN t \ {d}
      BY <1>1, <2>3
    <3>2. u[i] = t[i]
      BY <1>2, <3>1
    <3> QED BY <3>1, <3>2
  <2> QED BY <2>1, <2>2, <2>3
<1>9. u \in [0 .. n -> Node]
  <2>1. ASSUME NEW i \in 0 .. n PROVE u[i] \in Node
    <3>1. CASE i = d \/ i = n
      BY <1>5, <1>7, <3>1
    <3>2. CASE i # d /\ i # n
      <4>1. i \in DOMAIN t
        BY <1>1, <3>2
      <4>2. u[i] = t[i]
        BY <1>2, <3>2, <4>1
      <4> QED BY <4>1, <4>2, TreeNode
    <3> QED BY <3>1, <3>2
  <2> QED BY <1>1, <2>1
<1>10. /\ u[Root].kind = "dir"
       /\ \A i \in 0 .. n : u[i].kind = "file" => u[i].entries = <<>>
  <2>1. t[Root].kind = "dir" /\ \A i \in DOMAIN t : t[i].kind = "file" => t[i].entries = <<>>
    BY DEF Tree, IsTree
  <2>2. u[Root].kind = "dir"
    BY <1>1, <1>2, <1>5, <2>1
  <2>3. \A i \in DOMAIN t \ {d} : u[i].kind = "file" => u[i].entries = <<>>
    BY <1>2, <2>1
  <2>4. u[d].kind # "file"
    BY <1>5
  <2>5. \A i \in 0 .. n : i = n \/ i = d \/ i \in DOMAIN t \ {d}
    BY <1>1
  <2> QED BY <1>7, <2>2, <2>3, <2>4, <2>5
<1>11. ASSUME NEW i \in 0 .. n, NEW k \in DOMAIN u[i].entries
       PROVE  /\ u[i].entries[k].node \in (0 .. n) \ {Root}
              /\ i # Root => Len(u[i].entries[k].name) = 1
  <2>1. CASE i = d /\ k = m + 1 /\ u[i].entries[k] = e
    <3>1. n # Root /\ n \in 0 .. n
      BY <1>1
    <3> QED BY <1>3, <2>1, <3>1
  <2>2. CASE /\ i \in DOMAIN t /\ k \in DOMAIN t[i].entries
             /\ u[i].entries[k] = t[i].entries[k]
    <3>1. t[i].entries[k].node \in DOMAIN t \ {Root}
      BY <2>2, TreeNode
    <3>2. i # Root => Len(t[i].entries[k].name) = 1
      BY <2>2, TreeNames
    <3> QED BY <1>1, <2>2, <3>1, <3>2
  <2> QED BY <1>8, <2>1, <2>2
<1>12. ASSUME NEW i \in DOMAIN t, NEW k \in DOMAIN t[i].entries
       PROVE  t[i].entries[k].node # n /\ (i = d => t[i].entries[k].name # name)
  <2>1. t[i].entries[k].node \in DOMAIN t
    BY TreeNode
  <2>2. i = d => t[i].entries[k].name \in EntryNames(t, d)
    BY TreeNames
  <2> QED BY <1>1, <2>1, <2>2
<1>13. ASSUME NEW i \in 0 .. n, NEW j \in 0 .. n,
              NEW k \in DOMAIN u[i].entries, NEW l \in DOMAIN u[j].entries,
              \/ u[i].entries[k].node = u[j].entries[l].node
              \/ i = j /\ u[i].entries[k].name = u[i].entries[l].name
       PROVE  i = j /\ k = l
  <2> DEFINE Old(h, o) == /\ h \in DOMAIN t /\ o \in DOMAIN t[h].entries
                          /\ u[h].entries[o] = t[h].entries[o]
             New(h, o) == h = d /\ o = m + 1 /\ u[h].entries[o] = e
  <2>1. (New(i, k) \/ Old(i, k)) /\ (New(j, l) \/ Old(j, l))
    BY <1>8
  <2>2. CASE New(i, k) /\ New(j, l)
    BY <2>2
  <2>3. CASE New(i, k) /\ Old(j, l)
    BY <1>3, <1>12, <1>13, <2>3
  <2>4. CASE Old(i, k) /\ New(j, l)
    BY <1>3, <1>12, <1>13, <2>4
  <2>5. CASE Old(i, k) /\ Old(j, l)
    BY <1>13, <2>5, TreeLinks
  <2> QED BY <2>1, <2>2, <2>3, <2>4, <2>5
<1>14. Tree(u)
  <2>1. n + 1 \in Nat \ {0} /\ (n + 1) - 1 = n
    BY <1>1
  <2> QED BY <2>1, <1>9, <1>10, <1>11, <1>13, IsTreeBy
<1>15. Grows(t, u)
  <2>1. DOMAIN t \subseteq DOMAIN u
    BY <1>1
  <2>2. \A k \in DOMAIN t[d].entries :
          k \in DOMAIN u[d].entries /\ u[d].entries[k] = t[d].entries[k]
    BY <1>4, <1>6
  <2> QED BY <1>2, <1>5, <2>1, <2>2 DEF Grows
<1> QED BY <1>2, <1>5, <1>14, <1>15 DEF u, n, e
-----------------------------------------------------------------------------
(* A sequence without one of its elements.                                 *)
Past(k, i) == IF i < k THEN i ELSE i + 1

LEMMA RemoveAtIs ==
  ASSUME NEW S, NEW s \in Seq(S), NEW k \in 1 .. Len(s)
  PROVE  /\ RemoveAt(s, k) \in Seq(S) /\ Len(RemoveAt(s, k)) = Len(s) - 1
         /\ \A i \in 1 .. Len(s) - 1 :
              Past(k, i) \in 1 .. Len(s) /\ RemoveAt(s, k)[i] = s[Past(k, i)]
<1> DEFINE m == Len(s)
           low == SubSeq(s, 1, k - 1)
           high == SubSeq(s, k + 1, m)
<1>1. m \in Nat /\ k \in 1 .. m /\ \A i \in 1 .. m : s[i] \in S
  BY LenProperties, ElementOfSeq
<1>2. /\ low \in Seq(S) /\ Len(low) = k - 1
      /\ \A i \in 1 .. k - 1 : low[i] = s[i]
  <2>1. \A i \in 1 .. k - 1 : s[i] \in S
    BY <1>1
  <2>2. /\ SubSeq(s, 1, k - 1) \in Seq(S)
        /\ Len(SubSeq(s, 1, k - 1)) = IF 1 <= k - 1 THEN (k - 1) - 1 + 1 ELSE 0
        /\ \A i \in 1 .. (k - 1) - 1 + 1 : SubSeq(s, 1, k - 1)[i] = s[1 + i - 1]
    BY <1>1, <2>1, SubSeqProperties
  <2> QED BY <1>1, <2>2
<1>3. /\ high \in Seq(S) /\ Len(high) = m - k
      /\ \A i \in 1 .. m - k : high[i] = s[k + i]
  <2>1. \A i \in k + 1 .. m : s[i] \in S
    BY <1>1
  <2>2. /\ SubSeq(s, k + 1, m) \in Seq(S)
        /\ Len(SubSeq(s, k + 1, m)) = IF k + 1 <= m THEN m - (k + 1) + 1 ELSE 0
        /\ \A i \in 1 .. m - (k + 1) + 1 : SubSeq(s, k + 1, m)[i] = s[(k + 1) + i - 1]
    BY <1>1, <2>1, SubSeqProperties
  <2>3. (IF k + 1 <= m THEN m - (k + 1) + 1 ELSE 0) = m - k /\ m - (k + 1) + 1 = m - k
    BY <1>1
  <2>4. \A i \in 1 .. m - k : (k + 1) + i - 1 = k + i
    BY <1>1
  <2> QED BY <2>2, <2>3, <2>4
<1>4. RemoveAt(s, k) = low \o high
  BY DEF RemoveAt
<1> HIDE DEF m, low, high
<1>5. /\ low \o high \in Seq(S) /\ Len(low \o high) = Len(low) + Len(high)
      /\ \A i \in 1 .. Len(low) + Len(high) :
           (low \o high)[i] = IF i <= Len(low) THEN low[i] ELSE high[i - Len(low)]
  BY <1>2, <1>3, ConcatProperties
<1>6. Len(low) + Len(high) = m - 1
  BY <1>1, <1>2, <1>3
<1>7. ASSUME NEW i \in 1 .. m - 1
      PROVE  Past(k, i) \in 1 .. m /\ (low \o high)[i] = s[Past(k, i)]
  <2>1. Past(k, i) \in 1 .. m
    BY <1>1 DEF Past
  <2>2. CASE i < k
    <3>1. i \in 1 .. k - 1 /\ i <= Len(low)
      BY <1>1, <1>2, <2>2
    <3> QED BY <1>2, <1>5, <1>6, <2>1, <2>2, <3>1 DEF Past
  <2>3. CASE ~(i < k)
    <3>1. i - (k - 1) \in 1 .. m - k /\ ~(i <= Len(low)) /\ k + (i - (k - 1)) = i + 1
      BY <1>1, <1>2, <2>3
    <3>2. (low \o high)[i] = high[i - (k - 1)]
      BY <1>2, <1>5, <1>6, <3>1
    <3>3. high[i - (k - 1)] = s[k + (i - (k - 1))]
      BY <1>3, <3>1
    <3> QED BY <2>1, <2>3, <3>1, <3>2, <3>3 DEF Past
  <2> QED BY <2>2, <2>3
<1> QED BY <1>4, <1>5, <1>6, <1>7 DEF m

LEMMA MinOfOne == ASSUME NEW k \in Int PROVE Min({k}) = k
BY DEF Min

(* The entry of a name, or of a node, goes.                                *)
LEMMA WithoutIs ==
  ASSUME NEW t, Tree(t), NEW d \in DOMAIN t, NEW k \in DOMAIN t[d].entries
  PROVE  /\ Without(t[d].entries, t[d].entries[k].name) = RemoveAt(t[d].entries, k)
         /\ WithoutNode(t[d].entries, t[d].entries[k].node) = RemoveAt(t[d].entries, k)
<1> DEFINE e == t[d].entries
           I == { n \in 1 .. Len(e) : e[n].name = e[k].name }
           J == { n \in 1 .. Len(e) : e[n].node = e[k].node }
<1>1. k \in 1 .. Len(e) /\ k \in Int
  BY TreeNode
<1>2. I = {k} /\ J = {k}
  BY <1>1, TreeNode, TreeLinks
<1>3. Without(e, e[k].name) = RemoveAt(e, Min(I))
  BY <1>1, <1>2 DEF Without, RemoveFirstMatch, SelectInSeq
<1>4. WithoutNode(e, e[k].node) = RemoveAt(e, Min(J))
  BY <1>1, <1>2 DEF WithoutNode, RemoveFirstMatch, SelectInSeq
<1> QED BY <1>1, <1>2, <1>3, <1>4, MinOfOne

LEMMA WithoutNone ==
  ASSUME NEW t, Tree(t), NEW d \in DOMAIN t
  PROVE  /\ \A name : name \notin EntryNames(t, d) => Without(t[d].entries, name) = t[d].entries
         /\ \A i : (\A k \in DOMAIN t[d].entries : t[d].entries[k].node # i)
              => WithoutNode(t[d].entries, i) = t[d].entries
<1>1. DOMAIN t[d].entries = 1 .. Len(t[d].entries)
  BY TreeNode
<1>2. ASSUME NEW name, name \notin EntryNames(t, d)
      PROVE  Without(t[d].entries, name) = t[d].entries
  <2>1. \A k \in DOMAIN t[d].entries : t[d].entries[k].name # name
    BY <1>2, TreeNames
  <2> QED BY <1>1, <2>1 DEF Without, RemoveFirstMatch
<1>3. ASSUME NEW i, \A k \in DOMAIN t[d].entries : t[d].entries[k].node # i
      PROVE  WithoutNode(t[d].entries, i) = t[d].entries
  BY <1>1, <1>3 DEF WithoutNode, RemoveFirstMatch
<1> QED BY <1>2, <1>3

Cut(t, d, k) == [t EXCEPT ![d].entries = RemoveAt(t[d].entries, k)]

LEMMA RemoveTree ==
  ASSUME NEW t, Tree(t), NEW d \in DOMAIN t, NEW k \in DOMAIN t[d].entries
  PROVE  LET u == Cut(t, d, k)
         IN  /\ Tree(u) /\ DOMAIN u = DOMAIN t
             /\ \A i \in DOMAIN t : u[i].kind = t[i].kind
             /\ \A i \in DOMAIN t \ {d} : u[i] = t[i]
             /\ Len(u[d].entries) = Len(t[d].entries) - 1
             /\ \A l \in DOMAIN u[d].entries :
                  /\ Past(k, l) \in DOMAIN t[d].entries
                  /\ u[d].entries[l] = t[d].entries[Past(k, l)]
<1> DEFINE r == RemoveAt(t[d].entries, k)
           u == Cut(t, d, k)
           n == Size(t)
           m == Len(t[d].entries)
<1>1. n \in Nat \ {0} /\ DOMAIN t = 0 .. n - 1 /\ DOMAIN u = 0 .. n - 1 /\ Root \in DOMAIN t
  BY TreeNode DEF Cut
<1>2. /\ t[d].entries \in Seq(Link) /\ m \in Nat /\ DOMAIN t[d].entries = 1 .. m
      /\ t[d] \in Node
  BY TreeNode
<1>3. /\ r \in Seq(Link) /\ Len(r) = m - 1
      /\ \A i \in 1 .. m - 1 : Past(k, i) \in 1 .. m /\ r[i] = t[d].entries[Past(k, i)]
  BY <1>2, RemoveAtIs
<1>4. /\ \A i \in DOMAIN t \ {d} : u[i] = t[i]
      /\ u[d] = [t[d] EXCEPT !.entries = r]
      /\ u = [i \in 0 .. n - 1 |-> u[i]]
  BY <1>1 DEF Cut
<1> HIDE DEF r
<1> HIDE DEF u, n, m
<1>5. u[d] \in Node /\ u[d].kind = t[d].kind /\ u[d].entries = r
  BY <1>2, <1>3, <1>4 DEF Node, NodeType, Link
<1>6. DOMAIN u[d].entries = 1 .. m - 1
  BY <1>3, <1>5, LenProperties
<1>7. \A i \in DOMAIN t : u[i].kind = t[i].kind
  BY <1>4, <1>5
(* Where an entry of the new tree was in the old one.                      *)
<1> DEFINE Was(i, l) == IF i = d THEN Past(k, l) ELSE l
<1>8. ASSUME NEW i \in DOMAIN t, NEW l \in DOMAIN u[i].entries
      PROVE  /\ Was(i, l) \in DOMAIN t[i].entries
             /\ u[i].entries[l] = t[i].entries[Was(i, l)]
  BY <1>2, <1>3, <1>4, <1>5, <1>6
<1>9. ASSUME NEW i \in DOMAIN t, NEW l \in DOMAIN u[i].entries, NEW o \in DOMAIN u[i].entries,
             Was(i, l) = Was(i, o)
      PROVE  l = o
  <2>1. CASE i # d
    BY <1>9, <2>1
  <2>2. CASE i = d
    <3>1. l \in 1 .. m - 1 /\ o \in 1 .. m - 1 /\ k \in 1 .. m /\ Past(k, l) = Past(k, o)
      BY <1>2, <1>6, <1>9, <2>2
    <3> QED BY <1>2, <3>1 DEF Past
  <2> QED BY <2>1, <2>2
<1> HIDE DEF Was
<1>10. u \in [0 .. n - 1 -> Node]
  <2>1. ASSUME NEW i \in DOMAIN t PROVE u[i] \in Node
    <3>1. t[i] \in Node
      BY TreeNode
    <3>2. i = d \/ u[i] = t[i]
      BY <1>4
    <3> QED BY <1>5, <3>1, <3>2
  <2> QED BY <1>1, <1>4, <2>1
<1>11. /\ u[Root].kind = "dir"
       /\ \A i \in 0 .. n - 1 : u[i].kind = "file" => u[i].entries = <<>>
  <2>1. t[Root].kind = "dir" /\ \A i \in DOMAIN t : t[i].kind = "file" => t[i].entries = <<>>
    BY DEF Tree, IsTree
  <2>2. t[d].kind # "file"
    <3>1. DOMAIN t[d].entries # {}
      OBVIOUS
    <3>2. t[d].entries # <<>>
      BY <3>1
    <3> QED BY <2>1, <3>2
  <2>3. \A i \in DOMAIN t \ {d} : u[i].kind = "file" => u[i].entries = <<>>
    BY <1>4, <2>1
  <2> QED BY <1>1, <1>5, <1>7, <2>1, <2>2, <2>3
<1>12. ASSUME NEW i \in DOMAIN t, NEW l \in DOMAIN u[i].entries
       PROVE  /\ u[i].entries[l].node \in DOMAIN t \ {Root}
              /\ i # Root => Len(u[i].entries[l].name) = 1
  <2>1. \A o \in DOMAIN t[i].entries :
          /\ t[i].entries[o].node \in DOMAIN t \ {Root}
          /\ i # Root => Len(t[i].entries[o].name) = 1
    BY TreeNode, TreeNames
  <2> QED BY <1>8, <2>1
<1>13. ASSUME NEW i \in DOMAIN t, NEW j \in DOMAIN t,
              NEW l \in DOMAIN u[i].entries, NEW o \in DOMAIN u[j].entries,
              \/ u[i].entries[l].node = u[j].entries[o].node
              \/ i = j /\ u[i].entries[l].name = u[i].entries[o].name
       PROVE  i = j /\ l = o
  <2>1. /\ Was(i, l) \in DOMAIN t[i].entries /\ Was(j, o) \in DOMAIN t[j].entries
        /\ u[i].entries[l] = t[i].entries[Was(i, l)]
        /\ u[j].entries[o] = t[j].entries[Was(j, o)]
    BY <1>8
  <2>2. i = j /\ Was(i, l) = Was(j, o)
    BY <1>13, <2>1, TreeLinks
  <2> QED BY <1>9, <2>2
<1>14. Tree(u)
  BY <1>1, <1>10, <1>11, <1>12, <1>13, IsTreeBy
<1>15. ASSUME NEW l \in DOMAIN u[d].entries
       PROVE  /\ Past(k, l) \in DOMAIN t[d].entries
              /\ u[d].entries[l] = t[d].entries[Past(k, l)]
  BY <1>8 DEF Was
<1> QED BY <1>1, <1>3, <1>4, <1>5, <1>7, <1>14, <1>15 DEF u, r, m

(* Removing an entry of the directory at p leaves what is no deeper than   *)
(* that directory where it was.                                            *)
LEMMA RemoveResolve ==
  ASSUME NEW t, Tree(t), NEW p \in Path, Resolve(t, p) # NoNode,
         NEW k \in DOMAIN t[Resolve(t, p)].entries,
         NEW q \in Path, Len(q) <= Len(p), Resolve(t, q) # NoNode
  PROVE  Resolve(Cut(t, Resolve(t, p), k), q) = Resolve(t, q)
<1> DEFINE d == Resolve(t, p)
           u == Cut(t, d, k)
           T == { n \in Nat : \A a \in Path :
                    Len(a) = n /\ n <= Len(p) /\ Resolve(t, a) # NoNode
                      => Resolve(u, a) = Resolve(t, a) }
<1>1. d \in DOMAIN t
  BY ResolveNode
<1>2. /\ Tree(u) /\ DOMAIN u = DOMAIN t /\ \A i \in DOMAIN t \ {d} : u[i] = t[i]
      /\ \A i \in DOMAIN t : u[i].kind = t[i].kind
  <2>1. k \in DOMAIN t[d].entries
    OBVIOUS
  <2> HIDE DEF d
  <2> QED BY <1>1, <2>1, RemoveTree
<1> HIDE DEF u
<1>3. 0 \in T
  <2>1. \A a \in Path : Len(a) = 0 => a = <<>>
    BY EmptySeq DEF Path
  <2> QED BY <2>1, ResolveIs
<1>4. ASSUME NEW n \in Nat, n \in T PROVE n + 1 \in T
  <2> SUFFICES ASSUME NEW a \in Path, Len(a) = n + 1, n + 1 <= Len(p), Resolve(t, a) # NoNode
               PROVE  Resolve(u, a) = Resolve(t, a)
    OBVIOUS
  <2>1. a # <<>> /\ Len(a) - 1 = n /\ Len(p) \in Nat
    BY EmptySeq, LenProperties DEF Path
  <2>2. Front(a) \in Path /\ Len(Front(a)) = n
    BY <2>1, FrontIs
  <2> DEFINE i == Resolve(t, Front(a))
  <2>3. i \in DOMAIN t /\ IsDir(t, i) /\ i # NoNode
    <3>1. i \in DOMAIN t /\ IsDir(t, i)
      BY <2>1, ResolveNode
    <3> QED BY <3>1, TreeNode DEF NoNode
  <2>4. Resolve(u, Front(a)) = i
    BY <1>4, <2>1, <2>2, <2>3
  <2>5. i # d
    <3> SUFFICES ASSUME i = d PROVE FALSE
      OBVIOUS
    <3>1. Front(a) = p
      BY <2>2, <2>3, ResolveUnique
    <3> QED BY <2>1, <2>2, <3>1
  <2>6. Resolve(u, a) = Step(u, i, Last(a)) /\ Resolve(t, a) = Step(t, i, Last(a))
    BY <2>1, <2>4, ResolveIs
  <2> HIDE DEF i, d
  <2>7. u[i] = t[i]
    BY <1>2, <2>3, <2>5
  <2>8. Step(u, i, Last(a)) = Step(t, i, Last(a))
    BY <2>7 DEF Step, IsDir, Find, EntryNames
  <2> QED BY <2>6, <2>8
<1>5. Len(q) \in T
  <2>1. Len(q) \in Nat
    BY LenProperties DEF Path
  <2> HIDE DEF T
  <2> QED BY <2>1, <1>3, <1>4, SetInduction
<1> QED BY <1>5 DEF u
-----------------------------------------------------------------------------
(* The calls that create: the tree grows.                                  *)
Phantoms(t) == \E e \in Range(t[Root].entries) : Len(e.name) # 1

LEMMA PhantomsAt ==
  ASSUME NEW t, Tree(t)
  PROVE  Phantoms(t) <=> \E k \in DOMAIN t[Root].entries : Len(t[Root].entries[k].name) # 1
BY DEF Phantoms, Range

LEMMA PhantomsStay ==
  ASSUME NEW t, NEW u, Tree(t), Tree(u), Grows(t, u), Phantoms(t)
  PROVE  Phantoms(u)
<1>1. PICK k \in DOMAIN t[Root].entries : Len(t[Root].entries[k].name) # 1
  BY PhantomsAt
<1>2. k \in DOMAIN u[Root].entries /\ u[Root].entries[k] = t[Root].entries[k]
  BY TreeNode DEF Grows
<1> QED BY <1>1, <1>2, PhantomsAt

LEMMA AddNodeTree ==
  ASSUME NEW t, Tree(t), NEW p \in Path, NEW name \in Path, p = <<>> \/ Len(name) = 1,
         NEW node \in {DirNode, FileNode}
  PROVE  Tree(AddNode(t, p, name, node).tree) /\ Grows(t, AddNode(t, p, name, node).tree)
<1> DEFINE d == Resolve(t, p)
<1>1. d \in DOMAIN t \cup {NoNode} /\ (p = <<>> => d = Root)
  BY ResolveTypes, ResolveIs
<1> HIDE DEF d
<1>2. CASE IsDir(t, d) /\ name \notin EntryNames(t, d)
  <2>1. AddNode(t, p, name, node).tree = WithNode(t, d, name, node)
    BY <1>2 DEF AddNode, AddTo, d
  <2>2. d \in DOMAIN t /\ t[d].kind = "dir" /\ (d = Root \/ Len(name) = 1)
    BY <1>1, <1>2 DEF IsDir
  <2>3. Tree(WithNode(t, d, name, node)) /\ Grows(t, WithNode(t, d, name, node))
    BY <1>2, <2>2, WithNodeTree
  <2> QED BY <2>1, <2>3
<1>3. CASE ~(IsDir(t, d) /\ name \notin EntryNames(t, d))
  <2>1. AddNode(t, p, name, node).tree = t
    BY <1>3 DEF AddNode, AddTo, d
  <2> QED BY <2>1, GrowsSelf
<1> QED BY <1>2, <1>3

LEMMA MakeAboveTree ==
  ASSUME NEW t, Tree(t), NEW path \in Path
  PROVE  /\ Tree(MakeAbove(t, path)) /\ Grows(t, MakeAbove(t, path))
         /\ Above(path) \in Path /\ NameOf(path) \in Path
         /\ Above(path) = <<>> \/ Len(NameOf(path)) = 1
<1>1. <<>> \in Path
  BY EmptySeq DEF Path
<1>2. /\ Above(path) \in Path /\ NameOf(path) \in Path
      /\ Above(path) = <<>> \/ Len(NameOf(path)) = 1
  BY <1>1, FrontIs DEF Above, NameOf
<1>3. /\ Tree(AddNode(t, <<>>, Above(path), DirNode).tree)
      /\ Grows(t, AddNode(t, <<>>, Above(path), DirNode).tree)
  BY <1>1, <1>2, AddNodeTree
<1> QED BY <1>2, <1>3, GrowsSelf DEF MakeAbove

LEMMA MadeTree ==
  ASSUME NEW t, Tree(t), NEW path \in Path, NEW node \in {DirNode, FileNode}
  PROVE  LET u == AddNode(MakeAbove(t, path), Above(path), NameOf(path), node).tree
         IN  Tree(u) /\ Grows(t, u)
<1> DEFINE v == MakeAbove(t, path)
           u == AddNode(v, Above(path), NameOf(path), node).tree
<1>1. /\ Tree(v) /\ Grows(t, v) /\ Above(path) \in Path /\ NameOf(path) \in Path
      /\ Above(path) = <<>> \/ Len(NameOf(path)) = 1
  BY MakeAboveTree
<1> HIDE DEF v
<1>2. Tree(u) /\ Grows(v, u)
  BY <1>1, AddNodeTree
<1> HIDE DEF u
<1>3. Tree(u) /\ Grows(t, u)
  BY <1>1, <1>2, GrowsTrans
<1> QED BY <1>3 DEF u, v

LEMMA CreatedTree ==
  ASSUME NEW t, Tree(t), NEW path \in Path
  PROVE  /\ Tree(Created(t, path)) /\ Grows(t, Created(t, path))
         /\ Resolve(t, path) # NoNode => Created(t, path) = t
BY MadeTree, GrowsSelf DEF Created

LEMMA MkdirTree ==
  ASSUME NEW s, Tree(s.tree), NEW path \in Path
  PROVE  Tree(SysMkdir(s, path).sys.tree) /\ Grows(s.tree, SysMkdir(s, path).sys.tree)
BY MadeTree DEF SysMkdir, Changed, Returns, Sys
-----------------------------------------------------------------------------
(* Removal.                                                                *)
LEMMA RemoveIs ==
  ASSUME NEW t, Tree(t), NEW path \in Path, path # <<>>, Resolve(t, path) # NoNode,
         NEW k \in DOMAIN t[Resolve(t, Front(path))].entries,
         t[Resolve(t, Front(path))].entries[k].node = Resolve(t, path)
  PROVE  /\ RemoveNode(t, path).tree = Cut(t, Resolve(t, Front(path)), k)
         /\ t[Resolve(t, Front(path))].entries[k].name = <<Last(path)>>
<1> DEFINE d == Resolve(t, Front(path))
           e == t[d].entries
<1>1. d \in DOMAIN t
  BY ResolveNode
<1>2. PICK j \in DOMAIN e : e[j].name = <<Last(path)>> /\ e[j].node = Resolve(t, path)
  BY ResolveNode
<1>3. j = k
  BY <1>1, <1>2, TreeLinks
<1>4. Above(path) = Front(path) /\ NameOf(path) = <<Last(path)>>
  BY FrontIs
<1>5. RemoveNode(t, path).tree = [t EXCEPT ![d].entries = Without(@, <<Last(path)>>)]
  BY <1>4 DEF RemoveNode
<1>6. k \in DOMAIN e /\ e[k].name = <<Last(path)>>
  BY <1>2, <1>3
<1> HIDE DEF d
<1>7. Without(e, <<Last(path)>>) = RemoveAt(e, k)
  BY <1>1, <1>6, WithoutIs
<1>8. [t EXCEPT ![d].entries = Without(@, <<Last(path)>>)] = Cut(t, d, k)
  BY <1>7 DEF Cut
<1> QED BY <1>5, <1>6, <1>8 DEF d

LEMMA RemoveNodeTree ==
  ASSUME NEW t, Tree(t), NEW path \in Path
  PROVE  LET u == RemoveNode(t, path).tree
         IN  Tree(u) /\ DOMAIN u = DOMAIN t /\ (Phantoms(t) => Phantoms(u))
<1> DEFINE u == RemoveNode(t, path).tree
<1>1. CASE path = <<>> \/ Resolve(t, path) = NoNode
  <2>1. u = t
    BY <1>1 DEF RemoveNode
  <2> QED BY <2>1
<1>2. CASE path # <<>> /\ Resolve(t, path) # NoNode
  <2> DEFINE d == Resolve(t, Front(path))
  <2>1. d \in DOMAIN t
    BY <1>2, ResolveNode
  <2>2. PICK k \in DOMAIN t[d].entries : t[d].entries[k].node = Resolve(t, path)
    BY <1>2, ResolveNode
  <2>3. u = Cut(t, d, k) /\ t[d].entries[k].name = <<Last(path)>>
    BY <1>2, <2>2, RemoveIs
  <2> HIDE DEF d, u
  <2>4. /\ Tree(u) /\ DOMAIN u = DOMAIN t
        /\ \A i \in DOMAIN t \ {d} : u[i] = t[i]
        /\ Len(u[d].entries) = Len(t[d].entries) - 1
        /\ \A l \in DOMAIN u[d].entries :
             /\ Past(k, l) \in DOMAIN t[d].entries
             /\ u[d].entries[l] = t[d].entries[Past(k, l)]
    BY <2>1, <2>3, RemoveTree
  <2>5. ASSUME Phantoms(t) PROVE Phantoms(u)
    <3>1. PICK j \in DOMAIN t[Root].entries : Len(t[Root].entries[j].name) # 1
      BY <2>5, PhantomsAt
    <3>2. CASE d # Root
      <4>1. u[Root] = t[Root]
        BY <2>4, <3>2, TreeNode
      <4> QED BY <2>4, <3>1, <4>1, PhantomsAt
    <3>3. CASE d = Root
      <4>1. k # j
        <5>1. Len(<<Last(path)>>) = 1
          OBVIOUS
        <5> QED BY <2>3, <3>1, <3>3, <5>1
      <4> DEFINE m == Len(t[Root].entries)
                 l == IF j < k THEN j ELSE j - 1
      <4>2. m \in Nat /\ DOMAIN t[Root].entries = 1 .. m /\ j \in 1 .. m /\ k \in 1 .. m
        BY <2>1, <3>3, TreeNode
      <4>3. DOMAIN u[Root].entries = 1 .. m - 1
        BY <2>1, <2>4, <3>3, TreeNode
      <4> HIDE DEF m
      <4>4. l \in 1 .. m - 1 /\ Past(k, l) = j
        BY <4>1, <4>2 DEF Past
      <4> HIDE DEF l
      <4>5. u[Root].entries[l] = t[Root].entries[j]
        BY <2>4, <3>3, <4>3, <4>4
      <4>6. l \in DOMAIN u[Root].entries
        BY <4>3, <4>4
      <4> QED BY <2>4, <3>1, <4>5, <4>6, PhantomsAt
    <3> QED BY <3>2, <3>3
  <2> QED BY <2>4, <2>5 DEF u
<1> QED BY <1>1, <1>2
-----------------------------------------------------------------------------
(* Where parts of given sizes end.                                         *)
LEMMA EndsIs ==
  ASSUME NEW sizes \in Seq(Nat)
  PROVE  /\ Ends(sizes)[0] = 0
         /\ \A k \in 1 .. Len(sizes) : Ends(sizes)[k] = Ends(sizes)[k - 1] + sizes[k]
         /\ \A k \in 0 .. Len(sizes) : Ends(sizes)[k] \in Nat
<1> DEFINE size == Len(sizes)
           Defines(g, n) == g = [k \in 0 .. n |-> IF k = 0 THEN 0 ELSE g[k - 1] + sizes[k]]
           T == { n \in Nat : \E g : Defines(g, n) }
<1>1. size \in Nat
  BY LenProperties
<1> HIDE DEF size
<1>2. 0 \in T
  <2> DEFINE g == [k \in 0 .. 0 |-> 0]
  <2>1. Defines(g, 0)
    OBVIOUS
  <2> HIDE DEF Defines
  <2> QED BY <2>1
<1>3. ASSUME NEW n \in Nat, n \in T PROVE n + 1 \in T
  <2>1. PICK g : Defines(g, n)
    BY <1>3
  <2> DEFINE h == [k \in 0 .. n + 1 |->
                     IF k = n + 1 THEN g[n] + sizes[n + 1] ELSE g[k]]
  <2>2. ASSUME NEW k \in 0 .. n + 1
        PROVE  h[k] = IF k = 0 THEN 0 ELSE h[k - 1] + sizes[k]
    <3>1. CASE k = n + 1
      BY <3>1
    <3>2. CASE k \in 0 .. n
      <4>1. h[k] = g[k] /\ (k # 0 => h[k - 1] = g[k - 1])
        BY <3>2
      <4>2. g[k] = IF k = 0 THEN 0 ELSE g[k - 1] + sizes[k]
        BY <2>1, <3>2
      <4> QED BY <4>1, <4>2
    <3> QED BY <3>1, <3>2
  <2>3. h = [k \in 0 .. n + 1 |-> h[k]]
    OBVIOUS
  <2> HIDE DEF h
  <2>4. Defines(h, n + 1)
    BY <2>2, <2>3
  <2> HIDE DEF Defines
  <2>5. (\E f : Defines(f, n + 1)) /\ n + 1 \in Nat
    BY <2>4
  <2> QED BY <2>5
<1>4. size \in T
  <2> HIDE DEF T
  <2> QED BY <1>1, <1>2, <1>3, SetInduction
<1>5. Defines(Ends(sizes), size)
  <2>1. \E g : Defines(g, size)
    BY <1>4
  <2> QED BY <2>1 DEF Ends, size
<1> DEFINE e == Ends(sizes)
<1>6. e[0] = 0 /\ \A k \in 1 .. size : e[k] = e[k - 1] + sizes[k]
  BY <1>1, <1>5
<1> HIDE DEF e
<1> DEFINE N == { n \in Nat : n <= size => e[n] \in Nat }
<1>7. ASSUME NEW n \in Nat, n \in N PROVE n + 1 \in N
  <2> SUFFICES ASSUME n + 1 <= size PROVE e[n + 1] \in Nat
    OBVIOUS
  <2>1. n + 1 \in 1 .. size /\ (n + 1) - 1 = n /\ e[n] \in Nat
    BY <1>1, <1>7
  <2>2. sizes[n + 1] \in Nat
    BY <2>1, ElementOfSeq DEF size
  <2> QED BY <1>6, <2>1, <2>2
<1>8. 0 \in N
  BY <1>6
<1>9. \A k \in 0 .. size : e[k] \in Nat
  <2>1. Nat \subseteq N
    <3> HIDE DEF N
    <3> QED BY <1>7, <1>8, SetInduction
  <2> QED BY <1>1, <2>1
<1> QED BY <1>6, <1>9 DEF e, size

LEMMA EndsGrow ==
  ASSUME NEW sizes \in Seq(Nat), NEW j \in 0 .. Len(sizes), NEW k \in j .. Len(sizes)
  PROVE  Ends(sizes)[j] <= Ends(sizes)[k]
<1> DEFINE e == Ends(sizes)
           size == Len(sizes)
           T == { n \in Nat : j + n <= size => e[j] <= e[j + n] }
<1>1. /\ size \in Nat /\ j \in Nat /\ \A n \in 1 .. size : sizes[n] \in Nat
  BY LenProperties, ElementOfSeq
<1>2. /\ \A n \in 1 .. size : e[n] = e[n - 1] + sizes[n]
      /\ \A n \in 0 .. size : e[n] \in Nat
  BY EndsIs
<1> HIDE DEF e, size
<1>3. 0 \in T
  BY <1>1, <1>2
<1>4. ASSUME NEW n \in Nat, n \in T PROVE n + 1 \in T
  <2> SUFFICES ASSUME j + (n + 1) <= size PROVE e[j] <= e[j + (n + 1)]
    OBVIOUS
  <2> DEFINE m == j + (n + 1)
  <2>1. /\ m \in 1 .. size /\ m - 1 = j + n /\ m - 1 \in 0 .. size /\ j + n <= size
        /\ j \in 0 .. size
    BY <1>1
  <2>2. e[j] <= e[m - 1]
    BY <1>4, <2>1
  <2> HIDE DEF m
  <2>3. e[m] = e[m - 1] + sizes[m] /\ sizes[m] \in Nat /\ e[m - 1] \in Nat /\ e[j] \in Nat
    BY <1>1, <1>2, <2>1
  <2>4. e[j] <= e[m]
    BY <2>2, <2>3
  <2> QED BY <2>4 DEF m
<1>5. k - j \in Nat /\ j + (k - j) = k /\ k <= size
  BY <1>1 DEF size
<1>6. k - j \in T
  <2> HIDE DEF T
  <2> QED BY <1>3, <1>4, <1>5, SetInduction
<1>7. e[j] <= e[j + (k - j)]
  BY <1>5, <1>6
<1> QED BY <1>5, <1>7 DEF e

LEMMA EndsAgree ==
  ASSUME NEW a \in Seq(Nat), NEW b \in Seq(Nat), NEW n \in Nat, n <= Len(a), n <= Len(b),
         \A k \in 1 .. n : a[k] = b[k]
  PROVE  Ends(a)[n] = Ends(b)[n]
<1> DEFINE T == { k \in Nat : k <= n => Ends(a)[k] = Ends(b)[k] }
<1>1. 0 \in T
  BY EndsIs
<1>2. ASSUME NEW k \in Nat, k \in T PROVE k + 1 \in T
  <2> SUFFICES ASSUME k + 1 <= n PROVE Ends(a)[k + 1] = Ends(b)[k + 1]
    OBVIOUS
  <2>1. /\ k + 1 \in 1 .. Len(a) /\ k + 1 \in 1 .. Len(b) /\ k + 1 \in 1 .. n
        /\ (k + 1) - 1 = k /\ Ends(a)[k] = Ends(b)[k]
    BY <1>2, LenProperties
  <2>2. Ends(a)[k + 1] = Ends(a)[(k + 1) - 1] + a[k + 1]
    BY <2>1, EndsIs
  <2>3. Ends(b)[k + 1] = Ends(b)[(k + 1) - 1] + b[k + 1]
    BY <2>1, EndsIs
  <2> QED BY <2>1, <2>2, <2>3
<1>3. n \in T
  <2> HIDE DEF T
  <2> QED BY <1>1, <1>2, SetInduction
<1> QED BY <1>3

(* The bytes of a path, and where its components begin.                    *)
LEMMA BytesAre ==
  ASSUME NEW p \in Path
  PROVE  /\ Len(p) \in Nat /\ DOMAIN p = 1 .. Len(p)
         /\ \A k \in 1 .. Len(p) :
              p[k] \in Components /\ p[k] \in Seq(Letters) /\ Len(p[k]) \in Nat \ {0}
         /\ Sizes(p) \in Seq(Nat) /\ Len(Sizes(p)) = Len(p)
         /\ \A k \in 1 .. Len(p) : Sizes(p)[k] = 1 + Len(p[k])
         /\ Bytes(p) = Ends(Sizes(p))[Len(p)] /\ Bytes(p) \in Nat
<1>1. Len(p) \in Nat /\ DOMAIN p = 1 .. Len(p)
  BY LenProperties DEF Path
<1>2. ASSUME NEW k \in 1 .. Len(p)
      PROVE  p[k] \in Components /\ p[k] \in Seq(Letters) /\ Len(p[k]) \in Nat \ {0}
  <2>1. p[k] \in Components
    BY <1>2, ElementOfSeq DEF Path
  <2>2. p[k] \in Seq(Letters) /\ p[k] # <<>>
    BY <2>1 DEF Components
  <2> QED BY <2>1, <2>2, LenProperties, EmptySeq
<1>3. Sizes(p) = [k \in 1 .. Len(p) |-> 1 + Len(p[k])]
  BY <1>1 DEF Sizes
<1>4. \A k \in 1 .. Len(p) : 1 + Len(p[k]) \in Nat
  BY <1>2
<1>5. Sizes(p) \in Seq(Nat) /\ Len(Sizes(p)) = Len(p)
  <2> DEFINE f == [k \in 1 .. Len(p) |-> 1 + Len(p[k])]
  <2>1. f \in [1 .. Len(p) -> Nat]
    BY <1>4
  <2>2. f \in Seq(Nat) /\ Len(f) = Len(p)
    <3> HIDE DEF f
    <3> QED BY <1>1, <2>1
  <2> QED BY <1>3, <2>2
<1>6. Bytes(p) = Ends(Sizes(p))[Len(p)]
  BY <1>5 DEF Bytes, Total
<1>7. Len(p) \in 0 .. Len(p)
  BY <1>1
<1>8. Bytes(p) \in Nat
  BY <1>5, <1>6, <1>7, EndsIs
<1> QED BY <1>1, <1>2, <1>3, <1>5, <1>6, <1>8

LEMMA BeginsAre ==
  ASSUME NEW p \in Path, NEW k \in 1 .. Len(p)
  PROVE  /\ Begins(p, k) \in Nat \ {0} /\ Len(p[k]) \in Nat \ {0}
         /\ Begins(p, k) + Len(p[k]) <= Bytes(p)
         /\ \A j \in 1 .. k : Begins(p, j) <= Begins(p, k)
<1> DEFINE e == Ends(Sizes(p))
<1>1. /\ Len(p) \in Nat /\ Sizes(p) \in Seq(Nat) /\ Len(Sizes(p)) = Len(p)
      /\ Sizes(p)[k] = 1 + Len(p[k]) /\ Len(p[k]) \in Nat \ {0} /\ Bytes(p) = e[Len(p)]
  BY BytesAre
<1>2. k \in Nat /\ k - 1 \in 0 .. Len(p) /\ k \in 0 .. Len(p) /\ Len(p) \in k .. Len(p)
  BY <1>1
<1>3. e[k] = e[k - 1] + Sizes(p)[k] /\ e[k - 1] \in Nat /\ e[k] \in Nat
  BY <1>1, <1>2, EndsIs
<1>4. e[k] <= e[Len(p)]
  BY <1>1, <1>2, EndsGrow
<1>5. e[Len(p)] \in Nat
  BY <1>1, BytesAre
<1>6. \A j \in 1 .. k : e[j - 1] <= e[k - 1]
  <2> TAKE j \in 1 .. k
  <2>1. j - 1 \in 0 .. Len(p) /\ k - 1 \in (j - 1) .. Len(p)
    BY <1>1, <1>2
  <2> QED BY <1>1, <2>1, EndsGrow
<1>7. \A j \in 1 .. k : e[j - 1] \in Nat
  <2>1. \A j \in 1 .. k : j - 1 \in 0 .. Len(p)
    BY <1>1, <1>2
  <2> QED BY <1>1, <2>1, EndsIs
<1>8. \A j \in 1 .. k : Begins(p, j) = e[j - 1] + 1
  BY DEF Begins
<1>9. Begins(p, k) = e[k - 1] + 1
  BY DEF Begins
<1> HIDE DEF e
<1>10. \A j \in 1 .. k : Begins(p, j) <= Begins(p, k)
  BY <1>3, <1>6, <1>7, <1>8, <1>9
<1> QED BY <1>1, <1>3, <1>4, <1>5, <1>9, <1>10

(* What is left of a component in at least one byte.                       *)
LEMMA FirstIs ==
  ASSUME NEW c \in Components, NEW n \in Nat \ {0}
  PROVE  /\ FirstOf(c, n) \in Components /\ Len(c) \in Nat \ {0}
         /\ Len(c) <= n => FirstOf(c, n) = c
         /\ n < Len(c) => Len(FirstOf(c, n)) = n
<1>1. c \in Seq(Letters) /\ Len(c) \in Nat \ {0}
  BY LenProperties, EmptySeq DEF Components
<1>2. CASE n < Len(c)
  <2>1. FirstOf(c, n) = SubSeq(c, 1, n)
    BY <1>2 DEF FirstOf
  <2>2. \A i \in 1 .. n : c[i] \in Letters
    <3>1. \A i \in 1 .. n : i \in 1 .. Len(c)
      BY <1>1, <1>2
    <3> QED BY <1>1, <3>1, ElementOfSeq
  <2>3. SubSeq(c, 1, n) \in Seq(Letters) /\ Len(SubSeq(c, 1, n)) = n
    <3>1. /\ SubSeq(c, 1, n) \in Seq(Letters)
          /\ Len(SubSeq(c, 1, n)) = IF 1 <= n THEN n - 1 + 1 ELSE 0
      BY <2>2, SubSeqProperties
    <3>2. (IF 1 <= n THEN n - 1 + 1 ELSE 0) = n
      OBVIOUS
    <3> QED BY <3>1, <3>2
  <2>4. SubSeq(c, 1, n) # <<>>
    BY <2>3, EmptySeq
  <2> QED BY <1>1, <1>2, <2>1, <2>3, <2>4 DEF Components
<1>3. CASE ~(n < Len(c))
  BY <1>1, <1>3 DEF FirstOf
<1> QED BY <1>2, <1>3

(* What is left of a path is one, and all of it if the buffer has room.    *)
LEMMA CutType ==
  ASSUME NEW p \in Path, NEW n \in Nat
  PROVE  CutTo(p, n) \in Path
<1> DEFINE A == { j \in DOMAIN p : Begins(p, j) < n }
           T == { m \in Nat : m <= Len(p) => \E r \in 0 .. m : { j \in A : j <= m } = 1 .. r }
<1>1. Len(p) \in Nat /\ DOMAIN p = 1 .. Len(p) /\ \A j \in A : j \in 1 .. Len(p)
  BY BytesAre
<1>2. ASSUME NEW k \in A, NEW j \in 1 .. k PROVE j \in A
  <2>1. k \in 1 .. Len(p) /\ j \in 1 .. Len(p) /\ Begins(p, k) < n
    BY <1>1
  <2>2. Begins(p, j) <= Begins(p, k) /\ Begins(p, j) \in Nat /\ Begins(p, k) \in Nat
    BY <2>1, BeginsAre
  <2> QED BY <1>1, <2>1, <2>2
<1> HIDE DEF A
<1>3. 0 \in T
  <2>1. { j \in A : j <= 0 } = {}
    BY <1>1
  <2>2. 1 .. 0 = {} /\ 0 \in 0 .. 0
    OBVIOUS
  <2> QED BY <2>1, <2>2
<1>4. ASSUME NEW m \in Nat, m \in T PROVE m + 1 \in T
  <2> SUFFICES ASSUME m + 1 <= Len(p)
               PROVE  \E r \in 0 .. m + 1 : { j \in A : j <= m + 1 } = 1 .. r
    OBVIOUS
  <2>1. CASE m + 1 \in A
    <3>1. \A j \in 1 .. m + 1 : j \in A
      BY <1>2, <2>1
    <3>2. { j \in A : j <= m + 1 } = 1 .. m + 1
      BY <1>1, <3>1
    <3> QED BY <3>2
  <2>2. CASE m + 1 \notin A
    <3>1. PICK r \in 0 .. m : { j \in A : j <= m } = 1 .. r
      BY <1>1, <1>4
    <3>2. { j \in A : j <= m + 1 } = { j \in A : j <= m }
      BY <1>1, <2>2
    <3> QED BY <3>1, <3>2
  <2> QED BY <2>1, <2>2
<1>5. Len(p) \in T
  <2> HIDE DEF T
  <2> QED BY <1>1, <1>3, <1>4, SetInduction
<1>6. PICK r \in 0 .. Len(p) : { j \in A : j <= Len(p) } = 1 .. r
  BY <1>5
<1>7. A = 1 .. r
  <2>1. { j \in A : j <= Len(p) } = A
    BY <1>1
  <2> QED BY <1>6, <2>1
<1> DEFINE at(k) == FirstOf(p[k], n - Begins(p, k))
<1>8. ASSUME NEW k \in A PROVE at(k) \in Components
  <2>1. k \in 1 .. Len(p) /\ Begins(p, k) < n
    BY <1>1 DEF A
  <2>2. n - Begins(p, k) \in Nat \ {0} /\ p[k] \in Components
    BY <2>1, BeginsAre, BytesAre
  <2> QED BY <2>2, FirstIs
<1>9. CutTo(p, n) = [k \in A |-> at(k)]
  BY DEF CutTo, A
<1> HIDE DEF at
<1>10. [k \in 1 .. r |-> at(k)] \in Seq(Components)
  BY <1>6, <1>7, <1>8
<1> QED BY <1>7, <1>9, <1>10 DEF Path

LEMMA CutWhole ==
  ASSUME NEW p \in Path, NEW n \in Nat, Bytes(p) <= n
  PROVE  CutTo(p, n) = p
<1>1. Len(p) \in Nat /\ DOMAIN p = 1 .. Len(p) /\ Bytes(p) \in Nat
  BY BytesAre
<1>2. ASSUME NEW k \in DOMAIN p
      PROVE  Begins(p, k) < n /\ FirstOf(p[k], n - Begins(p, k)) = p[k]
  <2>1. /\ p[k] \in Components /\ Begins(p, k) \in Nat /\ Len(p[k]) \in Nat \ {0}
        /\ Begins(p, k) + Len(p[k]) <= Bytes(p)
    BY <1>1, BytesAre, BeginsAre
  <2>2. n - Begins(p, k) \in Nat \ {0} /\ Len(p[k]) <= n - Begins(p, k)
    BY <1>1, <2>1
  <2> QED BY <2>1, <2>2, FirstIs
<1>3. { j \in DOMAIN p : Begins(p, j) < n } = DOMAIN p
  BY <1>2
<1>4. CutTo(p, n) = [k \in DOMAIN p |-> p[k]]
  BY <1>2, <1>3 DEF CutTo
<1>5. p = [k \in DOMAIN p |-> p[k]]
  BY DEF Path
<1> QED BY <1>4, <1>5

(* A path and one component below it.                                      *)
LEMMA ChildBytes ==
  ASSUME NEW p \in Path, NEW c \in Components
  PROVE  /\ Bytes(p \o <<c>>) = Bytes(p) + 1 + Len(c) /\ Len(c) \in Nat \ {0}
         /\ Bytes(p) \in Nat /\ p \o <<c>> \in Path
         /\ Len(p \o <<c>>) = Len(p) + 1
         /\ (p \o <<c>>)[Len(p) + 1] = c /\ \A k \in 1 .. Len(p) : (p \o <<c>>)[k] = p[k]
         /\ \A k \in 1 .. Len(p) : Begins(p \o <<c>>, k) = Begins(p, k)
         /\ Begins(p \o <<c>>, Len(p) + 1) = Bytes(p) + 1
<1> DEFINE q == p \o <<c>>
           size == Len(p)
<1>1. <<c>> \in Path /\ Len(<<c>>) = 1 /\ <<c>>[1] = c
  BY DEF Path
<1>2. /\ q \in Path /\ Len(q) = size + 1 /\ size \in Nat
      /\ \A i \in 1 .. size + 1 : q[i] = IF i <= size THEN p[i] ELSE <<c>>[i - size]
  BY <1>1, ConcatProperties, LenProperties DEF Path
<1>3. q[size + 1] = c /\ \A k \in 1 .. size : q[k] = p[k]
  BY <1>1, <1>2
<1> HIDE DEF q
<1>4. /\ Sizes(p) \in Seq(Nat) /\ Len(Sizes(p)) = size /\ Bytes(p) = Ends(Sizes(p))[size]
      /\ \A k \in 1 .. size : Sizes(p)[k] = 1 + Len(p[k])
  BY BytesAre
<1>5. Bytes(p) \in Nat
  BY BytesAre
<1> HIDE DEF size
<1>12. /\ Sizes(q) \in Seq(Nat) /\ Len(Sizes(q)) = Len(q)
       /\ Bytes(q) = Ends(Sizes(q))[Len(q)]
       /\ \A k \in 1 .. Len(q) : Sizes(q)[k] = 1 + Len(q[k]) /\ Len(q[k]) \in Nat \ {0}
  BY <1>2, BytesAre
<1>13. /\ Len(Sizes(q)) = size + 1 /\ Bytes(q) = Ends(Sizes(q))[size + 1]
       /\ \A k \in 1 .. size + 1 : Sizes(q)[k] = 1 + Len(q[k])
       /\ Len(c) \in Nat \ {0}
  <2>1. size + 1 \in 1 .. Len(q)
    BY <1>2
  <2> QED BY <1>2, <1>3, <1>12, <2>1
<1>6. \A k \in 1 .. size : Sizes(p)[k] = Sizes(q)[k]
  <2>1. \A k \in 1 .. size : k \in 1 .. size + 1
    BY <1>2
  <2> QED BY <1>3, <1>4, <1>13, <2>1
<1>7. ASSUME NEW n \in 0 .. size PROVE Ends(Sizes(q))[n] = Ends(Sizes(p))[n]
  <2>1. n \in Nat /\ n <= size /\ n <= size + 1 /\ \A k \in 1 .. n : k \in 1 .. size
    BY <1>2
  <2> QED BY <1>4, <1>6, <1>12, <1>13, <2>1, EndsAgree
<1>8. Ends(Sizes(q))[size] = Bytes(p)
  BY <1>2, <1>4, <1>7
<1>9. Bytes(q) = Bytes(p) + 1 + Len(c)
  <2>1. size + 1 \in 1 .. size + 1 /\ (size + 1) - 1 = size
    BY <1>2
  <2>2. Ends(Sizes(q))[size + 1] = Ends(Sizes(q))[(size + 1) - 1] + Sizes(q)[size + 1]
    BY <1>12, <1>13, <2>1, EndsIs
  <2>3. Sizes(q)[size + 1] = 1 + Len(c)
    BY <1>3, <1>13, <2>1
  <2>4. Bytes(q) = Bytes(p) + (1 + Len(c))
    BY <1>8, <1>13, <2>1, <2>2, <2>3
  <2> QED BY <1>5, <1>13, <2>4
<1>10. ASSUME NEW k \in 1 .. size PROVE Begins(q, k) = Begins(p, k)
  <2>1. k - 1 \in 0 .. size
    BY <1>2
  <2> QED BY <1>7, <2>1 DEF Begins
<1>11. Begins(q, size + 1) = Bytes(p) + 1
  <2>1. (size + 1) - 1 = size
    BY <1>2
  <2> QED BY <1>8, <2>1 DEF Begins
<1> QED BY <1>2, <1>3, <1>5, <1>9, <1>10, <1>11, <1>13 DEF q, size

(* Cutting it leaves the path, and some of the component or none of it.    *)
LEMMA CutChild ==
  ASSUME NEW p \in Path, NEW c \in Components, NEW n \in Nat, Bytes(p) <= n
  PROVE  /\ Bytes(p) + 1 >= n => CutTo(p \o <<c>>, n) = p
         /\ Bytes(p) + 1 < n =>
              \E d \in Components :
                /\ CutTo(p \o <<c>>, n) = p \o <<d>>
                /\ Bytes(p \o <<c>>) <= n => d = c
                /\ n < Bytes(p \o <<c>>) => Bytes(p \o <<d>>) = n
<1> DEFINE q == p \o <<c>>
           size == Len(p)
           A == { j \in DOMAIN q : Begins(q, j) < n }
           at(k) == FirstOf(q[k], n - Begins(q, k))
<1>1. /\ Bytes(q) = Bytes(p) + 1 + Len(c) /\ Len(c) \in Nat \ {0}
      /\ Bytes(p) \in Nat /\ q \in Path /\ Len(q) = size + 1
      /\ q[size + 1] = c /\ \A k \in 1 .. size : q[k] = p[k]
      /\ \A k \in 1 .. size : Begins(q, k) = Begins(p, k)
      /\ Begins(q, size + 1) = Bytes(p) + 1
  BY ChildBytes
<1>2. size \in Nat /\ DOMAIN p = 1 .. size /\ DOMAIN q = 1 .. size + 1
  BY <1>1, BytesAre
<1>3. CutTo(q, n) = [k \in A |-> at(k)]
  BY DEF CutTo
<1>4. ASSUME NEW k \in 1 .. size PROVE k \in A /\ at(k) = p[k]
  <2>1. /\ p[k] \in Components /\ Begins(p, k) \in Nat /\ Len(p[k]) \in Nat \ {0}
        /\ Begins(p, k) + Len(p[k]) <= Bytes(p)
    BY <1>2, BytesAre, BeginsAre
  <2>2. n - Begins(p, k) \in Nat \ {0} /\ Len(p[k]) <= n - Begins(p, k) /\ Begins(p, k) < n
    BY <1>1, <2>1
  <2>3. FirstOf(p[k], n - Begins(p, k)) = p[k]
    BY <2>1, <2>2, FirstIs
  <2>4. k \in DOMAIN q
    BY <1>2
  <2> QED BY <1>1, <2>2, <2>3, <2>4
<1>5. A \subseteq 1 .. size + 1 /\ (size + 1 \in A <=> Bytes(p) + 1 < n)
  BY <1>1, <1>2
<1> HIDE DEF A, at, q, size
<1>6. ASSUME Bytes(p) + 1 >= n PROVE CutTo(q, n) = p
  <2>1. size + 1 \notin A
    BY <1>1, <1>5, <1>6
  <2>2. A = 1 .. size
    <3>1. \A k \in 1 .. size + 1 : k \in 1 .. size \/ k = size + 1
      BY <1>2
    <3> QED BY <1>4, <1>5, <2>1, <3>1
  <2>3. CutTo(q, n) = [k \in 1 .. size |-> p[k]]
    BY <1>3, <1>4, <2>2
  <2>4. p = [k \in DOMAIN p |-> p[k]]
    BY DEF Path
  <2> QED BY <1>2, <2>3, <2>4
<1>7. ASSUME Bytes(p) + 1 < n
      PROVE  \E d \in Components :
               /\ CutTo(q, n) = p \o <<d>>
               /\ Bytes(q) <= n => d = c
               /\ n < Bytes(q) => Bytes(p \o <<d>>) = n
  <2> DEFINE m == n - (Bytes(p) + 1)
             d == FirstOf(c, m)
             r == p \o <<d>>
  <2>1. m \in Nat \ {0}
    BY <1>1, <1>7
  <2>2. d \in Components /\ (Len(c) <= m => d = c) /\ (m < Len(c) => Len(d) = m)
    BY <2>1, FirstIs
  <2>3. (Bytes(q) <= n => Len(c) <= m) /\ (n < Bytes(q) => m < Len(c))
    BY <1>1
  <2>4. at(size + 1) = d
    BY <1>1 DEF at
  <2> HIDE DEF d
  <2> USE DEF size
  <2>5. /\ Bytes(r) = Bytes(p) + 1 + Len(d) /\ Len(d) \in Nat /\ r \in Path
        /\ Len(r) = size + 1 /\ r[size + 1] = d /\ \A k \in 1 .. size : r[k] = p[k]
    BY <2>2, ChildBytes
  <2> HIDE DEF size
  <2>6. n < Bytes(q) => Bytes(r) = n
    BY <1>1, <2>2, <2>3, <2>5
  <2>7. A = 1 .. size + 1
    <3>1. \A k \in 1 .. size + 1 : k \in 1 .. size \/ k = size + 1
      BY <1>2
    <3> QED BY <1>4, <1>5, <1>7, <3>1
  <2> HIDE DEF r
  <2>8. \A k \in 1 .. size + 1 : at(k) = r[k]
    <3> TAKE k \in 1 .. size + 1
    <3>1. k = size + 1 \/ k \in 1 .. size
      BY <1>2
    <3> QED BY <1>4, <2>4, <2>5, <3>1
  <2>9. CutTo(q, n) = [k \in 1 .. size + 1 |-> r[k]]
    BY <1>3, <2>7, <2>8
  <2>10. r = [k \in 1 .. size + 1 |-> r[k]]
    <3>1. r = [k \in DOMAIN r |-> r[k]]
      BY <2>5 DEF Path
    <3>2. DOMAIN r = 1 .. size + 1
      BY <2>5, BytesAre
    <3> QED BY <3>1, <3>2
  <2>11. CutTo(q, n) = r
    BY <2>9, <2>10
  <2> QED BY <2>2, <2>3, <2>6, <2>11 DEF r
<1> QED BY <1>6, <1>7 DEF q

(* A name of one component.                                                *)
LEMMA OneIs ==
  ASSUME NEW c \in Components
  PROVE  /\ <<c>> \in Path /\ <<>> \in Path /\ <<>> \o <<c>> = <<c>> /\ Bytes(<<>>) = 0
         /\ Bytes(<<c>>) = 1 + Len(c) /\ Len(c) \in Nat \ {0} /\ NameBytes(<<c>>) = Len(c)
<1>1. <<>> \in Path /\ Len(<<>>) = 0 /\ <<c>> \in Path
  BY EmptySeq DEF Path
<1>2. <<>> \o <<c>> = <<c>>
  BY <1>1, ConcatEmptySeq DEF Path
<1>3. Bytes(<<>>) = 0
  BY <1>1, BytesAre, EndsIs
<1>4. Bytes(<<c>>) = 1 + Len(c) /\ Len(c) \in Nat \ {0}
  <2>1. Bytes(<<>> \o <<c>>) = Bytes(<<>>) + 1 + Len(c) /\ Len(c) \in Nat \ {0}
    BY <1>1, ChildBytes
  <2> QED BY <1>2, <1>3, <2>1
<1>5. NameBytes(<<c>>) = Len(c)
  BY <1>4 DEF NameBytes
<1> QED BY <1>1, <1>2, <1>3, <1>4, <1>5

LEMMA CutOne ==
  ASSUME NEW c \in Components, NEW n \in Nat \ {0}
  PROVE  \E d \in Components :
           /\ CutTo(<<c>>, n + 1) = <<d>> /\ Bytes(<<d>>) <= n + 1
           /\ Len(c) <= n => d = c
           /\ n < Len(c) => Bytes(<<d>>) = n + 1
<1>1. /\ <<>> \in Path /\ <<>> \o <<c>> = <<c>> /\ Bytes(<<>>) = 0
      /\ Bytes(<<c>>) = 1 + Len(c) /\ Len(c) \in Nat \ {0}
  BY OneIs
<1>2. n + 1 \in Nat /\ 0 <= n + 1 /\ 0 + 1 < n + 1
  OBVIOUS
<1>3. PICK d \in Components :
        /\ CutTo(<<>> \o <<c>>, n + 1) = <<>> \o <<d>>
        /\ Bytes(<<>> \o <<c>>) <= n + 1 => d = c
        /\ n + 1 < Bytes(<<>> \o <<c>>) => Bytes(<<>> \o <<d>>) = n + 1
  BY <1>1, <1>2, CutChild
<1>4. <<>> \o <<d>> = <<d>> /\ Bytes(<<d>>) \in Nat
  BY OneIs, BytesAre
<1> QED BY <1>1, <1>3, <1>4
-----------------------------------------------------------------------------
(* The lines of a directory, and where they end.                           *)
LEMMA NameBytesType ==
  ASSUME NEW name \in Path
  PROVE  NameBytes(name) \in Nat
<1>1. CASE name = <<>>
  BY <1>1 DEF NameBytes
<1>2. CASE name # <<>>
  <2>1. Len(name) \in 1 .. Len(name)
    BY <1>2, BytesAre, EmptySeq DEF Path
  <2>2. /\ Begins(name, Len(name)) \in Nat \ {0} /\ Len(name[Len(name)]) \in Nat \ {0}
        /\ Begins(name, Len(name)) + Len(name[Len(name)]) <= Bytes(name)
    BY <2>1, BeginsAre
  <2>3. Bytes(name) \in Nat
    BY BytesAre
  <2> QED BY <1>2, <2>2, <2>3 DEF NameBytes
<1> QED BY <1>1, <1>2

LEMMA LinesAre ==
  ASSUME NEW t, Tree(t), NEW i \in DOMAIN t
  PROVE  LET e == t[i].entries
             ends == LineEnds(Lines(t, i))
         IN  /\ Len(e) \in Nat /\ DOMAIN e = 1 .. Len(e) /\ DOMAIN Lines(t, i) = 1 .. Len(e)
             /\ \A k \in 1 .. Len(e) :
                  /\ Lines(t, i)[k] = Line(t, e[k]) /\ e[k].name \in Path
                  /\ NameBytes(e[k].name) \in Nat
                  /\ ends[k] >= ends[k - 1] + NameBytes(e[k].name) + 1
                  /\ ends[k - 1] \in Nat /\ ends[k - 1] < ends[k]
                  /\ ends[k] <= ends[Len(e)]
             /\ \A k \in 0 .. Len(e) : ends[k] \in Nat
<1> DEFINE e == t[i].entries
           lines == Lines(t, i)
           size == Len(e)
           sizes == [k \in DOMAIN lines |-> LineBytes(lines[k])]
           ends == Ends(sizes)
<1>1. /\ size \in Nat /\ DOMAIN e = 1 .. size
      /\ \A k \in 1 .. size : e[k].name \in Path /\ NameBytes(e[k].name) \in Nat
  BY TreeNode, NameBytesType DEF Path
<1>2. DOMAIN lines = 1 .. size /\ \A k \in 1 .. size : lines[k] = Line(t, e[k])
  BY <1>1 DEF Lines
<1>3. ends = LineEnds(Lines(t, i))
  BY DEF LineEnds
<1> HIDE DEF e, lines, size
<1>4. ASSUME NEW k \in 1 .. size
      PROVE  LineBytes(lines[k]) \in Nat /\ LineBytes(lines[k]) >= NameBytes(e[k].name) + 1
  BY <1>1, <1>2 DEF LineBytes, Line
<1>5. sizes \in Seq(Nat) /\ Len(sizes) = size /\ \A k \in 1 .. size : sizes[k] = LineBytes(lines[k])
  <2>1. sizes \in [1 .. size -> Nat] /\ \A k \in 1 .. size : sizes[k] = LineBytes(lines[k])
    BY <1>2, <1>4
  <2> HIDE DEF sizes
  <2> QED BY <1>1, <2>1
<1> HIDE DEF sizes
<1>6. /\ \A k \in 1 .. size : ends[k] = ends[k - 1] + sizes[k]
      /\ \A k \in 0 .. size : ends[k] \in Nat
  BY <1>5, EndsIs
<1>7. \A k \in 1 .. size : ends[k] <= ends[size]
  <2> TAKE k \in 1 .. size
  <2>1. k \in 0 .. Len(sizes) /\ Len(sizes) \in k .. Len(sizes)
    BY <1>1, <1>5
  <2> QED BY <1>5, <2>1, EndsGrow
<1> HIDE DEF ends
<1>8. ASSUME NEW k \in 1 .. size
      PROVE  /\ ends[k] >= ends[k - 1] + NameBytes(e[k].name) + 1
             /\ ends[k - 1] \in Nat /\ ends[k - 1] < ends[k]
  <2>1. k - 1 \in 0 .. size
    BY <1>1
  <2>2. /\ ends[k - 1] \in Nat /\ ends[k] = ends[k - 1] + LineBytes(lines[k])
    BY <1>5, <1>6, <2>1
  <2> QED BY <1>1, <1>4, <2>2
<1>9. /\ size \in Nat /\ DOMAIN e = 1 .. size /\ DOMAIN lines = 1 .. size
      /\ \A k \in 1 .. size :
           /\ lines[k] = Line(t, e[k]) /\ e[k].name \in Path
           /\ NameBytes(e[k].name) \in Nat
           /\ ends[k] >= ends[k - 1] + NameBytes(e[k].name) + 1
           /\ ends[k - 1] \in Nat /\ ends[k - 1] < ends[k]
           /\ ends[k] <= ends[size]
      /\ \A k \in 0 .. size : ends[k] \in Nat
  BY <1>1, <1>2, <1>6, <1>7, <1>8
<1> QED BY <1>3, <1>9 DEF size, lines, e

(* What is left of a line.                                                 *)
LEMMA CutLineType ==
  ASSUME NEW line, line.name \in Path, NEW n \in Nat
  PROVE  CutLine(line, n).name \in Path
BY CutType DEF CutLine

LEMMA CutLineOne ==
  ASSUME NEW line, NEW c \in Components, line.name = <<c>>, NEW n \in Nat \ {0}
  PROVE  /\ \E d \in Components : CutLine(line, n).name = <<d>>
         /\ NameBytes(line.name) <= n => CutLine(line, n).name = line.name
         /\ CutLine(line, n).dir => line.dir /\ CutLine(line, n).name = line.name
<1> DEFINE name == CutTo(line.name, n + 1)
<1>1. PICK d \in Components :
        /\ name = <<d>> /\ Bytes(<<d>>) <= n + 1
        /\ Len(c) <= n => d = c
        /\ n < Len(c) => Bytes(<<d>>) = n + 1
  BY CutOne
<1>2. Len(c) \in Nat \ {0} /\ NameBytes(<<c>>) = Len(c) /\ Bytes(<<c>>) = 1 + Len(c)
  BY OneIs
<1> HIDE DEF name
<1>3. /\ CutLine(line, n).name = name
      /\ CutLine(line, n).dir = IF n < LineBytes(line) - 1 THEN Bytes(name) < n + 1 ELSE line.dir
  BY DEF CutLine, name
<1>4. LineBytes(line) = IF line.dir THEN Len(c) + 2 ELSE Len(c) + 1
  BY <1>2 DEF LineBytes
<1>5. CASE n < Len(c)
  <2>1. n < LineBytes(line) - 1 /\ ~(Bytes(name) < n + 1)
    BY <1>1, <1>2, <1>4, <1>5
  <2> QED BY <1>1, <1>2, <1>3, <1>5, <2>1
<1>6. CASE ~(n < Len(c))
  <2>1. name = <<c>>
    BY <1>1, <1>2, <1>6
  <2>2. n < LineBytes(line) - 1 => ~(Bytes(name) < n + 1)
    BY <1>2, <1>4, <1>6, <2>1
  <2> QED BY <1>1, <1>3, <2>1, <2>2
<1> QED BY <1>5, <1>6

-----------------------------------------------------------------------------
(* What the desktop's calls make of the tree, when no descriptor is open.  *)
LEMMA SmallestFd == Smallest(Fds) \in Fds
<1> DEFINE R == OpToRel(<, Nat)
<1>1. \A x, y \in Nat : x < y => <<x, y>> \in R
  BY DEF OpToRel
<1>2. IsWellFoundedOn(R, Nat)
  BY NatLessThanWellFounded
<1> HIDE DEF R
<1>3. Fds \subseteq Nat /\ Fds # {}
  BY FdsAssumption
<1>4. PICK x \in Fds : \A y \in Fds : ~(<<y, x>> \in R)
  BY <1>2, <1>3, WFMin
<1>5. ASSUME NEW y \in Fds PROVE x <= y
  <2>1. x \in Nat /\ y \in Nat
    BY <1>3
  <2>2. ~(<<y, x>> \in R)
    BY <1>4
  <2>3. ~(y < x)
    BY <1>1, <2>1, <2>2
  <2> QED BY <2>1, <2>3
<1> QED BY <1>5 DEF Smallest

OneFd(fd, path, offset) == [NoFds EXCEPT ![fd] = File(path, offset)]

LEMMA OpenIs ==
  ASSUME NEW s, Quiet(s), NEW path
  PROVE  LET u == Created(s.tree, path)
         IN  \/ /\ Resolve(u, path) = NoNode
                /\ SysOpen(s, path) = Returns(Sys(u, NoFds), Failed)
             \/ /\ Resolve(u, path) # NoNode
                /\ \E fd \in Fds :
                     SysOpen(s, path) = Returns(Sys(u, OneFd(fd, path, 0)), fd)
<1> DEFINE u == Created(s.tree, path)
           unused == { fd \in Fds : ~s.fds[fd].open }
<1>1. s.fds = NoFds /\ unused = Fds
  BY DEF Quiet, Sys, NoFds, Closed
<1>2. SysOpen(s, path) = TakeFd(Sys(u, NoFds), path, Fds)
  BY <1>1 DEF SysOpen
<1> HIDE DEF u, unused
<1>3. Fds # {} /\ Smallest(Fds) \in Fds
  BY FdsAssumption, SmallestFd
<1> DEFINE fd == Smallest(Fds)
<1>4. Resolve(u, path) = NoNode => SysOpen(s, path) = Returns(Sys(u, NoFds), Failed)
  BY <1>2 DEF TakeFd, Sys
<1>5. Resolve(u, path) # NoNode =>
        SysOpen(s, path) = Returns(SetFd(Sys(u, NoFds), fd, File(path, 0)), fd)
  BY <1>2, <1>3 DEF TakeFd, Sys
<1>6. SetFd(Sys(u, NoFds), fd, File(path, 0)) = Sys(u, OneFd(fd, path, 0))
  BY DEF SetFd, Sys, OneFd
<1> QED BY <1>3, <1>4, <1>5, <1>6 DEF u

LEMMA CloseIs ==
  ASSUME NEW t, NEW fd \in Fds, NEW path, NEW offset
  PROVE  SysClose(Sys(t, OneFd(fd, path, offset)), fd).sys = Sys(t, NoFds)
<1> DEFINE s == Sys(t, OneFd(fd, path, offset))
<1>1. IsOpen(s, fd) /\ s.fds[fd] = File(path, offset)
  BY DEF IsOpen, Sys, OneFd, NoFds, File
<1>2. [s.fds EXCEPT ![fd] = Closed] = NoFds
  BY DEF Sys, OneFd, NoFds
<1>3. s.tree = t
  BY DEF Sys
<1> QED BY <1>1, <1>2, <1>3 DEF SysClose, Returns, SetFd

MinOf(a, b) == IF a < b THEN a ELSE b

LEMMA ReadIs ==
  ASSUME NEW t, NEW fd \in Fds, NEW path, Resolve(t, path) # NoNode,
         Len(Content(t, Resolve(t, path))) \in Nat
  PROVE  LET r == SysRead(Sys(t, OneFd(fd, path, 0)), fd, BufferLen)
             all == Content(t, Resolve(t, path))
             m == MinOf(BufferLen, Len(all))
         IN  /\ \E offset : r.sys = Sys(t, OneFd(fd, path, offset))
             /\ r = [sys |-> r.sys, ret |-> r.ret, data |-> r.data]
             /\ r.ret = m /\ (m > 0 => r.data = SubSeq(all, 1, m))
<1> DEFINE s == Sys(t, OneFd(fd, path, 0))
           r == SysRead(s, fd, BufferLen)
           all == Content(t, Resolve(t, path))
           m == MinOf(BufferLen, Len(all))
           end == IF 0 + BufferLen < Len(all) THEN 0 + BufferLen ELSE Len(all)
<1>1. IsOpen(s, fd) /\ s.fds[fd] = File(path, 0) /\ s.tree = t
  BY DEF IsOpen, Sys, OneFd, NoFds, File
<1>2. File(path, 0).path = path /\ File(path, 0).offset = 0
  BY DEF File
<1>3. r = ReadFrom(s, fd, File(path, 0), all, end)
  BY <1>1, <1>2 DEF SysRead, ReadNode
<1>4. BufferLen \in Nat \ {0} /\ Len(all) \in Nat /\ end = m /\ m \in Nat
  BY ClientAssumption DEF MinOf
<1>5. \A offset : SetFd(s, fd, File(path, offset)) = Sys(t, OneFd(fd, path, offset))
  BY DEF SetFd, Sys, OneFd, NoFds
<1> HIDE DEF s, r, all, end, m
<1>6. CASE Len(all) = 0
  <2>1. 0 >= Len(all) /\ m = 0 /\ ~(m > 0)
    BY <1>4, <1>6 DEF m, MinOf
  <2>2. r = Returns(s, 0)
    BY <1>2, <1>3, <2>1 DEF ReadFrom
  <2>3. r.sys = s /\ r.ret = 0 /\ r = [sys |-> r.sys, ret |-> r.ret, data |-> r.data]
    BY <2>2 DEF Returns
  <2> QED BY <2>1, <2>3 DEF s, r, all, m
<1>7. CASE Len(all) # 0
  <2>1. ~(0 >= Len(all)) /\ end - 0 = m /\ 0 + 1 = 1
    BY <1>4, <1>7
  <2>2. r = [sys |-> SetFd(s, fd, File(path, end)), ret |-> end - 0,
             data |-> SubSeq(all, 0 + 1, end)]
    BY <1>2, <1>3, <2>1 DEF ReadFrom
  <2>3. /\ r.sys = Sys(t, OneFd(fd, path, end)) /\ r.ret = m
        /\ r.data = SubSeq(all, 1, m) /\ r = [sys |-> r.sys, ret |-> r.ret, data |-> r.data]
    BY <1>4, <1>5, <2>1, <2>2
  <2> QED BY <2>3 DEF s, r, all, m
<1> QED BY <1>6, <1>7

LEMMA ContentLen ==
  ASSUME NEW t, Tree(t), NEW i \in DOMAIN t
  PROVE  /\ Len(Content(t, i)) \in Nat
         /\ IsDir(t, i) =>
              /\ Len(Content(t, i)) = LineEnds(Lines(t, i))[Len(t[i].entries)]
              /\ \A n \in 1 .. Len(Content(t, i)) :
                   Content(t, i)[n] = [text |-> Lines(t, i), at |-> n]
<1> DEFINE size == LineEnds(Lines(t, i))[Len(t[i].entries)]
<1>1. size \in Nat /\ t[i].data \in Seq(Nat)
  <2>1. /\ Len(t[i].entries) \in Nat
        /\ \A k \in 0 .. Len(t[i].entries) : LineEnds(Lines(t, i))[k] \in Nat
    BY LinesAre
  <2>2. Len(t[i].entries) \in 0 .. Len(t[i].entries)
    BY <2>1
  <2> QED BY <2>1, <2>2, TreeNode
<1>2. CASE IsDir(t, i)
  <2>1. Content(t, i) = [n \in 1 .. size |-> [text |-> Lines(t, i), at |-> n]]
    BY <1>2 DEF Content
  <2> HIDE DEF size
  <2>2. Len(Content(t, i)) = size
    BY <1>1, <2>1
  <2> QED BY <1>1, <2>1, <2>2 DEF size
<1>3. CASE ~IsDir(t, i)
  BY <1>1, <1>3, LenProperties DEF Content
<1> QED BY <1>2, <1>3

(* Open, read, close.                                                      *)
LEMMA ReadAllIs ==
  ASSUME NEW s, Quiet(s), Tree(s.tree), NEW path \in Path
  PROVE  LET u == Created(s.tree, path)
             i == Resolve(u, path)
             r == ReadAll(s, path)
         IN  /\ r.sys = Sys(u, NoFds)
             /\ i = NoNode => r.ret = Failed
             /\ i # NoNode =>
                  /\ r.ret = MinOf(BufferLen, Len(Content(u, i)))
                  /\ r.ret > 0 => r.data = SubSeq(Content(u, i), 1, r.ret)
<1> DEFINE u == Created(s.tree, path)
           i == Resolve(u, path)
           r == ReadAll(s, path)
           o == SysOpen(s, path)
<1>1. Tree(u)
  BY CreatedTree
<1>2. \/ i = NoNode /\ o = Returns(Sys(u, NoFds), Failed)
      \/ i # NoNode /\ \E fd \in Fds : o = Returns(Sys(u, OneFd(fd, path, 0)), fd)
  BY OpenIs
<1>3. r = ReadOpened(o)
  BY DEF ReadAll
<1> HIDE DEF u, r, o
<1>4. CASE i = NoNode
  <2>1. o.sys = Sys(u, NoFds) /\ o.ret = Failed
    BY <1>2, <1>4 DEF Returns
  <2>2. r = Returns(Sys(u, NoFds), Failed)
    BY <1>3, <2>1, NotFds DEF ReadOpened, HasFd
  <2>3. r.sys = Sys(u, NoFds) /\ r.ret = Failed
    BY <2>2 DEF Returns
  <2> QED BY <1>4, <2>3 DEF u, r
<1>5. CASE i # NoNode
  <2>1. PICK fd \in Fds : o = Returns(Sys(u, OneFd(fd, path, 0)), fd)
    BY <1>2, <1>5
  <2>2. o.sys = Sys(u, OneFd(fd, path, 0)) /\ o.ret = fd
    BY <2>1 DEF Returns
  <2> DEFINE c == SysRead(Sys(u, OneFd(fd, path, 0)), fd, BufferLen)
  <2>3. r = CloseAfter(c, fd)
    BY <1>3, <2>2 DEF ReadOpened, HasFd
  <2>4. i \in DOMAIN u
    BY <1>1, <1>5, ResolveNode
  <2>5. Len(Content(u, i)) \in Nat
    BY <1>1, <2>4, ContentLen
  <2>6. /\ \E offset : c.sys = Sys(u, OneFd(fd, path, offset))
        /\ c = [sys |-> c.sys, ret |-> c.ret, data |-> c.data]
        /\ c.ret = MinOf(BufferLen, Len(Content(u, i)))
        /\ MinOf(BufferLen, Len(Content(u, i))) > 0 => c.data = SubSeq(Content(u, i), 1, c.ret)
    BY <1>5, <2>5, ReadIs
  <2> HIDE DEF c, i
  <2>7. r.sys = SysClose(c.sys, fd).sys /\ r.ret = c.ret /\ r.data = c.data
    <3>1. r = [[sys |-> c.sys, ret |-> c.ret, data |-> c.data] EXCEPT !.sys = SysClose(@, fd).sys]
      BY <2>3, <2>6 DEF CloseAfter
    <3> QED BY <3>1
  <2>8. r.sys = Sys(u, NoFds)
    BY <2>6, <2>7, CloseIs
  <2> QED BY <1>5, <2>6, <2>7, <2>8 DEF u, r, i
<1> QED BY <1>4, <1>5

(* Open, write, close.                                                     *)
LEMMA SpliceType ==
  ASSUME NEW old \in Seq(Nat), NEW data \in Seq(Nat)
  PROVE  Splice(old, 0, data) \in Seq(Nat)
<1> DEFINE n == IF Len(old) > 0 + Len(data) THEN Len(old) ELSE 0 + Len(data)
           at(k) == IF k \in 0 + 1 .. 0 + Len(data) THEN data[k - 0]
                    ELSE IF k <= Len(old) THEN old[k] ELSE 0
<1>1. Len(old) \in Nat /\ Len(data) \in Nat /\ n \in Nat
  BY LenProperties
<1>2. ASSUME NEW k \in 1 .. n PROVE at(k) \in Nat
  <2>1. CASE k \in 0 + 1 .. 0 + Len(data)
    <3>1. k - 0 \in 1 .. Len(data)
      BY <1>1, <2>1
    <3>2. data[k - 0] \in Nat
      BY <3>1, ElementOfSeq
    <3> QED BY <2>1, <3>2
  <2>2. CASE k \notin 0 + 1 .. 0 + Len(data) /\ k <= Len(old)
    <3>1. k \in 1 .. Len(old)
      BY <1>1, <2>2
    <3>2. old[k] \in Nat
      BY <3>1, ElementOfSeq
    <3> QED BY <2>2, <3>2
  <2>3. CASE k \notin 0 + 1 .. 0 + Len(data) /\ ~(k <= Len(old))
    BY <2>3
  <2> QED BY <2>1, <2>2, <2>3
<1>3. Splice(old, 0, data) = [k \in 1 .. n |-> at(k)]
  BY DEF Splice
<1> HIDE DEF n, at
<1>4. [k \in 1 .. n |-> at(k)] \in Seq(Nat)
  BY <1>1, <1>2
<1> QED BY <1>3, <1>4

LEMMA WriteIs ==
  ASSUME NEW t, Tree(t), NEW fd \in Fds, NEW path \in Path, Resolve(t, path) # NoNode,
         NEW data \in Seq(Nat)
  PROVE  LET r == SysWrite(Sys(t, OneFd(fd, path, 0)), fd, data)
         IN  /\ \E u, offset : r.sys = Sys(u, OneFd(fd, path, offset)) /\ Tree(u) /\ Grows(t, u)
             /\ r = [sys |-> r.sys, ret |-> r.ret, data |-> r.data]
<1> DEFINE s == Sys(t, OneFd(fd, path, 0))
           r == SysWrite(s, fd, data)
           i == Resolve(t, path)
<1>1. /\ IsOpen(s, fd) /\ s.fds[fd] = File(path, 0) /\ s.tree = t
      /\ File(path, 0).path = path /\ File(path, 0).offset = 0
  BY DEF IsOpen, Sys, OneFd, NoFds, File
<1>2. i \in DOMAIN t
  BY ResolveNode
<1>3. s = Sys(t, OneFd(fd, path, 0)) /\ Grows(t, t)
  BY GrowsSelf
<1>4. CASE data = <<>> \/ ~IsFile(t, i)
  <2>1. \E ret : r = Returns(s, ret)
    BY <1>1, <1>4 DEF SysWrite, WriteInto, WriteNode
  <2> QED BY <1>3, <2>1 DEF Returns
<1>5. CASE data # <<>> /\ IsFile(t, i)
  <2> DEFINE new == Splice(t[i].data, 0, data)
             u == [t EXCEPT ![i].data = new]
  <2>1. new \in Seq(Nat)
    BY <1>2, TreeNode, SpliceType
  <2>2. Tree(u) /\ Grows(t, u)
    <3> HIDE DEF new, i
    <3> QED BY <1>2, <2>1, DataTree
  <2>3. r = WriteInto(s, fd, File(path, 0), i, data)
    BY <1>1, <1>5 DEF SysWrite
  <2>4. WriteNode(t, i, new) = [ok |-> TRUE, tree |-> u]
    BY <1>5 DEF WriteNode
  <2>5. r = Returns(SetFd(Sys(u, s.fds), fd, File(path, 0 + Len(data))), Len(data))
    <3> HIDE DEF u, r, s, i
    <3> QED BY <1>1, <1>5, <2>3, <2>4 DEF WriteInto
  <2>6. SetFd(Sys(u, s.fds), fd, File(path, 0 + Len(data))) =
          Sys(u, OneFd(fd, path, 0 + Len(data)))
    BY DEF SetFd, Sys, OneFd, NoFds
  <2> HIDE DEF u, r
  <2>7. r.sys = Sys(u, OneFd(fd, path, 0 + Len(data)))
        /\ r = [sys |-> r.sys, ret |-> r.ret, data |-> r.data]
    BY <2>5, <2>6 DEF Returns
  <2> QED BY <2>2, <2>7 DEF r
<1> QED BY <1>4, <1>5

LEMMA WriteAllTree ==
  ASSUME NEW s, Quiet(s), Tree(s.tree), NEW path \in Path, NEW data \in Seq(Nat)
  PROVE  Tree(WriteAll(s, path, data).tree) /\ Grows(s.tree, WriteAll(s, path, data).tree)
<1> DEFINE u == Created(s.tree, path)
           o == SysOpen(s, path)
<1>1. Tree(u) /\ Grows(s.tree, u)
  BY CreatedTree
<1>2. \/ o = Returns(Sys(u, NoFds), Failed)
      \/ Resolve(u, path) # NoNode /\ \E fd \in Fds : o = Returns(Sys(u, OneFd(fd, path, 0)), fd)
  BY OpenIs
<1>3. WriteAll(s, path, data) = WriteOpened(o, data)
  BY DEF WriteAll
<1> HIDE DEF u, o
<1>4. CASE o = Returns(Sys(u, NoFds), Failed)
  <2>1. WriteOpened(o, data).tree = u
    BY <1>4, NotFds DEF WriteOpened, HasFd, Returns, Sys
  <2> QED BY <1>1, <1>3, <2>1
<1>5. ASSUME NEW fd \in Fds, o = Returns(Sys(u, OneFd(fd, path, 0)), fd),
             Resolve(u, path) # NoNode
      PROVE  /\ Tree(WriteOpened(o, data).tree) /\ Grows(s.tree, WriteOpened(o, data).tree)
  <2> DEFINE c == SysWrite(Sys(u, OneFd(fd, path, 0)), fd, data)
  <2>1. WriteOpened(o, data) = CloseAfter(c, fd).sys
    BY <1>5 DEF WriteOpened, HasFd, Returns
  <2>2. PICK v, offset : c.sys = Sys(v, OneFd(fd, path, offset)) /\ Tree(v) /\ Grows(u, v)
    BY <1>1, <1>5, WriteIs
  <2>3. c = [sys |-> c.sys, ret |-> c.ret, data |-> c.data]
    BY <1>1, <1>5, WriteIs
  <2> HIDE DEF c
  <2>4. CloseAfter(c, fd).sys = SysClose(c.sys, fd).sys
    <3>1. CloseAfter(c, fd) =
            [[sys |-> c.sys, ret |-> c.ret, data |-> c.data] EXCEPT !.sys = SysClose(@, fd).sys]
      BY <2>3 DEF CloseAfter
    <3> QED BY <3>1
  <2>5. SysClose(c.sys, fd).sys = Sys(v, NoFds)
    BY <2>2, CloseIs
  <2>6. WriteOpened(o, data).tree = v
    BY <2>1, <2>4, <2>5 DEF Sys
  <2> QED BY <1>1, <2>2, <2>6, GrowsTrans
<1> QED BY <1>2, <1>3, <1>4, <1>5

LEMMA TouchTree ==
  ASSUME NEW s, Quiet(s), Tree(s.tree), NEW path \in Path
  PROVE  /\ Tree(TouchOpened(SysOpen(s, path)).tree)
         /\ Grows(s.tree, TouchOpened(SysOpen(s, path)).tree)
<1> DEFINE u == Created(s.tree, path)
           o == SysOpen(s, path)
<1>1. Tree(u) /\ Grows(s.tree, u)
  BY CreatedTree
<1>2. \/ o = Returns(Sys(u, NoFds), Failed)
      \/ \E fd \in Fds : o = Returns(Sys(u, OneFd(fd, path, 0)), fd)
  BY OpenIs
<1> HIDE DEF u, o
<1>3. TouchOpened(o) = Sys(u, NoFds)
  BY <1>2, NotFds, CloseIs DEF TouchOpened, HasFd, Returns
<1> QED BY <1>1, <1>3 DEF Sys, o
-----------------------------------------------------------------------------
(* The rows of a listing are the first entries of the directory.           *)
LEMMA FirstOnes ==
  ASSUME NEW s, NEW m \in Nat
  PROVE  /\ DOMAIN SubSeq(s, 1, m) = 1 .. m
         /\ \A k \in 1 .. m : SubSeq(s, 1, m)[k] = s[k]
<1> DEFINE S == { s[k] : k \in 1 .. m }
<1>1. /\ SubSeq(s, 1, m) \in Seq(S)
      /\ Len(SubSeq(s, 1, m)) = IF 1 <= m THEN m - 1 + 1 ELSE 0
      /\ \A i \in 1 .. m - 1 + 1 : SubSeq(s, 1, m)[i] = s[1 + i - 1]
  BY SubSeqProperties
<1>2. (IF 1 <= m THEN m - 1 + 1 ELSE 0) = m /\ m - 1 + 1 = m
      /\ \A i \in 1 .. m : 1 + i - 1 = i
  OBVIOUS
<1> QED BY <1>1, <1>2, LenProperties

LEMMA FirstLen ==
  ASSUME NEW s, NEW m \in Nat
  PROVE  Len(SubSeq(s, 1, m)) = m
<1>1. \A i \in 1 .. m : s[i] \in { s[k] : k \in 1 .. m }
  OBVIOUS
<1>2. Len(SubSeq(s, 1, m)) = IF 1 <= m THEN m - 1 + 1 ELSE 0
  BY <1>1, SubSeqProperties
<1> QED BY <1>2

LEMMA TextIsOne == Text \in Components
<1>1. "text" \in Letters
  <2> DEFINE S == Parts(Typed \cup BootNames) \cup {Text}
  <2>1. Text \in S
    OBVIOUS
  <2>2. "text" \in Range(Text)
    <3>1. DOMAIN Text = 1 .. 1 /\ Text[1] = "text"
      BY DEF Text
    <3>2. 1 \in DOMAIN Text
      BY <3>1
    <3> QED BY <3>1, <3>2 DEF Range
  <2>3. Letters = UNION { Range(p) : p \in S }
    BY DEF Letters, Parts
  <2> HIDE DEF S
  <2> QED BY <2>1, <2>2, <2>3
<1>2. <<"text">> \in Seq(Letters) /\ Len(<<"text">>) = 1
  BY <1>1
<1>3. <<"text">> # <<>>
  BY <1>2, EmptySeq
<1> QED BY <1>2, <1>3 DEF Text, Components

LEMMA ListIs ==
  ASSUME NEW s, Quiet(s), Tree(s.tree), NEW path \in Path
  PROVE  LET u == Created(s.tree, path)
             i == Resolve(u, path)
             ends == LineEnds(Lines(u, i))
             m == MinOf(BufferLen, ends[Len(u[i].entries)])
             l == List(s, path)
         IN  /\ l.sys = Sys(u, NoFds)
             /\ IsDir(u, i) =>
                  /\ DOMAIN l.rows = { k \in DOMAIN u[i].entries : ends[k - 1] < m }
                  /\ \A k \in DOMAIN l.rows :
                       l.rows[k] = CutLine(Line(u, u[i].entries[k]), m - ends[k - 1])
             /\ ~IsDir(u, i) =>
                  \A k \in DOMAIN l.rows : l.rows[k] = [name |-> <<Text>>, dir |-> FALSE]
<1> DEFINE u == Created(s.tree, path)
           i == Resolve(u, path)
           ends == LineEnds(Lines(u, i))
           m == MinOf(BufferLen, ends[Len(u[i].entries)])
           l == List(s, path)
           r == ReadAll(s, path)
           all == Content(u, i)
<1>1. Tree(u)
  BY CreatedTree
<1>2. /\ r.sys = Sys(u, NoFds)
      /\ i = NoNode => r.ret = Failed
      /\ i # NoNode => /\ r.ret = MinOf(BufferLen, Len(all))
                       /\ r.ret > 0 => r.data = SubSeq(all, 1, r.ret)
  BY ReadAllIs
<1>3. l.sys = r.sys /\ l.rows = RowsOf(path, r)
  BY DEF List, Listing
<1>4. r.sys.tree = u
  BY <1>2 DEF Sys
<1> HIDE DEF u, r, l
<1>5. RowsOf(path, r) = IF r.ret <= 0 THEN <<>>
                        ELSE IF IsDir(u, i) THEN FirstRows(Last(r.data).text, Last(r.data).at)
                        ELSE << [name |-> <<Text>>, dir |-> FALSE] >>
  BY <1>4 DEF RowsOf
<1> HIDE DEF all
<1>6. CASE ~IsDir(u, i)
  <2>1. l.rows = <<>> \/ l.rows = << [name |-> <<Text>>, dir |-> FALSE] >>
    BY <1>3, <1>5, <1>6
  <2>2. \A k \in DOMAIN l.rows : l.rows[k] = [name |-> <<Text>>, dir |-> FALSE]
    <3>1. DOMAIN <<>> = {}
      BY EmptySeq
    <3> QED BY <2>1, <3>1
  <2> QED BY <1>2, <1>3, <1>6, <2>2 DEF u, l
<1>7. CASE IsDir(u, i)
  <2>1. i # NoNode /\ i \in DOMAIN u
    BY <1>1, <1>7, ResolveNode DEF IsDir
  <2>2. /\ Len(all) = ends[Len(u[i].entries)] /\ Len(all) \in Nat
        /\ \A n \in 1 .. Len(all) : all[n] = [text |-> Lines(u, i), at |-> n]
    BY <1>1, <1>7, <2>1, ContentLen DEF all
  <2>3. BufferLen \in Nat \ {0} /\ m \in Nat /\ m <= Len(all) /\ r.ret = m
    <3>1. BufferLen \in Nat \ {0}
      BY ClientAssumption
    <3>2. r.ret = m
      BY <1>2, <2>1, <2>2
    <3> HIDE DEF ends
    <3> QED BY <2>2, <3>1, <3>2 DEF MinOf
  <2>4. /\ DOMAIN Lines(u, i) = DOMAIN u[i].entries
        /\ \A k \in DOMAIN u[i].entries : Lines(u, i)[k] = Line(u, u[i].entries[k])
        /\ \A k \in DOMAIN u[i].entries : ends[k - 1] \in Nat
    BY <1>1, <2>1, LinesAre
  <2> HIDE DEF ends, m
  <2>5. l.rows = FirstRows(Lines(u, i), m)
    <3>1. CASE m = 0
      <4>1. l.rows = <<>>
        BY <1>3, <1>5, <2>3, <3>1
      <4>2. { k \in DOMAIN Lines(u, i) : ends[k - 1] < m } = {}
        BY <2>4, <3>1
      <4>3. { k \in DOMAIN Lines(u, i) : LineEnds(Lines(u, i))[k - 1] < m } = {}
        BY <4>2 DEF ends
      <4>4. FirstRows(Lines(u, i), m) = <<>>
        <5>1. FirstRows(Lines(u, i), m) =
                [k \in {} |-> CutLine(Lines(u, i)[k], m - LineEnds(Lines(u, i))[k - 1])]
          BY <4>3 DEF FirstRows
        <5>2. <<>> = [k \in {} |-> <<>>[k]]
          OBVIOUS
        <5> QED BY <5>1, <5>2
      <4> QED BY <4>1, <4>4
    <3>2. CASE m # 0
      <4>1. ~(r.ret <= 0) /\ r.ret > 0
        BY <2>3, <3>2
      <4>2. r.data = SubSeq(all, 1, m)
        BY <1>2, <2>1, <2>3, <4>1
      <4>3. DOMAIN r.data = 1 .. m /\ r.data[m] = all[m] /\ Len(r.data) = m
        <5>1. DOMAIN SubSeq(all, 1, m) = 1 .. m /\ \A k \in 1 .. m : SubSeq(all, 1, m)[k] = all[k]
          BY <2>3, FirstOnes
        <5>2. m \in 1 .. m
          BY <2>3, <3>2
        <5>3. Len(SubSeq(all, 1, m)) = m
          BY <2>3, <5>1, FirstLen
        <5> QED BY <4>2, <5>1, <5>2, <5>3
      <4>4. Last(r.data) = [text |-> Lines(u, i), at |-> m]
        <5>1. m \in 1 .. Len(all)
          BY <2>2, <2>3, <3>2
        <5> QED BY <2>2, <4>3, <5>1 DEF Last
      <4> QED BY <1>3, <1>5, <1>7, <4>1, <4>4
    <3> QED BY <3>1, <3>2
  <2>6. /\ DOMAIN l.rows = { k \in DOMAIN u[i].entries : ends[k - 1] < m }
        /\ \A k \in DOMAIN l.rows :
             l.rows[k] = CutLine(Line(u, u[i].entries[k]), m - ends[k - 1])
    BY <2>4, <2>5 DEF FirstRows, ends
  <2> QED BY <1>2, <1>3, <1>7, <2>6 DEF u, l, ends, m
<1> QED BY <1>6, <1>7

(* The names of rows are paths.                                            *)
LEMMA ListTypes ==
  ASSUME NEW s, Quiet(s), Tree(s.tree), NEW path \in Path
  PROVE  LET l == List(s, path)
         IN  /\ Tree(l.sys.tree) /\ Quiet(l.sys) /\ Grows(s.tree, l.sys.tree)
             /\ \A k \in DOMAIN l.rows : l.rows[k].name \in Path
<1> DEFINE l == List(s, path)
           u == Created(s.tree, path)
           i == Resolve(u, path)
           ends == LineEnds(Lines(u, i))
           m == MinOf(BufferLen, ends[Len(u[i].entries)])
<1>1. Tree(u) /\ Grows(s.tree, u)
  BY CreatedTree
<1>2. /\ l.sys = Sys(u, NoFds)
      /\ IsDir(u, i) =>
           /\ DOMAIN l.rows = { k \in DOMAIN u[i].entries : ends[k - 1] < m }
           /\ \A k \in DOMAIN l.rows :
                l.rows[k] = CutLine(Line(u, u[i].entries[k]), m - ends[k - 1])
      /\ ~IsDir(u, i) =>
           \A k \in DOMAIN l.rows : l.rows[k] = [name |-> <<Text>>, dir |-> FALSE]
  BY ListIs
<1> HIDE DEF l, u, m
<1>3. l.sys.tree = u /\ Quiet(l.sys)
  <2>1. l.sys.tree = u
    BY <1>2 DEF Sys
  <2>2. Quiet(l.sys)
    BY <1>2 DEF Quiet
  <2> QED BY <2>1, <2>2
<1>4. ASSUME NEW k \in DOMAIN l.rows PROVE l.rows[k].name \in Path
  <2>1. CASE ~IsDir(u, i)
    <3>1. Text \in Components
      BY TextIsOne
    <3>2. <<Text>> \in Path /\ l.rows[k].name = <<Text>>
      BY <1>2, <1>4, <2>1, <3>1, OneIs
    <3> QED BY <3>2
  <2>2. CASE IsDir(u, i)
    <3>1. i \in DOMAIN u
      BY <1>1, <2>2, ResolveNode DEF IsDir
    <3>2. /\ k \in DOMAIN u[i].entries /\ ends[k - 1] < m
          /\ l.rows[k] = CutLine(Line(u, u[i].entries[k]), m - ends[k - 1])
      BY <1>2, <1>4, <2>2
    <3>3. /\ u[i].entries[k].name \in Path /\ ends[k - 1] \in Nat
          /\ Len(u[i].entries) \in Nat /\ \A j \in 0 .. Len(u[i].entries) : ends[j] \in Nat
      BY <1>1, <3>1, <3>2, LinesAre
    <3>4. ends[Len(u[i].entries)] \in Nat
      BY <3>3
    <3> HIDE DEF ends, i
    <3>5. m \in Nat
      BY <3>4, ClientAssumption DEF MinOf, m
    <3>6. m - ends[k - 1] \in Nat /\ Line(u, u[i].entries[k]).name \in Path
      BY <3>2, <3>3, <3>5 DEF Line
    <3> QED BY <3>2, <3>6, CutLineType
  <2> QED BY <2>1, <2>2
<1> QED BY <1>1, <1>3, <1>4 DEF l

LEMMA JoinIs == ASSUME NEW p \in Path, NEW q \in Path PROVE p \o q \in Path
BY ConcatProperties DEF Path

(* In a tree without phantoms, every entry is found.                       *)
LEMMA EntryIsFound ==
  ASSUME NEW t, Tree(t), ~Phantoms(t), NEW p \in Path, IsDir(t, Resolve(t, p)),
         NEW k \in DOMAIN t[Resolve(t, p)].entries
  PROVE  LET e == t[Resolve(t, p)].entries[k]
         IN  /\ e.name = <<e.name[1]>> /\ e.name[1] \in Components
             /\ Resolve(t, p \o e.name) = e.node /\ e.node \in DOMAIN t /\ e.node # NoNode
<1> DEFINE d == Resolve(t, p)
           e == t[d].entries[k]
<1>1. d \in DOMAIN t /\ IsDir(t, d)
  BY ResolveTypes DEF IsDir
<1>2. e.name \in Path /\ e.node \in DOMAIN t
  BY <1>1, TreeNode DEF Path
<1>3. Len(e.name) = 1
  BY <1>1, TreeNames, PhantomsAt
<1>4. e.node # NoNode
  BY <1>2, TreeNode DEF NoNode
<1> HIDE DEF d
<1> DEFINE name == e.name
           c == name[1]
<1> HIDE DEF name
<1>5. c \in Components
  BY <1>2, <1>3, ElementOfSeq DEF Path, name
<1>6. name = <<c>>
  <2>1. name \in Seq(Components) /\ <<c>> \in Seq(Components) /\ Len(name) = 1 /\ Len(<<c>>) = 1
    BY <1>2, <1>3, <1>5 DEF Path, name
  <2> QED BY <2>1, SeqEqual
<1> HIDE DEF c
<1>7. p \o <<c>> \in Path /\ p \o <<c>> # <<>> /\ Front(p \o <<c>>) = p /\ Last(p \o <<c>>) = c
  BY <1>5, ChildIs
<1>8. Resolve(t, p \o <<c>>) = Step(t, d, c)
  BY <1>7, ResolveIs DEF d
<1>9. Find(t, d, c) = e.node
  BY <1>1, <1>6, FindIs DEF d, name
<1>10. Resolve(t, p \o name) = e.node
  BY <1>1, <1>6, <1>8, <1>9 DEF Step
<1> QED BY <1>2, <1>4, <1>5, <1>6, <1>10 DEF c, name, d
(* Without phantoms a row is of one entry, has one component for its name, *)
(* is the whole name if the buffer has room for it, and a directory's only *)
(* if it is.                                                               *)
LEMMA RowsFound ==
  ASSUME NEW s, Quiet(s), Tree(s.tree), NEW path \in Path, ~Phantoms(Created(s.tree, path))
  PROVE  LET u == Created(s.tree, path)
             i == Resolve(u, path)
             e == u[i].entries
             l == List(s, path)
         IN  /\ \A k \in DOMAIN l.rows :
                  /\ \E d \in Components : l.rows[k].name = <<d>>
                  /\ l.rows[k].dir =>
                       /\ IsDir(u, i) /\ k \in DOMAIN e /\ IsDir(u, e[k].node)
                       /\ l.rows[k].name = e[k].name
             /\ IsDir(u, i) =>
                  /\ DOMAIN l.rows \subseteq DOMAIN e
                  /\ \A k \in DOMAIN e :
                       LineEnds(Lines(u, i))[k - 1] + NameBytes(e[k].name) <= BufferLen =>
                         k \in DOMAIN l.rows /\ l.rows[k].name = e[k].name
<1> DEFINE u == Created(s.tree, path)
           i == Resolve(u, path)
           e == u[i].entries
           ends == LineEnds(Lines(u, i))
           m == MinOf(BufferLen, ends[Len(e)])
           l == List(s, path)
<1>1. Tree(u) /\ ~Phantoms(u)
  BY CreatedTree
<1>2. /\ IsDir(u, i) =>
           /\ DOMAIN l.rows = { k \in DOMAIN e : ends[k - 1] < m }
           /\ \A k \in DOMAIN l.rows : l.rows[k] = CutLine(Line(u, e[k]), m - ends[k - 1])
      /\ ~IsDir(u, i) =>
           \A k \in DOMAIN l.rows : l.rows[k] = [name |-> <<Text>>, dir |-> FALSE]
  BY ListIs
<1> HIDE DEF u, l
<1>3. CASE ~IsDir(u, i)
  <2>1. \A k \in DOMAIN l.rows : l.rows[k].name = <<Text>> /\ ~l.rows[k].dir
    BY <1>2, <1>3
  <2> QED BY <1>3, <2>1, TextIsOne DEF u, l
<1>4. CASE IsDir(u, i)
  <2>1. i \in DOMAIN u
    BY <1>1, <1>4, ResolveTypes DEF IsDir
  <2>2. ASSUME NEW k \in DOMAIN e
        PROVE  /\ e[k].name = <<e[k].name[1]>> /\ e[k].name[1] \in Components
               /\ Line(u, e[k]).name = e[k].name /\ Line(u, e[k]).dir = IsDir(u, e[k].node)
    BY <1>1, <1>4, <2>2, EntryIsFound DEF Line
  <2>3. /\ Len(e) \in Nat /\ DOMAIN e = 1 .. Len(e)
        /\ \A k \in 1 .. Len(e) :
             /\ NameBytes(e[k].name) \in Nat
             /\ ends[k] >= ends[k - 1] + NameBytes(e[k].name) + 1
             /\ ends[k - 1] \in Nat /\ ends[k - 1] < ends[k] /\ ends[k] <= ends[Len(e)]
        /\ \A k \in 0 .. Len(e) : ends[k] \in Nat
    BY <1>1, <2>1, LinesAre
  <2>4. \A k \in DOMAIN e : NameBytes(e[k].name) \in Nat \ {0}
    <3> TAKE k \in DOMAIN e
    <3> DEFINE c == e[k].name[1]
    <3>1. e[k].name = <<c>> /\ c \in Components
      BY <2>2
    <3> HIDE DEF c
    <3> QED BY <3>1, OneIs
  <2> DEFINE size == Len(e)
  <2>5. ends[size] \in Nat /\ size \in 0 .. size
    BY <2>3
  <2> HIDE DEF ends, e, size
  <2>6. /\ BufferLen \in Nat \ {0} /\ m \in Nat /\ m = MinOf(BufferLen, ends[size])
    BY <2>5, ClientAssumption DEF MinOf, size
  <2> HIDE DEF m
  <2>7. ASSUME NEW k \in DOMAIN l.rows
        PROVE  /\ k \in DOMAIN e /\ \E d \in Components : l.rows[k].name = <<d>>
               /\ l.rows[k].dir => IsDir(u, e[k].node) /\ l.rows[k].name = e[k].name
    <3> DEFINE line == Line(u, e[k])
               n == m - ends[k - 1]
               c == e[k].name[1]
    <3>1. k \in DOMAIN e /\ ends[k - 1] < m /\ l.rows[k] = CutLine(line, n)
      BY <1>2, <1>4, <2>7
    <3>2. n \in Nat \ {0}
      BY <2>3, <2>6, <3>1
    <3>3. line.name = <<c>> /\ c \in Components /\ line.name = e[k].name
          /\ line.dir = IsDir(u, e[k].node)
      BY <2>2, <3>1
    <3> HIDE DEF line, n, c
    <3>4. /\ \E d \in Components : CutLine(line, n).name = <<d>>
          /\ CutLine(line, n).dir => line.dir /\ CutLine(line, n).name = line.name
      BY <3>2, <3>3, CutLineOne
    <3> QED BY <3>1, <3>3, <3>4
  <2>8. ASSUME NEW k \in DOMAIN e, ends[k - 1] + NameBytes(e[k].name) <= BufferLen
        PROVE  k \in DOMAIN l.rows /\ l.rows[k].name = e[k].name
    <3> DEFINE line == Line(u, e[k])
               n == m - ends[k - 1]
               c == e[k].name[1]
    <3>1. /\ NameBytes(e[k].name) \in Nat \ {0} /\ ends[k - 1] \in Nat /\ ends[k] \in Nat
          /\ ends[k] >= ends[k - 1] + NameBytes(e[k].name) + 1
          /\ ends[k] <= ends[size]
      <4>1. k \in 1 .. Len(e) /\ k \in 0 .. Len(e)
        BY <2>3
      <4> QED BY <2>3, <2>4, <4>1 DEF size
    <3>2. ends[k - 1] + NameBytes(e[k].name) <= m /\ ends[k - 1] < m
      BY <2>5, <2>6, <2>8, <3>1 DEF MinOf
    <3>3. n \in Nat \ {0} /\ NameBytes(e[k].name) <= n
      BY <2>6, <3>1, <3>2
    <3>4. k \in DOMAIN l.rows /\ l.rows[k] = CutLine(line, n)
      BY <1>2, <1>4, <3>2
    <3>5. line.name = <<c>> /\ c \in Components /\ line.name = e[k].name
      BY <2>2
    <3> HIDE DEF line, n, c
    <3>6. CutLine(line, n).name = line.name
      BY <3>3, <3>5, CutLineOne
    <3> QED BY <3>4, <3>5, <3>6
  <2> QED BY <1>4, <2>7, <2>8 DEF u, l, e, ends
<1> QED BY <1>3, <1>4

(* What is left of the path of something in the directory shown.           *)
LEMMA PathToType ==
  ASSUME NEW f, f.path \in Path, NEW name \in Path
  PROVE  PathTo(f, name) \in Path
BY JoinIs, CutType, ClientAssumption DEF PathTo

LEMMA PathToOne ==
  ASSUME NEW f, f.path \in Path, Bytes(f.path) <= PathBuffer, NEW c \in Components
  PROVE  /\ IsFull(f.path) => PathTo(f, <<c>>) = f.path
         /\ ~IsFull(f.path) =>
              \E d \in Components :
                /\ PathTo(f, <<c>>) = f.path \o <<d>> /\ Bytes(f.path \o <<d>>) <= PathBuffer
                /\ d = c \/ IsFull(f.path \o <<d>>)
                /\ Bytes(f.path \o <<c>>) <= PathBuffer => d = c
<1> DEFINE p == f.path
<1>1. PathBuffer \in Nat /\ Bytes(p) \in Nat
  BY ClientAssumption, BytesAre
<1>2. PathTo(f, <<c>>) = CutTo(p \o <<c>>, PathBuffer)
  BY DEF PathTo
<1> HIDE DEF p
<1>3. IsFull(p) <=> Bytes(p) + 1 >= PathBuffer
  BY <1>1 DEF IsFull
<1>4. /\ Bytes(p) + 1 >= PathBuffer => CutTo(p \o <<c>>, PathBuffer) = p
      /\ Bytes(p) + 1 < PathBuffer =>
           \E d \in Components :
             /\ CutTo(p \o <<c>>, PathBuffer) = p \o <<d>>
             /\ Bytes(p \o <<c>>) <= PathBuffer => d = c
             /\ PathBuffer < Bytes(p \o <<c>>) => Bytes(p \o <<d>>) = PathBuffer
  BY <1>1, CutChild DEF p
<1>5. CASE IsFull(p)
  BY <1>2, <1>3, <1>4, <1>5 DEF p
<1>6. CASE ~IsFull(p)
  <2>1. Bytes(p) + 1 < PathBuffer
    BY <1>1, <1>3, <1>6
  <2>2. PICK d \in Components :
          /\ CutTo(p \o <<c>>, PathBuffer) = p \o <<d>>
          /\ Bytes(p \o <<c>>) <= PathBuffer => d = c
          /\ PathBuffer < Bytes(p \o <<c>>) => Bytes(p \o <<d>>) = PathBuffer
    BY <1>4, <2>1
  <2>3. Bytes(p \o <<c>>) \in Nat
    BY ChildBytes, BytesAre DEF p
  <2>4. Bytes(p \o <<d>>) <= PathBuffer /\ (d = c \/ IsFull(p \o <<d>>))
    BY <1>1, <2>2, <2>3 DEF IsFull
  <2> QED BY <1>2, <1>6, <2>2, <2>4 DEF p
<1> QED BY <1>5, <1>6 DEF p
-----------------------------------------------------------------------------
(* The file system and the file manager together: without phantoms the     *)
(* path shown fits its buffer, what is above it is a directory, and if the *)
(* path does not reach the end of the buffer, it is a directory, too, and  *)
(* the row selected is one of its entries, that of the node picked.        *)
Fm == [path : Path, selected : NoRow .. BufferLen - 1,
       modal : NoModal .. ConfirmDelete, input : Path]
Fits(t, f) ==
  /\ Bytes(f.path) <= PathBuffer
  /\ f.path # <<>> => IsDir(t, Resolve(t, Front(f.path)))
Shown(t, f, p) ==
  /\ IsDir(t, Resolve(t, f.path))
  /\ f.selected # NoRow => f.selected + 1 \in DOMAIN EntriesAt(t, f)
  /\ Picked(t, f) = p
FilesOK(s, f, p) ==
  /\ Tree(s.tree) /\ Quiet(s) /\ f \in Fm /\ p \in DOMAIN s.tree \cup {NoNode}
  /\ ~Phantoms(s.tree) => Fits(s.tree, f) /\ (~IsFull(f.path) => Shown(s.tree, f, p))

LEMMA PickedType ==
  ASSUME NEW t, Tree(t), NEW f \in Fm
  PROVE  /\ Picked(t, f) \in DOMAIN t \cup {NoNode}
         /\ f.selected = NoRow => Picked(t, f) = NoNode
         /\ IsDir(t, Resolve(t, f.path)) => EntriesAt(t, f) = t[Resolve(t, f.path)].entries
<1> DEFINE d == Resolve(t, f.path)
           e == EntriesAt(t, f)
<1>1. f.path \in Path /\ f.selected \in Int
  BY ClientAssumption DEF Fm, NoRow
<1>2. d \in DOMAIN t \cup {NoNode}
  BY <1>1, ResolveTypes
<1>3. IsDir(t, d) => e = t[d].entries
  BY DEF EntriesAt
<1>4. e = <<>> \/ (d \in DOMAIN t /\ e = t[d].entries)
  BY <1>2, <1>3 DEF EntriesAt, IsDir
<1> HIDE DEF d, e
<1>5. /\ \A k \in DOMAIN e : e[k].node \in DOMAIN t
      /\ 0 \notin DOMAIN e
  <2>1. CASE e = <<>>
    <3>1. DOMAIN <<>> = {}
      BY EmptySeq
    <3> QED BY <2>1, <3>1
  <2>2. CASE d \in DOMAIN t /\ e = t[d].entries
    BY <2>2, TreeNode
  <2> QED BY <1>4, <2>1, <2>2
<1>6. Picked(t, f) \in DOMAIN t \cup {NoNode}
  BY <1>5 DEF Picked, e
<1>7. f.selected = NoRow => Picked(t, f) = NoNode
  <2>1. NoRow + 1 = 0
    BY DEF NoRow
  <2> QED BY <1>5, <2>1 DEF Picked, e
<1> QED BY <1>3, <1>6, <1>7 DEF d, e

(* Growth leaves what is shown and selected as it is.                      *)
LEMMA GrowFits ==
  ASSUME NEW t, NEW u, Tree(t), Tree(u), Grows(t, u), NEW f \in Fm, Fits(t, f)
  PROVE  Fits(u, f)
<1> SUFFICES ASSUME f.path # <<>> PROVE IsDir(u, Resolve(u, Front(f.path)))
  BY DEF Fits
<1> DEFINE d == Resolve(t, Front(f.path))
<1>1. Front(f.path) \in Path /\ IsDir(t, d)
  BY FrontIs DEF Fm, Fits
<1>2. d \in DOMAIN t /\ Resolve(u, Front(f.path)) = d
  <2>1. d # NoNode
    BY <1>1 DEF IsDir
  <2> QED BY <1>1, <2>1, ResolveNode, GrowsResolve
<1> HIDE DEF d
<1>3. IsDir(u, d)
  BY <1>1, <1>2 DEF Grows, IsDir
<1> QED BY <1>2, <1>3

LEMMA GrowOK ==
  ASSUME NEW s, NEW f, NEW p, FilesOK(s, f, p),
         NEW z, Tree(z.tree), Grows(s.tree, z.tree), Quiet(z),
         NEW g \in Fm, g.path = f.path, g.selected = f.selected,
         NEW q, q = p \/ (g.selected = NoRow /\ q = NoNode)
  PROVE  FilesOK(z, g, q)
<1> DEFINE t == s.tree
           u == z.tree
           d == Resolve(t, f.path)
           k == f.selected + 1
<1>1. /\ Tree(t) /\ f \in Fm /\ f.path \in Path /\ f.selected \in Int
      /\ p \in DOMAIN t \cup {NoNode}
  BY ClientAssumption DEF FilesOK, Fm, NoRow
<1>2. q \in DOMAIN u \cup {NoNode}
  BY <1>1 DEF Grows
<1>3. ASSUME ~Phantoms(u) PROVE Fits(u, g)
  <2>1. Fits(t, f)
    BY <1>1, <1>3, PhantomsStay DEF FilesOK
  <2>2. Fits(u, f)
    BY <1>1, <2>1, GrowFits
  <2> QED BY <2>2 DEF Fits
<1>4. ASSUME ~Phantoms(u), ~IsFull(g.path) PROVE Shown(u, g, q)
  <2>1. Shown(t, f, p)
    BY <1>1, <1>4, PhantomsStay DEF FilesOK
  <2>2. d # NoNode /\ d \in DOMAIN t /\ IsDir(t, d) /\ Resolve(u, g.path) = d
    <3>1. d # NoNode /\ IsDir(t, d)
      BY <2>1 DEF Shown, IsDir
    <3> QED BY <1>1, <3>1, ResolveNode, GrowsResolve
  <2> HIDE DEF d, t, u
  <2>3. /\ IsDir(u, d) /\ DOMAIN t[d].entries \subseteq DOMAIN u[d].entries
        /\ \A j \in DOMAIN t[d].entries : u[d].entries[j] = t[d].entries[j]
    BY <2>2 DEF Grows, IsDir, t, u
  <2>4. EntriesAt(t, f) = t[d].entries /\ EntriesAt(u, g) = u[d].entries
    BY <2>2, <2>3 DEF EntriesAt, d
  <2>5. CASE f.selected = NoRow
    <3>1. Picked(t, f) = NoNode /\ Picked(u, g) = NoNode
      BY <1>1, <2>5, PickedType DEF u, t
    <3>2. q = NoNode
      BY <2>1, <3>1 DEF Shown
    <3> QED BY <2>2, <2>3, <2>5, <3>1, <3>2 DEF Shown
  <2>6. CASE f.selected # NoRow
    <3>1. k \in DOMAIN t[d].entries /\ q = p
      BY <2>1, <2>4, <2>6 DEF Shown
    <3>2. Picked(t, f) = t[d].entries[k].node /\ Picked(u, g) = u[d].entries[k].node
      BY <2>3, <2>4, <3>1 DEF Picked
    <3>3. Picked(u, g) = q
      BY <2>1, <2>3, <3>1, <3>2 DEF Shown
    <3> QED BY <2>2, <2>3, <2>4, <3>1, <3>3 DEF Shown
  <2> QED BY <2>5, <2>6
<1> QED BY <1>2, <1>3, <1>4 DEF FilesOK

(* With no row selected, a directory must be shown and no more.            *)
LEMMA BareOK ==
  ASSUME NEW z, Tree(z.tree), Quiet(z), NEW g \in Fm, g.selected = NoRow,
         ~Phantoms(z.tree) =>
           Fits(z.tree, g) /\ (~IsFull(g.path) => IsDir(z.tree, Resolve(z.tree, g.path)))
  PROVE  FilesOK(z, g, NoNode)
BY PickedType DEF FilesOK, Shown

LEMMA ShownIs ==
  ASSUME NEW s, NEW f, NEW p, FilesOK(s, f, p), ~Phantoms(s.tree), ~IsFull(f.path)
  PROVE  /\ IsDir(s.tree, Resolve(s.tree, f.path)) /\ Resolve(s.tree, f.path) \in DOMAIN s.tree
         /\ Resolve(s.tree, f.path) # NoNode /\ Created(s.tree, f.path) = s.tree
         /\ s = Sys(s.tree, NoFds) /\ List(s, f.path).sys = s
         /\ EntriesAt(s.tree, f) = s.tree[Resolve(s.tree, f.path)].entries
<1>1. /\ Shown(s.tree, f, p) /\ Tree(s.tree) /\ Quiet(s) /\ f \in Fm /\ f.path \in Path
  BY DEF FilesOK, Fm
<1>2. IsDir(s.tree, Resolve(s.tree, f.path)) /\ Resolve(s.tree, f.path) # NoNode
  BY <1>1 DEF Shown, IsDir
<1>3. s = Sys(s.tree, NoFds)
  BY <1>1 DEF Quiet, Sys
<1>4. Created(s.tree, f.path) = s.tree
  BY <1>1, <1>2, CreatedTree
<1>5. List(s, f.path).sys = s
  BY <1>1, <1>3, <1>4, ListIs
<1> QED BY <1>1, <1>2, <1>3, <1>4, <1>5, ResolveNode, PickedType

(* The row selected, if no buffer cuts it.                                 *)
LEMMA RowIsWhole ==
  ASSUME NEW s, NEW f, NEW p, FilesOK(s, f, p), ~Phantoms(s.tree), ~IsFull(f.path),
         f.selected # NoRow, ~RowIsCut(s.tree, f)
  PROVE  LET l == List(s, f.path)
             row == f.selected + 1
             d == Resolve(s.tree, f.path)
             name == l.rows[row].name
         IN  /\ row \in DOMAIN l.rows /\ row \in DOMAIN s.tree[d].entries
             /\ p = s.tree[d].entries[row].node /\ p # NoNode
             /\ name = s.tree[d].entries[row].name /\ (\E c \in Components : name = <<c>>)
             /\ PathTo(f, name) = f.path \o name /\ Resolve(s.tree, f.path \o name) = p
<1> DEFINE t == s.tree
           d == Resolve(t, f.path)
           l == List(s, f.path)
           row == f.selected + 1
           e == t[d].entries[row]
<1>1. /\ Tree(t) /\ Quiet(s) /\ f.path \in Path /\ IsDir(t, d) /\ Created(t, f.path) = t
      /\ EntriesAt(t, f) = t[d].entries /\ Shown(t, f, p)
  BY ShownIs DEF FilesOK, Fm
<1>2. row \in DOMAIN t[d].entries /\ p = e.node
  BY <1>1 DEF Shown, Picked
<1>3. /\ LineEnds(Lines(t, d))[row - 1] \in Nat /\ NameBytes(e.name) \in Nat /\ e.name \in Path
      /\ Len(t[d].entries) \in Nat
  <2>1. d \in DOMAIN t
    BY ShownIs
  <2> QED BY <1>1, <1>2, <2>1, LinesAre
<1>4. Bytes(f.path \o e.name) \in Nat /\ BufferLen \in Nat /\ PathBuffer \in Nat
  BY <1>1, <1>3, JoinIs, BytesAre, ClientAssumption
<1>5. /\ LineEnds(Lines(t, d))[row - 1] + NameBytes(e.name) <= BufferLen
      /\ Bytes(f.path \o e.name) <= PathBuffer
  <2>1. /\ ~(LineEnds(Lines(t, d))[row - 1] + NameBytes(e.name) > BufferLen)
        /\ ~(Bytes(f.path \o e.name) > PathBuffer)
    <3> HIDE DEF row, d
    <3> QED BY <1>1, <1>2 DEF RowIsCut, LinesAt, row, d
  <2> HIDE DEF t, d, e, row
  <2> QED BY <1>3, <1>4, <2>1
<1>6. row \in DOMAIN l.rows /\ l.rows[row].name = e.name
  <2> DEFINE u == Created(s.tree, f.path)
             i == Resolve(u, f.path)
  <2>1. ~Phantoms(u) /\ u = t /\ i = d
    BY <1>1
  <2>2. IsDir(u, i) =>
          \A k \in DOMAIN u[i].entries :
            LineEnds(Lines(u, i))[k - 1] + NameBytes(u[i].entries[k].name) <= BufferLen =>
              k \in DOMAIN l.rows /\ l.rows[k].name = u[i].entries[k].name
    BY <1>1, <2>1, RowsFound
  <2> HIDE DEF t, d, l, row, u, i
  <2> QED BY <1>1, <1>2, <1>5, <2>1, <2>2
<1>7. /\ e.name = <<e.name[1]>> /\ e.name[1] \in Components
      /\ Resolve(t, f.path \o e.name) = e.node /\ e.node # NoNode
  BY <1>1, <1>2, EntryIsFound
<1>8. PathTo(f, e.name) = f.path \o e.name
  BY <1>1, <1>3, <1>4, <1>5, JoinIs, CutWhole DEF PathTo
<1> HIDE DEF t, d, l, row
<1> QED BY <1>2, <1>6, <1>7, <1>8 DEF t, d, l, row

LEMMA DrawOK ==
  ASSUME NEW s, NEW f, NEW p, FilesOK(s, f, p)
  PROVE  /\ Tree(Draw(f, s).tree) /\ Grows(s.tree, Draw(f, s).tree)
         /\ ~Phantoms(s.tree) /\ ~IsFull(f.path) /\ ~PreviewIsCut(s.tree, f) => Draw(f, s) = s
<1> DEFINE l == List(s, f.path)
           row == f.selected + 1
           name == l.rows[row].name
           path == PathTo(f, CutTo(name, NameBuffer + 1))
<1>1. Tree(s.tree) /\ Quiet(s) /\ f \in Fm /\ f.path \in Path
  BY DEF FilesOK, Fm
<1>2. /\ Tree(l.sys.tree) /\ Quiet(l.sys) /\ Grows(s.tree, l.sys.tree)
      /\ row \in DOMAIN l.rows => path \in Path
  BY <1>1, ListTypes, CutType, PathToType, ClientAssumption
<1>3. Draw(f, s) = IF row \in DOMAIN l.rows /\ ~l.rows[row].dir
                   THEN ReadAll(l.sys, path).sys ELSE l.sys
  BY DEF Draw, DrawRows, IsRow, Preview
<1>4. ASSUME ~Phantoms(s.tree), ~IsFull(f.path), ~PreviewIsCut(s.tree, f)
      PROVE  /\ l.sys = s /\ s = Sys(s.tree, NoFds)
             /\ row \in DOMAIN l.rows => Resolve(s.tree, path) # NoNode
  <2>1. l.sys = s /\ s = Sys(s.tree, NoFds)
    BY <1>4, ShownIs
  <2>2. ASSUME row \in DOMAIN l.rows PROVE Resolve(s.tree, path) # NoNode
    <3> DEFINE d == Resolve(s.tree, f.path)
               e == s.tree[d].entries[row]
    <3>1. Created(s.tree, f.path) = s.tree /\ IsDir(s.tree, d) /\ d \in DOMAIN s.tree
          /\ EntriesAt(s.tree, f) = s.tree[d].entries
      BY <1>4, ShownIs
    <3>2. row \in DOMAIN s.tree[d].entries
      <4> HIDE DEF l, row
      <4> QED BY <1>1, <1>4, <2>2, <3>1, RowsFound DEF l
    <3>3. f.selected # NoRow
      <4>1. 0 \notin DOMAIN s.tree[d].entries
        BY <1>1, <3>1, TreeNode
      <4> QED BY <3>2, <4>1 DEF NoRow
    <3>4. ~RowIsCut(s.tree, f)
      BY <1>4 DEF PreviewIsCut
    <3>5. /\ name = e.name /\ Resolve(s.tree, f.path \o name) # NoNode
          /\ PathTo(f, name) = f.path \o name /\ \E c \in Components : name = <<c>>
      BY <1>4, <3>3, <3>4, RowIsWhole
    <3>6. ~(NameBytes(e.name) > NameBuffer)
      <4> HIDE DEF row, d
      <4> QED BY <1>4, <3>1, <3>2 DEF PreviewIsCut, row
    <3> HIDE DEF name, e
    <3>7. CutTo(name, NameBuffer + 1) = name
      <4>1. PICK c \in Components : name = <<c>>
        BY <3>5
      <4>2. NameBytes(<<c>>) = Len(c) /\ Len(c) \in Nat
        BY OneIs
      <4>3. NameBuffer \in Nat \ {0}
        BY ClientAssumption
      <4>4. Len(c) <= NameBuffer
        BY <3>5, <3>6, <4>1, <4>2, <4>3
      <4> QED BY <4>1, <4>3, <4>4, CutOne
    <3> QED BY <3>5, <3>7
  <2> QED BY <2>1, <2>2
<1> HIDE DEF l, row, path
<1>5. CASE row \in DOMAIN l.rows /\ ~l.rows[row].dir
  <2> DEFINE u == Created(l.sys.tree, path)
  <2>1. Tree(u) /\ Grows(l.sys.tree, u)
    BY <1>2, <1>5, CreatedTree
  <2>2. Draw(f, s) = Sys(u, NoFds)
    BY <1>2, <1>3, <1>5, ReadAllIs
  <2>3. Draw(f, s).tree = u
    BY <2>2 DEF Sys
  <2>4. ~Phantoms(s.tree) /\ ~IsFull(f.path) /\ ~PreviewIsCut(s.tree, f) =>
          u = s.tree /\ s = Sys(s.tree, NoFds)
    BY <1>2, <1>4, <1>5, CreatedTree
  <2> HIDE DEF u
  <2> QED BY <1>2, <2>1, <2>2, <2>3, <2>4, GrowsTrans
<1>6. CASE ~(row \in DOMAIN l.rows /\ ~l.rows[row].dir)
  BY <1>2, <1>3, <1>4, <1>6
<1> QED BY <1>5, <1>6

LEMMA ClickOK ==
  ASSUME NEW s, NEW f, NEW p, FilesOK(s, f, p), NEW row \in 0 .. BufferLen - 1
  PROVE  LET c == ClickRow(f, s, row)
         IN  /\ FilesOK(c.sys, c.fm, IF c.fm = f THEN p ELSE Picked(c.sys.tree, c.fm))
             /\ ~Phantoms(s.tree) /\ ~IsFull(f.path) => c.sys = s
<1> DEFINE l == List(s, f.path)
           u == l.sys.tree
           i == Resolve(u, f.path)
           c == ClickRow(f, s, row)
           at == row + 1
           q == IF c.fm = f THEN p ELSE Picked(c.sys.tree, c.fm)
<1>1. /\ Tree(s.tree) /\ Quiet(s) /\ f \in Fm /\ f.path \in Path
      /\ row \in NoRow .. BufferLen - 1 /\ NoRow \in NoRow .. BufferLen - 1 /\ row # NoRow
  BY ClientAssumption DEF FilesOK, Fm, NoRow
<1>2. /\ Tree(u) /\ Quiet(l.sys) /\ Grows(s.tree, u)
      /\ at \in DOMAIN l.rows => l.rows[at].name \in Path
  BY <1>1, ListTypes
<1>3. c = ClickListed(f, l, row)
  BY DEF ClickRow
<1>4. c.sys = l.sys
  BY <1>3 DEF ClickListed, Does
<1>5. ASSUME ~Phantoms(u)
      PROVE  /\ ~Phantoms(s.tree) /\ Fits(u, f)
             /\ at \in DOMAIN l.rows =>
                  /\ \E d \in Components : l.rows[at].name = <<d>>
                  /\ l.rows[at].dir =>
                       /\ IsDir(u, i) /\ at \in DOMAIN u[i].entries
                       /\ IsDir(u, u[i].entries[at].node)
                       /\ l.rows[at].name = u[i].entries[at].name
             /\ IsDir(u, i) => DOMAIN l.rows \subseteq DOMAIN u[i].entries
  <2>1. ~Phantoms(s.tree)
    BY <1>1, <1>2, <1>5, PhantomsStay
  <2>2. Fits(u, f)
    BY <1>1, <1>2, <2>1, GrowFits DEF FilesOK
  <2>3. u = Created(s.tree, f.path)
    <3>1. l.sys = Sys(Created(s.tree, f.path), NoFds)
      BY <1>1, ListIs
    <3> HIDE DEF l
    <3> QED BY <3>1 DEF Sys
  <2> DEFINE v == Created(s.tree, f.path)
             j == Resolve(v, f.path)
  <2>4. /\ \A k \in DOMAIN l.rows :
             /\ \E d \in Components : l.rows[k].name = <<d>>
             /\ l.rows[k].dir =>
                  /\ IsDir(v, j) /\ k \in DOMAIN v[j].entries /\ IsDir(v, v[j].entries[k].node)
                  /\ l.rows[k].name = v[j].entries[k].name
        /\ IsDir(v, j) => DOMAIN l.rows \subseteq DOMAIN v[j].entries
    BY <1>1, <1>5, <2>3, RowsFound
  <2>5. v = u /\ j = i
    BY <2>3
  <2> HIDE DEF u, v, i, j, l, at
  <2> QED BY <2>1, <2>2, <2>4, <2>5
<1>6. ~Phantoms(s.tree) /\ ~IsFull(f.path) => c.sys = s
  BY <1>4, ShownIs
<1>7. CASE c.fm = f
  <2>1. FilesOK(l.sys, f, p)
    <3> HIDE DEF l
    <3> QED BY <1>1, <1>2, GrowOK
  <2> QED BY <1>4, <1>6, <1>7, <2>1
<1>8. CASE c.fm # f
  <2>1. at \in DOMAIN l.rows
    BY <1>3, <1>8 DEF ClickListed, Does, IsRow
  <2>2. q = Picked(u, c.fm)
    BY <1>4, <1>8
  <2> DEFINE name == l.rows[at].name
             g1 == PushDir(f, name)
             g2 == [f EXCEPT !.selected = row]
  <2>3. (c.fm = g1 /\ l.rows[at].dir) \/ c.fm = g2
    BY <1>3, <2>1 DEF ClickListed, Does, IsRow
  <2>4. CASE c.fm = g1 /\ l.rows[at].dir
    <3>1. g1 \in Fm /\ g1.selected = NoRow /\ g1.path = PathTo(f, name)
      <4>1. PathTo(f, name) \in Path
        BY <1>1, <1>2, <2>1, PathToType
      <4> QED BY <1>1, <4>1 DEF PushDir, SetPath, Fm
    <3>2. ASSUME ~Phantoms(u)
          PROVE  Fits(u, g1) /\ (~IsFull(g1.path) => IsDir(u, Resolve(u, g1.path)))
      <4> DEFINE e == u[i].entries[at]
      <4>1. /\ Fits(u, f) /\ Bytes(f.path) <= PathBuffer
            /\ IsDir(u, i) /\ at \in DOMAIN u[i].entries /\ IsDir(u, e.node) /\ name = e.name
        BY <1>5, <2>1, <2>4, <3>2 DEF Fits
      <4>2. PICK d \in Components : name = <<d>>
        BY <1>5, <2>1, <3>2
      <4>3. Resolve(u, f.path \o name) = e.node
        <5> HIDE DEF name, u, l, at
        <5> QED BY <1>1, <1>2, <3>2, <4>1, EntryIsFound
      <4> HIDE DEF name, g1, u, i, e, l, at
      <4>4. CASE IsFull(f.path)
        <5>1. PathTo(f, <<d>>) = f.path
          BY <1>1, <4>1, <4>4, PathToOne
        <5>2. g1.path = f.path
          BY <3>1, <4>2, <5>1
        <5> QED BY <4>1, <4>4, <5>2 DEF Fits
      <4>5. CASE ~IsFull(f.path)
        <5>1. PICK b \in Components :
                /\ PathTo(f, <<d>>) = f.path \o <<b>> /\ Bytes(f.path \o <<b>>) <= PathBuffer
                /\ b = d \/ IsFull(f.path \o <<b>>)
          BY <1>1, <4>1, <4>5, PathToOne
        <5>2. g1.path = f.path \o <<b>> /\ Front(g1.path) = f.path
          BY <1>1, <3>1, <4>2, <5>1, ChildIs
        <5>3. Fits(u, g1)
          BY <4>1, <5>1, <5>2 DEF Fits, i
        <5>4. ~IsFull(g1.path) => IsDir(u, Resolve(u, g1.path))
          BY <4>1, <4>2, <4>3, <5>1, <5>2
        <5> QED BY <5>3, <5>4
      <4> QED BY <4>4, <4>5
    <3> HIDE DEF l, g1, c
    <3>3. FilesOK(l.sys, g1, NoNode) /\ Picked(u, g1) = NoNode
      BY <1>2, <3>1, <3>2, BareOK, PickedType
    <3> QED BY <1>4, <1>6, <1>8, <2>4, <3>3 DEF c
  <2>5. CASE c.fm = g2
    <3>1. g2 \in Fm /\ g2.selected = row /\ g2.path = f.path
      BY <1>1 DEF Fm
    <3>2. Picked(u, g2) \in DOMAIN u \cup {NoNode}
      BY <1>2, <3>1, PickedType
    <3>3. ASSUME ~Phantoms(u), ~IsFull(g2.path) PROVE Shown(u, g2, Picked(u, g2))
      <4>1. ~Phantoms(s.tree) /\ ~IsFull(f.path)
        BY <1>5, <3>1, <3>3
      <4>2. u = s.tree
        BY <4>1, ShownIs
      <4>3. IsDir(u, i)
        BY <4>1, <4>2, ShownIs
      <4>4. at \in DOMAIN u[i].entries
        BY <1>5, <2>1, <3>3, <4>3
      <4> HIDE DEF u, l
      <4>5. EntriesAt(u, g2) = u[i].entries
        BY <3>1, <4>3 DEF EntriesAt
      <4> HIDE DEF g2
      <4> QED BY <3>1, <4>3, <4>4, <4>5 DEF Shown, i
    <3>4. ~Phantoms(u) => Fits(u, g2)
      <4> HIDE DEF u
      <4>1. ~Phantoms(u) => Fits(u, f)
        BY <1>5
      <4> HIDE DEF g2
      <4> QED BY <3>1, <4>1 DEF Fits
    <3>5. FilesOK(l.sys, g2, Picked(u, g2))
      <4> HIDE DEF l, g2
      <4> QED BY <1>2, <3>1, <3>2, <3>3, <3>4 DEF FilesOK
    <3> QED BY <1>4, <1>6, <1>8, <2>5, <3>5
  <2> QED BY <2>3, <2>4, <2>5
<1> QED BY <1>7, <1>8

(* The row selected is removed, and nothing else.                          *)
WithoutAll(t, i) ==
  [j \in DOMAIN t |-> [t[j] EXCEPT !.entries = WithoutNode(@, i)]]

LEMMA CutIs ==
  ASSUME NEW t, Tree(t), NEW d \in DOMAIN t, NEW k \in DOMAIN t[d].entries
  PROVE  Cut(t, d, k) = WithoutAll(t, t[d].entries[k].node)
<1> DEFINE i == t[d].entries[k].node
           u == Cut(t, d, k)
           v == WithoutAll(t, i)
<1>1. DOMAIN u = DOMAIN t /\ DOMAIN v = DOMAIN t
  BY DEF Cut, WithoutAll
<1>2. ASSUME NEW j \in DOMAIN t PROVE u[j] = v[j]
  <2>1. v[j] = [t[j] EXCEPT !.entries = WithoutNode(t[j].entries, i)]
    BY DEF WithoutAll
  <2>2. CASE j = d
    <3>1. WithoutNode(t[d].entries, i) = RemoveAt(t[d].entries, k)
      BY WithoutIs
    <3>2. u[d] = [t[d] EXCEPT !.entries = RemoveAt(t[d].entries, k)]
      BY DEF Cut
    <3> QED BY <2>1, <2>2, <3>1, <3>2
  <2>3. CASE j # d
    <3>1. u[j] = t[j]
      BY <2>3 DEF Cut
    <3>2. \A l \in DOMAIN t[j].entries : t[j].entries[l].node # i
      BY <2>3, TreeLinks
    <3>3. WithoutNode(t[j].entries, i) = t[j].entries
      BY <3>2, WithoutNone
    <3>4. t[j] \in Node
      BY TreeNode
    <3>5. [t[j] EXCEPT !.entries = t[j].entries] = t[j]
      BY <3>4 DEF Node, NodeType
    <3> QED BY <2>1, <3>1, <3>3, <3>5
  <2> QED BY <2>2, <2>3
<1>3. u = [j \in DOMAIN t |-> u[j]] /\ v = [j \in DOMAIN t |-> v[j]]
  BY DEF Cut, WithoutAll
<1> HIDE DEF u, v
<1>4. u = v
  BY <1>1, <1>2, <1>3
<1> QED BY <1>4 DEF u, v, i

LEMMA WithoutNoNode ==
  ASSUME NEW t, Tree(t)
  PROVE  WithoutAll(t, NoNode) = t
<1>1. ASSUME NEW j \in DOMAIN t
      PROVE  [t[j] EXCEPT !.entries = WithoutNode(@, NoNode)] = t[j]
  <2>1. \A l \in DOMAIN t[j].entries : t[j].entries[l].node # NoNode
    BY TreeNode DEF NoNode
  <2>2. WithoutNode(t[j].entries, NoNode) = t[j].entries
    BY <2>1, WithoutNone
  <2>3. t[j] \in Node
    BY TreeNode
  <2>4. [t[j] EXCEPT !.entries = t[j].entries] = t[j]
    BY <2>3 DEF Node, NodeType
  <2> QED BY <2>2, <2>4
<1>2. t = [j \in DOMAIN t |-> t[j]]
  BY TreeNode
<1> QED BY <1>1, <1>2 DEF WithoutAll

(* What is above a node that goes stays where it is.                       *)
LEMMA RemoveKeeps ==
  ASSUME NEW t, Tree(t), NEW q \in Path, NEW r \in Path, Len(r) < Len(q),
         IsDir(t, Resolve(t, r))
  PROVE  LET u == RemoveNode(t, q).tree IN IsDir(u, Resolve(u, r))
<1> DEFINE u == RemoveNode(t, q).tree
<1>1. CASE q = <<>> \/ Resolve(t, q) = NoNode
  BY <1>1 DEF RemoveNode
<1>2. CASE q # <<>> /\ Resolve(t, q) # NoNode
  <2> DEFINE d == Resolve(t, Front(q))
             i == Resolve(t, r)
  <2>1. d \in DOMAIN t /\ d # NoNode
    BY <1>2, ResolveNode, TreeNode DEF NoNode
  <2>2. PICK k \in DOMAIN t[d].entries : t[d].entries[k].node = Resolve(t, q)
    BY <1>2, ResolveNode
  <2>3. u = Cut(t, d, k)
    BY <1>2, <2>2, RemoveIs
  <2>4. Front(q) \in Path /\ Len(r) <= Len(Front(q))
    BY <1>2, FrontIs, LenProperties DEF Path
  <2>5. i # NoNode
    BY DEF IsDir
  <2>6. Resolve(Cut(t, d, k), r) = i
    BY <2>1, <2>2, <2>4, <2>5, RemoveResolve
  <2>7. i \in DOMAIN t
    BY <2>5, ResolveNode
  <2> HIDE DEF d, i, u
  <2>8. Cut(t, d, k)[i].kind = t[i].kind
    BY <2>1, <2>2, <2>7, RemoveTree
  <2>9. IsDir(Cut(t, d, k), i)
    BY <2>5, <2>8 DEF IsDir, i
  <2> QED BY <2>3, <2>6, <2>9 DEF u
<1> QED BY <1>1, <1>2

LEMMA RemoveSelectedOK ==
  ASSUME NEW s, NEW f, NEW p, FilesOK(s, f, p), f.selected # NoRow
  PROVE  LET z == RemoveSelected(f, s)
         IN  /\ Tree(z.tree) /\ Quiet(z)
             /\ ~Phantoms(z.tree) =>
                  Fits(z.tree, f) /\ (~IsFull(f.path) => IsDir(z.tree, Resolve(z.tree, f.path)))
             /\ ~Phantoms(s.tree) /\ ~IsFull(f.path) /\ ~RowIsCut(s.tree, f) =>
                  z.tree = WithoutAll(s.tree, p)
<1> DEFINE z == RemoveSelected(f, s)
           l == List(s, f.path)
           u == l.sys.tree
           row == f.selected + 1
           name == l.rows[row].name
           path == PathTo(f, name)
<1>1. /\ Tree(s.tree) /\ Quiet(s) /\ f.path \in Path /\ f \in Fm
      /\ f.selected \in 0 .. BufferLen - 1
  BY DEF FilesOK, Fm, NoRow
<1>2. /\ Tree(u) /\ Quiet(l.sys) /\ Grows(s.tree, u)
      /\ row \in DOMAIN l.rows => path \in Path
  BY <1>1, ListTypes, PathToType
<1>3. z = IF row \in DOMAIN l.rows THEN SysRemove(l.sys, path).sys ELSE l.sys
  BY DEF RemoveSelected, RemoveRow, IsRow
<1>4. Quiet(z)
  BY <1>2, <1>3, MakingQuiet
<1>5. SysRemove(l.sys, path).sys.tree = RemoveNode(u, path).tree
  BY DEF SysRemove, Changed, Returns, Sys
<1>6. /\ Tree(z.tree)
      /\ Phantoms(u) => Phantoms(z.tree)
      /\ Phantoms(s.tree) => Phantoms(u)
  <2>1. Phantoms(s.tree) => Phantoms(u)
    BY <1>1, <1>2, PhantomsStay
  <2>2. row \in DOMAIN l.rows =>
          /\ Tree(RemoveNode(u, path).tree)
          /\ Phantoms(u) => Phantoms(RemoveNode(u, path).tree)
    BY <1>2, RemoveNodeTree
  <2> HIDE DEF z, l, path, row
  <2> QED BY <1>2, <1>3, <1>5, <2>1, <2>2
<1>7. ASSUME ~Phantoms(z.tree)
      PROVE  Fits(z.tree, f) /\ (~IsFull(f.path) => IsDir(z.tree, Resolve(z.tree, f.path)))
  <2>1. ~Phantoms(s.tree) /\ ~Phantoms(u) /\ Fits(s.tree, f) /\ Fits(u, f)
    <3>1. ~Phantoms(s.tree) /\ ~Phantoms(u)
      BY <1>6, <1>7
    <3>2. Fits(s.tree, f)
      BY <3>1 DEF FilesOK
    <3> QED BY <1>1, <1>2, <3>1, <3>2, GrowFits
  <2>2. ~IsFull(f.path) => IsDir(u, Resolve(u, f.path))
    BY <2>1, ShownIs
  <2>3. CASE row \notin DOMAIN l.rows
    <3>1. z.tree = u
      BY <1>3, <2>3
    <3> HIDE DEF z, u
    <3> QED BY <2>1, <2>2, <3>1
  <2>4. CASE row \in DOMAIN l.rows
    <3>1. z.tree = RemoveNode(u, path).tree /\ path \in Path
      BY <1>2, <1>3, <1>5, <2>4
    <3>2. PICK c \in Components : name = <<c>>
      <4>1. u = Created(s.tree, f.path)
        <5>1. l.sys = Sys(Created(s.tree, f.path), NoFds)
          BY <1>1, ListIs
        <5> HIDE DEF l
        <5> QED BY <5>1 DEF Sys
      <4>2. ~Phantoms(Created(s.tree, f.path))
        BY <2>1, <4>1
      <4> HIDE DEF row
      <4> QED BY <1>1, <2>4, <4>2, RowsFound
    <3> HIDE DEF name, z, u, l
    <3>3. Bytes(f.path) <= PathBuffer
      BY <2>1 DEF Fits
    <3>4. \/ IsFull(f.path) /\ path = f.path
          \/ ~IsFull(f.path) /\ \E d \in Components : path = f.path \o <<d>>
      <4>1. path = PathTo(f, <<c>>)
        BY <3>2
      <4> HIDE DEF path
      <4>2. IsFull(f.path) => PathTo(f, <<c>>) = f.path
        BY <1>1, <3>3, PathToOne
      <4>3. ASSUME ~IsFull(f.path)
            PROVE  \E d \in Components : PathTo(f, <<c>>) = f.path \o <<d>>
        <5>1. \E d \in Components :
                /\ PathTo(f, <<c>>) = f.path \o <<d>> /\ Bytes(f.path \o <<d>>) <= PathBuffer
                /\ d = c \/ IsFull(f.path \o <<d>>)
                /\ Bytes(f.path \o <<c>>) <= PathBuffer => d = c
          BY <1>1, <3>3, <4>3, PathToOne
        <5> QED BY <5>1
      <4> QED BY <4>1, <4>2, <4>3
    <3>5. Len(path) \in Nat /\ Len(f.path) \in Nat
          /\ (IsFull(f.path) => Len(path) = Len(f.path))
          /\ (~IsFull(f.path) => Len(path) = Len(f.path) + 1)
      <4> HIDE DEF path
      <4>1. \A r \in Path : Len(r) \in Nat
        BY LenProperties DEF Path
      <4>2. \A d \in Components : Len(f.path \o <<d>>) = Len(f.path) + 1
        BY <1>1, ChildBytes
      <4> QED BY <1>1, <3>1, <3>4, <4>1, <4>2
    <3> HIDE DEF path
    <3>6. ASSUME f.path # <<>> PROVE IsDir(z.tree, Resolve(z.tree, Front(f.path)))
      <4>1. /\ Front(f.path) \in Path /\ Len(Front(f.path)) = Len(f.path) - 1
        BY <1>1, <3>6, FrontIs
      <4>2. Len(Front(f.path)) < Len(path)
        BY <3>5, <4>1
      <4>3. IsDir(u, Resolve(u, Front(f.path)))
        BY <2>1, <3>6 DEF Fits
      <4> QED BY <1>2, <3>1, <4>1, <4>2, <4>3, RemoveKeeps
    <3>7. ASSUME ~IsFull(f.path) PROVE IsDir(z.tree, Resolve(z.tree, f.path))
      <4>1. Len(f.path) < Len(path)
        BY <3>5, <3>7
      <4> QED BY <1>1, <1>2, <2>2, <3>1, <3>7, <4>1, RemoveKeeps
    <3> QED BY <3>3, <3>6, <3>7 DEF Fits
  <2> QED BY <2>3, <2>4
<1>8. ASSUME ~Phantoms(s.tree), ~IsFull(f.path), ~RowIsCut(s.tree, f)
      PROVE  z.tree = WithoutAll(s.tree, p)
  <2> DEFINE t == s.tree
             d == Resolve(t, f.path)
             q == f.path \o name
  <2>1. d \in DOMAIN t /\ l.sys = s
    BY <1>8, ShownIs
  <2>2. /\ row \in DOMAIN l.rows /\ row \in DOMAIN t[d].entries
        /\ p = t[d].entries[row].node /\ p # NoNode
        /\ (\E c \in Components : name = <<c>>)
        /\ path = q /\ Resolve(t, q) = p
    BY <1>8, RowIsWhole
  <2>3. q \in Path /\ q # <<>> /\ Front(q) = f.path
    BY <1>1, <2>2, ChildIs
  <2>4. z.tree = RemoveNode(t, q).tree
    BY <1>3, <1>5, <2>1, <2>2
  <2> HIDE DEF q, row, z, l, name
  <2>5. RemoveNode(t, q).tree = Cut(t, d, row)
    BY <1>1, <2>2, <2>3, RemoveIs
  <2>6. Cut(t, d, row) = WithoutAll(t, p)
    <3> HIDE DEF d
    <3> QED BY <1>1, <2>1, <2>2, CutIs
  <2> QED BY <2>4, <2>5, <2>6
<1> QED BY <1>4, <1>6, <1>7, <1>8
-----------------------------------------------------------------------------
(* The dialog, the console and the radiation simulator.                    *)
LEMMA PathConstants ==
  /\ Texts \subseteq Path /\ CmdPaths \subseteq Path /\ LogPath \in Path /\ <<>> \in Path
  /\ EchoTexts \subseteq Seq(Nat) /\ NewFileText \in Seq(Nat) /\ Tree(BootTree)
<1>1. Typed \subseteq Path /\ EchoTexts \subseteq Seq(Nat) /\ Tree(BootTree)
  BY UserlandAssumption DEF Path, Tree
<1>2. Texts \subseteq Typed /\ CmdPaths \subseteq Typed /\ LogPath \in Typed
  BY DEF Typed
<1> QED BY <1>1, <1>2, ClientAssumption, EmptySeq DEF Path

LEMMA Modes ==
  /\ NoModal = 0 /\ NewFolder = 1 /\ NewFile = 2 /\ ConfirmDelete = 3 /\ NoRow = -1
  /\ NoRow \in NoRow .. BufferLen - 1
BY ClientAssumption DEF NoModal, NewFolder, NewFile, ConfirmDelete, NoRow

LEMMA FmUpdates ==
  ASSUME NEW f \in Fm
  PROVE  /\ CloseModal(f) \in Fm /\ CloseModal(f).path = f.path
         /\ CloseModal(f).selected = f.selected
         /\ [CloseModal(f) EXCEPT !.selected = NoRow] \in Fm
         /\ [CloseModal(f) EXCEPT !.selected = NoRow].path = f.path
         /\ [CloseModal(f) EXCEPT !.selected = NoRow].selected = NoRow
         /\ \A mode \in NoModal .. ConfirmDelete :
              /\ OpenModal(f, mode) \in Fm /\ OpenModal(f, mode).path = f.path
              /\ OpenModal(f, mode).selected = f.selected
         /\ \A path \in Path :
              /\ SetPath(f, path) \in Fm /\ SetPath(f, path).path = path
              /\ SetPath(f, path).selected = NoRow
         /\ [f EXCEPT !.selected = NoRow] \in Fm
         /\ [f EXCEPT !.selected = NoRow].path = f.path
         /\ [f EXCEPT !.selected = NoRow].selected = NoRow
         /\ \A text \in Path :
              /\ [f EXCEPT !.input = text] \in Fm /\ [f EXCEPT !.input = text].path = f.path
              /\ [f EXCEPT !.input = text].selected = f.selected
<1>1. /\ NoRow \in NoRow .. BufferLen - 1 /\ <<>> \in Path
      /\ NoModal \in NoModal .. ConfirmDelete
  BY Modes, PathConstants
<1>2. /\ CloseModal(f) \in Fm /\ CloseModal(f).path = f.path
      /\ CloseModal(f).selected = f.selected
  BY <1>1 DEF Fm, CloseModal
<1>3. ASSUME NEW g \in Fm
      PROVE  /\ [g EXCEPT !.selected = NoRow] \in Fm
             /\ [g EXCEPT !.selected = NoRow].path = g.path
             /\ [g EXCEPT !.selected = NoRow].selected = NoRow
  BY <1>1 DEF Fm
<1>4. ASSUME NEW mode \in NoModal .. ConfirmDelete
      PROVE  /\ OpenModal(f, mode) \in Fm /\ OpenModal(f, mode).path = f.path
             /\ OpenModal(f, mode).selected = f.selected
  BY <1>1 DEF Fm, OpenModal
<1>5. ASSUME NEW path \in Path
      PROVE  /\ SetPath(f, path) \in Fm /\ SetPath(f, path).path = path
             /\ SetPath(f, path).selected = NoRow
  BY <1>1 DEF Fm, SetPath
<1>6. ASSUME NEW text \in Path
      PROVE  /\ [f EXCEPT !.input = text] \in Fm /\ [f EXCEPT !.input = text].path = f.path
             /\ [f EXCEPT !.input = text].selected = f.selected
  BY DEF Fm
<1> QED BY <1>2, <1>3, <1>4, <1>5, <1>6

LEMMA ExecuteOK ==
  ASSUME NEW s, NEW f, NEW p, FilesOK(s, f, p)
  PROVE  LET x == ExecuteModal(f, s)
         IN  /\ FilesOK(x.sys, x.fm, IF x.fm.selected = NoRow THEN NoNode ELSE p)
             /\ /\ f.modal = ConfirmDelete /\ ~Phantoms(s.tree) /\ ~IsFull(f.path)
                /\ ~RowIsCut(s.tree, f)
                => x.sys.tree = WithoutAll(s.tree, p)
<1> DEFINE x == ExecuteModal(f, s)
           q == IF x.fm.selected = NoRow THEN NoNode ELSE p
           path == PathTo(f, f.input)
<1>1. Tree(s.tree) /\ Quiet(s) /\ f \in Fm /\ f.path \in Path /\ f.input \in Path
  BY DEF FilesOK, Fm
<1>2. path \in Path
  BY <1>1, PathToType
<1>3. ASSUME NEW z, Tree(z.tree), Grows(s.tree, z.tree), Quiet(z), x = Does(CloseModal(f), z)
      PROVE  FilesOK(x.sys, x.fm, q)
  <2>1. x.sys = z /\ x.fm = CloseModal(f)
    BY <1>3 DEF Does
  <2> HIDE DEF x
  <2>2. /\ CloseModal(f) \in Fm /\ CloseModal(f).path = f.path
        /\ CloseModal(f).selected = f.selected
    BY <1>1, FmUpdates
  <2>3. q = p \/ (CloseModal(f).selected = NoRow /\ q = NoNode)
    BY <2>1
  <2> HIDE DEF q
  <2>4. FilesOK(z, CloseModal(f), q)
    BY <1>3, <2>2, <2>3, GrowOK
  <2> QED BY <2>1, <2>4
<1>4. CASE f.modal = NewFolder /\ f.input # <<>>
  <2>1. x = Does(CloseModal(f), SysMkdir(s, path).sys)
    BY <1>4, Modes DEF ExecuteModal
  <2>2. Tree(SysMkdir(s, path).sys.tree) /\ Grows(s.tree, SysMkdir(s, path).sys.tree)
    <3> HIDE DEF path
    <3> QED BY <1>1, <1>2, MkdirTree
  <2>3. Quiet(SysMkdir(s, path).sys)
    BY <1>1, MakingQuiet
  <2> HIDE DEF x, path
  <2> QED BY <1>3, <1>4, <2>1, <2>2, <2>3, Modes DEF x
<1>5. CASE f.modal = NewFile /\ f.input # <<>>
  <2>1. x = Does(CloseModal(f), WriteAll(s, path, NewFileText))
    BY <1>5, Modes DEF ExecuteModal
  <2>2. /\ Tree(WriteAll(s, path, NewFileText).tree)
        /\ Grows(s.tree, WriteAll(s, path, NewFileText).tree)
    <3> HIDE DEF path
    <3> QED BY <1>1, <1>2, WriteAllTree, PathConstants
  <2>3. Quiet(WriteAll(s, path, NewFileText))
    BY <1>1, WriteAllQuiet
  <2> HIDE DEF x, path
  <2> QED BY <1>3, <1>5, <2>1, <2>2, <2>3, Modes DEF x
<1>6. CASE f.modal = ConfirmDelete /\ f.selected # NoRow
  <2> DEFINE z == RemoveSelected(f, s)
             g == [CloseModal(f) EXCEPT !.selected = NoRow]
  <2>1. x = Does(g, z)
    BY <1>6, Modes DEF ExecuteModal
  <2>2. x.sys = z /\ x.fm = g
    BY <2>1 DEF Does
  <2>3. /\ Tree(z.tree) /\ Quiet(z)
        /\ ~Phantoms(z.tree) =>
             Fits(z.tree, f) /\ (~IsFull(f.path) => IsDir(z.tree, Resolve(z.tree, f.path)))
        /\ ~Phantoms(s.tree) /\ ~IsFull(f.path) /\ ~RowIsCut(s.tree, f) =>
             z.tree = WithoutAll(s.tree, p)
    BY <1>6, RemoveSelectedOK
  <2>4. g \in Fm /\ g.path = f.path /\ g.selected = NoRow
    BY <1>1, FmUpdates
  <2> HIDE DEF x, z, g
  <2>5. ~Phantoms(z.tree) =>
          Fits(z.tree, g) /\ (~IsFull(g.path) => IsDir(z.tree, Resolve(z.tree, g.path)))
    BY <2>3, <2>4 DEF Fits
  <2>6. FilesOK(z, g, NoNode)
    BY <2>3, <2>4, <2>5, BareOK
  <2> QED BY <2>2, <2>3, <2>4, <2>6 DEF x
<1>7. CASE ~ \/ f.modal \in {NewFolder, NewFile} /\ f.input # <<>>
             \/ f.modal = ConfirmDelete /\ f.selected # NoRow
  <2>1. x = Does(CloseModal(f), s)
    BY <1>7 DEF ExecuteModal
  <2>2. x.sys = s
    BY <2>1 DEF Does
  <2>3. FilesOK(x.sys, x.fm, q)
    <3>1. Grows(s.tree, s.tree)
      BY <1>1, GrowsSelf
    <3> HIDE DEF x
    <3> QED BY <1>1, <1>3, <2>1, <3>1 DEF x
  <2>4. ASSUME f.modal = ConfirmDelete, ~Phantoms(s.tree), ~IsFull(f.path)
        PROVE  s.tree = WithoutAll(s.tree, p)
    <3>1. f.selected = NoRow
      BY <1>7, <2>4
    <3>2. p = NoNode
      BY <1>1, <2>4, <3>1, PickedType DEF FilesOK, Shown
    <3> QED BY <1>1, <3>2, WithoutNoNode
  <2> QED BY <2>2, <2>3, <2>4
<1> QED BY <1>4, <1>5, <1>6, <1>7

LEMMA CommandTree ==
  ASSUME NEW s, Quiet(s), Tree(s.tree), NEW command \in Commands, NEW path \in Path,
         NEW text \in Seq(Nat)
  PROVE  LET z == RunCommand(s, command, path, text)
         IN  Tree(z.tree) /\ Grows(s.tree, z.tree)
<1>1. CASE command \in {"ls", "cat"}
  <2>1. ReadAll(s, path).sys = Sys(Created(s.tree, path), NoFds)
    BY ReadAllIs
  <2>2. RunCommand(s, command, path, text).tree = Created(s.tree, path)
    BY <1>1, <2>1 DEF RunCommand, Sys
  <2> QED BY <2>2, CreatedTree
<1>2. CASE command = "touch"
  BY <1>2, TouchTree DEF RunCommand
<1>3. CASE command = "mkdir"
  BY <1>3, MkdirTree DEF RunCommand
<1>4. CASE command = "echo"
  BY <1>4, WriteAllTree DEF RunCommand
<1> QED BY <1>1, <1>2, <1>3, <1>4 DEF Commands

LEMMA HurtTree ==
  ASSUME NEW s, Tree(s.tree), NEW i, i \in DOMAIN s.tree \cup {NoNode}
  PROVE  Tree(Healed(s.tree, i)) /\ Grows(s.tree, Healed(s.tree, i))
<1> DEFINE t == s.tree
           n == Len(t[i].data)
           data == [t[i].data EXCEPT ![n] = 0]
<1>1. CASE IsFile(t, i) /\ t[i].data # <<>>
  <2>1. i \in DOMAIN t /\ t[i].data \in Seq(Nat)
    BY <1>1, TreeNode DEF IsFile
  <2>2. n \in 1 .. n
    BY <1>1, <2>1, EmptySeq
  <2>3. data \in Seq(Nat)
    BY <2>1, <2>2, ExceptSeq
  <2>4. Healed(t, i) = [t EXCEPT ![i].data = data]
    BY <1>1 DEF Healed
  <2> HIDE DEF t, data
  <2> QED BY <2>1, <2>3, <2>4, DataTree DEF t
<1>2. CASE ~(IsFile(t, i) /\ t[i].data # <<>>)
  BY <1>2, GrowsSelf DEF Healed
<1> QED BY <1>1, <1>2
-----------------------------------------------------------------------------
FilesInv == FilesOK(sys, fm, picked)

LEMMA PhantomsAre == HasPhantoms <=> Phantoms(sys.tree)
BY DEF HasPhantoms, Phantoms

LEMMA EmptyFits == Bytes(<<>>) = 0 /\ 0 <= PathBuffer /\ ~IsFull(<<>>)
<1>1. Text \in Components
  BY TextIsOne
<1>2. Bytes(<<>>) = 0
  BY <1>1, OneIs
<1> QED BY <1>2, ClientAssumption DEF IsFull

LEMMA FrontBytes ==
  ASSUME NEW p \in Path, p # <<>>
  PROVE  Bytes(Front(p)) <= Bytes(p)
<1> DEFINE q == Front(p) \o <<Last(p)>>
<1>1. Front(p) \in Path /\ Last(p) \in Components
  BY FrontIs
<1>2. Bytes(q) = Bytes(Front(p)) + 1 + Len(Last(p)) /\ Len(Last(p)) \in Nat
      /\ Bytes(Front(p)) \in Nat /\ q \in Path /\ Len(q) = Len(Front(p)) + 1
      /\ q[Len(Front(p)) + 1] = Last(p)
      /\ \A k \in 1 .. Len(Front(p)) : q[k] = Front(p)[k]
  BY <1>1, ChildBytes
<1> HIDE DEF q
<1>3. /\ Len(p) \in Nat /\ Len(Front(p)) = Len(p) - 1 /\ Last(p) = p[Len(p)]
      /\ \A k \in 1 .. Len(p) - 1 : Front(p)[k] = p[k]
  BY FrontIs
<1>4. Len(q) = Len(p) /\ \A k \in 1 .. Len(p) : q[k] = p[k]
  <2>1. \A k \in 1 .. Len(p) : k = Len(p) \/ k \in 1 .. Len(p) - 1
    BY <1>3
  <2> QED BY <1>2, <1>3, <2>1
<1>5. q = p
  BY <1>2, <1>4, SeqEqual DEF Path
<1> QED BY <1>2, <1>5

LEMMA FilesInit == Init => FilesInv
<1> SUFFICES ASSUME Init PROVE FilesInv
  OBVIOUS
<1>1. sys = Sys(BootTree, NoFds) /\ fm = InitialFm /\ picked = NoNode
  BY DEF Init, NoFds
<1>2. Tree(sys.tree) /\ Quiet(sys)
  BY <1>1, PathConstants DEF Sys, Quiet
<1>3. fm \in Fm /\ fm.path = <<>> /\ fm.selected = NoRow
  BY <1>1, Modes, PathConstants DEF InitialFm, Fm
<1>4. IsDir(sys.tree, Resolve(sys.tree, fm.path))
  <2>1. Resolve(sys.tree, fm.path) = Root
    BY <1>3, PathConstants, ResolveIs
  <2>2. sys.tree[Root].kind = "dir"
    BY <1>2 DEF Tree, IsTree
  <2> QED BY <2>1, <2>2 DEF IsDir, Root, NoNode
<1>5. Fits(sys.tree, fm)
  BY <1>3, OneIs, EmptyFits DEF Fits
<1> QED BY <1>1, <1>2, <1>3, <1>4, <1>5, BareOK DEF FilesInv

LEMMA ToolbarOK ==
  ASSUME FilesInv, Toolbar
  PROVE  FilesOK(sys', fm', picked')
<1>1. /\ FilesOK(sys, fm, picked) /\ Tree(sys.tree) /\ Quiet(sys) /\ fm \in Fm
      /\ fm.path \in Path
  BY DEF FilesInv, FilesOK, Fm
<1>2. sys' = sys /\ Grows(sys.tree, sys.tree)
  BY <1>1, GrowsSelf DEF Toolbar, Button
(* A button that leaves path and selection.                                *)
<1>3. ASSUME NEW g \in Fm, Button(g), g.path = fm.path, g.selected = fm.selected
      PROVE  FilesOK(sys', fm', picked')
  <2>1. fm' = g /\ picked' = IF g.selected = NoRow THEN NoNode ELSE picked
    BY <1>3 DEF Button
  <2>2. picked' = picked \/ (g.selected = NoRow /\ picked' = NoNode)
    BY <2>1
  <2>3. FilesOK(sys, g, picked')
    BY <1>1, <1>2, <1>3, <2>2, GrowOK
  <2> QED BY <1>2, <2>1, <2>3
(* A button that deselects.                                                *)
<1>4. ASSUME NEW g \in Fm, Button(g), g.selected = NoRow,
             ~Phantoms(sys.tree) =>
               /\ Fits(sys.tree, g)
               /\ ~IsFull(g.path) => IsDir(sys.tree, Resolve(sys.tree, g.path))
      PROVE  FilesOK(sys', fm', picked')
  <2>1. fm' = g /\ picked' = NoNode
    BY <1>4 DEF Button
  <2>2. FilesOK(sys, g, NoNode)
    BY <1>1, <1>4, BareOK
  <2> QED BY <1>2, <2>1, <2>2
<1>5. ASSUME NEW g \in Fm, g.path = fm.path
      PROVE  ~Phantoms(sys.tree) =>
               /\ Fits(sys.tree, g)
               /\ ~IsFull(g.path) => IsDir(sys.tree, Resolve(sys.tree, g.path))
  BY <1>1, <1>5, ShownIs DEF FilesOK, Fits
<1>6. CASE Button(PopDir(fm))
  <2>1. CASE fm.path = <<>>
    BY <1>1, <1>3, <1>6, <2>1 DEF PopDir
  <2>2. CASE fm.path # <<>>
    <3>1. Front(fm.path) \in Path
      BY <1>1, <2>2, FrontIs
    <3>2. PopDir(fm) = SetPath(fm, Front(fm.path))
      BY <2>2 DEF PopDir
    <3> DEFINE g == SetPath(fm, Front(fm.path))
    <3>3. g \in Fm /\ g.path = Front(fm.path) /\ g.selected = NoRow
      BY <1>1, <3>1, FmUpdates
    <3>4. ASSUME ~Phantoms(sys.tree)
          PROVE  Fits(sys.tree, g) /\ IsDir(sys.tree, Resolve(sys.tree, g.path))
      <4>1. Bytes(fm.path) <= PathBuffer /\ IsDir(sys.tree, Resolve(sys.tree, Front(fm.path)))
        BY <1>1, <2>2, <3>4 DEF FilesOK, Fits
      <4>2. Bytes(Front(fm.path)) <= Bytes(fm.path)
        BY <1>1, <2>2, FrontBytes
      <4>3. /\ Bytes(fm.path) \in Nat /\ Bytes(Front(fm.path)) \in Nat /\ PathBuffer \in Nat
        BY <1>1, <3>1, BytesAre, ClientAssumption
      <4>4. Front(fm.path) # <<>> =>
              IsDir(sys.tree, Resolve(sys.tree, Front(Front(fm.path))))
        <5>1. Resolve(sys.tree, Front(fm.path)) # NoNode
          BY <4>1 DEF IsDir
        <5> QED BY <1>1, <3>1, <5>1, ResolveNode
      <4> HIDE DEF g
      <4> QED BY <3>3, <4>1, <4>2, <4>3, <4>4 DEF Fits
    <3> HIDE DEF g
    <3> QED BY <1>4, <1>6, <3>2, <3>3, <3>4 DEF g
  <2> QED BY <2>1, <2>2
<1>7. CASE Button(SetPath(fm, <<>>))
  <2>1. Resolve(sys.tree, <<>>) = Root /\ sys.tree[Root].kind = "dir"
    BY <1>1, PathConstants, ResolveIs DEF Tree, IsTree
  <2>2. IsDir(sys.tree, Resolve(sys.tree, <<>>))
    BY <2>1 DEF IsDir, Root, NoNode
  <2> DEFINE g == SetPath(fm, <<>>)
  <2>3. g \in Fm /\ g.path = <<>> /\ g.selected = NoRow
    BY <1>1, PathConstants, FmUpdates
  <2> HIDE DEF g
  <2>4. Fits(sys.tree, g)
    BY <2>3, EmptyFits DEF Fits
  <2> QED BY <1>4, <1>7, <2>2, <2>3, <2>4 DEF g
<1>8. CASE Button([fm EXCEPT !.selected = NoRow])
  <2> DEFINE g == [fm EXCEPT !.selected = NoRow]
  <2>1. g \in Fm /\ g.path = fm.path /\ g.selected = NoRow
    BY <1>1, FmUpdates
  <2> HIDE DEF g
  <2> QED BY <1>4, <1>5, <1>8, <2>1 DEF g
<1>11. CASE Button(SetPath(fm, fm.path))
  <2> DEFINE g == SetPath(fm, fm.path)
  <2>1. g \in Fm /\ g.path = fm.path /\ g.selected = NoRow
    BY <1>1, FmUpdates
  <2> HIDE DEF g
  <2> QED BY <1>4, <1>5, <1>11, <2>1 DEF g
<1>9. ASSUME NEW mode \in NoModal .. ConfirmDelete, Button(OpenModal(fm, mode))
      PROVE  FilesOK(sys', fm', picked')
  BY <1>1, <1>3, <1>9, FmUpdates
<1>10. /\ NewFolder \in NoModal .. ConfirmDelete /\ NewFile \in NoModal .. ConfirmDelete
       /\ ConfirmDelete \in NoModal .. ConfirmDelete
  BY Modes
<1> QED BY <1>6, <1>7, <1>8, <1>9, <1>10, <1>11 DEF Toolbar

LEMMA TurnOK ==
  ASSUME FilesInv, Turn, IsQuiet'
  PROVE  FilesOK(sys', fm', picked')
<1>1. /\ FilesOK(sys, fm, picked) /\ Tree(sys.tree) /\ Quiet(sys) /\ Quiet(sys')
      /\ fm \in Fm /\ fm.path \in Path /\ fm.input \in Path
  BY DEF FilesInv, FilesOK, Fm, IsQuiet
(* What only adds to the tree.                                             *)
<1>2. ASSUME Tree(sys'.tree), Grows(sys.tree, sys'.tree), fm' = fm, picked' = picked
      PROVE  FilesOK(sys', fm', picked')
  <2>1. FilesOK(sys', fm, picked)
    BY <1>1, <1>2, GrowOK
  <2> QED BY <1>2, <2>1
<1>3. CASE DrawFrame
  <2>1. sys' = Draw(fm, sys) /\ fm' = fm /\ picked' = picked
    BY <1>3 DEF DrawFrame
  <2>2. Tree(Draw(fm, sys).tree) /\ Grows(sys.tree, Draw(fm, sys).tree)
    BY <1>1, DrawOK
  <2> QED BY <1>2, <2>1, <2>2
<1>4. ASSUME NEW row \in 0 .. BufferLen - 1, Click(row) PROVE FilesOK(sys', fm', picked')
  <2> DEFINE c == ClickRow(fm, sys, row)
  <2>1. /\ fm' = c.fm /\ sys' = c.sys
        /\ picked' = IF fm' = fm THEN picked ELSE Picked(sys'.tree, fm')
    BY <1>4 DEF Click, Handled
  <2>2. FilesOK(c.sys, c.fm, IF c.fm = fm THEN picked ELSE Picked(c.sys.tree, c.fm))
    BY <1>1, ClickOK
  <2> HIDE DEF c
  <2> QED BY <2>1, <2>2
<1>5. ASSUME NEW g \in Fm, Button(g), g.path = fm.path, g.selected = fm.selected
      PROVE  FilesOK(sys', fm', picked')
  <2>1. /\ fm' = g /\ picked' = IF g.selected = NoRow THEN NoNode ELSE picked
        /\ sys' = sys
    BY <1>5 DEF Button
  <2>2. picked' = picked \/ (g.selected = NoRow /\ picked' = NoNode)
    BY <2>1
  <2>3. FilesOK(sys, g, picked')
    BY <1>1, <1>5, <2>2, GrowOK, GrowsSelf
  <2> QED BY <2>1, <2>3
<1>6. CASE Type
  <2>1. PICK text \in Texts : Button([fm EXCEPT !.input = text])
    BY <1>6 DEF Type
  <2>2. text \in Path
    BY PathConstants
  <2> QED BY <1>1, <1>5, <2>1, <2>2, FmUpdates
<1>7. CASE Cancel
  BY <1>1, <1>5, <1>7, FmUpdates DEF Cancel
<1>8. CASE Confirm
  <2> DEFINE x == ExecuteModal(fm, sys)
  <2>1. /\ fm' = x.fm /\ sys' = x.sys
        /\ picked' = IF fm'.selected = NoRow THEN NoNode ELSE picked
    BY <1>8 DEF Confirm, Handled
  <2>2. FilesOK(x.sys, x.fm, IF x.fm.selected = NoRow THEN NoNode ELSE picked)
    BY <1>1, ExecuteOK
  <2> HIDE DEF x
  <2> QED BY <2>1, <2>2
<1>9. CASE Radiate
  <2> DEFINE t == Healed(sys.tree, Resolve(sys.tree, LogPath))
             z == Hurt(sys)
  <2>1. sys' = ReadAll(z, LogPath).sys /\ fm' = fm /\ picked' = picked
    BY <1>9 DEF Radiate
  <2>2. Tree(t) /\ Grows(sys.tree, t)
    BY <1>1, PathConstants, ResolveTypes, HurtTree
  <2>3. z.tree = t /\ Quiet(z)
    BY <1>1 DEF Hurt, Sys, Quiet
  <2> HIDE DEF t, z
  <2>4. sys'.tree = Created(t, LogPath)
    <3>1. Tree(z.tree) /\ LogPath \in Path
      BY <2>2, <2>3, PathConstants
    <3>2. ReadAll(z, LogPath).sys = Sys(Created(z.tree, LogPath), NoFds)
      BY <2>3, <3>1, ReadAllIs
    <3> QED BY <2>1, <2>3, <3>2 DEF Sys
  <2>5. Tree(Created(t, LogPath)) /\ Grows(t, Created(t, LogPath))
    BY <2>2, PathConstants, CreatedTree
  <2> QED BY <1>2, <2>1, <2>2, <2>4, <2>5, GrowsTrans
<1>10. ASSUME NEW command \in Commands, NEW path \in CmdPaths, NEW text \in EchoTexts,
              Console(command, path, text)
       PROVE  FilesOK(sys', fm', picked')
  <2> DEFINE z == RunCommand(sys, command, path, text)
  <2>1. sys' = z /\ fm' = fm /\ picked' = picked
    BY <1>10 DEF Console
  <2>2. Tree(z.tree) /\ Grows(sys.tree, z.tree)
    BY <1>1, PathConstants, CommandTree
  <2> HIDE DEF z
  <2> QED BY <1>2, <2>1, <2>2
<1> QED BY <1>3, <1>4, <1>6, <1>7, <1>8, <1>9, <1>10, ToolbarOK DEF Turn, Browse

LEMMA FilesStep == FilesInv /\ IsQuiet' /\ [Next]_vars => FilesInv'
<1> SUFFICES ASSUME FilesInv, IsQuiet', [Next]_vars PROVE FilesOK(sys', fm', picked')
  BY DEF FilesInv
<1>1. CASE sys' = sys /\ fm' = fm /\ picked' = picked
  BY <1>1 DEF FilesInv
<1>2. CASE Turn
  BY <1>2, TurnOK
<1>3. CASE Exit
  <2>1. Quiet(sys)
    BY DEF FilesInv, FilesOK
  <2>2. ~IsOpen(sys, 3)
    BY <2>1 DEF Quiet, Sys, NoFds, IsOpen, Closed
  <2>3. sys' = sys /\ fm' = fm /\ picked' = picked
    BY <1>3, <2>2 DEF Exit, SysClose, Returns
  <2> QED BY <1>1, <2>3
<1>4. CASE ~Turn /\ ~Exit
  BY <1>1, <1>4 DEF Next, MapProgramPage, EnterUserMode, StartDesktop, MapFramebuffer, Halt,
                    vars, desktopVars
<1> QED BY <1>2, <1>3, <1>4

LEMMA FilesAlways == Spec => [](FilesInv /\ IsQuiet)
<1>1. Init => IsQuiet
  BY DEF Init, IsQuiet, Quiet, NoFds
<1> QED BY <1>1, FilesInit, FilesStep, QuietStep, PTL DEF Spec

(* Nodes below the root have names of one component, no name and no node   *)
(* is entered twice, and every part of the state has its type, whatever    *)
(* the calls of the user program create or remove (vfs.rs, syscall.rs).    *)
THEOREM UserlandTypes == Spec => []TypeOK
<1> DEFINE StaleOK == stale \in BOOLEAN
<1>1. Init => StaleOK
  BY DEF Init
<1>2. StaleOK /\ [Next]_vars => StaleOK'
  <2> SUFFICES ASSUME StaleOK, [Next]_vars PROVE StaleOK'
    OBVIOUS
  <2>1. ASSUME NEW pages, MapUser(pages) PROVE stale' \in BOOLEAN
    BY <2>1 DEF MapUser
  <2> QED BY <2>1 DEF Next, MapProgramPage, EnterUserMode, StartDesktop, GetSharedInfo,
             MapFramebuffer, Turn, DrawFrame, Exit, Halt, vars
<1>3. PagesOK /\ FilesInv /\ StaleOK => TypeOK
  <2> SUFFICES ASSUME PagesOK, FilesInv, StaleOK PROVE TypeOK
    OBVIOUS
  <2>1. /\ phase \in {"boot", "start", "shared", "running", "halted"}
        /\ pt \in Tables /\ boot \in BootTables /\ stale \in BOOLEAN
        /\ mapped \subseteq DOMAIN Program
    BY DEF PagesOK
  <2>2. /\ IsTree(sys.tree, Components, Nat)
        /\ fm.selected \in NoRow .. BufferLen - 1 /\ fm.modal \in NoModal .. ConfirmDelete
        /\ picked \in DOMAIN sys.tree \cup {NoNode}
    BY DEF FilesInv, FilesOK, Tree, Fm
  <2>3. \A fd \in Fds : sys.fds[fd].offset \in Nat
    BY DEF FilesInv, FilesOK, Quiet, Sys, NoFds, Closed
  <2> QED BY <2>1, <2>2, <2>3 DEF TypeOK
<1> QED BY <1>1, <1>2, <1>3, PagesInit, PagesStep, FilesAlways, PTL DEF Spec

(* The row selected is the node the user clicked, however the tree grows   *)
(* or shrinks in between (file_manager/state.rs keeps a number), while the *)
(* root has no phantom and the path shown fits its buffer.                 *)
THEOREM SelectionStaysPicked == Spec => []SelectionIsPicked
<1>1. FilesInv => SelectionIsPicked
  BY PhantomsAre DEF FilesInv, FilesOK, Shown, SelectionIsPicked
<1> QED BY <1>1, FilesAlways, PTL

(* Confirming a deletion removes the entry of the node picked and leaves   *)
(* every other entry, node and byte (execute_modal_action, SYS_REMOVE), if *)
(* also the bytes read of the listing hold the whole row of that node.     *)
THEOREM DeletionIsExact == Spec => DeleteRemovesPicked
<1> DEFINE A == fm.modal = ConfirmDelete /\ Confirm
                  => HasPhantoms \/ IsFull(fm.path) \/ RowIsCut(sys.tree, fm) \/ RemovesPicked
<1>1. FilesInv => A
  <2> SUFFICES ASSUME FilesInv, ~HasPhantoms, ~IsFull(fm.path), ~RowIsCut(sys.tree, fm),
                      fm.modal = ConfirmDelete, Confirm
               PROVE  sys'.tree = WithoutAll(sys.tree, picked)
    BY DEF WithoutAll, RemovesPicked
  <2>1. sys' = ExecuteModal(fm, sys).sys
    BY DEF Confirm, Handled
  <2> QED BY <2>1, PhantomsAre, ExecuteOK DEF FilesInv
<1>2. FilesInv /\ [Next]_vars => [A]_vars
  BY <1>1
<1> QED BY <1>2, FilesAlways, PTL DEF Spec, DeleteRemovesPicked

(* Frames, clicks and the toolbar change no file, directory or descriptor, *)
(* although every read goes through a call that creates (syscall.rs:272):  *)
(* the row previewed is whole in every buffer its name goes through.       *)
THEOREM BrowsingReads == Spec => BrowsingIsReadOnly
<1> DEFINE A == sys' # sys => \/ HasPhantoms \/ IsFull(fm.path) \/ PreviewIsCut(sys.tree, fm)
                              \/ ~(DrawFrame \/ Browse)
<1>1. FilesInv => A
  <2> SUFFICES ASSUME FilesInv, ~HasPhantoms, ~IsFull(fm.path), ~PreviewIsCut(sys.tree, fm),
                      DrawFrame \/ Browse
               PROVE  sys' = sys
    OBVIOUS
  <2>1. /\ FilesOK(sys, fm, picked) /\ ~Phantoms(sys.tree) /\ ~IsFull(fm.path)
        /\ ~PreviewIsCut(sys.tree, fm)
    BY PhantomsAre DEF FilesInv
  <2>2. CASE DrawFrame
    BY <2>1, <2>2, DrawOK DEF DrawFrame
  <2>3. ASSUME NEW row \in 0 .. BufferLen - 1, Click(row) PROVE sys' = sys
    BY <2>1, <2>3, ClickOK DEF Click, Handled
  <2>4. CASE Toolbar
    BY <2>4 DEF Toolbar, Button
  <2> QED BY <2>2, <2>3, <2>4 DEF Browse
<1>2. FilesInv /\ [Next]_vars => [A]_vars
  BY <1>1
<1> QED BY <1>2, FilesAlways, PTL DEF Spec, BrowsingIsReadOnly
=============================================================================
