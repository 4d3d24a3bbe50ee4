----------------------------- MODULE VfsBlocksProofs -----------------------------
(***************************************************************************)
(* That every file of the virtual file system owns its blocks and reads    *)
(* back what was written to it (Vfs), for every number and size of frames, *)
(* any contents and any flips.                                             *)
(***************************************************************************)
EXTENDS VfsProofs, FramesProofs

Distinct(s) == \A j, k \in 1 .. Len(s) : s[j] = s[k] => j = k

(* The word that byte n of a file with these blocks is in.                 *)
PageOf(n) == (n - 1) \div PageSize + 1
OffsetOf(n) == (n - 1) % PageSize
CellAt(m, blocks, n) == m.cells[blocks[PageOf(n)]][OffsetOf(n)]

(* A byte below the end of the last of so many pages has its place in one. *)
LEMMA PlaceInPages ==
  ASSUME NEW pages \in Nat, NEW n \in Nat \ {0}, n <= pages * PageSize
  PROVE  /\ PageOf(n) \in 1 .. pages /\ OffsetOf(n) \in Offset
         /\ n = (PageOf(n) - 1) * PageSize + OffsetOf(n) + 1
<1> DEFINE P == PageSize
           a == n - 1
<1>1. P \in Nat \ {0} /\ a \in Nat /\ a < pages * P
  BY FramesAssumption
<1> HIDE DEF P, a
<1>2. a \div P \in Nat /\ a % P \in 0 .. P - 1
  BY <1>1
<1>3. a \div P < pages
  BY <1>1
<1>4. a = ((a \div P) * P) + (a % P)
  BY <1>1
<1>5. PageOf(n) = (a \div P) + 1 /\ OffsetOf(n) = a % P
  BY DEF PageOf, OffsetOf, P, a
<1>6. PageOf(n) - 1 = a \div P
  BY <1>2, <1>5
<1>7. n = a + 1
  BY DEF a
<1>8. n = (PageOf(n) - 1) * P + OffsetOf(n) + 1
  BY <1>2, <1>4, <1>5, <1>6, <1>7
<1>9. PageOf(n) \in 1 .. pages /\ OffsetOf(n) \in 0 .. P - 1
  BY <1>2, <1>3, <1>5
<1> QED BY <1>8, <1>9 DEF P, Offset

LEMMA EnoughBlocks ==
  ASSUME NEW data \in Seq(Byte)
  PROVE  NumBlocks(data) \in Nat /\ Len(data) <= NumBlocks(data) * PageSize
<1> DEFINE P == PageSize
           a == Len(data)
<1>1. P \in Nat \ {0} /\ a \in Nat
  BY FramesAssumption, LenProperties
<1>2. data = <<>> => a = 0
  BY EmptySeq
<1> HIDE DEF P, a
<1>3. CASE data = <<>>
  BY <1>1, <1>2, <1>3 DEF NumBlocks, P, a
<1>4. CASE data # <<>>
  <2>1. NumBlocks(data) = (a + P - 1) \div P
    BY <1>4 DEF NumBlocks, P, a
  <2>2. (a + P - 1) \div P \in Nat
    BY <1>1
  <2>3. a <= ((a + P - 1) \div P) * P
    BY <1>1
  <2> QED BY <2>1, <2>2, <2>3 DEF P, a
<1> QED BY <1>3, <1>4
-----------------------------------------------------------------------------
(* One turn of the loop of write_file, and the function it computes.       *)
WriteTurn(w, data, k) ==
  CASE ~w.ok -> w
    [] w.ok /\ Available(w.mem) = {} ->
         [ok |-> FALSE, blocks |-> w.blocks, mem |-> FreeAll(w.mem, BlockSet(w))]
    [] OTHER ->
         [ok |-> TRUE, blocks |-> Append(w.blocks, NextFree(w.mem)),
          mem |-> FillPage(AllocatePage(w.mem, FilePid), NextFree(w.mem), data,
                           (k - 1) * PageSize)]
WriteLoop(m, data) ==
  CHOOSE done : done = [k \in 0 .. NumBlocks(data) |->
    IF k = 0 THEN [ok |-> TRUE, mem |-> m, blocks |-> <<>>]
    ELSE WriteTurn(done[k - 1], data, k)]

LEMMA WriteLoopIs ==
  ASSUME NEW m, NEW data \in Seq(Byte)
  PROVE  /\ WriteBlocks(m, data) = WriteLoop(m, data)[NumBlocks(data)]
         /\ WriteLoop(m, data)[0] = [ok |-> TRUE, mem |-> m, blocks |-> <<>>]
         /\ \A k \in 1 .. NumBlocks(data) :
              WriteLoop(m, data)[k] = WriteTurn(WriteLoop(m, data)[k - 1], data, k)
<1> DEFINE base == [ok |-> TRUE, mem |-> m, blocks |-> <<>>]
           Defines(g, n) ==
             g = [k \in 0 .. n |-> IF k = 0 THEN base ELSE WriteTurn(g[k - 1], data, k)]
           T == { n \in Nat : \E g : Defines(g, n) }
<1>1. WriteBlocks(m, data) = WriteLoop(m, data)[NumBlocks(data)]
  BY DEF WriteBlocks, WriteLoop, WriteTurn
<1>2. NumBlocks(data) \in Nat
  BY EnoughBlocks
<1> HIDE DEF base
<1>3. 0 \in T
  <2> DEFINE g == [k \in 0 .. 0 |-> base]
  <2>1. Defines(g, 0)
    OBVIOUS
  <2> HIDE DEF Defines
  <2> QED BY <2>1
<1>4. ASSUME NEW n \in Nat, n \in T PROVE n + 1 \in T
  <2>1. PICK g : Defines(g, n)
    BY <1>4
  <2> DEFINE h == [k \in 0 .. n + 1 |->
                     IF k = n + 1 THEN WriteTurn(g[n], data, n + 1) ELSE g[k]]
  <2>2. ASSUME NEW k \in 0 .. n + 1
        PROVE  h[k] = IF k = 0 THEN base ELSE WriteTurn(h[k - 1], data, k)
    <3>1. CASE k = n + 1
      BY <3>1
    <3>2. CASE k \in 0 .. n
      <4>1. h[k] = g[k] /\ (k # 0 => h[k - 1] = g[k - 1])
        BY <3>2
      <4>2. g[k] = IF k = 0 THEN base ELSE WriteTurn(g[k - 1], data, k)
        BY <2>1, <3>2
      <4> QED BY <4>1, <4>2
    <3> QED BY <3>1, <3>2
  <2>3. h = [k \in 0 .. n + 1 |-> h[k]]
    OBVIOUS
  <2> HIDE DEF h
  <2>4. Defines(h, n + 1)
    BY <2>2, <2>3
  <2> HIDE DEF Defines
  <2>5. (\E f : Defines(f, n + 1)) /\ n + 1 \in Nat
    BY <2>4
  <2> QED BY <2>5
<1> HIDE DEF T
<1>5. NumBlocks(data) \in T
  BY <1>2, <1>3, <1>4, SetInduction
<1>6. \E g : Defines(g, NumBlocks(data))
  BY <1>5 DEF T
<1>7. Defines(WriteLoop(m, data), NumBlocks(data))
  BY <1>6 DEF WriteLoop, base
<1> HIDE DEF WriteLoop
<1>8. WriteLoop(m, data)[0] = base
  BY <1>2, <1>7
<1>9. \A k \in 1 .. NumBlocks(data) :
        WriteLoop(m, data)[k] = WriteTurn(WriteLoop(m, data)[k - 1], data, k)
  BY <1>2, <1>7
<1> QED BY <1>1, <1>8, <1>9 DEF base
-----------------------------------------------------------------------------
(* What the file system does to the allocator.                             *)
LEMMA AllocateFacts ==
  ASSUME NEW m \in Memory, Available(m) # {}
  PROVE  LET f == NextFree(m)
             w == AllocatePage(m, FilePid)
         IN  /\ f \in Frame /\ ~Owned(m, f) /\ Usable(m, f)
             /\ w \in Memory /\ w.status = m.status /\ w.cells = m.cells
             /\ \A g \in Frame : Owned(w, g) <=> Owned(m, g) \/ g = f
<1> DEFINE f == NextFree(m)
           w == AllocatePage(m, FilePid)
<1>1. f \in Frame /\ ~Owned(m, f) /\ Usable(m, f)
  BY NextFreeIsAvailable
<1>2. w = [m EXCEPT !.owner[f] = 0]
  BY DEF AllocatePage, FilePid
<1> HIDE DEF f, w
<1>3. w.status = m.status /\ w.cells = m.cells /\ w.owner = [m.owner EXCEPT ![f] = 0]
  BY <1>2 DEF Memory
<1>4. w \in Memory
  BY <1>2, <1>3 DEF Memory
<1>5. \A g \in Frame : Owned(w, g) <=> Owned(m, g) \/ g = f
  BY <1>1, <1>3 DEF Owned, NoOwner, Memory
<1> QED BY <1>1, <1>3, <1>4, <1>5 DEF f, w

LEMMA FreeAllFacts ==
  ASSUME NEW m \in Memory, NEW S
  PROVE  LET w == FreeAll(m, S)
         IN  /\ w \in Memory /\ w.status = m.status /\ w.cells = m.cells
             /\ \A g \in Frame : Owned(w, g) <=> Owned(m, g) /\ g \notin S
<1> DEFINE w == FreeAll(m, S)
           freed == [f \in Frame |-> IF f \in S THEN NoOwner ELSE m.owner[f]]
<1>1. w = [m EXCEPT !.owner = freed]
  BY DEF FreeAll
<1>2. freed \in [Frame -> Nat \cup {NoOwner}]
  BY DEF Memory
<1> HIDE DEF w
<1>3. w \in Memory /\ w.status = m.status /\ w.cells = m.cells /\ w.owner = freed
  BY <1>1, <1>2 DEF Memory
<1>4. \A g \in Frame : Owned(w, g) <=> Owned(m, g) /\ g \notin S
  BY <1>3 DEF Owned
<1> QED BY <1>3, <1>4 DEF w

Filled(data, start) ==
  [o \in Offset |-> [val |-> IF start + o < Len(data) THEN data[start + o + 1] ELSE 0,
                     noise |-> 0]]
LEMMA FillPageFacts ==
  ASSUME NEW m \in Memory, NEW f \in Frame, NEW data \in Seq(Byte), NEW start \in Nat
  PROVE  LET w == FillPage(m, f, data, start)
         IN  /\ w \in Memory /\ w.status = m.status /\ w.owner = m.owner
             /\ w.cells[f] = Filled(data, start)
             /\ \A g \in Frame : g # f => w.cells[g] = m.cells[g]
<1> DEFINE w == FillPage(m, f, data, start)
           page == Filled(data, start)
<1>1. w = [m EXCEPT !.cells[f] = page]
  BY DEF FillPage, Filled
<1>2. page \in [Offset -> Cell]
  <2> SUFFICES ASSUME NEW o \in Offset, start + o < Len(data)
               PROVE  data[start + o + 1] \in Byte
    BY DEF Filled, Cell, Byte, MaxNoise
  <2>1. start + o + 1 \in 1 .. Len(data)
    BY LenProperties DEF Offset
  <2> QED BY <2>1, ElementOfSeq
<1> HIDE DEF w, page
<1>3. w.status = m.status /\ w.owner = m.owner /\ w.cells = [m.cells EXCEPT ![f] = page]
  BY <1>1 DEF Memory
<1>4. w \in Memory
  BY <1>1, <1>2, <1>3 DEF Memory
<1> QED BY <1>3, <1>4 DEF w, page, Memory

LEMMA AppendFacts ==
  ASSUME NEW s \in Seq(Frame), NEW f \in Frame
  PROVE  /\ Append(s, f) \in Seq(Frame) /\ Len(Append(s, f)) = Len(s) + 1
         /\ \A k \in 1 .. Len(s) : Append(s, f)[k] = s[k]
         /\ Append(s, f)[Len(s) + 1] = f
BY AppendProperties

(* What the loop has done after k turns.  The frames of an earlier owner   *)
(* are as they were; the new ones hold the data up to here; when no frame  *)
(* was left, all new ones are given back.                                  *)
Wrote(m, data, k, w) ==
  /\ w.mem \in Memory /\ w.ok \in BOOLEAN /\ w.blocks \in Seq(Frame)
  /\ w.mem.status = m.status
  /\ \A f \in Frame : Owned(m, f) => w.mem.cells[f] = m.cells[f]
  /\ \A f \in Frame : \A o \in Offset :
       w.mem.cells[f][o].noise = 2 => m.cells[f][o].noise = 2
  /\ ~w.ok => \A f \in Frame : Owned(w.mem, f) <=> Owned(m, f)
  /\ w.ok =>
       /\ Len(w.blocks) = k /\ Distinct(w.blocks)
       /\ \A j \in 1 .. k : ~Owned(m, w.blocks[j])
       /\ \A f \in Frame : Owned(w.mem, f) <=> Owned(m, f) \/ f \in BlockSet(w)
       /\ \A j \in 1 .. k : w.mem.cells[w.blocks[j]] = Filled(data, (j - 1) * PageSize)

LEMMA WriteTurnWrites ==
  ASSUME NEW m \in Memory, NEW data \in Seq(Byte), NEW k \in Nat \ {0}, NEW w,
         Wrote(m, data, k - 1, w)
  PROVE  Wrote(m, data, k, WriteTurn(w, data, k))
<1> USE DEF Wrote
<1>1. CASE ~w.ok
  BY <1>1 DEF WriteTurn
<1>2. CASE w.ok /\ Available(w.mem) = {}
  <2> DEFINE z == FreeAll(w.mem, BlockSet(w))
             next == WriteTurn(w, data, k)
  <2>1. next = [ok |-> FALSE, blocks |-> w.blocks, mem |-> z]
    BY <1>2 DEF WriteTurn
  <2>2. /\ z \in Memory /\ z.status = w.mem.status /\ z.cells = w.mem.cells
        /\ \A g \in Frame : Owned(z, g) <=> Owned(w.mem, g) /\ g \notin BlockSet(w)
    BY FreeAllFacts
  <2>3. \A g \in Frame : Owned(z, g) <=> Owned(m, g)
    BY <1>2, <2>2 DEF BlockSet
  <2> HIDE DEF z, next
  <2>4. next.ok = FALSE /\ next.blocks = w.blocks /\ next.mem = z
    BY <2>1
  <2> QED BY <2>2, <2>3, <2>4 DEF next
<1>3. CASE w.ok /\ Available(w.mem) # {}
  <2> DEFINE f == NextFree(w.mem)
             y == AllocatePage(w.mem, FilePid)
             start == (k - 1) * PageSize
             z == FillPage(y, f, data, start)
             next == WriteTurn(w, data, k)
  <2>1. next = [ok |-> TRUE, blocks |-> Append(w.blocks, f), mem |-> z]
    BY <1>3 DEF WriteTurn
  <2>2. /\ f \in Frame /\ ~Owned(w.mem, f) /\ y \in Memory
        /\ y.status = w.mem.status /\ y.cells = w.mem.cells
        /\ \A g \in Frame : Owned(y, g) <=> Owned(w.mem, g) \/ g = f
    BY <1>3, AllocateFacts
  <2>3. start \in Nat
    BY FramesAssumption
  <2> HIDE DEF f, y, start
  <2>4. /\ z \in Memory /\ z.status = y.status /\ z.owner = y.owner
        /\ z.cells[f] = Filled(data, start)
        /\ \A g \in Frame : g # f => z.cells[g] = y.cells[g]
    BY <2>2, <2>3, FillPageFacts
  <2> HIDE DEF z, next
  <2>5. next.ok = TRUE /\ next.blocks = Append(w.blocks, f) /\ next.mem = z
    BY <2>1
  <2>6. /\ next.blocks \in Seq(Frame) /\ Len(next.blocks) = k
        /\ \A j \in 1 .. k - 1 : next.blocks[j] = w.blocks[j]
        /\ next.blocks[k] = f
    BY <1>3, <2>2, <2>5, AppendFacts
  <2>7. f \notin BlockSet(w) /\ ~Owned(m, f)
    BY <1>3, <2>2
  <2>8. \A j \in 1 .. k - 1 : w.blocks[j] \in BlockSet(w) /\ w.blocks[j] \in Frame
    BY <1>3, ElementOfSeq DEF BlockSet
  <2>9. Distinct(next.blocks)
    <3> SUFFICES ASSUME NEW i \in 1 .. k, NEW j \in 1 .. k, next.blocks[i] = next.blocks[j]
                 PROVE  i = j
      BY <2>6 DEF Distinct
    <3>1. i # k /\ j # k => i \in 1 .. k - 1 /\ j \in 1 .. k - 1
      OBVIOUS
    <3>2. CASE i # k /\ j # k
      BY <1>3, <2>6, <3>1, <3>2 DEF Distinct
    <3>3. CASE i = k \/ j = k
      BY <2>6, <2>7, <2>8, <3>3
    <3> QED BY <3>2, <3>3
  <2>10. BlockSet(next) = BlockSet(w) \cup {f}
    <3>1. BlockSet(next) = { next.blocks[j] : j \in 1 .. k }
      BY <2>6 DEF BlockSet
    <3>2. BlockSet(w) = { w.blocks[j] : j \in 1 .. k - 1 }
      BY <1>3 DEF BlockSet
    <3>3. 1 .. k = 1 .. k - 1 \cup {k}
      OBVIOUS
    <3> QED BY <2>6, <3>1, <3>2, <3>3
  <2>11. \A g \in Frame : Owned(next.mem, g) <=> Owned(m, g) \/ g \in BlockSet(next)
    BY <1>3, <2>2, <2>4, <2>5, <2>10 DEF Owned
  <2>12. \A j \in 1 .. k : ~Owned(m, next.blocks[j])
    BY <1>3, <2>6, <2>7
  <2>13. ASSUME NEW j \in 1 .. k
         PROVE  next.mem.cells[next.blocks[j]] = Filled(data, (j - 1) * PageSize)
    <3>1. CASE j = k
      BY <2>4, <2>5, <2>6, <3>1 DEF start
    <3>2. CASE j # k
      <4>1. j \in 1 .. k - 1
        BY <3>2
      <4>2. next.blocks[j] = w.blocks[j] /\ w.blocks[j] \in Frame /\ w.blocks[j] # f
        BY <2>6, <2>7, <2>8, <4>1
      <4>3. next.mem.cells[w.blocks[j]] = w.mem.cells[w.blocks[j]]
        BY <2>2, <2>4, <2>5, <4>2
      <4>4. w.mem.cells[w.blocks[j]] = Filled(data, (j - 1) * PageSize)
        BY <1>3, <4>1
      <4> QED BY <4>2, <4>3, <4>4
    <3> QED BY <3>1, <3>2
  <2>14. \A g \in Frame : Owned(m, g) => next.mem.cells[g] = m.cells[g]
    BY <2>2, <2>4, <2>5, <2>7
  <2>15. \A g \in Frame : \A o \in Offset :
           next.mem.cells[g][o].noise = 2 => m.cells[g][o].noise = 2
    <3>1. \A o \in Offset : z.cells[f][o].noise = 0
      BY <2>4 DEF Filled
    <3> QED BY <2>2, <2>4, <2>5, <3>1
  <2> QED
    BY <2>2, <2>4, <2>5, <2>6, <2>9, <2>11, <2>12, <2>13, <2>14, <2>15 DEF next
<1> QED BY <1>1, <1>2, <1>3

(* write_file's loop, in full.                                             *)
LEMMA WriteBlocksFacts ==
  ASSUME NEW m \in Memory, NEW data \in Seq(Byte)
  PROVE  Wrote(m, data, NumBlocks(data), WriteBlocks(m, data))
<1> DEFINE g == WriteLoop(m, data)
           T == { k \in Nat : k <= NumBlocks(data) => Wrote(m, data, k, g[k]) }
<1>1. NumBlocks(data) \in Nat
  BY EnoughBlocks
<1>2. 0 \in T
  <2>1. g[0] = [ok |-> TRUE, mem |-> m, blocks |-> <<>>]
    BY WriteLoopIs
  <2> HIDE DEF g
  <2>2. g[0].ok = TRUE /\ g[0].mem = m /\ g[0].blocks = <<>>
    BY <2>1
  <2>3. g[0].blocks \in Seq(Frame) /\ Len(g[0].blocks) = 0
    BY <2>2, EmptySeq
  <2>4. BlockSet(g[0]) = {}
    BY <2>3 DEF BlockSet
  <2>5. Wrote(m, data, 0, g[0])
    <3> DEFINE w == g[0]
    <3>1. w.ok = TRUE /\ w.mem = m /\ w.blocks \in Seq(Frame) /\ Len(w.blocks) = 0
      BY <2>2, <2>3
    <3>2. BlockSet(w) = {} /\ \A j \in 1 .. 0 : FALSE
      BY <2>4
    <3> HIDE DEF w
    <3>3. Distinct(w.blocks)
      BY <3>1 DEF Distinct
    <3>4. Wrote(m, data, 0, w)
      BY <3>1, <3>2, <3>3 DEF Wrote
    <3> QED BY <3>4 DEF w
  <2> QED BY <2>5
<1>3. ASSUME NEW k \in Nat, k \in T PROVE k + 1 \in T
  <2> SUFFICES ASSUME k + 1 <= NumBlocks(data) PROVE Wrote(m, data, k + 1, g[k + 1])
    OBVIOUS
  <2>1. k + 1 \in 1 .. NumBlocks(data) /\ (k + 1) - 1 = k /\ Wrote(m, data, k, g[k])
    BY <1>1, <1>3
  <2>2. g[k + 1] = WriteTurn(g[k], data, k + 1)
    BY <2>1, WriteLoopIs
  <2> HIDE DEF g
  <2>3. k + 1 \in Nat \ {0}
    OBVIOUS
  <2> QED BY <2>1, <2>2, <2>3, WriteTurnWrites
<1> HIDE DEF T, g
<1>4. NumBlocks(data) \in T
  BY <1>1, <1>2, <1>3, SetInduction
<1>5. Wrote(m, data, NumBlocks(data), g[NumBlocks(data)])
  BY <1>1, <1>4 DEF T
<1> QED BY <1>5, WriteLoopIs DEF g
-----------------------------------------------------------------------------
(* One turn of the loop of read_file, and the function it computes.        *)
ReadTurn(r, n) ==
  LET k == (n - 1) \div PageSize + 1
      o == (n - 1) % PageSize
      read == ReadByte(r.mem, r.blocks[k], o)
      moved == RelocateAndQuarantine(read, r.blocks[k])
  IN  CASE ~r.ok -> r
        [] r.ok /\ ~ReadFaults(r.mem, r.blocks[k], o) ->
             [r EXCEPT !.mem = read,
                       !.data = Append(@, r.mem.cells[r.blocks[k]][o].val)]
        [] OTHER ->
             [ok |-> moved.ok, mem |-> moved.mem,
              blocks |-> [r.blocks EXCEPT ![k] = moved.frame],
              data |-> IF moved.ok THEN Append(r.data, 0) ELSE r.data]
ReadLoop(m, node) ==
  CHOOSE byte : byte = [n \in 0 .. node.size |->
    IF n = 0 THEN [ok |-> TRUE, mem |-> m, blocks |-> node.blocks, data |-> <<>>]
    ELSE ReadTurn(byte[n - 1], n)]

LEMMA ReadLoopIs ==
  ASSUME NEW m, NEW node, node.size \in Nat
  PROVE  /\ ReadBlocks(m, node) = ReadLoop(m, node)[node.size]
         /\ ReadLoop(m, node)[0] =
              [ok |-> TRUE, mem |-> m, blocks |-> node.blocks, data |-> <<>>]
         /\ \A n \in 1 .. node.size :
              ReadLoop(m, node)[n] = ReadTurn(ReadLoop(m, node)[n - 1], n)
<1> DEFINE base == [ok |-> TRUE, mem |-> m, blocks |-> node.blocks, data |-> <<>>]
           size == node.size
           Defines(g, n) ==
             g = [k \in 0 .. n |-> IF k = 0 THEN base ELSE ReadTurn(g[k - 1], k)]
           T == { n \in Nat : \E g : Defines(g, n) }
<1>1. ReadBlocks(m, node) = ReadLoop(m, node)[size]
  BY DEF ReadBlocks, ReadLoop, ReadTurn
<1>2. size \in Nat
  OBVIOUS
<1> HIDE DEF base, size
<1>3. 0 \in T
  <2> DEFINE g == [k \in 0 .. 0 |-> base]
  <2>1. Defines(g, 0)
    OBVIOUS
  <2> HIDE DEF Defines
  <2> QED BY <2>1
<1>4. ASSUME NEW n \in Nat, n \in T PROVE n + 1 \in T
  <2>1. PICK g : Defines(g, n)
    BY <1>4
  <2> DEFINE h == [k \in 0 .. n + 1 |->
                     IF k = n + 1 THEN ReadTurn(g[n], n + 1) ELSE g[k]]
  <2>2. ASSUME NEW k \in 0 .. n + 1
        PROVE  h[k] = IF k = 0 THEN base ELSE ReadTurn(h[k - 1], k)
    <3>1. CASE k = n + 1
      BY <3>1
    <3>2. CASE k \in 0 .. n
      <4>1. h[k] = g[k] /\ (k # 0 => h[k - 1] = g[k - 1])
        BY <3>2
      <4>2. g[k] = IF k = 0 THEN base ELSE ReadTurn(g[k - 1], k)
        BY <2>1, <3>2
      <4> QED BY <4>1, <4>2
    <3> QED BY <3>1, <3>2
  <2>3. h = [k \in 0 .. n + 1 |-> h[k]]
    OBVIOUS
  <2> HIDE DEF h
  <2>4. Defines(h, n + 1)
    BY <2>2, <2>3
  <2> HIDE DEF Defines
  <2>5. (\E f : Defines(f, n + 1)) /\ n + 1 \in Nat
    BY <2>4
  <2> QED BY <2>5
<1> HIDE DEF T
<1>5. size \in T
  BY <1>2, <1>3, <1>4, SetInduction
<1>6. \E g : Defines(g, size)
  BY <1>5 DEF T
<1>7. Defines(ReadLoop(m, node), size)
  BY <1>6 DEF ReadLoop, base, size
<1> HIDE DEF ReadLoop
<1>8. ReadLoop(m, node)[0] = base
  BY <1>2, <1>7
<1>9. \A n \in 1 .. size : ReadLoop(m, node)[n] = ReadTurn(ReadLoop(m, node)[n - 1], n)
  BY <1>2, <1>7
<1> QED BY <1>1, <1>8, <1>9 DEF base, size
-----------------------------------------------------------------------------
(* What may become of a word while it is read, repaired and relocated: its *)
(* value stays, or it was uncorrectable and is 0 now.                      *)
Recovers(c, v) == v = c.val \/ (c.noise = 2 /\ v = 0)
Keeps(c, d) == Recovers(c, d.val) /\ (d.noise = 2 => c.noise = 2)

LEMMA ReadByteKeeps ==
  ASSUME NEW m \in Memory, NEW f \in Frame, NEW o \in Offset
  PROVE  \A g \in Frame : \A q \in Offset :
           LET d == ReadByte(m, f, o).cells[g][q]
           IN  d.val = m.cells[g][q].val /\ (d.noise = 2 <=> m.cells[g][q].noise = 2)
<1> DEFINE r == ReadByte(m, f, o)
<1>1. CASE ReadFaults(m, f, o)
  <2>1. r = [m EXCEPT !.status[f] = Quarantined]
    BY <1>1 DEF ReadByte, ReadFaults, ReadCorrects
  <2>2. r.cells = m.cells
    BY <2>1 DEF Memory
  <2> QED BY <2>2
<1>2. CASE ReadCorrects(m, f, o)
  <2>1. ~ReadFaults(m, f, o)
    BY <1>2 DEF ReadFaults, ReadCorrects
  <2>2. r = [m EXCEPT !.cells[f][o].noise = 0, !.status[f] = CountRepair(@)]
    BY <1>2, <2>1 DEF ReadByte
  <2>3. r.cells = [m.cells EXCEPT ![f][o].noise = 0]
    BY <2>2 DEF Memory
  <2>4. r.cells[f][o].val = m.cells[f][o].val /\ r.cells[f][o].noise = 0
    BY <2>3 DEF Memory, Cell
  <2>5. \A g \in Frame : \A q \in Offset : g # f \/ q # o => r.cells[g][q] = m.cells[g][q]
    BY <2>3 DEF Memory
  <2> HIDE DEF r
  <2>6. m.cells[f][o].noise = 1
    BY <1>2 DEF ReadCorrects
  <2> QED BY <2>4, <2>5, <2>6 DEF r
<1>3. CASE ~ReadFaults(m, f, o) /\ ~ReadCorrects(m, f, o)
  BY <1>3 DEF ReadByte
<1> QED BY <1>1, <1>2, <1>3

Sized(node) ==
  /\ node.blocks \in Seq(Frame) /\ node.size \in Nat
  /\ node.size <= Len(node.blocks) * PageSize
Holds(m, node) ==
  /\ Distinct(node.blocks)
  /\ \A k \in 1 .. Len(node.blocks) : Owned(m, node.blocks[k])

(* What the loop has done after n turns, from memory m: blocks may have    *)
(* moved to frames that were free, all other owned frames are as they      *)
(* were, and each byte read is the stored one, or 0 for an uncorrectable   *)
(* one.  It stops when there is no frame to move to.                       *)
ReadSome(m, node, n, r) ==
  /\ r = [ok |-> r.ok, mem |-> r.mem, blocks |-> r.blocks, data |-> r.data]
  /\ r.mem \in Memory /\ r.ok \in BOOLEAN /\ r.blocks \in Seq(Frame)
  /\ Len(r.blocks) = Len(node.blocks) /\ r.data \in Seq(Byte)
  /\ \A f \in Frame : \A o \in Offset :
       r.mem.cells[f][o].noise = 2 => m.cells[f][o].noise = 2
  /\ Holds(m, node) =>
       /\ ~r.ok => Available(r.mem) = {}
       /\ r.ok =>
            /\ Len(r.data) = n /\ Distinct(r.blocks)
            /\ \A k \in 1 .. Len(r.blocks) :
                 Owned(m, r.blocks[k]) => r.blocks[k] \in BlockSet(node)
            /\ \A f \in Frame : Owned(r.mem, f) <=>
                 (Owned(m, f) /\ f \notin BlockSet(node)) \/ f \in BlockSet(r)
            /\ \A f \in Frame : Owned(m, f) /\ f \notin BlockSet(node) =>
                 \A o \in Offset : Keeps(m.cells[f][o], r.mem.cells[f][o])
            /\ \A k \in 1 .. Len(r.blocks) : \A o \in Offset :
                 Keeps(m.cells[node.blocks[k]][o], r.mem.cells[r.blocks[k]][o])
            /\ \A j \in 1 .. n : Recovers(CellAt(m, node.blocks, j), r.data[j])

LEMMA PlaceOfByte ==
  ASSUME NEW node, Sized(node), NEW n \in 1 .. node.size
  PROVE  PageOf(n) \in 1 .. Len(node.blocks) /\ OffsetOf(n) \in Offset
<1> DEFINE pages == Len(node.blocks)
           end == pages * PageSize
<1>1. pages \in Nat /\ end \in Nat /\ node.size <= end /\ node.size \in Nat
  BY LenProperties, FramesAssumption DEF Sized
<1> HIDE DEF end
<1>2. n \in Nat \ {0} /\ n <= end
  BY <1>1
<1> HIDE DEF pages
<1> QED BY <1>1, <1>2, PlaceInPages DEF end, pages

(* A turn in which the byte can be decoded.                                *)
LEMMA ReadTurnReads ==
  ASSUME NEW m \in Memory, NEW node, Sized(node), NEW n \in 1 .. node.size, NEW r,
         ReadSome(m, node, n - 1, r), r.ok,
         ~ReadFaults(r.mem, r.blocks[PageOf(n)], OffsetOf(n))
  PROVE  ReadSome(m, node, n, ReadTurn(r, n))
<1> DEFINE k == PageOf(n)
           o == OffsetOf(n)
           f == r.blocks[k]
           v == r.mem.cells[f][o].val
           read == ReadByte(r.mem, f, o)
           next == ReadTurn(r, n)
<1>1. k \in 1 .. Len(node.blocks) /\ o \in Offset
  BY PlaceOfByte
<1>2. next = [ok |-> TRUE, mem |-> read, blocks |-> r.blocks, data |-> Append(r.data, v)]
  BY DEF ReadTurn, ReadSome, PageOf, OffsetOf
<1>3. f \in Frame /\ v \in Byte
  <2>1. f \in Frame
    BY <1>1, ElementOfSeq DEF ReadSome
  <2> HIDE DEF f
  <2> QED BY <1>1, <2>1 DEF ReadSome, Memory, Cell
<1>4. CellAt(m, node.blocks, n) = m.cells[node.blocks[k]][o]
  BY DEF CellAt
<1> HIDE DEF k, o, f
<1>5. read \in Memory /\ read.owner = r.mem.owner
  BY <1>1, <1>3, ReadByteFacts DEF ReadSome
<1>6. \A g \in Frame : \A q \in Offset :
        /\ read.cells[g][q].val = r.mem.cells[g][q].val
        /\ read.cells[g][q].noise = 2 <=> r.mem.cells[g][q].noise = 2
  BY <1>1, <1>3, ReadByteKeeps DEF ReadSome
<1>7. /\ Append(r.data, v) \in Seq(Byte) /\ Len(Append(r.data, v)) = Len(r.data) + 1
      /\ \A j \in 1 .. Len(r.data) : Append(r.data, v)[j] = r.data[j]
      /\ Append(r.data, v)[Len(r.data) + 1] = v
  BY <1>3, AppendProperties DEF ReadSome
<1>8. Holds(m, node) => Recovers(m.cells[node.blocks[k]][o], v)
  BY <1>1 DEF ReadSome, Keeps, f
<1> HIDE DEF v, read, next
<1>9. /\ next.ok = TRUE /\ next.mem = read /\ next.blocks = r.blocks
      /\ next.data = Append(r.data, v)
      /\ next = [ok |-> next.ok, mem |-> next.mem, blocks |-> next.blocks, data |-> next.data]
  BY <1>2
<1>10. BlockSet(next) = BlockSet(r)
  BY <1>9 DEF BlockSet
<1>11. ASSUME NEW g \in Frame, NEW q \in Offset, read.cells[g][q].noise = 2
       PROVE  m.cells[g][q].noise = 2
  BY <1>6, <1>11 DEF ReadSome
<1>12. ASSUME Holds(m, node)
       PROVE  /\ Len(next.data) = n /\ Distinct(next.blocks)
              /\ \A i \in 1 .. Len(next.blocks) :
                   Owned(m, next.blocks[i]) => next.blocks[i] \in BlockSet(node)
              /\ \A g \in Frame : Owned(next.mem, g) <=>
                   (Owned(m, g) /\ g \notin BlockSet(node)) \/ g \in BlockSet(next)
  BY <1>5, <1>7, <1>9, <1>10, <1>12 DEF ReadSome, Owned
<1>13. ASSUME Holds(m, node), NEW g \in Frame, Owned(m, g), g \notin BlockSet(node),
              NEW q \in Offset
       PROVE  Keeps(m.cells[g][q], next.mem.cells[g][q])
  BY <1>6, <1>9, <1>13 DEF ReadSome, Keeps, Recovers
<1>14. ASSUME Holds(m, node), NEW i \in 1 .. Len(next.blocks), NEW q \in Offset
       PROVE  Keeps(m.cells[node.blocks[i]][q], next.mem.cells[next.blocks[i]][q])
  <2>1. next.blocks[i] = r.blocks[i] /\ r.blocks[i] \in Frame
    BY <1>9, ElementOfSeq DEF ReadSome
  <2>2. Keeps(m.cells[node.blocks[i]][q], r.mem.cells[r.blocks[i]][q])
    BY <1>9, <1>14 DEF ReadSome
  <2> QED BY <1>6, <1>9, <2>1, <2>2 DEF Keeps, Recovers
<1>15. ASSUME Holds(m, node), NEW j \in 1 .. n
       PROVE  Recovers(CellAt(m, node.blocks, j), next.data[j])
  <2>1. Len(r.data) = n - 1
    BY <1>15 DEF ReadSome
  <2>2. CASE j = n
    <3>1. next.data[j] = v
      BY <1>7, <1>9, <2>1, <2>2
    <3> QED BY <1>4, <1>8, <1>15, <2>2, <3>1
  <2>3. CASE j # n
    <3>1. j \in 1 .. n - 1
      BY <2>3
    <3>2. next.data[j] = r.data[j]
      BY <1>7, <1>9, <2>1, <3>1
    <3> QED BY <1>15, <3>1, <3>2 DEF ReadSome
  <2> QED BY <2>2, <2>3
<1>16. ReadSome(m, node, n, next)
  BY <1>5, <1>7, <1>9, <1>11, <1>12, <1>13, <1>14, <1>15 DEF ReadSome
<1> QED BY <1>16 DEF next

(* A turn in which it cannot: its block is relocated and swapped, or there *)
(* is no frame to relocate it to.                                          *)
LEMMA ReadTurnMoves ==
  ASSUME NEW m \in Memory, NEW node, Sized(node), NEW n \in 1 .. node.size, NEW r,
         ReadSome(m, node, n - 1, r), r.ok,
         ReadFaults(r.mem, r.blocks[PageOf(n)], OffsetOf(n))
  PROVE  ReadSome(m, node, n, ReadTurn(r, n))
<1> DEFINE k == PageOf(n)
           o == OffsetOf(n)
           f == r.blocks[k]
           read == ReadByte(r.mem, f, o)
           moved == RelocateAndQuarantine(read, f)
           blocks == [r.blocks EXCEPT ![k] = moved.frame]
           data == IF moved.ok THEN Append(r.data, 0) ELSE r.data
           next == ReadTurn(r, n)
<1>1. k \in 1 .. Len(node.blocks) /\ o \in Offset
  BY PlaceOfByte
<1>2. next = [ok |-> moved.ok, mem |-> moved.mem, blocks |-> blocks, data |-> data]
  BY DEF ReadTurn, PageOf, OffsetOf
<1>3. f \in Frame
  BY <1>1, ElementOfSeq DEF ReadSome
<1>4. r.mem.cells[f][o].noise = 2
  BY DEF ReadFaults
<1>5. CellAt(m, node.blocks, n) = m.cells[node.blocks[k]][o]
  BY DEF CellAt
<1> HIDE DEF k, o
<1>6. f \in BlockSet(r) /\ \A i \in 1 .. Len(r.blocks) : r.blocks[i] \in Frame /\ r.blocks[i] \in BlockSet(r)
  BY <1>1, ElementOfSeq DEF ReadSome, BlockSet
<1>20. f = r.blocks[k]
  OBVIOUS
<1> HIDE DEF f
<1>7. read \in Memory /\ read.owner = r.mem.owner
  BY <1>1, <1>3, ReadByteFacts DEF ReadSome
<1>8. \A g \in Frame : \A q \in Offset :
        /\ read.cells[g][q].val = r.mem.cells[g][q].val
        /\ read.cells[g][q].noise = 2 <=> r.mem.cells[g][q].noise = 2
  BY <1>1, <1>3, ReadByteKeeps DEF ReadSome
<1> HIDE DEF read
<1>9. /\ moved.mem \in Memory /\ moved.frame \in Frame /\ moved.ok \in BOOLEAN
      /\ ~Owned(read, f) => ~moved.ok /\ moved.mem = read
      /\ Owned(read, f) /\ ~moved.ok => moved.mem = Retire(read, f)
      /\ Owned(read, f) => Retired(moved.mem, f)
      /\ \A g \in Frame : g # f /\ (moved.ok => g # moved.frame) =>
           moved.mem.owner[g] = read.owner[g] /\ moved.mem.cells[g] = read.cells[g]
      /\ moved.mem.cells[f] = read.cells[f]
      /\ moved.ok =>
           /\ moved.frame # f /\ ~Owned(read, moved.frame)
           /\ moved.mem.owner[moved.frame] = read.owner[f]
           /\ \A q \in Offset : moved.mem.cells[moved.frame][q] = Salvage(read.cells[f][q])
  BY <1>3, <1>7, RelocationFacts
<1>10. Owned(read, f) /\ ~moved.ok => Available(read) = {}
  BY DEF RelocateAndQuarantine
<1> DEFINE t == moved.frame
<1> HIDE DEF moved
<1>11. /\ blocks \in Seq(Frame) /\ Len(blocks) = Len(node.blocks) /\ blocks[k] = t
       /\ \A i \in 1 .. Len(blocks) : i # k => blocks[i] = r.blocks[i]
  BY <1>1, <1>9, ExceptSeq DEF ReadSome
<1>12. /\ data \in Seq(Byte)
       /\ moved.ok => /\ Len(data) = Len(r.data) + 1 /\ data[Len(r.data) + 1] = 0
                      /\ \A j \in 1 .. Len(r.data) : data[j] = r.data[j]
  <2>1. /\ Append(r.data, 0) \in Seq(Byte) /\ Len(Append(r.data, 0)) = Len(r.data) + 1
        /\ \A j \in 1 .. Len(r.data) : Append(r.data, 0)[j] = r.data[j]
        /\ Append(r.data, 0)[Len(r.data) + 1] = 0
    BY AppendProperties DEF ReadSome, Byte
  <2> QED BY <2>1 DEF ReadSome
<1> HIDE DEF t, blocks, data, next
<1>13. /\ next.ok = moved.ok /\ next.mem = moved.mem /\ next.blocks = blocks /\ next.data = data
       /\ next = [ok |-> next.ok, mem |-> next.mem, blocks |-> next.blocks, data |-> next.data]
  BY <1>2
<1>14. ASSUME NEW g \in Frame, NEW q \in Offset, moved.mem.cells[g][q].noise = 2
       PROVE  m.cells[g][q].noise = 2
  <2>1. CASE moved.ok /\ g = t
    <3>1. moved.mem.cells[t][q] = Salvage(read.cells[f][q])
      BY <1>9, <2>1 DEF t
    <3>2. Salvage(read.cells[f][q]).noise = 0
      BY DEF Salvage
    <3> QED BY <1>14, <2>1, <3>1, <3>2
  <2>2. CASE g = f \/ ~(moved.ok /\ g = t)
    <3>1. moved.mem.cells[g] = read.cells[g]
      BY <1>9, <2>2 DEF t
    <3> QED BY <1>8, <1>14, <3>1 DEF ReadSome
  <2> QED BY <2>1, <2>2
<1>15. ASSUME Holds(m, node), ~moved.ok
       PROVE  Available(moved.mem) = {}
  <2>1. Owned(read, f)
    BY <1>3, <1>6, <1>7, <1>15 DEF ReadSome, Owned
  <2>2. moved.mem = Retire(read, f) /\ Available(read) = {}
    BY <1>9, <1>10, <1>15, <2>1
  <2>3. Retired(Retire(read, f), f) /\ \A g \in Frame : g # f =>
          /\ Retire(read, f).owner[g] = read.owner[g]
          /\ Retire(read, f).status[g] = read.status[g]
    BY <1>3, <1>7, RetireFacts
  <2> QED BY <2>2, <2>3 DEF Available, Retired, Usable, Owned
<1>16. ASSUME Holds(m, node), moved.ok
       PROVE  /\ Len(data) = n /\ Distinct(blocks)
              /\ \A i \in 1 .. Len(blocks) : Owned(m, blocks[i]) => blocks[i] \in BlockSet(node)
              /\ \A g \in Frame : Owned(moved.mem, g) <=>
                   (Owned(m, g) /\ g \notin BlockSet(node)) \/ g \in BlockSet(next)
  <2>1. /\ Len(r.data) = n - 1 /\ Distinct(r.blocks)
        /\ \A i \in 1 .. Len(r.blocks) : Owned(m, r.blocks[i]) => r.blocks[i] \in BlockSet(node)
        /\ \A g \in Frame : Owned(r.mem, g) <=>
             (Owned(m, g) /\ g \notin BlockSet(node)) \/ g \in BlockSet(r)
    BY <1>16 DEF ReadSome
  <2>2. Len(r.blocks) = Len(node.blocks)
    BY DEF ReadSome
  <2>3. t \in Frame /\ t # f /\ ~Owned(r.mem, t) /\ Owned(r.mem, f)
    BY <1>3, <1>6, <1>7, <1>9, <1>16, <2>1 DEF t, Owned
  <2>4. t \notin BlockSet(r) /\ (Owned(m, t) => t \in BlockSet(node))
    BY <2>1, <2>3
  <2>5. Distinct(blocks)
    BY <1>6, <1>11, <2>1, <2>2, <2>4 DEF Distinct
  <2>6. \A i \in 1 .. Len(blocks) : Owned(m, blocks[i]) => blocks[i] \in BlockSet(node)
    BY <1>11, <2>1, <2>2, <2>4
  <2>7. BlockSet(next) = (BlockSet(r) \ {f}) \cup {t}
    <3>1. BlockSet(next) = { blocks[i] : i \in 1 .. Len(r.blocks) }
      BY <1>11, <1>13, <2>2 DEF BlockSet
    <3>2. \A i \in 1 .. Len(r.blocks) : i # k => r.blocks[i] # f
      BY <1>1, <1>20, <2>1, <2>2 DEF Distinct
    <3> QED BY <1>1, <1>11, <1>20, <2>2, <3>1, <3>2 DEF BlockSet
  <2>8. \A g \in Frame : Owned(moved.mem, g) <=> g = t \/ (Owned(r.mem, g) /\ g # f)
    <3>1. ~Owned(moved.mem, f) /\ Owned(moved.mem, t)
      BY <1>7, <1>9, <1>16, <2>3 DEF Owned, Retired, t
    <3> QED BY <1>7, <1>9, <1>16, <2>3, <3>1 DEF Owned, t
  <2>9. \A g \in Frame : Owned(moved.mem, g) <=>
          (Owned(m, g) /\ g \notin BlockSet(node)) \/ g \in BlockSet(next)
    <3>1. ~(Owned(m, f) /\ f \notin BlockSet(node))
      BY <1>1, <1>20, <2>1, <2>2
    <3> QED BY <1>6, <2>1, <2>7, <2>8, <3>1
  <2> QED BY <1>12, <1>16, <2>1, <2>5, <2>6, <2>9
<1>17. ASSUME Holds(m, node), moved.ok, NEW g \in Frame, Owned(m, g), g \notin BlockSet(node),
              NEW q \in Offset
       PROVE  Keeps(m.cells[g][q], moved.mem.cells[g][q])
  <2>1. g # f /\ g # t
    <3>1. Owned(r.mem, g) /\ ~Owned(r.mem, t)
      BY <1>7, <1>9, <1>17 DEF ReadSome, Owned, t
    <3>2. g # f
      BY <1>1, <1>17, <1>20 DEF ReadSome
    <3> QED BY <3>1, <3>2
  <2>2. moved.mem.cells[g] = read.cells[g]
    BY <1>9, <2>1 DEF t
  <2>3. Keeps(m.cells[g][q], r.mem.cells[g][q])
    BY <1>17 DEF ReadSome
  <2> QED BY <1>8, <2>2, <2>3 DEF Keeps, Recovers
<1>18. ASSUME Holds(m, node), moved.ok, NEW i \in 1 .. Len(blocks), NEW q \in Offset
       PROVE  Keeps(m.cells[node.blocks[i]][q], moved.mem.cells[blocks[i]][q])
  <2>1. r.blocks[i] \in Frame /\ Len(r.blocks) = Len(blocks) /\ r.blocks[i] \in BlockSet(r)
    BY <1>6, <1>11 DEF ReadSome
  <2>2. Keeps(m.cells[node.blocks[i]][q], r.mem.cells[r.blocks[i]][q])
    BY <1>18, <2>1 DEF ReadSome
  <2>3. CASE i = k
    <3>1. moved.mem.cells[blocks[i]][q] = Salvage(read.cells[f][q])
      BY <1>9, <1>11, <1>18, <2>3 DEF t
    <3>2. r.blocks[i] = f
      BY <1>20, <2>3
    <3>3. Salvage(read.cells[f][q]).noise = 0
      BY DEF Salvage
    <3>4. \/ Salvage(read.cells[f][q]).val = read.cells[f][q].val
          \/ Salvage(read.cells[f][q]).val = 0 /\ read.cells[f][q].noise = 2
      BY DEF Salvage
    <3> QED BY <1>3, <1>8, <2>2, <3>1, <3>2, <3>3, <3>4 DEF Keeps, Recovers
  <2>4. CASE i # k
    <3>1. r.blocks[i] # f
      BY <1>1, <1>11, <1>18, <1>20, <2>1, <2>4 DEF ReadSome, Distinct
    <3>2. r.blocks[i] # t
      BY <1>7, <1>9, <1>18, <2>1 DEF ReadSome, Owned, t
    <3>3. moved.mem.cells[blocks[i]] = read.cells[r.blocks[i]]
      BY <1>9, <1>11, <2>1, <2>4, <3>1, <3>2 DEF t
    <3> QED BY <1>8, <2>1, <2>2, <3>3 DEF Keeps, Recovers
  <2> QED BY <2>3, <2>4
<1>19. ASSUME Holds(m, node), moved.ok, NEW j \in 1 .. n
       PROVE  Recovers(CellAt(m, node.blocks, j), data[j])
  <2>1. Len(r.data) = n - 1
    BY <1>19 DEF ReadSome
  <2>2. CASE j = n
    <3>1. data[j] = 0
      BY <1>12, <1>19, <2>1, <2>2
    <3>2. m.cells[node.blocks[k]][o].noise = 2
      BY <1>1, <1>4, <1>19, <1>20 DEF ReadSome, Keeps
    <3> QED BY <1>5, <2>2, <3>1, <3>2 DEF Recovers
  <2>3. CASE j # n
    <3>1. j \in 1 .. n - 1
      BY <2>3
    <3>2. data[j] = r.data[j]
      BY <1>12, <1>19, <2>1, <3>1
    <3> QED BY <1>19, <3>1, <3>2 DEF ReadSome
  <2> QED BY <2>2, <2>3
<1>21. ReadSome(m, node, n, next)
  BY <1>9, <1>11, <1>12, <1>13, <1>14, <1>15, <1>16, <1>17, <1>18, <1>19 DEF ReadSome
<1> QED BY <1>21 DEF next

(* read_file's loop, in full.                                              *)
LEMMA ReadBlocksFacts ==
  ASSUME NEW m \in Memory, NEW node, Sized(node)
  PROVE  ReadSome(m, node, node.size, ReadBlocks(m, node))
<1> DEFINE g == ReadLoop(m, node)
           T == { n \in Nat : n <= node.size => ReadSome(m, node, n, g[n]) }
<1>1. node.size \in Nat
  BY DEF Sized
<1>2. 0 \in T
  <2>1. g[0] = [ok |-> TRUE, mem |-> m, blocks |-> node.blocks, data |-> <<>>]
    BY <1>1, ReadLoopIs
  <2> DEFINE w == g[0]
  <2> HIDE DEF g
  <2>2. /\ w.ok = TRUE /\ w.mem = m /\ w.blocks = node.blocks /\ w.data = <<>>
        /\ w = [ok |-> w.ok, mem |-> w.mem, blocks |-> w.blocks, data |-> w.data]
    BY <2>1
  <2>3. w.data \in Seq(Byte) /\ Len(w.data) = 0 /\ \A j \in 1 .. 0 : FALSE
    BY <2>2, EmptySeq
  <2>4. BlockSet(w) = BlockSet(node)
    BY <2>2 DEF BlockSet
  <2>5. \A i \in 1 .. Len(node.blocks) : node.blocks[i] \in BlockSet(node)
    BY DEF BlockSet
  <2>6. Holds(m, node) => \A f \in Frame :
          Owned(m, f) <=> (Owned(m, f) /\ f \notin BlockSet(node)) \/ f \in BlockSet(node)
    BY DEF Holds, BlockSet
  <2>7. \A c : Keeps(c, c)
    BY DEF Keeps, Recovers
  <2> HIDE DEF w
  <2>8. ReadSome(m, node, 0, w)
    BY <2>2, <2>3, <2>4, <2>5, <2>6, <2>7 DEF ReadSome, Holds, Sized
  <2> QED BY <2>8 DEF w
<1>3. ASSUME NEW n \in Nat, n \in T PROVE n + 1 \in T
  <2> SUFFICES ASSUME n + 1 <= node.size PROVE ReadSome(m, node, n + 1, g[n + 1])
    OBVIOUS
  <2>1. n + 1 \in 1 .. node.size /\ (n + 1) - 1 = n /\ ReadSome(m, node, n, g[n])
    BY <1>1, <1>3
  <2> HIDE DEF g
  <2>6. \A j \in 1 .. node.size : g[j] = ReadTurn(g[j - 1], j)
    BY <1>1, ReadLoopIs DEF g
  <2>2. g[n + 1] = ReadTurn(g[n], n + 1)
    <3>1. g[n + 1] = ReadTurn(g[(n + 1) - 1], n + 1)
      BY <2>1, <2>6
    <3> QED BY <2>1, <3>1
  <2> DEFINE k == n + 1
             r == g[n]
  <2>3. k \in 1 .. node.size /\ ReadSome(m, node, k - 1, r)
    BY <2>1
  <2> HIDE DEF k, r
  <2>4. CASE ~r.ok
    <3>1. ReadTurn(r, k) = r
      BY <2>4 DEF ReadTurn
    <3>2. ReadSome(m, node, k, r)
      BY <2>3, <2>4 DEF ReadSome
    <3> QED BY <2>2, <3>1, <3>2 DEF k, r
  <2>5. CASE r.ok
    BY <2>2, <2>3, <2>5, ReadTurnReads, ReadTurnMoves DEF k, r
  <2> QED BY <2>4, <2>5
<1> HIDE DEF T, g
<1>4. node.size \in T
  BY <1>1, <1>2, <1>3, SetInduction
<1>5. ReadSome(m, node, node.size, g[node.size])
  BY <1>1, <1>4 DEF T
<1> QED BY <1>1, <1>5, ReadLoopIs DEF g
-----------------------------------------------------------------------------
(* The scrubber's sweep: words keep their value and frames their owner, or *)
(* an owned frame has been retired, and stays so.                          *)
SweptFrom(m, w) ==
  /\ w \in Memory
  /\ \A f \in Frame : \A o \in Offset :
       w.cells[f][o].noise = 2 => m.cells[f][o].noise = 2
  /\ \A f \in Frame : Retired(m, f) => Retired(w, f)
  /\ \/ \E f \in Frame : Owned(m, f) /\ Retired(w, f)
     \/ /\ w.owner = m.owner
        /\ \A f \in Frame : \A o \in Offset : w.cells[f][o].val = m.cells[f][o].val

LEMMA SweptFromSelf ==
  ASSUME NEW m \in Memory
  PROVE  SweptFrom(m, m)
BY DEF SweptFrom

LEMMA SweptFromTrans ==
  ASSUME NEW m \in Memory, NEW w, NEW z, SweptFrom(m, w), SweptFrom(w, z)
  PROVE  SweptFrom(m, z)
<1>1. CASE \E f \in Frame : Owned(m, f) /\ Retired(w, f)
  BY <1>1 DEF SweptFrom
<1>2. CASE /\ w.owner = m.owner
           /\ \A f \in Frame : \A o \in Offset : w.cells[f][o].val = m.cells[f][o].val
  <2>1. \A f \in Frame : Owned(w, f) <=> Owned(m, f)
    BY <1>2 DEF Owned
  <2> QED BY <1>2, <2>1 DEF SweptFrom
<1> QED BY <1>1, <1>2 DEF SweptFrom

LEMMA SweptByRead ==
  ASSUME NEW m \in Memory, NEW f \in Frame, NEW o \in Offset
  PROVE  SweptFrom(m, ReadByte(m, f, o))
<1> DEFINE w == ReadByte(m, f, o)
<1>1. w \in Memory /\ w.owner = m.owner /\ \A g \in Frame : ~Usable(m, g) => ~Usable(w, g)
  BY ReadByteFacts
<1>2. \A g \in Frame : \A q \in Offset :
        /\ w.cells[g][q].val = m.cells[g][q].val
        /\ w.cells[g][q].noise = 2 <=> m.cells[g][q].noise = 2
  BY ReadByteKeeps
<1> HIDE DEF w
<1>3. \A g \in Frame : Retired(m, g) => Retired(w, g)
  BY <1>1 DEF Retired, Owned
<1>4. SweptFrom(m, w)
  BY <1>1, <1>2, <1>3 DEF SweptFrom
<1> QED BY <1>4 DEF w

LEMMA SweptByRelocation ==
  ASSUME NEW m \in Memory, NEW f \in Frame
  PROVE  SweptFrom(m, RelocateAndQuarantine(m, f).mem)
<1> DEFINE r == RelocateAndQuarantine(m, f)
           w == r.mem
<1>1. /\ w \in Memory /\ r.frame \in Frame /\ r.ok \in BOOLEAN
      /\ ~Owned(m, f) => ~r.ok /\ w = m
      /\ Owned(m, f) => Retired(w, f)
      /\ \A g \in Frame : g # f /\ (r.ok => g # r.frame) =>
           w.owner[g] = m.owner[g] /\ w.status[g] = m.status[g] /\ w.cells[g] = m.cells[g]
      /\ w.cells[f] = m.cells[f]
      /\ r.ok => /\ r.frame # f /\ Usable(m, r.frame)
                 /\ \A o \in Offset : w.cells[r.frame][o] = Salvage(m.cells[f][o])
  BY RelocationFacts
<1>2. \A c : Salvage(c).noise = 0
  BY DEF Salvage
<1> HIDE DEF r, w
<1>3. CASE ~Owned(m, f)
  BY <1>1, <1>3, SweptFromSelf DEF r, w
<1>4. CASE Owned(m, f)
  <2>1. ASSUME NEW g \in Frame, NEW q \in Offset, w.cells[g][q].noise = 2
        PROVE  m.cells[g][q].noise = 2
    <3>1. CASE r.ok /\ g = r.frame
      <4>1. w.cells[g][q] = Salvage(m.cells[f][q])
        BY <1>1, <3>1
      <4> QED BY <1>2, <2>1, <4>1
    <3>2. CASE ~(r.ok /\ g = r.frame)
      BY <1>1, <2>1, <3>2
    <3> QED BY <3>1, <3>2
  <2>2. ASSUME NEW g \in Frame, Retired(m, g)
        PROVE  Retired(w, g)
    <3>1. g # f /\ (r.ok => g # r.frame)
      BY <1>1, <1>4, <2>2 DEF Retired
    <3> QED BY <1>1, <2>2, <3>1 DEF Retired, Usable, Owned
  <2>3. SweptFrom(m, w)
    BY <1>1, <1>4, <2>1, <2>2 DEF SweptFrom
  <2> QED BY <2>3 DEF w, r
<1> QED BY <1>3, <1>4

(* The function ReadWords computes.                                        *)
WordsLoop(m, f, upto) ==
  CHOOSE read : read = [o \in 0 .. upto |->
    IF o = 0 THEN m ELSE ReadByte(read[o - 1], f, o - 1)]

LEMMA WordsLoopIs ==
  ASSUME NEW m, NEW f, NEW upto \in Nat
  PROVE  /\ ReadWords(m, f, upto) = WordsLoop(m, f, upto)[upto]
         /\ WordsLoop(m, f, upto)[0] = m
         /\ \A o \in 1 .. upto : WordsLoop(m, f, upto)[o]
              = ReadByte(WordsLoop(m, f, upto)[o - 1], f, o - 1)
<1> DEFINE Defines(g, n) ==
             g = [o \in 0 .. n |-> IF o = 0 THEN m ELSE ReadByte(g[o - 1], f, o - 1)]
           T == { n \in Nat : \E g : Defines(g, n) }
<1>1. 0 \in T
  <2> DEFINE g == [o \in 0 .. 0 |-> m]
  <2>1. Defines(g, 0)
    OBVIOUS
  <2> HIDE DEF Defines
  <2> QED BY <2>1
<1>2. ASSUME NEW n \in Nat, n \in T PROVE n + 1 \in T
  <2>1. PICK g : Defines(g, n)
    BY <1>2
  <2> DEFINE h == [o \in 0 .. n + 1 |->
                     IF o = n + 1 THEN ReadByte(g[n], f, n) ELSE g[o]]
  <2>2. ASSUME NEW o \in 0 .. n + 1
        PROVE  h[o] = IF o = 0 THEN m ELSE ReadByte(h[o - 1], f, o - 1)
    <3>1. CASE o = n + 1
      BY <3>1
    <3>2. CASE o \in 0 .. n
      <4>1. h[o] = g[o] /\ (o # 0 => h[o - 1] = g[o - 1])
        BY <3>2
      <4>2. g[o] = IF o = 0 THEN m ELSE ReadByte(g[o - 1], f, o - 1)
        BY <2>1, <3>2
      <4> QED BY <4>1, <4>2
    <3> QED BY <3>1, <3>2
  <2>3. h = [o \in 0 .. n + 1 |-> h[o]]
    OBVIOUS
  <2> HIDE DEF h
  <2>4. Defines(h, n + 1)
    BY <2>2, <2>3
  <2> HIDE DEF Defines
  <2>5. (\E q : Defines(q, n + 1)) /\ n + 1 \in Nat
    BY <2>4
  <2> QED BY <2>5
<1> HIDE DEF T
<1>3. upto \in T
  BY <1>1, <1>2, SetInduction
<1>4. \E g : Defines(g, upto)
  BY <1>3 DEF T
<1>5. ReadWords(m, f, upto) = WordsLoop(m, f, upto)[upto]
  BY DEF ReadWords, WordsLoop
<1>6. Defines(WordsLoop(m, f, upto), upto)
  BY <1>4 DEF WordsLoop
<1> HIDE DEF WordsLoop
<1>7. WordsLoop(m, f, upto)[0] = m
  BY <1>6
<1>8. \A o \in 1 .. upto : WordsLoop(m, f, upto)[o]
        = ReadByte(WordsLoop(m, f, upto)[o - 1], f, o - 1)
  BY <1>6
<1> QED BY <1>5, <1>7, <1>8

LEMMA SweptByWords ==
  ASSUME NEW m \in Memory, NEW f \in Frame, NEW upto \in Nat, upto <= PageSize
  PROVE  SweptFrom(m, ReadWords(m, f, upto))
<1> DEFINE g == WordsLoop(m, f, upto)
           T == { n \in Nat : n <= upto => SweptFrom(m, g[n]) }
<1>1. g[0] = m /\ \A o \in 1 .. upto : g[o] = ReadByte(g[o - 1], f, o - 1)
  BY WordsLoopIs
<1> HIDE DEF g
<1>2. 0 \in T
  BY <1>1, SweptFromSelf
<1>3. ASSUME NEW n \in Nat, n \in T PROVE n + 1 \in T
  <2> SUFFICES ASSUME n + 1 <= upto PROVE SweptFrom(m, g[n + 1])
    OBVIOUS
  <2>1. n + 1 \in 1 .. upto /\ (n + 1) - 1 = n /\ n \in Offset
    BY FramesAssumption DEF Offset
  <2>2. SweptFrom(m, g[n])
    BY <1>3, <2>1
  <2>3. g[n + 1] = ReadByte(g[(n + 1) - 1], f, (n + 1) - 1)
    BY <1>1, <2>1
  <2>4. g[n + 1] = ReadByte(g[n], f, n)
    BY <2>1, <2>3
  <2>5. g[n] \in Memory
    BY <2>2 DEF SweptFrom
  <2>6. SweptFrom(g[n], g[n + 1])
    BY <2>1, <2>4, <2>5, SweptByRead
  <2> QED BY <2>2, <2>6, SweptFromTrans
<1> HIDE DEF T
<1>4. upto \in T
  BY <1>2, <1>3, SetInduction
<1>5. SweptFrom(m, g[upto])
  BY <1>4 DEF T
<1> QED BY <1>5, WordsLoopIs DEF g

LEMMA SweptByScrubPage ==
  ASSUME NEW m \in Memory, NEW f \in Frame
  PROVE  SweptFrom(m, ScrubPage(m, f))
<1> DEFINE fault == FirstFault(m, f)
           faults == { o \in Offset : ReadFaults(m, f, o) }
           read == ReadWords(m, f, fault)
<1>1. fault \in Offset \/ fault = PageSize
  <2>1. faults = {} => fault = PageSize
    BY DEF FirstFault
  <2>2. faults # {} => fault \in Offset
    <3> SUFFICES ASSUME faults # {} PROVE fault \in Offset
      OBVIOUS
    <3>1. fault = Lowest(faults)
      BY DEF FirstFault
    <3>2. faults \in SUBSET Nat
      BY FramesAssumption DEF Offset
    <3>3. Lowest(faults) \in faults
      BY <3>2, LowestIsMember
    <3> QED BY <3>1, <3>3
  <2> QED BY <2>1, <2>2
<1> HIDE DEF fault
<1>2. fault \in Nat /\ fault <= PageSize
  BY <1>1, FramesAssumption DEF Offset
<1>3. SweptFrom(m, read)
  BY <1>2, SweptByWords
<1> HIDE DEF read
<1>4. CASE fault = PageSize
  BY <1>3, <1>4 DEF ScrubPage, fault, read
<1>5. CASE fault # PageSize
  <2> DEFINE again == ReadByte(read, f, fault)
             w == RelocateAndQuarantine(again, f).mem
  <2>1. ScrubPage(m, f) = w
    BY <1>5 DEF ScrubPage, fault, read
  <2>2. read \in Memory /\ fault \in Offset
    BY <1>1, <1>3, <1>5 DEF SweptFrom
  <2>3. SweptFrom(read, again)
    BY <2>2, SweptByRead
  <2>4. SweptFrom(again, w)
    BY <2>3, SweptByRelocation DEF SweptFrom
  <2> HIDE DEF again, w
  <2> QED BY <1>3, <2>1, <2>2, <2>3, <2>4, SweptFromTrans
<1> QED BY <1>4, <1>5

(* The function Sweep computes.                                            *)
SweepTurn(m, w, f) ==
  IF f \in Scrubbable(m) \cap Scrubbable(w) THEN ScrubPage(w, f) ELSE w
SweepLoop(m) ==
  CHOOSE swept : swept = [n \in 0 .. TotalPages |->
    IF n = 0 THEN m ELSE SweepTurn(m, swept[n - 1], n - 1)]

LEMMA SweepLoopIs ==
  ASSUME NEW m
  PROVE  /\ Sweep(m) = SweepLoop(m)[TotalPages]
         /\ SweepLoop(m)[0] = m
         /\ \A n \in 1 .. TotalPages :
              SweepLoop(m)[n] = SweepTurn(m, SweepLoop(m)[n - 1], n - 1)
<1> DEFINE Defines(g, n) ==
             g = [k \in 0 .. n |-> IF k = 0 THEN m ELSE SweepTurn(m, g[k - 1], k - 1)]
           T == { n \in Nat : \E g : Defines(g, n) }
<1>1. 0 \in T
  <2> DEFINE g == [k \in 0 .. 0 |-> m]
  <2>1. Defines(g, 0)
    OBVIOUS
  <2> HIDE DEF Defines
  <2> QED BY <2>1
<1>2. ASSUME NEW n \in Nat, n \in T PROVE n + 1 \in T
  <2>1. PICK g : Defines(g, n)
    BY <1>2
  <2> DEFINE h == [k \in 0 .. n + 1 |->
                     IF k = n + 1 THEN SweepTurn(m, g[n], n) ELSE g[k]]
  <2>2. ASSUME NEW k \in 0 .. n + 1
        PROVE  h[k] = IF k = 0 THEN m ELSE SweepTurn(m, h[k - 1], k - 1)
    <3>1. CASE k = n + 1
      BY <3>1
    <3>2. CASE k \in 0 .. n
      <4>1. h[k] = g[k] /\ (k # 0 => h[k - 1] = g[k - 1])
        BY <3>2
      <4>2. g[k] = IF k = 0 THEN m ELSE SweepTurn(m, g[k - 1], k - 1)
        BY <2>1, <3>2
      <4> QED BY <4>1, <4>2
    <3> QED BY <3>1, <3>2
  <2>3. h = [k \in 0 .. n + 1 |-> h[k]]
    OBVIOUS
  <2> HIDE DEF h
  <2>4. Defines(h, n + 1)
    BY <2>2, <2>3
  <2> HIDE DEF Defines
  <2>5. (\E q : Defines(q, n + 1)) /\ n + 1 \in Nat
    BY <2>4
  <2> QED BY <2>5
<1> HIDE DEF T
<1>3. TotalPages \in T /\ TotalPages \in Nat
  BY <1>1, <1>2, SetInduction, FramesAssumption
<1>4. \E g : Defines(g, TotalPages)
  BY <1>3 DEF T
<1>5. Sweep(m) = SweepLoop(m)[TotalPages]
  BY DEF Sweep, SweepLoop, SweepTurn
<1>6. Defines(SweepLoop(m), TotalPages)
  BY <1>4 DEF SweepLoop
<1> HIDE DEF SweepLoop
<1>7. SweepLoop(m)[0] = m
  BY <1>3, <1>6
<1>8. \A n \in 1 .. TotalPages :
        SweepLoop(m)[n] = SweepTurn(m, SweepLoop(m)[n - 1], n - 1)
  BY <1>3, <1>6
<1> QED BY <1>5, <1>7, <1>8

LEMMA SweptBySweep ==
  ASSUME NEW m \in Memory
  PROVE  SweptFrom(m, Sweep(m))
<1> DEFINE g == SweepLoop(m)
           T == { n \in Nat : n <= TotalPages => SweptFrom(m, g[n]) }
<1>1. g[0] = m /\ \A n \in 1 .. TotalPages : g[n] = SweepTurn(m, g[n - 1], n - 1)
  BY SweepLoopIs
<1> HIDE DEF g
<1>2. 0 \in T
  BY <1>1, SweptFromSelf
<1>3. ASSUME NEW n \in Nat, n \in T PROVE n + 1 \in T
  <2> SUFFICES ASSUME n + 1 <= TotalPages PROVE SweptFrom(m, g[n + 1])
    OBVIOUS
  <2>1. n + 1 \in 1 .. TotalPages /\ (n + 1) - 1 = n /\ n \in Frame
    BY FramesAssumption DEF Frame
  <2>2. SweptFrom(m, g[n])
    BY <1>3, <2>1, FramesAssumption
  <2>3. g[n + 1] = SweepTurn(m, g[(n + 1) - 1], (n + 1) - 1)
    BY <1>1, <2>1
  <2>4. g[n + 1] = SweepTurn(m, g[n], n)
    BY <2>1, <2>3
  <2>5. g[n] \in Memory
    BY <2>2 DEF SweptFrom
  <2>6. SweptFrom(g[n], g[n + 1])
    BY <2>1, <2>4, <2>5, SweptByScrubPage, SweptFromSelf DEF SweepTurn
  <2> QED BY <2>2, <2>6, SweptFromTrans
<1> HIDE DEF T
<1>4. TotalPages \in T
  BY <1>2, <1>3, SetInduction, FramesAssumption
<1>5. SweptFrom(m, g[TotalPages])
  BY <1>4, FramesAssumption DEF T
<1> QED BY <1>5, SweepLoopIs DEF g
-----------------------------------------------------------------------------
(* Below(i) is the least set that holds i and all its members' children:   *)
(* as many steps as there can be inodes reach all of it.                   *)
Closed(t, S) == \A d \in S : \A e \in t[d].entries : e[2] \in S
TableFits == TableInv /\ NextInode <= MaxInodes
BelowIsLeast ==
  \A i \in DOMAIN inodes :
    /\ i \in Below(i) /\ Below(i) \subseteq DOMAIN inodes
    /\ Closed(inodes, Below(i))
    /\ \A S : i \in S /\ Closed(inodes, S) => Below(i) \subseteq S

LEMMA BelowHolds ==
  ASSUME TableInv, NEW i \in DOMAIN inodes, NEW S, i \in S, Closed(inodes, S)
  PROVE  \A n \in 0 .. MaxInodes : Reach(i)[n] \subseteq S
<1> DEFINE T == { n \in Nat : n <= MaxInodes => Reach(i)[n] \subseteq S }
<1>1. MaxInodes \in Nat
  BY VfsAssumption
<1>2. 0 \in T
  BY ReachIs
<1>3. ASSUME NEW n \in Nat, n \in T PROVE n + 1 \in T
  <2> SUFFICES ASSUME n + 1 <= MaxInodes PROVE Reach(i)[n + 1] \subseteq S
    OBVIOUS
  <2>1. Reach(i)[n] \subseteq S
    BY <1>1, <1>3
  <2>2. n + 1 \in 1 .. MaxInodes /\ (n + 1) - 1 = n
    BY <1>1
  <2>3. Reach(i)[n + 1] = Reach(i)[n] \cup Children(Reach(i)[n])
    BY <2>2, ReachIs
  <2>4. Children(Reach(i)[n]) \subseteq S
    BY <2>1 DEF Children, Closed
  <2> QED BY <2>1, <2>3, <2>4
<1> HIDE DEF T
<1>4. Nat \subseteq T
  BY <1>2, <1>3, SetInduction
<1> QED BY <1>1, <1>4 DEF T

LEMMA BelowIs == TableFits => BelowIsLeast
<1> SUFFICES ASSUME TableFits, NEW i \in DOMAIN inodes
             PROVE  /\ i \in Below(i) /\ Below(i) \subseteq DOMAIN inodes
                    /\ Closed(inodes, Below(i))
                    /\ \A S : i \in S /\ Closed(inodes, S) => Below(i) \subseteq S
  BY DEF BelowIsLeast
<1> DEFINE R(n) == Reach(i)[n]
           T == { n \in Nat : n <= MaxInodes =>
                    i \in R(n) /\ (Closed(inodes, R(n)) \/ Cardinality(R(n)) > n) }
<1>1. MaxInodes \in Nat /\ NextInode <= MaxInodes /\ TableInv
  BY VfsAssumption DEF TableFits
<1>2. Closed(inodes, DOMAIN inodes)
  BY <1>1 DEF Closed, TableInv, EntriesLead
<1>3. \A n \in 0 .. MaxInodes : R(n) \subseteq DOMAIN inodes
  BY <1>1, <1>2, BelowHolds
<1>4. IsFiniteSet(DOMAIN inodes) /\ Cardinality(DOMAIN inodes) = NextInode /\ NextInode \in Nat
  <2>1. DOMAIN inodes = 0 .. NextInode - 1 /\ NextInode \in Nat
    BY <1>1, Table DEF TableInv
  <2>2. IsFiniteSet(DOMAIN inodes)
    BY <2>1, FS_Interval
  <2> QED BY <2>1, <2>2 DEF NextInode
<1>5. \A n \in 0 .. MaxInodes : IsFiniteSet(R(n)) /\ Cardinality(R(n)) <= NextInode
  BY <1>3, <1>4, FS_Subset
<1>6. \A n \in 1 .. MaxInodes : R(n) = R(n - 1) \cup Children(R(n - 1))
  BY ReachIs
<1>7. R(0) = {i} /\ Below(i) = R(MaxInodes)
  BY ReachIs
<1>8. 0 \in T
  <2>1. Cardinality(R(0)) = 1
    BY <1>7, FS_Singleton
  <2> QED BY <1>7, <2>1
<1> HIDE DEF R
<1>9. ASSUME NEW n \in Nat, n \in T PROVE n + 1 \in T
  <2> SUFFICES ASSUME n + 1 <= MaxInodes
               PROVE  /\ i \in R(n + 1)
                      /\ Closed(inodes, R(n + 1)) \/ Cardinality(R(n + 1)) > n + 1
    OBVIOUS
  <2>1. /\ n + 1 \in 1 .. MaxInodes /\ (n + 1) - 1 = n /\ n \in 0 .. MaxInodes
        /\ n + 1 \in 0 .. MaxInodes
    BY <1>1
  <2>2. i \in R(n) /\ (Closed(inodes, R(n)) \/ Cardinality(R(n)) > n)
    BY <1>9, <2>1
  <2>3. R(n + 1) = R(n) \cup Children(R(n))
    BY <1>6, <2>1
  <2>4. CASE Closed(inodes, R(n))
    <3>1. Children(R(n)) \subseteq R(n)
      BY <2>4 DEF Closed, Children
    <3> QED BY <2>2, <2>3, <2>4, <3>1
  <2>5. CASE ~Closed(inodes, R(n))
    <3>1. ~(Children(R(n)) \subseteq R(n))
      BY <2>5 DEF Closed, Children
    <3>2. R(n) \in SUBSET R(n + 1) /\ R(n) # R(n + 1)
      BY <2>3, <3>1
    <3>3. Cardinality(R(n)) <= Cardinality(R(n + 1)) /\ Cardinality(R(n)) # Cardinality(R(n + 1))
      BY <1>5, <2>1, <3>2, FS_Subset
    <3>4. Cardinality(R(n)) \in Nat /\ Cardinality(R(n + 1)) \in Nat
      BY <1>5, <2>1, FS_CardinalityType
    <3> QED BY <2>2, <2>3, <2>5, <3>3, <3>4
  <2> QED BY <2>4, <2>5
<1> HIDE DEF T
<1>10. MaxInodes \in T
  BY <1>1, <1>8, <1>9, SetInduction
<1>11. i \in R(MaxInodes) /\ (Closed(inodes, R(MaxInodes)) \/ Cardinality(R(MaxInodes)) > MaxInodes)
  BY <1>1, <1>10 DEF T
<1>12. MaxInodes \in 0 .. MaxInodes
  BY <1>1
<1>13. Cardinality(R(MaxInodes)) \in Nat /\ Cardinality(R(MaxInodes)) <= NextInode
  BY <1>5, <1>12, FS_CardinalityType
<1>14. Closed(inodes, R(MaxInodes))
  BY <1>1, <1>4, <1>11, <1>13
<1>15. ASSUME NEW S, i \in S, Closed(inodes, S) PROVE R(MaxInodes) \subseteq S
  BY <1>1, <1>12, <1>15, BelowHolds DEF R
<1> QED BY <1>3, <1>7, <1>11, <1>12, <1>14, <1>15

(* Entries lead only from inside to the nodes below i, but for i itself.   *)
LEMMA BelowIsEntered ==
  ASSUME TableFits, NEW i \in DOMAIN inodes \ {Root}
  PROVE  /\ Root \notin Below(i)
         /\ \A c \in DOMAIN inodes : \A e \in inodes[c].entries :
              e[2] \in Below(i) /\ e[2] # i => c \in Below(i)
<1>1. /\ TableInv /\ Below(i) \subseteq DOMAIN inodes /\ Closed(inodes, Below(i))
      /\ i \in Below(i)
      /\ \A S : i \in S /\ Closed(inodes, S) => Below(i) \subseteq S
  BY BelowIs DEF TableFits, BelowIsLeast
<1>2. Root \notin Below(i)
  <2> DEFINE S == Below(i) \ {Root}
  <2>1. i \in S /\ Closed(inodes, S)
    BY <1>1 DEF Closed, TableInv, EntriesLead
  <2> HIDE DEF S
  <2>2. Below(i) \subseteq S
    BY <1>1, <2>1
  <2> QED BY <2>2 DEF S
<1>3. ASSUME NEW c \in DOMAIN inodes, NEW e \in inodes[c].entries,
             e[2] \in Below(i), e[2] # i, c \notin Below(i)
      PROVE  FALSE
  <2> DEFINE S == Below(i) \ {e[2]}
  <2>1. i \in S
    BY <1>1, <1>3
  <2>2. ASSUME NEW d \in S, NEW x \in inodes[d].entries PROVE x[2] \in S
    <3>1. d \in DOMAIN inodes /\ x[2] \in Below(i)
      BY <1>1 DEF Closed
    <3>2. x[2] = e[2] => d = c
      BY <1>1, <1>3, <3>1 DEF TableInv, OneParent
    <3> QED BY <1>3, <3>1, <3>2
  <2>3. Closed(inodes, S)
    BY <2>2 DEF Closed
  <2> HIDE DEF S
  <2>4. Below(i) \subseteq S
    BY <1>1, <2>1, <2>3
  <2> QED BY <1>3, <2>4 DEF S
<1> QED BY <1>2, <1>3

LEMMA LinkedIs ==
  ASSUME TableFits
  PROVE  /\ Root \in Linked /\ Linked \subseteq DOMAIN inodes
         /\ Closed(inodes, Linked)
         /\ \A S : Root \in S /\ Closed(inodes, S) => Linked \subseteq S
BY BelowIs, Table DEF Linked, BelowIsLeast, TableFits, TableInv

LinkedIsLeast ==
  /\ Root \in Linked /\ Linked \subseteq DOMAIN inodes
  /\ Closed(inodes, Linked)
  /\ \A S : Root \in S /\ Closed(inodes, S) => Linked \subseteq S
LEMMA LeastNext == TableFits' => LinkedIsLeast'
<1>1. TableFits => LinkedIsLeast
  BY LinkedIs DEF LinkedIsLeast
<1> QED BY <1>1, PTL

LEMMA LinkedIsNext ==
  ASSUME TableFits'
  PROVE  /\ Root \in Linked' /\ Linked' \subseteq DOMAIN inodes'
         /\ Closed(inodes', Linked')
         /\ \A S : Root \in S /\ Closed(inodes', S) => Linked' \subseteq S
BY LeastNext DEF LinkedIsLeast, Closed

(* A path leads nowhere or to a node that can be reached.                  *)
LEMMA WalksAreLinked ==
  ASSUME TableFits, NEW path \in Seq(Names)
  PROVE  Resolve(path) \in Linked \cup {NoInode}
<1> DEFINE T == { n \in Nat : n <= Len(path) => Walk(path)[n] \in Linked \cup {NoInode} }
<1>1. Len(path) \in Nat /\ TableInv
  BY LenProperties DEF TableFits
<1>2. 0 \in T
  BY WalkIs, LinkedIs
<1>3. ASSUME NEW n \in Nat, n \in T PROVE n + 1 \in T
  <2> SUFFICES ASSUME n + 1 <= Len(path)
               PROVE  Walk(path)[n + 1] \in Linked \cup {NoInode}
    OBVIOUS
  <2>1. Walk(path)[n] \in Linked \cup {NoInode}
    BY <1>1, <1>3
  <2>2. n + 1 \in 1 .. Len(path) /\ (n + 1) - 1 = n
    BY <1>1
  <2>3. Walk(path)[n + 1] = Onward(Walk(path)[n], path[n + 1])
    BY <2>2, WalkIs
  <2>4. CASE Walk(path)[n] = NoInode
    BY <2>3, <2>4 DEF Onward
  <2>5. CASE Walk(path)[n] \in Linked
    <3> DEFINE d == Walk(path)[n]
               i == Lookup(d, path[n + 1])
    <3>1. d \in Linked /\ d \in DOMAIN inodes
      BY <2>5, LinkedIs
    <3> HIDE DEF d
    <3>2. i # NoInode => <<path[n + 1], i>> \in inodes[d].entries
      BY <1>1, <3>1, LookupIs
    <3>3. i # NoInode => i \in Linked
      BY <3>1, <3>2, LinkedIs DEF Closed
    <3> QED BY <2>3, <3>3 DEF Onward, d
  <2> QED BY <2>1, <2>4, <2>5
<1> HIDE DEF T
<1>4. Nat \subseteq T
  BY <1>2, <1>3, SetInduction
<1> QED BY <1>1, <1>4, WalkIs DEF T
-----------------------------------------------------------------------------
(* What can be reached after a step: the same, when no entry changes.      *)
LEMMA LinkedStays ==
  ASSUME TableFits, TableFits', DOMAIN inodes' = DOMAIN inodes,
         \A i \in DOMAIN inodes : inodes'[i].entries = inodes[i].entries
  PROVE  Linked' = Linked
<1>1. /\ Closed(inodes, Linked) /\ Closed(inodes', Linked')
      /\ Linked \subseteq DOMAIN inodes /\ Linked' \subseteq DOMAIN inodes
      /\ Root \in Linked /\ Root \in Linked'
  BY LinkedIs, LinkedIsNext
<1>2. Closed(inodes', Linked) /\ Closed(inodes, Linked')
  BY <1>1 DEF Closed
<1> QED BY <1>1, <1>2, LinkedIs, LinkedIsNext

(* One node more, when one is entered in a directory that can be reached.  *)
LEMMA LinkedGrows ==
  ASSUME TableFits, TableFits', NEW d \in Linked, NEW name, Grown(inodes', d, name)
  PROVE  Linked' = Linked \cup {NextInode} /\ NextInode \notin Linked
<1> USE DEF Grown
<1> DEFINE new == NextInode
<1>1. /\ Closed(inodes, Linked) /\ Closed(inodes', Linked')
      /\ Linked \subseteq DOMAIN inodes /\ Linked' \subseteq DOMAIN inodes'
      /\ Root \in Linked /\ Root \in Linked'
      /\ \A i \in DOMAIN inodes : \A e \in inodes[i].entries : e[2] \in DOMAIN inodes
  BY LinkedIs, LinkedIsNext DEF TableFits, TableInv, EntriesLead
<1>2. new \notin DOMAIN inodes /\ 0 .. new = DOMAIN inodes \cup {new} /\ inodes'[new].entries = {}
  BY Table DEF TableFits, TableInv
<1> HIDE DEF new
<1>3. ASSUME NEW i \in DOMAIN inodes
      PROVE  /\ inodes[i].entries \subseteq inodes'[i].entries
             /\ \A e \in inodes'[i].entries : e \in inodes[i].entries \/ (i = d /\ e = <<name, new>>)
             /\ <<name, new>> \in inodes'[d].entries
  BY <1>1 DEF new
<1>4. Closed(inodes', Linked \cup {new})
  BY <1>1, <1>2, <1>3 DEF Closed
<1>5. Linked' \subseteq Linked \cup {new}
  BY <1>1, <1>4, LinkedIsNext
<1>6. Closed(inodes, Linked' \cap DOMAIN inodes)
  BY <1>1, <1>3 DEF Closed
<1>7. Root \in Linked' \cap DOMAIN inodes
  BY <1>1
<1>8. Linked \subseteq Linked'
  BY <1>6, <1>7, LinkedIs
<1>9. new \in Linked'
  <2>1. d \in Linked' /\ <<name, new>> \in inodes'[d].entries
    BY <1>1, <1>3, <1>8
  <2>2. <<name, new>>[2] \in Linked'
    BY <1>1, <2>1 DEF Closed
  <2> QED BY <2>2
<1> QED BY <1>1, <1>2, <1>5, <1>8, <1>9 DEF new

(* All but what is below a node, when the entry that leads to it goes.     *)
LEMMA LinkedShrinks ==
  ASSUME TableFits, TableFits', NEW i \in Linked \ {Root}, DOMAIN inodes' = DOMAIN inodes,
         \A c \in DOMAIN inodes : \A e :
           e \in inodes'[c].entries <=> e \in inodes[c].entries /\ e[2] # i
  PROVE  Linked' = Linked \ Below(i) /\ Below(i) \subseteq Linked
<1>1. /\ Closed(inodes, Linked) /\ Closed(inodes', Linked')
      /\ Linked \subseteq DOMAIN inodes /\ Linked' \subseteq DOMAIN inodes
      /\ Root \in Linked /\ Root \in Linked'
  BY LinkedIs, LinkedIsNext
<1>2. /\ i \in Below(i) /\ Closed(inodes, Below(i)) /\ Below(i) \subseteq DOMAIN inodes
      /\ \A S : i \in S /\ Closed(inodes, S) => Below(i) \subseteq S
  BY <1>1, BelowIs DEF BelowIsLeast
<1>3. /\ Root \notin Below(i)
      /\ \A c \in DOMAIN inodes : \A e \in inodes[c].entries :
           e[2] \in Below(i) /\ e[2] # i => c \in Below(i)
  BY <1>1, BelowIsEntered
<1>4. Below(i) \subseteq Linked
  BY <1>1, <1>2
<1>5. Linked' \subseteq Linked \ Below(i)
  <2> DEFINE S == Linked \ Below(i)
  <2>1. Closed(inodes', S) /\ Root \in S
    BY <1>1, <1>3 DEF Closed
  <2> HIDE DEF S
  <2>2. Linked' \subseteq S
    BY <2>1, LinkedIsNext
  <2> QED BY <2>2 DEF S
<1>6. Linked \subseteq Linked' \cup Below(i)
  <2> DEFINE S == Linked' \cup Below(i)
  <2>1. Closed(inodes, S) /\ Root \in S
    BY <1>1, <1>2 DEF Closed
  <2> HIDE DEF S
  <2>2. Linked \subseteq S
    BY <2>1, LinkedIs
  <2> QED BY <2>2 DEF S
<1> QED BY <1>4, <1>5, <1>6

(* The same, when a node moves to a directory that is not below it.        *)
LEMMA LinkedMoves ==
  ASSUME TableFits, TableFits', NEW a \in DOMAIN inodes, NEW b, NEW name,
         NEW i \in Linked \ {Root}, NEW d \in Linked \ Below(i),
         <<b, i>> \in inodes[a].entries, MovedTo(inodes', a, b, i, d, name)
  PROVE  Linked' = Linked
<1> USE DEF MovedTo
<1>1. /\ Closed(inodes, Linked) /\ Closed(inodes', Linked')
      /\ Linked \subseteq DOMAIN inodes /\ Linked' \subseteq DOMAIN inodes
      /\ Root \in Linked /\ Root \in Linked' /\ DOMAIN inodes' = DOMAIN inodes
  BY LinkedIs, LinkedIsNext
<1>2. /\ i \in Below(i) /\ Closed(inodes, Below(i)) /\ Below(i) \subseteq DOMAIN inodes
      /\ \A S : i \in S /\ Closed(inodes, S) => Below(i) \subseteq S
  BY <1>1, BelowIs DEF BelowIsLeast
<1>3. ASSUME NEW j \in DOMAIN inodes
      PROVE  /\ \A e \in inodes'[j].entries : e \in inodes[j].entries \/ e = <<name, i>>
             /\ \A e \in inodes[j].entries : e \in inodes'[j].entries \/ e[2] = i
  <2>1. ASSUME NEW e \in inodes[a].entries, e[1] = b PROVE e[2] = i
    <3>1. e = <<b, i>>
      <4>1. <<b, i>>[1] = b
        OBVIOUS
      <4> QED BY <2>1, <4>1 DEF TableFits, TableInv, NamesDiffer
    <3> QED BY <3>1
  <2> QED BY <2>1
<1>4. <<name, i>> \in inodes'[d].entries
  BY <1>1
<1>5. Linked' \subseteq Linked
  <2>1. \A j \in Linked : \A e \in inodes'[j].entries : e[2] \in Linked
    BY <1>1, <1>3 DEF Closed
  <2>2. Closed(inodes', Linked)
    BY <2>1 DEF Closed
  <2> QED BY <1>1, <2>2, LinkedIsNext
<1>6. Linked \subseteq Linked' \cup Below(i)
  <2> DEFINE S == Linked' \cup Below(i)
  <2>1. Closed(inodes, S) /\ Root \in S
    BY <1>1, <1>2, <1>3 DEF Closed
  <2> HIDE DEF S
  <2>2. Linked \subseteq S
    BY <2>1, LinkedIs
  <2> QED BY <2>2 DEF S
<1>7. i \in Linked'
  <2>1. d \in Linked'
    BY <1>6
  <2>2. <<name, i>>[2] \in Linked'
    BY <1>1, <1>4, <2>1 DEF Closed
  <2> QED BY <2>2
<1>8. Below(i) \subseteq Linked'
  <2> DEFINE S == Below(i) \cap Linked'
  <2>1. Closed(inodes, S) /\ i \in S
    BY <1>1, <1>2, <1>3, <1>7 DEF Closed
  <2> HIDE DEF S
  <2>2. Below(i) \subseteq S
    BY <1>2, <2>1
  <2> QED BY <2>2 DEF S
<1> QED BY <1>5, <1>6, <1>8
-----------------------------------------------------------------------------
(* Table t and history h describe memory m as far as the nodes in L go:    *)
(* the owned frames are their blocks, each of one node at one place, and   *)
(* each word holds what was last written there, or 0 if that may be lost.  *)
Reads(v, w, l) == v = w \/ (l /\ v = 0)
NodeReads(m, node, data, l) ==
  /\ Sized(node) /\ Distinct(node.blocks) /\ node.size = Len(data)
  /\ \A n \in 1 .. node.size : Reads(CellAt(m, node.blocks, n).val, data[n], l)
Sound(m, t, L, h, l) ==
  /\ \A f \in Frame : Owned(m, f) <=> \E i \in L : f \in BlockSet(t[i])
  /\ \A i \in L : NodeReads(m, t[i], h[i], l)
  /\ \A i, j \in L : \A f \in Frame :
       f \in BlockSet(t[i]) /\ f \in BlockSet(t[j]) => i = j
NoiseIsKnown(m, l) ==
  \A f \in Frame : \A o \in Offset : m.cells[f][o].noise = 2 => l

LEMMA BlocksAreFrames ==
  ASSUME NEW node, Sized(node)
  PROVE  /\ BlockSet(node) \subseteq Frame
         /\ \A k \in 1 .. Len(node.blocks) :
              node.blocks[k] \in Frame /\ node.blocks[k] \in BlockSet(node)
BY ElementOfSeq DEF Sized, BlockSet

LEMMA AlikeReads ==
  ASSUME NEW m, NEW x, NEW y, NEW data, NEW l, Alike(x, y), NodeReads(m, x, data, l)
  PROVE  NodeReads(m, y, data, l) /\ BlockSet(y) = BlockSet(x)
BY DEF Alike, NodeReads, Sized, BlockSet

(* A node whose words keep their values reads the same.                    *)
LEMMA KeptReads ==
  ASSUME NEW m, NEW w, NEW node, NEW data, NEW l, NEW k, l => k, NodeReads(m, node, data, l),
         \A f \in BlockSet(node) : \A o \in Offset :
           Reads(w.cells[f][o].val, m.cells[f][o].val, k)
  PROVE  NodeReads(w, node, data, k)
<1>1. Sized(node)
  BY DEF NodeReads
<1>2. ASSUME NEW n \in 1 .. node.size
      PROVE  Reads(CellAt(w, node.blocks, n).val, data[n], k)
  <2>1. PageOf(n) \in 1 .. Len(node.blocks) /\ OffsetOf(n) \in Offset
    BY <1>1, PlaceOfByte
  <2>2. node.blocks[PageOf(n)] \in BlockSet(node)
    BY <2>1 DEF BlockSet
  <2>3. Reads(CellAt(w, node.blocks, n).val, CellAt(m, node.blocks, n).val, k)
    BY <2>1, <2>2 DEF CellAt
  <2>4. Reads(CellAt(m, node.blocks, n).val, data[n], l)
    BY DEF NodeReads
  <2> QED BY <2>3, <2>4 DEF Reads
<1> QED BY <1>2 DEF NodeReads

LEMMA SoundOwns ==
  ASSUME NEW m, NEW t, NEW L, NEW h, NEW l, Sound(m, t, L, h, l), NEW i \in L
  PROVE  Sized(t[i]) /\ Holds(m, t[i]) /\ BlockSet(t[i]) \subseteq Frame
<1>1. Sized(t[i]) /\ Distinct(t[i].blocks)
  BY DEF Sound, NodeReads
<1>2. BlockSet(t[i]) \subseteq Frame
  BY <1>1, BlocksAreFrames
<1>3. \A k \in 1 .. Len(t[i].blocks) :
        t[i].blocks[k] \in Frame /\ t[i].blocks[k] \in BlockSet(t[i])
  BY <1>1, BlocksAreFrames
<1>4. \A k \in 1 .. Len(t[i].blocks) : Owned(m, t[i].blocks[k])
  BY <1>3 DEF Sound
<1> QED BY <1>1, <1>2, <1>4 DEF Holds

(* Nothing but the scrubber or a flip: owners and values stay.             *)
LEMMA SoundKeeps ==
  ASSUME NEW m, NEW w, NEW t, NEW L, NEW h, NEW l, NEW k, l => k, Sound(m, t, L, h, l),
         w.owner = m.owner,
         \A f \in Frame : \A o \in Offset : w.cells[f][o].val = m.cells[f][o].val
  PROVE  Sound(w, t, L, h, k)
<1>1. \A f \in Frame : Owned(w, f) <=> Owned(m, f)
  BY DEF Owned
<1>2. ASSUME NEW i \in L PROVE NodeReads(w, t[i], h[i], k)
  <2>1. NodeReads(m, t[i], h[i], l) /\ BlockSet(t[i]) \subseteq Frame
    BY SoundOwns DEF Sound
  <2>2. \A f \in BlockSet(t[i]) : \A o \in Offset :
          Reads(w.cells[f][o].val, m.cells[f][o].val, k)
    BY <2>1 DEF Reads
  <2> QED BY <2>1, <2>2, KeptReads
<1> QED BY <1>1, <1>2 DEF Sound

(* The same blocks under a table that differs elsewhere.                   *)
LEMMA SoundAlike ==
  ASSUME NEW m, NEW t, NEW u, NEW L, NEW h, NEW g, NEW l, Sound(m, t, L, h, l),
         \A i \in L : Alike(t[i], u[i]) /\ g[i] = h[i]
  PROVE  Sound(m, u, L, g, l)
<1>1. \A i \in L : NodeReads(m, u[i], g[i], l) /\ BlockSet(u[i]) = BlockSet(t[i])
  BY AlikeReads DEF Sound
<1> QED BY <1>1 DEF Sound

(* A node without blocks joins.                                            *)
LEMMA SoundEmpty ==
  ASSUME NEW m, NEW t, NEW u, NEW L, NEW h, NEW g, NEW l, NEW new, new \notin L,
         Sound(m, t, L, h, l),
         \A i \in L : Alike(t[i], u[i]) /\ g[i] = h[i],
         u[new].blocks = <<>>, u[new].size = 0, g[new] = <<>>
  PROVE  Sound(m, u, L \cup {new}, g, l)
<1>1. Sound(m, u, L, g, l)
  BY SoundAlike
<1>2. BlockSet(u[new]) = {}
  BY EmptySeq DEF BlockSet
<1>3. NodeReads(m, u[new], g[new], l)
  <2>1. u[new].blocks \in Seq(Frame) /\ Len(u[new].blocks) = 0 /\ Len(g[new]) = 0
    BY EmptySeq
  <2>2. 0 <= 0 * PageSize /\ 0 \in Nat
    BY FramesAssumption
  <2> QED BY <2>1, <2>2 DEF NodeReads, Sized, Distinct
<1>4. \A i \in L : NodeReads(m, u[i], g[i], l)
  BY <1>1 DEF Sound
<1> QED BY <1>1, <1>2, <1>3, <1>4 DEF Sound

(* The blocks of some nodes are given back.                                *)
LEMMA SoundFree ==
  ASSUME NEW m \in Memory, NEW t, NEW L, NEW h, NEW l, Sound(m, t, L, h, l),
         NEW S \in SUBSET L, NEW B, B = UNION { BlockSet(t[i]) : i \in S }
  PROVE  FreeAll(m, B) \in Memory /\ Sound(FreeAll(m, B), t, L \ S, h, l)
<1> DEFINE w == FreeAll(m, B)
<1>1. /\ w \in Memory /\ w.cells = m.cells
      /\ \A f \in Frame : Owned(w, f) <=> Owned(m, f) /\ f \notin B
  BY FreeAllFacts
<1> HIDE DEF w
<1>2. ASSUME NEW i \in L \ S
      PROVE  NodeReads(w, t[i], h[i], l) /\ BlockSet(t[i]) \subseteq Frame
  <2>1. NodeReads(m, t[i], h[i], l)
    BY DEF Sound
  <2> QED BY <1>1, <2>1, SoundOwns DEF NodeReads, CellAt
<1>3. ASSUME NEW f \in Frame
      PROVE  Owned(w, f) <=> \E i \in L \ S : f \in BlockSet(t[i])
  BY <1>1 DEF Sound
<1>4. Sound(w, t, L \ S, h, l)
  BY <1>2, <1>3 DEF Sound
<1> QED BY <1>1, <1>4 DEF w

(* New blocks are written, or none: the others keep their words.           *)
LEMMA SoundWriteOthers ==
  ASSUME NEW m \in Memory, NEW t, NEW L, NEW h, NEW l, Sound(m, t, L, h, l),
         NEW data \in Seq(Byte), NEW i \in L
  PROVE  NodeReads(WriteBlocks(m, data).mem, t[i], h[i], l)
<1> DEFINE w == WriteBlocks(m, data)
<1>1. Wrote(m, data, NumBlocks(data), w)
  BY WriteBlocksFacts
<1> HIDE DEF w
<1>2. \A f \in BlockSet(t[i]) : f \in Frame /\ Owned(m, f)
  BY SoundOwns DEF Sound
<1>3. \A f \in BlockSet(t[i]) : \A o \in Offset :
        Reads(w.mem.cells[f][o].val, m.cells[f][o].val, l)
  BY <1>1, <1>2 DEF Wrote, Reads
<1>4. NodeReads(m, t[i], h[i], l)
  BY DEF Sound
<1>5. NodeReads(w.mem, t[i], h[i], l)
  BY <1>3, <1>4, KeptReads
<1> QED BY <1>5 DEF w

LEMMA SoundFail ==
  ASSUME NEW m \in Memory, NEW t, NEW L, NEW h, NEW l, Sound(m, t, L, h, l),
         NEW data \in Seq(Byte), ~WriteBlocks(m, data).ok
  PROVE  Sound(WriteBlocks(m, data).mem, t, L, h, l)
<1> DEFINE w == WriteBlocks(m, data)
<1>1. Wrote(m, data, NumBlocks(data), w)
  BY WriteBlocksFacts
<1>2. \A i \in L : NodeReads(w.mem, t[i], h[i], l)
  BY SoundWriteOthers
<1>3. ~w.ok
  OBVIOUS
<1> HIDE DEF w
<1>4. \A f \in Frame : Owned(w.mem, f) <=> Owned(m, f)
  BY <1>1, <1>3 DEF Wrote
<1>5. Sound(w.mem, t, L, h, l)
  BY <1>2, <1>4 DEF Sound
<1> QED BY <1>5 DEF w

LEMMA NewReads ==
  ASSUME NEW m, NEW data \in Seq(Byte), NEW w, Wrote(m, data, NumBlocks(data), w), w.ok,
         NEW node, node.blocks = w.blocks, node.size = Len(data), NEW l
  PROVE  NodeReads(w.mem, node, data, l) /\ BlockSet(node) = BlockSet(w)
<1>1. /\ w.blocks \in Seq(Frame) /\ Len(w.blocks) = NumBlocks(data) /\ Distinct(w.blocks)
      /\ \A j \in 1 .. NumBlocks(data) :
           w.mem.cells[w.blocks[j]] = Filled(data, (j - 1) * PageSize)
  BY DEF Wrote
<1>2. Sized(node)
  BY <1>1, EnoughBlocks, LenProperties DEF Sized
<1>3. ASSUME NEW n \in 1 .. node.size
      PROVE  CellAt(w.mem, node.blocks, n).val = data[n]
  <2> DEFINE k == PageOf(n)
             o == OffsetOf(n)
             start == (k - 1) * PageSize
  <2>1. n \in Nat \ {0} /\ n <= Len(data) /\ Len(data) \in Nat
    BY LenProperties
  <2>2. k \in 1 .. NumBlocks(data) /\ o \in Offset
    BY <1>1, <1>2, PlaceOfByte
  <2>3. n = start + o + 1
    <3>1. NumBlocks(data) \in Nat /\ Len(data) <= NumBlocks(data) * PageSize
      BY EnoughBlocks
    <3>2. NumBlocks(data) * PageSize \in Nat
      BY <3>1, FramesAssumption
    <3>3. n <= NumBlocks(data) * PageSize
      BY <2>1, <3>1, <3>2
    <3> QED BY <2>1, <3>1, <3>3, PlaceInPages
  <2>4. start \in Nat /\ o \in Nat
    BY <2>2, FramesAssumption, EnoughBlocks DEF Offset
  <2>5. CellAt(w.mem, node.blocks, n) = Filled(data, start)[o]
    BY <1>1, <2>2 DEF CellAt
  <2> HIDE DEF k, o, start
  <2>6. start + o < Len(data)
    BY <2>1, <2>3, <2>4
  <2>7. Filled(data, start)[o].val = data[start + o + 1]
    BY <2>2, <2>6 DEF Filled, o
  <2> QED BY <2>3, <2>5, <2>7
<1>4. NodeReads(w.mem, node, data, l)
  BY <1>1, <1>2, <1>3 DEF NodeReads, Reads
<1> QED BY <1>4 DEF BlockSet

LEMMA SoundNew ==
  ASSUME NEW m \in Memory, NEW t, NEW u, NEW L, NEW h, NEW g, NEW l, NEW new, new \notin L,
         Sound(m, t, L, h, l), NEW data \in Seq(Byte), WriteBlocks(m, data).ok,
         \A i \in L : Alike(t[i], u[i]) /\ g[i] = h[i],
         u[new].blocks = WriteBlocks(m, data).blocks, u[new].size = Len(data), g[new] = data
  PROVE  Sound(WriteBlocks(m, data).mem, u, L \cup {new}, g, l)
<1> DEFINE w == WriteBlocks(m, data)
<1>1. Wrote(m, data, NumBlocks(data), w)
  BY WriteBlocksFacts
<1>2. Sound(m, u, L, g, l)
  BY SoundAlike
<1>3. \A i \in L : NodeReads(w.mem, u[i], g[i], l)
  BY <1>2, SoundWriteOthers
<1>4. w.ok /\ u[new].blocks = w.blocks
  OBVIOUS
<1> HIDE DEF w
<1>5. NodeReads(w.mem, u[new], g[new], l) /\ BlockSet(u[new]) = BlockSet(w)
  BY <1>1, <1>4, NewReads
<1>6. \A f \in Frame : Owned(w.mem, f) <=> \E i \in L \cup {new} : f \in BlockSet(u[i])
  BY <1>1, <1>2, <1>4, <1>5 DEF Wrote, Sound
<1>7. ASSUME NEW i \in L, NEW f \in Frame, f \in BlockSet(u[i]), f \in BlockSet(u[new])
      PROVE  FALSE
  <2>1. Owned(m, f)
    BY <1>2, <1>7 DEF Sound
  <2>2. PICK j \in 1 .. Len(w.blocks) : f = w.blocks[j]
    BY <1>4, <1>7 DEF BlockSet
  <2> QED BY <1>1, <1>4, <2>1, <2>2 DEF Wrote
<1>8. \A i, j \in L \cup {new} : \A f \in Frame :
        f \in BlockSet(u[i]) /\ f \in BlockSet(u[j]) => i = j
  BY <1>2, <1>7 DEF Sound
<1>9. Sound(w.mem, u, L \cup {new}, g, l)
  BY <1>3, <1>5, <1>6, <1>8 DEF Sound
<1> QED BY <1>9 DEF w

(* A file is read: its blocks may move, and its lost words are 0 now.      *)
LEMMA SoundRead ==
  ASSUME NEW m \in Memory, NEW t, NEW u, NEW L, NEW h, NEW g, NEW l,
         Sound(m, t, L, h, l), NoiseIsKnown(m, l), NEW i \in L, ReadBlocks(m, t[i]).ok,
         \A j \in L : (j # i => Alike(t[j], u[j])) /\ g[j] = h[j],
         u[i].blocks = ReadBlocks(m, t[i]).blocks, u[i].size = t[i].size
  PROVE  Sound(ReadBlocks(m, t[i]).mem, u, L, g, l)
<1> DEFINE r == ReadBlocks(m, t[i])
           node == t[i]
<1>1. Sized(node) /\ Holds(m, node) /\ BlockSet(node) \subseteq Frame
  BY SoundOwns
<1>2. ReadSome(m, node, node.size, r)
  BY <1>1, ReadBlocksFacts
<1>3. r.ok /\ u[i].blocks = r.blocks /\ u[i].size = node.size
  OBVIOUS
<1> HIDE DEF r
<1>4. /\ r.blocks \in Seq(Frame) /\ Len(r.blocks) = Len(node.blocks) /\ Distinct(r.blocks)
      /\ \A k \in 1 .. Len(r.blocks) :
           Owned(m, r.blocks[k]) => r.blocks[k] \in BlockSet(node)
      /\ \A f \in Frame : Owned(r.mem, f) <=>
           (Owned(m, f) /\ f \notin BlockSet(node)) \/ f \in BlockSet(r)
      /\ \A f \in Frame : Owned(m, f) /\ f \notin BlockSet(node) =>
           \A o \in Offset : Keeps(m.cells[f][o], r.mem.cells[f][o])
      /\ \A k \in 1 .. Len(r.blocks) : \A o \in Offset :
           Keeps(m.cells[node.blocks[k]][o], r.mem.cells[r.blocks[k]][o])
  BY <1>1, <1>2, <1>3 DEF ReadSome
<1>5. ASSUME NEW f \in Frame, NEW o \in Offset, NEW d, Keeps(m.cells[f][o], d)
      PROVE  Reads(d.val, m.cells[f][o].val, l)
  BY <1>5 DEF Keeps, Recovers, Reads, NoiseIsKnown
<1>6. BlockSet(u[i]) = BlockSet(r)
  BY <1>3 DEF BlockSet
<1>7. NodeReads(r.mem, u[i], g[i], l)
  <2>1. NodeReads(m, node, h[i], l) /\ g[i] = h[i]
    BY DEF Sound
  <2>2. Sized(u[i])
    BY <1>1, <1>3, <1>4 DEF Sized
  <2>3. ASSUME NEW n \in 1 .. u[i].size
        PROVE  Reads(CellAt(r.mem, u[i].blocks, n).val, h[i][n], l)
    <3> DEFINE k == PageOf(n)
               o == OffsetOf(n)
    <3>1. k \in 1 .. Len(node.blocks) /\ o \in Offset
      BY <1>1, <1>3, PlaceOfByte
    <3> HIDE DEF k, o
    <3>2. Keeps(m.cells[node.blocks[k]][o], r.mem.cells[r.blocks[k]][o])
      BY <1>4, <3>1
    <3>3. node.blocks[k] \in Frame
      BY <1>1, <3>1, BlocksAreFrames
    <3>4. Reads(r.mem.cells[r.blocks[k]][o].val, m.cells[node.blocks[k]][o].val, l)
      BY <1>5, <3>1, <3>2, <3>3
    <3>5. Reads(m.cells[node.blocks[k]][o].val, h[i][n], l)
      BY <1>3, <2>1 DEF NodeReads, CellAt, k, o
    <3>6. CellAt(r.mem, u[i].blocks, n) = r.mem.cells[r.blocks[k]][o]
      BY <1>3 DEF CellAt, k, o
    <3> QED BY <3>4, <3>5, <3>6 DEF Reads
  <2> QED BY <1>3, <1>4, <2>1, <2>2, <2>3 DEF NodeReads
<1>8. ASSUME NEW j \in L, j # i
      PROVE  /\ NodeReads(r.mem, u[j], g[j], l) /\ BlockSet(u[j]) = BlockSet(t[j])
             /\ \A f \in BlockSet(t[j]) : f \in Frame /\ Owned(m, f) /\ f \notin BlockSet(node)
  <2>1. \A f \in BlockSet(t[j]) : f \in Frame /\ Owned(m, f) /\ f \notin BlockSet(node)
    BY <1>8, SoundOwns DEF Sound
  <2>2. \A f \in BlockSet(t[j]) : \A o \in Offset :
          Reads(r.mem.cells[f][o].val, m.cells[f][o].val, l)
    BY <1>4, <1>5, <2>1
  <2>3. NodeReads(m, t[j], h[j], l)
    BY DEF Sound
  <2>4. NodeReads(r.mem, t[j], h[j], l)
    BY <2>2, <2>3, KeptReads
  <2>5. Alike(t[j], u[j]) /\ g[j] = h[j]
    BY <1>8
  <2> QED BY <2>1, <2>4, <2>5, AlikeReads
<1>9. ASSUME NEW f \in Frame
      PROVE  Owned(r.mem, f) <=> \E j \in L : f \in BlockSet(u[j])
  <2>1. Owned(m, f) <=> \E j \in L : f \in BlockSet(t[j])
    BY DEF Sound
  <2> QED BY <1>4, <1>6, <1>8, <2>1
<1>10. ASSUME NEW j \in L, j # i, NEW f \in Frame, f \in BlockSet(u[j]), f \in BlockSet(u[i])
       PROVE  FALSE
  <2>1. Owned(m, f) /\ f \notin BlockSet(node)
    BY <1>8, <1>10
  <2>2. PICK k \in 1 .. Len(r.blocks) : f = r.blocks[k]
    BY <1>6, <1>10 DEF BlockSet
  <2> QED BY <1>4, <2>1, <2>2
<1>11. ASSUME NEW j \in L, NEW k \in L, NEW f \in Frame,
              f \in BlockSet(u[j]), f \in BlockSet(u[k])
       PROVE  j = k
  <2>1. CASE j # i /\ k # i
    BY <1>8, <1>11, <2>1 DEF Sound
  <2>2. CASE j = i \/ k = i
    BY <1>10, <1>11, <2>2
  <2> QED BY <2>1, <2>2
<1>12. Sound(r.mem, u, L, g, l)
  BY <1>7, <1>8, <1>9, <1>11 DEF Sound
<1> QED BY <1>12 DEF r
-----------------------------------------------------------------------------
(* The invariant: types, and, while no frame is lost, the linked nodes'    *)
(* account of memory.                                                      *)
NodeTyped(r) ==
  /\ r.kind \in {"dir", "file"} /\ r.name \in Names \cup {NoName}
  /\ \A e \in r.entries : e[1] \in Names
  /\ Sized(r) /\ (r.kind = "dir" => r.blocks = <<>>)
TypeInv ==
  /\ TableFits /\ mem \in Memory /\ DOMAIN written = DOMAIN inodes
  /\ \A i \in DOMAIN inodes : NodeTyped(inodes[i]) /\ written[i] \in Seq(Byte)
  /\ astray \in BOOLEAN /\ lossy \in BOOLEAN /\ flips \in 0 .. MaxFlips
  /\ NoiseIsKnown(mem, lossy)
BlocksInv == TypeInv /\ (~astray => Sound(mem, inodes, Linked, written, lossy))

LEMMA TypedAlike ==
  ASSUME NEW x, NEW y, NodeTyped(x), y.kind = x.kind, y.name \in Names \cup {NoName},
         Alike(x, y), \A e \in y.entries : e[1] \in Names
  PROVE  NodeTyped(y)
BY DEF NodeTyped, Sized, Alike

LEMMA FitsSame ==
  ASSUME TableFits, TableInv', DOMAIN inodes' = DOMAIN inodes
  PROVE  TableFits'
BY DEF TableFits, NextInode

LEMMA FitsGrown ==
  ASSUME TableInv, TableInv', NEW d, NEW name, Grown(inodes', d, name),
         NextInode < MaxInodes
  PROVE  /\ TableFits' /\ DOMAIN inodes' = DOMAIN inodes \cup {NextInode}
         /\ NextInode \notin DOMAIN inodes
<1>1. /\ NextInode \in Nat \ {0} /\ 0 .. NextInode = DOMAIN inodes \cup {NextInode}
      /\ NextInode \notin DOMAIN inodes /\ DOMAIN inodes = 0 .. NextInode - 1
  BY Table DEF TableInv
<1>2. DOMAIN inodes' = 0 .. NextInode
  BY DEF Grown
<1>3. NextInode' = NextInode + 1
  <2> DEFINE n == NextInode
  <2>1. n \in Nat
    BY <1>1
  <2>2. NextInode' = Cardinality(0 .. n)
    BY <1>2 DEF NextInode
  <2> HIDE DEF n
  <2>3. Cardinality(0 .. n) = n + 1
    BY <2>1, FS_Interval
  <2> QED BY <2>2, <2>3 DEF n
<1>4. NextInode' <= MaxInodes
  BY <1>1, <1>3, VfsAssumption
<1> QED BY <1>1, <1>2, <1>4 DEF TableFits

LEMMA PathIsLinked ==
  ASSUME TableFits, NEW path \in Paths, Resolve(path) # NoInode
  PROVE  Resolve(path) \in Linked /\ Resolve(path) \in DOMAIN inodes
<1>1. Resolve(path) \in Linked
  BY PathSeq, WalksAreLinked
<1> QED BY <1>1, LinkedIs

(* mkdir and create_file.                                                  *)
LEMMA CreateInv ==
  ASSUME BlocksInv, NEW path \in Paths, NEW node, IsNode(node), node.entries = {},
         node.kind \in {"dir", "file"}, node.name \in Names,
         node.blocks = <<>>, node.size = 0, CreateNode(path, node)
  PROVE  BlocksInv'
<1> DEFINE d == Resolve(path)
           new == NextInode
           name == node.name
<1> USE DEF BlocksInv, TypeInv
<1>1. d \in Linked /\ d \in DOMAIN inodes
  BY PathIsLinked DEF CreateNode, CanCreate
<1>2. /\ TableInv' /\ Grown(inodes', d, name) /\ inodes'[new] = node
      /\ \A i \in DOMAIN inodes : Alike(inodes[i], inodes'[i])
  BY CreateNodeKeeps DEF TableFits
<1>3. UNCHANGED <<mem, astray, lossy, flips>> /\ new < MaxInodes /\ written' = WithHistory(<<>>)
  BY DEF CreateNode
<1> HIDE DEF d, name
<1>4. TableFits' /\ DOMAIN inodes' = DOMAIN inodes \cup {new} /\ new \notin DOMAIN inodes
  BY <1>2, <1>3, FitsGrown DEF TableFits
<1>5. /\ DOMAIN written' = DOMAIN inodes' /\ written'[new] = <<>>
      /\ \A i \in DOMAIN inodes : written'[i] = written[i]
  <2>1. 0 .. new = DOMAIN inodes \cup {new} /\ new \notin DOMAIN inodes
    BY Table DEF TableFits, TableInv
  <2> QED BY <1>3, <1>4, <2>1 DEF WithHistory
<1> HIDE DEF new
<1>6. ASSUME NEW i \in DOMAIN inodes'
      PROVE  NodeTyped(inodes'[i]) /\ written'[i] \in Seq(Byte)
  <2>1. CASE i = new
    <3>1. Sized(node)
      <4>1. node.blocks \in Seq(Frame) /\ Len(node.blocks) = 0
        BY EmptySeq
      <4>2. 0 <= 0 * PageSize
        BY FramesAssumption
      <4> QED BY <4>1, <4>2 DEF Sized
    <3>2. <<>> \in Seq(Byte)
      BY EmptySeq
    <3> QED BY <1>2, <1>5, <2>1, <3>1, <3>2 DEF NodeTyped
  <2>2. CASE i \in DOMAIN inodes
    <3>1. NodeTyped(inodes[i]) /\ written[i] \in Seq(Byte)
      BY <2>2
    <3>2. /\ inodes'[i].kind = inodes[i].kind /\ inodes'[i].name = inodes[i].name
          /\ \A e \in inodes'[i].entries : e[1] \in Names
      BY <1>2, <2>2, <3>1 DEF Grown, NodeTyped, name
    <3>3. inodes'[i].name \in Names \cup {NoName}
      BY <3>1, <3>2 DEF NodeTyped
    <3> QED BY <1>2, <1>5, <2>2, <3>1, <3>2, <3>3, TypedAlike
  <2> QED BY <1>4, <2>1, <2>2
<1>7. TypeInv'
  BY <1>3, <1>4, <1>5, <1>6 DEF NoiseIsKnown
<1>8. ASSUME ~astray' PROVE Sound(mem', inodes', Linked', written', lossy')
  <2>1. Linked' = Linked \cup {new} /\ new \notin Linked
    BY <1>1, <1>2, <1>4, LinkedGrows DEF new
  <2>2. Sound(mem, inodes, Linked, written, lossy)
    BY <1>3, <1>8
  <2>3. \A i \in Linked : Alike(inodes[i], inodes'[i]) /\ written'[i] = written[i]
    BY <1>2, <1>5, LinkedIs
  <2>4. inodes'[new].blocks = <<>> /\ inodes'[new].size = 0 /\ written'[new] = <<>>
    BY <1>2, <1>5
  <2>5. Sound(mem, inodes', Linked \cup {new}, written', lossy)
    BY <2>1, <2>2, <2>3, <2>4, SoundEmpty
  <2> QED BY <1>3, <2>1, <2>5
<1> QED BY <1>7, <1>8

(* write_file, done or failed.                                             *)
LEMMA WriteInv ==
  ASSUME BlocksInv, NEW path \in Paths, NEW data \in Data, WriteFile(path, data)
  PROVE  BlocksInv'
<1> DEFINE i == Resolve(path)
           old == inodes[i]
           B == BlockSet(old)
           m == FreeAll(mem, B)
           w == WriteBlocks(m, data)
<1> USE DEF BlocksInv, TypeInv
<1>1. i \in Linked /\ i \in DOMAIN inodes /\ old.kind = "file"
  BY PathIsLinked DEF WriteFile, IsFile
<1>2. /\ mem' = w.mem /\ UNCHANGED <<lossy, flips>>
      /\ \/ /\ w.ok /\ UNCHANGED astray
            /\ inodes' = [inodes EXCEPT ![i].blocks = w.blocks, ![i].size = Len(data)]
            /\ written' = [written EXCEPT ![i] = data]
         \/ /\ ~w.ok /\ UNCHANGED <<inodes, written>>
            /\ astray' = (astray \/ old.blocks # <<>>)
  BY DEF WriteFile, FreeOld
<1>3. data \in Seq(Byte)
  BY VfsAssumption
<1>4. m \in Memory /\ m.cells = mem.cells
  BY FreeAllFacts
<1> HIDE DEF m
<1>5. Wrote(m, data, NumBlocks(data), w)
  BY <1>3, <1>4, WriteBlocksFacts
<1>6. mem' \in Memory /\ NoiseIsKnown(mem', lossy') /\ w.ok \in BOOLEAN
  BY <1>2, <1>4, <1>5 DEF Wrote, NoiseIsKnown
<1> HIDE DEF w, i, old
<1>7. CASE w.ok
  <2>1. /\ UNCHANGED astray
        /\ inodes' = [inodes EXCEPT ![i].blocks = w.blocks, ![i].size = Len(data)]
        /\ written' = [written EXCEPT ![i] = data]
    BY <1>2, <1>7
  <2>2. /\ TableInv' /\ DOMAIN inodes' = DOMAIN inodes
        /\ \A j \in DOMAIN inodes : j # i => inodes'[j] = inodes[j]
        /\ inodes'[i].kind = inodes[i].kind /\ inodes'[i].name = inodes[i].name
        /\ inodes'[i].entries = inodes[i].entries
        /\ inodes'[i].blocks = w.blocks /\ inodes'[i].size = Len(data)
    <3>1. Rewritten(inodes', i, w.blocks, Len(data))
      BY <2>1 DEF Rewritten
    <3> QED BY <1>1, <3>1, BlocksKeep DEF TableFits
  <2>3. TableFits'
    BY <2>2, FitsSame
  <2>4. /\ DOMAIN written' = DOMAIN inodes' /\ written'[i] = data
        /\ \A j \in DOMAIN inodes : j # i => written'[j] = written[j]
    BY <1>1, <2>1, <2>2
  <2>5. Sized(inodes'[i])
    BY <1>3, <1>5, <1>7, <2>2, NewReads DEF NodeReads
  <2>6. NodeTyped(inodes'[i]) /\ written'[i] \in Seq(Byte)
    <3>1. NodeTyped(inodes[i])
      BY <1>1
    <3> QED BY <1>1, <1>3, <2>2, <2>4, <2>5, <3>1 DEF NodeTyped, old
  <2>7. \A j \in DOMAIN inodes' : NodeTyped(inodes'[j]) /\ written'[j] \in Seq(Byte)
    BY <2>2, <2>4, <2>6
  <2>8. TypeInv'
    BY <1>2, <1>6, <2>1, <2>3, <2>4, <2>7
  <2>9. ASSUME ~astray' PROVE Sound(mem', inodes', Linked', written', lossy')
    <3> DEFINE L == Linked \ {i}
    <3>1. Linked' = L \cup {i} /\ i \notin L
      <4>1. \A j \in DOMAIN inodes : inodes'[j].entries = inodes[j].entries
        BY <2>2
      <4>2. Linked' = Linked
        BY <2>2, <2>3, <4>1, LinkedStays
      <4> QED BY <1>1, <4>2
    <3>2. Sound(mem, inodes, Linked, written, lossy)
      BY <2>1, <2>9
    <3>3. {i} \in SUBSET Linked /\ B = UNION { BlockSet(inodes[j]) : j \in {i} }
      BY <1>1 DEF old
    <3> HIDE DEF B
    <3>4. Sound(m, inodes, L, written, lossy)
      BY <3>2, <3>3, SoundFree DEF m
    <3>5. \A j \in L : Alike(inodes[j], inodes'[j]) /\ written'[j] = written[j]
      BY <2>2, <2>4, LinkedIs DEF Alike
    <3> HIDE DEF L
    <3>7. /\ WriteBlocks(m, data).ok /\ inodes'[i].blocks = WriteBlocks(m, data).blocks
          /\ inodes'[i].size = Len(data) /\ written'[i] = data /\ i \notin L
      BY <1>7, <2>2, <2>4, <3>1 DEF w
    <3>6. Sound(w.mem, inodes', L \cup {i}, written', lossy)
      BY <1>3, <1>4, <3>4, <3>5, <3>7, SoundNew DEF w
    <3> QED BY <1>2, <3>1, <3>6
  <2> QED BY <2>8, <2>9
<1>8. CASE ~w.ok
  <2>1. UNCHANGED <<inodes, written>> /\ astray' = (astray \/ old.blocks # <<>>)
    BY <1>2, <1>8
  <2>2. TableInv' /\ DOMAIN inodes' = DOMAIN inodes
    BY <2>1, TableUnchanged DEF TableFits
  <2>3. TableFits'
    BY <2>2, FitsSame
  <2>4. TypeInv'
    BY <1>2, <1>6, <2>1, <2>3
  <2>5. ASSUME ~astray' PROVE Sound(mem', inodes', Linked', written', lossy')
    <3>1. Sound(mem, inodes, Linked, written, lossy) /\ old.blocks = <<>>
      BY <2>1, <2>5
    <3>2. B = UNION { BlockSet(inodes[j]) : j \in {} }
      BY <3>1, EmptySeq DEF BlockSet
    <3> HIDE DEF B
    <3>3. Sound(m, inodes, Linked \ {}, written, lossy)
      BY <3>1, <3>2, SoundFree DEF m
    <3>4. Sound(m, inodes, Linked, written, lossy)
      <4>1. Linked \ {} = Linked
        OBVIOUS
      <4> QED BY <3>3, <4>1
    <3>5. Sound(w.mem, inodes, Linked, written, lossy)
      BY <1>3, <1>4, <1>8, <3>4, SoundFail DEF w
    <3>6. Linked' = Linked
      BY <2>1, <2>2, <2>3, LinkedStays
    <3> QED BY <1>2, <2>1, <3>5, <3>6
  <2> QED BY <2>4, <2>5
<1> QED BY <1>6, <1>7, <1>8

(* A read keeps the types, whether the blocks are in order or not.         *)
LEMMA ReadTyped ==
  ASSUME TypeInv, NEW i \in DOMAIN inodes
  PROVE  LET r == ReadBlocks(mem, inodes[i])
         IN  /\ r.mem \in Memory /\ r.ok \in BOOLEAN /\ NoiseIsKnown(r.mem, lossy)
             /\ r.blocks \in Seq(Frame) /\ Len(r.blocks) = Len(inodes[i].blocks)
             /\ r.data \in Seq(Byte)
<1>1. Sized(inodes[i])
  BY DEF TypeInv, NodeTyped
<1>2. ReadSome(mem, inodes[i], inodes[i].size, ReadBlocks(mem, inodes[i]))
  BY <1>1, ReadBlocksFacts DEF TypeInv
<1> QED BY <1>2 DEF ReadSome, TypeInv, NoiseIsKnown

(* read_file, done or failed.                                              *)
LEMMA ReadInv ==
  ASSUME BlocksInv, NEW path \in Paths, ReadFile(path)
  PROVE  BlocksInv'
<1> DEFINE i == Resolve(path)
           r == ReadBlocks(mem, inodes[i])
           size == inodes[i].size
<1> USE DEF BlocksInv, TypeInv
<1>1. i \in Linked /\ i \in DOMAIN inodes /\ inodes[i].kind = "file"
  BY PathIsLinked DEF ReadFile, IsFile
<1>2. /\ mem' = r.mem /\ UNCHANGED <<written, lossy, flips>>
      /\ \/ r.ok /\ inodes' = [inodes EXCEPT ![i].blocks = r.blocks] /\ UNCHANGED astray
         \/ ~r.ok /\ astray' = TRUE /\ UNCHANGED inodes
  BY DEF ReadFile
<1>3. /\ r.mem \in Memory /\ r.ok \in BOOLEAN /\ NoiseIsKnown(r.mem, lossy)
      /\ r.blocks \in Seq(Frame) /\ Len(r.blocks) = Len(inodes[i].blocks)
  BY <1>1, ReadTyped
<1> HIDE DEF i, r
<1>4. CASE r.ok
  <2>1. inodes' = [inodes EXCEPT ![i].blocks = r.blocks] /\ UNCHANGED astray
    BY <1>2, <1>4
  <2>2. /\ TableInv' /\ DOMAIN inodes' = DOMAIN inodes
        /\ \A j \in DOMAIN inodes : j # i => inodes'[j] = inodes[j]
        /\ inodes'[i].kind = inodes[i].kind /\ inodes'[i].name = inodes[i].name
        /\ inodes'[i].entries = inodes[i].entries
        /\ inodes'[i].blocks = r.blocks /\ inodes'[i].size = size
    <3>1. Rewritten(inodes', i, r.blocks, size)
      BY <2>1 DEF Rewritten
    <3> QED BY <1>1, <3>1, BlocksKeep DEF TableFits
  <2>3. TableFits'
    BY <2>2, FitsSame
  <2>4. NodeTyped(inodes'[i])
    <3>1. NodeTyped(inodes[i])
      BY <1>1
    <3> QED BY <1>1, <1>3, <2>2, <3>1 DEF NodeTyped, Sized
  <2>5. \A j \in DOMAIN inodes' : NodeTyped(inodes'[j])
    BY <2>2, <2>4
  <2>6. TypeInv'
    BY <1>2, <1>3, <2>1, <2>2, <2>3, <2>5 DEF NoiseIsKnown
  <2>7. ASSUME ~astray' PROVE Sound(mem', inodes', Linked', written', lossy')
    <3>1. Linked' = Linked
      <4>1. \A j \in DOMAIN inodes : inodes'[j].entries = inodes[j].entries
        BY <2>2
      <4> QED BY <2>2, <2>3, <4>1, LinkedStays
    <3>2. Sound(mem, inodes, Linked, written, lossy)
      BY <2>1, <2>7
    <3>3. \A j \in Linked : j # i => Alike(inodes[j], inodes'[j])
      BY <2>2, LinkedIs DEF Alike
    <3>4. Sound(r.mem, inodes', Linked, written, lossy)
      BY <1>1, <1>4, <2>2, <3>2, <3>3, SoundRead DEF r
    <3> QED BY <1>2, <3>1, <3>4
  <2> QED BY <2>6, <2>7
<1>5. CASE ~r.ok
  <2>1. astray' = TRUE /\ UNCHANGED inodes
    BY <1>2, <1>5
  <2>2. TableInv' /\ DOMAIN inodes' = DOMAIN inodes
    BY <2>1, TableUnchanged DEF TableFits
  <2>3. TableFits'
    BY <2>2, FitsSame
  <2> QED BY <1>2, <1>3, <2>1, <2>3 DEF NoiseIsKnown
<1> QED BY <1>3, <1>4, <1>5

(* copy_file, with or without the copy's contents.                         *)
LEMMA CopyInv ==
  ASSUME BlocksInv, NEW path \in Paths, NEW to \in Paths, NEW name \in Names,
         CopyFile(path, to, name)
  PROVE  BlocksInv'
<1> DEFINE i == Resolve(path)
           d == Resolve(to)
           r == ReadBlocks(mem, inodes[i])
           data == r.data
           m == r.mem
           w == WriteBlocks(m, data)
           new == NextInode
           node == inodes'[new]
           copied == IF w.ok THEN data ELSE <<>>
<1> USE DEF BlocksInv, TypeInv
<1>1. /\ i \in Linked /\ i \in DOMAIN inodes /\ inodes[i].kind = "file"
      /\ d \in Linked /\ d \in DOMAIN inodes
  BY PathIsLinked DEF CopyFile, CanCreate, IsFile
<1>2. /\ TableInv' /\ Grown(inodes', d, name) /\ node = Copied(name, r, w)
      /\ inodes'[i].blocks = r.blocks /\ inodes'[i].size = inodes[i].size
      /\ \A j \in DOMAIN inodes : j # i => Alike(inodes[j], inodes'[j])
  BY CopyFileKeeps DEF TableFits
<1>3. /\ mem' = w.mem /\ written' = WithHistory(copied) /\ r.ok /\ new < MaxInodes
      /\ UNCHANGED <<astray, lossy, flips>>
  BY DEF CopyFile
<1>4. /\ m \in Memory /\ NoiseIsKnown(m, lossy) /\ data \in Seq(Byte)
      /\ r.blocks \in Seq(Frame) /\ Len(r.blocks) = Len(inodes[i].blocks)
  BY <1>1, ReadTyped
<1>17. m = ReadBlocks(mem, inodes[i]).mem
  OBVIOUS
<1> HIDE DEF d, i, m, data
<1>5. Wrote(m, data, NumBlocks(data), w)
  BY <1>4, WriteBlocksFacts
<1>6. /\ w.ok => /\ node.kind = "file" /\ node.name = name /\ node.entries = {}
                 /\ node.blocks = w.blocks /\ node.size = Len(data)
      /\ ~w.ok => /\ node.kind = "file" /\ node.name = name /\ node.entries = {}
                  /\ node.blocks = <<>> /\ node.size = 0
  <2> DEFINE f == File(name)
             size == Len(data)
             blocks == w.blocks
  <2>1. f = [kind |-> "file", name |-> name, entries |-> {}, blocks |-> <<>>, size |-> 0]
    BY DEF File
  <2>2. node = IF w.ok THEN [f EXCEPT !.blocks = blocks, !.size = size] ELSE f
    BY <1>2 DEF Copied, data
  <2> HIDE DEF node, w, size, blocks, f
  <2>3. w.ok => node = [kind |-> "file", name |-> name, entries |-> {},
                        blocks |-> blocks, size |-> size]
    BY <2>1, <2>2
  <2>4. ~w.ok => node = f
    BY <2>2
  <2> QED BY <2>1, <2>3, <2>4 DEF size, blocks
<1> HIDE DEF r, w, new
<1>7. TableFits' /\ DOMAIN inodes' = DOMAIN inodes \cup {new} /\ new \notin DOMAIN inodes
  BY <1>2, <1>3, FitsGrown DEF TableFits, new
<1>8. /\ DOMAIN written' = DOMAIN inodes' /\ written'[new] = copied
      /\ \A j \in DOMAIN inodes : written'[j] = written[j]
  <2> HIDE DEF copied
  <2>1. 0 .. new = DOMAIN inodes \cup {new} /\ new \notin DOMAIN inodes
    BY Table DEF TableFits, TableInv, new
  <2> QED BY <1>3, <1>7, <2>1 DEF WithHistory, new
<1>9. copied \in Seq(Byte) /\ Sized(node) /\ node.size = Len(copied)
  <2>1. CASE w.ok
    <3>1. NodeReads(w.mem, node, data, lossy)
      BY <1>4, <1>5, <1>6, <2>1, NewReads
    <3> QED BY <1>4, <2>1, <3>1 DEF NodeReads
  <2>2. CASE ~w.ok
    <3>1. <<>> \in Seq(Byte) /\ <<>> \in Seq(Frame) /\ Len(<<>>) = 0
      BY EmptySeq
    <3>2. 0 <= 0 * PageSize
      BY FramesAssumption
    <3>3. copied = <<>>
      BY <2>2
    <3> HIDE DEF copied, node
    <3>4. node.blocks = <<>> /\ node.size = 0
      BY <1>6, <2>2
    <3>5. Sized(node)
      BY <3>1, <3>2, <3>4 DEF Sized
    <3>6. Len(copied) = 0 /\ copied \in Seq(Byte)
      BY <3>1, <3>3
    <3> QED BY <3>4, <3>5, <3>6
  <2> QED BY <2>1, <2>2
<1>10. ASSUME NEW j \in DOMAIN inodes'
       PROVE  NodeTyped(inodes'[j]) /\ written'[j] \in Seq(Byte)
  <2>1. CASE j = new
    <3> HIDE DEF node, copied
    <3>1. NodeTyped(node)
      BY <1>6, <1>9 DEF NodeTyped
    <3> QED BY <1>8, <1>9, <2>1, <3>1 DEF node
  <2>2. CASE j \in DOMAIN inodes
    <3>1. NodeTyped(inodes[j]) /\ written[j] \in Seq(Byte)
      BY <2>2
    <3>2. /\ inodes'[j].kind = inodes[j].kind /\ inodes'[j].name = inodes[j].name
          /\ \A e \in inodes'[j].entries : e[1] \in Names
      BY <1>2, <2>2, <3>1 DEF Grown, NodeTyped
    <3>3. CASE j = i
      BY <1>1, <1>2, <1>4, <1>8, <2>2, <3>1, <3>2, <3>3 DEF NodeTyped, Sized
    <3>4. CASE j # i
      <4>1. NodeTyped(inodes'[j])
        BY <1>2, <2>2, <3>1, <3>2, <3>4, TypedAlike DEF NodeTyped
      <4> QED BY <1>8, <2>2, <3>1, <4>1
    <3> QED BY <3>3, <3>4
  <2> QED BY <1>7, <2>1, <2>2
<1>11. mem' \in Memory /\ NoiseIsKnown(mem', lossy')
  BY <1>3, <1>4, <1>5 DEF Wrote, NoiseIsKnown
<1>12. TypeInv'
  BY <1>3, <1>7, <1>8, <1>10, <1>11
<1>13. ASSUME ~astray' PROVE Sound(mem', inodes', Linked', written', lossy')
  <2>1. Linked' = Linked \cup {new} /\ new \notin Linked
    BY <1>1, <1>2, <1>7, LinkedGrows DEF new
  <2>2. Sound(mem, inodes, Linked, written, lossy)
    BY <1>3, <1>13
  <2>3. \A j \in Linked : /\ j # i => Alike(inodes[j], inodes'[j])
                         /\ written'[j] = written[j]
    BY <1>2, <1>8, LinkedIs
  <2>4. ReadBlocks(mem, inodes[i]).ok /\ inodes'[i].blocks = ReadBlocks(mem, inodes[i]).blocks
    BY <1>2, <1>3 DEF r
  <2>5. Sound(m, inodes', Linked, written', lossy)
    BY <1>1, <1>2, <1>17, <2>2, <2>3, <2>4, SoundRead
  <2>6. CASE w.ok
    <3>1. /\ WriteBlocks(m, data).ok /\ inodes'[new].blocks = WriteBlocks(m, data).blocks
          /\ inodes'[new].size = Len(data) /\ written'[new] = data
      BY <1>6, <1>8, <2>6 DEF w
    <3>2. Sound(w.mem, inodes', Linked \cup {new}, written', lossy)
      BY <1>4, <2>1, <2>5, <3>1, SoundNew DEF Alike, w
    <3> QED BY <1>3, <2>1, <3>2
  <2>7. CASE ~w.ok
    <3>1. Sound(w.mem, inodes', Linked, written', lossy)
      BY <1>4, <2>5, <2>7, SoundFail DEF w
    <3>2. inodes'[new].blocks = <<>> /\ inodes'[new].size = 0 /\ written'[new] = <<>>
      BY <1>6, <1>8, <2>7
    <3>3. Sound(w.mem, inodes', Linked \cup {new}, written', lossy)
      BY <2>1, <3>1, <3>2, SoundEmpty DEF Alike
    <3> QED BY <1>3, <2>1, <3>3
  <2> QED BY <2>6, <2>7
<1> QED BY <1>12, <1>13

(* remove_node, of a file or of a directory and all below it.              *)
LEMMA RemoveInv ==
  ASSUME BlocksInv, NEW path \in Paths, NEW recursive \in BOOLEAN, RemoveNode(path, recursive)
  PROVE  BlocksInv'
<1> DEFINE i == Resolve(path)
           B == Freed(i)
<1> USE DEF BlocksInv, TypeInv
<1>1. i \in Linked /\ mem' = FreeAll(mem, B) /\ UNCHANGED <<written, astray, lossy, flips>>
  BY PathIsLinked DEF RemoveNode
<1>2. /\ TableInv' /\ DOMAIN inodes' = DOMAIN inodes
      /\ i \in DOMAIN inodes \ {Root}
      /\ \A j \in DOMAIN inodes :
           /\ inodes'[j].kind = inodes[j].kind /\ inodes'[j].name = inodes[j].name
           /\ Alike(inodes[j], inodes'[j])
           /\ \A e : e \in inodes'[j].entries <=> e \in inodes[j].entries /\ e[2] # i
  BY RemoveNodeKeeps DEF TableFits
<1> HIDE DEF i
<1>3. TableFits'
  BY <1>2, FitsSame
<1>4. \A j \in DOMAIN inodes' : NodeTyped(inodes'[j])
  <2> SUFFICES ASSUME NEW j \in DOMAIN inodes PROVE NodeTyped(inodes'[j])
    BY <1>2
  <2>1. NodeTyped(inodes[j])
    OBVIOUS
  <2> QED BY <1>2, <2>1, TypedAlike DEF NodeTyped
<1>5. mem' \in Memory /\ NoiseIsKnown(mem', lossy')
  BY <1>1, FreeAllFacts DEF NoiseIsKnown
<1>6. TypeInv'
  BY <1>1, <1>2, <1>3, <1>4, <1>5
<1>7. ASSUME ~astray' PROVE Sound(mem', inodes', Linked', written', lossy')
  <2>1. Linked' = Linked \ Below(i) /\ Below(i) \in SUBSET Linked
    BY <1>1, <1>2, <1>3, LinkedShrinks
  <2>2. Sound(mem, inodes, Linked, written, lossy)
    BY <1>1, <1>7
  <2>3. B = UNION { BlockSet(inodes[j]) : j \in Below(i) }
    BY DEF Freed
  <2> HIDE DEF B
  <2>4. Sound(FreeAll(mem, B), inodes, Linked \ Below(i), written, lossy)
    BY <2>1, <2>2, <2>3, SoundFree
  <2>5. \A j \in Linked \ Below(i) : Alike(inodes[j], inodes'[j]) /\ written[j] = written[j]
    BY <1>2, LinkedIs
  <2>6. Sound(FreeAll(mem, B), inodes', Linked \ Below(i), written, lossy)
    BY <2>4, <2>5, SoundAlike
  <2> QED BY <1>1, <2>1, <2>6
<1> QED BY <1>6, <1>7

(* rename_node: the file system only loses track when it moves a directory *)
(* below itself.                                                           *)
LEMMA RenameInv ==
  ASSUME BlocksInv, NEW path \in Paths, NEW to \in Paths, NEW name \in Names,
         RenameNode(path, to, name)
  PROVE  BlocksInv'
<1> DEFINE i == Resolve(path)
           d == Resolve(to)
           a == Resolve(Parent(path))
           b == Base(path)
<1> USE DEF BlocksInv, TypeInv
<1>1. /\ i \in Linked /\ d \in Linked /\ UNCHANGED <<mem, written, lossy, flips>>
      /\ astray' = (astray \/ d \in Below(i))
  BY PathIsLinked DEF RenameNode, CanCreate
<1>2. /\ TableInv' /\ i \in DOMAIN inodes \ {Root} /\ a \in DOMAIN inodes
      /\ d \in DOMAIN inodes /\ <<b, i>> \in inodes[a].entries
      /\ MovedTo(inodes', a, b, i, d, name)
      /\ \A j \in DOMAIN inodes : Alike(inodes[j], inodes'[j])
  BY RenameNodeKeeps DEF TableFits
<1> HIDE DEF i, d, a, b
<1>3. TableFits' /\ DOMAIN inodes' = DOMAIN inodes
  <2>1. DOMAIN inodes' = DOMAIN inodes
    BY <1>2 DEF MovedTo
  <2> QED BY <1>2, <2>1, FitsSame
<1>4. \A j \in DOMAIN inodes' : NodeTyped(inodes'[j])
  <2> SUFFICES ASSUME NEW j \in DOMAIN inodes PROVE NodeTyped(inodes'[j])
    BY <1>3
  <2>1. NodeTyped(inodes[j])
    OBVIOUS
  <2>2. /\ inodes'[j].kind = inodes[j].kind
        /\ inodes'[j].name = name \/ inodes'[j].name = inodes[j].name
        /\ \A e \in inodes'[j].entries : e \in inodes[j].entries \/ e = <<name, i>>
    BY <1>2 DEF MovedTo
  <2>3. inodes'[j].name \in Names \cup {NoName} /\ \A e \in inodes'[j].entries : e[1] \in Names
    BY <2>1, <2>2 DEF NodeTyped
  <2> QED BY <1>2, <2>1, <2>2, <2>3, TypedAlike
<1>5. TypeInv'
  BY <1>1, <1>3, <1>4 DEF NoiseIsKnown
<1>6. ASSUME ~astray' PROVE Sound(mem', inodes', Linked', written', lossy')
  <2>1. ~astray /\ d \in Linked \ Below(i)
    BY <1>1, <1>6
  <2>2. Linked' = Linked
    BY <1>1, <1>2, <1>3, <2>1, LinkedMoves
  <2>3. \A j \in Linked : Alike(inodes[j], inodes'[j]) /\ written[j] = written[j]
    BY <1>2, LinkedIs
  <2>4. Sound(mem, inodes, Linked, written, lossy)
    BY <2>1
  <2>5. Sound(mem, inodes', Linked, written, lossy)
    BY <2>3, <2>4, SoundAlike
  <2> QED BY <1>1, <2>2, <2>5
<1> QED BY <1>5, <1>6

(* A flip changes neither owners nor values.                               *)
LEMMA FlipInv ==
  ASSUME BlocksInv, NEW f \in Frame, NEW o \in Offset, InjectFlip(f, o)
  PROVE  BlocksInv'
<1> USE DEF BlocksInv, TypeInv
<1>1. UNCHANGED <<inodes, written, astray>> /\ flips' \in 0 .. MaxFlips
  BY VfsAssumption DEF InjectFlip
<1>2. PICK n \in FlipTo(mem, f, o) :
        mem' = InjectBitFlip(mem, f, o, n) /\ lossy' = (lossy \/ n = 2)
  BY DEF InjectFlip
<1>3. /\ mem' \in Memory /\ mem'.owner = mem.owner
      /\ mem'.cells = [mem.cells EXCEPT ![f][o].noise = n]
  <2>1. mem' = [mem EXCEPT !.cells[f][o].noise = n]
    BY <1>2 DEF InjectBitFlip
  <2>2. mem' \in Memory /\ mem'.owner = mem.owner
    BY <1>2, InjectBitFlipFacts
  <2>3. mem'.cells = [mem.cells EXCEPT ![f][o].noise = n]
    BY <2>1 DEF Memory
  <2> QED BY <2>2, <2>3
<1>4. /\ mem'.cells[f][o].val = mem.cells[f][o].val /\ mem'.cells[f][o].noise = n
      /\ \A g \in Frame : \A q \in Offset :
           g # f \/ q # o => mem'.cells[g][q] = mem.cells[g][q]
  BY <1>3 DEF Memory, Cell
<1>5. \A g \in Frame : \A q \in Offset : mem'.cells[g][q].val = mem.cells[g][q].val
  BY <1>4
<1>6. NoiseIsKnown(mem', lossy') /\ (lossy => lossy') /\ lossy' \in BOOLEAN
  BY <1>2, <1>4 DEF NoiseIsKnown
<1>7. TableInv' /\ DOMAIN inodes' = DOMAIN inodes
  BY <1>1, TableUnchanged DEF TableFits
<1>8. TableFits'
  BY <1>7, FitsSame
<1>9. Linked' = Linked
  BY <1>1, <1>7, <1>8, LinkedStays
<1>10. TypeInv'
  BY <1>1, <1>3, <1>6, <1>8
<1>11. ASSUME ~astray' PROVE Sound(mem', inodes', Linked', written', lossy')
  <2>1. Sound(mem, inodes, Linked, written, lossy)
    BY <1>1, <1>11
  <2>2. Sound(mem', inodes, Linked, written, lossy')
    BY <1>3, <1>5, <1>6, <2>1, SoundKeeps
  <2> QED BY <1>1, <1>9, <2>2
<1> QED BY <1>10, <1>11

(* A sweep that takes no frame from its owner changes none, nor a value.   *)
LEMMA SweepInv ==
  ASSUME BlocksInv, ScrubberSweep
  PROVE  BlocksInv'
<1> USE DEF BlocksInv, TypeInv
<1>1. /\ UNCHANGED <<inodes, written, lossy, flips>>
      /\ astray' = (astray \/ \E f \in Frame : Owned(mem, f) /\ ~Owned(mem', f))
  BY DEF ScrubberSweep
<1>2. SweptFrom(mem, mem')
  BY SweptBySweep DEF ScrubberSweep
<1>3. mem' \in Memory /\ NoiseIsKnown(mem', lossy')
  BY <1>1, <1>2 DEF SweptFrom, NoiseIsKnown
<1>4. TableInv' /\ DOMAIN inodes' = DOMAIN inodes
  BY <1>1, TableUnchanged DEF TableFits
<1>5. TableFits'
  BY <1>4, FitsSame
<1>6. Linked' = Linked
  BY <1>1, <1>4, <1>5, LinkedStays
<1>7. TypeInv'
  BY <1>1, <1>3, <1>5
<1>8. ASSUME ~astray' PROVE Sound(mem', inodes', Linked', written', lossy')
  <2>1. ~astray /\ \A f \in Frame : Owned(mem, f) => Owned(mem', f)
    BY <1>1, <1>8
  <2>2. /\ mem'.owner = mem.owner
        /\ \A f \in Frame : \A o \in Offset : mem'.cells[f][o].val = mem.cells[f][o].val
    BY <1>2, <2>1 DEF SweptFrom, Retired
  <2>3. Sound(mem, inodes, Linked, written, lossy)
    BY <2>1
  <2>4. Sound(mem', inodes, Linked, written, lossy)
    BY <2>2, <2>3, SoundKeeps
  <2> QED BY <1>1, <1>6, <2>4
<1> QED BY <1>7, <1>8
-----------------------------------------------------------------------------
LEMMA BlocksInit == Init => BlocksInv
<1> SUFFICES ASSUME Init PROVE BlocksInv
  OBVIOUS
<1>1. /\ DOMAIN inodes = {Root} /\ inodes[Root] = Directory(NoName)
      /\ DOMAIN written = {Root} /\ written[Root] = <<>>
  BY DEF Init, Root
<1>2. TableInv
  BY TableInit
<1>3. TableFits
  <2>1. NextInode = 1
    BY <1>1, FS_Singleton DEF NextInode
  <2> QED BY <1>2, <2>1, VfsAssumption DEF TableFits
<1>4. /\ mem.status = [f \in Frame |-> 0] /\ mem.owner = [f \in Frame |-> NoOwner]
      /\ mem.cells = [f \in Frame |-> BlankPage]
      /\ mem = [status |-> mem.status, owner |-> mem.owner, cells |-> mem.cells]
  BY DEF Init
<1>5. mem \in Memory /\ NoiseIsKnown(mem, lossy)
  <2>1. mem.cells \in [Frame -> [Offset -> Cell]]
    BY <1>4 DEF BlankPage, Cell, Byte, MaxNoise
  <2>2. mem.status \in [Frame -> PageStatus] /\ mem.owner \in [Frame -> Nat \cup {NoOwner}]
    BY <1>4, FramesAssumption DEF PageStatus
  <2>3. mem \in Memory
    BY <1>4, <2>1, <2>2 DEF Memory
  <2>4. \A f \in Frame : \A o \in Offset : mem.cells[f][o].noise = 0
    BY <1>4 DEF BlankPage
  <2> QED BY <2>3, <2>4 DEF NoiseIsKnown
<1>6. /\ <<>> \in Seq(Byte) /\ <<>> \in Seq(Frame) /\ Len(<<>>) = 0
      /\ 0 <= 0 * PageSize /\ 0 \in Nat
  BY EmptySeq, FramesAssumption
<1>7. /\ inodes[Root].blocks = <<>> /\ inodes[Root].size = 0 /\ inodes[Root].kind = "dir"
      /\ inodes[Root].name = NoName /\ inodes[Root].entries = {}
  BY <1>1 DEF Directory
<1>8. NodeTyped(inodes[Root]) /\ BlockSet(inodes[Root]) = {}
  BY <1>6, <1>7 DEF NodeTyped, Sized, BlockSet
<1>9. TypeInv
  <2>1. \A i \in DOMAIN inodes : NodeTyped(inodes[i]) /\ written[i] \in Seq(Byte)
    BY <1>1, <1>6, <1>8
  <2>2. astray = FALSE /\ lossy = FALSE /\ flips = 0 /\ flips \in 0 .. MaxFlips
    BY VfsAssumption DEF Init
  <2> QED BY <1>1, <1>3, <1>5, <2>1, <2>2 DEF TypeInv
<1>10. Linked = {Root}
  BY <1>1, <1>3, LinkedIs
<1>11. NodeReads(mem, inodes[Root], written[Root], lossy)
  BY <1>1, <1>6, <1>7, <1>8 DEF NodeReads, NodeTyped, Distinct
<1>12. \A f \in Frame : ~Owned(mem, f)
  BY <1>4 DEF Owned
<1>13. Sound(mem, inodes, Linked, written, lossy)
  BY <1>8, <1>10, <1>11, <1>12 DEF Sound
<1> QED BY <1>9, <1>13 DEF BlocksInv

LEMMA BlocksNext == BlocksInv /\ [Next]_vars => BlocksInv'
<1> SUFFICES ASSUME BlocksInv, [Next]_vars PROVE BlocksInv'
  OBVIOUS
<1>1. ASSUME NEW path \in Paths, NEW name \in Names, Mkdir(path, name)
      PROVE  BlocksInv'
  <2> DEFINE node == Directory(name)
  <2>1. /\ IsNode(node) /\ node.entries = {} /\ node.kind = "dir" /\ node.name = name
        /\ node.blocks = <<>> /\ node.size = 0
    BY DEF IsNode, Directory
  <2>2. CreateNode(path, node)
    BY <1>1 DEF Mkdir
  <2> HIDE DEF node
  <2> QED BY <2>1, <2>2, CreateInv
<1>2. ASSUME NEW path \in Paths, NEW name \in Names, CreateFile(path, name)
      PROVE  BlocksInv'
  <2> DEFINE node == File(name)
  <2>1. /\ IsNode(node) /\ node.entries = {} /\ node.kind = "file" /\ node.name = name
        /\ node.blocks = <<>> /\ node.size = 0
    BY DEF IsNode, File
  <2>2. CreateNode(path, node)
    BY <1>2 DEF CreateFile
  <2> HIDE DEF node
  <2> QED BY <2>1, <2>2, CreateInv
<1>3. ASSUME NEW path \in Paths, NEW data \in Data, WriteFile(path, data)
      PROVE  BlocksInv'
  BY <1>3, WriteInv
<1>4. ASSUME NEW path \in Paths, ReadFile(path)
      PROVE  BlocksInv'
  BY <1>4, ReadInv
<1>5. ASSUME NEW path \in Paths, NEW to \in Paths, NEW name \in Names,
             CopyFile(path, to, name)
      PROVE  BlocksInv'
  BY <1>5, CopyInv
<1>6. ASSUME NEW path \in Paths, NEW to \in Paths, NEW name \in Names,
             RenameNode(path, to, name)
      PROVE  BlocksInv'
  BY <1>6, RenameInv
<1>7. ASSUME NEW path \in Paths, NEW recursive \in BOOLEAN, RemoveNode(path, recursive)
      PROVE  BlocksInv'
  BY <1>7, RemoveInv
<1>8. ASSUME NEW f \in Frame, NEW o \in Offset, InjectFlip(f, o)
      PROVE  BlocksInv'
  BY <1>8, FlipInv
<1>9. CASE ScrubberSweep
  BY <1>9, SweepInv
<1>10. CASE UNCHANGED vars
  <2>1. /\ UNCHANGED <<mem, inodes, written, astray, lossy, flips>>
        /\ TableFits
    BY <1>10 DEF vars, BlocksInv, TypeInv
  <2>2. TableInv' /\ DOMAIN inodes' = DOMAIN inodes
    BY <2>1, TableUnchanged DEF TableFits
  <2>3. TableFits'
    BY <2>1, <2>2, FitsSame
  <2>4. Linked' = Linked
    BY <2>1, <2>2, <2>3, LinkedStays
  <2> QED BY <2>1, <2>3, <2>4 DEF BlocksInv, TypeInv, NodeTyped, Sized, NoiseIsKnown
<1> QED BY <1>1, <1>2, <1>3, <1>4, <1>5, <1>6, <1>7, <1>8, <1>9, <1>10 DEF Next

LEMMA BlocksInvariance == Spec => []BlocksInv
<1>1. Init => BlocksInv
  BY BlocksInit
<1>2. BlocksInv /\ [Next]_vars => BlocksInv'
  BY BlocksNext
<1> QED BY <1>1, <1>2, PTL DEF Spec
-----------------------------------------------------------------------------
LEMMA InvTypes == BlocksInv => TypeOK
<1> SUFFICES ASSUME BlocksInv PROVE TypeOK
  OBVIOUS
<1> USE DEF BlocksInv, TypeInv
<1>1. /\ DOMAIN inodes = 0 .. NextInode - 1 /\ DOMAIN written = DOMAIN inodes
      /\ mem \in Memory
  BY Table DEF TableFits, TableInv
<1>2. ASSUME NEW i \in DOMAIN inodes
      PROVE  /\ inodes[i] \in Inode(NextInode)
             /\ inodes[i].size <= Len(inodes[i].blocks) * PageSize
             /\ written[i] \in Seq(Byte)
  <2> DEFINE r == inodes[i]
  <2>1. NodeTyped(r) /\ IsNode(r) /\ written[i] \in Seq(Byte)
    BY DEF TableFits, TableInv, TableOK
  <2>2. \A e \in r.entries : e = <<e[1], e[2]>> /\ e[2] \in DOMAIN inodes
    BY DEF TableFits, TableInv, EntriesLead
  <2> HIDE DEF r
  <2>3. r.entries \in SUBSET (Names \X (0 .. NextInode - 1))
    BY <1>1, <2>1, <2>2 DEF NodeTyped
  <2>4. r \in Inode(NextInode)
    BY <2>1, <2>3 DEF Inode, NodeTyped, IsNode, Sized
  <2>5. r.size <= Len(r.blocks) * PageSize
    BY <2>1 DEF NodeTyped, Sized
  <2> QED BY <2>1, <2>4, <2>5 DEF r
<1> QED BY <1>1, <1>2 DEF TypeOK

LEMMA InvOwns == BlocksInv => FilesOwnTheirBlocks
<1> SUFFICES ASSUME BlocksInv, ~astray
             PROVE  /\ { f \in Frame : Owned(mem, f) } = { BlockAt(b) : b \in Blocks }
                    /\ \A b, c \in Blocks : BlockAt(b) = BlockAt(c) => b = c
  BY DEF FilesOwnTheirBlocks
<1>1. Sound(mem, inodes, Linked, written, lossy)
  BY DEF BlocksInv
<1>2. ASSUME NEW i \in Linked
      PROVE  /\ Sized(inodes[i]) /\ Distinct(inodes[i].blocks)
             /\ Len(inodes[i].blocks) \in Nat /\ Len(inodes[i].blocks) <= TotalPages
             /\ ~IsFile(i) => inodes[i].blocks = <<>>
  <2> DEFINE s == inodes[i].blocks
  <2>1. Sized(inodes[i]) /\ Distinct(s) /\ s \in Seq(Frame)
    BY <1>1, SoundOwns DEF Holds, Sized
  <2>2. ~IsFile(i) => s = <<>>
    BY LinkedIs DEF BlocksInv, TypeInv, NodeTyped, IsFile
  <2> HIDE DEF s
  <2>3. Len(s) \in Nat /\ s \in [1 .. Len(s) -> Frame]
    BY <2>1, LenProperties
  <2>4. IsFiniteSet(Frame) /\ Cardinality(Frame) = TotalPages
    BY FramesAssumption, FS_Interval DEF Frame
  <2>5. IsFiniteSet(1 .. Len(s)) /\ Cardinality(1 .. Len(s)) = Len(s)
    BY <2>3, FS_Interval
  <2>6. ~(TotalPages < Len(s))
    BY <2>1, <2>3, <2>4, <2>5, FS_PigeonHole DEF Distinct
  <2>7. Len(s) <= TotalPages
    BY <2>3, <2>6, FramesAssumption
  <2> QED BY <2>1, <2>2, <2>3, <2>7 DEF s
<1>3. \A b \in Blocks : /\ b = <<b[1], b[2]>> /\ b[1] \in Linked
                       /\ b[2] \in 1 .. Len(inodes[b[1]].blocks)
                       /\ BlockAt(b) = inodes[b[1]].blocks[b[2]]
                       /\ BlockAt(b) \in BlockSet(inodes[b[1]])
                       /\ BlockAt(b) \in Frame
  <2> TAKE b \in Blocks
  <2>1. /\ b = <<b[1], b[2]>> /\ b[1] \in Linked /\ b[2] \in 1 .. TotalPages
        /\ b[2] <= Len(inodes[b[1]].blocks)
    BY DEF Blocks, LinkedFiles
  <2>2. b[2] \in 1 .. Len(inodes[b[1]].blocks) /\ Sized(inodes[b[1]])
    BY <1>2, <2>1, FramesAssumption
  <2> QED BY <2>1, <2>2, BlocksAreFrames DEF BlockAt
<1>4. ASSUME NEW b \in Blocks, NEW c \in Blocks, BlockAt(b) = BlockAt(c)
      PROVE  b = c
  <2>1. b[1] = c[1]
    BY <1>1, <1>3, <1>4 DEF Sound
  <2>2. b[2] = c[2]
    BY <1>2, <1>3, <1>4, <2>1 DEF Distinct
  <2> QED BY <1>3, <2>1, <2>2
<1>5. ASSUME NEW b \in Blocks PROVE Owned(mem, BlockAt(b)) /\ BlockAt(b) \in Frame
  BY <1>1, <1>3 DEF Sound
<1>6. ASSUME NEW f \in Frame, Owned(mem, f) PROVE \E b \in Blocks : f = BlockAt(b)
  <2>1. PICK i \in Linked : f \in BlockSet(inodes[i])
    BY <1>1, <1>6 DEF Sound
  <2>2. PICK k \in 1 .. Len(inodes[i].blocks) : f = inodes[i].blocks[k]
    BY <2>1 DEF BlockSet
  <2>3. Len(inodes[i].blocks) # 0
    BY <1>2, <2>2
  <2>4. IsFile(i)
    BY <1>2, <2>3, EmptySeq
  <2> DEFINE b == <<i, k>>
  <2>5. b[1] = i /\ b[2] = k
    OBVIOUS
  <2>6. b \in LinkedFiles \X (1 .. TotalPages)
    BY <1>2, <2>4, FramesAssumption DEF LinkedFiles
  <2>7. b \in Blocks /\ f = BlockAt(b)
    BY <1>2, <2>2, <2>5, <2>6 DEF Blocks, BlockAt
  <2> QED BY <2>7
<1> QED BY <1>4, <1>5, <1>6

LEMMA InvRecovers == BlocksInv => ReadsRecover
<1> SUFFICES ASSUME BlocksInv, ~astray, NEW i \in LinkedFiles
             PROVE  LET r == ReadBlocks(mem, inodes[i])
                    IN  IF r.ok
                        THEN /\ Len(r.data) = Len(written[i])
                             /\ \A n \in 1 .. Len(r.data) :
                                  r.data[n] = written[i][n] \/ (lossy /\ r.data[n] = 0)
                        ELSE Available(r.mem) = {}
  BY DEF ReadsRecover
<1> DEFINE r == ReadBlocks(mem, inodes[i])
           node == inodes[i]
<1>1. Sound(mem, inodes, Linked, written, lossy) /\ i \in Linked /\ NoiseIsKnown(mem, lossy)
      /\ mem \in Memory
  BY DEF BlocksInv, TypeInv, LinkedFiles
<1>2. Sized(node) /\ Holds(mem, node) /\ NodeReads(mem, node, written[i], lossy)
  BY <1>1, SoundOwns DEF Sound
<1>3. ReadSome(mem, node, node.size, r)
  BY <1>1, <1>2, ReadBlocksFacts
<1> HIDE DEF r
<1>4. CASE ~r.ok
  BY <1>2, <1>3, <1>4 DEF ReadSome, r
<1>5. CASE r.ok
  <2>1. /\ Len(r.data) = node.size /\ node.size = Len(written[i])
        /\ \A n \in 1 .. node.size : Recovers(CellAt(mem, node.blocks, n), r.data[n])
    BY <1>2, <1>3, <1>5 DEF ReadSome, NodeReads
  <2>2. ASSUME NEW n \in 1 .. node.size
        PROVE  r.data[n] = written[i][n] \/ (lossy /\ r.data[n] = 0)
    <3> DEFINE c == CellAt(mem, node.blocks, n)
    <3>1. Recovers(c, r.data[n]) /\ Reads(c.val, written[i][n], lossy)
      BY <1>2, <2>1 DEF NodeReads
    <3>2. c.noise = 2 => lossy
      <4>1. PageOf(n) \in 1 .. Len(node.blocks) /\ OffsetOf(n) \in Offset
        BY <1>2, PlaceOfByte
      <4>2. node.blocks[PageOf(n)] \in Frame
        BY <1>2, <4>1, BlocksAreFrames
      <4> QED BY <1>1, <4>1, <4>2 DEF NoiseIsKnown, CellAt
    <3> HIDE DEF c
    <3> QED BY <3>1, <3>2 DEF Recovers, Reads
  <2> QED BY <1>5, <2>1, <2>2 DEF r
<1>6. r.ok \in BOOLEAN
  BY <1>3 DEF ReadSome
<1> QED BY <1>4, <1>5 DEF r

(* vfs.rs and inode.rs: the table, the block lists and the sizes keep      *)
(* their types, and no size runs past the blocks that hold it.             *)
THEOREM VfsTypes == Spec => []TypeOK
BY InvTypes, BlocksInvariance, PTL

(* vfs.rs: through all calls, successes and failures, flips and sweeps,    *)
(* the frames given away are the blocks of the reachable files, each of    *)
(* one file at one place, until a call or the scrubber loses one.          *)
THEOREM FilesKeepTheirBlocks == Spec => []FilesOwnTheirBlocks
BY InvOwns, BlocksInvariance, PTL

(* vfs.rs, read_file: what a reachable file gives back is what was last    *)
(* written to it, a byte being 0 only after an uncorrectable word; it only *)
(* fails for want of a frame to move a damaged block to.                   *)
THEOREM FilesReadBack == Spec => []ReadsRecover
BY InvRecovers, BlocksInvariance, PTL
=============================================================================
