---------------------------- MODULE FramesProofs ----------------------------
(***************************************************************************)
(* What the operators of module Frames return and preserve, for every      *)
(* number of frames, page size and tolerance.  The proofs about the        *)
(* modules that use the allocator rest on these lemmas alone.              *)
(***************************************************************************)
EXTENDS Frames, WellFoundedInduction, TLAPS

(* The least element of a non-empty set of naturals is one of its members. *)
LEMMA LowestIsMember ==
  ASSUME NEW S \in SUBSET Nat, S # {}
  PROVE  Lowest(S) \in S /\ \A y \in S : Lowest(S) <= y
<1> DEFINE R == { ss \in Nat \X Nat : ss[1] < ss[2] }
<1>1. IsWellFoundedOn(R, Nat)
  BY NatLessThanWellFounded DEF OpToRel
<1>2. PICK m \in S : \A k \in S : ~ (<<k, m>> \in R)
  BY <1>1, WFMin
<1>3. \A k \in S : k < m => <<k, m>> \in R
  OBVIOUS
<1> HIDE DEF R
<1>4. \A k \in S : ~ (k < m)
  BY <1>2, <1>3
<1>5. \A k \in S : k \in Nat /\ m \in Nat
  OBVIOUS
<1>6. \A k \in S : m <= k
  BY <1>4, <1>5
<1>7. QED
  BY <1>6 DEF Lowest

(* The allocator hands out a free frame that is not quarantined.           *)
LEMMA NextFreeIsAvailable ==
  ASSUME NEW m, Available(m) # {}
  PROVE  NextFree(m) \in Frame /\ ~Owned(m, NextFree(m)) /\ Usable(m, NextFree(m))
<1>1. Available(m) \in SUBSET Nat
  BY FramesAssumption DEF Available, Frame
<1>2. NextFree(m) \in Available(m)
  BY <1>1, LowestIsMember DEF NextFree
<1>3. QED
  BY <1>2 DEF Available

(* write_byte: the frame's map entry and its status stay, and only a       *)
(* usable frame is written.                                                *)
LEMMA WriteByteFacts ==
  ASSUME NEW m \in Memory, NEW f \in Frame, NEW o \in Offset, NEW v \in Byte
  PROVE  /\ WriteByte(m, f, o, v) \in Memory
         /\ WriteByte(m, f, o, v).owner = m.owner
         /\ WriteByte(m, f, o, v).status = m.status
         /\ \A g \in Frame :
              g # f \/ ~Usable(m, f) => WriteByte(m, f, o, v).cells[g] = m.cells[g]
<1> DEFINE w == WriteByte(m, f, o, v)
           c == [val |-> v, noise |-> 0]
<1>1. CASE Usable(m, f)
  <2>1. w = [m EXCEPT !.cells[f][o] = c]
    BY <1>1 DEF WriteByte
  <2>2. c \in Cell
    BY DEF Cell, MaxNoise
  <2>3. w.owner = m.owner /\ w.status = m.status
    BY <2>1 DEF Memory
  <2>4. w.cells = [m.cells EXCEPT ![f][o] = c]
    BY <2>1 DEF Memory
  <2>5. w.cells \in [Frame -> [Offset -> Cell]]
    BY <2>2, <2>4 DEF Memory
  <2>6. w \in Memory
    BY <2>1, <2>3, <2>5 DEF Memory
  <2>7. \A g \in Frame : g # f => w.cells[g] = m.cells[g]
    BY <2>4 DEF Memory
  <2>8. QED
    BY <1>1, <2>3, <2>6, <2>7
<1>2. CASE ~Usable(m, f)
  BY <1>2 DEF WriteByte
<1>3. QED
  BY <1>1, <1>2

(* read_byte: ownership stays, no quarantine is lifted, other frames are   *)
(* untouched, and no word becomes dirtier.                                 *)
LEMMA ReadByteFacts ==
  ASSUME NEW m \in Memory, NEW f \in Frame, NEW o \in Offset
  PROVE  /\ ReadByte(m, f, o) \in Memory
         /\ ReadByte(m, f, o).owner = m.owner
         /\ \A g \in Frame : ~Usable(m, g) => ~Usable(ReadByte(m, f, o), g)
         /\ \A g \in Frame : g # f =>
              /\ ReadByte(m, f, o).cells[g] = m.cells[g]
              /\ ReadByte(m, f, o).status[g] = m.status[g]
         /\ \A q \in Offset : m.cells[f][q].noise = 0 =>
              ReadByte(m, f, o).cells[f][q].noise = 0
         /\ ~ReadFaults(m, f, o) => ReadByte(m, f, o).cells[f][o].noise = 0
<1> DEFINE r == ReadByte(m, f, o)
<1> USE FramesAssumption
<1>1. CASE ReadFaults(m, f, o)
  <2>1. r = [m EXCEPT !.status[f] = Quarantined]
    BY <1>1 DEF ReadByte, ReadFaults, ReadCorrects
  <2>2. r.cells = m.cells /\ r.owner = m.owner
    BY <2>1 DEF Memory
  <2>3. r.status = [m.status EXCEPT ![f] = Quarantined]
    BY <2>1 DEF Memory
  <2>4. r.status \in [Frame -> PageStatus]
    BY <2>3 DEF Memory, PageStatus, Quarantined
  <2>5. r \in Memory
    BY <2>1, <2>2, <2>4 DEF Memory
  <2>6. \A g \in Frame : ~Usable(m, g) => ~Usable(r, g)
    BY <2>3 DEF Memory, Usable
  <2>7. \A g \in Frame : g # f => r.status[g] = m.status[g]
    BY <2>3 DEF Memory
  <2>8. QED
    BY <1>1, <2>2, <2>5, <2>6, <2>7
<1>2. CASE ReadCorrects(m, f, o)
  <2>1. ~ReadFaults(m, f, o)
    BY <1>2 DEF ReadFaults, ReadCorrects
  <2>2. r = [m EXCEPT !.cells[f][o].noise = 0, !.status[f] = CountRepair(@)]
    BY <1>2, <2>1 DEF ReadByte
  <2>3. [m.cells[f][o] EXCEPT !.noise = 0] \in Cell
    BY DEF Memory, Cell, MaxNoise
  <2>4. /\ CountRepair(m.status[f]) \in PageStatus
        /\ m.status[f] = Quarantined => CountRepair(m.status[f]) = Quarantined
    BY DEF CountRepair, Memory, PageStatus, Quarantined
  <2>5. r.status = [m.status EXCEPT ![f] = CountRepair(@)] /\ r.owner = m.owner
    BY <2>2 DEF Memory
  <2>6. r.cells = [m.cells EXCEPT ![f][o].noise = 0]
    BY <2>2 DEF Memory
  <2>7. r \in Memory
    <3>1. r.status \in [Frame -> PageStatus]
      BY <2>4, <2>5 DEF Memory
    <3>2. r.cells \in [Frame -> [Offset -> Cell]]
      BY <2>3, <2>6 DEF Memory
    <3>3. r.owner \in [Frame -> Nat \cup {NoOwner}]
      BY <2>5 DEF Memory
    <3>4. QED
      BY <2>2, <3>1, <3>2, <3>3 DEF Memory
  <2>8. \A g \in Frame : ~Usable(m, g) => ~Usable(r, g)
    BY <2>4, <2>5 DEF Usable, Memory
  <2>9. \A g \in Frame : g # f => r.cells[g] = m.cells[g] /\ r.status[g] = m.status[g]
    BY <2>5, <2>6 DEF Memory
  <2>10. r.cells[f][o].noise = 0 /\ \A q \in Offset \ {o} : r.cells[f][q] = m.cells[f][q]
    BY <2>3, <2>6 DEF Memory, Cell
  <2>11. QED
    BY <2>5, <2>7, <2>8, <2>9, <2>10
<1>3. CASE ~ReadFaults(m, f, o) /\ ~ReadCorrects(m, f, o)
  <2>1. r = m
    BY <1>3 DEF ReadByte
  <2>2. m.cells[f][o].noise \in 0 .. 2
    BY DEF Memory, Cell, MaxNoise
  <2>3. QED
    BY <1>3, <2>1, <2>2 DEF ReadFaults, ReadCorrects
<1>4. QED
  BY <1>1, <1>2, <1>3

(* A flip changes the noise of one word and nothing else.                  *)
LEMMA InjectBitFlipFacts ==
  ASSUME NEW m \in Memory, NEW f \in Frame, NEW o \in Offset,
         NEW n \in FlipTo(m, f, o)
  PROVE  /\ InjectBitFlip(m, f, o, n) \in Memory
         /\ InjectBitFlip(m, f, o, n).owner = m.owner
         /\ InjectBitFlip(m, f, o, n).status = m.status
<1> DEFINE w == InjectBitFlip(m, f, o, n)
<1>1. w.cells = [m.cells EXCEPT ![f][o].noise = n]
  BY DEF InjectBitFlip, Memory
<1>2. w.owner = m.owner /\ w.status = m.status
  BY DEF InjectBitFlip, Memory
<1>3. [m.cells[f][o] EXCEPT !.noise = n] \in Cell
  BY DEF Memory, Cell, FlipTo
<1>4. w.cells \in [Frame -> [Offset -> Cell]]
  BY <1>1, <1>3 DEF Memory
<1>5. w \in Memory
  BY <1>2, <1>4 DEF Memory, InjectBitFlip
<1>6. QED
  BY <1>2, <1>5

(* Retiring a frame: quarantined, no owner; the other frames and all words *)
(* stay.                                                                   *)
LEMMA RetireFacts ==
  ASSUME NEW m \in Memory, NEW f \in Frame
  PROVE  /\ Retire(m, f) \in Memory
         /\ Retired(Retire(m, f), f)
         /\ Retire(m, f).cells = m.cells
         /\ \A g \in Frame : g # f =>
              /\ Retire(m, f).owner[g] = m.owner[g]
              /\ Retire(m, f).status[g] = m.status[g]
<1> DEFINE w == Retire(m, f)
<1>1. w.status = [m.status EXCEPT ![f] = Quarantined]
  BY DEF Retire, Memory
<1>2. w.owner = [m.owner EXCEPT ![f] = NoOwner]
  BY DEF Retire, Memory
<1>3. w.cells = m.cells
  BY DEF Retire, Memory
<1>4. w.status \in [Frame -> PageStatus]
  BY <1>1, FramesAssumption DEF Memory, PageStatus, Quarantined
<1>5. w.owner \in [Frame -> Nat \cup {NoOwner}]
  BY <1>2 DEF Memory
<1>6. w \in Memory
  BY <1>3, <1>4, <1>5 DEF Memory, Retire
<1>7. Retired(w, f)
  BY <1>1, <1>2 DEF Retired, Usable, Owned, Memory
<1>8. QED
  BY <1>1, <1>2, <1>3, <1>6, <1>7 DEF Memory

(* The copy gives its target the source's owner and clean words only.      *)
LEMMA MigrateFacts ==
  ASSUME NEW m \in Memory, NEW f \in Frame, NEW t \in Frame
  PROVE  /\ Migrate(m, f, t) \in Memory
         /\ Migrate(m, f, t).status = m.status
         /\ Migrate(m, f, t).owner[t] = m.owner[f]
         /\ \A o \in Offset : Migrate(m, f, t).cells[t][o] = Salvage(m.cells[f][o])
         /\ \A g \in Frame : g # t =>
              /\ Migrate(m, f, t).owner[g] = m.owner[g]
              /\ Migrate(m, f, t).cells[g] = m.cells[g]
<1> DEFINE w == Migrate(m, f, t)
           copy == [o \in Offset |-> Salvage(m.cells[f][o])]
<1>1. w.status = m.status
  BY DEF Migrate, Memory
<1>2. w.owner = [m.owner EXCEPT ![t] = m.owner[f]]
  BY DEF Migrate, Memory
<1>3. w.cells = [m.cells EXCEPT ![t] = copy]
  BY DEF Migrate, Memory
<1>4. copy \in [Offset -> Cell]
  BY DEF Memory, Cell, Salvage, Byte, MaxNoise
<1>5. w.owner \in [Frame -> Nat \cup {NoOwner}] /\ w.cells \in [Frame -> [Offset -> Cell]]
  BY <1>2, <1>3, <1>4 DEF Memory
<1>6. w \in Memory
  BY <1>1, <1>5 DEF Memory, Migrate
<1>7. QED
  BY <1>1, <1>2, <1>3, <1>6 DEF Memory

(* relocate_and_quarantine, the three ways it can return: refused with     *)
(* nothing changed, out of memory with the frame retired, or the frame     *)
(* retired and its owner moved to one that was free and healthy.           *)
LEMMA RelocationFacts ==
  ASSUME NEW m \in Memory, NEW f \in Frame
  PROVE  LET r == RelocateAndQuarantine(m, f)
         IN  /\ r.mem \in Memory
             /\ r.frame \in Frame
             /\ r.ok \in BOOLEAN
             /\ ~Owned(m, f) => ~r.ok /\ r.mem = m
             /\ Owned(m, f) /\ ~r.ok => r.mem = Retire(m, f)
             /\ Owned(m, f) => Retired(r.mem, f)
             /\ \A g \in Frame : g # f /\ (r.ok => g # r.frame) =>
                  /\ r.mem.owner[g] = m.owner[g]
                  /\ r.mem.status[g] = m.status[g]
                  /\ r.mem.cells[g] = m.cells[g]
             /\ r.mem.cells[f] = m.cells[f]
             /\ r.ok => /\ r.frame # f
                        /\ ~Owned(m, r.frame) /\ Usable(m, r.frame)
                        /\ r.mem.owner[r.frame] = m.owner[f]
                        /\ r.mem.status[r.frame] = m.status[r.frame]
                        /\ \A o \in Offset : r.mem.cells[r.frame][o] = Salvage(m.cells[f][o])
<1> DEFINE r == RelocateAndQuarantine(m, f)
           to == NextFree(m)
<1>1. CASE ~Owned(m, f)
  <2>1. r = [ok |-> FALSE, frame |-> f, mem |-> m]
    BY <1>1 DEF RelocateAndQuarantine
  <2>2. QED
    BY <1>1, <2>1
<1>2. CASE Owned(m, f) /\ Available(m) = {}
  <2>1. r = [ok |-> FALSE, frame |-> f, mem |-> Retire(m, f)]
    BY <1>2 DEF RelocateAndQuarantine
  <2>2. QED
    BY <1>2, <2>1, RetireFacts
<1>3. CASE Owned(m, f) /\ Available(m) # {}
  <2> DEFINE w == Migrate(m, f, to)
  <2>1. r = [ok |-> TRUE, frame |-> to, mem |-> Retire(w, f)]
    BY <1>3 DEF RelocateAndQuarantine
  <2>2. to \in Frame /\ ~Owned(m, to) /\ Usable(m, to)
    BY <1>3, NextFreeIsAvailable
  <2>3. to # f
    BY <1>3, <2>2
  <2> HIDE DEF to
  <2>4. /\ w \in Memory /\ w.status = m.status /\ w.owner[to] = m.owner[f]
        /\ \A o \in Offset : w.cells[to][o] = Salvage(m.cells[f][o])
        /\ \A g \in Frame : g # to => w.owner[g] = m.owner[g] /\ w.cells[g] = m.cells[g]
    BY <2>2, MigrateFacts
  <2> HIDE DEF w
  <2>5. /\ Retire(w, f) \in Memory /\ Retired(Retire(w, f), f)
        /\ Retire(w, f).cells = w.cells
        /\ \A g \in Frame : g # f => /\ Retire(w, f).owner[g] = w.owner[g]
                                     /\ Retire(w, f).status[g] = w.status[g]
    BY <2>4, RetireFacts
  <2> HIDE DEF r
  <2>6. r.ok /\ r.frame = to /\ r.mem = Retire(w, f)
    BY <2>1
  <2>7. QED
    BY <1>3, <2>2, <2>3, <2>4, <2>5, <2>6 DEF r
<1>4. QED
  BY <1>1, <1>2, <1>3
=============================================================================
