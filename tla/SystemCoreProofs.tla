-------------------------- MODULE SystemCoreProofs --------------------------
(***************************************************************************)
(* The invariants of module SystemCore, for every number of frames and of  *)
(* processes, every page size and tolerance, and any bit flips: CoreInv is *)
(* inductive.  The argument about ownership is made once, on a memory m    *)
(* and a page table pg (Own), and the actions only say which operations    *)
(* they apply to them.                                                     *)
(***************************************************************************)
EXTENDS SystemCore, FramesProofs, FiniteSetTheorems

(* The three ownership invariants of a memory and a page table.            *)
Own(m, pg) ==
  /\ \A p \in Procs : m.owner[pg[p]] = p \/ Retired(m, pg[p])
  /\ \A p, q \in Procs : pg[p] = pg[q] => p = q
  /\ \A p \in Procs : \A f, g \in Frame :
       m.owner[f] = p /\ m.owner[g] = p => f = g

(* Of the kernel core, Own is its three ownership invariants.              *)
LEMMA OwnIsOwnership ==
  Own(mem, page) <=> PagesAreOwnedOrRetired /\ NoFrameIsShared /\ OneFramePerProcess
BY DEF Own, PagesAreOwnedOrRetired, NoFrameIsShared, OneFramePerProcess

(* The addresses and bytes of a process's steps are in range.              *)
LEMMA StepTypes ==
  ASSUME NEW n \in Nat
  PROVE  StepOffset(n) \in Offset /\ StepValue(n) \in Byte /\ ReadOffset(n) \in Offset
<1>1. \A k \in Nat : (k * 7) % PageSize \in 0 .. PageSize - 1
  BY FramesAssumption
<1>2. (n * 17) % 256 \in 0 .. 255
  OBVIOUS
<1>3. n > 1 => n - 1 \in Nat
  OBVIOUS
<1>4. QED
  BY <1>1, <1>2, <1>3 DEF StepOffset, StepValue, ReadOffset, Offset, Byte

(* Operations that leave the map alone and lift no quarantine.             *)
LEMMA OwnKept ==
  ASSUME NEW m \in Memory, NEW w \in Memory, NEW pg \in [Procs -> Frame],
         Own(m, pg), w.owner = m.owner,
         \A g \in Frame : ~Usable(m, g) => ~Usable(w, g)
  PROVE  Own(w, pg)
BY DEF Own, Retired, Owned

(* A relocation keeps the ownership invariants, whether the page table of  *)
(* the frame's holder is updated (the dispatcher) or not (the scrubber).   *)
LEMMA RelocationKeepsOwn ==
  ASSUME NEW m \in Memory, NEW f \in Frame, NEW pg \in [Procs -> Frame], Own(m, pg)
  PROVE  LET r == RelocateAndQuarantine(m, f)
         IN  /\ Own(r.mem, pg)
             /\ \A p \in Procs : r.ok /\ pg[p] = f /\ m.owner[f] = p =>
                  Own(r.mem, [pg EXCEPT ![p] = r.frame])
<1> DEFINE r == RelocateAndQuarantine(m, f)
<1>1. /\ r.mem \in Memory /\ r.frame \in Frame /\ r.ok \in BOOLEAN
      /\ ~Owned(m, f) => ~r.ok /\ r.mem = m
      /\ Owned(m, f) => Retired(r.mem, f)
      /\ \A g \in Frame : g # f /\ (r.ok => g # r.frame) =>
           r.mem.owner[g] = m.owner[g] /\ r.mem.status[g] = m.status[g]
      /\ r.ok => /\ r.frame # f /\ ~Owned(m, r.frame) /\ Usable(m, r.frame)
                 /\ r.mem.owner[r.frame] = m.owner[f]
  BY RelocationFacts
<1> HIDE DEF r
<1>2. CASE ~Owned(m, f)
  BY <1>1, <1>2 DEF r
<1>3. CASE Owned(m, f)
  <2>1. Retired(r.mem, f) /\ r.mem.owner[f] = NoOwner
    BY <1>1, <1>3 DEF Retired, Owned
  <2>2. \A p \in Procs : NoOwner # p
    BY DEF Procs, NoOwner
  <2>3. \A p \in Procs : r.ok => pg[p] # r.frame
    BY <1>1, <2>2 DEF Own, Retired, Owned
  <2>4. \A p \in Procs : r.mem.owner[pg[p]] = p \/ Retired(r.mem, pg[p])
    <3> SUFFICES ASSUME NEW p \in Procs
                 PROVE  r.mem.owner[pg[p]] = p \/ Retired(r.mem, pg[p])
      OBVIOUS
    <3>1. CASE pg[p] = f
      BY <2>1, <3>1
    <3>2. CASE pg[p] # f
      BY <1>1, <2>3, <3>2 DEF Own, Retired, Usable, Owned
    <3>3. QED
      BY <3>1, <3>2
  <2>5. \A p \in Procs : \A g, h \in Frame :
          r.mem.owner[g] = p /\ r.mem.owner[h] = p => g = h
    <3> SUFFICES ASSUME NEW p \in Procs, NEW g \in Frame, NEW h \in Frame,
                        r.mem.owner[g] = p, r.mem.owner[h] = p
                 PROVE  g = h
      OBVIOUS
    <3>1. g # f /\ h # f
      BY <2>1, <2>2
    <3>2. CASE r.ok /\ (g = r.frame \/ h = r.frame)
      <4>1. m.owner[f] = p
        BY <1>1, <3>2
      <4>2. \A k \in Frame : k # f /\ k # r.frame => m.owner[k] # p
        BY <4>1 DEF Own
      <4>3. QED
        BY <1>1, <3>1, <3>2, <4>2
    <3>3. CASE ~(r.ok /\ (g = r.frame \/ h = r.frame))
      BY <1>1, <3>1, <3>3 DEF Own
    <3>4. QED
      BY <3>2, <3>3
  <2>6. Own(r.mem, pg)
    BY <2>4, <2>5 DEF Own
  <2>7. ASSUME NEW p \in Procs, r.ok, pg[p] = f, m.owner[f] = p
        PROVE  Own(r.mem, [pg EXCEPT ![p] = r.frame])
    <3> DEFINE pg2 == [pg EXCEPT ![p] = r.frame]
    <3>1. pg2[p] = r.frame /\ \A q \in Procs \ {p} : pg2[q] = pg[q]
      OBVIOUS
    <3>2. r.mem.owner[pg2[p]] = p
      BY <1>1, <2>7, <3>1
    <3>3. \A q, s \in Procs : pg2[q] = pg2[s] => q = s
      BY <2>3, <2>7, <3>1 DEF Own
    <3>4. QED
      BY <2>4, <2>5, <3>1, <3>2, <3>3 DEF Own
  <2>8. QED
    BY <2>6, <2>7 DEF r
<1>4. QED
  BY <1>2, <1>3 DEF r
-----------------------------------------------------------------------------
(* Bootstrap establishes the invariant.                                    *)
LEMMA InitCoreInv == Init => CoreInv
<1> SUFFICES ASSUME Init PROVE CoreInv
  OBVIOUS
<1> USE FramesAssumption, CoreAssumption
<1>1. BlankPage \in [Offset -> Cell]
  BY DEF BlankPage, Cell, Byte, MaxNoise
<1>2. BootOwner \in [Frame -> Nat \cup {NoOwner}]
  BY DEF BootOwner, Frame, KernelPid
<1>3. mem \in Memory
  BY <1>1, <1>2 DEF Init, Memory, PageStatus
<1>4. page \in [Procs -> Frame] /\ step \in [Procs -> Nat]
  BY DEF Init, Procs, Frame
<1>5. TypeOK
  BY <1>3, <1>4 DEF Init, TypeOK, Metrics, Offset, NoReport, NoVote, NoFrame, Frame
<1>6. \A p \in Procs : mem.owner[page[p]] = p
  BY <1>4 DEF Init, BootOwner, Procs, Frame
<1>7. \A p, q \in Procs : page[p] = page[q] => p = q
  BY DEF Init, Procs
<1>8. \A p \in Procs : \A f \in Frame : mem.owner[f] = p => f = p - 1
  BY DEF Init, BootOwner, Procs, Frame, KernelPid, NoOwner
<1>9. OneFramePerProcess
  BY <1>8 DEF OneFramePerProcess, Procs, Frame
<1>10. QED
  BY <1>5, <1>6, <1>7, <1>9
     DEF CoreInv, PagesAreOwnedOrRetired, NoFrameIsShared, ScrubbedFrameIsOwned,
         SweepProgress, SweepLeavesMemoryClean, Init

(* Outside a sweep and its end the sweep's invariants say nothing.         *)
LEMMA NoSweepNoDebt ==
  phase' \notin {"sweep", "orbital"} =>
    ScrubbedFrameIsOwned' /\ SweepProgress' /\ SweepLeavesMemoryClean'
BY DEF ScrubbedFrameIsOwned, SweepProgress, SweepLeavesMemoryClean

(* The same of the next state.                                             *)
LEMMA OwnIsOwnershipNext ==
  Own(mem', page') <=>
    PagesAreOwnedOrRetired' /\ NoFrameIsShared' /\ OneFramePerProcess'
BY DEF Own, PagesAreOwnedOrRetired, NoFrameIsShared, OneFramePerProcess

(* A bit flip between two ticks keeps the invariant.                       *)
LEMMA InjectInv ==
  ASSUME CoreInv, NEW f \in Frame, NEW o \in Offset, InjectMemoryFlip(f, o)
  PROVE  CoreInv'
<1>1. TypeOK /\ Own(mem, page)
  BY OwnIsOwnership DEF CoreInv
<1>2. PICK n \in FlipTo(mem, f, o) : mem' = InjectBitFlip(mem, f, o, n)
  BY DEF InjectMemoryFlip
<1>3. mem' \in Memory /\ mem'.owner = mem.owner /\ mem'.status = mem.status
  BY <1>1, <1>2, InjectBitFlipFacts DEF TypeOK
<1>4. TypeOK'
  BY <1>1, <1>3 DEF TypeOK, InjectMemoryFlip, procVars, sweepVars
<1>5. Own(mem', page')
  BY <1>1, <1>3, OwnKept DEF TypeOK, InjectMemoryFlip, procVars, Usable
<1>6. phase' = "idle"
  BY DEF InjectMemoryFlip
<1>7. QED
  BY <1>4, <1>5, <1>6, NoSweepNoDebt, OwnIsOwnershipNext DEF CoreInv

(* So does the start of a tick.                                            *)
LEMMA BeginTickInv ==
  ASSUME CoreInv, BeginTick
  PROVE  CoreInv'
<1>1. TypeOK'
  BY CoreAssumption DEF CoreInv, TypeOK, BeginTick, procVars, sweepVars
<1>2. PagesAreOwnedOrRetired' /\ NoFrameIsShared' /\ OneFramePerProcess'
  BY DEF CoreInv, PagesAreOwnedOrRetired, NoFrameIsShared, OneFramePerProcess,
         BeginTick, procVars
<1>3. phase' = "step"
  BY DEF BeginTick
<1>4. QED
  BY <1>1, <1>2, <1>3, NoSweepNoDebt DEF CoreInv

(* A process's own frame, when usable, is the one the map gives it.        *)
LEMMA UsablePageIsOwned ==
  ASSUME CoreInv, NEW p \in Procs, Usable(mem, page[p])
  PROVE  mem.owner[page[p]] = p /\ Owned(mem, page[p])
BY DEF CoreInv, PagesAreOwnedOrRetired, Retired, Owned, Procs, NoOwner

(* A step whose write is refused relocates and keeps it.                   *)
LEMMA StepWriteFaultInv ==
  ASSUME CoreInv, NEW p \in Procs, StepWriteFault(p)
  PROVE  CoreInv'
<1> DEFINE n == step[p] + 1
           f == page[p]
           r == RelocateAndQuarantine(mem, f)
<1>1. TypeOK /\ Own(mem, page)
  BY OwnIsOwnership DEF CoreInv
<1>2. n \in Nat /\ f \in Frame /\ mem \in Memory
  BY <1>1 DEF TypeOK
<1>3. StepOffset(n) \in Offset /\ StepValue(n) \in Byte
  BY <1>2, StepTypes
<1>4. r.mem \in Memory /\ r.frame \in Frame /\ r.ok \in BOOLEAN
  BY <1>2, RelocationFacts
<1>5. r.ok => Owned(mem, f)
  BY <1>2, RelocationFacts
<1>6. r.ok => mem.owner[f] = p
  BY <1>1, <1>5 DEF Own, Retired
<1>7. /\ mem' = IF r.ok THEN WriteByte(r.mem, r.frame, StepOffset(n), StepValue(n))
                ELSE r.mem
      /\ page' = IF r.ok THEN [page EXCEPT ![p] = r.frame] ELSE page
  BY DEF StepWriteFault, HandleFault
<1>8. Own(r.mem, page) /\ (r.ok => Own(r.mem, [page EXCEPT ![p] = r.frame]))
  <2>1. page \in [Procs -> Frame]
    BY <1>1 DEF TypeOK
  <2>2. QED
    BY <1>1, <1>2, <1>6, <2>1, RelocationKeepsOwn
<1> HIDE DEF r
<1>9. Own(r.mem, page') /\ page' \in [Procs -> Frame]
  BY <1>1, <1>4, <1>7, <1>8 DEF TypeOK
<1>10. /\ mem' \in Memory /\ mem'.owner = r.mem.owner
       /\ \A g \in Frame : ~Usable(r.mem, g) => ~Usable(mem', g)
  <2>1. CASE r.ok
    BY <1>3, <1>4, <1>7, <2>1, WriteByteFacts DEF Usable
  <2>2. CASE ~r.ok
    BY <1>4, <1>7, <2>2
  <2>3. QED
    BY <2>1, <2>2
<1>11. Own(mem', page')
  BY <1>4, <1>9, <1>10, OwnKept
<1>12. /\ phase' = "step" /\ turn' \in 1 .. NumProcs + 1
       /\ outcome' \in [Procs -> {"none", "ok", "swapped", "failed"}]
       /\ step' = step
  BY <1>1, CoreAssumption DEF StepWriteFault, EndOfStep, TypeOK, Procs
<1>13. UNCHANGED <<sweepVars, metrics, orbit, flips>>
  BY DEF StepWriteFault, EndOfStep
<1>14. TypeOK'
  BY <1>1, <1>9, <1>10, <1>12, <1>13 DEF TypeOK, sweepVars
<1>15. QED
  BY <1>11, <1>12, <1>14, NoSweepNoDebt, OwnIsOwnershipNext DEF CoreInv

(* A step that completes keeps it.                                         *)
LEMMA StepDoneInv ==
  ASSUME CoreInv, NEW p \in Procs, StepDone(p)
  PROVE  CoreInv'
<1> DEFINE n == step[p] + 1
           f == page[p]
           w == WriteByte(mem, f, StepOffset(n), StepValue(n))
<1>1. TypeOK /\ Own(mem, page)
  BY OwnIsOwnership DEF CoreInv
<1>2. n \in Nat /\ f \in Frame /\ mem \in Memory
  BY <1>1 DEF TypeOK
<1>3. StepOffset(n) \in Offset /\ StepValue(n) \in Byte /\ ReadOffset(n) \in Offset
  BY <1>2, StepTypes
<1>4. w \in Memory /\ w.owner = mem.owner /\ w.status = mem.status
  BY <1>2, <1>3, WriteByteFacts
<1>5. mem' = ReadByte(w, f, ReadOffset(n)) /\ page' = page
  BY DEF StepDone
<1> HIDE DEF w
<1>6. /\ mem' \in Memory /\ mem'.owner = mem.owner
      /\ \A g \in Frame : ~Usable(mem, g) => ~Usable(mem', g)
  BY <1>2, <1>3, <1>4, <1>5, ReadByteFacts DEF Usable
<1>7. Own(mem', page')
  BY <1>1, <1>2, <1>5, <1>6, OwnKept DEF TypeOK
<1>8. /\ phase' = "step" /\ turn' \in 1 .. NumProcs + 1
      /\ outcome' \in [Procs -> {"none", "ok", "swapped", "failed"}]
      /\ step' \in [Procs -> Nat]
  BY <1>1, <1>2, CoreAssumption DEF StepDone, EndOfStep, TypeOK, Procs
<1>9. UNCHANGED <<sweepVars, metrics, orbit, flips>>
  BY DEF StepDone, EndOfStep
<1>10. TypeOK'
  BY <1>1, <1>5, <1>6, <1>8, <1>9 DEF TypeOK, sweepVars
<1>11. QED
  BY <1>7, <1>8, <1>10, NoSweepNoDebt, OwnIsOwnershipNext DEF CoreInv

(* A step whose read faults relocates and keeps it.                        *)
LEMMA StepReadFaultInv ==
  ASSUME CoreInv, NEW p \in Procs, StepReadFault(p)
  PROVE  CoreInv'
<1> DEFINE n == step[p] + 1
           f == page[p]
           w == WriteByte(mem, f, StepOffset(n), StepValue(n))
           d == ReadByte(w, f, ReadOffset(n))
           r == RelocateAndQuarantine(d, f)
<1>1. TypeOK /\ Own(mem, page)
  BY OwnIsOwnership DEF CoreInv
<1>2. n \in Nat /\ f \in Frame /\ mem \in Memory /\ page \in [Procs -> Frame]
  BY <1>1 DEF TypeOK
<1>3. StepOffset(n) \in Offset /\ StepValue(n) \in Byte /\ ReadOffset(n) \in Offset
  BY <1>2, StepTypes
<1>4. w \in Memory /\ w.owner = mem.owner /\ w.status = mem.status
  BY <1>2, <1>3, WriteByteFacts
<1>5. mem.owner[f] = p
  BY UsablePageIsOwned DEF StepReadFault
<1>6. /\ mem' = r.mem
      /\ page' = IF r.ok THEN [page EXCEPT ![p] = r.frame] ELSE page
      /\ step' = IF r.ok THEN [step EXCEPT ![p] = n] ELSE step
  BY DEF StepReadFault, HandleFault
<1> HIDE DEF w
<1>7. /\ d \in Memory /\ d.owner = mem.owner
      /\ \A g \in Frame : ~Usable(mem, g) => ~Usable(d, g)
  BY <1>2, <1>3, <1>4, ReadByteFacts DEF Usable
<1> HIDE DEF d
<1>8. Own(d, page)
  BY <1>1, <1>2, <1>7, OwnKept
<1>9. r.mem \in Memory /\ r.frame \in Frame /\ r.ok \in BOOLEAN
  BY <1>2, <1>7, RelocationFacts
<1>10. Own(r.mem, page) /\ (r.ok => Own(r.mem, [page EXCEPT ![p] = r.frame]))
  BY <1>2, <1>5, <1>7, <1>8, RelocationKeepsOwn
<1> HIDE DEF r
<1>11. Own(mem', page') /\ page' \in [Procs -> Frame] /\ mem' \in Memory
  BY <1>2, <1>6, <1>9, <1>10
<1>12. step' \in [Procs -> Nat]
  BY <1>1, <1>2, <1>6, <1>9 DEF TypeOK
<1>13. /\ phase' = "step" /\ turn' \in 1 .. NumProcs + 1
       /\ outcome' \in [Procs -> {"none", "ok", "swapped", "failed"}]
  BY <1>1, CoreAssumption DEF StepReadFault, EndOfStep, TypeOK, Procs
<1>14. UNCHANGED <<sweepVars, metrics, orbit, flips>>
  BY DEF StepReadFault, EndOfStep
<1>15. TypeOK'
  BY <1>1, <1>11, <1>12, <1>13, <1>14 DEF TypeOK, sweepVars
<1>16. QED
  BY <1>11, <1>13, <1>15, NoSweepNoDebt, OwnIsOwnershipNext DEF CoreInv
-----------------------------------------------------------------------------
(* During a sweep the page table does not move: ownership, typing of the   *)
(* rest and the sweep's two invariants are all there is to show.           *)
LEMMA BeginSweepInv ==
  ASSUME CoreInv, BeginSweep
  PROVE  CoreInv'
<1>1. TypeOK'
  BY FramesAssumption
     DEF CoreInv, TypeOK, Metrics, BeginSweep, procVars, Scrubbable, NoReport, Offset
<1>2. PagesAreOwnedOrRetired' /\ NoFrameIsShared' /\ OneFramePerProcess'
  BY DEF CoreInv, PagesAreOwnedOrRetired, NoFrameIsShared, OneFramePerProcess,
         BeginSweep, procVars
<1>3. /\ phase' = "sweep" /\ mem' = mem
      /\ todo' = Scrubbable /\ cur' = NoFrame
  BY DEF BeginSweep
<1>4. Scrubbable' = Scrubbable
  BY <1>3 DEF Scrubbable
<1>5. ScrubbedFrameIsOwned' /\ SweepProgress' /\ SweepLeavesMemoryClean'
  BY <1>3, <1>4 DEF ScrubbedFrameIsOwned, SweepProgress, SweepLeavesMemoryClean
<1>6. QED
  BY <1>1, <1>2, <1>5 DEF CoreInv

(* Going on to the next frame loses none that needs scrubbing.             *)
LEMMA ScrubNextFrameInv ==
  ASSUME CoreInv, ScrubNextFrame
  PROVE  CoreInv'
<1> DEFINE rest == todo \cap Scrubbable
<1>1. rest \in SUBSET Nat /\ rest # {}
  BY FramesAssumption DEF ScrubNextFrame, Scrubbable, Frame
<1>2. cur' \in rest /\ \A g \in rest : cur' <= g
  BY <1>1, LowestIsMember DEF ScrubNextFrame
<1>3. /\ phase' = "sweep" /\ mem' = mem /\ at' = 0
      /\ todo' = { g \in todo : g > cur' } /\ cur = NoFrame /\ phase = "sweep"
  BY DEF ScrubNextFrame
<1> HIDE DEF rest
<1>4. TypeOK'
  BY <1>2, <1>3, FramesAssumption
     DEF CoreInv, TypeOK, ScrubNextFrame, procVars, rest, Scrubbable, Offset
<1>5. PagesAreOwnedOrRetired' /\ NoFrameIsShared' /\ OneFramePerProcess'
  BY DEF CoreInv, PagesAreOwnedOrRetired, NoFrameIsShared, OneFramePerProcess,
         ScrubNextFrame, procVars
<1>6. ScrubbedFrameIsOwned'
  BY <1>2, <1>3 DEF ScrubbedFrameIsOwned, rest, Scrubbable
<1>7. SweepProgress'
  <2> SUFFICES ASSUME NEW g \in Scrubbable, NEW o \in Offset,
                      mem.cells[g][o].noise # 0
               PROVE  g \in todo' \/ (g = cur' /\ o >= at')
    BY <1>3 DEF SweepProgress, Scrubbable
  <2>1. g # NoFrame
    BY FramesAssumption DEF Scrubbable, Frame, NoFrame
  <2>2. g \in todo
    BY <1>3, <2>1 DEF CoreInv, SweepProgress
  <2>3. cur' <= g
    BY <1>2, <2>2 DEF rest
  <2>4. cur' \in Nat /\ g \in Nat /\ o >= 0
    BY <1>2, FramesAssumption DEF rest, Scrubbable, Frame, Offset
  <2>5. QED
    BY <1>3, <2>2, <2>3, <2>4
<1>8. SweepLeavesMemoryClean'
  BY <1>3 DEF SweepLeavesMemoryClean
<1>9. QED
  BY <1>4, <1>5, <1>6, <1>7, <1>8 DEF CoreInv

(* A word that was read is clean.                                          *)
LEMMA ScrubWordInv ==
  ASSUME CoreInv, ScrubWord
  PROVE  CoreInv'
<1>1. TypeOK /\ Own(mem, page)
  BY OwnIsOwnership DEF CoreInv
<1>2. mem \in Memory /\ cur \in Frame /\ at \in Offset /\ page \in [Procs -> Frame]
  BY <1>1 DEF TypeOK, ScrubWord
<1>3. /\ phase = "sweep" /\ phase' = "sweep" /\ todo' = todo /\ page' = page
      /\ mem' = ReadByte(mem, cur, at) /\ ~ReadFaults(mem, cur, at)
      /\ IF at + 1 = PageSize THEN cur' = NoFrame /\ at' = 0
         ELSE at' = at + 1 /\ cur' = cur
  BY DEF ScrubWord, procVars
<1>4. /\ mem' \in Memory /\ mem'.owner = mem.owner
      /\ \A g \in Frame : ~Usable(mem, g) => ~Usable(mem', g)
      /\ \A g \in Frame : g # cur => mem'.cells[g] = mem.cells[g]
      /\ \A q \in Offset : mem.cells[cur][q].noise = 0 => mem'.cells[cur][q].noise = 0
      /\ mem'.cells[cur][at].noise = 0
  BY <1>2, <1>3, ReadByteFacts
<1>5. Own(mem', page')
  BY <1>1, <1>2, <1>3, <1>4, OwnKept
<1>6. at' \in Offset
  BY <1>2, <1>3, FramesAssumption DEF Offset
<1>7. report' \in [corrections : Nat, relocations : Nat]
  BY <1>1 DEF ScrubWord, TypeOK
<1>8. TypeOK'
  BY <1>1, <1>2, <1>3, <1>4, <1>6, <1>7 DEF TypeOK, ScrubWord, procVars
<1>9. ScrubbedFrameIsOwned'
  BY <1>3, <1>4 DEF CoreInv, ScrubbedFrameIsOwned, Owned
<1>10. SweepProgress'
  <2> SUFFICES ASSUME NEW g \in Frame, Owned(mem', g), Usable(mem', g),
                      NEW o \in Offset, mem'.cells[g][o].noise # 0
               PROVE  g \in todo \/ (g = cur' /\ o >= at')
    BY <1>3 DEF SweepProgress, Scrubbable
  <2>1. g \in Scrubbable
    BY <1>4 DEF Scrubbable, Owned
  <2>2. mem.cells[g][o].noise # 0
    BY <1>4
  <2>3. g \in todo \/ (g = cur /\ o >= at)
    BY <1>3, <2>1, <2>2 DEF CoreInv, SweepProgress
  <2>4. g = cur => o # at
    BY <1>4
  <2>5. o >= at /\ o # at => at + 1 # PageSize /\ o >= at + 1
    BY <1>2, FramesAssumption DEF Offset
  <2>6. QED
    BY <1>3, <2>3, <2>4, <2>5
<1>11. SweepLeavesMemoryClean'
  BY <1>3 DEF SweepLeavesMemoryClean
<1>12. QED
  BY <1>5, <1>8, <1>9, <1>10, <1>11, OwnIsOwnershipNext DEF CoreInv

(* Leaving a page at a fault leaves no flipped bit in use behind.          *)
LEMMA ScrubFaultInv ==
  ASSUME CoreInv, ScrubFault
  PROVE  CoreInv'
<1> DEFINE d == ReadByte(mem, cur, at)
           r == RelocateAndQuarantine(d, cur)
<1>1. TypeOK /\ Own(mem, page)
  BY OwnIsOwnership DEF CoreInv
<1>2. mem \in Memory /\ cur \in Frame /\ at \in Offset /\ page \in [Procs -> Frame]
  BY <1>1 DEF TypeOK, ScrubFault
<1>3. /\ phase = "sweep" /\ phase' = "sweep" /\ todo' = todo /\ page' = page
      /\ mem' = r.mem /\ cur' = NoFrame /\ at' = 0
  BY DEF ScrubFault, procVars
<1>4. /\ d \in Memory /\ d.owner = mem.owner
      /\ \A g \in Frame : ~Usable(mem, g) => ~Usable(d, g)
      /\ \A g \in Frame : g # cur => d.cells[g] = mem.cells[g]
  BY <1>2, ReadByteFacts
<1>5. Owned(d, cur)
  BY <1>3, <1>4 DEF CoreInv, ScrubbedFrameIsOwned, ScrubFault, Owned
<1> HIDE DEF d
<1>6. Own(d, page)
  BY <1>1, <1>2, <1>4, OwnKept
<1>7. Own(r.mem, page)
  BY <1>2, <1>4, <1>6, RelocationKeepsOwn
<1>8. /\ r.mem \in Memory /\ r.ok \in BOOLEAN /\ r.frame \in Frame
      /\ Retired(r.mem, cur)
      /\ \A g \in Frame : g # cur /\ (r.ok => g # r.frame) =>
           /\ r.mem.owner[g] = d.owner[g]
           /\ r.mem.status[g] = d.status[g]
           /\ r.mem.cells[g] = d.cells[g]
      /\ r.ok => \A o \in Offset : r.mem.cells[r.frame][o] = Salvage(d.cells[cur][o])
  BY <1>2, <1>4, <1>5, RelocationFacts
<1>9. report' \in [corrections : Nat, relocations : Nat]
  BY <1>1 DEF ScrubFault, TypeOK
<1> HIDE DEF r
<1>10. TypeOK'
  BY <1>1, <1>2, <1>3, <1>8, <1>9, FramesAssumption
     DEF TypeOK, ScrubFault, procVars, Offset
<1>11. ScrubbedFrameIsOwned'
  BY <1>3 DEF ScrubbedFrameIsOwned
<1>12. SweepProgress'
  <2> SUFFICES ASSUME NEW g \in Frame, Owned(mem', g), Usable(mem', g),
                      NEW o \in Offset, mem'.cells[g][o].noise # 0
               PROVE  g \in todo
    BY <1>3 DEF SweepProgress, Scrubbable
  <2>1. g # cur
    BY <1>3, <1>8 DEF Retired
  <2>2. r.ok => g # r.frame
    <3>1. \A c : Salvage(c).noise = 0
      BY DEF Salvage
    <3>2. r.ok => r.mem.cells[r.frame][o].noise = 0
      BY <1>8, <3>1
    <3>3. QED
      BY <1>3, <3>2
  <2>3. g \in Scrubbable /\ mem.cells[g][o].noise # 0
    BY <1>3, <1>4, <1>8, <2>1, <2>2 DEF Scrubbable, Owned, Usable
  <2>4. QED
    BY <1>3, <2>1, <2>3 DEF CoreInv, SweepProgress
<1>13. SweepLeavesMemoryClean'
  BY <1>3 DEF SweepLeavesMemoryClean
<1>14. QED
  BY <1>3, <1>7, <1>10, <1>11, <1>12, <1>13, OwnIsOwnershipNext DEF CoreInv

(* When nothing is left to do, memory is clean.                            *)
LEMMA EndSweepInv ==
  ASSUME CoreInv, EndSweep
  PROVE  CoreInv'
<1>1. TypeOK'
  <2>1. report.corrections \in Nat /\ report.relocations \in Nat /\ metrics \in Metrics
    BY DEF CoreInv, TypeOK
  <2> DEFINE c == metrics.corrections + report.corrections
             q == metrics.quarantined + report.relocations
             l == metrics.relocated + report.relocations
  <2>2. c \in Nat /\ q \in Nat /\ l \in Nat
    BY <2>1 DEF Metrics
  <2>3. metrics' = [metrics EXCEPT !.corrections = c, !.quarantined = q, !.relocated = l]
    BY DEF EndSweep
  <2> HIDE DEF c, q, l
  <2>4. metrics' \in Metrics
    BY <2>1, <2>2, <2>3 DEF Metrics
  <2>5. TypeOK /\ todo' = {} /\ phase' = "orbital"
        /\ UNCHANGED <<mem, page, step, outcome, turn, cur, at, report, orbit, flips>>
    BY DEF CoreInv, EndSweep, procVars
  <2>6. QED
    BY <2>4, <2>5 DEF TypeOK
<1>2. PagesAreOwnedOrRetired' /\ NoFrameIsShared' /\ OneFramePerProcess'
  BY DEF CoreInv, PagesAreOwnedOrRetired, NoFrameIsShared, OneFramePerProcess,
         EndSweep, procVars
<1>3. /\ phase = "sweep" /\ phase' = "orbital" /\ mem' = mem
      /\ cur = NoFrame /\ todo \cap Scrubbable = {}
  BY DEF EndSweep
<1>4. SweepLeavesMemoryClean'
  <2> SUFFICES ASSUME NEW g \in Scrubbable, NEW o \in Offset
               PROVE  mem.cells[g][o].noise = 0
    BY <1>3 DEF SweepLeavesMemoryClean, Scrubbable
  <2>1. g \notin todo /\ g # cur
    BY <1>3, FramesAssumption DEF Scrubbable, Frame, NoFrame
  <2>2. QED
    BY <1>3, <2>1 DEF CoreInv, SweepProgress
<1>5. ScrubbedFrameIsOwned' /\ SweepProgress'
  BY <1>3 DEF ScrubbedFrameIsOwned, SweepProgress
<1>6. QED
  BY <1>1, <1>2, <1>4, <1>5 DEF CoreInv

(* What the voter makes of two or three equal results: that result.        *)
LEMMA VoteMasksOneFault ==
  ASSUME NEW v, NEW task, NEW i \in 0 .. 2, \A j \in 0 .. 2 : j # i => task[j] = v
  PROVE  /\ ExecuteRedundant(task).value = v
         /\ ExecuteRedundant(task).status
              = (IF task[i] = v THEN "Perfect" ELSE "Corrected")
         /\ ExecuteRedundant(task).faulty = (IF task[i] = v THEN NoRunner ELSE i)
<1>1. CASE i = 0
  BY <1>1 DEF ExecuteRedundant, Vote
<1>2. CASE i = 1
  BY <1>2 DEF ExecuteRedundant, Vote
<1>3. CASE i = 2
  BY <1>3 DEF ExecuteRedundant, Vote
<1>4. QED
  BY <1>1, <1>2, <1>3

(* Whether or not runner 1 is corrupted, the vote yields 22500.            *)
LEMMA OrbitalVote ==
  ASSUME NEW op \in Nat
  PROVE  /\ ExecuteRedundant(Runner(op)).value = DeltaV
         /\ ExecuteRedundant(Runner(op)).status
              = (IF AluFlip(op) THEN "Corrected" ELSE "Perfect")
<1>1. \A j \in 0 .. 2 : j # 1 => Runner(op)[j] = DeltaV
  BY DEF Runner
<1>2. Runner(op)[1] = (IF AluFlip(op) THEN DeltaV - 32 ELSE DeltaV)
  BY DEF Runner
<1>3. DeltaV - 32 # DeltaV /\ 1 \in 0 .. 2
  BY DEF DeltaV
<1>4. QED
  BY <1>1, <1>2, <1>3, VoteMasksOneFault

(* The calculation touches no memory.                                      *)
LEMMA OrbitalInv ==
  ASSUME CoreInv, ExecuteOrbitalCalculation
  PROVE  CoreInv'
<1>1. orbit'.value \in Nat
  BY OrbitalVote DEF CoreInv, TypeOK, Metrics, ExecuteOrbitalCalculation, DeltaV
<1>2. metrics' \in Metrics
  <2> DEFINE op == metrics.tmrOps + 1
             c == IF AluFlip(op) THEN metrics.tmrCorrections + 1 ELSE metrics.tmrCorrections
  <2>1. metrics \in Metrics
    BY DEF CoreInv, TypeOK
  <2>2. op \in Nat /\ c \in Nat
    BY <2>1 DEF Metrics
  <2>3. metrics' = [metrics EXCEPT !.tmrOps = op, !.tmrCorrections = c]
    BY DEF ExecuteOrbitalCalculation
  <2> HIDE DEF op, c
  <2>4. QED
    BY <2>1, <2>2, <2>3 DEF Metrics
<1>3. TypeOK'
  BY <1>1, <1>2 DEF CoreInv, TypeOK, ExecuteOrbitalCalculation, procVars, sweepVars
<1>4. PagesAreOwnedOrRetired' /\ NoFrameIsShared' /\ OneFramePerProcess'
  BY DEF CoreInv, PagesAreOwnedOrRetired, NoFrameIsShared, OneFramePerProcess,
         ExecuteOrbitalCalculation, procVars
<1>5. phase' = "idle"
  BY DEF ExecuteOrbitalCalculation
<1>6. QED
  BY <1>3, <1>4, <1>5, NoSweepNoDebt DEF CoreInv
-----------------------------------------------------------------------------
(* Every step of the kernel core, and a stutter, keeps the invariant.      *)
LEMMA NextCoreInv == CoreInv /\ [Next]_vars => CoreInv'
<1> SUFFICES ASSUME CoreInv, [Next]_vars PROVE CoreInv'
  OBVIOUS
<1>1. ASSUME NEW f \in Frame, NEW o \in Offset, InjectMemoryFlip(f, o) PROVE CoreInv'
  BY <1>1, InjectInv
<1>2. CASE BeginTick
  BY <1>2, BeginTickInv
<1>3. ASSUME NEW p \in Procs, ExecuteStep(p) PROVE CoreInv'
  BY <1>3, StepWriteFaultInv, StepDoneInv, StepReadFaultInv DEF ExecuteStep
<1>4. CASE BeginSweep
  BY <1>4, BeginSweepInv
<1>5. CASE ScrubNextFrame
  BY <1>5, ScrubNextFrameInv
<1>6. CASE ScrubWord
  BY <1>6, ScrubWordInv
<1>7. CASE ScrubFault
  BY <1>7, ScrubFaultInv
<1>8. CASE EndSweep
  BY <1>8, EndSweepInv
<1>9. CASE ExecuteOrbitalCalculation
  BY <1>9, OrbitalInv
<1>10. CASE UNCHANGED vars
  BY <1>10
     DEF vars, procVars, sweepVars, CoreInv, TypeOK, PagesAreOwnedOrRetired,
         NoFrameIsShared, OneFramePerProcess, ScrubbedFrameIsOwned, SweepProgress,
         SweepLeavesMemoryClean, Scrubbable
<1>11. QED
  BY <1>1, <1>2, <1>3, <1>4, <1>5, <1>6, <1>7, <1>8, <1>9, <1>10 DEF Next

(* The inductive invariant holds of every behaviour.                       *)
THEOREM CoreInvariance == Spec => []CoreInv
<1>1. QED
  BY InitCoreInv, NextCoreInv, PTL DEF Spec

(* The state of the kernel core keeps its types: frame counters stay under *)
(* the tolerance, page tables hold frame numbers, the sweep stays inside   *)
(* a page.                                                                 *)
THEOREM TypeCorrectness == Spec => []TypeOK
<1>1. CoreInv => TypeOK
  BY DEF CoreInv
<1>2. QED
  BY <1>1, CoreInvariance, PTL

(* The isolation of the processes, whatever flips arrive and whatever the  *)
(* dispatcher and the scrubber relocate: the frame a process works on is   *)
(* its own in the allocation map or retired.                               *)
THEOREM ProcessesAreIsolated == Spec => []PagesAreOwnedOrRetired
<1>1. CoreInv => PagesAreOwnedOrRetired
  BY DEF CoreInv
<1>2. QED
  BY <1>1, CoreInvariance, PTL

(* No relocation, by a step or by a sweep, leaves two processes' page      *)
(* tables with the same frame, a retired one included.                     *)
THEOREM FramesAreNotShared == Spec => []NoFrameIsShared
<1>1. CoreInv => NoFrameIsShared
  BY DEF CoreInv
<1>2. QED
  BY <1>1, CoreInvariance, PTL

(* Relocations never leave a process with two frames.                      *)
THEOREM RelocationsLeakNothing == Spec => []OneFramePerProcess
<1>1. CoreInv => OneFramePerProcess
  BY DEF CoreInv
<1>2. QED
  BY <1>1, CoreInvariance, PTL

(* A sweep ends with every owned frame that is not quarantined clean.      *)
THEOREM SweepsClean == Spec => []SweepLeavesMemoryClean
<1>1. CoreInv => SweepLeavesMemoryClean
  BY DEF CoreInv
<1>2. QED
  BY <1>1, CoreInvariance, PTL
-----------------------------------------------------------------------------
(* What RetiredFramesStayRetired asks of one step and one frame.           *)
StaysRetired(f) ==
  Retired(mem, f) =>
    Retired(mem', f) /\ (phase # "idle" => mem'.cells[f] = mem.cells[f])

(* A relocation leaves the frames that were retired before it alone.       *)
LEMMA RelocationSparesRetired ==
  ASSUME NEW m \in Memory, NEW f \in Frame, NEW g \in Frame, Retired(m, g)
  PROVE  LET r == RelocateAndQuarantine(m, f)
         IN  /\ Retired(r.mem, g) /\ r.mem.cells[g] = m.cells[g]
             /\ r.ok => r.frame # g
<1> DEFINE r == RelocateAndQuarantine(m, f)
<1>1. /\ ~Owned(m, f) => ~r.ok /\ r.mem = m
      /\ \A h \in Frame : h # f /\ (r.ok => h # r.frame) =>
           /\ r.mem.owner[h] = m.owner[h]
           /\ r.mem.status[h] = m.status[h]
           /\ r.mem.cells[h] = m.cells[h]
      /\ r.ok => Usable(m, r.frame)
  BY RelocationFacts
<1> HIDE DEF r
<1>2. r.ok => r.frame # g
  BY <1>1 DEF Retired
<1>3. CASE f = g
  BY <1>1, <1>2, <1>3 DEF Retired, r
<1>4. CASE f # g
  BY <1>1, <1>2, <1>4 DEF Retired, Usable, Owned, r
<1>5. QED
  BY <1>3, <1>4

(* The write-fault path leaves retired frames alone.                       *)
LEMMA StepWriteFaultSparesRetired ==
  ASSUME CoreInv, NEW p \in Procs, StepWriteFault(p), NEW g \in Frame
  PROVE  StaysRetired(g)
<1> SUFFICES ASSUME Retired(mem, g)
             PROVE  Retired(mem', g) /\ mem'.cells[g] = mem.cells[g]
  BY DEF StaysRetired
<1> DEFINE n == step[p] + 1
           r == RelocateAndQuarantine(mem, page[p])
<1>1. /\ mem \in Memory /\ page[p] \in Frame /\ n \in Nat
  BY DEF CoreInv, TypeOK
<1>2. StepOffset(n) \in Offset /\ StepValue(n) \in Byte
  BY <1>1, StepTypes
<1>3. Retired(r.mem, g) /\ r.mem.cells[g] = mem.cells[g] /\ (r.ok => r.frame # g)
  BY <1>1, RelocationSparesRetired
<1>4. r.mem \in Memory /\ r.frame \in Frame /\ r.ok \in BOOLEAN
  BY <1>1, RelocationFacts
<1>5. mem' = IF r.ok THEN WriteByte(r.mem, r.frame, StepOffset(n), StepValue(n))
             ELSE r.mem
  BY DEF StepWriteFault
<1> HIDE DEF r
<1>6. CASE r.ok
  BY <1>2, <1>3, <1>4, <1>5, <1>6, WriteByteFacts DEF Retired, Usable, Owned
<1>7. CASE ~r.ok
  BY <1>3, <1>5, <1>7
<1>8. QED
  BY <1>4, <1>6, <1>7

(* A step that completes writes to a usable frame only.                    *)
LEMMA StepDoneSparesRetired ==
  ASSUME CoreInv, NEW p \in Procs, StepDone(p), NEW g \in Frame
  PROVE  StaysRetired(g)
<1> SUFFICES ASSUME Retired(mem, g)
             PROVE  Retired(mem', g) /\ mem'.cells[g] = mem.cells[g]
  BY DEF StaysRetired
<1> DEFINE n == step[p] + 1
           w == WriteByte(mem, page[p], StepOffset(n), StepValue(n))
<1>1. mem \in Memory /\ page[p] \in Frame /\ n \in Nat
  BY DEF CoreInv, TypeOK
<1>2. StepOffset(n) \in Offset /\ StepValue(n) \in Byte /\ ReadOffset(n) \in Offset
  BY <1>1, StepTypes
<1>3. g # page[p]
  BY DEF StepDone, Retired
<1>4. /\ w \in Memory /\ w.owner = mem.owner /\ w.status = mem.status
      /\ w.cells[g] = mem.cells[g]
  BY <1>1, <1>2, <1>3, WriteByteFacts
<1>5. mem' = ReadByte(w, page[p], ReadOffset(n))
  BY DEF StepDone
<1> HIDE DEF w
<1>6. /\ mem'.owner = mem.owner /\ mem'.status[g] = mem.status[g]
      /\ mem'.cells[g] = mem.cells[g]
  BY <1>1, <1>2, <1>3, <1>4, <1>5, ReadByteFacts
<1>7. QED
  BY <1>6 DEF Retired, Usable, Owned

(* The read-fault path leaves retired frames alone.                        *)
LEMMA StepReadFaultSparesRetired ==
  ASSUME CoreInv, NEW p \in Procs, StepReadFault(p), NEW g \in Frame
  PROVE  StaysRetired(g)
<1> SUFFICES ASSUME Retired(mem, g)
             PROVE  Retired(mem', g) /\ mem'.cells[g] = mem.cells[g]
  BY DEF StaysRetired
<1> DEFINE n == step[p] + 1
           w == WriteByte(mem, page[p], StepOffset(n), StepValue(n))
           d == ReadByte(w, page[p], ReadOffset(n))
<1>1. mem \in Memory /\ page[p] \in Frame /\ n \in Nat
  BY DEF CoreInv, TypeOK
<1>2. StepOffset(n) \in Offset /\ StepValue(n) \in Byte /\ ReadOffset(n) \in Offset
  BY <1>1, StepTypes
<1>3. g # page[p]
  BY DEF StepReadFault, Retired
<1>4. /\ w \in Memory /\ w.owner = mem.owner /\ w.status = mem.status
      /\ w.cells[g] = mem.cells[g]
  BY <1>1, <1>2, <1>3, WriteByteFacts
<1>5. mem' = RelocateAndQuarantine(d, page[p]).mem
  BY DEF StepReadFault
<1> HIDE DEF w
<1>6. /\ d \in Memory /\ d.owner = mem.owner /\ d.status[g] = mem.status[g]
      /\ d.cells[g] = mem.cells[g]
  <2>1. /\ d \in Memory /\ d.owner = w.owner
        /\ \A h \in Frame : h # page[p] =>
             d.cells[h] = w.cells[h] /\ d.status[h] = w.status[h]
    BY <1>1, <1>2, <1>4, ReadByteFacts
  <2> HIDE DEF d
  <2>2. QED
    BY <1>3, <1>4, <2>1
<1> HIDE DEF d
<1>7. Retired(d, g)
  BY <1>6 DEF Retired, Usable, Owned
<1>8. QED
  BY <1>1, <1>5, <1>6, <1>7, RelocationSparesRetired

(* The scrubber leaves retired frames alone.                               *)
LEMMA ScrubSparesRetired ==
  ASSUME CoreInv, ScrubWord \/ ScrubFault, NEW g \in Frame
  PROVE  StaysRetired(g)
<1> SUFFICES ASSUME Retired(mem, g)
             PROVE  Retired(mem', g) /\ mem'.cells[g] = mem.cells[g]
  BY DEF StaysRetired
<1> DEFINE d == ReadByte(mem, cur, at)
<1>1. mem \in Memory /\ cur \in Frame /\ at \in Offset /\ Owned(mem, cur)
  BY DEF CoreInv, TypeOK, ScrubbedFrameIsOwned, ScrubWord, ScrubFault
<1>2. g # cur
  BY <1>1 DEF Retired
<1>3. /\ d \in Memory /\ d.owner = mem.owner /\ d.status[g] = mem.status[g]
      /\ d.cells[g] = mem.cells[g]
  BY <1>1, <1>2, ReadByteFacts
<1>4. mem' = d \/ mem' = RelocateAndQuarantine(d, cur).mem
  BY DEF ScrubWord, ScrubFault
<1> HIDE DEF d
<1>5. Retired(d, g)
  BY <1>3 DEF Retired, Usable, Owned
<1>6. QED
  BY <1>1, <1>3, <1>4, <1>5, RelocationSparesRetired

(* So does every step of the kernel core.                                  *)
LEMMA NextSparesRetired ==
  ASSUME CoreInv, Next, NEW g \in Frame
  PROVE  StaysRetired(g)
<1>1. ASSUME NEW f \in Frame, NEW o \in Offset, InjectMemoryFlip(f, o)
      PROVE  StaysRetired(g)
  <2>1. phase = "idle" /\ mem \in Memory
    BY <1>1 DEF InjectMemoryFlip, CoreInv, TypeOK
  <2>2. mem'.owner = mem.owner /\ mem'.status = mem.status
    BY <1>1, <2>1, InjectBitFlipFacts DEF InjectMemoryFlip
  <2>3. QED
    BY <2>1, <2>2 DEF StaysRetired, Retired, Usable, Owned
<1>2. ASSUME NEW p \in Procs, ExecuteStep(p) PROVE StaysRetired(g)
  BY <1>2, StepWriteFaultSparesRetired, StepDoneSparesRetired,
     StepReadFaultSparesRetired DEF ExecuteStep
<1>3. CASE ScrubWord \/ ScrubFault
  BY <1>3, ScrubSparesRetired
<1>4. CASE BeginTick \/ BeginSweep \/ ScrubNextFrame \/ EndSweep
           \/ ExecuteOrbitalCalculation
  <2>1. mem' = mem
    BY <1>4 DEF BeginTick, BeginSweep, ScrubNextFrame, EndSweep,
                ExecuteOrbitalCalculation
  <2>2. QED
    BY <2>1 DEF StaysRetired, Retired, Usable, Owned
<1>5. QED
  BY <1>1, <1>2, <1>3, <1>4 DEF Next

(* A quarantined, released frame is out of service for good: no later      *)
(* relocation, allocation or write touches it, though a process whose      *)
(* relocation failed still holds its number and keeps presenting it.       *)
THEOREM QuarantineIsFinal == Spec => RetiredFramesStayRetired
<1> DEFINE Step == \A f \in Frame : Retired(mem, f) =>
                     /\ Retired(mem', f)
                     /\ phase # "idle" => mem'.cells[f] = mem.cells[f]
<1>1. CoreInv /\ [Next]_vars => [Step]_mem
  BY NextSparesRetired DEF vars, StaysRetired
<1>2. QED
  BY <1>1, CoreInvariance, PTL DEF Spec, RetiredFramesStayRetired
-----------------------------------------------------------------------------
(* The frames out of service for good: each relocation the scrubber counts *)
(* has added one.                                                          *)
RetiredFrames == { f \in Frame : Retired(mem, f) }
Counted ==
  metrics.quarantined + (IF phase = "sweep" THEN report.relocations ELSE 0)
CountInv == Counted <= Cardinality(RetiredFrames)

LEMMA RetiredFramesAreFinite ==
  /\ \A S \in SUBSET Frame : IsFiniteSet(S) /\ Cardinality(S) \in Nat
  /\ RetiredFrames \in SUBSET Frame /\ RetiredFrames' \in SUBSET Frame
<1>1. IsFiniteSet(Frame)
  BY FS_Interval, FramesAssumption DEF Frame
<1>2. \A S \in SUBSET Frame : IsFiniteSet(S) /\ Cardinality(S) \in Nat
  BY <1>1, FS_Subset, FS_CardinalityType
<1>3. QED
  BY <1>2 DEF RetiredFrames

(* Every step keeps the frames that were retired.                          *)
LEMMA RetiredFramesGrow ==
  ASSUME CoreInv, [Next]_vars
  PROVE  /\ RetiredFrames \subseteq RetiredFrames'
         /\ Cardinality(RetiredFrames) <= Cardinality(RetiredFrames')
<1>1. RetiredFrames \subseteq RetiredFrames'
  <2>1. CASE Next
    BY <2>1, NextSparesRetired DEF RetiredFrames, StaysRetired
  <2>2. CASE UNCHANGED vars
    BY <2>2 DEF RetiredFrames, Retired, Usable, Owned, vars
  <2>3. QED
    BY <2>1, <2>2
<1>2. QED
  BY <1>1, RetiredFramesAreFinite, FS_Subset

(* A relocation by the scrubber retires the frame it was reading, which    *)
(* was in use until then.                                                  *)
LEMMA ScrubFaultRetiresOne ==
  ASSUME CoreInv, ScrubFault
  PROVE  Cardinality(RetiredFrames) + 1 <= Cardinality(RetiredFrames')
<1>1. mem \in Memory /\ cur \in Frame /\ at \in Offset /\ Owned(mem, cur)
  BY DEF CoreInv, TypeOK, ScrubbedFrameIsOwned, ScrubFault
<1> DEFINE d == ReadByte(mem, cur, at)
<1>2. d \in Memory /\ d.owner = mem.owner
  BY <1>1, ReadByteFacts
<1>3. mem' = RelocateAndQuarantine(d, cur).mem
  BY DEF ScrubFault
<1>4. Owned(d, cur)
  BY <1>1, <1>2 DEF Owned
<1> HIDE DEF d
<1>5. Retired(mem', cur)
  BY <1>1, <1>2, <1>3, <1>4, RelocationFacts
<1>6. cur \in RetiredFrames' /\ cur \notin RetiredFrames
  BY <1>1, <1>5 DEF RetiredFrames, Retired
<1>7. RetiredFrames \cup {cur} \subseteq RetiredFrames'
  BY <1>6, RetiredFramesGrow DEF Next
<1>8. Cardinality(RetiredFrames \cup {cur}) = Cardinality(RetiredFrames) + 1
  BY <1>6, RetiredFramesAreFinite, FS_AddElement
<1>9. Cardinality(RetiredFrames \cup {cur}) <= Cardinality(RetiredFrames')
  BY <1>7, RetiredFramesAreFinite, FS_Subset
<1>10. QED
  BY <1>8, <1>9

(* What is counted grows by one at such a relocation and at no other step. *)
LEMMA CountedByOne ==
  ASSUME CoreInv, Next
  PROVE  Counted' \in Nat /\ (Counted' = Counted \/ (ScrubFault /\ Counted' = Counted + 1))
<1>1. /\ metrics.quarantined \in Nat /\ report.relocations \in Nat
      /\ metrics \in Metrics /\ report \in [corrections : Nat, relocations : Nat]
  BY DEF CoreInv, TypeOK, Metrics
<1>2. ASSUME UNCHANGED <<report, metrics>>, phase' = "sweep" <=> phase = "sweep"
      PROVE  Counted' \in Nat /\ Counted' = Counted
  BY <1>1, <1>2 DEF Counted
<1>3. ASSUME NEW f \in Frame, NEW o \in Offset, InjectMemoryFlip(f, o)
      PROVE  Counted' \in Nat /\ Counted' = Counted
  BY <1>2, <1>3 DEF InjectMemoryFlip, sweepVars
<1>4. CASE BeginTick
  BY <1>2, <1>4 DEF BeginTick, sweepVars
<1>5. ASSUME NEW p \in Procs, ExecuteStep(p)
      PROVE  Counted' \in Nat /\ Counted' = Counted
  BY <1>2, <1>5 DEF ExecuteStep, StepWriteFault, StepDone, StepReadFault, EndOfStep, sweepVars
<1>6. CASE BeginSweep
  <2>1. /\ phase = "step" /\ phase' = "sweep" /\ report'.relocations = 0
        /\ metrics'.quarantined = metrics.quarantined
    BY <1>1, <1>6 DEF BeginSweep, NoReport, Metrics
  <2>2. QED
    BY <1>1, <2>1 DEF Counted
<1>7. CASE ScrubNextFrame
  BY <1>2, <1>7 DEF ScrubNextFrame
<1>8. CASE ScrubWord
  <2>1. /\ phase = "sweep" /\ phase' = "sweep" /\ metrics' = metrics
        /\ report'.relocations = report.relocations
    BY <1>1, <1>8 DEF ScrubWord
  <2>2. QED
    BY <1>1, <2>1 DEF Counted
<1>9. CASE ScrubFault
  <2>1. /\ phase = "sweep" /\ phase' = "sweep" /\ metrics' = metrics
        /\ \/ report'.relocations = report.relocations + 1
           \/ report'.relocations = report.relocations
    BY <1>1, <1>9 DEF ScrubFault
  <2>2. QED
    BY <1>1, <1>9, <2>1 DEF Counted
<1>10. CASE EndSweep
  <2>1. /\ phase = "sweep" /\ phase' = "orbital"
        /\ metrics'.quarantined = metrics.quarantined + report.relocations
    BY <1>1, <1>10 DEF EndSweep, Metrics
  <2>2. QED
    BY <1>1, <2>1 DEF Counted
<1>11. CASE ExecuteOrbitalCalculation
  <2>1. /\ phase = "orbital" /\ phase' = "idle"
        /\ metrics'.quarantined = metrics.quarantined
    BY <1>1, <1>11 DEF ExecuteOrbitalCalculation, Metrics
  <2>2. QED
    BY <1>1, <2>1 DEF Counted
<1>12. QED
  BY <1>3, <1>4, <1>5, <1>6, <1>7, <1>8, <1>9, <1>10, <1>11 DEF Next

LEMMA NextCountInv == CoreInv /\ CountInv /\ [Next]_vars => CountInv'
<1> SUFFICES ASSUME CoreInv, CountInv, [Next]_vars PROVE CountInv'
  OBVIOUS
<1> DEFINE c == Cardinality(RetiredFrames)
<1>1. /\ c \in Nat /\ c' \in Nat /\ c <= c' /\ Counted <= c /\ Counted \in Nat
      /\ ScrubFault => c + 1 <= c'
  <2>1. Counted \in Nat
    BY DEF Counted, CoreInv, TypeOK, Metrics
  <2>2. QED
    BY <2>1, RetiredFramesAreFinite, RetiredFramesGrow, ScrubFaultRetiresOne DEF CountInv
<1>2. CASE Next
  <2>1. Counted' \in Nat /\ (Counted' = Counted \/ (ScrubFault /\ Counted' = Counted + 1))
    BY <1>2, CountedByOne
  <2> HIDE DEF c
  <2>2. Counted' <= c'
    BY <1>1, <2>1
  <2>3. QED
    BY <2>2 DEF CountInv, c
<1>3. CASE UNCHANGED vars
  BY <1>3 DEF CountInv, Counted, RetiredFrames, Retired, Usable, Owned, vars, sweepVars
<1>4. QED
  BY <1>2, <1>3

(* bootstrap.rs: frames_quarantined, and the report it is about to take    *)
(* in, never exceed the frames that are quarantined.                       *)
THEOREM CountOverstatesNothing == Spec => []QuarantineCountIsSound
<1>1. Init => CountInv
  <2> SUFFICES ASSUME Init PROVE CountInv
    OBVIOUS
  <2>1. Counted = 0
    BY DEF Init, Counted
  <2>2. Cardinality(RetiredFrames) \in Nat
    BY RetiredFramesAreFinite
  <2>3. QED
    BY <2>1, <2>2 DEF CountInv
<1>2. CoreInv /\ CountInv => QuarantineCountIsSound
  <2> SUFFICES ASSUME CoreInv, CountInv PROVE QuarantineCountIsSound
    OBVIOUS
  <2> DEFINE Q == { f \in Frame : ~Usable(mem, f) }
  <2>1. RetiredFrames \subseteq Q /\ Q \in SUBSET Frame
    BY DEF RetiredFrames, Retired
  <2>2. /\ Cardinality(RetiredFrames) <= Cardinality(Q)
        /\ Cardinality(Q) \in Nat /\ Cardinality(RetiredFrames) \in Nat
    BY <2>1, RetiredFramesAreFinite, FS_Subset
  <2>3. Counted \in Nat
    BY DEF Counted, CoreInv, TypeOK, Metrics
  <2>4. Counted <= Cardinality(Q)
    BY <2>2, <2>3 DEF CountInv
  <2>5. QED
    BY <2>4 DEF QuarantineCountIsSound, Counted
<1>3. QED
  BY <1>1, <1>2, NextCountInv, CoreInvariance, PTL DEF Spec
-----------------------------------------------------------------------------
(* Each calculation yields 22500 through whichever runner is corrupted,    *)
(* and the voter's corrections are counted one for one.                    *)
THEOREM OrbitalResults == Spec => OrbitalResultSurvives
<1> DEFINE Step == phase = "orbital" =>
             /\ orbit'.value = DeltaV /\ orbit'.status # "Failed"
             /\ metrics'.tmrCorrections - metrics.tmrCorrections
                  = (IF orbit'.status = "Corrected" THEN 1 ELSE 0)
<1>1. CoreInv /\ Next => Step
  <2> SUFFICES ASSUME CoreInv, Next, phase = "orbital" PROVE Step
    OBVIOUS
  <2>1. ExecuteOrbitalCalculation
    BY DEF Next, InjectMemoryFlip, BeginTick, ExecuteStep, StepWriteFault, StepDone,
           StepReadFault, BeginSweep, ScrubNextFrame, ScrubWord, ScrubFault, EndSweep
  <2> DEFINE op == metrics.tmrOps + 1
             c == IF AluFlip(op) THEN metrics.tmrCorrections + 1 ELSE metrics.tmrCorrections
  <2>2. metrics \in Metrics
    BY DEF CoreInv, TypeOK
  <2>3. op \in Nat /\ metrics.tmrCorrections \in Nat
    BY <2>2 DEF Metrics
  <2>4. orbit'.value = DeltaV
        /\ orbit'.status = (IF AluFlip(op) THEN "Corrected" ELSE "Perfect")
    BY <2>1, <2>3, OrbitalVote DEF ExecuteOrbitalCalculation
  <2>5. metrics'.tmrCorrections = c
    BY <2>1, <2>2 DEF ExecuteOrbitalCalculation, Metrics
  <2> HIDE DEF op
  <2>6. QED
    BY <2>3, <2>4, <2>5
<1>2. CoreInv /\ [Next]_vars => [Step]_vars
  BY <1>1
<1>3. QED
  BY <1>2, CoreInvariance, PTL DEF Spec, OrbitalResultSurvives
-----------------------------------------------------------------------------
(***************************************************************************)
(* What SECDED words, sweeps and hot-swapping achieve when at most one bit *)
(* flips between two ticks: no byte of a process is ever lost, so that the *)
(* kernel core implements ReliableMemory, and no step of a process fails   *)
(* as long as a healthy frame is left.                                     *)
(***************************************************************************)
(* Word o of the frame process p owns holds a flipped bit.                 *)
Noisy(p, o) == mem.owner[page[p]] = p /\ mem.cells[page[p]][o].noise # 0

(* No process owns a frame its page table does not name.                   *)
OwnersHold == \A p \in Procs : \A f \in Frame : mem.owner[f] = p => page[p] = f

(* There is at most one flipped bit in all the processes' memory, and none *)
(* when the next flip may come.                                            *)
OneNoisyWord ==
  \A p, q \in Procs : \A o, k \in Offset :
    Noisy(p, o) /\ Noisy(q, k) =>
      p = q /\ o = k /\ mem.cells[page[p]][o].noise = 1
CleanBeforeFlip ==
  phase = "idle" /\ flips = 0 => \A p \in Procs : \A o \in Offset : ~Noisy(p, o)

(* A process that had its turn leaves the sweep no quarantined frame with  *)
(* a flipped bit, which the sweep would pass by.                           *)
HadTurn(p) == (phase = "step" /\ p < turn) \/ phase \in {"sweep", "orbital"}
LeftClean ==
  \A p \in Procs : HadTurn(p) =>
    Usable(mem, page[p]) \/ \A o \in Offset : ~Noisy(p, o)

(* Only when memory has run out is a process left without a frame.         *)
StuckWhenFull == \A p \in Procs : mem.owner[page[p]] # p => Available(mem) = {}

SingleInv ==
  /\ phase # "idle" => flips = 0
  /\ OwnersHold /\ OneNoisyWord /\ CleanBeforeFlip /\ LeftClean
  /\ StuckWhenFull /\ ProcessesResume
-----------------------------------------------------------------------------
(* The words an operation on a memory leaves.                              *)
LEMMA WriteByteCells ==
  ASSUME NEW m \in Memory, NEW f \in Frame, NEW o \in Offset, NEW v \in Byte, Usable(m, f)
  PROVE  /\ WriteByte(m, f, o, v).cells[f][o] = [val |-> v, noise |-> 0]
         /\ \A k \in Offset : k # o => WriteByte(m, f, o, v).cells[f][k] = m.cells[f][k]
<1> DEFINE c == [val |-> v, noise |-> 0]
           w == WriteByte(m, f, o, v)
<1>1. w = [m EXCEPT !.cells[f][o] = c]
  BY DEF WriteByte
<1>2. w.cells = [m.cells EXCEPT ![f][o] = c]
  BY <1>1 DEF Memory
<1>3. m.cells \in [Frame -> [Offset -> Cell]]
  BY DEF Memory
<1> HIDE DEF w, c
<1>4. w.cells[f][o] = c /\ \A k \in Offset : k # o => w.cells[f][k] = m.cells[f][k]
  BY <1>2, <1>3
<1>5. QED
  BY <1>4 DEF w, c

(* A read that does not fault changes no value; it repairs a flipped word, *)
(* and only then does the frame's status change.                           *)
LEMMA ReadByteCells ==
  ASSUME NEW m \in Memory, NEW f \in Frame, NEW o \in Offset, ~ReadFaults(m, f, o)
  PROVE  /\ \A k \in Offset : ReadByte(m, f, o).cells[f][k].val = m.cells[f][k].val
         /\ \A k \in Offset : k # o => ReadByte(m, f, o).cells[f][k] = m.cells[f][k]
         /\ ReadByte(m, f, o).cells[f][o].noise = 0
         /\ ReadByte(m, f, o).status[f] = m.status[f] \/ m.cells[f][o].noise # 0
<1> DEFINE r == ReadByte(m, f, o)
<1>1. m.cells \in [Frame -> [Offset -> Cell]] /\ m.cells[f][o] \in Cell
  BY DEF Memory
<1>2. CASE ReadCorrects(m, f, o)
  <2>1. r = [m EXCEPT !.cells[f][o].noise = 0, !.status[f] = CountRepair(@)]
    BY <1>2 DEF ReadByte
  <2>2. r.cells = [m.cells EXCEPT ![f][o].noise = 0]
    BY <2>1 DEF Memory
  <2>3. r.cells[f][o] = [m.cells[f][o] EXCEPT !.noise = 0]
    BY <1>1, <2>2
  <2>4. \A k \in Offset : k # o => r.cells[f][k] = m.cells[f][k]
    BY <1>1, <2>2
  <2>5. r.cells[f][o].val = m.cells[f][o].val /\ r.cells[f][o].noise = 0
    BY <1>1, <2>3 DEF Cell
  <2>6. QED
    BY <1>2, <2>4, <2>5 DEF ReadCorrects
<1>3. CASE ~ReadCorrects(m, f, o)
  <2>1. r = m
    BY <1>3 DEF ReadByte
  <2>2. m.cells[f][o].noise \in 0 .. 2
    BY <1>1 DEF Cell, MaxNoise
  <2>3. QED
    BY <1>3, <2>1, <2>2 DEF ReadFaults, ReadCorrects
<1>4. QED
  BY <1>2, <1>3

(* A flip changes no value and no other word.                              *)
LEMMA InjectBitFlipCells ==
  ASSUME NEW m \in Memory, NEW f \in Frame, NEW o \in Offset, NEW n
  PROVE  /\ InjectBitFlip(m, f, o, n).cells[f][o].noise = n
         /\ \A g \in Frame : \A k \in Offset :
              /\ InjectBitFlip(m, f, o, n).cells[g][k].val = m.cells[g][k].val
              /\ g # f \/ k # o => InjectBitFlip(m, f, o, n).cells[g][k] = m.cells[g][k]
<1> DEFINE w == InjectBitFlip(m, f, o, n)
<1>1. m.cells \in [Frame -> [Offset -> Cell]] /\ m.cells[f][o] \in Cell
  BY DEF Memory
<1>2. w.cells = [m.cells EXCEPT ![f][o].noise = n]
  BY DEF InjectBitFlip, Memory
<1> HIDE DEF w
<1>3. w.cells[f][o] = [m.cells[f][o] EXCEPT !.noise = n]
  BY <1>1, <1>2
<1>4. \A g \in Frame : \A k \in Offset : g # f \/ k # o => w.cells[g][k] = m.cells[g][k]
  BY <1>1, <1>2
<1>5. w.cells[f][o].val = m.cells[f][o].val /\ w.cells[f][o].noise = n
  BY <1>1, <1>3 DEF Cell
<1>6. QED
  BY <1>4, <1>5 DEF w

(* A relocation fails for an owned frame only when none is left, and makes *)
(* no frame available.                                                     *)
LEMMA RelocationAndAvailable ==
  ASSUME NEW m \in Memory, NEW f \in Frame
  PROVE  LET r == RelocateAndQuarantine(m, f)
         IN  /\ Owned(m, f) /\ ~r.ok => Available(m) = {}
             /\ Available(r.mem) \subseteq Available(m)
<1> DEFINE r == RelocateAndQuarantine(m, f)
<1>1. Owned(m, f) /\ ~r.ok => Available(m) = {}
  BY DEF RelocateAndQuarantine
<1>2. /\ ~Owned(m, f) => r.mem = m
      /\ Owned(m, f) => Retired(r.mem, f)
      /\ \A g \in Frame : g # f /\ (r.ok => g # r.frame) =>
           r.mem.owner[g] = m.owner[g] /\ r.mem.status[g] = m.status[g]
      /\ r.ok => r.mem.owner[r.frame] = m.owner[f] /\ ~Owned(m, r.frame) /\ Usable(m, r.frame)
  BY RelocationFacts
<1> HIDE DEF r
<1>3. ASSUME NEW g \in Available(r.mem) PROVE g \in Available(m)
  <2>1. CASE ~Owned(m, f)
    BY <1>2, <1>3, <2>1
  <2>2. CASE Owned(m, f) /\ r.ok /\ g = r.frame
    BY <1>2, <1>3, <2>2 DEF Available, Owned
  <2>3. CASE Owned(m, f) /\ (r.ok => g # r.frame)
    BY <1>2, <1>3, <2>3 DEF Available, Owned, Usable, Retired
  <2>4. QED
    BY <2>1, <2>2, <2>3
<1>4. QED
  BY <1>1, <1>3 DEF r

(* Operations that leave the map alone and lift no quarantine.             *)
LEMMA AvailableKept ==
  ASSUME NEW m, NEW w, w.owner = m.owner,
         \A g \in Frame : ~Usable(m, g) => ~Usable(w, g)
  PROVE  Available(w) \subseteq Available(m)
BY DEF Available, Owned
-----------------------------------------------------------------------------
(* What a step makes of flipped bits, a flip aside: at most fewer.         *)
Calm ==
  \A p \in Procs : \A o \in Offset :
    Noisy(p, o)' => Noisy(p, o) /\ mem'.cells[page'[p]][o].noise = mem.cells[page[p]][o].noise

LEMMA CalmKeepsOne == OneNoisyWord /\ Calm => OneNoisyWord'
<1> SUFFICES ASSUME OneNoisyWord, Calm, NEW p \in Procs, NEW q \in Procs,
                    NEW o \in Offset, NEW k \in Offset, Noisy(p, o)', Noisy(q, k)'
             PROVE  p = q /\ o = k /\ mem'.cells[page'[p]][o].noise = 1
  BY DEF OneNoisyWord
<1>1. Noisy(p, o) /\ Noisy(q, k)
  BY DEF Calm
<1>2. mem'.cells[page'[p]][o].noise = mem.cells[page[p]][o].noise
  BY DEF Calm
<1>3. QED
  BY <1>1, <1>2 DEF OneNoisyWord

(* No word of a frame a process owns is uncorrectable.                     *)
LEMMA ProcessWordsAreReadable ==
  ASSUME CoreInv, SingleInv, NEW p \in Procs, NEW o \in Offset, mem.owner[page[p]] = p
  PROVE  mem.cells[page[p]][o].noise # 2
<1>1. CASE Noisy(p, o)
  BY <1>1 DEF SingleInv, OneNoisyWord
<1>2. CASE ~Noisy(p, o)
  BY <1>2 DEF Noisy
<1>3. QED
  BY <1>1, <1>2

(* Steps that leave memory, page tables and outcomes alone.                *)
LEMMA QuietStep ==
  ASSUME CoreInv, SingleInv, mem' = mem, page' = page, outcome' = outcome
  PROVE  /\ OwnersHold' /\ OneNoisyWord' /\ StuckWhenFull' /\ ProcessesResume'
         /\ \A p \in Procs : Usable(mem', page'[p]) <=> Usable(mem, page[p])
         /\ \A p \in Procs : \A o \in Offset : Noisy(p, o)' <=> Noisy(p, o)
BY DEF SingleInv, OwnersHold, OneNoisyWord, StuckWhenFull, ProcessesResume, Noisy

LEMMA BeginTickSingle ==
  ASSUME CoreInv, SingleInv, BeginTick
  PROVE  SingleInv'
<1>1. /\ mem' = mem /\ page' = page /\ outcome' = outcome
      /\ phase' = "step" /\ turn' = 1 /\ flips' = 0
  BY DEF BeginTick, procVars
<1>2. LeftClean'
  <2>1. \A p \in Procs : ~HadTurn(p)'
    BY <1>1 DEF HadTurn, Procs
  <2>2. QED
    BY <2>1 DEF LeftClean
<1>3. CleanBeforeFlip'
  BY <1>1 DEF CleanBeforeFlip
<1>4. QED
  BY <1>1, <1>2, <1>3, QuietStep DEF SingleInv

LEMMA BeginSweepSingle ==
  ASSUME CoreInv, SingleInv, BeginSweep
  PROVE  SingleInv'
<1>1. /\ mem' = mem /\ page' = page /\ outcome' = outcome
      /\ phase = "step" /\ phase' = "sweep" /\ turn > NumProcs /\ flips' = flips
  BY DEF BeginSweep, procVars
<1>2. \A p \in Procs : HadTurn(p)
  BY <1>1, CoreAssumption DEF HadTurn, Procs, CoreInv, TypeOK
<1>3. LeftClean'
  BY <1>2, QuietStep, <1>1 DEF LeftClean, SingleInv
<1>4. CleanBeforeFlip'
  BY <1>1 DEF CleanBeforeFlip
<1>5. QED
  BY <1>1, <1>3, <1>4, QuietStep DEF SingleInv

LEMMA SweepBookkeepingSingle ==
  ASSUME CoreInv, SingleInv, ScrubNextFrame \/ EndSweep
  PROVE  SingleInv'
<1>1. /\ mem' = mem /\ page' = page /\ outcome' = outcome /\ flips' = flips
      /\ phase = "sweep" /\ phase' \in {"sweep", "orbital"}
  BY DEF ScrubNextFrame, EndSweep, procVars
<1>2. \A p \in Procs : HadTurn(p)
  BY <1>1 DEF HadTurn
<1>3. LeftClean'
  BY <1>1, <1>2, QuietStep DEF LeftClean, SingleInv
<1>4. CleanBeforeFlip'
  BY <1>1 DEF CleanBeforeFlip
<1>5. QED
  BY <1>1, <1>3, <1>4, QuietStep DEF SingleInv

(* After a sweep, what is usable is clean, and what is not was left clean. *)
LEMMA OrbitalSingle ==
  ASSUME CoreInv, SingleInv, ExecuteOrbitalCalculation
  PROVE  SingleInv'
<1>1. /\ mem' = mem /\ page' = page /\ outcome' = outcome /\ flips' = flips
      /\ phase = "orbital" /\ phase' = "idle"
  BY DEF ExecuteOrbitalCalculation, procVars
<1>2. ASSUME NEW p \in Procs, NEW o \in Offset PROVE ~Noisy(p, o)
  <2>1. HadTurn(p) /\ page[p] \in Frame
    BY <1>1 DEF HadTurn, CoreInv, TypeOK
  <2>2. CASE Usable(mem, page[p]) /\ mem.owner[page[p]] = p
    <3>1. page[p] \in Scrubbable
      BY <2>1, <2>2 DEF Scrubbable, Owned, Procs, NoOwner
    <3>2. QED
      BY <1>1, <3>1 DEF CoreInv, SweepLeavesMemoryClean, Noisy
  <2>3. CASE ~Usable(mem, page[p])
    BY <2>1, <2>3 DEF SingleInv, LeftClean
  <2>4. CASE mem.owner[page[p]] # p
    BY <2>4 DEF Noisy
  <2>5. QED
    BY <2>2, <2>3, <2>4
<1>3. CleanBeforeFlip'
  BY <1>1, <1>2, QuietStep DEF CleanBeforeFlip
<1>4. LeftClean'
  BY <1>1 DEF LeftClean, HadTurn
<1>5. QED
  BY <1>1, <1>3, <1>4, QuietStep DEF SingleInv

(* A flip comes when the processes' memory is clean, and only one comes.   *)
LEMMA InjectSingle ==
  ASSUME CoreInv, SingleInv, FlipsPerTick <= 1,
         NEW f \in Frame, NEW o \in Offset, InjectMemoryFlip(f, o)
  PROVE  SingleInv'
<1>1. /\ page' = page /\ outcome' = outcome /\ phase = "idle" /\ phase' = "idle"
      /\ flips \in Nat /\ flips < FlipsPerTick /\ flips' = flips + 1
      /\ mem \in Memory /\ page \in [Procs -> Frame]
  BY DEF InjectMemoryFlip, procVars, CoreInv, TypeOK
<1>2. flips = 0 /\ flips' = 1
  BY <1>1, CoreAssumption
<1>3. \A p \in Procs : \A k \in Offset : ~Noisy(p, k)
  BY <1>1, <1>2 DEF SingleInv, CleanBeforeFlip
<1>4. PICK n \in FlipTo(mem, f, o) : mem' = InjectBitFlip(mem, f, o, n)
  BY DEF InjectMemoryFlip
<1>5. /\ mem'.owner = mem.owner /\ mem'.status = mem.status
      /\ mem'.cells[f][o].noise = n
      /\ \A g \in Frame : \A k \in Offset :
           g # f \/ k # o => mem'.cells[g][k] = mem.cells[g][k]
  BY <1>1, <1>4, InjectBitFlipFacts, InjectBitFlipCells
<1>6. ASSUME NEW p \in Procs, NEW k \in Offset, Noisy(p, k)'
      PROVE  page[p] = f /\ k = o /\ mem'.cells[page'[p]][k].noise = 1
  <2>1. mem.owner[page[p]] = p /\ mem'.cells[page[p]][k].noise # 0
    BY <1>1, <1>5, <1>6 DEF Noisy
  <2>2. mem.cells[page[p]][k].noise = 0
    BY <1>3, <2>1 DEF Noisy
  <2>3. page[p] = f /\ k = o
    BY <1>1, <1>5, <2>1, <2>2
  <2>4. n \in {0 - 1, 0 + 1} /\ n \in 0 .. 2
    BY <1>4, <2>2, <2>3 DEF FlipTo, MaxNoise
  <2>5. n = 1
    BY <2>4
  <2>6. QED
    BY <1>1, <1>5, <2>3, <2>5
<1>7. OneNoisyWord'
  BY <1>6 DEF OneNoisyWord, CoreInv, NoFrameIsShared
<1>8. OwnersHold' /\ StuckWhenFull' /\ ProcessesResume'
  BY <1>1, <1>5
     DEF SingleInv, OwnersHold, StuckWhenFull, ProcessesResume, Available, Owned, Usable
<1>9. LeftClean' /\ CleanBeforeFlip'
  BY <1>1, <1>2 DEF LeftClean, HadTurn, CleanBeforeFlip
<1>10. QED
  BY <1>1, <1>7, <1>8, <1>9 DEF SingleInv

(* Steps that only write or repair words of one frame: a frame's status    *)
(* changes only when one of its flipped words is repaired.                 *)
Touches(f) ==
  /\ mem' \in Memory /\ page' = page /\ mem'.owner = mem.owner
  /\ \A g \in Frame : ~Usable(mem, g) => ~Usable(mem', g)
  /\ \A g \in Frame : g # f => mem'.cells[g] = mem.cells[g] /\ mem'.status[g] = mem.status[g]
  /\ \A k \in Offset : \/ mem'.cells[f][k].noise = mem.cells[f][k].noise
                       \/ mem'.cells[f][k].noise = 0
  /\ \/ mem'.status[f] = mem.status[f]
     \/ \E k \in Offset : mem.cells[f][k].noise # 0 /\ mem'.cells[f][k].noise = 0

LEMMA TouchSingle ==
  ASSUME CoreInv, SingleInv, NEW f \in Frame, Touches(f)
  PROVE  /\ OwnersHold' /\ OneNoisyWord' /\ StuckWhenFull'
         /\ Available(mem') \subseteq Available(mem)
         /\ \A p \in Procs :
              Usable(mem, page[p]) \/ (\A o \in Offset : ~Noisy(p, o)) =>
                Usable(mem', page'[p]) \/ (\A o \in Offset : ~Noisy(p, o)')
<1>1. page \in [Procs -> Frame]
  BY DEF CoreInv, TypeOK
<1>2. Calm
  BY <1>1 DEF Calm, Noisy, Touches
<1>3. OneNoisyWord'
  BY <1>2, CalmKeepsOne DEF SingleInv
<1>4. Available(mem') \subseteq Available(mem)
  BY AvailableKept DEF Touches
<1>5. OwnersHold' /\ StuckWhenFull'
  BY <1>4 DEF Touches, SingleInv, OwnersHold, StuckWhenFull
<1>6. ASSUME NEW p \in Procs,
             Usable(mem, page[p]) \/ (\A o \in Offset : ~Noisy(p, o)),
             ~Usable(mem', page'[p]), NEW o \in Offset, Noisy(p, o)'
      PROVE  FALSE
  <2>1. Noisy(p, o) /\ page' = page
    BY <1>2, <1>6 DEF Calm, Touches
  <2>2. Usable(mem, page[p])
    BY <1>6, <2>1
  <2>3. page[p] = f /\ mem'.status[f] # mem.status[f]
    BY <1>1, <1>6, <2>1, <2>2 DEF Touches, Usable
  <2>4. PICK k \in Offset : mem.cells[f][k].noise # 0 /\ mem'.cells[f][k].noise = 0
    BY <2>3 DEF Touches
  <2>5. Noisy(p, k)
    BY <2>1, <2>3, <2>4 DEF Noisy
  <2>6. o = k
    BY <2>1, <2>5 DEF SingleInv, OneNoisyWord
  <2>7. QED
    BY <1>6, <2>1, <2>3, <2>4, <2>6 DEF Noisy
<1>7. QED
  BY <1>3, <1>4, <1>5, <1>6

LEMMA ScrubWordTouches ==
  ASSUME CoreInv, ScrubWord
  PROVE  Touches(cur) /\ cur \in Frame
<1>1. mem \in Memory /\ cur \in Frame /\ at \in Offset
  BY DEF CoreInv, TypeOK, ScrubWord
<1>2. mem' = ReadByte(mem, cur, at) /\ ~ReadFaults(mem, cur, at) /\ page' = page
  BY DEF ScrubWord, procVars
<1>3. /\ mem' \in Memory /\ mem'.owner = mem.owner
      /\ \A g \in Frame : ~Usable(mem, g) => ~Usable(mem', g)
      /\ \A g \in Frame : g # cur =>
           mem'.cells[g] = mem.cells[g] /\ mem'.status[g] = mem.status[g]
  BY <1>1, <1>2, ReadByteFacts
<1>4. /\ \A k \in Offset : k # at => mem'.cells[cur][k] = mem.cells[cur][k]
      /\ mem'.cells[cur][at].noise = 0
      /\ mem'.status[cur] = mem.status[cur] \/ mem.cells[cur][at].noise # 0
  BY <1>1, <1>2, ReadByteCells
<1>5. \A k \in Offset : \/ mem'.cells[cur][k].noise = mem.cells[cur][k].noise
                        \/ mem'.cells[cur][k].noise = 0
  BY <1>4
<1>6. \/ mem'.status[cur] = mem.status[cur]
      \/ \E k \in Offset : mem.cells[cur][k].noise # 0 /\ mem'.cells[cur][k].noise = 0
  BY <1>1, <1>4
<1>7. QED
  BY <1>1, <1>2, <1>3, <1>5, <1>6 DEF Touches

LEMMA ScrubWordSingle ==
  ASSUME CoreInv, SingleInv, ScrubWord
  PROVE  SingleInv'
<1>1. /\ outcome' = outcome /\ flips' = flips /\ phase = "sweep" /\ phase' = "sweep"
  BY DEF ScrubWord, procVars
<1>2. /\ OwnersHold' /\ OneNoisyWord' /\ StuckWhenFull'
      /\ Available(mem') \subseteq Available(mem)
      /\ \A p \in Procs :
           Usable(mem, page[p]) \/ (\A o \in Offset : ~Noisy(p, o)) =>
             Usable(mem', page'[p]) \/ (\A o \in Offset : ~Noisy(p, o)')
  BY ScrubWordTouches, TouchSingle
<1>3. \A p \in Procs : HadTurn(p)
  BY <1>1 DEF HadTurn
<1>4. LeftClean'
  BY <1>2, <1>3 DEF SingleInv, LeftClean
<1>5. ProcessesResume' /\ CleanBeforeFlip'
  BY <1>1, <1>2 DEF SingleInv, ProcessesResume, CleanBeforeFlip
<1>6. QED
  BY <1>1, <1>2, <1>4, <1>5 DEF SingleInv

(* The byte written is one of a word that is then clean.                   *)
LEMMA StepDoneTouches ==
  ASSUME CoreInv, NEW p \in Procs, StepDone(p)
  PROVE  Touches(page[p]) /\ page[p] \in Frame
<1> DEFINE n == step[p] + 1
           f == page[p]
           o == StepOffset(n)
           w == WriteByte(mem, f, o, StepValue(n))
           i == ReadOffset(n)
<1>1. mem \in Memory /\ f \in Frame /\ n \in Nat /\ Usable(mem, f)
  BY DEF CoreInv, TypeOK, StepDone
<1>2. o \in Offset /\ StepValue(n) \in Byte /\ i \in Offset
  BY <1>1, StepTypes
<1>3. /\ w \in Memory /\ w.owner = mem.owner /\ w.status = mem.status
      /\ \A g \in Frame : g # f => w.cells[g] = mem.cells[g]
  BY <1>1, <1>2, WriteByteFacts
<1>4. /\ w.cells[f][o] = [val |-> StepValue(n), noise |-> 0]
      /\ \A k \in Offset : k # o => w.cells[f][k] = mem.cells[f][k]
  BY <1>1, <1>2, WriteByteCells
<1>5. mem' = ReadByte(w, f, i) /\ ~ReadFaults(w, f, i) /\ page' = page
  BY DEF StepDone
<1> HIDE DEF w, i, o, f, n
<1>6. /\ mem' \in Memory /\ mem'.owner = w.owner
      /\ \A g \in Frame : ~Usable(w, g) => ~Usable(mem', g)
      /\ \A g \in Frame : g # f =>
           mem'.cells[g] = w.cells[g] /\ mem'.status[g] = w.status[g]
  BY <1>1, <1>2, <1>3, <1>5, ReadByteFacts
<1>7. /\ \A k \in Offset : k # i => mem'.cells[f][k] = w.cells[f][k]
      /\ mem'.cells[f][i].noise = 0
      /\ mem'.status[f] = w.status[f] \/ w.cells[f][i].noise # 0
  BY <1>1, <1>2, <1>3, <1>5, ReadByteCells
<1>8. w.cells[f][o].noise = 0
  BY <1>4
<1>9. \A k \in Offset : \/ mem'.cells[f][k].noise = mem.cells[f][k].noise
                        \/ mem'.cells[f][k].noise = 0
  BY <1>4, <1>7, <1>8
<1>10. \/ mem'.status[f] = mem.status[f]
       \/ \E k \in Offset : mem.cells[f][k].noise # 0 /\ mem'.cells[f][k].noise = 0
  <2>1. CASE w.cells[f][i].noise # 0
    BY <1>2, <1>4, <1>7, <1>8, <2>1
  <2>2. CASE mem'.status[f] = w.status[f]
    BY <1>3, <2>2
  <2>3. QED
    BY <1>7, <2>1, <2>2
<1>11. \A g \in Frame : ~Usable(mem, g) => ~Usable(mem', g)
  BY <1>3, <1>6 DEF Usable
<1>12. Touches(f)
  BY <1>3, <1>5, <1>6, <1>9, <1>10, <1>11 DEF Touches
<1>13. QED
  BY <1>1, <1>12 DEF f

LEMMA StepDoneSingle ==
  ASSUME CoreInv, SingleInv, NEW p \in Procs, StepDone(p)
  PROVE  SingleInv'
<1>1. /\ outcome' = [outcome EXCEPT ![p] = "ok"] /\ flips' = flips
      /\ phase = "step" /\ phase' = "step" /\ turn = p /\ turn' = p + 1
      /\ Usable(mem, page[p])
  BY DEF StepDone, EndOfStep
<1>2. /\ OwnersHold' /\ OneNoisyWord' /\ StuckWhenFull'
      /\ Available(mem') \subseteq Available(mem)
      /\ \A q \in Procs :
           Usable(mem, page[q]) \/ (\A o \in Offset : ~Noisy(q, o)) =>
             Usable(mem', page'[q]) \/ (\A o \in Offset : ~Noisy(q, o)')
  BY StepDoneTouches, TouchSingle
<1>3. \A q \in Procs : HadTurn(q)' => HadTurn(q) \/ q = p
  BY <1>1 DEF HadTurn, Procs
<1>4. LeftClean'
  BY <1>1, <1>2, <1>3 DEF SingleInv, LeftClean
<1>5. ProcessesResume'
  BY <1>1, <1>2 DEF SingleInv, ProcessesResume, CoreInv, TypeOK
<1>6. CleanBeforeFlip'
  BY <1>1 DEF CleanBeforeFlip
<1>7. QED
  BY <1>1, <1>2, <1>4, <1>5, <1>6 DEF SingleInv

(* A process's read never faults.                                          *)
LEMMA NoReadFault ==
  ASSUME CoreInv, SingleInv, NEW p \in Procs
  PROVE  ~StepReadFault(p)
<1> SUFFICES ASSUME StepReadFault(p) PROVE FALSE
  OBVIOUS
<1> DEFINE n == step[p] + 1
           f == page[p]
           o == StepOffset(n)
           w == WriteByte(mem, f, o, StepValue(n))
           i == ReadOffset(n)
<1>1. mem \in Memory /\ f \in Frame /\ n \in Nat /\ Usable(mem, f)
  BY DEF CoreInv, TypeOK, StepReadFault
<1>2. o \in Offset /\ StepValue(n) \in Byte /\ i \in Offset
  BY <1>1, StepTypes
<1>3. w.cells[f][i].noise = 2
  BY DEF StepReadFault, ReadFaults
<1>4. mem.cells[f][i].noise # 2
  BY <1>1, <1>2, UsablePageIsOwned, ProcessWordsAreReadable
<1>5. /\ w.cells[f][o] = [val |-> StepValue(n), noise |-> 0]
      /\ \A k \in Offset : k # o => w.cells[f][k] = mem.cells[f][k]
  BY <1>1, <1>2, WriteByteCells
<1>6. w.cells[f][o].noise = 0
  BY <1>5
<1> HIDE DEF w, i, o, f, n
<1>7. QED
  BY <1>2, <1>3, <1>4, <1>5, <1>6

(* A refused write: the frame is retired, and its words are as they were,  *)
(* or the process gets them on a clean frame and writes there.             *)
LEMMA StepWriteFaultOutcome ==
  ASSUME CoreInv, SingleInv, NEW p \in Procs, StepWriteFault(p)
  PROVE  /\ Available(mem') \subseteq Available(mem)
         /\ \A q \in Procs : q # p =>
              /\ page'[q] = page[q] /\ mem'.owner[page[q]] = mem.owner[page[q]]
              /\ mem'.status[page[q]] = mem.status[page[q]]
              /\ mem'.cells[page[q]] = mem.cells[page[q]]
         /\ \A q \in Procs : \A g \in Frame : mem'.owner[g] = q => page'[q] = g
         /\ \/ /\ outcome' = [outcome EXCEPT ![p] = "failed"] /\ page' = page
               /\ Available(mem) = {} /\ mem'.owner[page[p]] # p
               /\ mem'.cells[page[p]] = mem.cells[page[p]]
            \/ /\ outcome' = [outcome EXCEPT ![p] = "swapped"]
               /\ page'[p] \in Frame /\ mem'.owner[page'[p]] = p
               /\ mem'.cells[page'[p]][StepOffset(step[p] + 1)]
                    = [val |-> StepValue(step[p] + 1), noise |-> 0]
               /\ \A k \in Offset : k # StepOffset(step[p] + 1) =>
                    mem'.cells[page'[p]][k]
                      = [val |-> mem.cells[page[p]][k].val, noise |-> 0]
<1> DEFINE n == step[p] + 1
           f == page[p]
           o == StepOffset(n)
           v == StepValue(n)
           r == RelocateAndQuarantine(mem, f)
<1>1. /\ mem \in Memory /\ f \in Frame /\ n \in Nat /\ page \in [Procs -> Frame]
      /\ outcome \in [Procs -> {"none", "ok", "swapped", "failed"}]
  BY DEF CoreInv, TypeOK
<1>2. o \in Offset /\ v \in Byte
  BY <1>1, StepTypes
<1>3. /\ r.mem \in Memory /\ r.frame \in Frame /\ r.ok \in BOOLEAN
      /\ ~Owned(mem, f) => ~r.ok /\ r.mem = mem
      /\ Owned(mem, f) => Retired(r.mem, f)
      /\ \A g \in Frame : g # f /\ (r.ok => g # r.frame) =>
           /\ r.mem.owner[g] = mem.owner[g] /\ r.mem.status[g] = mem.status[g]
           /\ r.mem.cells[g] = mem.cells[g]
      /\ r.mem.cells[f] = mem.cells[f]
      /\ r.ok => /\ r.frame # f /\ ~Owned(mem, r.frame) /\ Usable(mem, r.frame)
                 /\ r.mem.owner[r.frame] = mem.owner[f]
                 /\ r.mem.status[r.frame] = mem.status[r.frame]
                 /\ \A k \in Offset : r.mem.cells[r.frame][k] = Salvage(mem.cells[f][k])
  BY <1>1, RelocationFacts
<1>4. /\ Owned(mem, f) /\ ~r.ok => Available(mem) = {}
      /\ Available(r.mem) \subseteq Available(mem)
  BY <1>1, RelocationAndAvailable
<1>5. /\ mem' = (IF r.ok THEN WriteByte(r.mem, r.frame, o, v) ELSE r.mem)
      /\ page' = (IF r.ok THEN [page EXCEPT ![p] = r.frame] ELSE page)
      /\ outcome' = [outcome EXCEPT ![p] = IF r.ok THEN "swapped" ELSE "failed"]
  BY DEF StepWriteFault, HandleFault
<1>6. Owned(mem, f) => mem.owner[f] = p
  BY DEF CoreInv, PagesAreOwnedOrRetired, Retired
<1>7. \A q \in Procs : NoOwner # q
  BY DEF Procs, NoOwner
<1>8. /\ OwnersHold /\ StuckWhenFull /\ NoFrameIsShared /\ PagesAreOwnedOrRetired
  BY DEF SingleInv, CoreInv
<1> HIDE DEF r, o, v, n
<1>9. CASE ~r.ok
  <2>1. Available(mem) = {}
    BY <1>4, <1>6, <1>7, <1>8, <1>9 DEF StuckWhenFull, Owned
  <2>2. mem' = r.mem /\ page' = page
    BY <1>5, <1>9
  <2>3. mem'.owner[f] # p /\ mem'.cells[f] = mem.cells[f]
    BY <1>3, <1>7, <2>2 DEF Retired, Owned
  <2>4. ASSUME NEW q \in Procs, q # p
        PROVE  /\ page'[q] = page[q] /\ mem'.owner[page[q]] = mem.owner[page[q]]
               /\ mem'.status[page[q]] = mem.status[page[q]]
               /\ mem'.cells[page[q]] = mem.cells[page[q]]
    BY <1>1, <1>3, <1>8, <1>9, <2>2, <2>4 DEF NoFrameIsShared
  <2>5. ASSUME NEW q \in Procs, NEW g \in Frame, mem'.owner[g] = q PROVE page'[q] = g
    <3>1. CASE ~Owned(mem, f)
      BY <1>3, <1>8, <2>2, <2>5, <3>1 DEF OwnersHold
    <3>2. CASE Owned(mem, f)
      <4>1. g # f
        BY <1>3, <1>7, <2>2, <2>5, <3>2 DEF Retired, Owned
      <4>2. QED
        BY <1>3, <1>8, <1>9, <2>2, <2>5, <4>1 DEF OwnersHold
    <3>3. QED
      BY <3>1, <3>2
  <2>6. outcome' = [outcome EXCEPT ![p] = "failed"]
    BY <1>5, <1>9
  <2>7. QED
    BY <1>4, <2>1, <2>2, <2>3, <2>4, <2>5, <2>6
<1>10. CASE r.ok
  <2>1. Owned(mem, f) /\ mem.owner[f] = p
    BY <1>3, <1>6, <1>10
  <2>2. mem' = WriteByte(r.mem, r.frame, o, v) /\ page' = [page EXCEPT ![p] = r.frame]
    BY <1>5, <1>10
  <2>3. /\ mem'.owner = r.mem.owner /\ mem'.status = r.mem.status
        /\ \A g \in Frame : g # r.frame => mem'.cells[g] = r.mem.cells[g]
    BY <1>2, <1>3, <2>2, WriteByteFacts
  <2>4. Usable(r.mem, r.frame)
    BY <1>3, <1>10 DEF Usable
  <2>5. /\ mem'.cells[r.frame][o] = [val |-> v, noise |-> 0]
        /\ \A k \in Offset : k # o => mem'.cells[r.frame][k] = r.mem.cells[r.frame][k]
    BY <1>2, <1>3, <2>2, <2>4, WriteByteCells
  <2>6. \A k \in Offset : mem.cells[f][k].noise # 2
    BY <2>1, ProcessWordsAreReadable
  <2>7. \A k \in Offset : Salvage(mem.cells[f][k]) = [val |-> mem.cells[f][k].val, noise |-> 0]
    BY <2>6 DEF Salvage
  <2>8. \A q \in Procs : page[q] # r.frame
    BY <1>3, <1>7, <1>8, <1>10 DEF PagesAreOwnedOrRetired, Retired, Owned
  <2>9. ASSUME NEW q \in Procs, q # p
        PROVE  /\ page'[q] = page[q] /\ mem'.owner[page[q]] = mem.owner[page[q]]
               /\ mem'.status[page[q]] = mem.status[page[q]]
               /\ mem'.cells[page[q]] = mem.cells[page[q]]
    <3>1. page[q] \in Frame /\ page[q] # f /\ page[q] # r.frame /\ page'[q] = page[q]
      BY <1>1, <1>8, <2>2, <2>8, <2>9 DEF NoFrameIsShared
    <3>2. QED
      BY <1>3, <2>3, <3>1
  <2>10. page'[p] = r.frame /\ mem'.owner[r.frame] = p
    BY <1>1, <1>3, <1>10, <2>1, <2>2, <2>3
  <2>11. ASSUME NEW q \in Procs, NEW g \in Frame, mem'.owner[g] = q PROVE page'[q] = g
    <3>1. CASE g = r.frame
      BY <2>10, <2>11, <3>1
    <3>2. CASE g = f
      BY <1>3, <1>7, <2>1, <2>3, <2>11, <3>2 DEF Retired, Owned
    <3>3. CASE g # r.frame /\ g # f
      <4>1. mem.owner[g] = q
        BY <1>3, <2>3, <2>11, <3>3
      <4>2. page[q] = g /\ q # p
        BY <1>8, <3>3, <4>1 DEF OwnersHold
      <4>3. QED
        BY <2>9, <4>2
    <3>4. QED
      BY <3>1, <3>2, <3>3
  <2>12. Available(mem') \subseteq Available(mem)
    <3>1. Available(mem') \subseteq Available(r.mem)
      BY <2>3, AvailableKept DEF Usable
    <3>2. QED
      BY <1>4, <3>1
  <2>13. \A k \in Offset : k # o =>
           mem'.cells[r.frame][k] = [val |-> mem.cells[f][k].val, noise |-> 0]
    BY <1>3, <1>10, <2>5, <2>7
  <2>14. outcome' = [outcome EXCEPT ![p] = "swapped"]
    BY <1>5, <1>10
  <2>15. QED
    BY <1>3, <2>5, <2>9, <2>10, <2>11, <2>12, <2>13, <2>14 DEF o, v, n
<1>11. QED
  BY <1>3, <1>9, <1>10

LEMMA StepWriteFaultSingle ==
  ASSUME CoreInv, SingleInv, NEW p \in Procs, StepWriteFault(p)
  PROVE  SingleInv'
<1>1. /\ flips' = flips /\ phase = "step" /\ phase' = "step"
      /\ turn = p /\ turn' = p + 1
      /\ outcome \in [Procs -> {"none", "ok", "swapped", "failed"}]
  BY DEF StepWriteFault, EndOfStep, CoreInv, TypeOK
<1>2. \A q \in Procs : q # p =>
        /\ page'[q] = page[q] /\ mem'.owner[page[q]] = mem.owner[page[q]]
        /\ mem'.status[page[q]] = mem.status[page[q]]
        /\ mem'.cells[page[q]] = mem.cells[page[q]]
  BY StepWriteFaultOutcome
<1>3. Available(mem') \subseteq Available(mem) /\ OwnersHold'
  BY StepWriteFaultOutcome DEF OwnersHold
<1>14. \/ /\ outcome' = [outcome EXCEPT ![p] = "failed"] /\ page' = page
          /\ Available(mem) = {} /\ mem'.owner[page[p]] # p
       \/ /\ outcome' = [outcome EXCEPT ![p] = "swapped"] /\ mem'.owner[page'[p]] = p
          /\ \A k \in Offset : mem'.cells[page'[p]][k].noise = 0
  <2> DEFINE o == StepOffset(step[p] + 1)
  <2>2. ASSUME mem'.cells[page'[p]][o] = [val |-> StepValue(step[p] + 1), noise |-> 0],
               \A k \in Offset : k # o =>
                 mem'.cells[page'[p]][k] = [val |-> mem.cells[page[p]][k].val, noise |-> 0]
        PROVE  \A k \in Offset : mem'.cells[page'[p]][k].noise = 0
    <3>1. mem'.cells[page'[p]][o].noise = 0
      BY <2>2
    <3> HIDE DEF o
    <3>2. ASSUME NEW k \in Offset, k # o PROVE mem'.cells[page'[p]][k].noise = 0
      <4> DEFINE v == mem.cells[page[p]][k].val
      <4>1. mem'.cells[page'[p]][k] = [val |-> v, noise |-> 0]
        BY <2>2, <3>2
      <4> HIDE DEF v
      <4>2. QED
        BY <4>1
    <3>3. QED
      BY <3>1, <3>2
  <2>3. QED
    BY <2>2, StepWriteFaultOutcome
<1>4. /\ \A o \in Offset : ~Noisy(p, o)'
      /\ mem'.owner[page'[p]] # p => Available(mem) = {}
  BY <1>14 DEF Noisy
<1>5. \A q \in Procs : q # p => outcome'[q] = outcome[q]
  BY <1>1, <1>14
<1>6. outcome'[p] = "failed" => Available(mem) = {}
  BY <1>1, StepWriteFaultOutcome
<1>7. Calm
  BY <1>2, <1>4 DEF Calm, Noisy
<1>8. OneNoisyWord'
  BY <1>7, CalmKeepsOne DEF SingleInv
<1>9. LeftClean'
  <2> SUFFICES ASSUME NEW q \in Procs, HadTurn(q)', ~Usable(mem', page'[q]),
                      NEW o \in Offset, Noisy(q, o)'
               PROVE  FALSE
    BY DEF LeftClean
  <2>1. q # p
    BY <1>4
  <2>2. HadTurn(q)
    BY <1>1, <2>1 DEF HadTurn, Procs
  <2>3. ~Usable(mem, page[q]) /\ Noisy(q, o)
    BY <1>2, <1>7, <2>1 DEF Usable, Calm
  <2>4. QED
    BY <2>2, <2>3 DEF SingleInv, LeftClean
<1>10. StuckWhenFull'
  BY <1>2, <1>3, <1>4 DEF SingleInv, StuckWhenFull
<1>11. ProcessesResume'
  BY <1>3, <1>5, <1>6 DEF SingleInv, ProcessesResume
<1>12. CleanBeforeFlip'
  BY <1>1 DEF CleanBeforeFlip
<1>13. QED
  BY <1>1, <1>3, <1>8, <1>9, <1>10, <1>11, <1>12 DEF SingleInv

(* The scrubber relocates no process's frame, and takes none for it.       *)
LEMMA ScrubFaultOutcome ==
  ASSUME CoreInv, SingleInv, ScrubFault
  PROVE  /\ page' = page /\ Available(mem') \subseteq Available(mem)
         /\ \A q \in Procs :
              /\ mem'.owner[page[q]] = mem.owner[page[q]]
              /\ mem'.status[page[q]] = mem.status[page[q]]
              /\ mem'.cells[page[q]] = mem.cells[page[q]]
         /\ \A q \in Procs : \A g \in Frame : mem'.owner[g] = q => page[q] = g
<1> DEFINE d == ReadByte(mem, cur, at)
           r == RelocateAndQuarantine(d, cur)
<1>1. /\ mem \in Memory /\ cur \in Frame /\ at \in Offset /\ Owned(mem, cur)
      /\ page \in [Procs -> Frame]
  BY DEF CoreInv, TypeOK, ScrubbedFrameIsOwned, ScrubFault
<1>2. mem.cells[cur][at].noise = 2
  BY DEF ScrubFault, ReadFaults
<1>3. \A q \in Procs : mem.owner[cur] # q
  BY <1>1, <1>2, ProcessWordsAreReadable DEF SingleInv, OwnersHold
<1>4. /\ d \in Memory /\ d.owner = mem.owner
      /\ \A g \in Frame : ~Usable(mem, g) => ~Usable(d, g)
      /\ \A g \in Frame : g # cur => d.cells[g] = mem.cells[g] /\ d.status[g] = mem.status[g]
  BY <1>1, ReadByteFacts
<1>5. mem' = r.mem /\ page' = page
  BY DEF ScrubFault, procVars
<1> HIDE DEF d
<1>6. Owned(d, cur)
  BY <1>1, <1>4 DEF Owned
<1>7. /\ r.mem \in Memory /\ r.frame \in Frame /\ r.ok \in BOOLEAN
      /\ Retired(r.mem, cur)
      /\ \A g \in Frame : g # cur /\ (r.ok => g # r.frame) =>
           /\ r.mem.owner[g] = d.owner[g] /\ r.mem.status[g] = d.status[g]
           /\ r.mem.cells[g] = d.cells[g]
      /\ r.ok => /\ ~Owned(d, r.frame) /\ Usable(d, r.frame)
                 /\ r.mem.owner[r.frame] = d.owner[cur]
  BY <1>1, <1>4, <1>6, RelocationFacts
<1>8. Available(r.mem) \subseteq Available(mem)
  <2>1. Available(r.mem) \subseteq Available(d)
    BY <1>1, <1>4, RelocationAndAvailable
  <2>2. Available(d) \subseteq Available(mem)
    BY <1>4, AvailableKept
  <2>3. QED
    BY <2>1, <2>2
<1> HIDE DEF r
<1>9. \A q \in Procs : NoOwner # q
  BY DEF Procs, NoOwner
<1>10. ASSUME NEW q \in Procs
       PROVE  /\ mem'.owner[page[q]] = mem.owner[page[q]]
              /\ mem'.status[page[q]] = mem.status[page[q]]
              /\ mem'.cells[page[q]] = mem.cells[page[q]]
  <2>1. page[q] \in Frame /\ (mem.owner[page[q]] = q \/ Retired(mem, page[q]))
    BY <1>1 DEF CoreInv, PagesAreOwnedOrRetired
  <2>2. page[q] # cur
    BY <1>1, <1>3, <2>1 DEF Retired
  <2>3. r.ok => page[q] # r.frame
    BY <1>4, <1>7, <1>9, <2>1 DEF Retired, Owned
  <2>4. QED
    BY <1>4, <1>5, <1>7, <2>1, <2>2, <2>3
<1>11. ASSUME NEW q \in Procs, NEW g \in Frame, mem'.owner[g] = q PROVE page[q] = g
  <2>1. g # cur
    BY <1>5, <1>7, <1>9, <1>11 DEF Retired, Owned
  <2>2. ~(r.ok /\ g = r.frame)
    BY <1>3, <1>4, <1>5, <1>7, <1>11
  <2>3. mem.owner[g] = q
    BY <1>4, <1>5, <1>7, <1>11, <2>1, <2>2
  <2>4. QED
    BY <2>3 DEF SingleInv, OwnersHold
<1>12. QED
  BY <1>5, <1>8, <1>10, <1>11

LEMMA ScrubFaultSingle ==
  ASSUME CoreInv, SingleInv, ScrubFault
  PROVE  SingleInv'
<1>1. /\ outcome' = outcome /\ flips' = flips /\ phase = "sweep" /\ phase' = "sweep"
  BY DEF ScrubFault, procVars
<1>2. /\ page' = page /\ Available(mem') \subseteq Available(mem)
      /\ \A q \in Procs :
           /\ mem'.owner[page[q]] = mem.owner[page[q]]
           /\ mem'.status[page[q]] = mem.status[page[q]]
           /\ mem'.cells[page[q]] = mem.cells[page[q]]
  BY ScrubFaultOutcome
<1>3. OwnersHold'
  BY ScrubFaultOutcome DEF OwnersHold
<1>4. Calm
  BY <1>2 DEF Calm, Noisy
<1>5. OneNoisyWord'
  BY <1>4, CalmKeepsOne DEF SingleInv
<1>6. LeftClean'
  BY <1>1, <1>2, <1>4 DEF SingleInv, LeftClean, HadTurn, Usable, Calm
<1>7. StuckWhenFull' /\ ProcessesResume' /\ CleanBeforeFlip'
  BY <1>1, <1>2 DEF SingleInv, StuckWhenFull, ProcessesResume, CleanBeforeFlip
<1>8. QED
  BY <1>1, <1>3, <1>5, <1>6, <1>7 DEF SingleInv
-----------------------------------------------------------------------------
LEMMA InitSingle == Init => SingleInv
<1> SUFFICES ASSUME Init PROVE SingleInv
  OBVIOUS
<1>1. page \in [Procs -> Frame] /\ \A p \in Procs : page[p] = p - 1
  BY InitCoreInv DEF Init, CoreInv, TypeOK
<1>2. \A p \in Procs : \A f \in Frame : mem.owner[f] = p => f = p - 1
  BY DEF Init, BootOwner, Procs, Frame, KernelPid, NoOwner
<1>3. \A p \in Procs : mem.owner[page[p]] = p
  BY <1>1, CoreAssumption DEF Init, BootOwner, Procs, Frame
<1>4. \A p \in Procs : \A o \in Offset : ~Noisy(p, o)
  BY <1>1 DEF Init, Noisy, BlankPage
<1>5. phase = "idle" /\ \A p \in Procs : outcome[p] = "none"
  BY DEF Init
<1>6. QED
  BY <1>1, <1>2, <1>3, <1>4, <1>5
     DEF SingleInv, OwnersHold, OneNoisyWord, CleanBeforeFlip, LeftClean, HadTurn,
         StuckWhenFull, ProcessesResume

LEMMA NextSingle ==
  ASSUME FlipsPerTick <= 1
  PROVE  CoreInv /\ SingleInv /\ [Next]_vars => SingleInv'
<1> SUFFICES ASSUME CoreInv, SingleInv, [Next]_vars PROVE SingleInv'
  OBVIOUS
<1>1. ASSUME NEW f \in Frame, NEW o \in Offset, InjectMemoryFlip(f, o) PROVE SingleInv'
  BY <1>1, InjectSingle
<1>2. CASE BeginTick
  BY <1>2, BeginTickSingle
<1>3. ASSUME NEW p \in Procs, ExecuteStep(p) PROVE SingleInv'
  BY <1>3, StepWriteFaultSingle, StepDoneSingle, NoReadFault DEF ExecuteStep
<1>4. CASE BeginSweep
  BY <1>4, BeginSweepSingle
<1>5. CASE ScrubNextFrame \/ EndSweep
  BY <1>5, SweepBookkeepingSingle
<1>6. CASE ScrubWord
  BY <1>6, ScrubWordSingle
<1>7. CASE ScrubFault
  BY <1>7, ScrubFaultSingle
<1>8. CASE ExecuteOrbitalCalculation
  BY <1>8, OrbitalSingle
<1>9. CASE UNCHANGED vars
  <2>1. /\ mem' = mem /\ page' = page /\ outcome' = outcome /\ flips' = flips
        /\ phase' = phase /\ turn' = turn
    BY <1>9 DEF vars, procVars
  <2>2. LeftClean' /\ CleanBeforeFlip'
    BY <2>1, QuietStep DEF SingleInv, LeftClean, CleanBeforeFlip, HadTurn
  <2>3. QED
    BY <2>1, <2>2, QuietStep DEF SingleInv
<1>10. QED
  BY <1>1, <1>2, <1>3, <1>4, <1>5, <1>6, <1>7, <1>8, <1>9 DEF Next

LEMMA SingleInvariance ==
  ASSUME FlipsPerTick <= 1
  PROVE  Spec => [](CoreInv /\ SingleInv)
<1>1. Init => CoreInv /\ SingleInv
  BY InitCoreInv, InitSingle
<1>2. CoreInv /\ SingleInv /\ [Next]_vars => (CoreInv /\ SingleInv)'
  BY NextCoreInv, NextSingle
<1>3. QED
  BY <1>1, <1>2, PTL DEF Spec

(* dispatcher.rs: with one flip a tick, execute_step returns an error only *)
(* when no healthy frame is left.                                          *)
THEOREM StepsResume ==
  ASSUME FlipsPerTick <= 1
  PROVE  Spec => []ProcessesResume
<1>1. CoreInv /\ SingleInv => ProcessesResume
  BY DEF SingleInv
<1>2. QED
  BY <1>1, SingleInvariance, PTL
-----------------------------------------------------------------------------
(* What a process sees of its page, as a function of process and offset.   *)
LEMMA ContentIs ==
  /\ Content = [p \in Procs |-> Content[p]] /\ Content' = [p \in Procs |-> Content'[p]]
  /\ \A p \in Procs :
       /\ Content[p] = [o \in Offset |-> Content[p][o]]
       /\ Content'[p] = [o \in Offset |-> Content'[p][o]]
       /\ \A o \in Offset : /\ Content[p][o] = mem.cells[page[p]][o].val
                            /\ Content'[p][o] = mem'.cells[page'[p]][o].val
BY DEF Content

(* Steps that change no byte of what a process holds.                      *)
LEMMA ContentKept ==
  ASSUME \A p \in Procs : \A o \in Offset :
           mem'.cells[page'[p]][o].val = mem.cells[page[p]][o].val
  PROVE  Content' = Content
<1>1. ASSUME NEW p \in Procs PROVE Content'[p] = Content[p]
  BY <1>1, ContentIs
<1>2. QED
  BY <1>1, ContentIs

(* Steps that write one byte of one process's memory.                      *)
LEMMA ContentWritten ==
  ASSUME NEW p \in Procs, NEW o \in Offset, NEW v,
         mem'.cells[page'[p]][o].val = v,
         \A q \in Procs : \A k \in Offset : q # p \/ k # o =>
           mem'.cells[page'[q]][k].val = mem.cells[page[q]][k].val
  PROVE  Content' = [Content EXCEPT ![p][o] = v]
<1> DEFINE goal == [Content EXCEPT ![p][o] = v]
<1>1. ASSUME NEW q \in Procs, q # p PROVE Content'[q] = Content[q]
  BY <1>1, ContentIs
<1>2. Content'[p] = [Content[p] EXCEPT ![o] = v]
  <2>1. Content'[p][o] = v /\ \A k \in Offset : k # o => Content'[p][k] = Content[p][k]
    BY ContentIs
  <2>2. QED
    BY <2>1, ContentIs
<1>3. goal = [q \in Procs |-> IF q = p THEN [Content[p] EXCEPT ![o] = v] ELSE Content[q]]
  BY ContentIs
<1> HIDE DEF goal
<1>4. Content' = goal
  BY <1>1, <1>2, <1>3, ContentIs
<1>5. QED
  BY <1>4 DEF goal

LEMMA StepDoneImplements ==
  ASSUME CoreInv, NEW p \in Procs, StepDone(p)
  PROVE  Reliable!Execute(p)
<1> DEFINE n == step[p] + 1
           f == page[p]
           o == StepOffset(n)
           v == StepValue(n)
           w == WriteByte(mem, f, o, v)
           i == ReadOffset(n)
<1>1. /\ mem \in Memory /\ f \in Frame /\ n \in Nat /\ Usable(mem, f)
      /\ page \in [Procs -> Frame]
  BY DEF CoreInv, TypeOK, StepDone
<1>2. o \in Offset /\ v \in Byte /\ i \in Offset
  BY <1>1, StepTypes
<1>3. /\ w \in Memory /\ \A g \in Frame : g # f => w.cells[g] = mem.cells[g]
  BY <1>1, <1>2, WriteByteFacts
<1>4. /\ w.cells[f][o] = [val |-> v, noise |-> 0]
      /\ \A k \in Offset : k # o => w.cells[f][k] = mem.cells[f][k]
  BY <1>1, <1>2, WriteByteCells
<1>5. /\ mem' = ReadByte(w, f, i) /\ ~ReadFaults(w, f, i) /\ page' = page
      /\ step' = [step EXCEPT ![p] = n]
  BY DEF StepDone
<1>6. w.cells[f][o].val = v
  BY <1>4
<1> HIDE DEF w, i, o, v
<1>7. /\ \A g \in Frame : g # f => mem'.cells[g] = w.cells[g]
      /\ \A k \in Offset : mem'.cells[f][k].val = w.cells[f][k].val
  BY <1>1, <1>2, <1>3, <1>5, ReadByteFacts, ReadByteCells
<1>8. mem'.cells[page'[p]][o].val = v
  BY <1>2, <1>5, <1>6, <1>7
<1>9. ASSUME NEW q \in Procs, NEW k \in Offset, q # p \/ k # o
      PROVE  mem'.cells[page'[q]][k].val = mem.cells[page[q]][k].val
  <2>1. CASE q = p
    BY <1>4, <1>5, <1>7, <1>9, <2>1
  <2>2. CASE q # p
    <3>1. page[q] # f /\ page[q] \in Frame
      BY <1>1, <2>2 DEF CoreInv, NoFrameIsShared
    <3>2. QED
      BY <1>3, <1>5, <1>7, <3>1
  <2>3. QED
    BY <2>1, <2>2
<1>10. Content' = [Content EXCEPT ![p][o] = v]
  BY <1>2, <1>8, <1>9, ContentWritten
<1>11. QED
  BY <1>5, <1>10 DEF Reliable!Execute, o, v

LEMMA StepWriteFaultImplements ==
  ASSUME CoreInv, SingleInv, NEW p \in Procs, StepWriteFault(p)
  PROVE  Reliable!Execute(p) \/ UNCHANGED <<Content, step>>
<1>3. \A q \in Procs : q # p =>
        /\ page'[q] = page[q] /\ mem'.owner[page[q]] = mem.owner[page[q]]
        /\ mem'.status[page[q]] = mem.status[page[q]]
        /\ mem'.cells[page[q]] = mem.cells[page[q]]
  BY StepWriteFaultOutcome
<1> DEFINE o == StepOffset(step[p] + 1)
           v == StepValue(step[p] + 1)
<1>1. step' = step /\ step[p] + 1 \in Nat
  BY DEF StepWriteFault, CoreInv, TypeOK
<1>2. o \in Offset
  BY <1>1, StepTypes
<1>4. \/ page' = page /\ mem'.cells[page[p]] = mem.cells[page[p]]
      \/ /\ mem'.cells[page'[p]][o] = [val |-> v, noise |-> 0]
         /\ \A k \in Offset : k # o =>
              mem'.cells[page'[p]][k] = [val |-> mem.cells[page[p]][k].val, noise |-> 0]
  BY StepWriteFaultOutcome
<1> HIDE DEF o, v
<1>5. CASE page' = page /\ mem'.cells[page[p]] = mem.cells[page[p]]
  <2>1. Content' = Content
    BY <1>3, <1>5, ContentKept
  <2>2. QED
    BY <1>1, <2>1
<1>6. CASE /\ mem'.cells[page'[p]][o] = [val |-> v, noise |-> 0]
           /\ \A k \in Offset : k # o =>
                mem'.cells[page'[p]][k] = [val |-> mem.cells[page[p]][k].val, noise |-> 0]
  <2>1. mem'.cells[page'[p]][o].val = v
    BY <1>6
  <2>2. ASSUME NEW k \in Offset, k # o
        PROVE  mem'.cells[page'[p]][k].val = mem.cells[page[p]][k].val
    <3> DEFINE u == mem.cells[page[p]][k].val
    <3>1. mem'.cells[page'[p]][k] = [val |-> u, noise |-> 0]
      BY <1>6, <2>2
    <3> HIDE DEF u
    <3>2. mem'.cells[page'[p]][k].val = u
      BY <3>1
    <3>3. QED
      BY <3>2 DEF u
  <2>3. \A q \in Procs : \A k \in Offset : q # p \/ k # o =>
          mem'.cells[page'[q]][k].val = mem.cells[page[q]][k].val
    BY <1>3, <2>2
  <2>4. Content' = [Content EXCEPT ![p][o] = v]
    BY <1>2, <2>1, <2>3, ContentWritten
  <2>5. QED
    BY <1>1, <2>4 DEF Reliable!Execute, o, v
<1>7. QED
  BY <1>4, <1>5, <1>6

(* Of all other steps the processes see nothing.                           *)
LEMMA OthersKeepContent ==
  ASSUME CoreInv, SingleInv,
         \/ \E f \in Frame, o \in Offset : InjectMemoryFlip(f, o)
         \/ BeginTick \/ BeginSweep \/ ScrubNextFrame \/ ScrubWord \/ ScrubFault
         \/ EndSweep \/ ExecuteOrbitalCalculation \/ UNCHANGED vars
  PROVE  UNCHANGED <<Content, step>>
<1>1. mem \in Memory /\ page \in [Procs -> Frame]
  BY DEF CoreInv, TypeOK
<1>2. step' = step /\ page' = page
  BY DEF InjectMemoryFlip, BeginTick, BeginSweep, ScrubNextFrame, ScrubWord, ScrubFault,
         EndSweep, ExecuteOrbitalCalculation, vars, procVars
<1>3. ASSUME NEW f \in Frame, NEW o \in Offset, InjectMemoryFlip(f, o)
      PROVE  Content' = Content
  <2>1. PICK n : mem' = InjectBitFlip(mem, f, o, n)
    BY <1>3 DEF InjectMemoryFlip
  <2>2. QED
    BY <1>1, <1>2, <2>1, InjectBitFlipCells, ContentKept
<1>4. CASE ScrubWord
  <2>1. /\ cur \in Frame /\ at \in Offset
        /\ mem' = ReadByte(mem, cur, at) /\ ~ReadFaults(mem, cur, at)
    BY <1>4 DEF ScrubWord, CoreInv, TypeOK
  <2>2. \A g \in Frame : g # cur => mem'.cells[g] = mem.cells[g]
    BY <1>1, <2>1, ReadByteFacts
  <2>3. \A k \in Offset : mem'.cells[cur][k].val = mem.cells[cur][k].val
    BY <1>1, <2>1, ReadByteCells
  <2>4. ASSUME NEW p \in Procs, NEW k \in Offset
        PROVE  mem'.cells[page'[p]][k].val = mem.cells[page[p]][k].val
    BY <1>1, <1>2, <2>2, <2>3
  <2>5. Content' = Content
    BY <2>4, ContentKept
  <2>6. QED
    BY <1>2, <2>5
<1>5. CASE ScrubFault
  BY <1>2, <1>5, ScrubFaultOutcome, ContentKept
<1>6. CASE \/ BeginTick \/ BeginSweep \/ ScrubNextFrame
           \/ EndSweep \/ ExecuteOrbitalCalculation \/ UNCHANGED vars
  <2>1. mem' = mem
    BY <1>6 DEF BeginTick, BeginSweep, ScrubNextFrame, EndSweep,
                ExecuteOrbitalCalculation, vars
  <2>2. QED
    BY <1>2, <2>1, ContentKept
<1>7. QED
  BY <1>2, <1>3, <1>4, <1>5, <1>6

(* SECDED words, the scrubber and hot-swapping give each process memory    *)
(* without faults: with one flip a tick the kernel core implements         *)
(* ReliableMemory, whatever is repaired and relocated below.               *)
THEOREM MemoryIsReliable ==
  ASSUME FlipsPerTick <= 1
  PROVE  Spec => ReliableSpec
<1>1. Init => Reliable!RInit
  <2> SUFFICES ASSUME Init PROVE Reliable!RInit
    OBVIOUS
  <2>1. page \in [Procs -> Frame] /\ step = [p \in Procs |-> 0]
    BY InitCoreInv DEF Init, CoreInv, TypeOK
  <2>2. \A p \in Procs : \A o \in Offset : mem.cells[page[p]][o].val = 0
    BY <2>1 DEF Init, BlankPage
  <2>3. Content = [p \in Procs |-> [o \in Offset |-> 0]]
    BY <2>2 DEF Content
  <2>4. QED
    BY <2>1, <2>3 DEF Reliable!RInit
<1>2. CoreInv /\ SingleInv /\ [Next]_vars => [Reliable!RNext]_<<Content, step>>
  <2> SUFFICES ASSUME CoreInv, SingleInv, [Next]_vars
               PROVE  Reliable!RNext \/ UNCHANGED <<Content, step>>
    OBVIOUS
  <2>1. ASSUME NEW p \in Procs, ExecuteStep(p)
        PROVE  Reliable!RNext \/ UNCHANGED <<Content, step>>
    BY <2>1, StepDoneImplements, StepWriteFaultImplements, NoReadFault
       DEF ExecuteStep, Reliable!RNext
  <2>2. QED
    BY <2>1, OthersKeepContent DEF Next
<1>3. QED
  BY <1>1, <1>2, SingleInvariance, PTL
     DEF Spec, ReliableSpec, Reliable!RSpec, Reliable!rvars
=============================================================================
