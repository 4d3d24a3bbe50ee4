----------------------------- MODULE SystemCore -----------------------------
(***************************************************************************)
(* The kernel core: the dispatcher stepping its processes over SECDED      *)
(* pages, the background scrubber, the orbital calculation under TMR and   *)
(* the metrics (kernel-core/src/bootstrap.rs, scheduler/src/dispatcher.rs, *)
(* memory-subsystem/src/scrubber.rs).                                      *)
(*                                                                         *)
(* SystemCore::tick runs to completion on one thread.  It is cut here into *)
(* one action per call it makes (a step of one process, a word read by the *)
(* scrubber, a calculation), ordered by phase; bit flips arrive between    *)
(* ticks, through inject_memory_flip.                                      *)
(***************************************************************************)
EXTENDS Frames, Tmr, FiniteSets

CONSTANTS
  NumProcs,      \* processes spawned at boot (3 in the code)
  BootFrames,    \* frames the boot-time files occupy, owned by PID 0
  AluPeriod,     \* every how many calculations runner 1 is corrupted (5)
  FlipsPerTick,  \* bound: bit flips that may arrive between two ticks
  MaxTicks       \* bound: how many ticks are explored

ASSUME CoreAssumption ==
  /\ NumProcs \in Nat \ {0}
  /\ BootFrames \in Nat
  /\ NumProcs + BootFrames <= TotalPages
  /\ AluPeriod \in Nat \ {0}
  /\ FlipsPerTick \in Nat
  /\ MaxTicks \in Nat

Procs == 1 .. NumProcs
KernelPid == 0
NoFrame == -1

VARIABLES
  mem,      \* the allocator and its frames
  page,     \* page[p]: the frame in allocated_pages[0] of process p
  step,     \* step[p]: instruction_step of process p
  outcome,  \* outcome[p]: how p's last execute_step returned; tick drops it
  phase,    \* where tick is: "idle" between two ticks
  turn,     \* the process to step next
  todo,     \* frames of the sweep's snapshot not inspected yet
  cur, at,  \* the frame the sweep is reading, and the next offset of it
  report,   \* the sweep's ScrubReport: corrections and relocations
  metrics,  \* the counters of SystemCore
  orbit,    \* what the last orbital calculation returned
  flips     \* bit flips since the last tick

procVars == <<page, step, outcome>>
sweepVars == <<todo, cur, at, report>>
vars == <<mem, procVars, phase, turn, sweepVars, metrics, orbit, flips>>

(* spawn_process takes the lowest free frame for each process in turn, and *)
(* the boot-time files take the next ones.                                 *)
BootOwner ==
  [f \in Frame |->
     IF f < NumProcs THEN f + 1
     ELSE IF f < NumProcs + BootFrames THEN KernelPid
     ELSE NoOwner]

Metrics == [sweeps : Nat, corrections : Nat, quarantined : Nat,
            relocated : Nat, tmrOps : Nat, tmrCorrections : Nat]
NoReport == [corrections |-> 0, relocations |-> 0]
NoVote == [value |-> 0, status |-> "None", faulty |-> NoRunner]

Init ==
  /\ mem = [status |-> [f \in Frame |-> 0],
            owner  |-> BootOwner,
            cells  |-> [f \in Frame |-> BlankPage]]
  /\ page = [p \in Procs |-> p - 1]
  /\ step = [p \in Procs |-> 0]
  /\ outcome = [p \in Procs |-> "none"]
  /\ phase = "idle" /\ turn = 1
  /\ todo = {} /\ cur = NoFrame /\ at = 0 /\ report = NoReport
  /\ metrics = [sweeps |-> 0, corrections |-> 0, quarantined |-> 0,
                relocated |-> 0, tmrOps |-> 0, tmrCorrections |-> 0]
  /\ orbit = NoVote
  /\ flips = 0
-----------------------------------------------------------------------------
(* A cosmic ray, between two ticks.                                        *)
InjectMemoryFlip(f, o) ==
  /\ phase = "idle" /\ flips < FlipsPerTick /\ metrics.sweeps < MaxTicks
  /\ \E n \in FlipTo(mem, f, o) : mem' = InjectBitFlip(mem, f, o, n)
  /\ flips' = flips + 1
  /\ UNCHANGED <<procVars, phase, turn, sweepVars, metrics, orbit>>

BeginTick ==
  /\ phase = "idle" /\ metrics.sweeps < MaxTicks
  /\ phase' = "step" /\ turn' = 1 /\ flips' = 0
  /\ UNCHANGED <<mem, procVars, sweepVars, metrics, orbit>>
-----------------------------------------------------------------------------
(* Where step n of a process writes, what, and where it reads back.        *)
StepOffset(n) == (n * 7) % PageSize
StepValue(n) == (n * 17) % 256
ReadOffset(n) == IF n > 1 THEN StepOffset(n - 1) ELSE StepOffset(n)

(* The dispatcher keeps using the frame it has just quarantined.           *)
HandleFault_KeepsPage(p, r) == UNCHANGED page

(* handle_fault: with the frame relocated (r.ok), the process's page table *)
(* entry is swapped; with relocation failed it stays.                      *)
HandleFault(p, r) == page' = IF r.ok THEN [page EXCEPT ![p] = r.frame] ELSE page

EndOfStep == turn' = turn + 1 /\ UNCHANGED <<phase, sweepVars, metrics, orbit, flips>>

(* The write is refused (the frame is quarantined): relocate, write on the *)
(* fresh frame and return without counting the step.                       *)
StepWriteFault(p) ==
  LET n == step[p] + 1
      r == RelocateAndQuarantine(mem, page[p])
  IN  /\ phase = "step" /\ turn = p
      /\ ~Usable(mem, page[p])
      /\ mem' = IF r.ok THEN WriteByte(r.mem, r.frame, StepOffset(n), StepValue(n))
                ELSE r.mem
      /\ HandleFault(p, r)
      /\ outcome' = [outcome EXCEPT ![p] = IF r.ok THEN "swapped" ELSE "failed"]
      /\ UNCHANGED step
      /\ EndOfStep

(* The write succeeds and so does the read of the previous step's byte.    *)
StepDone(p) ==
  LET n == step[p] + 1
      written == WriteByte(mem, page[p], StepOffset(n), StepValue(n))
  IN  /\ phase = "step" /\ turn = p
      /\ Usable(mem, page[p])
      /\ ~ReadFaults(written, page[p], ReadOffset(n))
      /\ mem' = ReadByte(written, page[p], ReadOffset(n))
      /\ step' = [step EXCEPT ![p] = n]
      /\ outcome' = [outcome EXCEPT ![p] = "ok"]
      /\ UNCHANGED page
      /\ EndOfStep

(* The write succeeds and the read faults: relocate and read again on the  *)
(* fresh frame, whose words are all clean, so that the retry succeeds.     *)
StepReadFault(p) ==
  LET n == step[p] + 1
      written == WriteByte(mem, page[p], StepOffset(n), StepValue(n))
      r == RelocateAndQuarantine(ReadByte(written, page[p], ReadOffset(n)), page[p])
  IN  /\ phase = "step" /\ turn = p
      /\ Usable(mem, page[p])
      /\ ReadFaults(written, page[p], ReadOffset(n))
      /\ mem' = r.mem
      /\ HandleFault(p, r)
      /\ step' = IF r.ok THEN [step EXCEPT ![p] = n] ELSE step
      /\ outcome' = [outcome EXCEPT ![p] = IF r.ok THEN "swapped" ELSE "failed"]
      /\ EndOfStep

(* execute_step, called for each process in turn.                          *)
ExecuteStep(p) == StepWriteFault(p) \/ StepDone(p) \/ StepReadFault(p)
-----------------------------------------------------------------------------
(* The frames MemoryScrubber::sweep inspects, and tests again on reaching. *)
Scrubbable == { f \in Frame : Owned(mem, f) /\ Usable(mem, f) }

BeginSweep ==
  /\ phase = "step" /\ turn > NumProcs
  /\ phase' = "sweep"
  /\ todo' = Scrubbable /\ cur' = NoFrame /\ at' = 0 /\ report' = NoReport
  /\ metrics' = [metrics EXCEPT !.sweeps = @ + 1]
  /\ UNCHANGED <<mem, procVars, turn, orbit, flips>>

ScrubNextFrame ==
  /\ phase = "sweep" /\ cur = NoFrame /\ todo \cap Scrubbable # {}
  /\ cur' = Lowest(todo \cap Scrubbable)
  /\ todo' = { f \in todo : f > cur' }
  /\ at' = 0
  /\ UNCHANGED <<mem, procVars, phase, turn, report, metrics, orbit, flips>>

(* The scrubber leaves a page after its first repaired word.               *)
ScrubWord_StopsAfterRepair ==
  /\ phase = "sweep" /\ cur # NoFrame
  /\ ~ReadFaults(mem, cur, at)
  /\ mem' = ReadByte(mem, cur, at)
  /\ report' = [report EXCEPT !.corrections =
                  IF ReadCorrects(mem, cur, at) THEN @ + 1 ELSE @]
  /\ IF at + 1 = PageSize \/ ReadCorrects(mem, cur, at)
     THEN cur' = NoFrame /\ at' = 0
     ELSE at' = at + 1 /\ UNCHANGED cur
  /\ UNCHANGED <<procVars, phase, turn, todo, metrics, orbit, flips>>

(* One word of the page under inspection is read, and repaired if need be. *)
ScrubWord ==
  /\ phase = "sweep" /\ cur # NoFrame
  /\ ~ReadFaults(mem, cur, at)
  /\ mem' = ReadByte(mem, cur, at)
  /\ report' = [report EXCEPT !.corrections =
                  IF ReadCorrects(mem, cur, at) THEN @ + 1 ELSE @]
  /\ IF at + 1 = PageSize THEN cur' = NoFrame /\ at' = 0
     ELSE at' = at + 1 /\ UNCHANGED cur
  /\ UNCHANGED <<procVars, phase, turn, todo, metrics, orbit, flips>>

(* An uncorrectable word: the rest of the page is skipped and the frame is *)
(* relocated.  Whoever holds the frame is not told; a failure is ignored.  *)
ScrubFault ==
  LET r == RelocateAndQuarantine(ReadByte(mem, cur, at), cur)
  IN  /\ phase = "sweep" /\ cur # NoFrame
      /\ ReadFaults(mem, cur, at)
      /\ mem' = r.mem
      /\ report' = [report EXCEPT !.relocations = IF r.ok THEN @ + 1 ELSE @]
      /\ cur' = NoFrame /\ at' = 0
      /\ UNCHANGED <<procVars, phase, turn, todo, metrics, orbit, flips>>

(* The report's corrections are counted as quarantined frames, too.        *)
EndSweep_CountsCorrections ==
  /\ phase = "sweep" /\ cur = NoFrame /\ todo \cap Scrubbable = {}
  /\ metrics' = [metrics EXCEPT
       !.corrections = @ + report.corrections,
       !.quarantined = @ + report.relocations + report.corrections,
       !.relocated = @ + report.relocations]
  /\ phase' = "orbital" /\ todo' = {}
  /\ UNCHANGED <<mem, procVars, turn, cur, at, report, orbit, flips>>

(* The sweep returns and update_metrics_from_scrub adds its report.        *)
EndSweep ==
  /\ phase = "sweep" /\ cur = NoFrame /\ todo \cap Scrubbable = {}
  /\ metrics' = [metrics EXCEPT
       !.corrections = @ + report.corrections,
       !.quarantined = @ + report.relocations,
       !.relocated = @ + report.relocations]
  /\ phase' = "orbital" /\ todo' = {}
  /\ UNCHANGED <<mem, procVars, turn, cur, at, report, orbit, flips>>
-----------------------------------------------------------------------------
(* The orbital calculation: 7500 * 3 by three runners; every AluPeriod-th  *)
(* time bit 5 of runner 1's result is flipped.                             *)
DeltaV == 22500
AluFlip(op) == op % AluPeriod = 0
Runner(op) == [i \in 0 .. 2 |-> IF AluFlip(op) /\ i = 1 THEN DeltaV - 32 ELSE DeltaV]

ExecuteOrbitalCalculation ==
  LET op == metrics.tmrOps + 1
  IN  /\ phase = "orbital"
      /\ orbit' = ExecuteRedundant(Runner(op))
      /\ metrics' = [metrics EXCEPT
           !.tmrOps = op,
           !.tmrCorrections = IF AluFlip(op) THEN @ + 1 ELSE @]
      /\ phase' = "idle"
      /\ UNCHANGED <<mem, procVars, turn, sweepVars, flips>>
-----------------------------------------------------------------------------
Next ==
  \/ \E f \in Frame, o \in Offset : InjectMemoryFlip(f, o)
  \/ BeginTick
  \/ \E p \in Procs : ExecuteStep(p)
  \/ BeginSweep
  \/ ScrubNextFrame
  \/ ScrubWord
  \/ ScrubFault
  \/ EndSweep
  \/ ExecuteOrbitalCalculation

Spec == Init /\ [][Next]_vars
-----------------------------------------------------------------------------
TypeOK ==
  /\ mem \in Memory
  /\ page \in [Procs -> Frame]
  /\ step \in [Procs -> Nat]
  /\ outcome \in [Procs -> {"none", "ok", "swapped", "failed"}]
  /\ phase \in {"idle", "step", "sweep", "orbital"}
  /\ turn \in 1 .. NumProcs + 1
  /\ todo \subseteq Frame
  /\ cur \in Frame \cup {NoFrame}
  /\ at \in Offset
  /\ report \in [corrections : Nat, relocations : Nat]
  /\ metrics \in Metrics
  /\ orbit.value \in Nat
  /\ flips \in Nat

(* A process holds its frame (allocated_pages) and owns it (allocation     *)
(* map), or the frame is retired.  Two processes never hold one frame, so  *)
(* whatever the relocations did, no process writes another's memory.       *)
PagesAreOwnedOrRetired ==
  \A p \in Procs :
    \/ mem.owner[page[p]] = p
    \/ Retired(mem, page[p])

NoFrameIsShared ==
  \A p, q \in Procs : page[p] = page[q] => p = q

(* Relocations hand memory over one for one: no process ever owns a second *)
(* frame, however many of its frames failed, in whatever order the         *)
(* dispatcher and the scrubber found out.                                  *)
OneFramePerProcess ==
  \A p \in Procs : \A f, g \in Frame :
    mem.owner[f] = p /\ mem.owner[g] = p => f = g

(* Quarantine is for ever: a retired frame gets no owner again and no byte *)
(* of it changes but by a bit flip, whoever still holds its number.        *)
RetiredFramesStayRetired ==
  [][\A f \in Frame : Retired(mem, f) =>
       /\ Retired(mem', f)
       /\ phase # "idle" => mem'.cells[f] = mem.cells[f]]_mem

(* When a sweep has ended, no frame it is responsible for (owned and not   *)
(* quarantined) holds a flipped bit, those it relocated to included.       *)
SweepLeavesMemoryClean ==
  phase = "orbital" =>
    \A f \in Scrubbable : \A o \in Offset : mem.cells[f][o].noise = 0

(* Why that is so: at any time of a sweep a flipped bit sits in a frame it *)
(* will still reach, or in the words of the current page it has not read.  *)
SweepProgress ==
  phase = "sweep" =>
    \A f \in Scrubbable : \A o \in Offset :
      \/ mem.cells[f][o].noise = 0
      \/ f \in todo
      \/ f = cur /\ o >= at

(* The page under inspection keeps its owner until the sweep leaves it.    *)
ScrubbedFrameIsOwned ==
  phase = "sweep" /\ cur # NoFrame => Owned(mem, cur)

(* The inductive invariant: the properties above and what they rest on.    *)
CoreInv ==
  /\ TypeOK
  /\ PagesAreOwnedOrRetired
  /\ NoFrameIsShared
  /\ OneFramePerProcess
  /\ ScrubbedFrameIsOwned
  /\ SweepProgress
  /\ SweepLeavesMemoryClean

(* The metric counts no frame that is not quarantined.                     *)
QuarantineCountIsSound ==
  metrics.quarantined + (IF phase = "sweep" THEN report.relocations ELSE 0)
    <= Cardinality({ f \in Frame : ~Usable(mem, f) })

(* The register flip simulated in a runner never reaches the navigation:   *)
(* each calculation yields 22500, and tmr_voter_corrections counts exactly *)
(* the votes the voter had to correct.                                     *)
OrbitalResultSurvives ==
  [][phase = "orbital" =>
       /\ orbit'.value = DeltaV /\ orbit'.status # "Failed"
       /\ metrics'.tmrCorrections - metrics.tmrCorrections
            = (IF orbit'.status = "Corrected" THEN 1 ELSE 0)]_vars

(* The dispatcher retries and resumes (dispatcher.rs lines 14 to 19): as   *)
(* long as a healthy frame is left, no execute_step returns an error.      *)
ProcessesResume ==
  \A p \in Procs : outcome[p] = "failed" => Available(mem) = {}

(* The refinement: a process's memory is what its frame holds.             *)
Content == [p \in Procs |-> [o \in Offset |-> mem.cells[page[p]][o].val]]

Reliable == INSTANCE ReliableMemory
  WITH Pages <- Offset, content <- Content, executed <- step

ReliableSpec == Reliable!RSpec
=============================================================================
