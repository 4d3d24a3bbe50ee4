------------------------------- MODULE Frames -------------------------------
(***************************************************************************)
(* Physical page frames and their allocator                                *)
(* (memory-subsystem/src/allocator.rs).                                    *)
(*                                                                         *)
(* A memory is a value: every operation of PhysicalFrame and of            *)
(* MemoryAllocator is an operator from the memory before the call to the   *)
(* memory after it, so that the modules that call the allocator (the       *)
(* scrubber, the dispatcher, the file system) compose its operations in    *)
(* the order the code does.                                                *)
(*                                                                         *)
(* A stored word is [val, noise]: the byte that was encoded and how far    *)
(* bit flips have taken the word from it.  Module Secded models the code   *)
(* itself and checks what noise stands for: a word with noise 0 decodes to *)
(* NoError, noise 1 to Corrected(val), noise 2 to Uncorrectable.  A flip   *)
(* moves noise by one, down when it undoes an earlier one.  MaxNoise names *)
(* the bound: a third simultaneous flip of one word is not modelled here.  *)
(***************************************************************************)
EXTENDS Integers

CONSTANTS
  TotalPages,   \* frames of physical memory (64 in the code)
  PageSize,     \* words of a frame (64 in the code)
  Tolerance     \* corrections after which a frame is quarantined (5)

ASSUME FramesAssumption ==
  /\ TotalPages \in Nat \ {0}
  /\ PageSize \in Nat \ {0}
  /\ Tolerance \in Nat /\ Tolerance >= 2

Frame == 0 .. TotalPages - 1
Offset == 0 .. PageSize - 1
Byte == 0 .. 255
NoOwner == -1
MaxNoise == 2

(* PageStatus: 0 is Healthy, n in 1 .. Tolerance - 1 is Recovered with     *)
(* corrected_count = n, and Tolerance is Quarantined.                      *)
PageStatus == 0 .. Tolerance
Quarantined == Tolerance

Cell == [val : Byte, noise : 0 .. MaxNoise]

(* The allocator: the frames' status, the allocation map and the words.    *)
Memory ==
  [status : [Frame -> PageStatus],
   owner  : [Frame -> Nat \cup {NoOwner}],
   cells  : [Frame -> [Offset -> Cell]]]

Usable(m, f) == m.status[f] # Quarantined
Owned(m, f) == m.owner[f] # NoOwner

(* A frame nobody may use again: quarantined and without an owner.         *)
Retired(m, f) == ~Usable(m, f) /\ ~Owned(m, f)

Lowest(S) == CHOOSE x \in S : \A y \in S : x <= y

(* MemoryAllocator::new: every word is the encoding of 0.                  *)
BlankPage == [o \in Offset |-> [val |-> 0, noise |-> 0]]
-----------------------------------------------------------------------------
(* PhysicalFrame::write_byte.  It fails on a quarantined frame (callers    *)
(* test Usable first); otherwise the whole word is encoded afresh.         *)
WriteByte(m, f, o, v) ==
  IF Usable(m, f)
  THEN [m EXCEPT !.cells[f][o] = [val |-> v, noise |-> 0]]
  ELSE m

(* PhysicalFrame::read_byte returns Err, a page fault, on a word that      *)
(* cannot be decoded; whether the frame is quarantined plays no part.      *)
ReadFaults(m, f, o) == m.cells[f][o].noise = 2

(* It returns a CorrectionEvent when it repaired a single-bit flip.        *)
ReadCorrects(m, f, o) == m.cells[f][o].noise = 1

(* The counter runs past the tolerance.                                    *)
CountRepair_Unbounded(s) == s + 1

(* The frame after one repair: Healthy, Recovered, ..., Quarantined.       *)
CountRepair(s) == IF s < Tolerance THEN s + 1 ELSE s

(* The memory after read_byte: a corrected word is re-encoded in place and *)
(* counted against its frame, an uncorrectable one quarantines the frame.  *)
ReadByte(m, f, o) ==
  CASE ReadFaults(m, f, o) -> [m EXCEPT !.status[f] = Quarantined]
    [] ReadCorrects(m, f, o) -> [m EXCEPT !.cells[f][o].noise = 0,
                                          !.status[f] = CountRepair(@)]
    [] OTHER -> m

(* MemoryAllocator::inject_bit_flip: the word ends n flips away.           *)
FlipTo(m, f, o) ==
  { n \in 0 .. MaxNoise : n \in {m.cells[f][o].noise - 1, m.cells[f][o].noise + 1} }
InjectBitFlip(m, f, o, n) == [m EXCEPT !.cells[f][o].noise = n]
-----------------------------------------------------------------------------
(* The allocator forgets to look at the health of a free frame.            *)
Available_AnyStatus(m) == { f \in Frame : ~Owned(m, f) }

(* The frames allocate_page may hand out; it takes the lowest index.  The  *)
(* words keep what the previous owner left in them.                        *)
Available(m) == { f \in Frame : ~Owned(m, f) /\ Usable(m, f) }
NextFree(m) == Lowest(Available(m))
AllocatePage(m, pid) == [m EXCEPT !.owner[NextFree(m)] = pid]

(* MemoryAllocator::deallocate_page: status and words stay as they are.    *)
DeallocatePage(m, f) == [m EXCEPT !.owner[f] = NoOwner]

(* The damaged frame is quarantined but not taken from its owner.          *)
Retire_KeepsOwner(m, f) == [m EXCEPT !.status[f] = Quarantined]

(* The two assignments relocate_and_quarantine makes before it allocates.  *)
Retire(m, f) == [m EXCEPT !.status[f] = Quarantined, !.owner[f] = NoOwner]

(* What relocation saves of a word: an uncorrectable one becomes 0.        *)
Salvage(c) == [val |-> IF c.noise = 2 THEN 0 ELSE c.val, noise |-> 0]

(* The copy drops every word that needed a correction.                     *)
Migrate_CleanOnly(m, from, to) ==
  [m EXCEPT !.owner[to] = m.owner[from],
            !.cells[to] = [o \in Offset |->
               IF m.cells[from][o].noise = 0 THEN m.cells[from][o]
               ELSE [val |-> 0, noise |-> 0]]]

(* The replacement is allocated for PID 0 and not for the owner.           *)
Migrate_ToKernel(m, from, to) ==
  [m EXCEPT !.owner[to] = 0,
            !.cells[to] = [o \in Offset |-> Salvage(m.cells[from][o])]]

(* The allocation of frame to for the owner of from, and the copy.         *)
Migrate(m, from, to) ==
  [m EXCEPT !.owner[to] = m.owner[from],
            !.cells[to] = [o \in Offset |-> Salvage(m.cells[from][o])]]

(* MemoryAllocator::relocate_and_quarantine.  It refuses a frame without   *)
(* an owner; when no frame is left it fails with the damaged frame already *)
(* retired; otherwise the owner gets the lowest available frame with the   *)
(* salvaged words.                                                         *)
RelocateAndQuarantine(m, f) ==
  LET to == NextFree(m)
  IN  CASE ~Owned(m, f) -> [ok |-> FALSE, frame |-> f, mem |-> m]
        [] Owned(m, f) /\ Available(m) = {} ->
             [ok |-> FALSE, frame |-> f, mem |-> Retire(m, f)]
        [] OTHER -> [ok |-> TRUE, frame |-> to,
                     mem |-> Retire(Migrate(m, f, to), f)]
=============================================================================
