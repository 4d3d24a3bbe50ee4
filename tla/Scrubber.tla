------------------------------ MODULE Scrubber ------------------------------
(***************************************************************************)
(* A whole sweep of the background scrubber as one operation on memory     *)
(* (memory-subsystem/src/scrubber.rs), for the modules whose operations    *)
(* never run in the middle of one.  Module SystemCore takes the same sweep *)
(* apart, word by word.                                                    *)
(***************************************************************************)
EXTENDS Frames

Scrubbable(m) == { f \in Frame : Owned(m, f) /\ Usable(m, f) }

(* The first word of a page that faults, or PageSize when none does.       *)
FirstFault(m, f) ==
  LET faults == { o \in Offset : ReadFaults(m, f, o) }
  IN  IF faults = {} THEN PageSize ELSE Lowest(faults)

(* The page after its words below upto have been read one after the other. *)
ReadWords(m, f, upto) ==
  LET read[o \in 0 .. upto] == IF o = 0 THEN m ELSE ReadByte(read[o - 1], f, o - 1)
  IN  read[upto]

(* One page: read up to the first fault; there, relocate.                  *)
ScrubPage(m, f) ==
  LET fault == FirstFault(m, f)
      read == ReadWords(m, f, fault)
  IN  IF fault = PageSize THEN read
      ELSE RelocateAndQuarantine(ReadByte(read, f, fault), f).mem

(* MemoryScrubber::sweep: the frames of the snapshot, lowest first.        *)
Sweep(m) ==
  LET swept[n \in 0 .. TotalPages] ==
        IF n = 0 THEN m
        ELSE IF n - 1 \in Scrubbable(m) \cap Scrubbable(swept[n - 1])
             THEN ScrubPage(swept[n - 1], n - 1)
             ELSE swept[n - 1]
  IN  swept[TotalPages]
=============================================================================
