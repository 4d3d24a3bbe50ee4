--------------------------- MODULE ReliableMemory ---------------------------
(***************************************************************************)
(* What SECDED words, the scrubber and hot-swapping promise together: the  *)
(* memory a process sees has no faults.  Every process owns one page; a    *)
(* scheduling step writes one byte of it, and nothing else ever changes a  *)
(* byte.  Which byte step n writes is the code's business and a parameter. *)
(***************************************************************************)
EXTENDS Integers

CONSTANTS
  Procs,          \* the processes
  Pages,          \* the offsets of a page
  StepOffset(_),  \* the offset step n writes
  StepValue(_)    \* the byte step n writes there

VARIABLES
  content,        \* content[p][o]: the byte process p has at offset o
  executed        \* executed[p]: how many steps p has completed

rvars == <<content, executed>>

RInit ==
  /\ content = [p \in Procs |-> [o \in Pages |-> 0]]
  /\ executed = [p \in Procs |-> 0]

(* The write of step n = executed[p] + 1.  The step may end there without  *)
(* being counted (the caller will run the same step again) or complete.    *)
Execute(p) ==
  LET n == executed[p] + 1
  IN  /\ content' = [content EXCEPT ![p][StepOffset(n)] = StepValue(n)]
      /\ \/ executed' = [executed EXCEPT ![p] = n]
         \/ UNCHANGED executed

RNext == \E p \in Procs : Execute(p)

RSpec == RInit /\ [][RNext]_rvars
=============================================================================
