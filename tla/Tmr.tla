--------------------------------- MODULE Tmr ---------------------------------
(***************************************************************************)
(* The triple modular redundancy voter (scheduler/src/tmr.rs).  The        *)
(* descriptions of the faulty and the majority value that the status       *)
(* carries for the log are left out; the index of the faulty runner stays. *)
(***************************************************************************)
EXTENDS Integers

NoRunner == -1

(* The voter trusts runner 1 when the outer two disagree with each other.  *)
Vote_TrustsMiddle(r0, r1, r2) ==
  IF r0 = r1 /\ r1 = r2
  THEN [value |-> r0, status |-> "Perfect", faulty |-> NoRunner]
  ELSE [value |-> r1, status |-> "Corrected", faulty |-> IF r0 = r1 THEN 2 ELSE 0]

(* TmrVoter::vote: two equal results outvote the third.  A failed vote has *)
(* no value (None in the code), for which r0 stands here.                  *)
Vote(r0, r1, r2) ==
  CASE r0 = r1 /\ r1 = r2 ->
         [value |-> r0, status |-> "Perfect", faulty |-> NoRunner]
    [] r0 = r1 /\ r1 # r2 ->
         [value |-> r0, status |-> "Corrected", faulty |-> 2]
    [] r0 # r1 /\ r0 = r2 ->
         [value |-> r0, status |-> "Corrected", faulty |-> 1]
    [] r0 # r1 /\ r0 # r2 /\ r1 = r2 ->
         [value |-> r1, status |-> "Corrected", faulty |-> 0]
    [] OTHER -> [value |-> r0, status |-> "Failed", faulty |-> NoRunner]

(* TmrVoter::execute_redundant: the task runs three times, told its index. *)
ExecuteRedundant(task) == Vote(task[0], task[1], task[2])
=============================================================================
