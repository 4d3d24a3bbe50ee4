---------------------------- MODULE BoundedFifo ----------------------------
(***************************************************************************)
(* What the input queue promises: items leave in the order they arrived,   *)
(* each once, and one that arrives is dropped only when Capacity are       *)
(* waiting.                                                                *)
(***************************************************************************)
EXTENDS Integers, Sequences

CONSTANT Capacity

VARIABLES
  queue,   \* the items waiting
  taken    \* the item last taken

Offer(item) ==
  /\ queue' = IF Len(queue) < Capacity THEN Append(queue, item) ELSE queue
  /\ UNCHANGED taken

Take ==
  /\ queue # <<>>
  /\ taken' = Head(queue)
  /\ queue' = Tail(queue)
=============================================================================
