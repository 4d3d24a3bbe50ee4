----------------------------- MODULE RingBuffer -----------------------------
(***************************************************************************)
(* The ring buffer between the interrupt handlers and the system calls     *)
(* (RingBuffer of kernel-x86/src/interrupts.rs).  As in the code, one slot *)
(* stays empty, so that a full ring can be told from an empty one.         *)
(***************************************************************************)
EXTENDS Integers, Sequences

CONSTANTS
  QueueSize,  \* slots of the ring (N, 256 in the code)
  Item,       \* what it holds
  NoItem      \* the None of a slot

ASSUME RingAssumption == QueueSize \in Nat /\ QueueSize >= 2 /\ NoItem \notin Item

Slot == 0 .. QueueSize - 1
Following(s) == (s + 1) % QueueSize

Ring == [data : [Slot -> Item \cup {NoItem}], head : Slot, tail : Slot]
EmptyRing == [data |-> [s \in Slot |-> NoItem], head |-> 0, tail |-> 0]

(* Without the look at the tail.                                           *)
Push_NoFullCheck(r, item) ==
  [r EXCEPT !.data[r.head] = item, !.head = Following(@)]

(* A full ring drops the item.                                             *)
Push(r, item) ==
  IF Following(r.head) = r.tail THEN r
  ELSE [r EXCEPT !.data[r.head] = item, !.head = Following(@)]

(* pop refuses an empty ring, and would refuse a None between tail and     *)
(* head.                                                                   *)
CanPop(r) == r.head # r.tail /\ r.data[r.tail] # NoItem
Popped(r) == r.data[r.tail]

(* The slot is read but not emptied.                                       *)
Pop_LeavesItem(r) == [r EXCEPT !.tail = Following(@)]

Pop(r) == [r EXCEPT !.data[r.tail] = NoItem, !.tail = Following(@)]

(* The items from tail to head, in order; the n-th is n - 1 slots on.      *)
Distance(s, t) == (s - t) % QueueSize
Place(t, n) == (t + n - 1) % QueueSize
Filled(r) == Distance(r.head, r.tail)
Queue(r) == [n \in 1 .. Filled(r) |-> r.data[Place(r.tail, n)]]

(* Exactly the slots from tail to head hold an item.                       *)
RingIsPacked(r) ==
  \A s \in Slot : r.data[s] # NoItem <=> Distance(s, r.tail) < Filled(r)
=============================================================================
