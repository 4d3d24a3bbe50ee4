---------------------------- MODULE InputPathProofs ----------------------------
(* That the ring of interrupts.rs is a bounded queue, for every size of it, *)
(* and that nobody spins on a lock and no timeout overlooks input, for any  *)
(* number of threads.                                                       *)
EXTENDS InputPath, SequenceTheorems, TLAPS

(* The remainders the ring computes with are one step back at most.        *)
LEMMA Remainders ==
  ASSUME NEW x \in Int
  PROVE  /\ x \in 0 .. QueueSize - 1 => x % QueueSize = x
         /\ x \in QueueSize .. 2 * QueueSize - 1 => x % QueueSize = x - QueueSize
         /\ x \in 1 - QueueSize .. -1 => x % QueueSize = x + QueueSize
BY RingAssumption, SMT

LEMMA FollowingIs ==
  ASSUME NEW s \in Slot
  PROVE  /\ Following(s) = IF s + 1 = QueueSize THEN 0 ELSE s + 1
         /\ Following(s) \in Slot
<1>1. QueueSize \in Nat /\ QueueSize >= 2 /\ s \in 0 .. QueueSize - 1
  BY RingAssumption DEF Slot
<1> DEFINE x == s + 1
<1>2. x \in Int /\ x \in 1 .. QueueSize
  BY <1>1
<1> HIDE DEF x
<1>3. x % QueueSize = IF x = QueueSize THEN 0 ELSE x
  BY <1>1, <1>2, Remainders
<1> QED BY <1>1, <1>2, <1>3 DEF x, Following, Slot

LEMMA DistanceIs ==
  ASSUME NEW s \in Slot, NEW t \in Slot
  PROVE  /\ Distance(s, t) = IF s >= t THEN s - t ELSE s - t + QueueSize
         /\ Distance(s, t) \in 0 .. QueueSize - 1
<1>1. QueueSize \in Nat /\ QueueSize >= 2
      /\ s \in 0 .. QueueSize - 1 /\ t \in 0 .. QueueSize - 1
  BY RingAssumption DEF Slot
<1> DEFINE x == s - t
<1>2. x \in Int /\ x \in 1 - QueueSize .. QueueSize - 1
  BY <1>1
<1> HIDE DEF x
<1>3. x % QueueSize = IF x >= 0 THEN x ELSE x + QueueSize
  BY <1>1, <1>2, Remainders
<1> QED BY <1>1, <1>2, <1>3 DEF x, Distance

LEMMA PlaceIs ==
  ASSUME NEW t \in Slot, NEW n \in 1 .. QueueSize
  PROVE  /\ Place(t, n) = IF t + n - 1 < QueueSize THEN t + n - 1
                          ELSE t + n - 1 - QueueSize
         /\ Place(t, n) \in Slot
<1>1. QueueSize \in Nat /\ QueueSize >= 2
      /\ t \in 0 .. QueueSize - 1 /\ n \in 1 .. QueueSize
  BY RingAssumption DEF Slot
<1> DEFINE x == t + n - 1
<1>2. x \in Int /\ x \in 0 .. 2 * QueueSize - 1
  BY <1>1
<1> HIDE DEF x
<1>3. x % QueueSize = IF x < QueueSize THEN x ELSE x - QueueSize
  BY <1>1, <1>2, Remainders
<1> QED BY <1>1, <1>2, <1>3 DEF x, Place, Slot

LEMMA DistancePlace ==
  ASSUME NEW t \in Slot, NEW n \in 1 .. QueueSize
  PROVE  Distance(Place(t, n), t) = n - 1
<1>1. Place(t, n) \in Slot
      /\ Place(t, n) = IF t + n - 1 < QueueSize THEN t + n - 1 ELSE t + n - 1 - QueueSize
  BY PlaceIs
<1>2. Distance(Place(t, n), t) =
        IF Place(t, n) >= t THEN Place(t, n) - t ELSE Place(t, n) - t + QueueSize
  BY <1>1, DistanceIs
<1> QED BY <1>1, <1>2, RingAssumption DEF Slot

LEMMA PlaceFirst == \A t \in Slot : Place(t, 1) = t
<1> SUFFICES ASSUME NEW t \in Slot PROVE Place(t, 1) = t
  OBVIOUS
<1>1. Place(t, 1) = IF t + 1 - 1 < QueueSize THEN t + 1 - 1 ELSE t + 1 - 1 - QueueSize
  BY PlaceIs, RingAssumption
<1> QED BY <1>1, RingAssumption DEF Slot

(* How many items there are, and where.                                    *)
LEMMA QueueShape ==
  ASSUME NEW r \in Ring
  PROVE  /\ Filled(r) = IF r.head >= r.tail THEN r.head - r.tail
                        ELSE r.head - r.tail + QueueSize
         /\ Filled(r) \in 0 .. QueueSize - 1
         /\ Queue(r) = [n \in 1 .. Filled(r) |-> r.data[Place(r.tail, n)]]
         /\ Len(Queue(r)) = Filled(r)
         /\ \A n \in 1 .. QueueSize : Place(r.tail, n) \in Slot
         /\ Filled(r) = 0 <=> r.head = r.tail
<1>1. QueueSize \in Nat /\ QueueSize >= 2 /\ r.head \in Slot /\ r.tail \in Slot
  BY RingAssumption DEF Ring
<1>2. Filled(r) = IF r.head >= r.tail THEN r.head - r.tail
                  ELSE r.head - r.tail + QueueSize
  BY <1>1, DistanceIs DEF Filled
<1>3. Filled(r) \in 0 .. QueueSize - 1 /\ (Filled(r) = 0 <=> r.head = r.tail)
  BY <1>1, <1>2 DEF Slot
<1>4. Queue(r) = [n \in 1 .. Filled(r) |-> r.data[Place(r.tail, n)]]
  BY DEF Queue
<1>5. Len(Queue(r)) = Filled(r)
  BY <1>3, <1>4
<1>6. \A n \in 1 .. QueueSize : Place(r.tail, n) \in Slot
  BY <1>1, PlaceIs
<1> QED BY <1>2, <1>3, <1>4, <1>5, <1>6

LEMMA HeadPlace ==
  ASSUME NEW r \in Ring
  PROVE  /\ Place(r.tail, Filled(r) + 1) = r.head
         /\ \A n \in 1 .. Filled(r) : Place(r.tail, n) # r.head
<1>1. QueueSize \in Nat /\ QueueSize >= 2 /\ r.head \in Slot /\ r.tail \in Slot
  BY RingAssumption DEF Ring
<1>2. /\ Filled(r) = IF r.head >= r.tail THEN r.head - r.tail
                     ELSE r.head - r.tail + QueueSize
      /\ Filled(r) \in 0 .. QueueSize - 1
  BY QueueShape
<1>3. Filled(r) + 1 \in 1 .. QueueSize
  BY <1>1, <1>2
<1>4. Place(r.tail, Filled(r) + 1) =
        IF r.tail + (Filled(r) + 1) - 1 < QueueSize THEN r.tail + (Filled(r) + 1) - 1
        ELSE r.tail + (Filled(r) + 1) - 1 - QueueSize
  BY <1>1, <1>3, PlaceIs
<1>5. Place(r.tail, Filled(r) + 1) = r.head
  BY <1>1, <1>2, <1>4 DEF Slot
<1>6. ASSUME NEW n \in 1 .. Filled(r) PROVE Place(r.tail, n) # r.head
  <2>1. n \in 1 .. QueueSize
    BY <1>1, <1>2
  <2>2. Distance(Place(r.tail, n), r.tail) = n - 1
    BY <1>1, <2>1, DistancePlace
  <2> QED BY <1>2, <2>2 DEF Filled
<1> QED BY <1>5, <1>6

(* A packed ring has something to pop when it is not empty.                *)
LEMMA PackedPops ==
  ASSUME NEW r \in Ring, RingIsPacked(r)
  PROVE  /\ CanPop(r) <=> r.head # r.tail
         /\ CanPop(r) <=> Queue(r) # <<>>
         /\ \A n \in 1 .. Filled(r) : r.data[Place(r.tail, n)] \in Item
<1>1. QueueSize \in Nat /\ QueueSize >= 2 /\ r.head \in Slot /\ r.tail \in Slot
  BY RingAssumption DEF Ring
<1>2. ASSUME NEW n \in 1 .. Filled(r) PROVE r.data[Place(r.tail, n)] \in Item
  <2>1. Place(r.tail, n) \in Slot /\ Filled(r) \in 0 .. QueueSize - 1
    BY <1>1, QueueShape
  <2>2. Distance(Place(r.tail, n), r.tail) = n - 1
    BY <1>1, <2>1, DistancePlace
  <2>3. n - 1 < Filled(r)
    BY <1>1, <2>1
  <2>4. r.data[Place(r.tail, n)] # NoItem
    BY <2>1, <2>2, <2>3 DEF RingIsPacked
  <2> QED BY <2>1, <2>4 DEF Ring
<1>3. CanPop(r) <=> r.head # r.tail
  <2> SUFFICES ASSUME r.head # r.tail PROVE r.data[r.tail] # NoItem
    BY DEF CanPop
  <2>1. Filled(r) \in 0 .. QueueSize - 1 /\ Filled(r) # 0
    BY QueueShape
  <2>2. 1 \in 1 .. Filled(r) /\ Place(r.tail, 1) = r.tail
    BY <1>1, <2>1, PlaceFirst
  <2> QED BY <1>2, <2>2, RingAssumption
<1>4. Queue(r) # <<>> <=> r.head # r.tail
  <2>1. Len(Queue(r)) = 0 <=> r.head = r.tail
    BY QueueShape
  <2>2. Queue(r) \in Seq(Item)
    BY <1>2, QueueShape
  <2> QED BY <2>1, <2>2
<1> QED BY <1>2, <1>3, <1>4

LEMMA PackedQueue ==
  ASSUME NEW r \in Ring, RingIsPacked(r)
  PROVE  /\ Queue(r) \in Seq(Item) /\ Len(Queue(r)) = Filled(r)
         /\ \A n \in 1 .. Filled(r) : Queue(r)[n] = r.data[Place(r.tail, n)]
<1>1. Filled(r) \in Nat
  BY QueueShape, RingAssumption
<1> QED BY <1>1, PackedPops, QueueShape

(* An item is entered behind the others, and dropped when there are        *)
(* QueueSize - 1 of them.                                                  *)
LEMMA PushOffers ==
  ASSUME NEW r \in Ring, RingIsPacked(r), NEW item \in Item
  PROVE  /\ Push(r, item) \in Ring
         /\ RingIsPacked(Push(r, item))
         /\ Queue(Push(r, item)) = IF Len(Queue(r)) < QueueSize - 1
                                   THEN Append(Queue(r), item) ELSE Queue(r)
<1> DEFINE q == Push(r, item)
<1>1. /\ QueueSize \in Nat /\ QueueSize >= 2 /\ r.head \in Slot /\ r.tail \in Slot
      /\ NoItem \notin Item
  BY RingAssumption DEF Ring
<1>2. Following(r.head) = (IF r.head + 1 = QueueSize THEN 0 ELSE r.head + 1)
      /\ Following(r.head) \in Slot
  BY <1>1, FollowingIs
<1>3. Following(r.head) = r.tail <=> ~(Len(Queue(r)) < QueueSize - 1)
  BY <1>1, <1>2, QueueShape DEF Slot
<1>4. CASE Following(r.head) = r.tail
  BY <1>3, <1>4 DEF Push
<1>5. CASE Following(r.head) # r.tail
  <2>1. /\ q.data = [r.data EXCEPT ![r.head] = item]
        /\ q.head = Following(r.head) /\ q.tail = r.tail
        /\ q = [data |-> q.data, head |-> q.head, tail |-> q.tail]
    BY <1>5 DEF Push, Ring
  <2>2. q \in Ring
    BY <1>1, <1>2, <2>1 DEF Ring
  <2> HIDE DEF q
  <2>3. Filled(q) = Filled(r) + 1
    <3>1. Filled(r) = IF r.head >= r.tail THEN r.head - r.tail
                      ELSE r.head - r.tail + QueueSize
      BY QueueShape
    <3>2. Filled(q) = IF q.head >= q.tail THEN q.head - q.tail
                      ELSE q.head - q.tail + QueueSize
      BY <2>2, QueueShape
    <3> QED BY <1>1, <1>2, <1>5, <2>1, <3>1, <3>2 DEF Slot
  <2>4. RingIsPacked(q)
    <3> SUFFICES ASSUME NEW s \in Slot
                 PROVE  q.data[s] # NoItem <=> Distance(s, q.tail) < Filled(q)
      BY DEF RingIsPacked
    <3>1. r.data[s] # NoItem <=> Distance(s, r.tail) < Filled(r)
      BY DEF RingIsPacked
    <3>2. CASE s = r.head
      <4>1. q.data[s] = item
        BY <2>1, <3>2 DEF Ring
      <4>2. Distance(s, q.tail) = Filled(r)
        BY <2>1, <3>2 DEF Filled
      <4> QED BY <1>1, <2>3, <4>1, <4>2, QueueShape
    <3>3. CASE s # r.head
      <4>1. q.data[s] = r.data[s]
        BY <2>1, <3>3 DEF Ring
      <4>2. Distance(s, r.tail) # Filled(r) /\ Distance(s, r.tail) \in Int
        <5>1. Filled(r) = IF r.head >= r.tail THEN r.head - r.tail
                          ELSE r.head - r.tail + QueueSize
          BY QueueShape
        <5>2. Distance(s, r.tail) = IF s >= r.tail THEN s - r.tail
                                    ELSE s - r.tail + QueueSize
          BY <1>1, DistanceIs
        <5> QED BY <1>1, <3>3, <5>1, <5>2 DEF Slot
      <4> QED BY <1>1, <2>1, <2>3, <3>1, <4>1, <4>2, QueueShape
    <3> QED BY <3>2, <3>3
  <2>5. Queue(q) = Append(Queue(r), item)
    <3>1. Filled(r) \in Nat /\ Filled(q) \in 0 .. QueueSize - 1
      BY <1>1, <2>2, QueueShape
    <3>2. /\ Queue(q) \in Seq(Item) /\ Len(Queue(q)) = Filled(r) + 1
          /\ \A n \in 1 .. Filled(r) + 1 : Queue(q)[n] = q.data[Place(q.tail, n)]
      BY <2>2, <2>3, <2>4, PackedQueue
    <3>3. Place(r.tail, Filled(r) + 1) = r.head
      BY <1>1, HeadPlace
    <3>4. \A n \in 1 .. Filled(r) + 1 : Place(q.tail, n) = Place(r.tail, n)
      BY <2>1
    <3>5. \A n \in 1 .. Filled(r) : Place(r.tail, n) # r.head
      BY <1>1, HeadPlace
    <3>6. \A n \in 1 .. Filled(r) : q.data[Place(q.tail, n)] = r.data[Place(r.tail, n)]
      <4> TAKE n \in 1 .. Filled(r)
      <4>1. Place(r.tail, n) \in Slot /\ Place(q.tail, n) = Place(r.tail, n) /\ Place(r.tail, n) # r.head
        BY <1>1, <3>1, <3>4, <3>5, <2>3, QueueShape
      <4> QED BY <2>1, <4>1 DEF Ring
    <3>7. q.data[Place(q.tail, Filled(r) + 1)] = item
      BY <1>1, <2>1, <3>1, <3>3, <3>4 DEF Ring
    <3>8. /\ Queue(r) \in Seq(Item) /\ Len(Queue(r)) = Filled(r)
          /\ \A n \in 1 .. Filled(r) : Queue(r)[n] = r.data[Place(r.tail, n)]
      BY PackedQueue
    <3>9. /\ Append(Queue(r), item) \in Seq(Item)
          /\ Len(Append(Queue(r), item)) = Filled(r) + 1
          /\ Append(Queue(r), item)[Filled(r) + 1] = item
          /\ \A n \in 1 .. Filled(r) : Append(Queue(r), item)[n] = Queue(r)[n]
      BY <3>8, AppendProperties
    <3>10. ASSUME NEW n \in 1 .. Filled(r) + 1
           PROVE  Queue(q)[n] = Append(Queue(r), item)[n]
      <4>1. CASE n = Filled(r) + 1
        BY <3>2, <3>7, <3>9, <4>1
      <4>2. CASE n # Filled(r) + 1
        <5>1. n \in 1 .. Filled(r)
          BY <3>1, <4>2
        <5> QED BY <3>2, <3>6, <3>8, <3>9, <5>1
      <4> QED BY <4>1, <4>2
    <3> QED BY <3>2, <3>9, <3>10, SeqEqual
  <2> QED BY <1>3, <1>5, <2>2, <2>4, <2>5 DEF q
<1> QED BY <1>4, <1>5

(* The item popped is the first; the others stay.                          *)
LEMMA PopTakes ==
  ASSUME NEW r \in Ring, RingIsPacked(r), CanPop(r)
  PROVE  /\ Pop(r) \in Ring
         /\ RingIsPacked(Pop(r))
         /\ Popped(r) = Head(Queue(r)) /\ Popped(r) \in Item
         /\ Queue(Pop(r)) = Tail(Queue(r))
<1> DEFINE q == Pop(r)
<1>1. /\ QueueSize \in Nat /\ QueueSize >= 2 /\ r.head \in Slot /\ r.tail \in Slot
      /\ NoItem \notin Item /\ r.head # r.tail
  BY RingAssumption DEF Ring, CanPop
<1>2. Following(r.tail) = (IF r.tail + 1 = QueueSize THEN 0 ELSE r.tail + 1)
      /\ Following(r.tail) \in Slot
  BY <1>1, FollowingIs
<1>3. /\ q.data = [r.data EXCEPT ![r.tail] = NoItem]
      /\ q.tail = Following(r.tail) /\ q.head = r.head
      /\ q = [data |-> q.data, head |-> q.head, tail |-> q.tail]
  <2>1. q.data = [r.data EXCEPT ![r.tail] = NoItem]
    BY DEF Pop, Ring
  <2>2. q.tail = Following(r.tail)
    BY DEF Pop, Ring
  <2>3. q.head = r.head
    BY DEF Pop, Ring
  <2>4. q \in [data : {q.data}, head : {q.head}, tail : {q.tail}]
    BY DEF Pop, Ring
  <2> HIDE DEF q
  <2> QED BY <2>1, <2>2, <2>3, <2>4
<1> HIDE DEF q
<1>4. q \in Ring
  BY <1>1, <1>2, <1>3 DEF Ring
<1>5. Filled(q) = Filled(r) - 1 /\ Filled(r) \in 1 .. QueueSize - 1
  <2>1. Filled(r) = IF r.head >= r.tail THEN r.head - r.tail
                    ELSE r.head - r.tail + QueueSize
    BY QueueShape
  <2>2. Filled(q) = IF q.head >= q.tail THEN q.head - q.tail
                    ELSE q.head - q.tail + QueueSize
    BY <1>4, QueueShape
  <2> QED BY <1>1, <1>2, <1>3, <2>1, <2>2 DEF Slot
<1>6. RingIsPacked(q)
  <2> SUFFICES ASSUME NEW s \in Slot
               PROVE  q.data[s] # NoItem <=> Distance(s, q.tail) < Filled(q)
    BY DEF RingIsPacked
  <2>1. r.data[s] # NoItem <=> Distance(s, r.tail) < Filled(r)
    BY DEF RingIsPacked
  <2>2. CASE s = r.tail
    <3>1. q.data[s] = NoItem
      BY <1>3, <2>2 DEF Ring
    <3>2. Distance(s, q.tail) = QueueSize - 1
      BY <1>1, <1>2, <1>3, <2>2, DistanceIs, FollowingIs DEF Slot
    <3> QED BY <1>1, <1>5, <3>1, <3>2
  <2>3. CASE s # r.tail
    <3>1. q.data[s] = r.data[s]
      BY <1>3, <2>3 DEF Ring
    <3>2. Distance(s, q.tail) = Distance(s, r.tail) - 1
          /\ Distance(s, r.tail) \in Int
      <4>1. Distance(s, r.tail) = IF s >= r.tail THEN s - r.tail
                                  ELSE s - r.tail + QueueSize
        BY <1>1, DistanceIs
      <4>2. Distance(s, q.tail) = IF s >= q.tail THEN s - q.tail
                                  ELSE s - q.tail + QueueSize
        BY <1>2, <1>3, DistanceIs
      <4> QED BY <1>1, <1>2, <1>3, <2>3, <4>1, <4>2 DEF Slot
    <3> QED BY <1>1, <1>5, <2>1, <3>1, <3>2
  <2> QED BY <2>2, <2>3
<1>7. /\ Queue(r) \in Seq(Item) /\ Len(Queue(r)) = Filled(r)
      /\ \A n \in 1 .. Filled(r) : Queue(r)[n] = r.data[Place(r.tail, n)]
  BY PackedQueue
<1>8. Popped(r) = Head(Queue(r)) /\ Popped(r) \in Item
  <2>1. Place(r.tail, 1) = r.tail
    BY <1>1, PlaceFirst
  <2>2. 1 \in 1 .. Filled(r)
    BY <1>1, <1>5
  <2>3. Head(Queue(r)) = Queue(r)[1]
    BY <1>7
  <2> QED BY <1>7, <2>1, <2>2, <2>3, PackedPops DEF Popped
<1>9. Queue(q) = Tail(Queue(r))
  <2>1. /\ Queue(q) \in Seq(Item) /\ Len(Queue(q)) = Filled(r) - 1
        /\ \A n \in 1 .. Filled(r) - 1 : Queue(q)[n] = q.data[Place(q.tail, n)]
    BY <1>4, <1>5, <1>6, PackedQueue
  <2>2. \A n \in 1 .. Filled(r) - 1 : Place(q.tail, n) = Place(r.tail, n + 1)
    <3> TAKE n \in 1 .. Filled(r) - 1
    <3>1. n \in 1 .. QueueSize /\ n + 1 \in 1 .. QueueSize
      BY <1>1, <1>5
    <3>2. Place(q.tail, n) = IF q.tail + n - 1 < QueueSize THEN q.tail + n - 1
                             ELSE q.tail + n - 1 - QueueSize
      BY <1>2, <1>3, <3>1, PlaceIs
    <3>3. Place(r.tail, n + 1) =
            IF r.tail + (n + 1) - 1 < QueueSize THEN r.tail + (n + 1) - 1
            ELSE r.tail + (n + 1) - 1 - QueueSize
      BY <1>1, <3>1, PlaceIs
    <3> QED BY <1>1, <1>2, <1>3, <3>1, <3>2, <3>3 DEF Slot
  <2>3. \A n \in 1 .. Filled(r) - 1 : Place(r.tail, n + 1) \in Slot \ {r.tail}
    <3> TAKE n \in 1 .. Filled(r) - 1
    <3>1. n + 1 \in 1 .. QueueSize
      BY <1>1, <1>5
    <3>2. Place(r.tail, n + 1) \in Slot
          /\ Distance(Place(r.tail, n + 1), r.tail) = (n + 1) - 1
      BY <1>1, <3>1, PlaceIs, DistancePlace
    <3>3. Distance(r.tail, r.tail) = 0
      BY <1>1, DistanceIs DEF Slot
    <3> QED BY <1>1, <3>2, <3>3
  <2>4. \A n \in 1 .. Filled(r) - 1 : q.data[Place(q.tail, n)] = Queue(r)[n + 1]
    <3> TAKE n \in 1 .. Filled(r) - 1
    <3>1. Place(q.tail, n) = Place(r.tail, n + 1) /\ Place(r.tail, n + 1) \in Slot \ {r.tail}
      BY <2>2, <2>3
    <3>2. q.data[Place(q.tail, n)] = r.data[Place(r.tail, n + 1)]
      BY <1>3, <3>1 DEF Ring
    <3>3. n + 1 \in 1 .. Filled(r)
      BY <1>1, <1>5
    <3> QED BY <1>7, <3>2, <3>3
  <2>5. Queue(r) # <<>>
    BY PackedPops
  <2>6. /\ Tail(Queue(r)) \in Seq(Item) /\ Len(Tail(Queue(r))) = Filled(r) - 1
        /\ \A n \in 1 .. Filled(r) - 1 : Tail(Queue(r))[n] = Queue(r)[n + 1]
    BY <1>7, <2>5, HeadTailProperties
  <2> QED BY <2>1, <2>4, <2>6, SeqEqual
<1> QED BY <1>4, <1>6, <1>8, <1>9 DEF q
-----------------------------------------------------------------------------
(* Where a thread may be, and what that says of the locks and the flag.    *)
PcOf(t) == IF t = Main THEN InUser \cup InWait \cup InYield ELSE InYield \cup {"body"}
Masked == {"pop", "popping", "check"}

ThreadsOK ==
  /\ \A t \in Thread : pc[t] \in PcOf(t)
  /\ \A t \in Thread : t # current => pc[t] \in {"resumed", "body"}
  /\ queueLock <=> pc[Main] = "popping"
  /\ schedLock <=> pc[current] = "switch"

MaskingOK ==
  /\ pc[Main] \in Masked => ~flag
  /\ pc[Main] = "popping" => ~saved
  /\ pc[Main] = "check" => ring.head = ring.tail

InputInv == TypeOK /\ QueueIsPacked /\ ThreadsOK /\ MaskingOK
-----------------------------------------------------------------------------
(* What the interrupt handlers enter is an item, and the queue takes it.   *)
LEMMA PressedItem == \A code \in Scancode : Pressed(code) \in Item \cup {NoItem}
BY InputAssumption DEF Scancode, Pressed

LEMMA SignedByte == \A byte \in MouseBytes : byte \in 0 .. 255 /\ Signed(byte) \in -128 .. 127
BY InputAssumption DEF Signed

LEMMA ClampRange ==
  ASSUME NEW n \in Int, NEW size \in Nat \ {0}
  PROVE  Clamp(n, size) \in 0 .. size - 1
BY DEF Clamp

LEMMA MovedItem ==
  ASSUME TypeOK, NEW byte \in MouseBytes
  PROVE  /\ MovedX \in 0 .. ScreenWidth - 1 /\ MovedY(byte) \in 0 .. ScreenHeight - 1
         /\ Moved(byte) \in Item \cup {NoItem}
<1>1. mouse.x + mouse.dx \in Int /\ mouse.y - Signed(byte) \in Int
  <2>1. /\ mouse.x \in 0 .. ScreenWidth - 1 /\ mouse.y \in 0 .. ScreenHeight - 1
        /\ mouse.dx \in -128 .. 127
    BY DEF TypeOK, Mouse
  <2>2. Signed(byte) \in -128 .. 127
    BY SignedByte
  <2>3. ScreenWidth \in Nat /\ ScreenHeight \in Nat
    BY InputAssumption
  <2>4. mouse.x \in Int /\ mouse.y \in Int /\ mouse.dx \in Int /\ Signed(byte) \in Int
    BY <2>1, <2>2, <2>3
  <2> QED BY <2>4
<1>2. MovedX \in 0 .. ScreenWidth - 1 /\ MovedY(byte) \in 0 .. ScreenHeight - 1
  BY <1>1, ClampRange, InputAssumption DEF MovedX, MovedY
<1> QED BY <1>2, InputAssumption DEF Moved

LEMMA QueuedOffers ==
  ASSUME TypeOK, QueueIsPacked, NEW item \in Item \cup {NoItem}, ring' = Queued(item)
  PROVE  /\ ring' \in Ring /\ RingIsPacked(ring')
         /\ IF item = NoItem THEN Queue(ring') = Queue(ring)
            ELSE Queue(ring') = IF Len(Queue(ring)) < QueueSize - 1
                                THEN Append(Queue(ring), item) ELSE Queue(ring)
<1>1. ring \in Ring /\ RingIsPacked(ring)
  BY DEF TypeOK, QueueIsPacked
<1>2. CASE item = NoItem
  BY <1>1, <1>2 DEF Queued
<1>3. CASE item # NoItem
  <2>1. ring' = Push(ring, item) /\ item \in Item
    BY <1>3 DEF Queued
  <2> QED BY <1>1, <1>3, <2>1, PushOffers
<1> QED BY <1>2, <1>3
-----------------------------------------------------------------------------
LEMMA InputInit == Init => InputInv
<1> SUFFICES ASSUME Init PROVE InputInv
  OBVIOUS
<1>1. QueueSize \in Nat /\ QueueSize >= 2 /\ 0 \in Slot /\ Main \in Thread
  BY RingAssumption, InputAssumption DEF Slot, Thread, Main
<1>2. EmptyRing \in Ring
  BY <1>1 DEF EmptyRing, Ring
<1>3. RingIsPacked(EmptyRing)
  <2>1. Filled(EmptyRing) = 0
    BY <1>1, DistanceIs DEF Filled, EmptyRing
  <2>2. \A s \in Slot : ~(Distance(s, 0) < 0)
    BY <1>1, DistanceIs
  <2> QED BY <2>1, <2>2 DEF RingIsPacked, EmptyRing
<1>4. ScreenWidth \div 2 \in 0 .. ScreenWidth - 1 /\ ScreenHeight \div 2 \in 0 .. ScreenHeight - 1
  BY InputAssumption
<1>5. TypeOK
  <2>1. pc \in [Thread -> InUser \cup InWait \cup InYield \cup {"body"}]
    BY DEF Init, InUser
  <2>2. limit \in Nat /\ elapsed \in 0 .. limit /\ event = NoItem
    BY DEF Init
  <2>3. mouse \in Mouse
    BY <1>4 DEF Init, Mouse
  <2>4. ring \in Ring /\ current \in Thread
    BY <1>1, <1>2 DEF Init
  <2> QED BY <2>1, <2>2, <2>3, <2>4 DEF Init, TypeOK
<1>6. QueueIsPacked /\ MaskingOK
  BY <1>1, <1>3 DEF Init, QueueIsPacked, MaskingOK, Masked
<1>7. ThreadsOK
  BY <1>1 DEF Init, ThreadsOK, PcOf, InUser
<1> QED BY <1>5, <1>6, <1>7 DEF InputInv

LEMMA TimerInv == InputInv /\ TimerIrq => InputInv'
BY DEF InputInv, TimerIrq, TypeOK, QueueIsPacked, ThreadsOK, MaskingOK, threadVars, deviceVars

(* A handler changes the ring and its device, and runs only when nobody    *)
(* has looked at the ring with interrupts off.                             *)
LEMMA HandlerInv ==
  ASSUME InputInv, Interrupts, NEW item \in Item \cup {NoItem}, ring' = Queued(item),
         shift' \in BOOLEAN,
         mouse' \in Mouse,
         UNCHANGED <<queueLock, threadVars, flag, saved, waitVars>>
  PROVE  InputInv'
<1>1. ring' \in Ring /\ RingIsPacked(ring')
  BY QueuedOffers DEF InputInv
<1>2. pc[Main] \notin Masked
  BY DEF InputInv, MaskingOK, Interrupts
<1>3. TypeOK' /\ QueueIsPacked'
  BY <1>1 DEF InputInv, TypeOK, QueueIsPacked, threadVars, waitVars
<1>4. ThreadsOK' /\ MaskingOK'
  BY <1>2 DEF InputInv, ThreadsOK, MaskingOK, threadVars, Masked
<1> QED BY <1>3, <1>4 DEF InputInv

LEMMA KeyboardInv ==
  ASSUME InputInv, NEW code \in Scancode, KeyboardIrq(code)
  PROVE  InputInv'
<1>1. shift' \in BOOLEAN
  BY DEF InputInv, TypeOK, KeyboardIrq, ShiftAfter
<1>2. mouse' \in Mouse
  BY DEF InputInv, TypeOK, KeyboardIrq
<1> QED BY <1>1, <1>2, PressedItem, HandlerInv DEF KeyboardIrq

LEMMA FirstByte ==
  ASSUME NEW m \in Mouse, NEW byte \in 0 .. 255
  PROVE  [m EXCEPT !.cycle = 1, !.flags = byte] \in Mouse
<1> SUFFICES ASSUME NEW z, z = [m EXCEPT !.cycle = 1, !.flags = byte]
             PROVE  z \in Mouse
  OBVIOUS
<1>1. z = [cycle |-> z.cycle, flags |-> z.flags, dx |-> z.dx, x |-> z.x, y |-> z.y]
  BY DEF Mouse
<1>2. z.cycle = 1 /\ z.flags = byte /\ z.dx = m.dx /\ z.x = m.x /\ z.y = m.y
  BY DEF Mouse
<1>3. /\ m.flags \in 0 .. 255 /\ m.dx \in -128 .. 127
      /\ m.x \in 0 .. ScreenWidth - 1 /\ m.y \in 0 .. ScreenHeight - 1
  BY DEF Mouse
<1> QED BY <1>1, <1>2, <1>3 DEF Mouse

LEMMA SecondByte ==
  ASSUME NEW m \in Mouse, NEW n \in -128 .. 127
  PROVE  [m EXCEPT !.cycle = 2, !.dx = n] \in Mouse
<1> SUFFICES ASSUME NEW z, z = [m EXCEPT !.cycle = 2, !.dx = n]
             PROVE  z \in Mouse
  OBVIOUS
<1>1. z = [cycle |-> z.cycle, flags |-> z.flags, dx |-> z.dx, x |-> z.x, y |-> z.y]
  BY DEF Mouse
<1>2. z.cycle = 2 /\ z.flags = m.flags /\ z.dx = n /\ z.x = m.x /\ z.y = m.y
  BY DEF Mouse
<1>3. /\ m.flags \in 0 .. 255 /\ m.dx \in -128 .. 127
      /\ m.x \in 0 .. ScreenWidth - 1 /\ m.y \in 0 .. ScreenHeight - 1
  BY DEF Mouse
<1> QED BY <1>1, <1>2, <1>3 DEF Mouse

LEMMA MouseInv ==
  ASSUME InputInv, NEW byte \in MouseBytes, MouseIrq(byte)
  PROVE  InputInv'
<1>1. /\ byte \in 0 .. 255 /\ Signed(byte) \in -128 .. 127
      /\ MovedX \in 0 .. ScreenWidth - 1 /\ MovedY(byte) \in 0 .. ScreenHeight - 1
      /\ Moved(byte) \in Item \cup {NoItem}
  BY SignedByte, MovedItem DEF InputInv
<1>2. mouse' \in Mouse
  <2>1. /\ mouse.cycle \in 0 .. 2 /\ mouse.x \in 0 .. ScreenWidth - 1
        /\ mouse.y \in 0 .. ScreenHeight - 1 /\ mouse.flags \in 0 .. 255
        /\ mouse.dx \in -128 .. 127 /\ mouse' = MouseAfter(byte)
        /\ mouse \in Mouse
    BY DEF InputInv, TypeOK, MouseIrq, Mouse
  <2>2. CASE mouse.cycle = 0
    <3>1. \/ mouse' = mouse
          \/ mouse' = [mouse EXCEPT !.cycle = 1, !.flags = byte]
      BY <2>1, <2>2 DEF MouseAfter
    <3>2. [mouse EXCEPT !.cycle = 1, !.flags = byte] \in Mouse
      BY <1>1, <2>1, FirstByte
    <3> QED BY <2>1, <3>1, <3>2
  <2>3. CASE mouse.cycle = 1
    <3>1. mouse' = [mouse EXCEPT !.cycle = 2, !.dx = Signed(byte)]
      BY <2>1, <2>3 DEF MouseAfter
    <3>2. [mouse EXCEPT !.cycle = 2, !.dx = Signed(byte)] \in Mouse
      BY <1>1, <2>1, SecondByte
    <3> QED BY <3>1, <3>2
  <2>4. CASE mouse.cycle = 2
    BY <1>1, <2>1, <2>4 DEF MouseAfter, Mouse
  <2> QED BY <2>1, <2>2, <2>3, <2>4
<1>3. shift' \in BOOLEAN
  BY DEF InputInv, TypeOK, MouseIrq
<1> QED BY <1>1, <1>2, <1>3, HandlerInv DEF MouseIrq
-----------------------------------------------------------------------------
(* The steps of SYS_WAIT_EVENT, which only the main thread takes.          *)
LEMMA MainMoves ==
  ASSUME InputInv, current = Main, NEW label \in PcOf(Main), Goto(Main, label),
         current' = current
  PROVE  /\ pc' \in [Thread -> InUser \cup InWait \cup InYield \cup {"body"}]
         /\ pc'[Main] = label
         /\ \A t \in Thread : pc'[t] \in PcOf(t)
         /\ \A t \in Thread : t # current' => pc'[t] \in {"resumed", "body"}
<1>1. Main \in Thread /\ pc \in [Thread -> InUser \cup InWait \cup InYield \cup {"body"}]
  BY DEF InputInv, TypeOK
<1> QED BY <1>1 DEF Goto, PcOf, InputInv, ThreadsOK

LEMMA CallWaitInv == InputInv /\ (WaitOuter \/ WaitInner) => InputInv'
<1> SUFFICES ASSUME InputInv, WaitOuter \/ WaitInner PROVE InputInv'
  OBVIOUS
<1>1. PICK ms \in {OuterTimeout, 0} : CallWait(ms) /\ current = Main /\ pc[Main] \in InUser
  BY DEF WaitOuter, WaitInner, At, InUser
<1>2. TicksToWait(ms) \in Nat
  BY InputAssumption DEF TicksToWait
<1>3. /\ pc' \in [Thread -> InUser \cup InWait \cup InYield \cup {"body"}]
      /\ pc'[Main] = "pop"
      /\ \A t \in Thread : pc'[t] \in PcOf(t)
      /\ \A t \in Thread : t # current' => pc'[t] \in {"resumed", "body"}
  BY <1>1, MainMoves DEF CallWait, PcOf, InWait
<1>4. TypeOK' /\ QueueIsPacked'
  <2>1. limit' \in Nat /\ elapsed' \in 0 .. limit' /\ event' = NoItem
    BY <1>1, <1>2 DEF CallWait
  <2> QED BY <1>1, <1>3, <2>1 DEF CallWait, InputInv, TypeOK, QueueIsPacked, deviceVars
<1>5. ThreadsOK' /\ MaskingOK'
  BY <1>1, <1>3 DEF CallWait, InputInv, ThreadsOK, MaskingOK, InUser, Masked
<1> QED BY <1>4, <1>5 DEF InputInv

LEMMA LockQueueInv == InputInv /\ LockQueue => InputInv'
<1> SUFFICES ASSUME InputInv, LockQueue PROVE InputInv'
  OBVIOUS
<1>1. /\ pc' \in [Thread -> InUser \cup InWait \cup InYield \cup {"body"}]
      /\ pc'[Main] = "popping" /\ current = Main
      /\ \A t \in Thread : pc'[t] \in PcOf(t)
      /\ \A t \in Thread : t # current' => pc'[t] \in {"resumed", "body"}
  BY MainMoves DEF LockQueue, At, PcOf, InWait
<1>2. TypeOK' /\ QueueIsPacked'
  BY <1>1 DEF LockQueue, InputInv, TypeOK, QueueIsPacked, deviceVars, waitVars
<1>3. ThreadsOK' /\ MaskingOK'
  BY <1>1 DEF LockQueue, At, InputInv, ThreadsOK, MaskingOK, Masked
<1> QED BY <1>2, <1>3 DEF InputInv

LEMMA PopEventInv == InputInv /\ PopEvent => InputInv'
<1> SUFFICES ASSUME InputInv, PopEvent PROVE InputInv'
  OBVIOUS
<1>1. /\ pc' \in [Thread -> InUser \cup InWait \cup InYield \cup {"body"}]
      /\ pc'[Main] = "inner" /\ current = Main
      /\ \A t \in Thread : pc'[t] \in PcOf(t)
      /\ \A t \in Thread : t # current' => pc'[t] \in {"resumed", "body"}
  BY MainMoves DEF PopEvent, At, PcOf, InUser
<1>2. ring' \in Ring /\ RingIsPacked(ring') /\ event' \in Item
  BY PopTakes DEF PopEvent, InputInv, TypeOK, QueueIsPacked
<1>3. TypeOK' /\ QueueIsPacked'
  BY <1>1, <1>2 DEF PopEvent, InputInv, TypeOK, QueueIsPacked, deviceVars
<1>4. ThreadsOK' /\ MaskingOK'
  BY <1>1 DEF PopEvent, At, InputInv, ThreadsOK, MaskingOK, Masked
<1> QED BY <1>3, <1>4 DEF InputInv

LEMMA PopNothingInv == InputInv /\ PopNothing => InputInv'
<1> SUFFICES ASSUME InputInv, PopNothing PROVE InputInv'
  OBVIOUS
<1>1. /\ pc' \in [Thread -> InUser \cup InWait \cup InYield \cup {"body"}]
      /\ pc'[Main] = "check" /\ current = Main
      /\ \A t \in Thread : pc'[t] \in PcOf(t)
      /\ \A t \in Thread : t # current' => pc'[t] \in {"resumed", "body"}
  BY MainMoves DEF PopNothing, At, PcOf, InWait
<1>2. ring.head = ring.tail
  BY PackedPops DEF PopNothing, InputInv, TypeOK, QueueIsPacked
<1>3. TypeOK' /\ QueueIsPacked'
  BY <1>1 DEF PopNothing, InputInv, TypeOK, QueueIsPacked, deviceVars, waitVars
<1>4. ThreadsOK' /\ MaskingOK'
  BY <1>1, <1>2 DEF PopNothing, At, InputInv, ThreadsOK, MaskingOK, Masked
<1> QED BY <1>3, <1>4 DEF InputInv

LEMMA WaitLoopInv == InputInv /\ (TimeOut \/ KeepWaiting \/ DisableInterrupts) => InputInv'
<1> SUFFICES ASSUME InputInv, TimeOut \/ KeepWaiting \/ DisableInterrupts PROVE InputInv'
  OBVIOUS
<1>1. PICK label \in {"outer", "lock", "pop"} :
        /\ Goto(Main, label) /\ current = Main /\ current' = Main
        /\ flag' = (label # "pop") /\ pc[Main] \in {"check", "disable"}
        /\ UNCHANGED <<ring, queueLock, schedLock, saved, waitVars, deviceVars>>
  BY DEF TimeOut, KeepWaiting, DisableInterrupts, At
<1>2. /\ pc' \in [Thread -> InUser \cup InWait \cup InYield \cup {"body"}]
      /\ pc'[Main] = label
      /\ \A t \in Thread : pc'[t] \in PcOf(t)
      /\ \A t \in Thread : t # current' => pc'[t] \in {"resumed", "body"}
  BY <1>1, MainMoves DEF PcOf, InUser, InWait, InYield
<1>3. TypeOK' /\ QueueIsPacked'
  BY <1>1, <1>2 DEF InputInv, TypeOK, QueueIsPacked, deviceVars, waitVars
<1>4. ThreadsOK' /\ MaskingOK'
  BY <1>1, <1>2 DEF InputInv, ThreadsOK, MaskingOK, Masked
<1> QED BY <1>3, <1>4 DEF InputInv

(* The steps of yielding.                                                  *)
LEMMA ThreadInv ==
  ASSUME InputInv, NEW t \in Thread, ThreadStep(t)
  PROVE  InputInv'
<1>1. /\ current = t /\ Main \in Thread
      /\ pc \in [Thread -> InUser \cup InWait \cup InYield \cup {"body"}]
  <2>1. current = t
    BY DEF ThreadStep, Body, LockScheduler, ThreadYield, DropGuard, At
  <2> QED BY <2>1, InputAssumption DEF InputInv, TypeOK, Thread, Main
<1>2. PICK label : /\ pc' = [pc EXCEPT ![t] = label]
                   /\ \/ Body(t) /\ label = "lock"
                      \/ LockScheduler(t) /\ label = "switch"
                      \/ ThreadYield(t) /\ label = "resumed"
                      \/ DropGuard(t) /\ label = (IF t = Main THEN "disable" ELSE "body")
  BY DEF ThreadStep, Body, LockScheduler, ThreadYield, DropGuard, Goto
<1>3. label \in PcOf(t) /\ label \notin Masked /\ pc[t] \notin Masked
  BY <1>2 DEF PcOf, InWait, InYield, Masked, Body, LockScheduler, ThreadYield, DropGuard, At
<1>4. current' \in Thread
  <2>1. (t + 1) % NumThreads \in Thread
    BY InputAssumption, SMT DEF Thread
  <2> QED BY <1>1, <1>2, <2>1 DEF Body, LockScheduler, ThreadYield, DropGuard
<1>5. pc' \in [Thread -> InUser \cup InWait \cup InYield \cup {"body"}]
      /\ \A u \in Thread : pc'[u] \in PcOf(u)
  BY <1>1, <1>2, <1>3 DEF PcOf, InputInv, ThreadsOK
<1>6. /\ UNCHANGED <<ring, queueLock, flag, saved, waitVars, deviceVars>>
      /\ schedLock' \in BOOLEAN
  BY <1>2 DEF Body, LockScheduler, ThreadYield, DropGuard, InputInv, TypeOK
<1>7. TypeOK' /\ QueueIsPacked'
  BY <1>4, <1>5, <1>6 DEF InputInv, TypeOK, QueueIsPacked, deviceVars, waitVars
<1>8. MaskingOK' /\ (queueLock' <=> pc'[Main] = "popping")
  BY <1>1, <1>2, <1>3, <1>6 DEF InputInv, MaskingOK, ThreadsOK, Masked
<1>9. /\ \A u \in Thread : u # current' => pc'[u] \in {"resumed", "body"}
      /\ schedLock' <=> pc'[current'] = "switch"
  <2>1. CASE ThreadYield(t)
    BY <1>1, <1>2, <1>4, <2>1 DEF ThreadYield, Body, LockScheduler, DropGuard, At, InputInv, ThreadsOK
  <2>2. CASE ~ThreadYield(t)
    BY <1>1, <1>2, <2>2 DEF Body, LockScheduler, DropGuard, At, InputInv, ThreadsOK
  <2> QED BY <2>1, <2>2
<1> QED BY <1>5, <1>7, <1>8, <1>9 DEF InputInv, ThreadsOK
-----------------------------------------------------------------------------
LEMMA InputStep == InputInv /\ [Next]_vars => InputInv'
<1> SUFFICES ASSUME InputInv, [Next]_vars PROVE InputInv'
  OBVIOUS
<1>1. ASSUME NEW code \in Scancode, KeyboardIrq(code) PROVE InputInv'
  BY <1>1, KeyboardInv
<1>2. ASSUME NEW byte \in MouseBytes, MouseIrq(byte) PROVE InputInv'
  BY <1>2, MouseInv
<1>3. CASE Syscall
  BY <1>3, CallWaitInv, LockQueueInv, PopEventInv, PopNothingInv, WaitLoopInv DEF Syscall
<1>4. ASSUME NEW t \in Thread, ThreadStep(t) PROVE InputInv'
  BY <1>4, ThreadInv
<1>5. CASE TimerIrq
  BY <1>5, TimerInv
<1>6. CASE UNCHANGED vars
  BY <1>6 DEF vars, threadVars, waitVars, deviceVars, InputInv, TypeOK, QueueIsPacked, ThreadsOK,
              MaskingOK
<1> QED BY <1>1, <1>2, <1>3, <1>4, <1>5, <1>6 DEF Next, Running

THEOREM InputInvariance == Spec => []InputInv
BY InputInit, InputStep, PTL DEF Spec

(* Coordinates stay on the screen, indices in the ring.                    *)
THEOREM InputTypes == Spec => []TypeOK
<1>1. InputInv => TypeOK
  BY DEF InputInv
<1> QED BY <1>1, InputInvariance, PTL

(* pop never meets a None in front of queued input (RingBuffer::pop).      *)
THEOREM QueueStaysPacked == Spec => []QueueIsPacked
<1>1. InputInv => QueueIsPacked
  BY DEF InputInv
<1> QED BY <1>1, InputInvariance, PTL

(* No handler and no thread ever finds a lock taken, whichever thread      *)
(* yielded and wherever it was interrupted (Spinlock of main.rs).          *)
THEOREM LocksStayFree == Spec => []LocksAreFree
<1>1. InputInv => LocksAreFree
  BY DEF InputInv, TypeOK, ThreadsOK, MaskingOK, LocksAreFree, Masked
<1> QED BY <1>1, InputInvariance, PTL

(* SYS_WAIT_EVENT does not time out on queued input (syscall.rs).          *)
THEOREM TimeoutsMissNothing == Spec => TimeoutMeansNoInput
<1>1. InputInv /\ [Next]_vars => [TimeOut => Queue(ring) = <<>>]_vars
  <2>1. ASSUME InputInv, TimeOut PROVE Queue(ring) = <<>>
    <3>1. ring.head = ring.tail /\ ring \in Ring /\ RingIsPacked(ring)
      BY <2>1 DEF InputInv, TypeOK, QueueIsPacked, MaskingOK, TimeOut, At
    <3> QED BY <3>1, PackedPops
  <2> QED BY <2>1
<1> QED BY <1>1, InputInvariance, PTL DEF Spec, TimeoutMeansNoInput

(* The ring is a queue of QueueSize - 1 events: each interrupt offers its  *)
(* event, PopEvent takes the first, and nothing else changes it.           *)
THEOREM InputIsQueued == Spec => InputIsFifo
<1> DEFINE Step ==
      \/ \E code \in Scancode : KeyboardIrq(code) /\
           IF Pressed(code) = NoItem THEN Unqueued ELSE Fifo!Offer(Pressed(code))
      \/ \E byte \in MouseBytes : MouseIrq(byte) /\
           IF Moved(byte) = NoItem THEN Unqueued ELSE Fifo!Offer(Moved(byte))
      \/ PopEvent /\ Fifo!Take
      \/ (TimerIrq \/ Running) /\ Unqueued
<1>1. ASSUME InputInv, NEW code \in Scancode, KeyboardIrq(code)
      PROVE  IF Pressed(code) = NoItem THEN Unqueued ELSE Fifo!Offer(Pressed(code))
  <2>1. /\ Pressed(code) \in Item \cup {NoItem}
        /\ ring' = Queued(Pressed(code)) /\ event' = event
    BY <1>1, PressedItem DEF KeyboardIrq, waitVars
  <2> QED BY <1>1, <2>1, QueuedOffers DEF InputInv, Unqueued, Fifo!Offer
<1>2. ASSUME InputInv, NEW byte \in MouseBytes, MouseIrq(byte)
      PROVE  IF Moved(byte) = NoItem THEN Unqueued ELSE Fifo!Offer(Moved(byte))
  <2>1. /\ Moved(byte) \in Item \cup {NoItem}
        /\ ring' = Queued(Moved(byte)) /\ event' = event
    BY <1>2, MovedItem DEF InputInv, MouseIrq, waitVars
  <2> QED BY <1>2, <2>1, QueuedOffers DEF InputInv, Unqueued, Fifo!Offer
<1>3. ASSUME InputInv, PopEvent PROVE Fifo!Take
  <2>1. ring \in Ring /\ RingIsPacked(ring) /\ CanPop(ring)
    BY <1>3 DEF InputInv, TypeOK, QueueIsPacked, PopEvent
  <2> QED BY <1>3, <2>1, PackedPops, PopTakes DEF PopEvent, Fifo!Take
<1>4. ASSUME TimerIrq \/ (Running /\ ~PopEvent) PROVE Unqueued
  <2>1. ring' = ring
    BY <1>4 DEF TimerIrq, Running, Syscall, WaitOuter, WaitInner, CallWait, LockQueue, PopNothing,
                TimeOut, KeepWaiting, DisableInterrupts, ThreadStep, Body, LockScheduler,
                ThreadYield, DropGuard
  <2> QED BY <2>1 DEF Unqueued
<1>5. InputInv /\ [Next]_vars => [Step]_vars
  BY <1>1, <1>2, <1>3, <1>4 DEF Next
<1>6. Spec => [][Step]_vars
  BY <1>5, InputInvariance, PTL DEF Spec
<1> QED BY <1>6 DEF InputIsFifo
=============================================================================
