----------------------------- MODULE SecdedProofs -----------------------------
(***************************************************************************)
(* That the code corrects one flip and detects two, for every byte and     *)
(* every pair of positions (Secded).  The code is linear: a word is the    *)
(* exclusive or of the encoding of its byte and the flips, the encoding    *)
(* contributes nothing to the parities the decoder computes, and so what   *)
(* it sees of the word is what it would see of the flips alone.            *)
(***************************************************************************)
EXTENDS Secded, FiniteSetTheorems, TLAPS

Words == SUBSET Position

LEMMA WordsAreFinite ==
  ASSUME NEW S \in Words
  PROVE  IsFiniteSet(S) /\ Cardinality(S) \in Nat /\ Parity(S) \in {0, 1}
<1>1. IsFiniteSet(S)
  <2>1. IsFiniteSet(0 .. 15)
    <3>1. 0 \in Int /\ 15 \in Int
      OBVIOUS
    <3>2. \A a, b \in Int : IsFiniteSet(a .. b)
      BY FS_Interval
    <3> QED BY <3>1, <3>2
  <2>2. S \in SUBSET (0 .. 15)
    BY DEF Words, Position
  <2> QED BY <2>1, <2>2, FS_Subset
<1>2. Cardinality(S) \in Nat
  BY <1>1, FS_CardinalityType
<1> QED BY <1>1, <1>2 DEF Parity

LEMMA DisjointWords ==
  ASSUME NEW S \in Words, NEW T \in Words, S \cap T = {}
  PROVE  Cardinality(S \cup T) = Cardinality(S) + Cardinality(T)
<1>1. Cardinality(S \cap T) = 0
  BY FS_EmptySet
<1>2. Cardinality(S \cup T) = Cardinality(S) + Cardinality(T) - Cardinality(S \cap T)
  BY WordsAreFinite, FS_Union
<1> QED BY <1>1, <1>2, WordsAreFinite

(* Parity is linear.                                                       *)
LEMMA ParityXor ==
  ASSUME NEW S \in Words, NEW T \in Words
  PROVE  /\ Xor(S, T) \in Words
         /\ Parity(Xor(S, T)) = (Parity(S) + Parity(T)) % 2
<1> DEFINE a == Cardinality(S \ T)
           b == Cardinality(T \ S)
           c == Cardinality(S \cap T)
<1>1. /\ S \ T \in Words /\ T \ S \in Words /\ S \cap T \in Words
      /\ (S \ T) \cap (T \ S) = {} /\ (S \ T) \cap (S \cap T) = {}
      /\ (T \ S) \cap (S \cap T) = {}
      /\ S = (S \ T) \cup (S \cap T) /\ T = (T \ S) \cup (S \cap T)
      /\ Xor(S, T) = (S \ T) \cup (T \ S)
  BY DEF Words, Xor
<1>2. a \in Nat /\ b \in Nat /\ c \in Nat
  BY <1>1, WordsAreFinite
<1>3. Cardinality(Xor(S, T)) = a + b
  BY <1>1, DisjointWords
<1>4. Cardinality(S) = a + c /\ Cardinality(T) = b + c
  BY <1>1, DisjointWords
<1> HIDE DEF a, b, c
<1>5. \A x, y : x = (a + c) % 2 /\ y = (b + c) % 2 => (a + b) % 2 = (x + y) % 2
  BY <1>2
<1>6. Parity(Xor(S, T)) = (Parity(S) + Parity(T)) % 2
  <2>1. Parity(Xor(S, T)) = (a + b) % 2
    BY <1>3 DEF Parity
  <2>2. Parity(S) = (a + c) % 2 /\ Parity(T) = (b + c) % 2
    BY <1>4 DEF Parity
  <2> QED BY <1>5, <2>1, <2>2
<1>7. Xor(S, T) \in Words
  BY DEF Words, Xor
<1> QED BY <1>6, <1>7

LEMMA ParityOfFew ==
  /\ Parity({}) = 0
  /\ \A x : Parity({x}) = 1
<1>1. Cardinality({}) = 0
  BY FS_EmptySet
<1>2. \A x : Cardinality({x}) = 1
  BY FS_Singleton
<1>3. 0 % 2 = 0 /\ 1 % 2 = 1
  OBVIOUS
<1> QED BY <1>1, <1>2, <1>3 DEF Parity

-----------------------------------------------------------------------------
(* The parity of what check k sums.                                        *)
Check(w, k) == Parity(w \cap Checked[k])

LEMMA CheckXor ==
  ASSUME NEW v \in Words, NEW w \in Words, NEW k \in 1 .. 4
  PROVE  /\ Check(v, k) \in {0, 1} /\ Check(w, k) \in {0, 1}
         /\ Check(Xor(v, w), k) = (Check(v, k) + Check(w, k)) % 2
<1> DEFINE C == Checked[k]
<1>1. v \cap C \in Words /\ w \cap C \in Words /\ Xor(v, w) \cap C = Xor(v \cap C, w \cap C)
  BY DEF Words, Xor
<1> QED BY <1>1, ParityXor, WordsAreFinite DEF Check

LEMMA SyndromeIs ==
  ASSUME NEW w
  PROVE  Syndrome(w) = Check(w, 1) + 2 * Check(w, 2) + 4 * Check(w, 3) + 8 * Check(w, 4)
BY DEF Syndrome, Check

(* Where the data bits sit.                                                *)
LEMMA DataPlaces ==
  /\ DataAt[0] = 2 /\ DataAt[1] = 4 /\ DataAt[2] = 5 /\ DataAt[3] = 6
  /\ DataAt[4] = 8 /\ DataAt[5] = 9 /\ DataAt[6] = 10 /\ DataAt[7] = 11
  /\ DOMAIN DataAt = Bit
BY DEF DataAt, Bit

LEMMA ParityPlaces ==
  ParityAt[1] = 0 /\ ParityAt[2] = 1 /\ ParityAt[3] = 3 /\ ParityAt[4] = 7
BY DEF ParityAt

LEMMA Sums ==
  /\ Summed[1] = {0, 1, 3, 4, 6} /\ Summed[2] = {0, 2, 3, 5, 6}
  /\ Summed[3] = {1, 2, 3, 7} /\ Summed[4] = {4, 5, 6, 7}
  /\ Checked[1] = {0, 2, 4, 6, 8, 10} /\ Checked[2] = {1, 2, 5, 6, 9, 10}
  /\ Checked[3] = {3, 4, 5, 6, 11} /\ Checked[4] = {7, 8, 9, 10, 11}
BY DEF Summed, Checked

(* Bits of a byte and where they sit in a word are as many.                *)
LEMMA PlacedParity ==
  ASSUME NEW data \in Bytes
  PROVE  /\ {DataAt[d] : d \in data} \in Words
         /\ Parity({DataAt[d] : d \in data}) = Parity(data)
<1> DEFINE T == {DataAt[d] : d \in data}
           f == [d \in data |-> DataAt[d]]
<1>1. \A d \in Bit : DataAt[d] \in Position
  BY DataPlaces DEF Bit, Position
<1>2. \A d, e \in Bit : DataAt[d] = DataAt[e] => d = e
  BY DataPlaces DEF Bit
<1>3. T \in Words /\ data \in Words
  BY <1>1 DEF Words, Bytes, Bit, Position
<1>4. f \in Bijection(data, T)
  <2>1. f \in [data -> T] /\ \A t \in T : \E d \in data : f[d] = t
    OBVIOUS
  <2>2. \A d, e \in data : f[d] = f[e] => d = e
    BY <1>2 DEF Bytes
  <2> QED BY <2>1, <2>2 DEF Bijection, Injection, Surjection, IsInjective
<1>5. ExistsBijection(data, T)
  BY <1>4 DEF ExistsBijection
<1>6. Cardinality(T) = Cardinality(data)
  BY <1>3, <1>5, WordsAreFinite, FS_Bijection
<1> QED BY <1>3, <1>6 DEF Parity
-----------------------------------------------------------------------------
(* Which positions of a word hold which bits of its byte.                  *)
LEMMA HammingBits ==
  ASSUME NEW data \in Bytes
  PROVE  LET h == Hamming(data)
         IN  /\ h \in SUBSET (0 .. 11)
             /\ 2 \in h <=> 0 \in data
             /\ 4 \in h <=> 1 \in data
             /\ 5 \in h <=> 2 \in data
             /\ 6 \in h <=> 3 \in data
             /\ 8 \in h <=> 4 \in data
             /\ 9 \in h <=> 5 \in data
             /\ 10 \in h <=> 6 \in data
             /\ 11 \in h <=> 7 \in data
             /\ 0 \in h <=> Odd(data \cap Summed[1])
             /\ 1 \in h <=> Odd(data \cap Summed[2])
             /\ 3 \in h <=> Odd(data \cap Summed[3])
             /\ 7 \in h <=> Odd(data \cap Summed[4])
<1> DEFINE h == Hamming(data)
           D == {DataAt[d] : d \in data}
           O(j) == Odd(data \cap Summed[j])
           P == {ParityAt[k] : k \in {j \in 1 .. 4 : O(j)}}
<1>1. h = D \cup P
  BY DEF Hamming
<1> HIDE DEF O
<1>2. /\ D \subseteq {2, 4, 5, 6, 8, 9, 10, 11}
      /\ 2 \in D <=> 0 \in data
      /\ 4 \in D <=> 1 \in data
      /\ 5 \in D <=> 2 \in data
      /\ 6 \in D <=> 3 \in data
      /\ 8 \in D <=> 4 \in data
      /\ 9 \in D <=> 5 \in data
      /\ 10 \in D <=> 6 \in data
      /\ 11 \in D <=> 7 \in data
  BY DataPlaces DEF Bytes, Bit
<1>3. /\ P \subseteq {0, 1, 3, 7}
      /\ 0 \in P <=> O(1)
      /\ 1 \in P <=> O(2)
      /\ 3 \in P <=> O(3)
      /\ 7 \in P <=> O(4)
  <2>1. \A k \in 1 .. 4 : k = 1 \/ k = 2 \/ k = 3 \/ k = 4
    OBVIOUS
  <2> QED BY <2>1, ParityPlaces
<1> HIDE DEF D, P, h
<1>4. /\ h \in SUBSET (0 .. 11)
      /\ 2 \in h <=> 0 \in data
      /\ 4 \in h <=> 1 \in data
      /\ 5 \in h <=> 2 \in data
      /\ 6 \in h <=> 3 \in data
      /\ 8 \in h <=> 4 \in data
      /\ 9 \in h <=> 5 \in data
      /\ 10 \in h <=> 6 \in data
      /\ 11 \in h <=> 7 \in data
      /\ 0 \in h <=> O(1)
      /\ 1 \in h <=> O(2)
      /\ 3 \in h <=> O(3)
      /\ 7 \in h <=> O(4)
  BY <1>1, <1>2, <1>3
<1> QED BY <1>4 DEF h, O

(* The encoder adds to Hamming's bits at most the overall parity.          *)
LEMMA EncodeBits ==
  ASSUME NEW data \in Bytes
  PROVE  /\ Encode(data) \in Words
         /\ Encode(data) \cap (0 .. 11) = Hamming(data)
         /\ Parity(Encode(data)) = 0
<1> DEFINE h == Hamming(data)
           p == IF Odd(h) THEN {OverallParityAt} ELSE {}
<1>1. h \in SUBSET (0 .. 11)
  BY HammingBits
<1> HIDE DEF h
<1>2. h \in Words /\ p \in Words /\ h \cup p = Xor(h, p)
  BY <1>1 DEF Words, Position, OverallParityAt, Xor
<1>3. Encode(data) = h \cup p
  BY DEF Encode, h
<1>4. Parity(h) \in {0, 1}
  BY <1>2, WordsAreFinite
<1>5. Parity(p) = Parity(h)
  BY <1>4, ParityOfFew DEF Odd
<1>6. (Parity(h) + Parity(p)) % 2 = 0
  BY <1>4, <1>5
<1>7. Parity(Encode(data)) = 0
  BY <1>2, <1>3, <1>6, ParityXor
<1>8. Encode(data) \cap (0 .. 11) = h /\ Encode(data) \in Words
  <2>1. p \subseteq {12}
    BY DEF OverallParityAt
  <2> HIDE DEF p
  <2>2. \A x \in h : x \in 0 .. 11
    BY <1>1
  <2>3. \A x \in p : x \notin 0 .. 11
    BY <2>1
  <2>4. (h \cup p) \cap (0 .. 11) = h
    BY <2>2, <2>3, Zenon
  <2>5. h \cup p \in Words
    BY <1>2 DEF Words
  <2> QED BY <1>3, <2>4, <2>5
<1> QED BY <1>7, <1>8 DEF h

(* What check k of the decoder sums of an encoding: the data bits that the *)
(* encoder's parity bit k sums, and that parity bit.                       *)
LEMMA CheckedBits ==
  ASSUME NEW data \in Bytes, NEW k \in 1 .. 4
  PROVE  Encode(data) \cap Checked[k] =
           {DataAt[d] : d \in data \cap Summed[k]}
             \cup (IF Odd(data \cap Summed[k]) THEN {ParityAt[k]} ELSE {})
<1> DEFINE h == Hamming(data)
           O(j) == Odd(data \cap Summed[j])
           D(j) == {DataAt[d] : d \in data \cap Summed[j]}
<1>1. Encode(data) \cap Checked[k] = h \cap Checked[k]
  BY EncodeBits, Sums
<1>2. /\ 2 \in h <=> 0 \in data
      /\ 4 \in h <=> 1 \in data
      /\ 5 \in h <=> 2 \in data
      /\ 6 \in h <=> 3 \in data
      /\ 8 \in h <=> 4 \in data
      /\ 9 \in h <=> 5 \in data
      /\ 10 \in h <=> 6 \in data
      /\ 11 \in h <=> 7 \in data
      /\ 0 \in h <=> O(1)
      /\ 1 \in h <=> O(2)
      /\ 3 \in h <=> O(3)
      /\ 7 \in h <=> O(4)
  BY HammingBits
<1> HIDE DEF h, O
<1>3. CASE k = 1
  <2>1. h \cap {0, 2, 4, 6, 8, 10} = D(1) \cup (IF O(1) THEN {0} ELSE {})
    BY <1>2, DataPlaces, Sums
  <2> QED BY <1>1, <1>3, <2>1, Sums, ParityPlaces DEF O
<1>4. CASE k = 2
  <2>1. h \cap {1, 2, 5, 6, 9, 10} = D(2) \cup (IF O(2) THEN {1} ELSE {})
    BY <1>2, DataPlaces, Sums
  <2> QED BY <1>1, <1>4, <2>1, Sums, ParityPlaces DEF O
<1>5. CASE k = 3
  <2>1. h \cap {3, 4, 5, 6, 11} = D(3) \cup (IF O(3) THEN {3} ELSE {})
    BY <1>2, DataPlaces, Sums
  <2> QED BY <1>1, <1>5, <2>1, Sums, ParityPlaces DEF O
<1>6. CASE k = 4
  <2>1. h \cap {7, 8, 9, 10, 11} = D(4) \cup (IF O(4) THEN {7} ELSE {})
    BY <1>2, DataPlaces, Sums
  <2> QED BY <1>1, <1>6, <2>1, Sums, ParityPlaces DEF O
<1> QED BY <1>3, <1>4, <1>5, <1>6

(* The encoding of a byte passes all checks.                               *)
LEMMA EncodingPasses ==
  ASSUME NEW data \in Bytes, NEW k \in 1 .. 4
  PROVE  Check(Encode(data), k) = 0
<1> DEFINE S == data \cap Summed[k]
           D == {DataAt[d] : d \in S}
           P == IF Odd(S) THEN {ParityAt[k]} ELSE {}
<1>1. S \in Bytes /\ S \in Words
  <2>1. S \in Bytes
    BY DEF Bytes
  <2>2. \A d \in Bit : d \in Position
    BY DEF Bit, Position
  <2> QED BY <2>1, <2>2 DEF Bytes, Words
<1>2. D \in Words /\ Parity(D) = Parity(S) /\ Parity(S) \in {0, 1}
  BY <1>1, PlacedParity, WordsAreFinite
<1>3. Encode(data) \cap Checked[k] = D \cup P
  BY CheckedBits
<1>4. D \subseteq {2, 4, 5, 6, 8, 9, 10, 11} /\ P \subseteq {0, 1, 3, 7}
  <2>1. D \subseteq {2, 4, 5, 6, 8, 9, 10, 11}
    BY <1>1, DataPlaces DEF Bytes, Bit
  <2>2. ParityAt[k] \in {0, 1, 3, 7}
    BY ParityPlaces
  <2> QED BY <2>1, <2>2
<1>5. Parity(P) = Parity(S)
  BY <1>2, ParityOfFew DEF Odd
<1> HIDE DEF D, P, S
<1>6. P \in Words /\ D \cup P = Xor(D, P)
  <2>1. \A x \in P : x \in Position
    BY <1>4 DEF Position
  <2>2. D \cap P = {}
    BY <1>4
  <2> QED BY <2>1, <2>2 DEF Words, Xor
<1>7. (Parity(D) + Parity(P)) % 2 = 0
  BY <1>2, <1>5
<1> QED BY <1>2, <1>3, <1>6, <1>7, ParityXor DEF Check

(* What the decoder computes of a word depends on the flips alone.         *)
LEMMA OnlyFlipsCount ==
  ASSUME NEW data \in Bytes, NEW F \in Words
  PROVE  LET w == Xor(Encode(data), F)
         IN  w \in Words /\ Parity(w) = Parity(F) /\ Syndrome(w) = Syndrome(F)
<1> DEFINE e == Encode(data)
           w == Xor(e, F)
<1>1. e \in Words /\ Parity(e) = 0
  BY EncodeBits
<1>2. \A k \in 1 .. 4 : Check(e, k) = 0
  BY EncodingPasses
<1> HIDE DEF e
<1>3. \A x \in {0, 1} : (0 + x) % 2 = x
  OBVIOUS
<1>4. w \in Words /\ Parity(w) = Parity(F)
  BY <1>1, <1>3, ParityXor, WordsAreFinite
<1>5. \A k \in 1 .. 4 : Check(w, k) = Check(F, k)
  BY <1>1, <1>2, <1>3, CheckXor
<1>6. Syndrome(w) = Syndrome(F)
  <2>1. Check(w, 1) = Check(F, 1) /\ Check(w, 2) = Check(F, 2)
        /\ Check(w, 3) = Check(F, 3) /\ Check(w, 4) = Check(F, 4)
    BY <1>5
  <2> QED BY <2>1, SyndromeIs
<1> QED BY <1>4, <1>6 DEF e

(* A word that is right in its first twelve positions holds its byte.      *)
LEMMA Extracted ==
  ASSUME NEW data \in Bytes, NEW w, w \cap (0 .. 11) = Hamming(data)
  PROVE  ExtractData(w) = data
<1> DEFINE h == Hamming(data)
<1>1. /\ 2 \in h <=> 0 \in data
      /\ 4 \in h <=> 1 \in data
      /\ 5 \in h <=> 2 \in data
      /\ 6 \in h <=> 3 \in data
      /\ 8 \in h <=> 4 \in data
      /\ 9 \in h <=> 5 \in data
      /\ 10 \in h <=> 6 \in data
      /\ 11 \in h <=> 7 \in data
  BY HammingBits
<1>2. \A x \in {2, 4, 5, 6, 8, 9, 10, 11} : x \in w <=> x \in h
  OBVIOUS
<1> HIDE DEF h
<1>3. \A d \in Bit : DataAt[d] \in w <=> d \in data
  BY <1>1, <1>2, DataPlaces DEF Bit
<1> QED BY <1>3 DEF ExtractData, Bytes
-----------------------------------------------------------------------------
(* The syndrome of a flip is its position, counted from 1.                 *)
LEMMA SyndromeOfOne ==
  ASSUME NEW b \in 0 .. 11
  PROVE  Syndrome({b}) = b + 1
<1>1. \A k \in 1 .. 4 : Check({b}, k) = IF b \in Checked[k] THEN 1 ELSE 0
  <2> SUFFICES ASSUME NEW k \in 1 .. 4
               PROVE  Check({b}, k) = IF b \in Checked[k] THEN 1 ELSE 0
    OBVIOUS
  <2>1. {b} \cap Checked[k] = IF b \in Checked[k] THEN {b} ELSE {}
    OBVIOUS
  <2> QED BY <2>1, ParityOfFew DEF Check
<1>2. /\ Check({b}, 1) = IF b \in {0, 2, 4, 6, 8, 10} THEN 1 ELSE 0
      /\ Check({b}, 2) = IF b \in {1, 2, 5, 6, 9, 10} THEN 1 ELSE 0
      /\ Check({b}, 3) = IF b \in {3, 4, 5, 6, 11} THEN 1 ELSE 0
      /\ Check({b}, 4) = IF b \in {7, 8, 9, 10, 11} THEN 1 ELSE 0
  BY <1>1, Sums
<1>3. Syndrome({b}) = Check({b}, 1) + 2 * Check({b}, 2) + 4 * Check({b}, 3) + 8 * Check({b}, 4)
  BY SyndromeIs
<1> QED BY <1>2, <1>3

(* No check looks beyond the first twelve positions.                       *)
LEMMA SyndromeLow ==
  ASSUME NEW F, NEW L, L = F \cap (0 .. 11)
  PROVE  Syndrome(F) = Syndrome(L)
<1>1. \A k \in 1 .. 4 : Checked[k] \subseteq 0 .. 11
  BY Sums
<1>2. \A k \in 1 .. 4 : F \cap Checked[k] = L \cap Checked[k]
  BY <1>1
<1>3. /\ F \cap Checked[1] = L \cap Checked[1] /\ F \cap Checked[2] = L \cap Checked[2]
      /\ F \cap Checked[3] = L \cap Checked[3] /\ F \cap Checked[4] = L \cap Checked[4]
  BY <1>2
<1> QED BY <1>3 DEF Syndrome

LEMMA SyndromeOfNone == Syndrome({}) = 0
<1>1. \A C : {} \cap C = {}
  OBVIOUS
<1>2. Check({}, 1) = 0 /\ Check({}, 2) = 0 /\ Check({}, 3) = 0 /\ Check({}, 4) = 0
  BY <1>1, ParityOfFew DEF Check
<1> QED BY <1>2, SyndromeIs

(* Two flips fail some check: those that sum one of them and not the other.*)
LEMMA SyndromeOfTwo ==
  ASSUME NEW a \in 0 .. 11, NEW b \in 0 .. 11, a # b
  PROVE  Syndrome({a, b}) \in Nat \ {0}
<1>1. {a} \in Words /\ {b} \in Words /\ {a, b} = Xor({a}, {b})
  BY DEF Words, Position, Xor
<1>2. \A k \in 1 .. 4 : /\ Check({a}, k) \in {0, 1} /\ Check({b}, k) \in {0, 1}
                        /\ Check({a, b}, k) = (Check({a}, k) + Check({b}, k)) % 2
  <2> SUFFICES ASSUME NEW k \in 1 .. 4
               PROVE  /\ Check({a}, k) \in {0, 1} /\ Check({b}, k) \in {0, 1}
                      /\ Check({a, b}, k) = (Check({a}, k) + Check({b}, k)) % 2
    OBVIOUS
  <2> DEFINE v == {a}
             w == {b}
  <2>1. v \in Words /\ w \in Words /\ {a, b} = Xor(v, w)
    BY <1>1
  <2> HIDE DEF v, w
  <2>2. /\ Check(v, k) \in {0, 1} /\ Check(w, k) \in {0, 1}
        /\ Check(Xor(v, w), k) = (Check(v, k) + Check(w, k)) % 2
    BY <2>1, CheckXor
  <2> QED BY <2>1, <2>2 DEF v, w
<1>3. \A x, y \in {0, 1} : (x + y) % 2 \in {0, 1} /\ ((x + y) % 2 = 0 => x = y)
  OBVIOUS
<1>4. \A k \in 1 .. 4 : /\ Check({a, b}, k) \in {0, 1}
                        /\ Check({a, b}, k) = 0 => Check({a}, k) = Check({b}, k)
  BY <1>2, <1>3
<1>5. /\ Check({a, b}, 1) \in {0, 1} /\ Check({a, b}, 2) \in {0, 1}
      /\ Check({a, b}, 3) \in {0, 1} /\ Check({a, b}, 4) \in {0, 1}
  BY <1>4
<1>6. Syndrome({a, b}) =
        Check({a, b}, 1) + 2 * Check({a, b}, 2) + 4 * Check({a, b}, 3) + 8 * Check({a, b}, 4)
  BY SyndromeIs
<1>7. ASSUME Syndrome({a, b}) = 0 PROVE FALSE
  <2>1. /\ Check({a, b}, 1) = 0 /\ Check({a, b}, 2) = 0
        /\ Check({a, b}, 3) = 0 /\ Check({a, b}, 4) = 0
    BY <1>5, <1>6, <1>7
  <2>2. /\ Check({a}, 1) = Check({b}, 1) /\ Check({a}, 2) = Check({b}, 2)
        /\ Check({a}, 3) = Check({b}, 3) /\ Check({a}, 4) = Check({b}, 4)
    BY <1>4, <2>1
  <2>3. Syndrome({a}) = Syndrome({b})
    BY <2>2, SyndromeIs
  <2> QED BY <2>3, SyndromeOfOne
<1> QED BY <1>5, <1>6, <1>7
-----------------------------------------------------------------------------
LEMMA TwoElements ==
  ASSUME NEW L \in Words, Cardinality(L) = 2
  PROVE  \E a, b \in L : a # b /\ L = {a, b}
<1>1. L # {}
  BY FS_EmptySet
<1>2. PICK a \in L : TRUE
  BY <1>1
<1>3. IsFiniteSet(L \ {a}) /\ Cardinality(L \ {a}) = 1
  BY <1>2, WordsAreFinite, FS_RemoveElement
<1>4. PICK b : L \ {a} = {b}
  BY <1>3, FS_Singleton
<1>5. b \in L /\ a # b /\ L = {a, b}
  BY <1>2, <1>4
<1> QED BY <1>5

(* The flips that the code's checks see, and the others, which only the    *)
(* overall parity sees.                                                    *)
LowPart(F) == {b \in F : b < OverallParityAt}
HighPart(F) == {b \in F : b >= OverallParityAt}

LEMMA Parts ==
  ASSUME NEW F \in Words
  PROVE  /\ LowPart(F) \in Words /\ LowPart(F) = F \cap (0 .. 11)
         /\ HighPart(F) \in Words /\ Parity(HighPart(F)) \in {0, 1}
         /\ Parity(F) = (Parity(LowPart(F)) + Parity(HighPart(F))) % 2
         /\ DistanceOf(F) = Cardinality(LowPart(F)) + Parity(HighPart(F))
         /\ Cardinality(LowPart(F)) \in Nat
<1>1. \A b \in F : b \in 0 .. 15
  BY DEF Words, Position
<1>2. LowPart(F) = F \cap (0 .. 11)
  BY <1>1 DEF LowPart, OverallParityAt
<1>3. LowPart(F) \in Words /\ HighPart(F) \in Words
  BY DEF LowPart, HighPart, Words
<1>4. F = Xor(LowPart(F), HighPart(F))
  BY <1>1 DEF LowPart, HighPart, Xor, OverallParityAt
<1>5. Parity(F) = (Parity(LowPart(F)) + Parity(HighPart(F))) % 2
  BY <1>3, <1>4, ParityXor
<1>6. DistanceOf(F) = Cardinality(LowPart(F)) + Parity(HighPart(F))
  BY DEF DistanceOf, LowPart, HighPart
<1> QED BY <1>2, <1>3, <1>5, <1>6, WordsAreFinite

(* What the decoder makes of a byte after flips at a distance of up to     *)
(* two: it finds nothing, repairs it, or gives up.                         *)
LEMMA DecodeFlips ==
  ASSUME NEW data \in Bytes, NEW F \in Words, DistanceOf(F) <= MaxNoise
  PROVE  LET w == Xor(Encode(data), F)
             n == DistanceOf(F)
         IN  /\ n \in 0 .. 2
             /\ n = 0 => Decode(w) = NoError(data)
             /\ n = 1 => \E p \in 1 .. 13 :
                           /\ Decode(w) = Corrected(data, p)
                           /\ \A b \in Position : F = {b} =>
                                p = IF b < OverallParityAt THEN b + 1 ELSE 13
             /\ n = 2 => Decode(w) = Uncorrectable
<1> DEFINE w == Xor(Encode(data), F)
           n == DistanceOf(F)
           L == LowPart(F)
           h == Parity(HighPart(F))
           s == Syndrome(w)
<1>1. /\ L \in Words /\ L = F \cap (0 .. 11) /\ h \in {0, 1}
      /\ Parity(F) = (Parity(L) + h) % 2
      /\ n = Cardinality(L) + h /\ Cardinality(L) \in Nat /\ n <= 2
  BY Parts DEF MaxNoise
<1>2. w \in Words /\ Parity(w) = (Parity(L) + h) % 2 /\ s = Syndrome(L)
  <2>1. w \in Words /\ Parity(w) = Parity(F) /\ s = Syndrome(F)
    BY OnlyFlipsCount
  <2>2. Syndrome(F) = Syndrome(L)
    BY <1>1, SyndromeLow
  <2> QED BY <1>1, <2>1, <2>2
<1>3. /\ Encode(data) \cap (0 .. 11) = Hamming(data)
      /\ L = {} => w \cap (0 .. 11) = Hamming(data)
      /\ \A a : L = {a} => Flip(w, a) \cap (0 .. 11) = Hamming(data)
  <2>1. Encode(data) \cap (0 .. 11) = Hamming(data)
    BY EncodeBits
  <2> QED BY <1>1, <2>1 DEF Flip, Xor
<1>4. /\ (0 + 0) % 2 = 0 /\ (0 + 1) % 2 = 1 /\ (1 + 0) % 2 = 1 /\ (1 + 1) % 2 = 0
  OBVIOUS
<1>5. F # {} => \A b : F = {b} => L = {b} \/ (L = {} /\ b \notin 0 .. 11)
  BY <1>1
<1>6. \A b \in Position : b \in 0 .. 11 <=> b < OverallParityAt
  BY DEF Position, OverallParityAt
<1>7. Decode(w) = CASE Parity(w) = 1 /\ s = 0 -> Corrected(ExtractData(w), 13)
                    [] Parity(w) = 1 /\ s \in 1 .. 12 -> Corrected(ExtractData(Flip(w, s - 1)), s)
                    [] Parity(w) # 1 /\ s = 0 -> NoError(ExtractData(w))
                    [] OTHER -> Uncorrectable
  BY DEF Decode, Odd
<1> HIDE DEF w, n, L, h, s
<1>8. CASE Cardinality(L) = 0
  <2>1. L = {} /\ Parity(L) = 0 /\ s = 0 /\ n = h
    <3>1. L = {}
      BY <1>1, <1>8, WordsAreFinite, FS_EmptySet
    <3>2. Parity(L) = 0 /\ s = 0
      BY <1>2, <3>1, ParityOfFew, SyndromeOfNone
    <3>3. n = h
      BY <1>1, <1>8
    <3> QED BY <3>1, <3>2, <3>3
  <2>2. ExtractData(w) = data
    BY <1>3, <2>1, Extracted
  <2>3. CASE h = 0
    <3>1. Parity(w) = 0
      BY <1>2, <1>4, <2>1, <2>3
    <3>2. Decode(w) = NoError(data)
      BY <1>7, <2>1, <2>2, <3>1
    <3> QED BY <2>1, <2>3, <3>2 DEF w, n
  <2>4. CASE h = 1
    <3>1. Parity(w) = 1
      BY <1>2, <1>4, <2>1, <2>4
    <3>2. Decode(w) = Corrected(data, 13)
      BY <1>7, <2>1, <2>2, <3>1
    <3>3. \A b \in Position : F = {b} => 13 = IF b < OverallParityAt THEN b + 1 ELSE 13
      BY <1>5, <1>6, <2>1
    <3>4. \E p \in 1 .. 13 :
            /\ Decode(w) = Corrected(data, p)
            /\ \A b \in Position : F = {b} => p = IF b < OverallParityAt THEN b + 1 ELSE 13
      <4>1. 13 \in 1 .. 13
        OBVIOUS
      <4> QED BY <3>2, <3>3, <4>1
    <3> QED BY <2>1, <2>4, <3>4 DEF w, n
  <2> QED BY <1>1, <2>3, <2>4
<1>9. CASE Cardinality(L) = 1
  <2>1. PICK a : L = {a}
    BY <1>1, <1>9, WordsAreFinite, FS_Singleton
  <2>2. a \in 0 .. 11 /\ s = a + 1 /\ Parity(L) = 1
    BY <1>1, <1>2, <2>1, SyndromeOfOne, ParityOfFew
  <2>3. ExtractData(Flip(w, s - 1)) = data
    <3>1. s - 1 = a
      BY <2>2
    <3>2. ExtractData(Flip(w, a)) = data
      BY <1>3, <2>1, Extracted
    <3> QED BY <3>1, <3>2
  <2>4. s \in 1 .. 12 /\ s \in 1 .. 13 /\ s # 0
    BY <2>2
  <2>5. CASE h = 0
    <3>1. Parity(w) = 1 /\ n = 1
      BY <1>1, <1>2, <1>4, <1>9, <2>2, <2>5
    <3>2. Decode(w) = Corrected(data, s)
      BY <1>7, <2>3, <2>4, <3>1
    <3>3. \A b \in Position : F = {b} => s = IF b < OverallParityAt THEN b + 1 ELSE 13
      <4>1. \A b \in Position : F = {b} => b = a
        BY <1>5, <2>1
      <4> QED BY <1>6, <2>2, <4>1
    <3>4. \E p \in 1 .. 13 :
            /\ Decode(w) = Corrected(data, p)
            /\ \A b \in Position : F = {b} => p = IF b < OverallParityAt THEN b + 1 ELSE 13
      BY <2>4, <3>2, <3>3
    <3> QED BY <3>1, <3>4 DEF w, n
  <2>6. CASE h = 1
    <3>1. Parity(w) = 0 /\ n = 2
      BY <1>1, <1>2, <1>4, <1>9, <2>2, <2>6
    <3>2. Decode(w) = Uncorrectable
      BY <1>7, <2>4, <3>1
    <3> QED BY <3>1, <3>2 DEF w, n
  <2> QED BY <1>1, <2>5, <2>6
<1>10. CASE Cardinality(L) = 2
  <2>1. PICK a, b \in L : a # b /\ L = {a, b}
    BY <1>1, <1>10, TwoElements
  <2>2. a \in 0 .. 11 /\ b \in 0 .. 11
    BY <1>1, <2>1
  <2>3. s \in Nat \ {0}
    BY <1>2, <2>1, <2>2, SyndromeOfTwo
  <2>4. h = 0 /\ n = 2
    BY <1>1, <1>10
  <2>5. Parity(L) = 0
    <3>1. 2 % 2 = 0
      OBVIOUS
    <3> QED BY <1>10, <3>1 DEF Parity
  <2>6. Parity(w) = 0
    BY <1>2, <1>4, <2>4, <2>5
  <2>7. Decode(w) = Uncorrectable
    BY <1>7, <2>3, <2>6
  <2> QED BY <2>4, <2>7 DEF w, n
<1> QED BY <1>1, <1>8, <1>9, <1>10
-----------------------------------------------------------------------------
(* What every state is: some byte's encoding, and flips within the bound.  *)
WordInv == byte \in Bytes /\ word \in Words /\ DistanceOf(Flipped) <= MaxNoise

LEMMA FlippedIs ==
  ASSUME WordInv
  PROVE  Flipped \in Words /\ word = Xor(Encode(byte), Flipped)
<1>1. Encode(byte) \in Words
  BY EncodeBits DEF WordInv
<1>2. Flipped \in Words
  BY <1>1, ParityXor DEF WordInv, Flipped
<1>3. word = Xor(Encode(byte), Flipped)
  BY DEF Flipped, Xor
<1> QED BY <1>2, <1>3

(* A word just encoded is at distance 0.                                   *)
LEMMA Fresh ==
  ASSUME NEW data \in Bytes
  PROVE  DistanceOf(Xor(Encode(data), Encode(data))) = 0
<1>1. Xor(Encode(data), Encode(data)) = {}
  BY DEF Xor
<1>2. {b \in {} : b < OverallParityAt} = {} /\ {b \in {} : b >= OverallParityAt} = {}
  OBVIOUS
<1>3. Cardinality({}) = 0 /\ Parity({}) = 0
  BY FS_EmptySet, ParityOfFew
<1> QED BY <1>1, <1>2, <1>3 DEF DistanceOf

LEMMA DecodedByte ==
  ASSUME WordInv, Decode(word).kind # "Uncorrectable"
  PROVE  Decode(word).data = byte
<1> DEFINE n == DistanceOf(Flipped)
           d == Decode(word)
<1>1. /\ n \in 0 .. 2
      /\ n = 0 => d = NoError(byte)
      /\ n = 1 => \E p \in 1 .. 13 : d = Corrected(byte, p)
      /\ n = 2 => d = Uncorrectable
  BY FlippedIs, DecodeFlips DEF WordInv
<1> HIDE DEF n, d
<1>2. Uncorrectable.kind = "Uncorrectable"
  BY DEF Uncorrectable
<1>3. n \in {0, 1} /\ d.data = byte
  BY <1>1, <1>2 DEF d, NoError, Corrected
<1> QED BY <1>3 DEF d

LEMMA WordInit == Init => WordInv
<1> SUFFICES ASSUME Init PROVE WordInv
  OBVIOUS
<1>1. byte \in Bytes /\ word = Encode(byte)
  BY SecdedAssumption DEF Init
<1>2. DistanceOf(Flipped) = 0
  BY <1>1, Fresh DEF Flipped
<1> QED BY <1>1, <1>2, EncodeBits DEF WordInv, MaxNoise

(* The next flips are the flips and the one that arrives.                  *)
LEMMA FlippedNext ==
  ASSUME NEW b \in Position, InjectBitFlip(b)
  PROVE  Flipped' = Xor(Flipped, {b})
BY DEF InjectBitFlip, Flipped, Flip, Xor

LEMMA WordNext == WordInv /\ [Next]_vars => WordInv'
<1> SUFFICES ASSUME WordInv, [Next]_vars PROVE WordInv'
  OBVIOUS
<1>1. ASSUME NEW b \in Position, InjectBitFlip(b) PROVE WordInv'
  <2>1. DistanceOf(Flipped') <= MaxNoise
    BY <1>1, FlippedNext DEF InjectBitFlip
  <2>2. {b} \in Words
    BY DEF Words
  <2>3. word' \in Words
    BY <1>1, <2>2, ParityXor DEF InjectBitFlip, Flip, WordInv
  <2> QED BY <1>1, <2>1, <2>3 DEF WordInv, InjectBitFlip
<1>2. ASSUME byte' \in Bytes, word' = Encode(byte') PROVE WordInv'
  <2>1. DistanceOf(Flipped') = 0
    BY <1>2, Fresh DEF Flipped
  <2>2. word' \in Words
    BY <1>2, EncodeBits
  <2> QED BY <1>2, <2>1, <2>2 DEF WordInv, MaxNoise
<1>3. ASSUME NEW data \in Inputs, WriteByte(data) PROVE WordInv'
  BY <1>2, <1>3, SecdedAssumption DEF WriteByte
<1>4. CASE ReadByte
  <2>1. CASE Decode(word).kind = "Corrected"
    BY <1>2, <1>4, <2>1, DecodedByte DEF ReadByte, WordInv
  <2>2. CASE Decode(word).kind # "Corrected"
    BY <1>4, <2>2 DEF ReadByte, WordInv, Flipped
  <2> QED BY <2>1, <2>2
<1>5. CASE UNCHANGED vars
  BY <1>5 DEF vars, WordInv, Flipped
<1> QED BY <1>1, <1>3, <1>4, <1>5 DEF Next

LEMMA WordInvariance == Spec => []WordInv
BY WordInit, WordNext, PTL DEF Spec

(* Whatever bytes are stored and wherever up to two flips hit, a read      *)
(* (read_byte over decode) gives back the byte written or faults.          *)
THEOREM ReadsAreRightOrFault == Spec => []NoSilentCorruption
<1>1. WordInv => NoSilentCorruption
  BY DecodedByte DEF NoSilentCorruption
<1> QED BY <1>1, WordInvariance, PTL

(* One flip of one bit is corrected and located, whichever bit and byte.   *)
THEOREM OneFlipIsCorrected == Spec => []SingleFlipIsLocated
<1>1. ASSUME WordInv PROVE SingleFlipIsLocated
  <2> SUFFICES ASSUME NEW b \in Flipped, Flipped = {b}
               PROVE  Decode(word) =
                        Corrected(byte, IF b < OverallParityAt THEN b + 1 ELSE 13)
    BY DEF SingleFlipIsLocated
  <2>1. b \in Position /\ {b} \in Words
    BY <1>1, FlippedIs DEF Words
  <2>2. DistanceOf({b}) = 1
    <3>1. CASE b < OverallParityAt
      <4>1. {x \in {b} : x < OverallParityAt} = {b} /\ {x \in {b} : x >= OverallParityAt} = {}
        BY <2>1, <3>1 DEF Position, OverallParityAt
      <4>2. Cardinality({b}) = 1 /\ Parity({}) = 0
        BY FS_Singleton, ParityOfFew
      <4> QED BY <4>1, <4>2 DEF DistanceOf
    <3>2. CASE ~(b < OverallParityAt)
      <4>1. {x \in {b} : x < OverallParityAt} = {} /\ {x \in {b} : x >= OverallParityAt} = {b}
        BY <2>1, <3>2 DEF Position, OverallParityAt
      <4>2. Cardinality({}) = 0 /\ Parity({b}) = 1
        BY FS_EmptySet, ParityOfFew
      <4> QED BY <4>1, <4>2 DEF DistanceOf
    <3> QED BY <3>1, <3>2
  <2>3. \E p \in 1 .. 13 :
          /\ Decode(word) = Corrected(byte, p)
          /\ \A c \in Position : Flipped = {c} =>
               p = IF c < OverallParityAt THEN c + 1 ELSE 13
    BY <1>1, <2>2, FlippedIs, DecodeFlips DEF WordInv
  <2> QED BY <2>1, <2>3
<1> QED BY <1>1, WordInvariance, PTL
-----------------------------------------------------------------------------
(* One more flip takes the word one further from its encoding, or back.    *)
LEMMA DistanceStep ==
  ASSUME NEW F \in Words, NEW b \in Position
  PROVE  DistanceOf(Xor(F, {b})) \in {DistanceOf(F) - 1, DistanceOf(F) + 1}
<1> DEFINE G == Xor(F, {b})
           L == LowPart(F)
           H == HighPart(F)
<1>1. {b} \in Words /\ G \in Words
  <2>1. {b} \in Words
    BY DEF Words
  <2> QED BY <2>1, ParityXor
<1>2. /\ L \in Words /\ H \in Words /\ Parity(H) \in {0, 1} /\ Cardinality(L) \in Nat
      /\ DistanceOf(F) = Cardinality(L) + Parity(H)
      /\ DistanceOf(G) = Cardinality(LowPart(G)) + Parity(HighPart(G))
  BY <1>1, Parts
<1>3. \A x \in Position : x < OverallParityAt <=> ~(x >= OverallParityAt)
  BY DEF Position, OverallParityAt
<1>4. F \subseteq Position
  BY DEF Words
<1>5. CASE b < OverallParityAt
  <2>1. HighPart(G) = H /\ LowPart(G) = Xor(L, {b})
    BY <1>3, <1>4, <1>5 DEF HighPart, LowPart, Xor
  <2>2. Cardinality(Xor(L, {b})) \in {Cardinality(L) - 1, Cardinality(L) + 1}
    <3>1. CASE b \in L
      <4>1. Xor(L, {b}) = L \ {b}
        BY <3>1 DEF Xor
      <4> QED BY <1>2, <3>1, <4>1, WordsAreFinite, FS_RemoveElement
    <3>2. CASE b \notin L
      <4>1. Xor(L, {b}) = L \cup {b}
        BY <3>2 DEF Xor
      <4> QED BY <1>2, <3>2, <4>1, WordsAreFinite, FS_AddElement
    <3> QED BY <3>1, <3>2
  <2> HIDE DEF G, L, H
  <2> QED BY <1>2, <2>1, <2>2 DEF G
<1>6. CASE ~(b < OverallParityAt)
  <2>1. LowPart(G) = L /\ HighPart(G) = Xor(H, {b})
    BY <1>3, <1>4, <1>6 DEF HighPart, LowPart, Xor
  <2>2. Parity({b}) = 1
    BY ParityOfFew
  <2>3. Parity(Xor(H, {b})) = (Parity(H) + 1) % 2
    BY <1>1, <1>2, <2>2, ParityXor
  <2>4. (0 + 1) % 2 = 1 /\ (1 + 1) % 2 = 0
    OBVIOUS
  <2>5. Parity(Xor(H, {b})) \in {Parity(H) - 1, Parity(H) + 1}
    BY <1>2, <2>3, <2>4
  <2> HIDE DEF G, L, H
  <2> QED BY <1>2, <2>1, <2>5 DEF G
<1> QED BY <1>5, <1>6

(* The noise read off the decoder is the distance of the flips.            *)
LEMMA NoiseIs ==
  ASSUME WordInv
  PROVE  Noise(word) = DistanceOf(Flipped) /\ DistanceOf(Flipped) \in 0 .. 2
<1> DEFINE n == DistanceOf(Flipped)
           d == Decode(word)
<1>1. /\ n \in 0 .. 2
      /\ n = 0 => d = NoError(byte)
      /\ n = 1 => \E p \in 1 .. 13 : d = Corrected(byte, p)
      /\ n = 2 => d = Uncorrectable
  BY FlippedIs, DecodeFlips DEF WordInv
<1> HIDE DEF n, d
<1>2. /\ n = 0 => d.kind = "NoError"
      /\ n = 1 => d.kind = "Corrected"
      /\ n = 2 => d.kind = "Uncorrectable"
  BY <1>1 DEF NoError, Corrected, Uncorrectable
<1>3. NoiseOf(d.kind) = n
  BY <1>1, <1>2 DEF NoiseOf
<1> QED BY <1>1, <1>3 DEF Noise, d, n

LEMMA CorrectedIs ==
  ASSUME WordInv
  PROVE  Decode(word).kind = "Corrected" <=> Noise(word) = 1
<1>1. NoiseOf(Decode(word).kind) = 1 <=> Decode(word).kind = "Corrected"
  BY DEF NoiseOf
<1> QED BY <1>1 DEF Noise

(* The page of one word that holds v at that noise.                        *)
OneWord(v, n) == [f \in {0} |-> [o \in {0} |-> [val |-> v, noise |-> n]]]

LEMMA OneWordExcept ==
  ASSUME NEW v, NEW n, NEW k
  PROVE  [OneWord(v, n) EXCEPT ![0][0].noise = k] = OneWord(v, k)
<1> DEFINE c == OneWord(v, n)
           r == [val |-> v, noise |-> n]
<1>1. [r EXCEPT !.noise = k] = [val |-> v, noise |-> k]
  OBVIOUS
<1>2. c[0][0] = r /\ c = [f \in {0} |-> [o \in {0} |-> r]]
  BY DEF OneWord
<1>3. [c EXCEPT ![0][0].noise = k] =
        [c EXCEPT ![0] = [c[0] EXCEPT ![0] = [r EXCEPT !.noise = k]]]
  BY <1>2
<1> HIDE DEF r, c
<1>4. [c EXCEPT ![0] = [c[0] EXCEPT ![0] = [val |-> v, noise |-> k]]] = OneWord(v, k)
  BY <1>2 DEF OneWord
<1> QED BY <1>1, <1>3, <1>4 DEF c

LEMMA AbstractOperations ==
  LET m == AbstractMemory
  IN  /\ m.cells = OneWord(byte, Noise(word))
      /\ \A n \in 0 .. 2 : n \in {Noise(word) - 1, Noise(word) + 1} =>
           /\ n \in Abstract!FlipTo(m, 0, 0)
           /\ Abstract!InjectBitFlip(m, 0, 0, n).cells = OneWord(byte, n)
      /\ \A data : Abstract!WriteByte(m, 0, 0, data).cells = OneWord(data, 0)
      /\ Abstract!ReadByte(m, 0, 0).cells =
           OneWord(byte, IF Noise(word) = 1 THEN 0 ELSE Noise(word))
<1> DEFINE m == AbstractMemory
<1>1. /\ m = [status |-> m.status, owner |-> m.owner, cells |-> m.cells]
      /\ m.cells = OneWord(byte, Noise(word)) /\ m.status[0] = 0
      /\ m.status = [f \in {0} |-> 0]
      /\ m.cells[0][0].noise = Noise(word)
  BY DEF AbstractMemory, OneWord
<1> HIDE DEF m
<1>2. ASSUME NEW n \in 0 .. 2, n \in {Noise(word) - 1, Noise(word) + 1}
      PROVE  /\ n \in Abstract!FlipTo(m, 0, 0)
             /\ Abstract!InjectBitFlip(m, 0, 0, n).cells = OneWord(byte, n)
  <2>1. n \in Abstract!FlipTo(m, 0, 0)
    BY <1>1, <1>2 DEF Abstract!FlipTo, Abstract!MaxNoise
  <2>2. Abstract!InjectBitFlip(m, 0, 0, n).cells = [m.cells EXCEPT ![0][0].noise = n]
    BY <1>1 DEF Abstract!InjectBitFlip
  <2>3. [m.cells EXCEPT ![0][0].noise = n] = OneWord(byte, n)
    BY <1>1, OneWordExcept
  <2> QED BY <2>1, <2>2, <2>3
<1>3. ASSUME NEW data
      PROVE  Abstract!WriteByte(m, 0, 0, data).cells = OneWord(data, 0)
  <2>1. Abstract!Usable(m, 0)
    BY <1>1 DEF Abstract!Usable, Abstract!Quarantined
  <2>2. Abstract!WriteByte(m, 0, 0, data).cells =
          [m.cells EXCEPT ![0][0] = [val |-> data, noise |-> 0]]
    BY <1>1, <2>1 DEF Abstract!WriteByte
  <2>3. [m.cells EXCEPT ![0][0] = [val |-> data, noise |-> 0]] = OneWord(data, 0)
    BY <1>1 DEF OneWord
  <2> QED BY <2>2, <2>3
<1>4. Abstract!ReadByte(m, 0, 0).cells =
        OneWord(byte, IF Noise(word) = 1 THEN 0 ELSE Noise(word))
  <2>1. Abstract!ReadFaults(m, 0, 0) <=> Noise(word) = 2
    BY <1>1 DEF Abstract!ReadFaults
  <2>2. Abstract!ReadCorrects(m, 0, 0) <=> Noise(word) = 1
    BY <1>1 DEF Abstract!ReadCorrects
  <2>3. CASE Noise(word) = 1
    <3>1. ~Abstract!ReadFaults(m, 0, 0) /\ Abstract!ReadCorrects(m, 0, 0)
      BY <2>1, <2>2, <2>3
    <3>2. Abstract!ReadByte(m, 0, 0) =
            [m EXCEPT !.cells[0][0].noise = 0, !.status[0] = Abstract!CountRepair(@)]
      BY <3>1 DEF Abstract!ReadByte
    <3>3. Abstract!ReadByte(m, 0, 0).cells = [m.cells EXCEPT ![0][0].noise = 0]
      BY <1>1, <3>2
    <3>4. [m.cells EXCEPT ![0][0].noise = 0] = OneWord(byte, 0)
      BY <1>1, OneWordExcept
    <3> QED BY <2>3, <3>3, <3>4
  <2>4. CASE Noise(word) # 1
    <3>1. Abstract!ReadByte(m, 0, 0).cells = m.cells
      BY <1>1, <2>1, <2>2, <2>4 DEF Abstract!ReadByte
    <3> QED BY <1>1, <2>4, <3>1
  <2> QED BY <2>3, <2>4
<1> QED BY <1>1, <1>2, <1>3, <1>4 DEF m

LEMMA CellsNext == AbstractMemory.cells' = OneWord(byte', Noise(word'))
BY DEF AbstractMemory, OneWord

LEMMA NoiseNext == WordInv' => /\ Noise(word') = DistanceOf(Flipped')
                               /\ DistanceOf(Flipped') \in 0 .. 2
<1>1. WordInv => Noise(word) = DistanceOf(Flipped) /\ DistanceOf(Flipped) \in 0 .. 2
  BY NoiseIs
<1>2. WordInv' => (Noise(word) = DistanceOf(Flipped) /\ DistanceOf(Flipped) \in 0 .. 2)'
  BY <1>1, PTL
<1> QED BY <1>2

(* A word under the code does what the word [val, noise] of module Frames  *)
(* does, so that the modules built on Frames speak of the real memory.     *)
THEOREM FramesPictureWords == Spec => FramesPicturesWords
<1> DEFINE m == AbstractMemory
           cells == m.cells'
           A == \/ \E n \in Abstract!FlipTo(m, 0, 0) :
                     cells = Abstract!InjectBitFlip(m, 0, 0, n).cells
                \/ \E data \in Inputs : cells = Abstract!WriteByte(m, 0, 0, data).cells
                \/ cells = Abstract!ReadByte(m, 0, 0).cells
<1>1. ASSUME WordInv, WordInv', Next PROVE A
  <2>1. Noise(word) = DistanceOf(Flipped) /\ Noise(word) \in 0 .. 2
    BY <1>1, NoiseIs
  <2>2. Noise(word') = DistanceOf(Flipped') /\ Noise(word') \in 0 .. 2
    BY <1>1, NoiseNext
  <2>3. cells = OneWord(byte', Noise(word'))
    BY CellsNext
  <2> HIDE DEF m, cells
  <2>4. ASSUME NEW b \in Position, InjectBitFlip(b) PROVE A
    <3>1. Noise(word') \in {Noise(word) - 1, Noise(word) + 1}
      BY <1>1, <2>1, <2>2, <2>4, FlippedNext, FlippedIs, DistanceStep
    <3>2. byte' = byte
      BY <2>4 DEF InjectBitFlip
    <3>3. /\ Noise(word') \in Abstract!FlipTo(m, 0, 0)
          /\ Abstract!InjectBitFlip(m, 0, 0, Noise(word')).cells = OneWord(byte, Noise(word'))
      BY <2>2, <3>1, AbstractOperations DEF m
    <3> QED BY <2>3, <3>2, <3>3
  <2>5. ASSUME NEW data \in Inputs, WriteByte(data) PROVE A
    <3>1. data \in Bytes /\ byte' = data /\ word' = Encode(data)
      BY <2>5, SecdedAssumption DEF WriteByte
    <3>2. DistanceOf(Flipped') = 0
      BY <3>1, Fresh DEF Flipped
    <3>3. Abstract!WriteByte(m, 0, 0, data).cells = OneWord(data, 0)
      BY AbstractOperations DEF m
    <3> QED BY <2>2, <2>3, <3>1, <3>2, <3>3
  <2>6. CASE ReadByte
    <3>1. Abstract!ReadByte(m, 0, 0).cells =
            OneWord(byte, IF Noise(word) = 1 THEN 0 ELSE Noise(word))
      BY AbstractOperations DEF m
    <3>2. byte' = byte /\ byte \in Bytes
      BY <1>1, <2>6 DEF ReadByte, WordInv
    <3>3. Decode(word).kind = "Corrected" <=> Noise(word) = 1
      BY <1>1, CorrectedIs
    <3>4. CASE Noise(word) = 1
      <4>1. word' = Encode(byte)
        BY <1>1, <2>6, <3>3, <3>4, DecodedByte DEF ReadByte
      <4>2. DistanceOf(Flipped') = 0
        BY <3>2, <4>1, Fresh DEF Flipped
      <4> QED BY <2>2, <2>3, <3>1, <3>2, <3>4, <4>2
    <3>5. CASE Noise(word) # 1
      <4>1. word' = word
        BY <2>6, <3>3, <3>5 DEF ReadByte
      <4> QED BY <2>3, <3>1, <3>2, <3>5, <4>1
    <3> QED BY <3>4, <3>5
  <2> QED BY <1>1, <2>4, <2>5, <2>6 DEF Next
<1>2. WordInv /\ WordInv' /\ [Next]_vars => [A]_vars
  BY <1>1
<1>3. FramesPicturesWords <=> [][A]_vars
  BY DEF FramesPicturesWords
<1> QED BY <1>2, <1>3, WordInit, WordNext, PTL DEF Spec
=============================================================================
