------------------------------- MODULE Secded -------------------------------
(***************************************************************************)
(* The SECDED code of memory-subsystem/src/ecc.rs, bit by bit, and the     *)
(* life of one word of a page under it: writes, bit flips and reads that   *)
(* repair (PhysicalFrame::write_byte, read_byte, inject_bit_flip).         *)
(*                                                                         *)
(* A byte is the set of its 1 bits, a 16-bit word the set of the positions *)
(* (counted from 0) of its 1 bits.                                         *)
(***************************************************************************)
EXTENDS Integers, FiniteSets

CONSTANTS
  Stored,   \* the bytes a word starts with
  Inputs    \* the bytes written over another one

Bit == 0 .. 7
Position == 0 .. 15
Bytes == SUBSET Bit

ASSUME SecdedAssumption == Stored \subseteq Bytes /\ Inputs \subseteq Bytes

(* The exclusive or of bits, and of words.                                 *)
Parity(S) == Cardinality(S) % 2
Odd(S) == Parity(S) = 1
Xor(v, w) == (v \ w) \cup (w \ v)

(* Where data bit d and Hamming parity bit k sit in a word.                *)
DataAt == [d \in Bit |-> <<2, 4, 5, 6, 8, 9, 10, 11>>[d + 1]]
ParityAt == <<0, 1, 3, 7>>
OverallParityAt == 12

(* The data bits that parity bit k sums, as encode lists them.             *)
Summed == <<{0, 1, 3, 4, 6}, {0, 2, 3, 5, 6}, {1, 2, 3, 7}, {4, 5, 6, 7}>>

(* The positions that syndrome bit k sums, as decode lists them.           *)
Checked == <<{0, 2, 4, 6, 8, 10}, {1, 2, 5, 6, 9, 10}, {3, 4, 5, 6, 11},
             {7, 8, 9, 10, 11}>>

Hamming(data) ==
  {DataAt[d] : d \in data}
    \cup {ParityAt[k] : k \in {j \in 1 .. 4 : Odd(data \cap Summed[j])}}

(* The overall parity bit is left out.                                     *)
Encode_NoOverallParity(data) == Hamming(data)

Encode(data) ==
  LET h == Hamming(data)
  IN  IF Odd(h) THEN h \cup {OverallParityAt} ELSE h

Syndrome(word) ==
  Parity(word \cap Checked[1]) + 2 * Parity(word \cap Checked[2])
    + 4 * Parity(word \cap Checked[3]) + 8 * Parity(word \cap Checked[4])

ExtractData(word) == {d \in Bit : DataAt[d] \in word}

Flip(word, b) == Xor(word, {b})

NoError(data) == [kind |-> "NoError", data |-> data, position |-> 0]
Corrected(data, position) == [kind |-> "Corrected", data |-> data, position |-> position]
Uncorrectable == [kind |-> "Uncorrectable", data |-> {}, position |-> 0]

(* The syndrome is taken for a position counted from 0.                    *)
Decode_WrongBit(word) ==
  LET s == Syndrome(word)
  IN  CASE Odd(word) /\ s = 0 -> Corrected(ExtractData(word), 13)
        [] Odd(word) /\ s \in 1 .. 12 -> Corrected(ExtractData(Flip(word, s)), s)
        [] ~Odd(word) /\ s = 0 -> NoError(ExtractData(word))
        [] OTHER -> Uncorrectable

(* Two flips are taken for none when the parity is right.                  *)
Decode_TrustsParity(word) ==
  LET s == Syndrome(word)
  IN  CASE Odd(word) /\ s = 0 -> Corrected(ExtractData(word), 13)
        [] Odd(word) /\ s \in 1 .. 12 -> Corrected(ExtractData(Flip(word, s - 1)), s)
        [] ~Odd(word) -> NoError(ExtractData(word))
        [] OTHER -> Uncorrectable

(* The parity covers all 16 bits, the three spare ones included.           *)
Decode(word) ==
  LET s == Syndrome(word)
      odd == Odd(word)
  IN  CASE odd /\ s = 0 -> Corrected(ExtractData(word), 13)
        [] odd /\ s \in 1 .. 12 -> Corrected(ExtractData(Flip(word, s - 1)), s)
        [] ~odd /\ s = 0 -> NoError(ExtractData(word))
        [] OTHER -> Uncorrectable
-----------------------------------------------------------------------------
VARIABLES
  byte,    \* the byte last written
  word     \* what memory holds for it

vars == <<byte, word>>

Init == byte \in Stored /\ word = Encode(byte)

(* The bits flipped since the word was encoded, and how far from a word    *)
(* that decodes without error they take it: the overall parity bit and the *)
(* three spare bits 13 to 15 cancel each other out.                        *)
Flipped == Xor(word, Encode(byte))
DistanceOf(bits) ==
  Cardinality({b \in bits : b < OverallParityAt})
    + Parity({b \in bits : b >= OverallParityAt})

MaxNoise == 2   \* bound: no third flip of one word

InjectBitFlip(b) ==
  /\ DistanceOf(Xor(Flipped, {b})) <= MaxNoise
  /\ word' = Flip(word, b)
  /\ UNCHANGED byte

WriteByte(data) == byte' = data /\ word' = Encode(data)

(* read_byte repairs a corrected word in place.                            *)
ReadByte ==
  LET d == Decode(word)
  IN  /\ word' = IF d.kind = "Corrected" THEN Encode(d.data) ELSE word
      /\ UNCHANGED byte

Next ==
  \/ \E b \in Position : InjectBitFlip(b)
  \/ \E data \in Inputs : WriteByte(data)
  \/ ReadByte

Spec == Init /\ [][Next]_vars
-----------------------------------------------------------------------------
(* Up to two flips, wherever they hit, a read never returns a byte that    *)
(* was not written: it corrects or it faults.                              *)
NoSilentCorruption ==
  LET d == Decode(word) IN d.kind # "Uncorrectable" => d.data = byte

(* One flipped bit is recovered from and its position, counted from 1, is  *)
(* reported; a spare bit is reported as the overall parity bit.            *)
SingleFlipIsLocated ==
  LET flipped == Flipped
  IN  \A b \in flipped : flipped = {b} =>
        Decode(word) = Corrected(byte, IF b < OverallParityAt THEN b + 1 ELSE 13)

(* Module Frames keeps of a word only the byte and its noise.  That is a   *)
(* faithful picture: with noise read off the decoder, each thing that can  *)
(* happen to a word does to [val, noise] what Frames says it does.         *)
NoiseOf(kind) == CASE kind = "NoError" -> 0 [] kind = "Corrected" -> 1 [] OTHER -> 2
Noise(w) == NoiseOf(Decode(w).kind)

Abstract == INSTANCE Frames WITH TotalPages <- 1, PageSize <- 1, Tolerance <- 5

AbstractMemory ==
  [status |-> [f \in {0} |-> 0],
   owner  |-> [f \in {0} |-> 0],
   cells  |-> [f \in {0} |-> [o \in {0} |-> [val |-> byte, noise |-> Noise(word)]]]]

FramesPicturesWords ==
  [][LET m == AbstractMemory
         cells == m.cells'
     IN  \/ \E n \in Abstract!FlipTo(m, 0, 0) :
              cells = Abstract!InjectBitFlip(m, 0, 0, n).cells
         \/ \E data \in Inputs : cells = Abstract!WriteByte(m, 0, 0, data).cells
         \/ cells = Abstract!ReadByte(m, 0, 0).cells]_vars
=============================================================================
