-------------------------------- MODULE Words --------------------------------
(* Machine words as numbers and as sets of bits: a byte of BITS bits, of     *)
(* which HALF are its low digit, and a word of two bytes.                    *)
EXTENDS Naturals, FiniteSets
CONSTANTS BITS, HALF          \* 8 and 4
ASSUME WordsAssumption == BITS \in Nat /\ HALF \in 1 .. BITS - 1

(* What these powers are, for the provers, to which ^ is only a name.       *)
ASSUME PowersAssumption == /\ 2^0 = 1
                           /\ \A i \in 0 .. 2 * BITS - 1 : 2^(i + 1) = 2 * 2^i

Byte == 0 .. 2^BITS - 1
Word == 0 .. 2^(2 * BITS) - 1
Sign(bits) == bits - 1                    \* the number of the top bit
Bit(v, i) == (v \div 2^i) % 2 = 1
BitsOf == [v \in Word |-> {i \in 0 .. 2 * BITS - 1 : Bit(v, i)}]
WordOf == [s \in SUBSET (0 .. 2 * BITS - 1) |-> CHOOSE v \in Word : BitsOf[v] = s]
And(v, w) == WordOf[BitsOf[v] \cap BitsOf[w]]
Or(v, w)  == WordOf[BitsOf[v] \cup BitsOf[w]]
Xor(v, w) == WordOf[(BitsOf[v] \cup BitsOf[w]) \ (BitsOf[v] \cap BitsOf[w])]
Even(v)   == Cardinality(BitsOf[v % 2^BITS]) % 2 = 0

When(condition, flag) == IF condition THEN {flag} ELSE {}
Digit(v) == v % 2^HALF
Signed(v, bits) == IF Bit(v, Sign(bits)) THEN v - 2^bits ELSE v
=============================================================================
