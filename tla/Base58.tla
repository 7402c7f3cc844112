------------------------------- MODULE Base58 -------------------------------
(***************************************************************************)
(* siws/base58.go: strings over an alphabet whose first character stands   *)
(* for zero, and the byte strings they denote.  The sizes are constants:   *)
(* 58 characters, bytes of 256 values, at most 128 characters in the code. *)
(***************************************************************************)
EXTENDS Naturals, SequencesExt

CONSTANTS Alphabet,         \* the characters in their order
          Byte,             \* how many values a byte has
          MaxBase58Len      \* DecodeBase58's cap on its input

ASSUME Base58Assumption ==
  /\ Alphabet \in Seq(STRING) /\ IsInjective(Alphabet) /\ Len(Alphabet) > 1
  /\ Byte \in Nat /\ Byte > 1
  /\ MaxBase58Len \in Nat

Base == Len(Alphabet)
alphabetIdx(ch) == (CHOOSE i \in DOMAIN Alphabet : Alphabet[i] = ch) - 1

(* big.Int's value of a digit string, and its digits without leading zeros *)
(* (Bytes, or the DivMod loop and its reversal).                           *)
Value(digits, b) == FoldLeft(LAMBDA n, d : n * b + d, 0, digits)
Digits(n, b) ==
  LET rest[k \in 0 .. n] == IF k = 0 THEN <<>> ELSE Append(rest[k \div b], k % b)
  IN  rest[n]

(* How many elements of s equal zero before the first that does not. *)
Leading(s, zero) == Cardinality({i \in DOMAIN s : \A j \in 1 .. i : s[j] = zero})

Zeros(k, zero) == [i \in 1 .. k |-> zero]

Decodes(s) == Len(s) <= MaxBase58Len /\ \A i \in DOMAIN s : s[i] \in ToSet(Alphabet)

(* Mutant of DecodeBase58: the key is padded to two bytes instead. *)
DecodePadded(s) ==
  LET bytes == Digits(Value([i \in DOMAIN s |-> alphabetIdx(s[i])], Base), Byte)
  IN  IF Len(bytes) < 2 THEN Zeros(2 - Len(bytes), 0) \o bytes ELSE bytes

(* A leading zero byte for every leading '1', whatever follows. *)
DecodeBase58(s) ==
  Zeros(Leading(s, Alphabet[1]), 0)
    \o Digits(Value([i \in DOMAIN s |-> alphabetIdx(s[i])], Base), Byte)

EncodeBase58(bytes) ==
  LET digits == Digits(Value(bytes, Byte), Base)
  IN  Zeros(Leading(bytes, 0), Alphabet[1]) \o [i \in DOMAIN digits |-> Alphabet[digits[i] + 1]]
=============================================================================
