---------------------------- MODULE Identifiers ----------------------------
(***************************************************************************)
(* Numbers made into identifiers: hash/integer_hash.h mixes the id of an   *)
(* MCU, hash/hash_combine.h makes one number of its words, and             *)
(* string/base64.h writes and reads numbers, in the names of files.        *)
(*                                                                         *)
(* Words are narrower than 32 or 64 bits here, and the constants are cut   *)
(* to size: what matters of them is that factors are odd and that          *)
(* distances differ.  A digit in base 64 becomes one in a smaller base.    *)
(***************************************************************************)
EXTENDS Naturals, Sequences, FiniteSets, Functions

CONSTANTS
  Bits,        \* of a word
  Base,        \* 64
  MaxDigits    \* MAX_ENCODED_STRING_SIZE

VARIABLES
  seed,        \* seed of hash_combine
  text,        \* a string to be decoded
  value        \* value of decode; Invalid if it has thrown

vars == <<seed, text, value>>

WordRange == 2^Bits
Words == 0..(WordRange - 1)
Invalid == WordRange     \* no word
Digits == 0..(Base - 1)

-----------------------------------------------------------------------------
(* The halves of a rotated word have no bit in common. *)
rotate(n, v) == (v \div 2^n) + ((v * 2^(Bits - n)) % WordRange)
BitOf(i, v) == (v \div 2^i) % 2
Xor(v, w) ==
  SumFunction([i \in 0..(Bits - 1) |-> 2^i * ((BitOf(i, v) + BitOf(i, w)) % 2)])
Mixed(v, m, n) == Xor(Xor(v, rotate(m, v)), rotate(n, v))

(* Fault: the factor is even. *)
integer_hash_even(v) ==
  LET w == (Mixed(v, 1, 3) * 6) % WordRange
      x == (Mixed(w, 2, 3) * 29) % WordRange
  IN  Xor(x, x \div 4)

(* integer_hash_32 and integer_hash_64 *)
integer_hash(v) ==
  LET w == (Mixed(v, 1, 3) * 7) % WordRange
      x == (Mixed(w, 2, 3) * 29) % WordRange
  IN  Xor(x, x \div 4)

(* std::hash of an integer is the integer. *)
Golden == 2^Bits - 7
hash_combine(s, t) ==
  Xor(s, (t + Golden + ((s * 4) % WordRange) + (s \div 2)) % WordRange)

(* encode: the last digit first. *)
encode(number) ==
  LET digits[n \in 0..number] == IF n = 0 THEN <<>> ELSE Append(digits[n \div Base], n % Base)
  IN  IF number = 0 THEN <<0>> ELSE digits[number]

decode(string) ==
  LET number[n \in 0..Len(string)] ==
        IF n = 0 THEN 0 ELSE (Base * number[n - 1] + string[n]) % WordRange
  IN  number[Len(string)]

-----------------------------------------------------------------------------
Init == seed = 0 /\ text = <<>> /\ value = 0

(* hashed_id: the words of an id, one after the other. *)
Combine(id) ==
  /\ text = <<>>
  /\ seed' = hash_combine(seed, integer_hash(id))
  /\ UNCHANGED <<text, value>>

(* One more character to decode; Base stands for one that is no digit. *)
DecodeNext(character) ==
  /\ seed = 0 /\ Len(text) < MaxDigits /\ value # Invalid
  /\ text' = Append(text, character)
  /\ value' = IF character \in Digits THEN decode(text') ELSE Invalid
  /\ UNCHANGED seed

Next == (\E id \in Words : Combine(id)) \/ (\E c \in 0..Base : DecodeNext(c))

Spec == Init /\ [][Next]_vars

-----------------------------------------------------------------------------
Number(string) ==
  SumFunction([i \in DOMAIN string |-> Base^(Len(string) - i) * string[i]])

(* MCUs whose ids differ in the last word have different hashes, before    *)
(* hashed_id cuts them to a byte.  A number is read as it was written, and *)
(* within the length that is reserved; two strings that are read as the    *)
(* same number differ in leading zeros, or one is too large for the word.  *)
IdentifiersAreDistinct ==
  /\ Cardinality({hash_combine(seed, integer_hash(id)) : id \in Words}) = WordRange
  /\ value # Invalid =>
       /\ decode(encode(value)) = value /\ Len(encode(value)) <= MaxDigits
       /\ Number(text) < WordRange =>
            \E zeros \in 0..Len(text) :
              /\ \A i \in 1..zeros : text[i] = 0
              /\ encode(value) = IF zeros = Len(text) THEN <<0>>
                                 ELSE SubSeq(text, zeros + 1, Len(text))

=============================================================================
