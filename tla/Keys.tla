-------------------------------- MODULE Keys --------------------------------
(***************************************************************************)
(* The key types of the index (src/key.rs) and the two numbers the tree    *)
(* takes from a key: the f64 a model computes with, and the i128 that      *)
(* separates keys which coincide as f64.                                   *)
(*                                                                         *)
(* A key is a record of its type and its value: an integer, or the bytes   *)
(* of an array, a String or a Vec.  The widths are parameters, so that the *)
(* keys that coincide (integers beyond the mantissa, strings with a common *)
(* prefix) are small: Mantissa is 53 in the code, ModelBytes 8, OrdinalBytes*)
(* 16, Base 256 and HalfRange 2^127.                                       *)
(***************************************************************************)
EXTENDS Integers, Sequences, SequencesExt

CONSTANTS
    Mantissa,      \* significant bits of an f64
    ModelBytes,    \* bytes of a string that make its model input
    OrdinalBytes,  \* bytes of a string that make its ordinal
    Base,          \* byte values
    HalfRange      \* u128 values below the sign bit

ASSUME KeysAssumption ==
    /\ Mantissa \in Nat \ {0} /\ Base \in Nat \ {0, 1} /\ HalfRange \in Nat
    /\ ModelBytes \in Nat \ {0} /\ OrdinalBytes \in Nat /\ ModelBytes <= OrdinalBytes

IntKey(t, n)  == [ty |-> t, val |-> n]
BytesKey(b)   == [ty |-> "bytes", val |-> b]

\* The Ord of the types: of integers, and lexicographic of byte strings.
LexLess(s, t) ==
    \E i \in DOMAIN t : /\ \A j \in 1..(i - 1) : j <= Len(s) /\ s[j] = t[j]
                        /\ i > Len(s) \/ s[i] < t[i]
Less(a, b) == IF a.ty = "bytes" THEN LexLess(a.val, b.val) ELSE a.val < b.val

\* `as f64': the nearest number with Mantissa significant bits, of two the even.
Ulp(n) == LET e == CHOOSE e \in 0..n : /\ n < 2^(e + Mantissa)
                                       /\ e = 0 \/ n >= 2^(e + Mantissa - 1)
          IN  2^e
Nearest(q, r, u) ==
    u * (IF 2 * r > u \/ (2 * r = u /\ q % 2 = 1) THEN q + 1 ELSE q)
RoundEven(n) == LET u == Ulp(n) IN Nearest(n \div u, n % u, u)
AsF64(n) == (IF n < 0 THEN -1 ELSE 1) * RoundEven(IF n < 0 THEN -n ELSE n)

\* The first w bytes as a big-endian number, zero-padded on the right.
BigEndian(b, w) ==
    FoldLeft(LAMBDA n, i : n * Base + (IF i <= Len(b) THEN b[i] ELSE 0),
             0, [i \in 1..w |-> i])

bytes_to_model_input(b) == AsF64(BigEndian(b, ModelBytes))

\* The sign bit of a u128 is flipped to keep the order in an i128.
SignFlip(n) == n - HalfRange
bytes_to_exact_ordinal(b) == SignFlip(BigEndian(b, OrdinalBytes))

to_model_input(k) ==
    IF k.ty = "bytes" THEN bytes_to_model_input(k.val) ELSE AsF64(k.val)

to_exact_ordinal(k) ==
    CASE k.ty = "bytes" -> bytes_to_exact_ordinal(k.val)
      [] k.ty = "u128"  -> SignFlip(k.val)
      [] OTHER          -> k.val
=============================================================================
