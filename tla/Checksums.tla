------------------------------- MODULE Checksums -------------------------------
(***************************************************************************)
(* src/janusprint/inspector/validators.py: the checksums that decide       *)
(* whether what a pattern matched is the real thing.                       *)
(*                                                                         *)
(* A matched value is a sequence of characters: 0 .. 9 are the digits and, *)
(* as in int(c, 36), 10 .. 35 the letters; Other is anything else.         *)
(* (The entropy gate, which needs logarithms, and us_ssn, a list of the    *)
(* shapes never issued, are left out.)                                     *)
(***************************************************************************)
EXTENDS Integers, Sequences, SequencesExt

Other == 36

\* The characters of the value that are in chars.  (SelectSeq, as a function one can prove
\* about.)
Kept(value, chars) ==
    LET upto[n \in 0 .. Len(value)] ==
          IF n = 0 THEN <<>>
          ELSE IF value[n] \in chars THEN Append(upto[n - 1], value[n]) ELSE upto[n - 1]
    IN  upto[Len(value)]

Digits(value) == Kept(value, 0 .. 9)

SumOf(terms) ==
    LET upto[n \in 0 .. Len(terms)] == IF n = 0 THEN 0 ELSE upto[n - 1] + terms[n]
    IN  upto[Len(terms)]

\* Mutant of Fold: the doubled digit is kept as it is.
FoldNothing(n) == n

Fold(n) == IF n > 9 THEN n - 9 ELSE n

\* Every second digit counts double.
LuhnTerms(digits) ==
    [i \in 1 .. Len(digits) |-> IF i % 2 = 0 THEN Fold(2 * digits[i]) ELSE digits[i]]

luhn(value) ==
    LET digits == Digits(value)
    IN  Len(digits) >= 12 /\ SumOf(LuhnTerms(Reverse(digits))) % 10 = 0

\* The number that the characters spell, digits and two-digit letters alike, modulo 97.
Mod97(cleaned) ==
    LET value[n \in 0 .. Len(cleaned)] ==
          IF n = 0 THEN 0
          ELSE (value[n - 1] * (IF cleaned[n] \in 0 .. 9 THEN 10 ELSE 100) + cleaned[n]) % 97
    IN  value[Len(cleaned)]

iban(value) ==
    LET cleaned == Kept(value, 0 .. 35)
    IN  /\ Len(cleaned) \in 15 .. 34
        /\ Mod97(SubSeq(cleaned, 5, Len(cleaned)) \o SubSeq(cleaned, 1, 4)) = 1

\* Weights from 10 down.
NhsTerms(body) == [i \in 1 .. Len(body) |-> body[i] * (11 - i)]

nhs_number(value) ==
    LET digits == Digits(value)
        check == (11 - (SumOf(NhsTerms(Front(digits))) % 11)) % 11
    IN  Len(digits) = 10 /\ check = Last(digits)

\* Weights 2 to 7, over and over.
Mod11Terms(body) == [i \in 1 .. Len(body) |-> body[i] * (((i - 1) % 6) + 2)]

bban_mod11(value) ==
    LET digits == Digits(value)
        check == 11 - (SumOf(Mod11Terms(Reverse(Front(digits)))) % 11)
    IN  Len(digits) >= 8 /\ (IF check >= 10 THEN 0 ELSE check) = Last(digits)

\* Mutant of Expected: what the remainder lacks is not reduced again.
ExpectedUnreduced(remainder, p) ==
    IF p.complement THEN p.modulus - remainder ELSE remainder

Expected(remainder, p) ==
    IF p.complement THEN (p.modulus - remainder) % p.modulus ELSE remainder

WeightedTerms(body, p) ==
    LET weighted(i) == body[i] * p.weights[((i - 1) % Len(p.weights)) + 1]
    IN  [i \in 1 .. Len(body) |-> IF p.double_and_sum THEN Fold(weighted(i)) ELSE weighted(i)]

\* The generic shape, with p.weights non-empty, one check digit and no length.
weighted_mod_check(value, p) ==
    LET digits == Digits(value)
        remainder == SumOf(WeightedTerms(Front(digits), p)) % p.modulus
    IN  /\ Len(digits) > 1
        /\ remainder \notin p.reject_remainders
        /\ Expected(remainder, p) = Last(digits)

\* The parameters of the shipped checksums.
LuhnParams(weights) == [weights |-> weights, modulus |-> 10, complement |-> TRUE,
                        double_and_sum |-> TRUE, reject_remainders |-> {}]
Mod11Params(bodyLength) ==
    [weights |-> [i \in 1 .. bodyLength |-> ((bodyLength - i) % 6) + 2], modulus |-> 11,
     complement |-> TRUE, double_and_sum |-> FALSE, reject_remainders |-> {}]
NhsParams == [weights |-> <<10, 9, 8, 7, 6, 5, 4, 3, 2>>, modulus |-> 11, complement |-> TRUE,
              double_and_sum |-> FALSE, reject_remainders |-> {}]
=============================================================================
