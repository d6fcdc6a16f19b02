----------------------------- MODULE ChecksumProofs -----------------------------
(***************************************************************************)
(* What the checksums guarantee for values of any length.  Their loops are *)
(* functions whose runs LoopRuns provides; two runs over values that       *)
(* differ in one character are compared turn by turn: the digits kept      *)
(* differ at one place (DifferAt), so the sums differ by one term and the  *)
(* remainders modulo 97 stay apart, because 10 and 100 have inverses.      *)
(***************************************************************************)
EXTENDS AlgorithmsProofs

-----------------------------------------------------------------------------
(* Sums and the digits that are kept *)

\* The running totals of N terms.
Totals(s, terms, N) == /\ s \in [0 .. N -> Int] /\ s[0] = 0
                       /\ \A n \in 1 .. N : s[n] = s[n - 1] + terms[n]

\* SumOf is the last of the running totals.
LEMMA SumOfIsTotal ==
    ASSUME NEW N \in Nat, NEW terms \in Seq(Int), Len(terms) = N
    PROVE  \E s : Totals(s, terms, N) /\ SumOf(terms) = s[N]
<1> DEFINE step == [n \in 1 .. N |-> [total \in Int |-> total + terms[n]]]
           body(f) == [n \in 0 .. N |-> IF n = 0 THEN 0 ELSE f[n - 1] + terms[n]]
<1>1. \A n \in 1 .. N : terms[n] \in Int
  OBVIOUS
<1>2. step \in Turns(N, Int)
  BY <1>1 DEF Turns
<1>3. \A n \in 1 .. N, total \in Int : step[n][total] = total + terms[n]
  OBVIOUS
<1> HIDE DEF step
<1>4. PICK s : LoopRun(s, N, Int, 0, step)
  <2>1. 0 \in Int
    OBVIOUS
  <2> QED BY <1>2, <2>1, LoopRuns
<1>5. Totals(s, terms, N)
  <2>1. s \in [0 .. N -> Int] /\ s[0] = 0 /\ \A n \in 1 .. N : s[n] = step[n][s[n - 1]]
    BY <1>4 DEF LoopRun
  <2>2. ASSUME NEW n \in 1 .. N PROVE s[n] = s[n - 1] + terms[n]
    <3>1. n - 1 \in 0 .. N
      OBVIOUS
    <3>2. s[n - 1] \in Int
      BY <2>1, <3>1
    <3> QED BY <1>3, <2>1, <3>2
  <2> QED BY <2>1, <2>2 DEF Totals
<1>6. s = body(s)
  <2>1. ASSUME NEW n \in 0 .. N PROVE s[n] = IF n = 0 THEN 0 ELSE s[n - 1] + terms[n]
    <3>1. n # 0 => n \in 1 .. N
      OBVIOUS
    <3> QED BY <1>5, <3>1 DEF Totals
  <2>2. s \in [0 .. N -> Int]
    BY <1>5 DEF Totals
  <2> QED BY <2>1, <2>2
<1> DEFINE upto == CHOOSE f : f = body(f)
<1>7. upto = body(upto)
  BY <1>6
<1>8. SumOf(terms) = upto[N]
  BY DEF SumOf
<1>9. \A n \in 0 .. N : upto[n] = s[n]
  <2> DEFINE S == {n \in 0 .. N : upto[n] = s[n]}
  <2>0. \A n \in 0 .. N : upto[n] = IF n = 0 THEN 0 ELSE upto[n - 1] + terms[n]
    <3> HIDE DEF upto
    <3> QED BY <1>7
  <2> HIDE DEF upto
  <2>1. 0 \in S
    BY <1>5, <2>0 DEF Totals
  <2>2. ASSUME NEW n \in 0 .. N - 1, n \in S PROVE n + 1 \in S
    <3>1. n + 1 \in 1 .. N /\ n + 1 \in 0 .. N /\ (n + 1) - 1 = n /\ n + 1 # 0
      OBVIOUS
    <3>2. s[n + 1] = s[n] + terms[n + 1]
      BY <1>5, <3>1 DEF Totals
    <3>3. upto[n + 1] = upto[n] + terms[n + 1]
      BY <2>0, <3>1
    <3> QED BY <2>2, <3>1, <3>2, <3>3
  <2> HIDE DEF S
  <2>3. \A n \in 0 .. N : n \in S
    BY <2>1, <2>2, UpTo
  <2> QED BY <2>3 DEF S
<1> HIDE DEF upto
<1>10. N \in 0 .. N
  OBVIOUS
<1> QED BY <1>5, <1>8, <1>9, <1>10

\* A sum is an integer.
LEMMA SumIsInt == ASSUME NEW terms \in Seq(Int) PROVE SumOf(terms) \in Int
<1>1. PICK N \in Nat : N = Len(terms)
  BY LenProperties
<1>2. PICK s : Totals(s, terms, N) /\ SumOf(terms) = s[N]
  BY <1>1, SumOfIsTotal
<1>3. N \in 0 .. N
  OBVIOUS
<1> QED BY <1>2, <1>3 DEF Totals

\* Two sums whose terms differ at one place differ by what these two terms differ by.
LEMMA OneTermDiffers ==
    ASSUME NEW N \in Nat, NEW x \in Seq(Int), NEW y \in Seq(Int), Len(x) = N, Len(y) = N,
           NEW k \in 1 .. N, \A i \in 1 .. N : i # k => x[i] = y[i]
    PROVE  SumOf(y) - SumOf(x) = y[k] - x[k]
<1>1. PICK s : Totals(s, x, N) /\ SumOf(x) = s[N]
  BY SumOfIsTotal
<1>2. PICK t : Totals(t, y, N) /\ SumOf(y) = t[N]
  BY SumOfIsTotal
<1>3. x[k] \in Int /\ y[k] \in Int
  BY ElementOfSeq
<1>4. \A i \in 1 .. N : x[i] \in Int /\ y[i] \in Int
  BY ElementOfSeq
<1> DEFINE S == {n \in 0 .. N : t[n] - s[n] = IF n < k THEN 0 ELSE y[k] - x[k]}
<1>5. /\ s \in [0 .. N -> Int] /\ t \in [0 .. N -> Int] /\ s[0] = 0 /\ t[0] = 0
      /\ \A n \in 1 .. N : s[n] = s[n - 1] + x[n] /\ t[n] = t[n - 1] + y[n]
  BY <1>1, <1>2 DEF Totals
<1>6. 0 \in S
  BY <1>5
<1>7. ASSUME NEW n \in 0 .. N - 1, n \in S PROVE n + 1 \in S
  <2>1. n + 1 \in 1 .. N /\ n + 1 \in 0 .. N /\ (n + 1) - 1 = n /\ n \in 0 .. N
    OBVIOUS
  <2>2. s[n + 1] = s[n] + x[n + 1] /\ t[n + 1] = t[n] + y[n + 1]
    BY <1>5, <2>1
  <2>3. PICK a \in Int, b \in Int, c \in Int, d \in Int :
            a = s[n] /\ b = t[n] /\ c = x[n + 1] /\ d = y[n + 1]
    BY <1>4, <1>5, <2>1
  <2>4. b - a = IF n < k THEN 0 ELSE y[k] - x[k]
    BY <1>7, <2>3
  <2>5. CASE n + 1 = k
    <3>1. c = x[k] /\ d = y[k]
      BY <2>3, <2>5
    <3>2. (b + d) - (a + c) = y[k] - x[k]
      BY <1>3, <2>4, <2>5, <3>1
    <3> QED BY <2>1, <2>2, <2>3, <2>5, <3>2
  <2>6. CASE n + 1 # k
    <3>1. c = d
      BY <1>4, <2>1, <2>3, <2>6
    <3>2. (b + d) - (a + c) = IF n + 1 < k THEN 0 ELSE y[k] - x[k]
      BY <1>3, <2>4, <2>6, <3>1
    <3> QED BY <2>1, <2>2, <2>3, <3>2
  <2> QED BY <2>5, <2>6
<1> HIDE DEF S
<1>8. \A n \in 0 .. N : n \in S
  BY <1>6, <1>7, UpTo
<1>9. N \in 0 .. N /\ ~(N < k)
  OBVIOUS
<1> QED BY <1>1, <1>2, <1>8, <1>9 DEF S

\* The run of Kept's loop: what is kept of the first n characters.
Keeps(f, value, chars, N) ==
    /\ f \in [0 .. N -> Seq(chars)] /\ f[0] = <<>>
    /\ \A n \in 1 .. N : f[n] = IF value[n] \in chars THEN Append(f[n - 1], value[n]) ELSE f[n - 1]

\* Kept is the end of that run.
LEMMA KeptIsRun ==
    ASSUME NEW N \in Nat, NEW S, NEW value \in Seq(S), Len(value) = N, NEW chars
    PROVE  \E f : Keeps(f, value, chars, N) /\ Kept(value, chars) = f[N]
<1> DEFINE next(q, n) == IF value[n] \in chars THEN Append(q, value[n]) ELSE q
           step == [n \in 1 .. N |-> [q \in Seq(chars) |-> next(q, n)]]
           body(f) == [n \in 0 .. N |-> IF n = 0 THEN <<>> ELSE next(f[n - 1], n)]
<1>1. \A n \in 1 .. N, q \in Seq(chars) : next(q, n) \in Seq(chars)
  OBVIOUS
<1>2. \A n \in 1 .. N, q \in Seq(chars) : step[n][q] = next(q, n)
  OBVIOUS
<1>3. step \in Turns(N, Seq(chars))
  <2> HIDE DEF next
  <2> QED BY <1>1 DEF Turns
<1> HIDE DEF step, next
<1>4. PICK f : LoopRun(f, N, Seq(chars), <<>>, step)
  <2>1. <<>> \in Seq(chars)
    BY EmptySeq
  <2> QED BY <1>3, <2>1, LoopRuns
<1>5. /\ f \in [0 .. N -> Seq(chars)] /\ f[0] = <<>>
      /\ \A n \in 1 .. N : f[n] = next(f[n - 1], n)
  <2>1. f \in [0 .. N -> Seq(chars)] /\ f[0] = <<>> /\ \A n \in 1 .. N : f[n] = step[n][f[n - 1]]
    BY <1>4 DEF LoopRun
  <2>2. ASSUME NEW n \in 1 .. N PROVE f[n] = next(f[n - 1], n)
    <3>1. n - 1 \in 0 .. N
      OBVIOUS
    <3>2. f[n - 1] \in Seq(chars)
      BY <2>1, <3>1
    <3> QED BY <1>2, <2>1, <3>2
  <2> QED BY <2>1, <2>2
<1>6. f = body(f)
  <2>1. ASSUME NEW n \in 0 .. N PROVE f[n] = IF n = 0 THEN <<>> ELSE next(f[n - 1], n)
    <3>1. n # 0 => n \in 1 .. N
      OBVIOUS
    <3> QED BY <1>5, <3>1
  <2> QED BY <1>5, <2>1
<1> DEFINE upto == CHOOSE g : g = body(g)
<1>7. upto = body(upto)
  BY <1>6
<1>8. Kept(value, chars) = upto[N]
  BY DEF Kept, next
<1>9. \A n \in 0 .. N : upto[n] = f[n]
  <2> DEFINE T == {n \in 0 .. N : upto[n] = f[n]}
  <2>0. \A n \in 0 .. N : upto[n] = IF n = 0 THEN <<>> ELSE next(upto[n - 1], n)
    <3> HIDE DEF upto
    <3> QED BY <1>7
  <2> HIDE DEF upto
  <2>1. 0 \in T
    BY <1>5, <2>0
  <2>2. ASSUME NEW n \in 0 .. N - 1, n \in T PROVE n + 1 \in T
    <3>1. n + 1 \in 1 .. N /\ n + 1 \in 0 .. N /\ (n + 1) - 1 = n /\ n + 1 # 0
      OBVIOUS
    <3>2. f[n + 1] = next(f[n], n + 1)
      BY <1>5, <3>1
    <3>3. upto[n + 1] = next(upto[n], n + 1)
      BY <2>0, <3>1
    <3> QED BY <2>2, <3>1, <3>2, <3>3
  <2> HIDE DEF T
  <2>3. \A n \in 0 .. N : n \in T
    BY <2>1, <2>2, UpTo
  <2> QED BY <2>3 DEF T
<1> HIDE DEF upto
<1>10. N \in 0 .. N
  OBVIOUS
<1>11. Keeps(f, value, chars, N)
  BY <1>5 DEF Keeps, next
<1> QED BY <1>8, <1>9, <1>10, <1>11

\* x and y differ at place k and nowhere else.
DifferAt(x, y, k, a, b) ==
    /\ Len(x) = Len(y) /\ k \in 1 .. Len(x) /\ x[k] = a /\ y[k] = b
    /\ \A i \in 1 .. Len(x) : i # k => x[i] = y[i]

\* Appending differs where it differs.
LEMMA AppendedDiffer ==
    ASSUME NEW S, NEW x \in Seq(S), NEW y \in Seq(S), NEW a \in S, NEW b \in S
    PROVE  /\ DifferAt(Append(x, a), Append(x, b), Len(x) + 1, a, b)
           /\ \A k, c, d : DifferAt(x, y, k, c, d) => DifferAt(Append(x, a), Append(y, a), k, c, d)
<1>1. PICK n \in Nat : n = Len(x)
  BY LenProperties
<1>2. PICK m \in Nat : m = Len(y)
  BY LenProperties
<1>3. /\ Len(Append(x, a)) = n + 1 /\ Len(Append(x, b)) = n + 1 /\ Len(Append(y, a)) = m + 1
      /\ Append(x, a)[n + 1] = a /\ Append(x, b)[n + 1] = b /\ Append(y, a)[m + 1] = a
      /\ \A i \in 1 .. n : Append(x, a)[i] = x[i] /\ Append(x, b)[i] = x[i]
      /\ \A i \in 1 .. m : Append(y, a)[i] = y[i]
  BY <1>1, <1>2, AppendProperties
<1>4. DifferAt(Append(x, a), Append(x, b), Len(x) + 1, a, b)
  <2>1. \A i \in 1 .. n + 1 : i # n + 1 => i \in 1 .. n
    OBVIOUS
  <2>2. n + 1 \in 1 .. n + 1
    OBVIOUS
  <2> QED BY <1>1, <1>3, <2>1, <2>2 DEF DifferAt
<1>5. ASSUME NEW k, NEW c, NEW d, DifferAt(x, y, k, c, d)
      PROVE  DifferAt(Append(x, a), Append(y, a), k, c, d)
  <2>1. n = m /\ k \in 1 .. n /\ x[k] = c /\ y[k] = d /\ \A i \in 1 .. n : i # k => x[i] = y[i]
    BY <1>1, <1>2, <1>5 DEF DifferAt
  <2>2. k \in 1 .. n + 1 /\ \A i \in 1 .. n + 1 : i # n + 1 => i \in 1 .. n
    BY <2>1
  <2>3. ASSUME NEW i \in 1 .. n + 1, i # k PROVE Append(x, a)[i] = Append(y, a)[i]
    <3>1. CASE i = n + 1
      BY <1>3, <2>1, <3>1
    <3>2. CASE i # n + 1
      BY <1>3, <2>1, <2>2, <2>3, <3>2
    <3> QED BY <3>1, <3>2
  <2> QED BY <1>3, <2>1, <2>2, <2>3 DEF DifferAt
<1> QED BY <1>4, <1>5

\* What is kept of a value and of its misreading differs at one place.
LEMMA KeptDiffers ==
    ASSUME NEW S, NEW value \in Seq(S), NEW w \in Seq(S), NEW chars,
           NEW i, NEW c \in chars, NEW d \in chars, DifferAt(value, w, i, c, d)
    PROVE  \E k : DifferAt(Kept(value, chars), Kept(w, chars), k, c, d)
<1>1. PICK N \in Nat : N = Len(value)
  BY LenProperties
<1>2. /\ Len(w) = N /\ value[i] = c /\ w[i] = d /\ i \in 1 .. N
      /\ \A n \in 1 .. N : n # i => w[n] = value[n]
  BY <1>1 DEF DifferAt
<1>3. PICK f : Keeps(f, value, chars, N) /\ Kept(value, chars) = f[N]
  BY <1>1, KeptIsRun
<1>4. PICK g : Keeps(g, w, chars, N) /\ Kept(w, chars) = g[N]
  BY <1>2, KeptIsRun
<1> DEFINE P(n) == IF n < i THEN f[n] = g[n] ELSE \E k : DifferAt(f[n], g[n], k, c, d)
           T == {n \in 0 .. N : P(n)}
<1>6. 0 \in T
  BY <1>2, <1>3, <1>4 DEF Keeps
<1>7. ASSUME NEW n \in 0 .. N - 1, n \in T PROVE n + 1 \in T
  <2>1. n + 1 \in 1 .. N /\ n + 1 \in 0 .. N /\ (n + 1) - 1 = n /\ n \in 0 .. N
    OBVIOUS
  <2>2. PICK q \in Seq(chars), r \in Seq(chars) : q = f[n] /\ r = g[n]
    BY <1>3, <1>4, <2>1 DEF Keeps
  <2>3. /\ f[n + 1] = IF value[n + 1] \in chars THEN Append(q, value[n + 1]) ELSE q
        /\ g[n + 1] = IF w[n + 1] \in chars THEN Append(r, w[n + 1]) ELSE r
    BY <1>3, <1>4, <2>1, <2>2 DEF Keeps
  <2>4. CASE n + 1 < i
    <3>1. w[n + 1] = value[n + 1] /\ q = r
      BY <1>2, <1>7, <2>1, <2>2, <2>4
    <3>2. f[n + 1] = g[n + 1]
      BY <2>3, <3>1
    <3> QED BY <2>1, <2>4, <3>2
  <2>5. CASE n + 1 = i
    <3>1. n < i /\ ~(n + 1 < i) /\ w[n + 1] = d /\ value[n + 1] = c
      BY <1>2, <2>5
    <3>2. q = r
      BY <1>7, <2>2, <3>1
    <3>3. f[n + 1] = Append(q, c) /\ g[n + 1] = Append(q, d)
      BY <2>3, <3>1, <3>2
    <3>4. DifferAt(Append(q, c), Append(q, d), Len(q) + 1, c, d)
      BY AppendedDiffer
    <3>5. P(n + 1)
      BY <3>1, <3>3, <3>4
    <3> QED BY <2>1, <3>5
  <2>6. CASE n + 1 > i
    <3>1. ~(n < i) /\ ~(n + 1 < i) /\ n + 1 # i
      BY <1>2, <2>6
    <3>2. PICK k : DifferAt(q, r, k, c, d)
      BY <1>7, <2>2, <3>1
    <3>3. w[n + 1] = value[n + 1]
      BY <1>2, <2>1, <3>1
    <3>4. \E j : DifferAt(f[n + 1], g[n + 1], j, c, d)
      <4>1. CASE value[n + 1] \in chars
        <5>1. DifferAt(Append(q, value[n + 1]), Append(r, value[n + 1]), k, c, d)
          BY <3>2, <4>1, AppendedDiffer
        <5> QED BY <2>3, <3>3, <4>1, <5>1
      <4>2. CASE value[n + 1] \notin chars
        BY <2>3, <3>2, <3>3, <4>2
      <4> QED BY <4>1, <4>2
    <3> QED BY <2>1, <3>1, <3>4
  <2> QED BY <1>2, <2>4, <2>5, <2>6
<1> HIDE DEF T
<1>8. \A n \in 0 .. N : n \in T
  BY <1>6, <1>7, UpTo
<1>9. N \in 0 .. N /\ ~(N < i)
  BY <1>2
<1>10. P(N)
  BY <1>8, <1>9 DEF T
<1> QED BY <1>3, <1>4, <1>9, <1>10

\* What is kept is of the kind that is kept.
LEMMA KeptType ==
    ASSUME NEW S, NEW value \in Seq(S), NEW chars
    PROVE  Kept(value, chars) \in Seq(chars)
<1>1. PICK N \in Nat : N = Len(value)
  BY LenProperties
<1>2. PICK f : Keeps(f, value, chars, N) /\ Kept(value, chars) = f[N]
  BY <1>1, KeptIsRun
<1>3. N \in 0 .. N
  OBVIOUS
<1> QED BY <1>2, <1>3 DEF Keeps

\* The digits of a value are digits.
LEMMA DigitsOf ==
    ASSUME NEW S, NEW value \in Seq(S)
    PROVE  Digits(value) \in Seq(0 .. 9)
BY KeptType DEF Digits

Digit == 0 .. 9

\* Two numbers that differ by less than 10 have different remainders modulo 10.
LEMMA NoMultipleOf10 ==
    ASSUME NEW a \in Int, NEW b \in Int, b - a \in (-9 .. 9) \ {0}
    PROVE  a % 10 # b % 10
OBVIOUS

\* Two numbers that differ by two digits' difference times 2 .. 10 have different remainders
\* modulo 11.
LEMMA NoMultipleOf11 ==
    ASSUME NEW a \in Int, NEW b \in Int, NEW u \in Digit, NEW v \in Digit, NEW m \in 2 .. 10,
           u # v, b - a = (v - u) * m
    PROVE  a % 11 # b % 11
<1>1. PICK e \in (-9 .. 9) \ {0} : e = v - u
  BY DEF Digit
<1>2. b - a = e * m
  BY <1>1
<1>3. CASE m = 2
  BY <1>2, <1>3
<1>4. CASE m = 3
  BY <1>2, <1>4
<1>5. CASE m = 4
  BY <1>2, <1>5
<1>6. CASE m = 5
  BY <1>2, <1>6
<1>7. CASE m = 6
  BY <1>2, <1>7
<1>8. CASE m = 7
  BY <1>2, <1>8
<1>9. CASE m = 8
  BY <1>2, <1>9
<1>10. CASE m = 9
  BY <1>2, <1>10
<1>11. CASE m = 10
  BY <1>2, <1>11
<1> QED BY <1>3, <1>4, <1>5, <1>6, <1>7, <1>8, <1>9, <1>10, <1>11

\* Different remainders modulo 11 call for different check digits.
LEMMA SameCheckDigit ==
    ASSUME NEW a \in Int, NEW b \in Int, (11 - (a % 11)) % 11 = (11 - (b % 11)) % 11
    PROVE  a % 11 = b % 11
OBVIOUS

\* The arithmetic modulo 97: 10 and 100 have inverses.
LEMMA IsRemainder97 == ASSUME NEW a \in Int PROVE a % 97 \in 0 .. 96
OBVIOUS

\* One digit more.
LEMMA After10 ==
    ASSUME NEW a \in 0 .. 96, NEW b \in 0 .. 96, NEW e \in 0 .. 9, a # b
    PROVE  (a * 10 + e) % 97 # (b * 10 + e) % 97
OBVIOUS

\* One letter more.
LEMMA After100 ==
    ASSUME NEW a \in 0 .. 96, NEW b \in 0 .. 96, NEW e \in 10 .. 35, a # b
    PROVE  (a * 100 + e) % 97 # (b * 100 + e) % 97
OBVIOUS

\* Equal remainders differ after two different digits.
LEMMA AfterTwoDigits ==
    ASSUME NEW a \in 0 .. 96, NEW c \in Digit, NEW d \in Digit, c # d
    PROVE  (a * 10 + c) % 97 # (a * 10 + d) % 97
BY DEF Digit

\* A sequence turned round.
LEMMA ReverseIsSeq == ASSUME NEW S, NEW x \in Seq(S)
                      PROVE  Reverse(x) \in Seq(S) /\ Len(Reverse(x)) = Len(x)
<1>1. PICK n \in Nat : n = Len(x)
  BY LenProperties
<1>2. PICK p : p = [i \in 1 .. n |-> x[(n - i) + 1]]
  OBVIOUS
<1>3. p \in [1 .. n -> S]
  <2>1. \A i \in 1 .. n : (n - i) + 1 \in 1 .. n
    OBVIOUS
  <2>2. \A i \in 1 .. n : x[i] \in S
    BY <1>1, ElementOfSeq
  <2> QED BY <1>2, <2>1, <2>2
<1>4. p \in Seq(S) /\ Len(p) = n
  BY <1>3
<1> QED BY <1>1, <1>2, <1>4 DEF Reverse

\* Turning two sequences round that differ at one place: they differ at one place.
LEMMA ReversedDiffer ==
    ASSUME NEW S, NEW x \in Seq(S), NEW y \in Seq(S), NEW k, NEW a, NEW b, DifferAt(x, y, k, a, b)
    PROVE  DifferAt(Reverse(x), Reverse(y), Len(x) + 1 - k, a, b)
<1>1. PICK n \in Nat : n = Len(x)
  BY LenProperties
<1>2. Len(y) = n /\ k \in 1 .. n /\ x[k] = a /\ y[k] = b /\ \A i \in 1 .. n : i # k => x[i] = y[i]
  BY <1>1 DEF DifferAt
<1>3. PICK p : p = [i \in 1 .. n |-> x[(n - i) + 1]]
  OBVIOUS
<1>4. PICK q : q = [i \in 1 .. n |-> y[(n - i) + 1]]
  OBVIOUS
<1>5. p \in Seq(S) /\ q \in Seq(S) /\ Len(p) = n /\ Len(q) = n
  <2>1. \A i \in 1 .. n : (n - i) + 1 \in 1 .. n
    OBVIOUS
  <2>2. \A i \in 1 .. n : x[i] \in S /\ y[i] \in S
    BY <1>1, <1>2, ElementOfSeq
  <2>3. p \in [1 .. n -> S] /\ q \in [1 .. n -> S]
    BY <1>3, <1>4, <2>1, <2>2
  <2> QED BY <2>3
<1>6. p = Reverse(x) /\ q = Reverse(y)
  BY <1>1, <1>2, <1>3, <1>4 DEF Reverse
<1>7. n + 1 - k \in 1 .. n /\ (n - (n + 1 - k)) + 1 = k
  BY <1>2
<1>8. ASSUME NEW i \in 1 .. n, i # n + 1 - k PROVE p[i] = q[i]
  <2>1. (n - i) + 1 \in 1 .. n /\ (n - i) + 1 # k
    BY <1>2, <1>8
  <2> QED BY <1>2, <1>3, <1>4, <2>1
<1>9. p[n + 1 - k] = a /\ q[n + 1 - k] = b
  BY <1>2, <1>3, <1>4, <1>7
<1>10. DifferAt(p, q, n + 1 - k, a, b)
  BY <1>5, <1>7, <1>8, <1>9 DEF DifferAt
<1> QED BY <1>1, <1>6, <1>10

\* The front of two sequences that differ in it.
LEMMA FrontsDiffer ==
    ASSUME NEW S, NEW x \in Seq(S), NEW y \in Seq(S), NEW k, NEW a, NEW b, DifferAt(x, y, k, a, b)
    PROVE  /\ k = Len(x) => Front(x) = Front(y) /\ Last(x) = a /\ Last(y) = b
           /\ k # Len(x) => DifferAt(Front(x), Front(y), k, a, b) /\ Last(x) = Last(y)
<1>1. PICK n \in Nat : n = Len(x)
  BY LenProperties
<1>2. Len(y) = n /\ k \in 1 .. n /\ x[k] = a /\ y[k] = b /\ \A i \in 1 .. n : i # k => x[i] = y[i]
  BY <1>1 DEF DifferAt
<1>3. PICK m \in Nat : m = n - 1
  <2>1. n - 1 \in Nat
    BY <1>2
  <2> QED BY <2>1
<1>4. 1 \in Nat \ {0} /\ m <= n /\ 1 <= m + 1
  BY <1>3
<1>5. /\ SubSeq(x, 1, m) \in Seq(S) /\ Len(SubSeq(x, 1, m)) = m - 1 + 1
      /\ \A i \in 1 .. m - 1 + 1 : SubSeq(x, 1, m)[i] = x[1 + i - 1]
  BY <1>1, <1>4, PartOf
<1>6. /\ SubSeq(y, 1, m) \in Seq(S) /\ Len(SubSeq(y, 1, m)) = m - 1 + 1
      /\ \A i \in 1 .. m - 1 + 1 : SubSeq(y, 1, m)[i] = y[1 + i - 1]
  BY <1>2, <1>4, PartOf
<1>7. PICK p \in Seq(S), q \in Seq(S) : p = SubSeq(x, 1, m) /\ q = SubSeq(y, 1, m)
  BY <1>5, <1>6
<1>8. m - 1 + 1 = m /\ \A i \in 1 .. m : 1 + i - 1 = i
  OBVIOUS
<1>9. Len(p) = m /\ Len(q) = m /\ \A i \in 1 .. m : p[i] = x[i] /\ q[i] = y[i]
  BY <1>5, <1>6, <1>7, <1>8
<1>10. p = Front(x) /\ q = Front(y) /\ Last(x) = x[n] /\ Last(y) = y[n]
  BY <1>1, <1>2, <1>3, <1>7 DEF Front, Last
<1>11. CASE k = n
  <2>1. \A i \in 1 .. m : i \in 1 .. n /\ i # n
    BY <1>3
  <2>2. \A i \in 1 .. m : p[i] = q[i]
    BY <1>2, <1>9, <1>11, <2>1
  <2>3. p = q
    BY <1>9, <2>2, SeqEqual
  <2> QED BY <1>1, <1>2, <1>10, <1>11, <2>3
<1>12. CASE k # n
  <2>1. k \in 1 .. m /\ n \in 1 .. n /\ \A i \in 1 .. m : i \in 1 .. n
    BY <1>2, <1>3, <1>12
  <2>2. x[n] = y[n]
    BY <1>2, <1>12, <2>1
  <2>3. DifferAt(p, q, k, a, b)
    BY <1>2, <1>9, <2>1 DEF DifferAt
  <2> QED BY <1>1, <1>10, <1>12, <2>2, <2>3
<1> QED BY <1>11, <1>12

\* The terms of a body of digits.
LEMMA LuhnTermsType ==
    ASSUME NEW x \in Seq(Digit)
    PROVE  /\ LuhnTerms(x) \in Seq(Int) /\ Len(LuhnTerms(x)) = Len(x)
           /\ \A i \in 1 .. Len(x) :
                  LuhnTerms(x)[i] = IF i % 2 = 0 THEN Fold(2 * x[i]) ELSE x[i]
<1>1. PICK n \in Nat : n = Len(x)
  BY LenProperties
<1>2. PICK p : p = [i \in 1 .. n |-> IF i % 2 = 0 THEN Fold(2 * x[i]) ELSE x[i]]
  OBVIOUS
<1>3. \A i \in 1 .. n : x[i] \in Int
  <2>1. \A i \in 1 .. n : x[i] \in Digit
    BY <1>1, ElementOfSeq
  <2> QED BY <2>1 DEF Digit
<1>4. p \in [1 .. n -> Int]
  BY <1>2, <1>3 DEF Fold
<1>5. p \in Seq(Int) /\ Len(p) = n
  BY <1>4
<1>6. p = LuhnTerms(x)
  BY <1>1, <1>2 DEF LuhnTerms
<1> QED BY <1>1, <1>2, <1>5, <1>6

\* luhn does not accept both a value and its misreading.
LEMMA LuhnCatches ==
    ASSUME NEW S, NEW value \in Seq(S), NEW w \in Seq(S), NEW i, NEW c \in Digit, NEW d \in Digit,
           c # d, DifferAt(value, w, i, c, d)
    PROVE  luhn(value) => ~luhn(w)
<1>1. PICK x \in Seq(Digit), y \in Seq(Digit) : x = Digits(value) /\ y = Digits(w)
  BY DigitsOf DEF Digit
<1>2. PICK k : DifferAt(x, y, k, c, d)
  BY <1>1, KeptDiffers DEF Digits, Digit
<1>3. PICK u, v : u = Reverse(x) /\ v = Reverse(y)
  OBVIOUS
<1>4. u \in Seq(Digit) /\ v \in Seq(Digit)
  BY <1>3, ReverseIsSeq
<1>5. PICK j : DifferAt(u, v, j, c, d)
  BY <1>2, <1>3, ReversedDiffer
<1>6. PICK s, t : s = LuhnTerms(u) /\ t = LuhnTerms(v)
  OBVIOUS
<1>7. PICK N \in Nat : N = Len(u)
  BY <1>4, LenProperties
<1>8. /\ Len(v) = N /\ j \in 1 .. N /\ u[j] = c /\ v[j] = d
      /\ \A n \in 1 .. N : n # j => u[n] = v[n]
  BY <1>5, <1>7 DEF DifferAt
<1>9. /\ s \in Seq(Int) /\ Len(s) = N /\ t \in Seq(Int) /\ Len(t) = N
      /\ \A n \in 1 .. N : /\ s[n] = IF n % 2 = 0 THEN Fold(2 * u[n]) ELSE u[n]
                           /\ t[n] = IF n % 2 = 0 THEN Fold(2 * v[n]) ELSE v[n]
  BY <1>4, <1>6, <1>7, <1>8, LuhnTermsType
<1>10. \A n \in 1 .. N : n # j => s[n] = t[n]
  BY <1>8, <1>9
<1>11. SumOf(t) - SumOf(s) = t[j] - s[j]
  BY <1>8, <1>9, <1>10, OneTermDiffers
<1>12. t[j] - s[j] \in (-9 .. 9) \ {0}
  <2>1. /\ s[j] = (IF j % 2 = 0 THEN Fold(2 * c) ELSE c)
        /\ t[j] = (IF j % 2 = 0 THEN Fold(2 * d) ELSE d)
    BY <1>8, <1>9
  <2>2. d - c \in (-9 .. 9) \ {0}
    BY DEF Digit
  <2>3. Fold(2 * d) - Fold(2 * c) \in (-9 .. 9) \ {0}
    BY DEF Digit, Fold
  <2> QED BY <2>1, <2>2, <2>3
<1>13. SumOf(s) \in Int /\ SumOf(t) \in Int
  BY <1>9, SumIsInt
<1>14. PICK a \in Int, b \in Int : a = SumOf(s) /\ b = SumOf(t)
  BY <1>13
<1>15. a % 10 # b % 10
  <2>1. b - a \in (-9 .. 9) \ {0}
    BY <1>11, <1>12, <1>14
  <2> QED BY <2>1, NoMultipleOf10
<1> QED BY <1>1, <1>3, <1>6, <1>14, <1>15 DEF luhn

\* The terms of nhs_number are integers, one for each digit.
LEMMA NhsTermsType ==
    ASSUME NEW x \in Seq(Digit)
    PROVE  /\ NhsTerms(x) \in Seq(Int) /\ Len(NhsTerms(x)) = Len(x)
           /\ \A i \in 1 .. Len(x) : NhsTerms(x)[i] = x[i] * (11 - i)
<1>1. PICK n \in Nat : n = Len(x)
  BY LenProperties
<1>2. PICK p : p = [i \in 1 .. n |-> x[i] * (11 - i)]
  OBVIOUS
<1>3. \A i \in 1 .. n : x[i] * (11 - i) \in Int
  <2>1. \A i \in 1 .. n : x[i] \in Digit
    BY <1>1, ElementOfSeq
  <2>2. \A i \in 1 .. n : x[i] \in Int /\ 11 - i \in Int
    BY <2>1 DEF Digit
  <2>3. \A a, b \in Int : a * b \in Int
    OBVIOUS
  <2> QED BY <2>2, <2>3
<1>4. p \in [1 .. n -> Int]
  BY <1>2, <1>3
<1>5. p \in Seq(Int) /\ Len(p) = n
  BY <1>4
<1>6. p = NhsTerms(x)
  BY <1>1, <1>2 DEF NhsTerms
<1> QED BY <1>1, <1>2, <1>5, <1>6

\* The front and the last of a sequence that is not empty.
LEMMA FrontAndLast ==
    ASSUME NEW S, NEW x \in Seq(S), Len(x) > 0
    PROVE  /\ Front(x) \in Seq(S) /\ Len(Front(x)) = Len(x) - 1
           /\ Last(x) = x[Len(x)] /\ Last(x) \in S
           /\ \A i \in 1 .. Len(x) - 1 : Front(x)[i] = x[i]
<1>1. PICK n \in Nat : n = Len(x) - 1
  <2>1. PICK m \in Nat \ {0} : m = Len(x)
    BY LenProperties
  <2>2. m - 1 \in Nat
    OBVIOUS
  <2> QED BY <2>1, <2>2
<1>2. 1 \in Nat \ {0} /\ n <= Len(x) /\ 1 <= n + 1 /\ n - 1 + 1 = n
  BY <1>1
<1>3. /\ SubSeq(x, 1, n) \in Seq(S) /\ Len(SubSeq(x, 1, n)) = n - 1 + 1
      /\ \A i \in 1 .. n - 1 + 1 : SubSeq(x, 1, n)[i] = x[1 + i - 1]
  BY <1>2, PartOf
<1>4. \A i \in 1 .. n : 1 + i - 1 = i
  OBVIOUS
<1>5. Front(x) = SubSeq(x, 1, n)
  BY <1>1 DEF Front
<1>6. Last(x) = x[Len(x)] /\ Len(x) \in 1 .. Len(x)
  BY DEF Last
<1>7. x[Len(x)] \in S
  BY <1>6, ElementOfSeq
<1> QED BY <1>1, <1>2, <1>3, <1>4, <1>5, <1>6, <1>7

\* nhs_number does not accept both a value and its misreading.
LEMMA NhsCatches ==
    ASSUME NEW S, NEW value \in Seq(S), NEW w \in Seq(S), NEW i, NEW c \in Digit, NEW d \in Digit,
           c # d, DifferAt(value, w, i, c, d)
    PROVE  nhs_number(value) => ~nhs_number(w)
<1>1. PICK x \in Seq(Digit), y \in Seq(Digit) : x = Digits(value) /\ y = Digits(w)
  BY DigitsOf DEF Digit
<1>2. PICK k : DifferAt(x, y, k, c, d)
  BY <1>1, KeptDiffers DEF Digits, Digit
<1>3. SUFFICES ASSUME nhs_number(value), nhs_number(w) PROVE FALSE
  OBVIOUS
<1>4. Len(x) = 10 /\ Len(y) = 10 /\ k \in 1 .. 10
  BY <1>1, <1>2, <1>3 DEF nhs_number, DifferAt
<1>5. PICK u \in Seq(Digit), v \in Seq(Digit) :
          u = Front(x) /\ v = Front(y) /\ Len(u) = 9 /\ Len(v) = 9
  <2>0. Len(x) > 0 /\ Len(y) > 0
    BY <1>4
  <2>1. Front(x) \in Seq(Digit) /\ Len(Front(x)) = Len(x) - 1
    BY <2>0, FrontAndLast
  <2>2. Front(y) \in Seq(Digit) /\ Len(Front(y)) = Len(y) - 1
    BY <2>0, FrontAndLast
  <2> QED BY <1>4, <2>1, <2>2
<1>6. PICK s \in Seq(Int), t \in Seq(Int) : s = NhsTerms(u) /\ t = NhsTerms(v)
  BY NhsTermsType
<1>7. /\ Len(s) = 9 /\ Len(t) = 9
      /\ \A n \in 1 .. 9 : s[n] = u[n] * (11 - n) /\ t[n] = v[n] * (11 - n)
  BY <1>5, <1>6, NhsTermsType
<1>8. PICK a \in Int, b \in Int : a = SumOf(s) /\ b = SumOf(t)
  BY SumIsInt
<1>9. (11 - (a % 11)) % 11 = Last(x) /\ (11 - (b % 11)) % 11 = Last(y)
  BY <1>1, <1>3, <1>5, <1>6, <1>8 DEF nhs_number
<1>10. CASE k = Len(x)
  <2>1. Front(x) = Front(y) /\ Last(x) = c /\ Last(y) = d
    BY <1>2, <1>10, FrontsDiffer
  <2>2. a = b
    BY <1>5, <1>6, <1>8, <2>1
  <2> QED BY <1>9, <2>1, <2>2
<1>11. CASE k # Len(x)
  <2>1. DifferAt(u, v, k, c, d) /\ Last(x) = Last(y)
    BY <1>2, <1>5, <1>11, FrontsDiffer
  <2>2. k \in 1 .. 9 /\ u[k] = c /\ v[k] = d /\ \A n \in 1 .. 9 : n # k => u[n] = v[n]
    BY <1>5, <2>1 DEF DifferAt
  <2>3. \A n \in 1 .. 9 : n # k => s[n] = t[n]
    BY <1>7, <2>2
  <2>4. b - a = t[k] - s[k]
    BY <1>7, <1>8, <2>2, <2>3, OneTermDiffers
  <2>5. PICK m \in 2 .. 10 : m = 11 - k
    <3>1. 11 - k \in 2 .. 10
      BY <2>2
    <3> QED BY <3>1
  <2>6. t[k] - s[k] = (d - c) * m
    <3>1. s[k] = c * m /\ t[k] = d * m
      BY <1>7, <2>2, <2>5
    <3>2. \A e, f, g \in Int : f * g - e * g = (f - e) * g
      OBVIOUS
    <3>3. c \in Int /\ d \in Int /\ m \in Int
      BY DEF Digit
    <3> QED BY <3>1, <3>2, <3>3
  <2>7. a % 11 # b % 11
    <3>1. b - a = (d - c) * m
      BY <2>4, <2>6
    <3> QED BY <3>1, NoMultipleOf11
  <2> QED BY <1>9, <2>1, <2>7, SameCheckDigit
<1> QED BY <1>10, <1>11

\* A turn of Mod97's loop, and its run.
Turn97(m, e) == (m * (IF e \in 0 .. 9 THEN 10 ELSE 100) + e) % 97

Moduli(f, x, N) == /\ f \in [0 .. N -> 0 .. 96] /\ f[0] = 0
                   /\ \A n \in 1 .. N : f[n] = Turn97(f[n - 1], x[n])

\* A turn takes remainders to remainders; two that differ still differ after the same
\* character, and equal ones after two different digits.
LEMMA TurnsDiffer ==
    ASSUME NEW a \in 0 .. 96, NEW b \in 0 .. 96
    PROVE  /\ \A e \in 0 .. 35 : Turn97(a, e) \in 0 .. 96
           /\ \A e \in 0 .. 35 : a # b => Turn97(a, e) # Turn97(b, e)
           /\ \A c, d \in Digit : c # d => Turn97(a, c) # Turn97(a, d)
<1>1. /\ \A m \in 0 .. 96, e \in 0 .. 9 : Turn97(m, e) = (m * 10 + e) % 97
      /\ \A m \in 0 .. 96, e \in 10 .. 35 : Turn97(m, e) = (m * 100 + e) % 97
  BY DEF Turn97
<1>2. ASSUME NEW e \in 0 .. 35
      PROVE  Turn97(a, e) \in 0 .. 96 /\ (a # b => Turn97(a, e) # Turn97(b, e))
  <2>1. CASE e \in 0 .. 9
    <3>1. Turn97(a, e) = (a * 10 + e) % 97 /\ Turn97(b, e) = (b * 10 + e) % 97
      BY <1>1, <2>1
    <3>2. a * 10 + e \in Int
      OBVIOUS
    <3>3. Turn97(a, e) \in 0 .. 96
      BY <3>1, <3>2, IsRemainder97
    <3>4. a # b => (a * 10 + e) % 97 # (b * 10 + e) % 97
      BY <2>1, After10
    <3> QED BY <3>1, <3>3, <3>4
  <2>2. CASE e \in 10 .. 35
    <3>1. Turn97(a, e) = (a * 100 + e) % 97 /\ Turn97(b, e) = (b * 100 + e) % 97
      BY <1>1, <2>2
    <3>2. a * 100 + e \in Int
      OBVIOUS
    <3>3. Turn97(a, e) \in 0 .. 96
      BY <3>1, <3>2, IsRemainder97
    <3>4. a # b => (a * 100 + e) % 97 # (b * 100 + e) % 97
      BY <2>2, After100
    <3> QED BY <3>1, <3>3, <3>4
  <2> QED BY <2>1, <2>2
<1>3. ASSUME NEW c \in Digit, NEW d \in Digit, c # d PROVE Turn97(a, c) # Turn97(a, d)
  <2>1. Turn97(a, c) = (a * 10 + c) % 97 /\ Turn97(a, d) = (a * 10 + d) % 97
    BY <1>1 DEF Digit
  <2> QED BY <1>3, <2>1, AfterTwoDigits
<1> QED BY <1>2, <1>3

\* Mod97 is the end of that run.
LEMMA Mod97IsRun ==
    ASSUME NEW N \in Nat, NEW x \in Seq(0 .. 35), Len(x) = N
    PROVE  \E f : Moduli(f, x, N) /\ Mod97(x) = f[N]
<1> DEFINE next(m, n) == Turn97(m, x[n])
           step == [n \in 1 .. N |-> [m \in 0 .. 96 |-> next(m, n)]]
           body(f) == [n \in 0 .. N |-> IF n = 0 THEN 0 ELSE next(f[n - 1], n)]
<1>1. \A n \in 1 .. N, m \in 0 .. 96 : next(m, n) \in 0 .. 96
  <2>1. \A n \in 1 .. N : x[n] \in 0 .. 35
    BY ElementOfSeq
  <2> QED BY <2>1, TurnsDiffer
<1> HIDE DEF next
<1>2. \A n \in 1 .. N, m \in 0 .. 96 : step[n][m] = next(m, n)
  OBVIOUS
<1>3. step \in Turns(N, 0 .. 96)
  BY <1>1 DEF Turns
<1> HIDE DEF step
<1>4. PICK f : LoopRun(f, N, 0 .. 96, 0, step)
  <2>1. 0 \in 0 .. 96
    OBVIOUS
  <2> QED BY <1>3, <2>1, LoopRuns
<1>5. /\ f \in [0 .. N -> 0 .. 96] /\ f[0] = 0
      /\ \A n \in 1 .. N : f[n] = next(f[n - 1], n)
  <2>1. f \in [0 .. N -> 0 .. 96] /\ f[0] = 0 /\ \A n \in 1 .. N : f[n] = step[n][f[n - 1]]
    BY <1>4 DEF LoopRun
  <2>2. ASSUME NEW n \in 1 .. N PROVE f[n] = next(f[n - 1], n)
    <3>1. n - 1 \in 0 .. N
      OBVIOUS
    <3>2. f[n - 1] \in 0 .. 96
      BY <2>1, <3>1
    <3> QED BY <1>2, <2>1, <3>2
  <2> QED BY <2>1, <2>2
<1>6. f = body(f)
  <2>1. ASSUME NEW n \in 0 .. N PROVE f[n] = IF n = 0 THEN 0 ELSE next(f[n - 1], n)
    <3>1. n # 0 => n \in 1 .. N
      OBVIOUS
    <3> QED BY <1>5, <3>1
  <2> QED BY <1>5, <2>1
<1> DEFINE upto == CHOOSE g : g = body(g)
<1>7. upto = body(upto)
  BY <1>6
<1>8. Mod97(x) = upto[N]
  BY DEF Mod97, Turn97, next
<1>9. \A n \in 0 .. N : upto[n] = f[n]
  <2> DEFINE T == {n \in 0 .. N : upto[n] = f[n]}
  <2>0. \A n \in 0 .. N : upto[n] = IF n = 0 THEN 0 ELSE next(upto[n - 1], n)
    <3> HIDE DEF upto
    <3> QED BY <1>7
  <2> HIDE DEF upto
  <2>1. 0 \in T
    BY <1>5, <2>0
  <2>2. ASSUME NEW n \in 0 .. N - 1, n \in T PROVE n + 1 \in T
    <3>1. n + 1 \in 1 .. N /\ n + 1 \in 0 .. N /\ (n + 1) - 1 = n /\ n + 1 # 0
      OBVIOUS
    <3>2. f[n + 1] = next(f[n], n + 1)
      BY <1>5, <3>1
    <3>3. upto[n + 1] = next(upto[n], n + 1)
      BY <2>0, <3>1
    <3> QED BY <2>2, <3>1, <3>2, <3>3
  <2> HIDE DEF T
  <2>3. \A n \in 0 .. N : n \in T
    BY <2>1, <2>2, UpTo
  <2> QED BY <2>3 DEF T
<1> HIDE DEF upto
<1>10. N \in 0 .. N
  OBVIOUS
<1>11. Moduli(f, x, N)
  BY <1>5 DEF Moduli, next
<1> QED BY <1>8, <1>9, <1>10, <1>11

\* The remainders of two sequences that differ at one place, and there by a digit, differ.
LEMMA Mod97Differs ==
    ASSUME NEW x \in Seq(0 .. 35), NEW y \in Seq(0 .. 35), NEW k, NEW c \in Digit, NEW d \in Digit,
           c # d, DifferAt(x, y, k, c, d)
    PROVE  Mod97(x) # Mod97(y)
<1>1. PICK N \in Nat : N = Len(x)
  BY LenProperties
<1>2. Len(y) = N /\ k \in 1 .. N /\ x[k] = c /\ y[k] = d /\ \A i \in 1 .. N : i # k => x[i] = y[i]
  BY <1>1 DEF DifferAt
<1>3. PICK f : Moduli(f, x, N) /\ Mod97(x) = f[N]
  BY <1>1, Mod97IsRun
<1>4. PICK g : Moduli(g, y, N) /\ Mod97(y) = g[N]
  BY <1>2, Mod97IsRun
<1>5. \A i \in 1 .. N : x[i] \in 0 .. 35
  BY <1>1, ElementOfSeq
<1> DEFINE T == {n \in 0 .. N : (f[n] = g[n]) <=> (n < k)}
<1>6. 0 \in T
  BY <1>2, <1>3, <1>4 DEF Moduli
<1>7. ASSUME NEW n \in 0 .. N - 1, n \in T PROVE n + 1 \in T
  <2>1. n + 1 \in 1 .. N /\ n + 1 \in 0 .. N /\ (n + 1) - 1 = n /\ n \in 0 .. N
    OBVIOUS
  <2>2. PICK a \in 0 .. 96, b \in 0 .. 96 : a = f[n] /\ b = g[n]
    BY <1>3, <1>4, <2>1 DEF Moduli
  <2>3. f[n + 1] = Turn97(a, x[n + 1]) /\ g[n + 1] = Turn97(b, y[n + 1])
    BY <1>3, <1>4, <2>1, <2>2 DEF Moduli
  <2>4. (a = b) <=> (n < k)
    BY <1>7, <2>2
  <2>5. CASE n + 1 = k
    <3>1. a = b /\ x[n + 1] = c /\ y[n + 1] = d
      BY <1>2, <2>4, <2>5
    <3>2. f[n + 1] = Turn97(a, c) /\ g[n + 1] = Turn97(a, d)
      BY <2>3, <3>1
    <3>3. f[n + 1] # g[n + 1]
      BY <3>2, TurnsDiffer
    <3> QED BY <1>2, <2>1, <2>5, <3>3
  <2>6. CASE n + 1 # k
    <3>1. PICK e \in 0 .. 35 : e = x[n + 1] /\ e = y[n + 1]
      BY <1>2, <1>5, <2>1, <2>6
    <3>2. f[n + 1] = Turn97(a, e) /\ g[n + 1] = Turn97(b, e)
      BY <2>3, <3>1
    <3>4. a # b => f[n + 1] # g[n + 1]
      BY <3>2, TurnsDiffer
    <3>5. a = b => f[n + 1] = g[n + 1]
      BY <3>2
    <3>6. (n < k) <=> (n + 1 < k)
      BY <1>2, <2>6
    <3>7. (f[n + 1] = g[n + 1]) <=> (n + 1 < k)
      BY <2>4, <3>4, <3>5, <3>6, Zenon
    <3> QED BY <2>1, <3>7
  <2> QED BY <2>5, <2>6
<1> HIDE DEF T
<1>8. \A n \in 0 .. N : n \in T
  BY <1>6, <1>7, UpTo
<1>9. N \in 0 .. N /\ ~(N < k)
  BY <1>2
<1> QED BY <1>3, <1>4, <1>8, <1>9 DEF T

\* iban's first four characters moved to the end.
Rearranged(x) == SubSeq(x, 5, Len(x)) \o SubSeq(x, 1, 4)

\* Where each character comes to stand.
LEMMA RearrangedIs ==
    ASSUME NEW S, NEW x \in Seq(S), NEW n \in Nat, Len(x) = n + 4
    PROVE  /\ Rearranged(x) \in Seq(S) /\ Len(Rearranged(x)) = n + 4
           /\ \A i \in 1 .. n + 4 : Rearranged(x)[i] = x[IF i <= n THEN i + 4 ELSE i - n]
<1>1. PICK m \in Nat : m = n + 4
  OBVIOUS
<1>2. PICK five \in Nat \ {0} : five = 5
  OBVIOUS
<1>3. PICK one \in Nat \ {0} : one = 1
  OBVIOUS
<1>4. PICK four \in Nat : four = 4
  OBVIOUS
<1>5. /\ m <= Len(x) /\ five <= m + 1 /\ four <= Len(x) /\ one <= four + 1
      /\ m - five + 1 = n /\ four - one + 1 = 4
  BY <1>1, <1>2, <1>3, <1>4
<1>6. /\ SubSeq(x, five, m) \in Seq(S) /\ Len(SubSeq(x, five, m)) = m - five + 1
      /\ \A i \in 1 .. m - five + 1 : SubSeq(x, five, m)[i] = x[five + i - 1]
  BY <1>5, PartOf
<1>7. /\ SubSeq(x, one, four) \in Seq(S) /\ Len(SubSeq(x, one, four)) = four - one + 1
      /\ \A i \in 1 .. four - one + 1 : SubSeq(x, one, four)[i] = x[one + i - 1]
  BY <1>5, PartOf
<1>8. PICK p \in Seq(S), q \in Seq(S) : p = SubSeq(x, five, m) /\ q = SubSeq(x, one, four)
  BY <1>6, <1>7
<1>9. /\ Len(p) = n /\ Len(q) = 4
      /\ \A i \in 1 .. n : p[i] = x[five + i - 1]
      /\ \A i \in 1 .. 4 : q[i] = x[one + i - 1]
  BY <1>5, <1>6, <1>7, <1>8
<1>10. Rearranged(x) = p \o q
  BY <1>1, <1>2, <1>3, <1>4, <1>8 DEF Rearranged
<1>11. p \o q \in Seq(S) /\ Len(p \o q) = n + 4
  <2>1. p \o q \in Seq(S) /\ Len(p \o q) = Len(p) + Len(q)
    BY ConcatProperties
  <2> QED BY <1>9, <2>1
<1>12. ASSUME NEW i \in 1 .. n + 4 PROVE (p \o q)[i] = x[IF i <= n THEN i + 4 ELSE i - n]
  <2>1. i \in 1 .. Len(p) + Len(q)
    BY <1>9
  <2>2. (p \o q)[i] = IF i <= Len(p) THEN p[i] ELSE q[i - Len(p)]
    BY <2>1, ConcatProperties
  <2>3. CASE i <= n
    <3>1. i \in 1 .. n /\ five + i - 1 = i + 4
      BY <1>2, <2>3
    <3>2. p[i] = x[i + 4]
      BY <1>9, <3>1
    <3> QED BY <1>9, <2>2, <2>3, <3>2
  <2>4. CASE ~(i <= n)
    <3>1. i - n \in 1 .. 4 /\ one + (i - n) - 1 = i - n
      BY <1>3, <2>4
    <3>2. q[i - n] = x[i - n]
      BY <1>9, <3>1
    <3> QED BY <1>9, <2>2, <2>4, <3>2
  <2> QED BY <2>3, <2>4
<1> QED BY <1>10, <1>11, <1>12

\* iban does not accept both a value and its misreading.
LEMMA IbanCatches ==
    ASSUME NEW S, NEW value \in Seq(S), NEW w \in Seq(S), NEW i, NEW c \in Digit, NEW d \in Digit,
           c # d, DifferAt(value, w, i, c, d)
    PROVE  iban(value) => ~iban(w)
<1>1. SUFFICES ASSUME iban(value), iban(w) PROVE FALSE
  OBVIOUS
<1>2. PICK x \in Seq(0 .. 35), y \in Seq(0 .. 35) :
          x = Kept(value, 0 .. 35) /\ y = Kept(w, 0 .. 35)
  BY KeptType
<1>3. c \in 0 .. 35 /\ d \in 0 .. 35
  BY DEF Digit
<1>4. PICK k : DifferAt(x, y, k, c, d)
  BY <1>2, <1>3, KeptDiffers
<1>5. /\ Len(x) \in 15 .. 34 /\ Mod97(Rearranged(x)) = 1
      /\ Len(y) \in 15 .. 34 /\ Mod97(Rearranged(y)) = 1
  BY <1>1, <1>2 DEF iban, Rearranged
<1>6. PICK n \in Nat : Len(x) = n + 4
  <2>1. PICK l \in 15 .. 34 : l = Len(x)
    BY <1>5
  <2>2. l - 4 \in Nat /\ l = (l - 4) + 4
    OBVIOUS
  <2> QED BY <2>1, <2>2
<1>7. /\ Len(y) = n + 4 /\ k \in 1 .. n + 4 /\ x[k] = c /\ y[k] = d
      /\ \A j \in 1 .. n + 4 : j # k => x[j] = y[j]
  BY <1>4, <1>6 DEF DifferAt
<1>8. PICK u \in Seq(0 .. 35), v \in Seq(0 .. 35) : u = Rearranged(x) /\ v = Rearranged(y)
  BY <1>6, <1>7, RearrangedIs
<1>9. /\ Len(u) = n + 4 /\ Len(v) = n + 4
      /\ \A j \in 1 .. n + 4 : /\ u[j] = x[IF j <= n THEN j + 4 ELSE j - n]
                               /\ v[j] = y[IF j <= n THEN j + 4 ELSE j - n]
  BY <1>6, <1>7, <1>8, RearrangedIs
<1>10. PICK l \in 1 .. n + 4 : l = IF k <= 4 THEN k + n ELSE k - 4
  BY <1>7
<1>11. \A j \in 1 .. n + 4 :
           LET at == IF j <= n THEN j + 4 ELSE j - n
           IN  at \in 1 .. n + 4 /\ (at = k <=> j = l)
  BY <1>7, <1>10
<1>12. DifferAt(u, v, l, c, d)
  <2>1. u[l] = c /\ v[l] = d
    BY <1>7, <1>9, <1>11
  <2>2. \A j \in 1 .. n + 4 : j # l => u[j] = v[j]
    BY <1>7, <1>9, <1>11
  <2> QED BY <1>9, <2>1, <2>2 DEF DifferAt
<1>13. Mod97(u) # Mod97(v)
  BY <1>12, Mod97Differs
<1> QED BY <1>5, <1>8, <1>13

\* MisreadDigitIsCaught holds for every value, of whatever length.
THEOREM MisreadDigitsAreCaught == Spec => []MisreadDigitIsCaught
<1>1. case \in Cases => MisreadDigitIsCaught
  <2> SUFFICES ASSUME case \in Cases, case.kind = "number",
                      NEW w \in MisreadingsOf(case.value)
               PROVE  /\ luhn(case.value) => ~luhn(w)
                      /\ nhs_number(case.value) => ~nhs_number(w)
                      /\ iban(case.value) => ~iban(w)
    BY DEF MisreadDigitIsCaught
  <2>1. PICK value \in Seq(0 .. Other) : value = case.value
    BY InputsAssumption DEF Cases
  <2>2. PICK i \in DOMAIN value : /\ value[i] \in 0 .. 9
                                  /\ \E d \in (0 .. 9) \ {value[i]} : w = [value EXCEPT ![i] = d]
    BY <2>1 DEF MisreadingsOf
  <2>3. PICK c \in Digit, d \in Digit : c = value[i] /\ c # d /\ w = [value EXCEPT ![i] = d]
    BY <2>2 DEF Digit
  <2>4. i \in 1 .. Len(value) /\ d \in 0 .. Other
    BY LenProperties DEF Digit, Other
  <2>5. /\ w \in Seq(0 .. Other) /\ Len(w) = Len(value)
        /\ \A j \in 1 .. Len(value) : w[j] = IF j = i THEN d ELSE value[j]
    BY <2>3, <2>4, ExceptSeq
  <2>6. DifferAt(value, w, i, c, d)
    BY <2>3, <2>4, <2>5 DEF DifferAt
  <2> QED BY <2>1, <2>3, <2>5, <2>6, LuhnCatches, NhsCatches, IbanCatches
<1> QED BY <1>1, CasesStay, PTL

\* Turning the terms round does not change their sum.
LEMMA SumReversed ==
    ASSUME NEW x \in Seq(Int)
    PROVE  SumOf(Reverse(x)) = SumOf(x)
<1>1. PICK N \in Nat : N = Len(x)
  BY LenProperties
<1>2. PICK y \in Seq(Int) : y = Reverse(x) /\ Len(y) = N
  BY <1>1, ReverseIsSeq
<1>3. \A i \in 1 .. N : y[i] = x[(N - i) + 1]
  BY <1>1, <1>2 DEF Reverse
<1>4. PICK s : Totals(s, x, N) /\ SumOf(x) = s[N]
  BY <1>1, SumOfIsTotal
<1>5. PICK t : Totals(t, y, N) /\ SumOf(y) = t[N]
  BY <1>2, SumOfIsTotal
<1>6. /\ s \in [0 .. N -> Int] /\ s[0] = 0 /\ t \in [0 .. N -> Int] /\ t[0] = 0
      /\ \A n \in 1 .. N : s[n] = s[n - 1] + x[n] /\ t[n] = t[n - 1] + y[n]
  BY <1>4, <1>5 DEF Totals
<1> DEFINE T == {n \in 0 .. N : t[n] = s[N] - s[N - n]}
<1>7. 0 \in T
  BY <1>6
<1>8. ASSUME NEW n \in 0 .. N - 1, n \in T PROVE n + 1 \in T
  <2>1. /\ n + 1 \in 1 .. N /\ n + 1 \in 0 .. N /\ (n + 1) - 1 = n /\ n \in 0 .. N
        /\ N - n \in 1 .. N /\ (N - n) - 1 = N - (n + 1) /\ (N - (n + 1)) + 1 = N - n
        /\ N - (n + 1) \in 0 .. N /\ N \in 0 .. N /\ N - n \in 0 .. N
    OBVIOUS
  <2>2. PICK a \in Int, b \in Int, c \in Int, d \in Int, e \in Int :
            a = t[n] /\ b = s[N] /\ c = s[N - n] /\ d = s[N - (n + 1)] /\ e = x[N - n]
    <3>1. x[N - n] \in Int
      BY <1>1, <2>1, ElementOfSeq
    <3> QED BY <1>6, <2>1, <3>1
  <2>3. a = b - c
    BY <1>8, <2>2
  <2>4. c = d + e
    BY <1>6, <2>1, <2>2
  <2>5. y[n + 1] = e
    BY <1>3, <2>1, <2>2
  <2>6. t[n + 1] = a + e
    BY <1>6, <2>1, <2>2, <2>5
  <2>7. a + e = b - d
    BY <2>3, <2>4
  <2> QED BY <2>1, <2>2, <2>6, <2>7
<1> HIDE DEF T
<1>9. \A n \in 0 .. N : n \in T
  BY <1>7, <1>8, UpTo
<1>10. N \in 0 .. N /\ N - N = 0
  OBVIOUS
<1>11. t[N] = s[N] - s[0]
  BY <1>9, <1>10 DEF T
<1>12. s[N] \in Int
  BY <1>6, <1>10
<1> QED BY <1>2, <1>4, <1>5, <1>6, <1>11, <1>12

\* A sum is the sum of the front and the last.
LEMMA SumOfFront ==
    ASSUME NEW x \in Seq(Int), Len(x) > 0
    PROVE  SumOf(x) = SumOf(Front(x)) + Last(x)
<1>n. PICK n \in Nat : Len(x) = n + 1
  <2>1. PICK m \in Nat \ {0} : m = Len(x)
    BY LenProperties
  <2>2. m - 1 \in Nat /\ m = (m - 1) + 1
    OBVIOUS
  <2> QED BY <2>1, <2>2
<1>1. PICK y \in Seq(Int) : /\ y = Front(x) /\ Len(y) = n /\ \A i \in 1 .. n : y[i] = x[i]
                            /\ Last(x) = x[n + 1]
  <2>1. (n + 1) - 1 = n
    OBVIOUS
  <2>2. /\ Front(x) \in Seq(Int) /\ Len(Front(x)) = Len(x) - 1 /\ Last(x) = x[Len(x)]
        /\ \A i \in 1 .. Len(x) - 1 : Front(x)[i] = x[i]
    BY FrontAndLast
  <2> QED BY <1>n, <2>1, <2>2
<1>2. PICK N \in Nat : N = n + 1
  OBVIOUS
<1>3. PICK s : Totals(s, x, N) /\ SumOf(x) = s[N]
  BY <1>n, <1>2, SumOfIsTotal
<1>4. PICK t : Totals(t, y, n) /\ SumOf(y) = t[n]
  BY <1>1, SumOfIsTotal
<1>5. /\ s \in [0 .. N -> Int] /\ s[0] = 0 /\ t \in [0 .. n -> Int] /\ t[0] = 0
      /\ \A i \in 1 .. N : s[i] = s[i - 1] + x[i]
      /\ \A i \in 1 .. n : t[i] = t[i - 1] + y[i]
  BY <1>3, <1>4 DEF Totals
<1> DEFINE T == {i \in 0 .. n : t[i] = s[i]}
<1>6. 0 \in T
  BY <1>5
<1>7. ASSUME NEW i \in 0 .. n - 1, i \in T PROVE i + 1 \in T
  <2>1. i + 1 \in 1 .. N /\ i + 1 \in 1 .. n /\ i + 1 \in 0 .. n /\ (i + 1) - 1 = i
    BY <1>2
  <2>2. s[i + 1] = s[i] + x[i + 1] /\ t[i + 1] = t[i] + y[i + 1] /\ x[i + 1] = y[i + 1]
    BY <1>1, <1>5, <2>1
  <2> QED BY <1>7, <2>1, <2>2
<1> HIDE DEF T
<1>8. \A i \in 0 .. n : i \in T
  BY <1>6, <1>7, UpTo
<1>9. n \in 0 .. n /\ N \in 1 .. N /\ N - 1 = n
  BY <1>2
<1>10. t[n] = s[n] /\ s[N] = s[n] + x[N]
  BY <1>5, <1>8, <1>9 DEF T
<1> QED BY <1>1, <1>2, <1>3, <1>4, <1>10

\* The weight of the i-th digit.
WeightAt(p, i) == p.weights[((i - 1) % Len(p.weights)) + 1]

\* The terms of the generic shape.
LEMMA WeightedTermsType ==
    ASSUME NEW body \in Seq(Digit), NEW p, \A i \in 1 .. Len(body) : WeightAt(p, i) \in Int
    PROVE  /\ WeightedTerms(body, p) \in Seq(Int) /\ Len(WeightedTerms(body, p)) = Len(body)
           /\ \A i \in 1 .. Len(body) : WeightedTerms(body, p)[i] =
                  IF p.double_and_sum THEN Fold(body[i] * WeightAt(p, i))
                                      ELSE body[i] * WeightAt(p, i)
<1>1. PICK n \in Nat : n = Len(body)
  BY LenProperties
<1>2. PICK q : q = [i \in 1 .. n |-> IF p.double_and_sum THEN Fold(body[i] * WeightAt(p, i))
                                                         ELSE body[i] * WeightAt(p, i)]
  OBVIOUS
<1>3. \A i \in 1 .. n : body[i] * WeightAt(p, i) \in Int
  <2>1. \A i \in 1 .. n : body[i] \in Digit
    BY <1>1, ElementOfSeq
  <2>2. \A i \in 1 .. n : body[i] \in Int /\ WeightAt(p, i) \in Int
    BY <1>1, <2>1 DEF Digit
  <2>3. \A a, b \in Int : a * b \in Int
    OBVIOUS
  <2> QED BY <2>2, <2>3
<1>4. \A a \in Int : Fold(a) \in Int
  BY DEF Fold
<1>5. q \in [1 .. n -> Int]
  BY <1>2, <1>3, <1>4
<1>6. q \in Seq(Int) /\ Len(q) = n
  BY <1>5
<1>7. q = WeightedTerms(body, p)
  BY <1>1, <1>2 DEF WeightedTerms, WeightAt
<1> QED BY <1>1, <1>2, <1>6, <1>7

\* The terms of bban_mod11, likewise.
LEMMA Mod11TermsType ==
    ASSUME NEW x \in Seq(Digit)
    PROVE  /\ Mod11Terms(x) \in Seq(Int) /\ Len(Mod11Terms(x)) = Len(x)
           /\ \A i \in 1 .. Len(x) : Mod11Terms(x)[i] = x[i] * (((i - 1) % 6) + 2)
<1>1. PICK n \in Nat : n = Len(x)
  BY LenProperties
<1>2. PICK p : p = [i \in 1 .. n |-> x[i] * (((i - 1) % 6) + 2)]
  OBVIOUS
<1>3. \A i \in 1 .. n : x[i] * (((i - 1) % 6) + 2) \in Int
  <2>1. \A i \in 1 .. n : x[i] \in Digit
    BY <1>1, ElementOfSeq
  <2>2. \A i \in 1 .. n : x[i] \in Int /\ ((i - 1) % 6) + 2 \in Int
    BY <2>1 DEF Digit
  <2>3. \A a, b \in Int : a * b \in Int
    OBVIOUS
  <2> QED BY <2>2, <2>3
<1>4. p \in [1 .. n -> Int]
  BY <1>2, <1>3
<1>5. p \in Seq(Int) /\ Len(p) = n
  BY <1>4
<1>6. p = Mod11Terms(x)
  BY <1>1, <1>2 DEF Mod11Terms
<1> QED BY <1>1, <1>2, <1>5, <1>6

\* Arithmetic of check digits.
LEMMA SmallRemainder == ASSUME NEW m \in Nat \ {0}, NEW a \in 0 .. m - 1 PROVE a % m = a
OBVIOUS

\* The check digit that makes the sum a multiple of 10 is the one that is missing.
LEMMA CheckDigit10 ==
    ASSUME NEW s \in Int, NEW l \in Digit
    PROVE  (s + l) % 10 = 0 <=> (10 - (s % 10)) % 10 = l
BY DEF Digit

\* ... modulo 11, where 10 and 11 stand for 0.
LEMMA CheckDigit11 ==
    ASSUME NEW s \in Int, NEW l \in Digit, (11 - (s % 11)) % 11 = l
    PROVE  (IF 11 - (s % 11) >= 10 THEN 0 ELSE 11 - (s % 11)) = l
BY DEF Digit

LEMMA CheckDigit11Or0 ==
    ASSUME NEW s \in Int, NEW l \in Digit,
           (IF 11 - (s % 11) >= 10 THEN 0 ELSE 11 - (s % 11)) = l
    PROVE  (11 - (s % 11)) % 11 = l \/ l = 0
BY DEF Digit

LEMMA NextIsOdd ==
    ASSUME NEW j \in Int, NEW k \in Int, j = k + 1
    PROVE  j % 2 = 0 <=> k % 2 = 1
OBVIOUS

LEMMA FromTheRight ==
    ASSUME NEW n \in Int, NEW i \in Int
    PROVE  (n - i) % 2 = 1 <=> (IF n % 2 = 0 THEN (i - 1) % 2 = 0 ELSE (i - 1) % 2 = 1)
<1>1. CASE n % 2 = 0
  BY <1>1
<1>2. CASE n % 2 # 0
  BY <1>2
<1> QED BY <1>1, <1>2

\* The generic shape over digits: its verdict in terms of the sum, for the parameters of the
\* shipped checksums.
LEMMA GenericIs ==
    ASSUME NEW value, Len(Digits(value)) > 1,
           NEW p, p.complement = TRUE, p.reject_remainders = {}
    PROVE  weighted_mod_check(value, p) <=>
               (p.modulus - (SumOf(WeightedTerms(Front(Digits(value)), p)) % p.modulus)) % p.modulus
                   = Last(Digits(value))
<1>1. PICK r : r = SumOf(WeightedTerms(Front(Digits(value)), p)) % p.modulus
  OBVIOUS
<1>2. weighted_mod_check(value, p) <=>
          (r \notin p.reject_remainders /\ Expected(r, p) = Last(Digits(value)))
  BY <1>1 DEF weighted_mod_check
<1>3. Expected(r, p) = (p.modulus - r) % p.modulus
  BY DEF Expected
<1> QED BY <1>1, <1>2, <1>3

\* With weights 10 to 2 the generic shape is nhs_number.
LEMMA NhsGeneric ==
    ASSUME NEW S, NEW value \in Seq(S), NEW n \in 10 .. 10, Len(Digits(value)) = n
    PROVE  nhs_number(value) <=> weighted_mod_check(value, NhsParams)
<1>1. PICK x \in Seq(Digit) : x = Digits(value) /\ Len(x) = n
  BY DigitsOf DEF Digit
<1>2. PICK body \in Seq(Digit) : body = Front(x) /\ Len(body) = 9
  <2>1. Len(x) > 0
    BY <1>1
  <2>2. Front(x) \in Seq(Digit) /\ Len(Front(x)) = Len(x) - 1
    BY <2>1, FrontAndLast
  <2>3. n - 1 = 9
    OBVIOUS
  <2> QED BY <1>1, <2>2, <2>3
<1>3. PICK p : p = NhsParams
  OBVIOUS
<1>4. /\ p.weights = <<10, 9, 8, 7, 6, 5, 4, 3, 2>> /\ p.modulus = 11 /\ p.complement = TRUE
      /\ p.double_and_sum = FALSE /\ p.reject_remainders = {}
  BY <1>3 DEF NhsParams
<1>5. \A i \in 1 .. 9 : WeightAt(p, i) = 11 - i
  <2> SUFFICES ASSUME NEW i \in 1 .. 9 PROVE WeightAt(p, i) = 11 - i
    OBVIOUS
  <2>1. Len(p.weights) = 9
    BY <1>4
  <2>2. (i - 1) % 9 = i - 1 /\ (i - 1) + 1 = i
    OBVIOUS
  <2>3. <<10, 9, 8, 7, 6, 5, 4, 3, 2>>[i] = 11 - i
    OBVIOUS
  <2> QED BY <1>4, <2>1, <2>2, <2>3 DEF WeightAt
<1>6. WeightedTerms(body, p) = NhsTerms(body)
  <2>1. \A i \in 1 .. Len(body) : WeightAt(p, i) \in Int
    BY <1>2, <1>5
  <2>2. PICK u : u = WeightedTerms(body, p)
    OBVIOUS
  <2>3. u \in Seq(Int) /\ Len(u) = Len(body) /\ \A i \in 1 .. Len(body) : u[i] =
            IF p.double_and_sum THEN Fold(body[i] * WeightAt(p, i)) ELSE body[i] * WeightAt(p, i)
    BY <2>1, <2>2, WeightedTermsType
  <2>4. PICK v : v = NhsTerms(body)
    OBVIOUS
  <2>5. v \in Seq(Int) /\ Len(v) = Len(body) /\ \A i \in 1 .. Len(body) : v[i] = body[i] * (11 - i)
    BY <2>4, NhsTermsType
  <2>6. \A i \in 1 .. 9 : u[i] = v[i]
    BY <1>2, <1>4, <1>5, <2>3, <2>5
  <2>7. u = v
    <3>1. Len(u) = Len(v) /\ \A i \in 1 .. Len(u) : u[i] = v[i]
      BY <1>2, <2>3, <2>5, <2>6
    <3> QED BY <2>3, <2>5, <3>1, SeqEqual
  <2> QED BY <2>2, <2>4, <2>7
<1>7. PICK s : s = SumOf(NhsTerms(body))
  OBVIOUS
<1>8. weighted_mod_check(value, p) <=> (11 - (s % 11)) % 11 = Last(x)
  <2>1. Len(Digits(value)) > 1
    OBVIOUS
  <2>2. weighted_mod_check(value, p) <=>
            (p.modulus - (SumOf(WeightedTerms(Front(Digits(value)), p)) % p.modulus)) % p.modulus
                = Last(Digits(value))
    BY <1>4, <2>1, GenericIs
  <2> QED BY <1>1, <1>2, <1>4, <1>6, <1>7, <2>2
<1>9. nhs_number(value) <=> (11 - (s % 11)) % 11 = Last(x)
  BY <1>1, <1>2, <1>7 DEF nhs_number
<1> QED BY <1>3, <1>8, <1>9

\* With weights 2 to 7 from the right the generic shape is bban_mod11, but for check digit 0.
LEMMA Mod11Generic ==
    ASSUME NEW S, NEW value \in Seq(S), NEW n \in Nat, Len(Digits(value)) = n, n >= 8
    PROVE  /\ weighted_mod_check(value, Mod11Params(n - 1)) => bban_mod11(value)
           /\ bban_mod11(value) =>
                  weighted_mod_check(value, Mod11Params(n - 1)) \/ Last(Digits(value)) = 0
<1>1. PICK x \in Seq(Digit) : x = Digits(value) /\ Len(x) = n
  BY DigitsOf DEF Digit
<1>2. PICK m \in Nat \ {0} : m = n - 1
  <2>1. n - 1 \in Nat \ {0}
    OBVIOUS
  <2> QED BY <2>1
<1>3. PICK body \in Seq(Digit) : body = Front(x) /\ Len(body) = m
  <2>1. Len(x) > 0
    BY <1>1
  <2>2. Front(x) \in Seq(Digit) /\ Len(Front(x)) = Len(x) - 1
    BY <2>1, FrontAndLast
  <2> QED BY <1>1, <1>2, <2>2
<1>4. PICK l \in Digit : l = Last(x)
  <2>1. Last(x) \in Digit
    BY <1>1, FrontAndLast
  <2> QED BY <2>1
<1>5. PICK p : p = Mod11Params(m)
  OBVIOUS
<1>6. PICK W : W = [i \in 1 .. m |-> ((m - i) % 6) + 2]
  OBVIOUS
<1>7. /\ p.weights = W /\ p.modulus = 11 /\ p.complement = TRUE
      /\ p.double_and_sum = FALSE /\ p.reject_remainders = {}
  BY <1>5, <1>6 DEF Mod11Params
<1>8. Len(W) = m /\ \A i \in 1 .. m : W[i] = ((m - i) % 6) + 2 /\ W[i] \in Int
  <2>1. \A i \in 1 .. m : ((m - i) % 6) + 2 \in Int
    OBVIOUS
  <2>2. W \in [1 .. m -> Int]
    BY <1>6, <2>1
  <2> QED BY <1>6, <2>1, <2>2
<1>9. \A i \in 1 .. m : WeightAt(p, i) = W[i]
  <2> SUFFICES ASSUME NEW i \in 1 .. m PROVE W[((i - 1) % m) + 1] = W[i]
    BY <1>7, <1>8 DEF WeightAt
  <2>1. PICK a \in 0 .. m - 1 : a = i - 1 /\ a + 1 = i
    OBVIOUS
  <2>2. a % m = a
    BY SmallRemainder
  <2> QED BY <2>1, <2>2
<1>10. PICK u : u = WeightedTerms(body, p)
  OBVIOUS
<1>11. u \in Seq(Int) /\ Len(u) = m /\ \A i \in 1 .. m : u[i] = body[i] * W[i]
  <2>1. \A i \in 1 .. Len(body) : WeightAt(p, i) \in Int
    BY <1>3, <1>8, <1>9
  <2>2. u \in Seq(Int) /\ Len(u) = Len(body) /\ \A i \in 1 .. Len(body) : u[i] =
            IF p.double_and_sum THEN Fold(body[i] * WeightAt(p, i)) ELSE body[i] * WeightAt(p, i)
    BY <1>10, <2>1, WeightedTermsType
  <2> QED BY <1>3, <1>7, <1>9, <2>2
<1>12. PICK back \in Seq(Digit) : back = Reverse(body) /\ Len(back) = m
  BY <1>3, ReverseIsSeq
<1>13. PICK v : v = Mod11Terms(back)
  OBVIOUS
<1>14. v \in Seq(Int) /\ Len(v) = m /\ \A i \in 1 .. m : v[i] = back[i] * (((i - 1) % 6) + 2)
  BY <1>12, <1>13, Mod11TermsType
<1>15. Reverse(u) = v
  <2>1. PICK r \in Seq(Int) : r = Reverse(u) /\ Len(r) = m
    BY <1>11, ReverseIsSeq
  <2>2. \A i \in 1 .. m : r[i] = u[(m - i) + 1] /\ back[i] = body[(m - i) + 1]
    BY <1>3, <1>11, <1>12, <2>1 DEF Reverse
  <2>3. \A i \in 1 .. m : r[i] = v[i]
    <3> SUFFICES ASSUME NEW i \in 1 .. m PROVE r[i] = v[i]
      OBVIOUS
    <3>1. (m - i) + 1 \in 1 .. m /\ m - ((m - i) + 1) = i - 1
      OBVIOUS
    <3>2. W[(m - i) + 1] = ((i - 1) % 6) + 2
      BY <1>8, <3>1
    <3>3. u[(m - i) + 1] = body[(m - i) + 1] * (((i - 1) % 6) + 2)
      BY <1>11, <3>1, <3>2
    <3> QED BY <1>14, <2>2, <3>3
  <2> QED BY <1>14, <2>1, <2>3, SeqEqual
<1>16. PICK s \in Int : s = SumOf(u) /\ s = SumOf(v)
  BY <1>11, <1>15, SumReversed, SumIsInt
<1>17. weighted_mod_check(value, p) <=> (11 - (s % 11)) % 11 = l
  <2>1. Len(Digits(value)) > 1
    BY <1>1
  <2>2. weighted_mod_check(value, p) <=>
            (p.modulus - (SumOf(WeightedTerms(Front(Digits(value)), p)) % p.modulus)) % p.modulus
                = Last(Digits(value))
    BY <1>7, <2>1, GenericIs
  <2> QED BY <1>1, <1>3, <1>4, <1>7, <1>10, <1>16, <2>2
<1>18. bban_mod11(value) <=> (IF 11 - (s % 11) >= 10 THEN 0 ELSE 11 - (s % 11)) = l
  <2>1. Len(x) >= 8
    BY <1>1
  <2>2. bban_mod11(value) <=>
          (IF 11 - (SumOf(Mod11Terms(Reverse(Front(x)))) % 11) >= 10 THEN 0
           ELSE 11 - (SumOf(Mod11Terms(Reverse(Front(x)))) % 11)) = Last(x)
    BY <1>1, <2>1 DEF bban_mod11
  <2>3. SumOf(Mod11Terms(Reverse(Front(x)))) = s
    BY <1>3, <1>12, <1>13, <1>16
  <2> QED BY <1>4, <2>2, <2>3
<1>19. weighted_mod_check(value, p) => bban_mod11(value)
  BY <1>17, <1>18, CheckDigit11
<1>20. bban_mod11(value) => weighted_mod_check(value, p) \/ l = 0
  BY <1>17, <1>18, CheckDigit11Or0
<1> QED BY <1>1, <1>2, <1>4, <1>5, <1>19, <1>20

\* With doubling from the right digit on the generic shape is luhn.
LEMMA LuhnGeneric ==
    ASSUME NEW S, NEW value \in Seq(S), NEW n \in Nat, Len(Digits(value)) = n, n >= 12
    PROVE  luhn(value) <=>
               weighted_mod_check(value, LuhnParams(IF n % 2 = 0 THEN <<2, 1>> ELSE <<1, 2>>))
<1>1. PICK x \in Seq(Digit) : x = Digits(value) /\ Len(x) = n
  BY DigitsOf DEF Digit
<1>2. PICK m \in Nat : m = n - 1 /\ n = m + 1
  <2>1. n - 1 \in Nat /\ n = (n - 1) + 1
    OBVIOUS
  <2> QED BY <2>1
<1>3. PICK body \in Seq(Digit) :
          body = Front(x) /\ Len(body) = m /\ \A i \in 1 .. m : body[i] = x[i]
  <2>1. /\ Front(x) \in Seq(Digit) /\ Len(Front(x)) = Len(x) - 1
        /\ \A i \in 1 .. Len(x) - 1 : Front(x)[i] = x[i]
    BY <1>1, FrontAndLast
  <2> QED BY <1>1, <1>2, <2>1
<1>4. PICK l \in Digit : l = Last(x) /\ l = x[n]
  <2>1. Last(x) \in Digit /\ Last(x) = x[Len(x)]
    BY <1>1, FrontAndLast
  <2> QED BY <1>1, <2>1
<1>5. PICK weights : weights = IF n % 2 = 0 THEN <<2, 1>> ELSE <<1, 2>>
  OBVIOUS
<1>6. PICK p : p = LuhnParams(weights)
  OBVIOUS
<1>7. /\ p.weights = weights /\ p.modulus = 10 /\ p.complement = TRUE
      /\ p.double_and_sum = TRUE /\ p.reject_remainders = {}
  BY <1>6 DEF LuhnParams
<1>8. \A i \in 1 .. m : WeightAt(p, i) = IF (n - i) % 2 = 1 THEN 2 ELSE 1
  <2> SUFFICES ASSUME NEW i \in 1 .. m
               PROVE  WeightAt(p, i) = IF (n - i) % 2 = 1 THEN 2 ELSE 1
    OBVIOUS
  <2>1. i \in Int /\ n \in Int
    OBVIOUS
  <2>2. PICK q \in 0 .. 1 : q = (i - 1) % 2
    BY <2>1
  <2>3. Len(weights) = 2
    BY <1>5
  <2>4. WeightAt(p, i) = weights[q + 1]
    BY <1>7, <2>2, <2>3 DEF WeightAt
  <2>5. (n - i) % 2 = 1 <=> (IF n % 2 = 0 THEN q = 0 ELSE q = 1)
    BY <2>1, <2>2, FromTheRight
  <2>6. CASE n % 2 = 0
    <3>1. weights = <<2, 1>>
      BY <1>5, <2>6
    <3> QED BY <2>2, <2>4, <2>5, <2>6, <3>1
  <2>7. CASE n % 2 # 0
    <3>1. weights = <<1, 2>>
      BY <1>5, <2>7
    <3> QED BY <2>2, <2>4, <2>5, <2>7, <3>1
  <2> QED BY <2>6, <2>7
<1>9. PICK u : u = WeightedTerms(body, p)
  OBVIOUS
<1>10. /\ u \in Seq(Int) /\ Len(u) = m
       /\ \A i \in 1 .. m : u[i] = Fold(body[i] * (IF (n - i) % 2 = 1 THEN 2 ELSE 1))
  <2>1. \A i \in 1 .. Len(body) : WeightAt(p, i) \in Int
    BY <1>3, <1>8
  <2>2. u \in Seq(Int) /\ Len(u) = Len(body) /\ \A i \in 1 .. Len(body) : u[i] =
            IF p.double_and_sum THEN Fold(body[i] * WeightAt(p, i)) ELSE body[i] * WeightAt(p, i)
    BY <1>9, <2>1, WeightedTermsType
  <2>3. \A i \in 1 .. m : u[i] = Fold(body[i] * WeightAt(p, i))
    BY <1>3, <1>7, <2>2
  <2> QED BY <1>3, <1>8, <2>2, <2>3
<1>11. PICK back \in Seq(Digit) : back = Reverse(x) /\ Len(back) = n
  BY <1>1, ReverseIsSeq
<1>12. PICK v : v = LuhnTerms(back)
  OBVIOUS
<1>13. /\ v \in Seq(Int) /\ Len(v) = n
       /\ \A i \in 1 .. n : v[i] = IF i % 2 = 0 THEN Fold(2 * back[i]) ELSE back[i]
  BY <1>11, <1>12, LuhnTermsType
<1>14. PICK r \in Seq(Int) : r = Reverse(v) /\ Len(r) = n
  BY <1>13, ReverseIsSeq
<1>15. \A i \in 1 .. n : r[i] = IF (n - i) % 2 = 1 THEN Fold(2 * x[i]) ELSE x[i]
  <2> SUFFICES ASSUME NEW i \in 1 .. n
               PROVE  r[i] = IF (n - i) % 2 = 1 THEN Fold(2 * x[i]) ELSE x[i]
    OBVIOUS
  <2>1. PICK j \in 1 .. n : j = (n - i) + 1 /\ (n - j) + 1 = i
    <3>1. (n - i) + 1 \in 1 .. n /\ (n - ((n - i) + 1)) + 1 = i
      OBVIOUS
    <3> QED BY <3>1
  <2>2. r[i] = v[j]
    BY <1>13, <1>14, <2>1 DEF Reverse
  <2>3. back[j] = x[i]
    BY <1>1, <1>11, <2>1 DEF Reverse
  <2>4. PICK k \in Int : k = n - i
    OBVIOUS
  <2>5. j % 2 = 0 <=> k % 2 = 1
    BY <2>1, <2>4, NextIsOdd
  <2> QED BY <1>13, <2>2, <2>3, <2>4, <2>5
<1>16. Last(r) = l
  <2>1. n \in 1 .. n /\ (n - n) % 2 = 0
    OBVIOUS
  <2>2. r[n] = x[n]
    BY <1>15, <2>1
  <2> QED BY <1>4, <1>14, <2>2 DEF Last
<1>17. Front(r) = u
  <2>1. PICK f : f = Front(r)
    OBVIOUS
  <2>2. /\ f \in Seq(Int) /\ Len(f) = Len(r) - 1
        /\ \A i \in 1 .. Len(r) - 1 : f[i] = r[i]
    <3>1. Len(r) > 0
      BY <1>14
    <3> QED BY <2>1, <3>1, FrontAndLast
  <2>3. Len(f) = m /\ \A i \in 1 .. m : f[i] = r[i]
    BY <1>2, <1>14, <2>2
  <2>4. \A i \in 1 .. m : f[i] = u[i]
    <3> SUFFICES ASSUME NEW i \in 1 .. m PROVE f[i] = u[i]
      OBVIOUS
    <3>1. i \in 1 .. n
      BY <1>2
    <3>2. PICK d \in Digit : d = x[i] /\ d = body[i]
      BY <1>3, ElementOfSeq
    <3>3. f[i] = IF (n - i) % 2 = 1 THEN Fold(2 * d) ELSE d
      BY <1>15, <2>3, <3>1, <3>2
    <3>4. u[i] = Fold(d * (IF (n - i) % 2 = 1 THEN 2 ELSE 1))
      BY <1>10, <3>2
    <3>5. Fold(d * 2) = Fold(2 * d) /\ Fold(d * 1) = d
      BY DEF Digit, Fold
    <3> QED BY <3>3, <3>4, <3>5
  <2>5. f = u
    BY <1>10, <2>2, <2>3, <2>4, SeqEqual
  <2> QED BY <2>1, <2>5
<1>18. PICK s \in Int : s = SumOf(u)
  BY <1>10, SumIsInt
<1>19. SumOf(v) = s + l
  <2>1. SumOf(r) = SumOf(v)
    BY <1>13, <1>14, SumReversed
  <2>2. SumOf(r) = SumOf(Front(r)) + Last(r)
    BY <1>14, SumOfFront
  <2> QED BY <1>16, <1>17, <1>18, <2>1, <2>2
<1>20. weighted_mod_check(value, p) <=> (10 - (s % 10)) % 10 = l
  <2>1. Len(Digits(value)) > 1
    BY <1>1
  <2>2. weighted_mod_check(value, p) <=>
            (p.modulus - (SumOf(WeightedTerms(Front(Digits(value)), p)) % p.modulus)) % p.modulus
                = Last(Digits(value))
    BY <1>7, <2>1, GenericIs
  <2> QED BY <1>1, <1>3, <1>4, <1>7, <1>9, <1>18, <2>2
<1>21. luhn(value) <=> (s + l) % 10 = 0
  <2>1. Len(x) >= 12
    BY <1>1
  <2>2. luhn(value) <=> SumOf(LuhnTerms(Reverse(x))) % 10 = 0
    BY <1>1, <2>1 DEF luhn
  <2> QED BY <1>11, <1>12, <1>19, <2>2
<1>22. (s + l) % 10 = 0 <=> (10 - (s % 10)) % 10 = l
  BY CheckDigit10
<1> QED BY <1>5, <1>6, <1>20, <1>21, <1>22

\* GenericMatchesShipped holds for every value, of whatever length.
THEOREM GenericMatchesTheShipped == Spec => []GenericMatchesShipped
<1>1. case \in Cases => GenericMatchesShipped
  <2> SUFFICES ASSUME case \in Cases, case.kind = "number" PROVE GenericMatchesShipped
    BY DEF GenericMatchesShipped
  <2>1. PICK value \in Seq(0 .. Other) : value = case.value
    BY InputsAssumption DEF Cases
  <2>2. PICK n \in Nat : n = Len(Digits(value))
    <3>1. Digits(value) \in Seq(0 .. 9)
      BY DigitsOf
    <3> QED BY <3>1, LenProperties
  <2>3. n >= 12 => (luhn(value) <=>
            weighted_mod_check(value, LuhnParams(IF n % 2 = 0 THEN <<2, 1>> ELSE <<1, 2>>)))
    BY <2>2, LuhnGeneric
  <2>4. n = 10 => (nhs_number(value) <=> weighted_mod_check(value, NhsParams))
    <3>1. n = 10 => n \in 10 .. 10
      OBVIOUS
    <3> QED BY <2>2, <3>1, NhsGeneric
  <2>5. n >= 8 => /\ weighted_mod_check(value, Mod11Params(n - 1)) => bban_mod11(value)
                  /\ bban_mod11(value) =>
                        weighted_mod_check(value, Mod11Params(n - 1)) \/ Last(Digits(value)) = 0
    BY <2>2, Mod11Generic
  <2> QED BY <2>1, <2>2, <2>3, <2>4, <2>5 DEF GenericMatchesShipped
<1> QED BY <1>1, CasesStay, PTL
=================================================================================
