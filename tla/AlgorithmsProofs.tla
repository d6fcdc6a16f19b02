---------------------------- MODULE AlgorithmsProofs ----------------------------
(***************************************************************************)
(* What the detector's algorithms guarantee for every input.  A loop or a  *)
(* recursion is reasoned about by induction on how far it has come; since  *)
(* no prover at hand instantiates the library's induction theorems, which  *)
(* take an operator, the induction is over a set: the numbers up to which  *)
(* the claim holds (UpTo).                                                 *)
(***************************************************************************)
EXTENDS Algorithms, SequenceTheorems, FiniteSetTheorems, TLAPS

-----------------------------------------------------------------------------
(* Induction, extrema, quotients *)

\* A non-empty set of naturals has a least member, and Min is it.
LEMMA MinIsLeast ==
    ASSUME NEW S \in SUBSET Nat, S # {}
    PROVE  Min(S) \in S /\ \A x \in S : Min(S) <= x
<1> DEFINE less == OpToRel(<, Nat)
<1>1. IsWellFoundedOn(less, Nat)
  BY NatLessThanWellFounded
<1>2. \A a \in Nat, b \in Nat : a < b => <<a, b>> \in less
  BY DEF OpToRel
<1> HIDE DEF less
<1>3. PICK y \in S : \A z \in S : ~(<<z, y>> \in less)
  BY <1>1, WFMin
<1>4. \A z \in S : y <= z
  <2>1. ASSUME NEW z \in S, z < y PROVE FALSE
    BY <1>2, <1>3, <2>1
  <2> QED BY <2>1
<1> QED BY <1>4 DEF Min

\* A set of naturals that is not empty and bounded has a greatest member, and Max is it.
LEMMA MaxIsGreatest ==
    ASSUME NEW N \in Nat, NEW S \in SUBSET (0 .. N), S # {}
    PROVE  Max(S) \in S /\ \A x \in S : x <= Max(S)
<1> DEFINE down == {N - x : x \in S}
<1>1. down \in SUBSET Nat /\ down # {}
  <2>1. \A x \in S : N - x \in Nat
    OBVIOUS
  <2> QED BY <2>1
<1>2. Min(down) \in down /\ \A z \in down : Min(down) <= z
  BY <1>1, MinIsLeast
<1>3. PICK y \in S : Min(down) = N - y
  BY <1>2
<1>4. \A x \in S : x <= y
  <2>1. \A x \in S : N - y <= N - x
    BY <1>2, <1>3
  <2> QED BY <2>1
<1> QED BY <1>4 DEF Max

\* What holds at 0 and is handed on from n to n + 1 holds up to N.
LEMMA UpTo ==
    ASSUME NEW N \in Nat, NEW S, 0 \in S, \A n \in 0 .. N - 1 : n \in S => n + 1 \in S
    PROVE  \A n \in 0 .. N : n \in S
<1> DEFINE missing == (0 .. N) \ S
<1>1. SUFFICES ASSUME missing # {} PROVE FALSE
  OBVIOUS
<1>2. /\ Min(missing) \in missing
      /\ \A x \in missing : Min(missing) <= x
  BY <1>1, MinIsLeast
<1> DEFINE m == Min(missing)
<1> HIDE DEF m
<1>3. m \in 0 .. N /\ m \notin S /\ m # 0
  BY <1>2 DEF m
<1>4. m - 1 \in 0 .. N - 1 /\ m - 1 \in S
  BY <1>2, <1>3 DEF m
<1> QED BY <1>3, <1>4

\* A loop over 1 .. N, whose turn n takes what it has, a member of T, to step[n][...], and a
\* run of it that starts from base.
Turns(N, T) == [1 .. N -> [T -> T]]
LoopRun(f, N, T, base, step) == /\ f \in [0 .. N -> T] /\ f[0] = base
                                /\ \A n \in 1 .. N : f[n] = step[n][f[n - 1]]

\* Every loop has a run.
LEMMA LoopRuns ==
    ASSUME NEW N \in Nat, NEW T, NEW base \in T, NEW step \in Turns(N, T)
    PROVE  \E f : LoopRun(f, N, T, base, step)
<1> DEFINE Run(f, m) == /\ f \in [0 .. m -> T] /\ f[0] = base
                        /\ \A n \in 1 .. m : f[n] = step[n][f[n - 1]]
           S == {m \in 0 .. N : \E f : Run(f, m)}
<1>1. 0 \in S
  <2>1. PICK f : f = [n \in 0 .. 0 |-> base]
    OBVIOUS
  <2>2. f \in [0 .. 0 -> T] /\ f[0] = base
    BY <2>1
  <2>3. Run(f, 0)
    BY <2>2
  <2> QED BY <2>3
<1>2. ASSUME NEW m \in 0 .. N - 1, m \in S PROVE m + 1 \in S
  <2>1. PICK f : Run(f, m)
    BY <1>2
  <2> DEFINE g == [n \in 0 .. m + 1 |-> IF n = m + 1 THEN step[m + 1][f[m]] ELSE f[n]]
  <2>2. step[m + 1][f[m]] \in T
    <3>1. m + 1 \in 1 .. N /\ f[m] \in T
      BY <2>1
    <3> QED BY <3>1 DEF Turns
  <2>3. g \in [0 .. m + 1 -> T]
    <3>1. ASSUME NEW n \in 0 .. m + 1 PROVE (IF n = m + 1 THEN step[m + 1][f[m]] ELSE f[n]) \in T
      <4>1. n # m + 1 => n \in 0 .. m
        OBVIOUS
      <4> QED BY <2>1, <2>2, <4>1
    <3> QED BY <3>1
  <2>4. g[0] = base
    BY <2>1
  <2>5. ASSUME NEW n \in 1 .. m + 1 PROVE g[n] = step[n][g[n - 1]]
    <3>1. n - 1 \in 0 .. m + 1 /\ n - 1 # m + 1 /\ n \in 0 .. m + 1
      OBVIOUS
    <3>2. g[n - 1] = f[n - 1]
      BY <3>1
    <3>3. CASE n = m + 1
      <4>1. n - 1 = m /\ g[n] = step[n][f[m]]
        BY <3>1, <3>3
      <4> QED BY <3>2, <4>1
    <3>4. CASE n # m + 1
      <4>1. n \in 1 .. m /\ g[n] = f[n]
        BY <3>1, <3>4
      <4> QED BY <2>1, <3>2, <4>1
    <3> QED BY <3>3, <3>4
  <2>6. Run(g, m + 1)
    <3> HIDE DEF g
    <3> QED BY <2>3, <2>4, <2>5
  <2>7. m + 1 \in 0 .. N
    OBVIOUS
  <2> QED BY <2>6, <2>7
<1> HIDE DEF S
<1>3. N \in S
  <2>1. \A n \in 0 .. N : n \in S
    BY <1>1, <1>2, UpTo
  <2> QED BY <2>1
<1> QED BY <1>3 DEF S, LoopRun

-----------------------------------------------------------------------------
(* Fingerprints *)

USE SizesAssumption

\* x is the least of the Window hashes from place s on.
LeastFrom(hashes, s, x) ==
    /\ \E i \in s .. s + Window - 1 : hashes[i] = x
    /\ \A i \in s .. s + Window - 1 : x <= hashes[i]

\* A text of K words or more has one hash per shingle, in the order of the shingles.
LEMMA HashesOfShingles ==
    ASSUME NEW words \in Seq(Words), Len(words) >= K
    PROVE  /\ shingle_hashes(words, K) \in Seq(Nat)
           /\ Len(shingle_hashes(words, K)) = Len(words) - K + 1
           /\ \A i \in 1 .. Len(words) - K + 1 :
                  shingle_hashes(words, K)[i] = Hash(SubSeq(words, i, i + K - 1))
<1> DEFINE n == Len(words) - K + 1
           h == [i \in 1 .. n |-> Hash(SubSeq(words, i, i + K - 1))]
<1>1. shingle_hashes(words, K) = h
  BY DEF shingle_hashes
<1>2. \A i \in 1 .. n : SubSeq(words, i, i + K - 1) \in [1 .. K -> Words]
  <2> TAKE i \in 1 .. n
  <2>1. \A j \in i .. i + K - 1 : j \in 1 .. Len(words)
    BY LenProperties
  <2>4. \A j \in i .. i + K - 1 : words[j] \in Words
    BY <2>1, ElementOfSeq
  <2>2. i \in Int /\ i + K - 1 \in Int /\ i <= i + K - 1
    OBVIOUS
  <2>3. SubSeq(words, i, i + K - 1) \in Seq(Words) /\ Len(SubSeq(words, i, i + K - 1)) = K
    BY <2>2, <2>4, SubSeqProperties
  <2> QED BY <2>3, LenProperties
<1>3. \A i \in 1 .. n : h[i] \in Nat
  <2>1. \A shingle \in [1 .. K -> Words] : Hash(shingle) \in Nat
    BY HashAssumption
  <2> QED BY <1>2, <2>1
<1>4. n \in Nat
  OBVIOUS
<1> HIDE DEF n
<1>5. h \in [1 .. n -> Nat]
  BY <1>3
<1> HIDE DEF h
<1>6. h \in Seq(Nat) /\ Len(h) = n
  BY <1>4, <1>5
<1> QED BY <1>1, <1>6 DEF n, h

\* MinimumAt returns a place of the window, and the hash there is the least of the window.
LEMMA MinimumAtIsLeast ==
    ASSUME NEW hashes \in Seq(Nat), NEW s \in 1 .. Len(hashes) - Window + 1
    PROVE  LeastFrom(hashes, s, hashes[MinimumAt(hashes, s, Window)])
<1> DEFINE places == s .. s + Window - 1
           values == {hashes[i] : i \in places}
           best == {i \in places : hashes[i] = Min(values)}
<1>1. \A i \in places : i \in 1 .. Len(hashes) /\ hashes[i] \in Nat
  OBVIOUS
<1>2. values \in SUBSET Nat /\ values # {}
  <2>1. s \in places
    OBVIOUS
  <2> QED BY <1>1, <2>1
<1>3. Min(values) \in values /\ \A x \in values : Min(values) <= x
  BY <1>2, MinIsLeast
<1>4. best # {} /\ best \in SUBSET (0 .. Len(hashes))
  <2>1. PICK i \in places : hashes[i] = Min(values)
    BY <1>3
  <2>2. \A j \in places : j \in 0 .. Len(hashes)
    BY <1>1
  <2> QED BY <2>1, <2>2
<1>5. Max(best) \in best
  BY <1>4, MaxIsGreatest, Len(hashes) \in Nat
<1>6. MinimumAt(hashes, s, Window) = Max(best)
  BY DEF MinimumAt
<1> QED BY <1>3, <1>5, <1>6 DEF LeastFrom

\* Of a sequence that fills a window, winnowing keeps the least hash of every window.
LEMMA WinnowKeepsTheLeast ==
    ASSUME NEW hashes \in Seq(Nat), Len(hashes) >= Window
    PROVE  \A x : x \in winnow(hashes, Window) <=>
                      \E s \in 1 .. Len(hashes) - Window + 1 : LeastFrom(hashes, s, x)
<1> DEFINE starts == 1 .. Len(hashes) - Window + 1
           kept(s) == hashes[MinimumAt(hashes, s, Window)]
<1>1. \A s \in starts : LeastFrom(hashes, s, kept(s))
  BY MinimumAtIsLeast
<1>2. ASSUME NEW s \in starts, NEW x, LeastFrom(hashes, s, x) PROVE x = kept(s)
  <2>1. PICK y : y = kept(s)
    OBVIOUS
  <2>2. LeastFrom(hashes, s, y)
    BY <1>1, <2>1
  <2>3. \A i \in s .. s + Window - 1 : hashes[i] \in Nat
    OBVIOUS
  <2>4. x \in Nat /\ y \in Nat /\ x <= y /\ y <= x
    BY <1>2, <2>2, <2>3 DEF LeastFrom
  <2>5. x = y
    BY <2>4
  <2> QED BY <2>1, <2>5
<1>3. hashes # <<>>
  OBVIOUS
<1>4. CASE Len(hashes) > Window
  BY <1>1, <1>2, <1>3, <1>4 DEF winnow, Starts
<1>5. CASE Len(hashes) = Window
  <2> DEFINE values == {hashes[i] : i \in DOMAIN hashes}
  <2>1. DOMAIN hashes = 1 .. Window /\ starts = {1}
    BY <1>5
  <2>2. values \in SUBSET Nat /\ values # {}
    <3>1. 1 \in 1 .. Window /\ \A i \in 1 .. Window : hashes[i] \in Nat
      BY <1>5
    <3> QED BY <2>1, <3>1
  <2>3. LeastFrom(hashes, 1, Min(values))
    <3>1. Min(values) \in values /\ \A x \in values : Min(values) <= x
      BY <2>2, MinIsLeast
    <3>2. 1 + Window - 1 = Window
      OBVIOUS
    <3>3. \A i \in 1 .. Window : hashes[i] \in values
      BY <2>1
    <3>4. \E i \in 1 .. Window : hashes[i] = Min(values)
      BY <2>1, <3>1
    <3> HIDE DEF values
    <3> QED BY <3>1, <3>2, <3>3, <3>4 DEF LeastFrom
  <2>4. winnow(hashes, Window) = {Min(values)}
    BY <1>3, <1>5 DEF winnow
  <2> QED BY <1>1, <1>2, <2>1, <2>3, <2>4
<1>6. Len(hashes) \in Nat
  OBVIOUS
<1> QED BY <1>4, <1>5, <1>6

\* A sequence of hashes that fills a window has a fingerprint, and a finite one.
LEMMA WinnowIsFinite ==
    ASSUME NEW hashes \in Seq(Nat), Len(hashes) >= Window
    PROVE  winnow(hashes, Window) # {} /\ IsFiniteSet(winnow(hashes, Window))
<1>1. 1 \in 1 .. Len(hashes) - Window + 1
  OBVIOUS
<1>2. winnow(hashes, Window) # {}
  BY <1>1, MinimumAtIsLeast, WinnowKeepsTheLeast
<1> DEFINE places == 1 .. Len(hashes)
           image == {hashes[i] : i \in places}
           place == [i \in places |-> hashes[i]]
<1>3. IsFiniteSet(image)
  <2>1. place \in Surjection(places, image)
    BY DEF Surjection
  <2>2. IsFiniteSet(places)
    BY FS_Interval
  <2> QED BY <2>1, <2>2, FS_Surjection
<1>4. \A x \in winnow(hashes, Window) : x \in image
  <2> TAKE x \in winnow(hashes, Window)
  <2>1. PICK s \in 1 .. Len(hashes) - Window + 1 : LeastFrom(hashes, s, x)
    BY WinnowKeepsTheLeast
  <2>2. \A i \in s .. s + Window - 1 : i \in places
    OBVIOUS
  <2> QED BY <2>1, <2>2 DEF LeastFrom
<1> QED BY <1>2, <1>3, <1>4, FS_Subset

\* The n words of u from a on are the n words of v from b on.
SharedRun(u, a, v, b, n) ==
    /\ n \in Nat /\ n >= K
    /\ a \in 1 .. Len(u) - n + 1 /\ b \in 1 .. Len(v) - n + 1
    /\ SubSeq(u, a, a + n - 1) = SubSeq(v, b, b + n - 1)

\* A run that two texts have in common has the same hashes in both.
LEMMA SameRunSameHashes ==
    ASSUME NEW u \in Seq(Words), NEW v \in Seq(Words), NEW n, NEW a, NEW b,
           SharedRun(u, a, v, b, n)
    PROVE  \A j \in 0 .. n - K :
               shingle_hashes(u, K)[a + j] = shingle_hashes(v, K)[b + j]
<1> TAKE j \in 0 .. n - K
<1>s. /\ n \in Nat /\ n >= K
      /\ a \in 1 .. Len(u) - n + 1 /\ b \in 1 .. Len(v) - n + 1
      /\ SubSeq(u, a, a + n - 1) = SubSeq(v, b, b + n - 1)
  BY DEF SharedRun
<1>1. /\ SubSeq(SubSeq(u, a, a + n - 1), j + 1, j + K) = SubSeq(u, a + j, a + j + K - 1)
      /\ SubSeq(SubSeq(v, b, b + n - 1), j + 1, j + K) = SubSeq(v, b + j, b + j + K - 1)
  <2>1. /\ a \in 1 .. Len(u) /\ a + n - 1 \in 1 .. Len(u)
        /\ b \in 1 .. Len(v) /\ b + n - 1 \in 1 .. Len(v)
        /\ j + 1 \in 1 .. n /\ j + K \in 1 .. n
        /\ (a + n - 1) - a + 1 = n /\ (b + n - 1) - b + 1 = n
        /\ a + (j + 1) - 1 = a + j /\ a + (j + K) - 1 = a + j + K - 1
        /\ b + (j + 1) - 1 = b + j /\ b + (j + K) - 1 = b + j + K - 1
    BY <1>s
  <2>2. SubSeq(SubSeq(u, a, a + n - 1), j + 1, j + K)
          = SubSeq(u, a + (j + 1) - 1, a + (j + K) - 1)
    BY <1>s, <2>1, SubSeqOfSubSeq
  <2>3. SubSeq(SubSeq(v, b, b + n - 1), j + 1, j + K)
          = SubSeq(v, b + (j + 1) - 1, b + (j + K) - 1)
    BY <1>s, <2>1, SubSeqOfSubSeq
  <2> QED BY <2>1, <2>2, <2>3
<1>2. /\ a + j \in 1 .. Len(u) - K + 1 /\ b + j \in 1 .. Len(v) - K + 1
      /\ Len(u) >= K /\ Len(v) >= K
  BY <1>s
<1> QED BY <1>s, <1>1, <1>2, HashesOfShingles

\* SharedRunIsFound: winnowing finds every run of K + Window - 1 words, for any hash, any
\* sizes and any two texts.
LEMMA CommonRunIsFound ==
    ASSUME NEW u \in Seq(Words), NEW v \in Seq(Words),
           RunsOf(u, K + Window - 1) \cap RunsOf(v, K + Window - 1) # {}
    PROVE  fingerprint(u) \cap fingerprint(v) # {}
<1> DEFINE hu == shingle_hashes(u, K)
           hv == shingle_hashes(v, K)
<1>n. PICK n : n = K + Window - 1
  OBVIOUS
<1>1. PICK a \in 1 .. Len(u) - n + 1, b \in 1 .. Len(v) - n + 1 :
          SubSeq(u, a, a + n - 1) = SubSeq(v, b, b + n - 1)
  BY <1>n DEF RunsOf
<1>2. /\ n \in Nat /\ n >= K /\ n - K = Window - 1
      /\ Len(u) \in Nat /\ Len(u) >= n /\ Len(v) \in Nat /\ Len(v) >= n
      /\ Len(u) - K + 1 - Window + 1 = Len(u) - n + 1
      /\ Len(v) - K + 1 - Window + 1 = Len(v) - n + 1
  BY <1>n
<1>3. \A j \in 0 .. Window - 1 : hu[a + j] = hv[b + j]
  <2> HIDE DEF hu, hv
  <2>0. \A j \in 0 .. n - K : shingle_hashes(u, K)[a + j] = shingle_hashes(v, K)[b + j]
    <3>1. SharedRun(u, a, v, b, n)
      BY <1>1, <1>2 DEF SharedRun
    <3> QED BY <3>1, SameRunSameHashes
  <2>1. \A j \in 0 .. n - K : hu[a + j] = hv[b + j]
    BY <2>0 DEF hu, hv
  <2> QED BY <1>2, <2>1
<1>4. /\ hu \in Seq(Nat) /\ Len(hu) = Len(u) - K + 1
      /\ hv \in Seq(Nat) /\ Len(hv) = Len(v) - K + 1
  BY <1>2, HashesOfShingles
<1> HIDE DEF hu, hv
<1>5. /\ a \in 1 .. Len(hu) - Window + 1 /\ Len(hu) >= Window
      /\ b \in 1 .. Len(hv) - Window + 1 /\ Len(hv) >= Window
  <2>1. Len(hu) - Window + 1 = Len(u) - n + 1 /\ Len(hv) - Window + 1 = Len(v) - n + 1
    BY <1>2, <1>4
  <2>2. Len(hu) >= Window
    BY <1>2, <1>4
  <2>3. Len(hv) >= Window
    BY <1>2, <1>4
  <2> QED BY <2>1, <2>2, <2>3
<1>6. PICK x : LeastFrom(hu, a, x)
  BY <1>4, <1>5, MinimumAtIsLeast
<1>7. LeastFrom(hv, b, x)
  <2>1. \A j \in 0 .. Window - 1 : x <= hu[a + j]
    BY <1>6 DEF LeastFrom
  <2>2. \A i \in b .. b + Window - 1 : i - b \in 0 .. Window - 1 /\ b + (i - b) = i
    OBVIOUS
  <2>3. PICK i \in a .. a + Window - 1 : hu[i] = x
    BY <1>6 DEF LeastFrom
  <2>4. i - a \in 0 .. Window - 1 /\ a + (i - a) = i /\ b + (i - a) \in b .. b + Window - 1
    OBVIOUS
  <2>5. hv[b + (i - a)] = x
    BY <1>3, <2>3, <2>4
  <2> QED BY <1>3, <2>1, <2>2, <2>4, <2>5 DEF LeastFrom
<1>8. x \in winnow(hu, Window) /\ x \in winnow(hv, Window)
  BY <1>4, <1>5, <1>6, <1>7, WinnowKeepsTheLeast
<1> QED BY <1>8 DEF fingerprint, hu, hv

\* The fingerprint of an excerpt that fills a window is part of that of the whole text.
LEMMA ExcerptsShare ==
    ASSUME NEW u \in Seq(Words), NEW v \in Seq(Words), HasExcerpt(u, v),
           Len(v) >= K + Window - 1
    PROVE  fingerprint(v) \subseteq fingerprint(u)
<1> DEFINE hu == shingle_hashes(u, K)
           hv == shingle_hashes(v, K)
<1>n. PICK n : n = Len(v)
  OBVIOUS
<1>1. PICK a \in 1 .. Len(u) - n + 1 : SubSeq(u, a, a + n - 1) = v
  BY <1>n DEF HasExcerpt, RunsOf
<1>3. /\ n \in Nat /\ n >= K /\ n - K >= Window - 1 /\ 1 \in 1 .. Len(v) - n + 1
      /\ Len(u) \in Nat /\ Len(u) >= n /\ 1 + n - 1 = n
  BY <1>n
<1>2. SubSeq(u, a, a + n - 1) = SubSeq(v, 1, 1 + n - 1)
  <2>1. SubSeq(v, 1, Len(v)) = v
    BY SubSeqFull
  <2> QED BY <1>n, <1>1, <1>3, <2>1
<1>4. \A j \in 0 .. n - K : hu[a + j] = hv[1 + j]
  <2>1. PICK b : b = 1
    OBVIOUS
  <2>2. SharedRun(u, a, v, b, n)
    BY <1>2, <1>3, <2>1 DEF SharedRun
  <2> HIDE DEF hu, hv
  <2>3. \A j \in 0 .. n - K : shingle_hashes(u, K)[a + j] = shingle_hashes(v, K)[b + j]
    BY <2>2, SameRunSameHashes
  <2> QED BY <2>1, <2>3 DEF hu, hv
<1>5. /\ hu \in Seq(Nat) /\ Len(hu) = Len(u) - K + 1
      /\ hv \in Seq(Nat) /\ Len(hv) = n - K + 1
  BY <1>n, <1>3, HashesOfShingles
<1> HIDE DEF hu, hv
<1>7. Len(hv) >= Window
  <2>1. PICK p : p = Len(hv)
    OBVIOUS
  <2> QED BY <1>3, <1>5, <2>1
<1>6. ASSUME NEW x \in winnow(hv, Window) PROVE x \in winnow(hu, Window)
  <2>1. PICK s \in 1 .. Len(hv) - Window + 1 : LeastFrom(hv, s, x)
    BY <1>5, <1>7, WinnowKeepsTheLeast
  <2>2. /\ a + s - 1 \in 1 .. Len(hu) - Window + 1 /\ Len(hu) >= Window
        /\ \A i \in a + s - 1 .. a + s - 1 + Window - 1 :
              /\ i - a \in 0 .. n - K /\ a + (i - a) = i
              /\ 1 + (i - a) \in s .. s + Window - 1
        /\ \A i \in s .. s + Window - 1 :
              /\ i - 1 \in 0 .. n - K /\ 1 + (i - 1) = i
              /\ a + (i - 1) \in a + s - 1 .. a + s - 1 + Window - 1
    <3>1. PICK p : p = Len(hv) - Window + 1
      OBVIOUS
    <3>2. /\ p = n - K + 1 - Window + 1 /\ p \in Nat /\ s \in 1 .. p
          /\ Len(hu) = Len(u) - K + 1
      BY <1>3, <1>5, <3>1
    <3> QED BY <1>3, <3>2
  <2>3. LeastFrom(hu, a + s - 1, x)
    <3>1. PICK i \in s .. s + Window - 1 : hv[i] = x
      BY <2>1 DEF LeastFrom
    <3>2. hu[a + (i - 1)] = x
      BY <1>4, <2>2, <3>1
    <3>3. ASSUME NEW k \in a + s - 1 .. a + s - 1 + Window - 1 PROVE x <= hu[k]
      <4>1. hu[k] = hv[1 + (k - a)]
        BY <1>4, <2>2
      <4> QED BY <2>1, <2>2, <4>1 DEF LeastFrom
    <3> QED BY <2>2, <3>1, <3>2, <3>3 DEF LeastFrom
  <2> QED BY <1>5, <2>2, <2>3, WinnowKeepsTheLeast
<1> QED BY <1>6 DEF fingerprint, hu, hv

\* The ratio of an overlap that is all of one of the two sides is 100 or more.
LEMMA FullOverlap ==
    ASSUME NEW c \in Nat \ {0}, NEW m \in Nat \ {0}
    PROVE  /\ Ratio(c, c, m) \in Nat /\ Ratio(c, c, m) >= 100
           /\ Ratio(c, m, c) \in Nat /\ Ratio(c, m, c) >= 100
<1>1. (100 * c) \div c = 100
  OBVIOUS
<1>2. PICK q : q = (100 * c) \div m
  OBVIOUS
<1>3. q \in Nat
  BY <1>2
<1> DEFINE larger == Max({100, q})
<1>4. larger \in {100, q} /\ \A x \in {100, q} : x <= larger
  <2>1. 100 + q \in Nat /\ {100, q} \in SUBSET (0 .. 100 + q)
    BY <1>3
  <2> QED BY <2>1, MaxIsGreatest
<1>5. Ratio(c, c, m) = larger /\ Ratio(c, m, c) = larger
  <2>1. {100, q} = {q, 100}
    OBVIOUS
  <2> QED BY <1>1, <1>2, <2>1 DEF Ratio
<1> HIDE DEF larger
<1> QED BY <1>3, <1>4, <1>5

\* A document that is printed whole, or of which a part is printed that fills a window, is
\* found in the corpus.
LEMMA ContainedIsMatched ==
    ASSUME NEW u \in Seq(Words), NEW v \in Seq(Words),
           Len(u) >= K + Window - 1, Len(v) >= K + Window - 1,
           HasExcerpt(u, v) \/ HasExcerpt(v, u)
    PROVE  match_fingerprints(u, [d \in {"registered"} |-> register_document(v, TRUE)]) # {}
<1> DEFINE query == fingerprint(u)
           known == fingerprint(v)
           shared == query \cap known
           corpus == [d \in {"registered"} |-> register_document(v, TRUE)]
<1>1. ASSUME NEW w \in Seq(Words), Len(w) >= K + Window - 1
      PROVE  fingerprint(w) # {} /\ IsFiniteSet(fingerprint(w))
  <2>1. /\ Len(w) >= K
        /\ shingle_hashes(w, K) \in Seq(Nat) /\ Len(shingle_hashes(w, K)) = Len(w) - K + 1
    BY <1>1, HashesOfShingles
  <2>2. Len(shingle_hashes(w, K)) >= Window
    BY <1>1, <2>1
  <2> QED BY <2>1, <2>2, WinnowIsFinite DEF fingerprint
<1>2. /\ query # {} /\ IsFiniteSet(query)
      /\ known # {} /\ IsFiniteSet(known)
  BY <1>1
<1>3. shared = query \/ shared = known
  BY ExcerptsShare
<1> HIDE DEF query, known
<1>4. Cardinality(query) \in Nat \ {0} /\ Cardinality(known) \in Nat \ {0}
  BY <1>2, FS_CardinalityType, FS_EmptySet
<1>5. PICK r : r = Ratio(Cardinality(shared), Cardinality(query), Cardinality(known))
  OBVIOUS
<1>6. Cardinality(shared) > 0 /\ r >= Threshold
  <2>1. CASE shared = query
    <3>1. r \in Nat /\ r >= 100
      BY <1>4, <1>5, <2>1, FullOverlap
    <3>2. Cardinality(shared) = Cardinality(query)
      BY <2>1
    <3> HIDE DEF shared
    <3> QED BY <1>4, <3>1, <3>2
  <2>2. CASE shared = known
    <3>1. r \in Nat /\ r >= 100
      BY <1>4, <1>5, <2>2, FullOverlap
    <3>2. Cardinality(shared) = Cardinality(known)
      BY <2>2
    <3> HIDE DEF shared
    <3> QED BY <1>4, <3>1, <3>2
  <2> QED BY <1>3, <2>1, <2>2
<1>7. /\ "registered" \in DOMAIN corpus /\ corpus["registered"].hashes = known
      /\ corpus["registered"].shingle_count = Cardinality(known) /\ corpus["registered"].enabled
  BY DEF register_document, known
<1> HIDE DEF corpus
<1>8. "registered" \in match_fingerprints(u, corpus)
  BY <1>5, <1>6, <1>7 DEF match_fingerprints, query
<1> QED BY <1>8 DEF corpus

-----------------------------------------------------------------------------
(* The theorems on fingerprints *)

\* The case that is looked at is one of those given, and stays so.
LEMMA CasesStay == Spec => [](case \in Cases)
<1>1. Init => case \in Cases
  BY DEF Init
<1>2. case \in Cases /\ [Evaluate]_vars => (case \in Cases)'
  BY DEF Evaluate, vars
<1> QED BY <1>1, <1>2, PTL DEF Spec

\* SharedRunIsFound, the winnowing guarantee, holds for every hash, shingle, window and text.
THEOREM SharedRunsAreFound == Spec => []SharedRunIsFound
<1>1. case \in Cases => SharedRunIsFound
  <2> SUFFICES ASSUME case \in Cases, case.kind = "texts",
                      RunsOf(case.first, K + Window - 1) \cap RunsOf(case.second, K + Window - 1) # {}
               PROVE  fingerprint(case.first) \cap fingerprint(case.second) # {}
    BY DEF SharedRunIsFound
  <2>1. case.first \in Seq(Words) /\ case.second \in Seq(Words)
    BY InputsAssumption DEF Cases
  <2> QED BY <2>1, CommonRunIsFound
<1> QED BY <1>1, CasesStay, PTL

\* ExcerptIsMatched holds for every hash, shingle, window, threshold and text: an excerpt of
\* a registered document, or a text around one, is caught.
THEOREM ExcerptsAreMatched == Spec => []ExcerptIsMatched
<1>1. case \in Cases => ExcerptIsMatched
  <2> SUFFICES ASSUME case \in Cases, case.kind = "texts",
                      HasExcerpt(case.first, case.second) \/ HasExcerpt(case.second, case.first),
                      ~(Len(case.first) < K + Window - 1), ~(Len(case.second) < K + Window - 1)
               PROVE  match_fingerprints(case.first,
                          [d \in {"registered"} |-> register_document(case.second, TRUE)]) # {}
    BY DEF ExcerptIsMatched
  <2>1. case.first \in Seq(Words) /\ case.second \in Seq(Words)
    BY InputsAssumption DEF Cases
  <2>2. Len(case.first) >= K + Window - 1 /\ Len(case.second) >= K + Window - 1
    BY <2>1
  <2> QED BY <2>1, <2>2, ContainedIsMatched
<1> QED BY <1>1, CasesStay, PTL

-----------------------------------------------------------------------------
(* Rules *)

Rule  == [validator : BOOLEAN, weight : Int, base : Int, boost : Int,
          required : BOOLEAN, threshold : Int, min_count : Int]
Found == [valid : BOOLEAN, near : BOOLEAN]
Best  == [count : Nat, score : Nat, sample : Nat]

\* Those of the first n matches that qualify.
Survivors(rule, founds, n) ==
    {i \in 1 .. n : Passes(rule, founds[i]) /\ Score(rule, founds[i]) >= rule.threshold}

\* What the loop knows of the first n matches.
JudgedSoFar(rule, founds, best, n) ==
    /\ best.count = Cardinality(Survivors(rule, founds, n))
    /\ \A i \in Survivors(rule, founds, n) : Score(rule, founds[i]) <= best.score
    /\ IF best.sample = 0 THEN best.score = 0
       ELSE /\ best.sample \in Survivors(rule, founds, n)
            /\ Score(rule, founds[best.sample]) = best.score
            /\ \A i \in Survivors(rule, founds, n) :
                 i < best.sample => Score(rule, founds[i]) < Score(rule, founds[best.sample])

LEMMA ScoreType ==
    ASSUME NEW rule \in Rule, NEW found \in Found
    PROVE  Score(rule, found) \in Int /\ Passes(rule, found) \in BOOLEAN
BY DEF Score, Passes, Rule, Found

\* One turn of the loop keeps what it knows, now of one match more.
LEMMA JudgedOnce ==
    ASSUME NEW rule \in Rule, NEW founds \in Seq(Found), NEW n \in 1 .. Len(founds),
           NEW best \in Best, JudgedSoFar(rule, founds, best, n - 1)
    PROVE  /\ Judged(rule, founds, best, n) \in Best
           /\ JudgedSoFar(rule, founds, Judged(rule, founds, best, n), n)
<1> DEFINE before == Survivors(rule, founds, n - 1)
           now == Survivors(rule, founds, n)
<1>1. PICK score : score = Score(rule, founds[n])
  OBVIOUS
<1>2. PICK next : next = Judged(rule, founds, best, n)
  OBVIOUS
<1>3. score \in Int /\ rule.threshold \in Int
  BY <1>1, ScoreType DEF Rule
<1>4. best.count \in Nat /\ best.score \in Nat /\ best.sample \in Nat
  BY DEF Best
<1>5. /\ IsFiniteSet(before) /\ n \notin before /\ before \subseteq 1 .. n - 1
      /\ \A i \in before : i \in Nat /\ i < n /\ Score(rule, founds[i]) \in Int
  <2>1. before \in SUBSET (1 .. n - 1) /\ n \in Int
    BY DEF Survivors
  <2>2. IsFiniteSet(1 .. n - 1)
    BY FS_Interval
  <2>3. IsFiniteSet(before)
    BY <2>1, <2>2, FS_Subset
  <2>4. \A i \in before : i \in 1 .. Len(founds)
    BY <2>1
  <2> QED BY <2>1, <2>3, <2>4, ScoreType
<1>6. CASE ~Passes(rule, founds[n]) \/ score < rule.threshold
  <2>1. next = best
    BY <1>1, <1>2, <1>6 DEF Judged
  <2>2. now = before
    <3>1. \A i \in 1 .. n : i = n \/ i \in 1 .. n - 1
      OBVIOUS
    <3>2. n \notin now
      BY <1>1, <1>3, <1>6 DEF Survivors
    <3>3. 1 .. n - 1 \subseteq 1 .. n
      OBVIOUS
    <3> QED BY <3>1, <3>2, <3>3 DEF Survivors
  <2> QED BY <1>2, <2>1, <2>2 DEF JudgedSoFar
<1>7. CASE Passes(rule, founds[n]) /\ score >= rule.threshold
  <2>1. next = [count  |-> best.count + 1,
                score  |-> IF score > best.score THEN score ELSE best.score,
                sample |-> IF score > best.score THEN n ELSE best.sample]
    BY <1>1, <1>2, <1>3, <1>7 DEF Judged
  <2>2. next \in Best
    BY <1>3, <1>4, <2>1 DEF Best
  <2>3. now = before \cup {n}
    <3>1. \A i \in 1 .. n : i = n \/ i \in 1 .. n - 1
      OBVIOUS
    <3>2. n \in now
      BY <1>1, <1>7 DEF Survivors
    <3>3. 1 .. n - 1 \subseteq 1 .. n
      OBVIOUS
    <3> QED BY <3>1, <3>2, <3>3 DEF Survivors
  <2>4. Cardinality(now) = Cardinality(before) + 1
    BY <1>5, <2>3, FS_AddElement
  <2>5. /\ best.count = Cardinality(before)
        /\ \A i \in before : Score(rule, founds[i]) <= best.score
        /\ best.sample = 0 => best.score = 0
        /\ best.sample # 0 =>
             /\ best.sample \in before /\ Score(rule, founds[best.sample]) = best.score
             /\ \A i \in before : i < best.sample =>
                  Score(rule, founds[i]) < Score(rule, founds[best.sample])
    BY DEF JudgedSoFar
  <2>6. next.count = Cardinality(now)
    BY <2>1, <2>4, <2>5
  <2> HIDE DEF before, now
  <2>7. CASE score > best.score
    <3>1. next.score = score /\ next.sample = n /\ n # 0
      BY <2>1, <2>7
    <3>2. \A i \in now : i = n \/ (i \in before /\ Score(rule, founds[i]) < score)
      <4>1. ASSUME NEW i \in before PROVE Score(rule, founds[i]) < score
        <5>1. PICK s : s = Score(rule, founds[i])
          OBVIOUS
        <5> QED BY <1>3, <1>4, <1>5, <2>5, <2>7, <5>1
      <4> QED BY <2>3, <4>1
    <3>3. \A i \in now : Score(rule, founds[i]) <= score
      <4>1. ASSUME NEW i \in now PROVE Score(rule, founds[i]) <= score
        <5>1. CASE i = n
          <6>1. Score(rule, founds[i]) = score
            BY <1>1, <5>1
          <6> QED BY <1>3, <6>1
        <5>2. CASE i \in before
          <6>1. PICK s : s = Score(rule, founds[i])
            OBVIOUS
          <6> QED BY <1>3, <1>5, <3>2, <5>2, <6>1
        <5> QED BY <3>2, <5>1, <5>2
      <4> QED BY <4>1
    <3>4. \A i \in now : i < n => Score(rule, founds[i]) < score
      BY <3>2, n \in Int
    <3>5. n \in now
      BY <2>3
    <3> QED BY <1>1, <1>2, <2>2, <2>6, <3>1, <3>3, <3>4, <3>5 DEF JudgedSoFar, now
  <2>8. CASE ~(score > best.score)
    <3>1. next.score = best.score /\ next.sample = best.sample
      BY <2>1, <2>8
    <3>2. \A i \in now : Score(rule, founds[i]) <= best.score
      <4>1. score <= best.score
        BY <1>3, <1>4, <2>8
      <4>2. ASSUME NEW i \in now PROVE Score(rule, founds[i]) <= best.score
        <5>1. CASE i = n
          <6>1. Score(rule, founds[i]) = score
            BY <1>1, <5>1
          <6> QED BY <4>1, <6>1
        <5> QED BY <2>3, <2>5, <5>1
      <4> QED BY <4>2
    <3>3. best.sample # 0 => \A i \in now : i < best.sample => i \in before
      <4>1. ASSUME best.sample # 0 PROVE ~(n < best.sample)
        <5>1. best.sample \in before
          BY <2>5, <4>1
        <5>2. \A i \in before : ~(n < i)
          <6>1. \A i \in before : i \in Nat /\ i < n
            BY <1>5
          <6> QED BY <6>1
        <5> QED BY <5>1, <5>2, Zenon
      <4> QED BY <2>3, <4>1
    <3>4. IF next.sample = 0 THEN next.score = 0
          ELSE /\ next.sample \in now
               /\ Score(rule, founds[next.sample]) = next.score
               /\ \A i \in now : i < next.sample =>
                    Score(rule, founds[i]) < Score(rule, founds[next.sample])
      <4>1. CASE best.sample = 0
        BY <2>5, <3>1, <4>1
      <4>2. CASE best.sample # 0
        <5>1. best.sample \in now
          BY <2>3, <2>5, <4>2
        <5> QED BY <2>5, <3>1, <3>3, <4>2, <5>1
      <4> QED BY <4>1, <4>2
    <3> QED BY <1>2, <2>2, <2>6, <3>1, <3>2, <3>4 DEF JudgedSoFar, now
  <2> QED BY <2>7, <2>8
<1>8. Passes(rule, founds[n]) \in BOOLEAN
  BY ScoreType
<1> QED BY <1>1, <1>3, <1>6, <1>7, <1>8

\* The loop ends with what it should know of all the matches.
LEMMA JudgeIsRight ==
    ASSUME NEW rule \in Rule, NEW founds \in Seq(Found)
    PROVE  JudgedSoFar(rule, founds, Judge(rule, founds), Len(founds))
<1> DEFINE N == Len(founds)
           none == [count |-> 0, score |-> 0, sample |-> 0]
           body(f) == [n \in 0 .. N |-> IF n = 0 THEN none
                                       ELSE Judged(rule, founds, f[n - 1], n)]
           step == [n \in 1 .. N |-> [best \in Best |->
                      IF Judged(rule, founds, best, n) \in Best
                      THEN Judged(rule, founds, best, n) ELSE best]]
<1>1. N \in Nat
  OBVIOUS
<1>2. none \in Best
  BY DEF Best
<1>3. step \in Turns(N, Best)
  BY DEF Turns
<1> HIDE DEF step, none, N
<1>0. PICK f : LoopRun(f, N, Best, none, step)
  BY <1>1, <1>2, <1>3, LoopRuns
<1>4. /\ f \in [0 .. N -> Best] /\ f[0] = none
      /\ \A n \in 1 .. N : f[n] = step[n][f[n - 1]]
  BY <1>0 DEF LoopRun
<1>5. JudgedSoFar(rule, founds, f[0], 0)
  <2>1. Survivors(rule, founds, 0) = {}
    BY DEF Survivors
  <2>2. f[0].count = 0 /\ f[0].score = 0 /\ f[0].sample = 0
    BY <1>4 DEF none
  <2> QED BY <2>1, <2>2, FS_EmptySet DEF JudgedSoFar
<1>6. ASSUME NEW n \in 1 .. N, JudgedSoFar(rule, founds, f[n - 1], n - 1)
      PROVE  f[n] = Judged(rule, founds, f[n - 1], n) /\ JudgedSoFar(rule, founds, f[n], n)
  <2>1. f[n - 1] \in Best /\ n \in 1 .. Len(founds)
    BY <1>1, <1>4 DEF N
  <2>2. /\ Judged(rule, founds, f[n - 1], n) \in Best
        /\ JudgedSoFar(rule, founds, Judged(rule, founds, f[n - 1], n), n)
    BY <1>6, <2>1, JudgedOnce
  <2>3. f[n] = Judged(rule, founds, f[n - 1], n)
    BY <1>4, <2>1, <2>2 DEF step
  <2> QED BY <2>2, <2>3
<1>7. \A n \in 0 .. N : JudgedSoFar(rule, founds, f[n], n)
  <2> DEFINE S == {n \in 0 .. N : JudgedSoFar(rule, founds, f[n], n)}
  <2>1. 0 \in S
    BY <1>1, <1>5
  <2>2. ASSUME NEW n \in 0 .. N - 1, n \in S PROVE n + 1 \in S
    <3>1. n + 1 \in 1 .. N /\ n + 1 \in 0 .. N /\ (n + 1) - 1 = n
      BY <1>1
    <3> QED BY <1>6, <2>2, <3>1
  <2> HIDE DEF S
  <2>3. \A n \in 0 .. N : n \in S
    BY <1>1, <2>1, <2>2, UpTo
  <2> QED BY <2>3 DEF S
<1>8. f = body(f)
  <2>1. ASSUME NEW n \in 0 .. N
        PROVE  f[n] = IF n = 0 THEN none ELSE Judged(rule, founds, f[n - 1], n)
    <3>1. n # 0 => n \in 1 .. N /\ n - 1 \in 0 .. N
      BY <1>1
    <3> QED BY <1>4, <1>6, <1>7, <3>1
  <2> QED BY <1>4, <2>1
<1> DEFINE after == CHOOSE g : g = body(g)
<1>9. after = body(after)
  BY <1>8
<1>10. \A n \in 0 .. N : after[n] = f[n]
  <2> DEFINE S == {n \in 0 .. N : after[n] = f[n]}
  <2>0. \A n \in 0 .. N : after[n] = IF n = 0 THEN none ELSE Judged(rule, founds, after[n - 1], n)
    <3> HIDE DEF after
    <3> QED BY <1>9
  <2> HIDE DEF after
  <2>1. 0 \in S
    BY <1>1, <1>4, <2>0
  <2>2. ASSUME NEW n \in 0 .. N - 1, n \in S PROVE n + 1 \in S
    <3>1. n + 1 \in 1 .. N /\ n + 1 \in 0 .. N /\ (n + 1) - 1 = n /\ n + 1 # 0
      BY <1>1
    <3> QED BY <1>6, <1>7, <2>0, <2>2, <3>1
  <2> HIDE DEF S
  <2>3. \A n \in 0 .. N : n \in S
    BY <1>1, <2>1, <2>2, UpTo
  <2> QED BY <2>3 DEF S
<1>11. Judge(rule, founds) = after[N]
  BY DEF Judge, none, N
<1> HIDE DEF after
<1>12. N \in 0 .. N
  BY <1>1
<1> QED BY <1>7, <1>10, <1>11, <1>12 DEF N

\* RuleFiresAsDocumented holds for every rule and every sequence of matches.
THEOREM RulesFireAsDocumented == Spec => []RuleFiresAsDocumented
<1>1. case \in Cases => RuleFiresAsDocumented
  <2> SUFFICES ASSUME case \in Cases, case.kind = "rule" PROVE RuleFiresAsDocumented
    BY DEF RuleFiresAsDocumented
  <2>1. PICK rule \in Rule, founds \in Seq(Found) : rule = case.rule /\ founds = case.founds
    BY InputsAssumption DEF Cases, Rule, Found
  <2>2. PICK best : best = Judge(rule, founds)
    OBVIOUS
  <2>3. JudgedSoFar(rule, founds, best, Len(founds))
    BY <2>2, JudgeIsRight
  <2>4. Survivors(rule, founds, Len(founds)) =
          {i \in DOMAIN founds : /\ rule.validator => founds[i].valid
                                 /\ rule.required => founds[i].near
                                 /\ Score(rule, founds[i]) >= rule.threshold}
    BY DEF Survivors, Passes
  <2>5. /\ evaluate_rule(rule, founds).best = best
        /\ evaluate_rule(rule, founds).fires = (best.count >= rule.min_count)
    <3>1. best.count \in Nat /\ rule.min_count \in Int
      <4>1. /\ IsFiniteSet(1 .. Len(founds))
            /\ Survivors(rule, founds, Len(founds)) \in SUBSET (1 .. Len(founds))
        BY FS_Interval DEF Survivors
      <4> QED BY <2>3, <4>1, FS_Subset, FS_CardinalityType DEF JudgedSoFar, Rule
    <3>2. CASE best.count < rule.min_count
      <4>1. evaluate_rule(rule, founds) = [fires |-> FALSE, best |-> best]
        BY <2>2, <3>2 DEF evaluate_rule
      <4>3. evaluate_rule(rule, founds).best = best /\ evaluate_rule(rule, founds).fires = FALSE
        BY <4>1
      <4>2. (best.count >= rule.min_count) = FALSE
        BY <3>1, <3>2
      <4> QED BY <4>2, <4>3, Zenon
    <3>3. CASE ~(best.count < rule.min_count)
      <4>1. evaluate_rule(rule, founds) = [fires |-> TRUE, best |-> best]
        BY <2>2, <3>3 DEF evaluate_rule
      <4>3. evaluate_rule(rule, founds).best = best /\ evaluate_rule(rule, founds).fires = TRUE
        BY <4>1
      <4>2. (best.count >= rule.min_count) = TRUE
        BY <3>1, <3>3
      <4> QED BY <4>2, <4>3, Zenon
    <3> QED BY <3>2, <3>3
  <2> QED BY <2>1, <2>3, <2>4, <2>5 DEF RuleFiresAsDocumented, JudgedSoFar
<1> QED BY <1>1, CasesStay, PTL

-----------------------------------------------------------------------------
(* Samples *)

\* A part of a sequence.
LEMMA PartOf ==
    ASSUME NEW S, NEW value \in Seq(S), NEW m \in Nat \ {0}, NEW n \in Nat,
           n <= Len(value), m <= n + 1
    PROVE  /\ SubSeq(value, m, n) \in Seq(S)
           /\ Len(SubSeq(value, m, n)) = n - m + 1
           /\ \A i \in 1 .. n - m + 1 : SubSeq(value, m, n)[i] = value[m + i - 1]
<1>1. Len(value) \in Nat
  BY LenProperties
<1>2. \A i \in m .. n : value[i] \in S
  <2> SUFFICES ASSUME NEW i \in m .. n PROVE value[i] \in S
    OBVIOUS
  <2>1. i \in 1 .. Len(value)
    BY <1>1
  <2> QED BY <2>1, ElementOfSeq
<1>3. m \in Int /\ n \in Int
  OBVIOUS
<1>4. /\ SubSeq(value, m, n) \in Seq(S)
      /\ Len(SubSeq(value, m, n)) = IF m <= n THEN n - m + 1 ELSE 0
      /\ \A i \in 1 .. n - m + 1 : SubSeq(value, m, n)[i] = value[m + i - 1]
  BY <1>2, <1>3, SubSeqProperties
<1>5. (IF m <= n THEN n - m + 1 ELSE 0) = n - m + 1
  OBVIOUS
<1> QED BY <1>4, <1>5

\* A row of stars.
LEMMA StarsAreStars ==
    ASSUME NEW n \in Nat
    PROVE  Stars(n) \in Seq(Nat) /\ Len(Stars(n)) = n /\ \A i \in 1 .. n : Stars(n)[i] = Star
<1>1. PICK stars : stars = [i \in 1 .. n |-> Star]
  OBVIOUS
<1>2. stars \in [1 .. n -> Nat] /\ \A i \in 1 .. n : stars[i] = Star
  BY <1>1 DEF Star
<1>3. stars \in Seq(Nat) /\ Len(stars) = n
  BY <1>2
<1> QED BY <1>1, <1>2, <1>3 DEF Stars

\* What stays visible of a sample that is long enough: the two ends, nothing between them.
LEMMA EndsAreShown ==
    ASSUME NEW value \in Seq(Nat), NEW front \in Nat, NEW back \in Nat,
           Len(value) > front + back
    PROVE  /\ mask(value, front, back) \in Seq(Nat)
           /\ Len(mask(value, front, back)) = Len(value)
           /\ \A i \in front + 1 .. Len(value) - back : mask(value, front, back)[i] = Star
<1>1. PICK n \in Nat : n = Len(value) /\ n > front + back
  BY LenProperties
<1>2. PICK k \in Nat : k = n - back
  <2>1. n - back \in Nat
    BY <1>1
  <2> QED BY <2>1
<1>3. PICK hidden \in Nat : hidden = n - front - back
  <2>1. n - front - back \in Nat
    BY <1>1
  <2> QED BY <2>1
<1>4. PICK head \in Seq(Nat) : head = Upto(value, front) /\ Len(head) = front
  <2>1. Bound(value, front) = front
    BY <1>1 DEF Bound
  <2>2. front <= n /\ 1 <= front + 1 /\ front - 1 + 1 = front /\ 1 \in Nat \ {0}
    BY <1>1
  <2>3. /\ SubSeq(value, 1, front) \in Seq(Nat)
        /\ Len(SubSeq(value, 1, front)) = front - 1 + 1
    <3>1. front <= Len(value)
      BY <1>1, <2>2
    <3> QED BY <2>2, <3>1, PartOf
  <2>4. Upto(value, front) = SubSeq(value, 1, front)
    BY <2>1 DEF Upto
  <2> QED BY <2>2, <2>3, <2>4
<1>5. PICK middle \in Seq(Nat) : /\ middle = Stars(hidden) /\ Len(middle) = hidden
                                 /\ \A i \in 1 .. hidden : middle[i] = Star
  BY StarsAreStars
<1>6. PICK tail \in Seq(Nat) : tail = From(value, k) /\ Len(tail) = back
  <2>1. Bound(value, k) = k
    BY <1>1, <1>2 DEF Bound
  <2>2. n <= Len(value) /\ k + 1 <= n + 1 /\ n - (k + 1) + 1 = back /\ k + 1 \in Nat \ {0}
    BY <1>1, <1>2
  <2>3. From(value, k) = SubSeq(value, k + 1, n)
    BY <1>1, <2>1 DEF From
  <2>4. PICK m \in Nat \ {0} : m = k + 1
    BY <2>2
  <2>5. n <= Len(value) /\ m <= n + 1 /\ n - m + 1 = back
    BY <2>2, <2>4
  <2>6. SubSeq(value, m, n) \in Seq(Nat) /\ Len(SubSeq(value, m, n)) = n - m + 1
    BY <2>5, PartOf
  <2> QED BY <2>3, <2>4, <2>5, <2>6
<1>7. mask(value, front, back) = (head \o middle) \o tail
  <2>1. ~TooShort(value, front, back)
    <3>1. ~(n <= front + back)
      BY <1>1
    <3> QED BY <1>1, <3>1 DEF TooShort
  <2>2. mask(value, front, back) =
          Upto(value, front) \o Stars(Len(value) - front - back) \o From(value, Len(value) - back)
    BY <2>1 DEF mask
  <2> QED BY <1>1, <1>2, <1>3, <1>4, <1>5, <1>6, <2>2
<1>8. PICK shown \in Seq(Nat) : shown = head \o middle
  BY ConcatProperties
<1>9. Len(shown) = front + hidden
  BY <1>4, <1>5, <1>8, ConcatProperties
<1>10. \A i \in front + 1 .. front + hidden : shown[i] = Star
  <2> SUFFICES ASSUME NEW i \in front + 1 .. front + hidden PROVE shown[i] = Star
    OBVIOUS
  <2>1. /\ i \in 1 .. Len(head) + Len(middle) /\ ~(i <= Len(head))
        /\ i - Len(head) \in 1 .. hidden
    BY <1>4, <1>5
  <2>2. (head \o middle)[i] = IF i <= Len(head) THEN head[i] ELSE middle[i - Len(head)]
    BY <2>1, ConcatProperties
  <2> QED BY <1>5, <1>8, <2>1, <2>2
<1>11. PICK masked \in Seq(Nat) : masked = shown \o tail
  BY ConcatProperties
<1>12. Len(masked) = Len(value)
  <2>1. Len(masked) = Len(shown) + Len(tail)
    BY <1>11, ConcatProperties
  <2> QED BY <1>1, <1>3, <1>6, <1>9, <2>1
<1>13. \A i \in front + 1 .. n - back : masked[i] = Star
  <2> SUFFICES ASSUME NEW i \in front + 1 .. n - back PROVE masked[i] = Star
    OBVIOUS
  <2>1. /\ i \in front + 1 .. front + hidden
        /\ i \in 1 .. Len(shown) + Len(tail) /\ i <= Len(shown)
    BY <1>1, <1>3, <1>6, <1>9
  <2>2. (shown \o tail)[i] = IF i <= Len(shown) THEN shown[i] ELSE tail[i - Len(shown)]
    BY <2>1, ConcatProperties
  <2> QED BY <1>10, <1>11, <2>1, <2>2
<1> QED BY <1>1, <1>7, <1>8, <1>11, <1>12, <1>13

\* MaskHides holds for every sample and all ends that are not negative: some character is
\* hidden, and no more characters are shown than the two ends have.
THEOREM MasksHide == Spec => []MaskHides
<1>1. case \in Cases => MaskHides
  <2> SUFFICES ASSUME case \in Cases, case.kind = "sample", case.front >= 0, case.back >= 0
               PROVE  MaskHides
    BY DEF MaskHides
  <2>1. PICK value \in Seq(Nat), front \in Nat, back \in Nat :
            value = case.sample /\ front = case.front /\ back = case.back
    <3>1. case.sample \in Seq(Nat \ {Star}) /\ case.front \in Int /\ case.back \in Int
      BY InputsAssumption DEF Cases
    <3>2. case.sample \in Seq(Nat)
      BY <3>1, SeqMonotonic
    <3> QED BY <3>1, <3>2
  <2>2. PICK masked : masked = mask(value, front, back)
    OBVIOUS
  <2> DEFINE shown == {i \in DOMAIN masked : masked[i] # Star}
  <2>3. SUFFICES /\ Len(masked) = Len(value)
                 /\ value # <<>> => shown # DOMAIN masked
                 /\ Cardinality(shown) <= front + back
    BY <2>1, <2>2 DEF MaskHides
  <2>4. Len(value) \in Nat /\ (value # <<>> => Len(value) > 0)
    OBVIOUS
  <2>5. CASE Len(value) <= front + back
    <3>1. masked = Stars(Len(value))
      BY <2>2, <2>5 DEF mask, TooShort
    <3>2. /\ masked \in Seq(Nat) /\ Len(masked) = Len(value)
          /\ \A i \in 1 .. Len(value) : masked[i] = Star
      BY <2>4, <3>1, StarsAreStars
    <3>3. DOMAIN masked = 1 .. Len(value)
      BY <3>2, LenProperties
    <3>4. shown = {}
      BY <3>2, <3>3
    <3>5. value # <<>> => DOMAIN masked # {}
      <4>1. value # <<>> => 1 \in 1 .. Len(value)
        BY <2>4
      <4> QED BY <3>3, <4>1
    <3>6. Cardinality(shown) = 0 /\ 0 <= front + back
      <4>1. Cardinality(shown) = 0
        BY <3>4, FS_EmptySet, Zenon
      <4> QED BY <4>1
    <3> QED BY <3>2, <3>4, <3>5, <3>6
  <2>6. CASE Len(value) > front + back
    <3>1. /\ masked \in Seq(Nat) /\ Len(masked) = Len(value)
          /\ \A i \in front + 1 .. Len(value) - back : masked[i] = Star
      BY <2>2, <2>6, EndsAreShown
    <3>2. DOMAIN masked = 1 .. Len(value)
      BY <3>1, LenProperties
    <3>3. front + 1 \in DOMAIN masked /\ front + 1 \notin shown
      BY <2>4, <2>6, <3>1, <3>2
    <3> DEFINE first == 1 .. front
               last == Len(value) - back + 1 .. Len(value)
    <3>4. shown \in SUBSET (first \cup last)
      BY <2>4, <3>1, <3>2
    <3>5. /\ IsFiniteSet(first) /\ Cardinality(first) = front
          /\ IsFiniteSet(last) /\ Cardinality(last) = back
      <4>1. PICK n \in Nat : n = Len(value) /\ n > front + back
        BY <2>4, <2>6
      <4>2. /\ IsFiniteSet(first) /\ Cardinality(first) = IF 1 > front THEN 0 ELSE front - 1 + 1
        BY FS_Interval
      <4>3. /\ IsFiniteSet(last)
            /\ Cardinality(last) = IF n - back + 1 > n THEN 0 ELSE n - (n - back + 1) + 1
        <5>1. n - back + 1 \in Int /\ n \in Int
          OBVIOUS
        <5>2. last = n - back + 1 .. n
          BY <4>1
        <5> QED BY <5>1, <5>2, FS_Interval
      <4>4. (IF 1 > front THEN 0 ELSE front - 1 + 1) = front
        OBVIOUS
      <4>5. (IF n - back + 1 > n THEN 0 ELSE n - (n - back + 1) + 1) = back
        OBVIOUS
      <4> QED BY <4>2, <4>3, <4>4, <4>5
    <3> HIDE DEF first, last
    <3>6. IsFiniteSet(first \cup last) /\ Cardinality(first \cup last) <= front + back
      <4>1. IsFiniteSet(first \cap last) /\ Cardinality(first \cap last) \in Nat
        BY <3>5, FS_Intersection, FS_CardinalityType
      <4>2. /\ IsFiniteSet(first \cup last)
            /\ Cardinality(first \cup last) =
                 Cardinality(first) + Cardinality(last) - Cardinality(first \cap last)
        BY <3>5, FS_Union
      <4> QED BY <3>5, <4>1, <4>2
    <3>7. Cardinality(shown) <= Cardinality(first \cup last)
      BY <3>4, <3>6, FS_Subset
    <3>8. Cardinality(shown) \in Nat /\ Cardinality(first \cup last) \in Nat
      BY <3>4, <3>6, FS_Subset, FS_CardinalityType
    <3>9. Cardinality(shown) <= front + back
      BY <3>6, <3>7, <3>8
    <3> QED BY <3>1, <3>3, <3>9
  <2> QED BY <2>4, <2>5, <2>6
<1> QED BY <1>1, CasesStay, PTL

-----------------------------------------------------------------------------
(* Formats *)

\* TextIsReadAsText holds for every document and every Sniffed.
THEOREM TextsAreReadAsText == Spec => []TextIsReadAsText
<1>1. case \in Cases => TextIsReadAsText
  <2> SUFFICES ASSUME case \in Cases, case.kind = "data" PROVE TextIsReadAsText
    BY DEF TextIsReadAsText
  <2>1. PICK data \in Seq(Unit) : data = case.data
    BY InputsAssumption DEF Cases
  <2>2. SUFFICES ASSUME \A i \in DOMAIN data : data[i] \in {"ascii", "lead", "tail"},
                        WellFormed(data),
                        ~(Len(data) > Sniffed /\ data[Sniffed] = "lead")
                 PROVE  sniff_format(data) = "text"
    BY <2>1 DEF TextIsReadAsText
  <2>3. PICK len \in Nat : len = Len(data)
    BY LenProperties
  <2>4. PICK n \in Nat : /\ n = Bound(data, Sniffed) /\ n <= len
                         /\ n = len \/ (n = Sniffed /\ len > Sniffed)
    BY <2>3, SniffedAssumption DEF Bound
  <2>5. PICK head : head = Upto(data, Sniffed)
    OBVIOUS
  <2>6. head \in Seq(Unit) /\ Len(head) = n /\ \A i \in 1 .. n : head[i] = data[i]
    <3>1. head = SubSeq(data, 1, n)
      BY <2>4, <2>5 DEF Upto
    <3>2. /\ SubSeq(data, 1, n) \in Seq(Unit) /\ Len(SubSeq(data, 1, n)) = n - 1 + 1
          /\ \A i \in 1 .. n - 1 + 1 : SubSeq(data, 1, n)[i] = data[1 + i - 1]
      BY <2>3, <2>4, PartOf
    <3>3. n - 1 + 1 = n /\ \A i \in 1 .. n : 1 + i - 1 = i
      OBVIOUS
    <3> QED BY <3>1, <3>2, <3>3
  <2>7. DOMAIN head = 1 .. n /\ DOMAIN data = 1 .. len
    BY <2>3, <2>6, LenProperties
  <2>8. \A i \in DOMAIN head : head[i] \in {"ascii", "lead", "tail"}
    BY <2>2, <2>4, <2>6, <2>7
  <2>9. Decodes(head)
    <3>1. ASSUME NEW i \in 1 .. n, head[i] = "lead" PROVE i < n /\ head[i + 1] = "tail"
      <4>1. i < len /\ data[i + 1] = "tail"
        BY <2>2, <2>3, <2>4, <2>6, <2>7, <3>1 DEF WellFormed
      <4>2. i # n
        BY <2>2, <2>3, <2>4, <2>6, <3>1, <4>1
      <4> QED BY <2>4, <2>6, <4>1, <4>2
    <3>2. ASSUME NEW i \in 1 .. n, head[i] = "tail" PROVE i > 1 /\ head[i - 1] = "lead"
      <4>1. i \in DOMAIN data /\ data[i] = "tail"
        BY <2>4, <2>6, <2>7, <3>2
      <4>2. i > 1 /\ data[i - 1] = "lead"
        BY <2>2, <4>1 DEF WellFormed
      <4>3. i - 1 \in 1 .. n
        BY <2>4, <4>2
      <4> QED BY <2>6, <4>2, <4>3
    <3> QED BY <2>6, <2>7, <2>8, <3>1, <3>2 DEF Decodes
  <2>10. head # <<>> => 1 \in DOMAIN head
    BY <2>6
  <2> QED BY <2>5, <2>8, <2>9, <2>10 DEF sniff_format
<1> QED BY <1>1, CasesStay, PTL

-----------------------------------------------------------------------------
(* Alerts *)

\* Only a job in none of these states, without a match, is reported clean.
LEMMA CleanMeans ==
    ASSUME NEW state, NEW matched, signature_for(state, matched) = "PRINT_CLEAN"
    PROVE  /\ state \notin {"failed_open", "released_then_flagged", "blocked", "held"}
           /\ ~matched
BY DEF signature_for

\* CleanInlineAlertNamesGaps holds for every document, policy and verdict.
THEOREM CleanInlineAlerts == Spec => []CleanInlineAlertNamesGaps
<1>1. case \in Cases => CleanInlineAlertNamesGaps
  <2> SUFFICES ASSUME case \in Cases, case.kind = "job",
                      NEW v \in V!Verdicts(case.doc, case.policy, TRUE),
                      signature_for(v.state, case.matched) = "PRINT_CLEAN",
                      v.tier \notin {"ocr_pending", "unreadable"}
               PROVE  case.doc.kind = "text" /\ ~case.doc.thin /\ v.kind = "inspected"
    BY DEF CleanInlineAlertNamesGaps
  <2>1. PICK doc \in V!Document, policy \in V!Policy :
            doc = case.doc /\ policy = case.policy /\ doc.kind # "oversize"
    BY InputsAssumption DEF Cases
  <2>2. v.state \notin {"failed_open", "released_then_flagged", "blocked", "held"}
    BY CleanMeans
  <2>3. CASE v = V!run_inspection(doc, policy) /\ doc.kind # "unreadable"
    <3>1. v.tier = (IF doc.thin THEN "ocr_pending" ELSE "text") /\ v.kind = "inspected"
      BY <2>3 DEF V!run_inspection
    <3>2. doc.kind \in {"text", "unreadable", "oversize"} /\ doc.thin \in BOOLEAN
      BY DEF V!Document
    <3> QED BY <2>1, <2>3, <3>1, <3>2
  <2>4. CASE v = V!unreadable(policy)
    <3>1. v.tier = "unreadable"
      BY <2>4 DEF V!unreadable
    <3> QED BY <3>1
  <2>5. CASE \E p \in V!Action : v = V!resolve_failure(policy, p)
    <3>1. PICK p \in V!Action : v = V!resolve_failure(policy, p)
      BY <2>5
    <3> DEFINE base == IF policy.fail_mode = "closed" THEN "hold" ELSE "log"
               worse == V!ACTION_RANK[p] > V!ACTION_RANK[base]
    <3>2. v.state = IF worse THEN V!state_for(p) ELSE V!failed_state(base)
      BY <3>1 DEF V!resolve_failure
    <3>3. V!failed_state(base) \in {"held", "failed_open"}
      BY DEF V!failed_state
    <3>4. worse => p \in {"hold", "block"}
      BY DEF V!ACTION_RANK, V!Action
    <3>5. p \in {"hold", "block"} => V!state_for(p) \in {"held", "blocked"}
      BY DEF V!state_for
    <3> QED BY <2>2, <3>2, <3>3, <3>4, <3>5
  <2>6. \/ v = V!run_inspection(doc, policy) /\ doc.kind # "unreadable"
        \/ v = V!unreadable(policy)
        \/ \E p \in V!Action : v = V!resolve_failure(policy, p)
    BY <2>1 DEF V!Verdicts, V!PartialHits, V!Action
  <2> QED BY <2>3, <2>4, <2>5, <2>6
<1> QED BY <1>1, CasesStay, PTL

\* Actions that restrict make no clean state.
LEMMA RestrictingStates ==
    ASSUME NEW a \in V!Action, V!Restricts(a)
    PROVE  V!state_for(a) \in {"held", "blocked"}
<1>1. a \in {"hold", "block"}
  BY DEF V!Restricts, V!ACTION_RANK, V!Action
<1> QED BY <1>1 DEF V!state_for

\* CleanScanAlertHidesNoHold holds for every document, policy, verdict and outcome of OCR.
THEOREM CleanScanAlerts == Spec => []CleanScanAlertHidesNoHold
<1>1. case \in Cases => CleanScanAlertHidesNoHold
  <2> SUFFICES ASSUME case \in Cases, case.kind = "job", case.doc.kind = "text",
                      NEW v \in V!Verdicts(case.doc, case.policy, TRUE),
                      NEW found \in V!OcrActions(case.doc), NEW state \in MetByScan(v.state),
                      signature_for(V!scanned_state(state, v.blocking, found),
                                    v.blocking \/ case.matched) = "PRINT_CLEAN"
               PROVE  /\ ~V!Restricts(found) /\ v.state # "failed_open"
                      /\ v.kind = "inspected" => ~V!MustHold(case.doc)
    BY DEF CleanScanAlertHidesNoHold
  <2>1. PICK doc \in V!Document : doc = case.doc /\ doc.kind = "text"
    BY InputsAssumption DEF Cases
  <2>2. /\ V!scanned_state(state, v.blocking, found)
               \notin {"failed_open", "released_then_flagged", "blocked", "held"}
        /\ ~v.blocking
    BY CleanMeans
  <2>3. found \in V!Action
    BY <2>1 DEF V!OcrActions, V!Stricter, V!Document, V!Action
  <2>4. ~V!Restricts(found)
    BY <2>2, <2>3, RestrictingStates DEF V!scanned_state
  <2>5. v.state # "failed_open"
    <3>1. SUFFICES ASSUME v.state = "failed_open" PROVE FALSE
      OBVIOUS
    <3>2. state = "failed_open"
      BY <3>1 DEF MetByScan
    <3> QED BY <2>2, <2>4, <3>2 DEF V!scanned_state
  <2>6. v.kind = "inspected" => ~V!MustHold(doc)
    <3>1. v = V!run_inspection(doc, case.policy) \/ \E p : v = V!resolve_failure(case.policy, p)
      BY <2>1 DEF V!Verdicts
    <3>2. CASE v = V!run_inspection(doc, case.policy)
      BY <2>2, <3>2 DEF V!run_inspection, V!MustHold
    <3>3. CASE \E p : v = V!resolve_failure(case.policy, p)
      BY <3>3 DEF V!resolve_failure
    <3> QED BY <3>1, <3>2, <3>3
  <2> QED BY <2>1, <2>4, <2>5, <2>6
<1> QED BY <1>1, CasesStay, PTL

-----------------------------------------------------------------------------
(* Escaping *)

\* What a text and its escaping are made of.
Mark == Characters \cup {"backslash", "equals", "bar", "newline", "space", "end"}

\* One more element at the end.
LEMMA OneMore ==
    ASSUME NEW S, NEW N \in Nat, NEW x \in Seq(S), Len(x) = N, NEW c \in S
    PROVE  /\ Append(x, c) \in Seq(S) /\ Len(Append(x, c)) = N + 1 /\ Append(x, c)[N + 1] = c
           /\ \A n \in 1 .. N : Append(x, c)[n] = x[n]
BY AppendProperties

\* The run of Replaced's recursion over text.
Replacing(f, text, char, by, N) ==
    /\ f \in [0 .. N -> Seq(Mark)] /\ f[0] = <<>>
    /\ \A n \in 1 .. N : f[n] = f[n - 1] \o (IF text[n] = char THEN by ELSE <<text[n]>>)

\* Replaced is the end of that run.
LEMMA ReplacedIsRun ==
    ASSUME NEW N \in Nat, NEW text \in Seq(Mark), Len(text) = N, NEW char, NEW by \in Seq(Mark)
    PROVE  \E f : Replacing(f, text, char, by, N) /\ Replaced(text, char, by) = f[N]
<1> DEFINE next(q, n) == q \o (IF text[n] = char THEN by ELSE <<text[n]>>)
           step == [n \in 1 .. N |-> [q \in Seq(Mark) |-> next(q, n)]]
           body(f) == [n \in 0 .. N |-> IF n = 0 THEN <<>> ELSE next(f[n - 1], n)]
<1>0. \A n \in 1 .. N : text[n] \in Mark
  BY ElementOfSeq
<1>1. ASSUME NEW n \in 1 .. N, NEW q \in Seq(Mark) PROVE next(q, n) \in Seq(Mark)
  <2>1. \A u \in Seq(Mark) : q \o u \in Seq(Mark)
    BY ConcatProperties
  <2>2. <<text[n]>> \in Seq(Mark)
    BY <1>0
  <2> QED BY <2>1, <2>2
<1> HIDE DEF next
<1>2. \A n \in 1 .. N, q \in Seq(Mark) : step[n][q] = next(q, n)
  OBVIOUS
<1>3. step \in Turns(N, Seq(Mark))
  BY <1>1 DEF Turns
<1> HIDE DEF step
<1>4. PICK f : LoopRun(f, N, Seq(Mark), <<>>, step)
  <2>1. <<>> \in Seq(Mark)
    BY EmptySeq
  <2> QED BY <1>3, <2>1, LoopRuns
<1>5. /\ f \in [0 .. N -> Seq(Mark)] /\ f[0] = <<>>
      /\ \A n \in 1 .. N : f[n] = next(f[n - 1], n)
  <2>1. /\ f \in [0 .. N -> Seq(Mark)] /\ f[0] = <<>>
        /\ \A n \in 1 .. N : f[n] = step[n][f[n - 1]]
    BY <1>4 DEF LoopRun
  <2>2. ASSUME NEW n \in 1 .. N PROVE f[n] = next(f[n - 1], n)
    <3>1. n - 1 \in 0 .. N
      OBVIOUS
    <3>2. f[n - 1] \in Seq(Mark)
      BY <2>1, <3>1
    <3> QED BY <1>2, <2>1, <3>2
  <2> QED BY <2>1, <2>2
<1>6. f = body(f)
  <2>1. ASSUME NEW n \in 0 .. N PROVE f[n] = IF n = 0 THEN <<>> ELSE next(f[n - 1], n)
    <3>1. n # 0 => n \in 1 .. N
      OBVIOUS
    <3> QED BY <1>5, <3>1
  <2> QED BY <1>5, <2>1
<1> DEFINE upto == CHOOSE g : g = body(g)
<1>7. upto = body(upto)
  BY <1>6
<1>8. Replaced(text, char, by) = upto[N]
  BY DEF Replaced, next
<1>9. \A n \in 0 .. N : upto[n] = f[n]
  <2> DEFINE S == {n \in 0 .. N : upto[n] = f[n]}
  <2>0. \A n \in 0 .. N : upto[n] = IF n = 0 THEN <<>> ELSE next(upto[n - 1], n)
    <3> HIDE DEF upto
    <3> QED BY <1>7
  <2> HIDE DEF upto
  <2>1. 0 \in S
    BY <1>5, <2>0
  <2>2. ASSUME NEW n \in 0 .. N - 1, n \in S PROVE n + 1 \in S
    <3>1. n + 1 \in 1 .. N /\ n + 1 \in 0 .. N /\ (n + 1) - 1 = n /\ n + 1 # 0
      OBVIOUS
    <3>2. f[n + 1] = next(f[n], n + 1)
      BY <1>5, <3>1
    <3>3. upto[n + 1] = next(upto[n], n + 1)
      BY <2>0, <3>1
    <3> QED BY <2>2, <3>1, <3>2, <3>3
  <2> HIDE DEF S
  <2>3. \A n \in 0 .. N : n \in S
    BY <2>1, <2>2, UpTo
  <2> QED BY <2>3 DEF S
<1> HIDE DEF upto
<1>10. N \in 0 .. N
  OBVIOUS
<1>11. Replacing(f, text, char, by, N)
  BY <1>5 DEF Replacing, next
<1> QED BY <1>8, <1>9, <1>10, <1>11

\* Replaced goes on where it was: of no character, and of one more.
LEMMA ReplacedEmpty ==
    ASSUME NEW text \in Seq(Mark), NEW char, NEW by \in Seq(Mark)
    PROVE  Len(text) = 0 => Replaced(text, char, by) = <<>>
<1>1. PICK n \in Nat : n = Len(text)
  BY LenProperties
<1>2. PICK f : Replacing(f, text, char, by, n) /\ Replaced(text, char, by) = f[n]
  BY <1>1, ReplacedIsRun
<1>3. f[0] = <<>>
  BY <1>2 DEF Replacing
<1> QED BY <1>1, <1>2, <1>3

LEMMA ReplacedAppend ==
    ASSUME NEW text \in Seq(Mark), NEW c \in Mark, NEW char, NEW by \in Seq(Mark)
    PROVE  /\ Replaced(text, char, by) \in Seq(Mark)
           /\ Replaced(Append(text, c), char, by) =
                  Replaced(text, char, by) \o (IF c = char THEN by ELSE <<c>>)
<1>1. PICK N \in Nat : N = Len(text)
  BY LenProperties
<1>2. PICK longer : longer = Append(text, c)
  OBVIOUS
<1>3. /\ longer \in Seq(Mark) /\ Len(longer) = N + 1 /\ longer[N + 1] = c
      /\ \A n \in 1 .. N : longer[n] = text[n]
  <2>1. /\ Append(text, c) \in Seq(Mark) /\ Len(Append(text, c)) = N + 1
        /\ Append(text, c)[N + 1] = c /\ \A n \in 1 .. N : Append(text, c)[n] = text[n]
    BY <1>1, OneMore
  <2> QED BY <1>2, <2>1
<1>4. PICK f : Replacing(f, text, char, by, N) /\ Replaced(text, char, by) = f[N]
  BY <1>1, ReplacedIsRun
<1>5. N + 1 \in Nat
  OBVIOUS
<1>6. PICK g : Replacing(g, longer, char, by, N + 1) /\ Replaced(longer, char, by) = g[N + 1]
  <2>1. PICK r, m : r = Replaced(longer, char, by) /\ m = N + 1
    OBVIOUS
  <2>2. \E g : Replacing(g, longer, char, by, m) /\ r = g[m]
    BY <1>3, <1>5, <2>1, ReplacedIsRun
  <2> QED BY <2>1, <2>2
<1>7. \A n \in 0 .. N : g[n] = f[n]
  <2> DEFINE S == {n \in 0 .. N : g[n] = f[n]}
  <2>1. 0 \in S
    BY <1>4, <1>6 DEF Replacing
  <2>2. ASSUME NEW n \in 0 .. N - 1, n \in S PROVE n + 1 \in S
    <3>1. n + 1 \in 1 .. N /\ n + 1 \in 0 .. N /\ n + 1 \in 1 .. N + 1 /\ (n + 1) - 1 = n
      OBVIOUS
    <3>2. f[n + 1] = f[n] \o (IF text[n + 1] = char THEN by ELSE <<text[n + 1]>>)
      BY <1>4, <3>1 DEF Replacing
    <3>3. g[n + 1] = g[n] \o (IF longer[n + 1] = char THEN by ELSE <<longer[n + 1]>>)
      BY <1>6, <3>1 DEF Replacing
    <3> QED BY <1>3, <2>2, <3>1, <3>2, <3>3
  <2> HIDE DEF S
  <2>3. \A n \in 0 .. N : n \in S
    BY <2>1, <2>2, UpTo
  <2> QED BY <2>3 DEF S
<1>8. g[N + 1] = g[N] \o (IF longer[N + 1] = char THEN by ELSE <<longer[N + 1]>>)
  <2>1. N + 1 \in 1 .. N + 1 /\ (N + 1) - 1 = N
    OBVIOUS
  <2> QED BY <1>6, <2>1 DEF Replacing
<1>9. N \in 0 .. N
  OBVIOUS
<1>10. f[N] \in Seq(Mark)
  BY <1>4, <1>9 DEF Replacing
<1> QED BY <1>2, <1>3, <1>4, <1>6, <1>7, <1>8, <1>9, <1>10

\* What a reader has read so far.
Reading == [text : Seq(Mark), literal : BOOLEAN]

\* Reading on, a reader has still read a text.
LEMMA ReadOnTyped ==
    ASSUME NEW sofar \in Reading, NEW char \in Mark, NEW delimiter
    PROVE  ReadOn(sofar, char, delimiter) \in Reading
<1>1. sofar.text \in Seq(Mark) /\ "end" \in Mark
  BY DEF Reading, Mark
<1>2. Append(sofar.text, char) \in Seq(Mark) /\ Append(sofar.text, "end") \in Seq(Mark)
  BY <1>1, AppendProperties
<1> QED BY <1>2 DEF ReadOn, Reading

\* The run of Read's recursion over text.
ReadingOn(f, text, delimiter, N) ==
    /\ f \in [0 .. N -> Reading] /\ f[0] = Nothing
    /\ \A n \in 1 .. N : f[n] = ReadOn(f[n - 1], text[n], delimiter)

\* Read is the end of that run.
LEMMA ReadIsRun ==
    ASSUME NEW N \in Nat, NEW text \in Seq(Mark), Len(text) = N, NEW delimiter
    PROVE  \E f : ReadingOn(f, text, delimiter, N) /\ Read(text, delimiter) = f[N]
<1> DEFINE next(q, n) == ReadOn(q, text[n], delimiter)
           step == [n \in 1 .. N |-> [q \in Reading |-> next(q, n)]]
           body(f) == [n \in 0 .. N |-> IF n = 0 THEN Nothing ELSE next(f[n - 1], n)]
<1>0. \A n \in 1 .. N : text[n] \in Mark
  BY ElementOfSeq
<1>1. \A n \in 1 .. N, q \in Reading : next(q, n) \in Reading
  BY <1>0, ReadOnTyped
<1> HIDE DEF next
<1>2. \A n \in 1 .. N, q \in Reading : step[n][q] = next(q, n)
  OBVIOUS
<1>3. step \in Turns(N, Reading)
  BY <1>1 DEF Turns
<1> HIDE DEF step
<1>4. PICK f : LoopRun(f, N, Reading, Nothing, step)
  <2>1. Nothing \in Reading
    BY EmptySeq DEF Nothing, Reading
  <2> QED BY <1>3, <2>1, LoopRuns
<1>5. /\ f \in [0 .. N -> Reading] /\ f[0] = Nothing
      /\ \A n \in 1 .. N : f[n] = next(f[n - 1], n)
  <2>1. /\ f \in [0 .. N -> Reading] /\ f[0] = Nothing
        /\ \A n \in 1 .. N : f[n] = step[n][f[n - 1]]
    BY <1>4 DEF LoopRun
  <2>2. ASSUME NEW n \in 1 .. N PROVE f[n] = next(f[n - 1], n)
    <3>1. n - 1 \in 0 .. N
      OBVIOUS
    <3>2. f[n - 1] \in Reading
      BY <2>1, <3>1
    <3> QED BY <1>2, <2>1, <3>2
  <2> QED BY <2>1, <2>2
<1>6. f = body(f)
  <2>1. ASSUME NEW n \in 0 .. N PROVE f[n] = IF n = 0 THEN Nothing ELSE next(f[n - 1], n)
    <3>1. n # 0 => n \in 1 .. N
      OBVIOUS
    <3> QED BY <1>5, <3>1
  <2> QED BY <1>5, <2>1
<1> DEFINE upto == CHOOSE g : g = body(g)
<1>7. upto = body(upto)
  BY <1>6
<1>8. Read(text, delimiter) = upto[N]
  BY DEF Read, next
<1>9. \A n \in 0 .. N : upto[n] = f[n]
  <2> DEFINE S == {n \in 0 .. N : upto[n] = f[n]}
  <2>0. \A n \in 0 .. N : upto[n] = IF n = 0 THEN Nothing ELSE next(upto[n - 1], n)
    <3> HIDE DEF upto
    <3> QED BY <1>7
  <2> HIDE DEF upto
  <2>1. 0 \in S
    BY <1>5, <2>0
  <2>2. ASSUME NEW n \in 0 .. N - 1, n \in S PROVE n + 1 \in S
    <3>1. n + 1 \in 1 .. N /\ n + 1 \in 0 .. N /\ (n + 1) - 1 = n /\ n + 1 # 0
      OBVIOUS
    <3>2. f[n + 1] = next(f[n], n + 1)
      BY <1>5, <3>1
    <3>3. upto[n + 1] = next(upto[n], n + 1)
      BY <2>0, <3>1
    <3> QED BY <2>2, <3>1, <3>2, <3>3
  <2> HIDE DEF S
  <2>3. \A n \in 0 .. N : n \in S
    BY <2>1, <2>2, UpTo
  <2> QED BY <2>3 DEF S
<1> HIDE DEF upto
<1>10. N \in 0 .. N
  OBVIOUS
<1>11. ReadingOn(f, text, delimiter, N)
  BY <1>5 DEF ReadingOn, next
<1> QED BY <1>8, <1>9, <1>10, <1>11

\* Read goes on where it was: of no character, and of one more.
LEMMA ReadEmpty ==
    ASSUME NEW text \in Seq(Mark), Len(text) = 0, NEW delimiter
    PROVE  Read(text, delimiter) = Nothing
<1>1. PICK n \in Nat : n = Len(text)
  BY LenProperties
<1>2. \E f : ReadingOn(f, text, delimiter, n) /\ Read(text, delimiter) = f[n]
  BY <1>1, ReadIsRun
<1>3. n = 0
  BY <1>1
<1> QED BY <1>2, <1>3 DEF ReadingOn

LEMMA ReadAppend ==
    ASSUME NEW text \in Seq(Mark), NEW c \in Mark, NEW delimiter
    PROVE  /\ Read(text, delimiter) \in Reading
           /\ Read(Append(text, c), delimiter) = ReadOn(Read(text, delimiter), c, delimiter)
<1>1. PICK N \in Nat : N = Len(text)
  BY LenProperties
<1>2. PICK longer : longer = Append(text, c)
  OBVIOUS
<1>3. /\ longer \in Seq(Mark) /\ Len(longer) = N + 1 /\ longer[N + 1] = c
      /\ \A n \in 1 .. N : longer[n] = text[n]
  <2>1. /\ Append(text, c) \in Seq(Mark) /\ Len(Append(text, c)) = N + 1
        /\ Append(text, c)[N + 1] = c /\ \A n \in 1 .. N : Append(text, c)[n] = text[n]
    BY <1>1, OneMore
  <2> QED BY <1>2, <2>1
<1>4. PICK f : ReadingOn(f, text, delimiter, N) /\ Read(text, delimiter) = f[N]
  BY <1>1, ReadIsRun
<1>5. N + 1 \in Nat
  OBVIOUS
<1>6. PICK g : ReadingOn(g, longer, delimiter, N + 1) /\ Read(longer, delimiter) = g[N + 1]
  BY <1>3, <1>5, ReadIsRun
<1>7. \A n \in 0 .. N : g[n] = f[n]
  <2> DEFINE S == {n \in 0 .. N : g[n] = f[n]}
  <2>1. 0 \in S
    BY <1>4, <1>6 DEF ReadingOn
  <2>2. ASSUME NEW n \in 0 .. N - 1, n \in S PROVE n + 1 \in S
    <3>1. n + 1 \in 1 .. N /\ n + 1 \in 0 .. N /\ n + 1 \in 1 .. N + 1 /\ (n + 1) - 1 = n
      OBVIOUS
    <3>2. f[n + 1] = ReadOn(f[n], text[n + 1], delimiter)
      BY <1>4, <3>1 DEF ReadingOn
    <3>3. g[n + 1] = ReadOn(g[n], longer[n + 1], delimiter)
      BY <1>6, <3>1 DEF ReadingOn
    <3> QED BY <1>3, <2>2, <3>1, <3>2, <3>3
  <2> HIDE DEF S
  <2>3. \A n \in 0 .. N : n \in S
    BY <2>1, <2>2, UpTo
  <2> QED BY <2>3 DEF S
<1>8. g[N + 1] = ReadOn(g[N], longer[N + 1], delimiter)
  <2>1. N + 1 \in 1 .. N + 1 /\ (N + 1) - 1 = N
    OBVIOUS
  <2> QED BY <1>6, <2>1 DEF ReadingOn
<1>9. N \in 0 .. N
  OBVIOUS
<1>10. f[N] \in Reading
  BY <1>4, <1>9 DEF ReadingOn
<1> QED BY <1>2, <1>3, <1>4, <1>6, <1>7, <1>8, <1>9, <1>10

\* Adding two characters is adding the one and then the other.
LEMMA TwoMore ==
    ASSUME NEW S, NEW x \in Seq(S), NEW a \in S, NEW b \in S
    PROVE  x \o <<a, b>> = Append(Append(x, a), b)
<1>1. <<a, b>> = Append(<<a>>, b) /\ <<a>> \in Seq(S) /\ <<b>> \in Seq(S)
  OBVIOUS
<1>2. <<a, b>> = <<a>> \o <<b>>
  BY <1>1, AppendIsConcat
<1>3. x \o (<<a>> \o <<b>>) = (x \o <<a>>) \o <<b>>
  BY <1>1, ConcatAssociative
<1>4. PICK y \in Seq(S) : y = Append(x, a)
  BY AppendProperties
<1>5. y = x \o <<a>>
  BY <1>4, AppendIsConcat
<1>6. Append(y, b) = y \o <<b>>
  BY <1>4, AppendIsConcat
<1> QED BY <1>2, <1>3, <1>4, <1>5, <1>6

\* What a replacement makes of one more character.
LEMMA ReplacedOther ==
    ASSUME NEW text \in Seq(Mark), NEW c \in Mark, NEW char, NEW by \in Seq(Mark), c # char
    PROVE  Replaced(Append(text, c), char, by) = Append(Replaced(text, char, by), c)
<1>1. PICK r \in Seq(Mark) : r = Replaced(text, char, by)
  BY ReplacedAppend
<1>2. Replaced(Append(text, c), char, by) = r \o <<c>>
  BY <1>1, ReplacedAppend
<1>3. Append(r, c) = r \o <<c>>
  BY AppendIsConcat
<1> QED BY <1>1, <1>2, <1>3

LEMMA ReplacedByOne ==
    ASSUME NEW text \in Seq(Mark), NEW char \in Mark, NEW a \in Mark
    PROVE  Replaced(Append(text, char), char, <<a>>) = Append(Replaced(text, char, <<a>>), a)
<1>0. PICK by \in Seq(Mark) : by = <<a>>
  <2>1. <<a>> \in Seq(Mark)
    OBVIOUS
  <2> QED BY <2>1
<1>1. PICK r \in Seq(Mark) : r = Replaced(text, char, by)
  BY ReplacedAppend
<1>2. Replaced(Append(text, char), char, by) = r \o by
  BY <1>1, ReplacedAppend
<1>3. Append(r, a) = r \o <<a>>
  BY AppendIsConcat
<1> QED BY <1>0, <1>1, <1>2, <1>3

LEMMA ReplacedEscaped ==
    ASSUME NEW text \in Seq(Mark), NEW char \in Mark
    PROVE  Replaced(Append(text, char), char, Escaped(char))
               = Append(Append(Replaced(text, char, Escaped(char)), "backslash"), char)
<1>1. PICK a \in Mark : a = "backslash"
  BY DEF Mark
<1>2. PICK by \in Seq(Mark) : by = Escaped(char) /\ by = <<a, char>>
  <2>1. <<a, char>> \in Seq(Mark) /\ Escaped(char) = <<a, char>>
    BY <1>1 DEF Escaped
  <2> QED BY <2>1
<1>3. PICK r \in Seq(Mark) : r = Replaced(text, char, by)
  BY ReplacedAppend
<1>4. Replaced(Append(text, char), char, by) = r \o by
  BY <1>3, ReplacedAppend
<1>5. Append(Append(r, a), char) = r \o <<a, char>>
  BY TwoMore
<1> QED BY <1>1, <1>3, <1>4, <1>5, <1>2

\* The marks that escaping knows.
LEMMA Marks ==
    /\ "backslash" \in Mark /\ "equals" \in Mark /\ "bar" \in Mark /\ "newline" \in Mark
    /\ "space" \in Mark
    /\ Escaped("backslash") \in Seq(Mark) /\ Escaped("equals") \in Seq(Mark)
    /\ Escaped("bar") \in Seq(Mark) /\ <<"space">> \in Seq(Mark)
<1>1. /\ "backslash" \in Mark /\ "equals" \in Mark /\ "bar" \in Mark /\ "newline" \in Mark
      /\ "space" \in Mark
  BY DEF Mark
<1> QED BY <1>1 DEF Escaped

\* The steps of escaping: a character's backslash, and the space for a newline.
Escaping(text, char) == Replaced(text, char, Escaped(char))
Joining(text) == Replaced(text, "newline", <<"space">>)

\* What the steps make of one more character.
LEMMA EscapingGoesOn ==
    ASSUME NEW text \in Seq(Mark), NEW c \in Mark, NEW char \in Mark, Escaped(char) \in Seq(Mark)
    PROVE  /\ Escaping(text, char) \in Seq(Mark)
           /\ Escaping(Append(text, c), char) =
                  IF c = char THEN Append(Append(Escaping(text, char), "backslash"), c)
                  ELSE Append(Escaping(text, char), c)
<1>1. Escaping(text, char) \in Seq(Mark)
  BY ReplacedAppend DEF Escaping
<1>2. CASE c = char
  BY <1>1, <1>2, ReplacedEscaped DEF Escaping
<1>3. CASE c # char
  BY <1>1, <1>3, ReplacedOther DEF Escaping
<1> QED BY <1>1, <1>2, <1>3

LEMMA JoiningGoesOn ==
    ASSUME NEW text \in Seq(Mark), NEW c \in Mark
    PROVE  /\ Joining(text) \in Seq(Mark)
           /\ Joining(Append(text, c)) =
                  Append(Joining(text), IF c = "newline" THEN "space" ELSE c)
<1>1. PICK by \in Seq(Mark) : by = <<"space">>
  BY Marks
<1>2. Joining(text) \in Seq(Mark)
  BY <1>1, ReplacedAppend DEF Joining
<1>3. CASE c = "newline"
  BY <1>2, <1>3, Marks, ReplacedByOne DEF Joining
<1>4. CASE c # "newline"
  <2>1. Replaced(Append(text, c), "newline", by) = Append(Replaced(text, "newline", by), c)
    BY <1>4, ReplacedOther
  <2> QED BY <1>1, <1>2, <1>4, <2>1 DEF Joining
<1> QED BY <1>2, <1>3, <1>4

\* What escape_extension makes of one more character.
LEMMA ExtensionGoesOn ==
    ASSUME NEW text \in Seq(Mark), NEW c \in Mark,
           NEW b \in Mark, NEW e \in Mark, b = "backslash", e = "equals"
    PROVE  /\ escape_extension(text) \in Seq(Mark)
           /\ escape_extension(Append(text, c)) =
                  IF c \in {b, e}
                  THEN Append(Append(escape_extension(text), b), c)
                  ELSE Append(escape_extension(text), IF c = "newline" THEN "space" ELSE c)
<1>1. /\ Escaped(b) \in Seq(Mark) /\ Escaped(e) \in Seq(Mark) /\ b # e
      /\ b # "newline" /\ e # "newline"
  BY Marks
<1>2. ASSUME NEW x \in Seq(Mark), NEW h \in {b, e}
       PROVE  /\ Escaping(x, h) \in Seq(Mark)
              /\ \A k \in Mark : Escaping(Append(x, k), h) =
                    IF k = h THEN Append(Append(Escaping(x, h), b), k)
                    ELSE Append(Escaping(x, h), k)
  <2>1. h \in Mark /\ Escaped(h) \in Seq(Mark)
    BY <1>1
  <2>2. Escaping(x, h) \in Seq(Mark)
    BY <2>1, EscapingGoesOn
  <2>3. ASSUME NEW k \in Mark
        PROVE  Escaping(Append(x, k), h) =
                   IF k = h THEN Append(Append(Escaping(x, h), b), k)
                   ELSE Append(Escaping(x, h), k)
    BY <2>1, EscapingGoesOn
  <2> QED BY <2>2, <2>3
<1>3. \A x : escape_extension(x) = Joining(Escaping(Escaping(x, b), e))
  BY DEF escape_extension, Joining, Escaping
<1>4. PICK doubled \in Seq(Mark) : doubled = Escaping(text, b)
  BY <1>2
<1>5. PICK marked \in Seq(Mark) : marked = Escaping(doubled, e)
  BY <1>2
<1>6. PICK out \in Seq(Mark) : out = Joining(marked)
  BY <1>1, JoiningGoesOn
<1>7. escape_extension(text) = out
  BY <1>3, <1>4, <1>5, <1>6
<1>8. PICK t \in Seq(Mark) : t = Append(text, c)
  BY AppendProperties
<1>9. CASE c = b
  <2>1. PICK x \in Seq(Mark), y \in Seq(Mark), z \in Seq(Mark) :
            x = Append(doubled, b) /\ y = Append(marked, b) /\ z = Append(out, b)
    BY AppendProperties
  <2>2. Escaping(t, b) = Append(x, c)
    BY <1>4, <1>8, <1>9, <2>1, <1>1, <1>2
  <2>3. Escaping(x, e) = y
    BY <1>5, <2>1, <1>1, <1>2
  <2>4. Escaping(Append(x, c), e) = Append(y, c)
    BY <1>1, <1>9, <2>3, <1>2
  <2>5. Joining(y) = z
    BY <1>6, <2>1, <1>1, JoiningGoesOn
  <2>6. Joining(Append(y, c)) = Append(z, c)
    BY <1>9, <2>5, <1>1, JoiningGoesOn
  <2>7. escape_extension(t) = Append(z, c)
    BY <1>3, <2>2, <2>4, <2>6
  <2> QED BY <1>7, <1>8, <1>9, <2>1, <2>7
<1>10. CASE c = e
  <2>1. PICK y \in Seq(Mark), z \in Seq(Mark) : y = Append(marked, b) /\ z = Append(out, b)
    BY AppendProperties
  <2>2. Escaping(t, b) = Append(doubled, c)
    BY <1>4, <1>8, <1>10, <1>1, <1>2
  <2>3. Escaping(Append(doubled, c), e) = Append(y, c)
    BY <1>5, <1>10, <2>1, <1>1, <1>2
  <2>4. Joining(y) = z
    BY <1>6, <2>1, <1>1, JoiningGoesOn
  <2>5. Joining(Append(y, c)) = Append(z, c)
    BY <1>10, <2>4, <1>1, JoiningGoesOn
  <2>6. escape_extension(t) = Append(z, c)
    BY <1>3, <2>2, <2>3, <2>5
  <2> QED BY <1>7, <1>8, <1>10, <2>1, <2>6
<1>11. CASE c \notin {b, e}
  <2>1. Escaping(t, b) = Append(doubled, c)
    BY <1>4, <1>8, <1>11, <1>2
  <2>2. Escaping(Append(doubled, c), e) = Append(marked, c)
    BY <1>5, <1>11, <1>2
  <2>3. Joining(Append(marked, c)) = Append(out, IF c = "newline" THEN "space" ELSE c)
    BY <1>6, <1>1, JoiningGoesOn
  <2>4. escape_extension(t) = Append(out, IF c = "newline" THEN "space" ELSE c)
    BY <1>3, <2>1, <2>2, <2>3
  <2> QED BY <1>7, <1>8, <1>11, <2>4
<1> QED BY <1>9, <1>10, <1>11

\* What escape_header makes of one more character.
LEMMA HeaderGoesOn ==
    ASSUME NEW text \in Seq(Mark), NEW c \in Mark,
           NEW b \in Mark, NEW d \in Mark, b = "backslash", d = "bar"
    PROVE  /\ escape_header(text) \in Seq(Mark)
           /\ escape_header(Append(text, c)) =
                  IF c \in {b, d} THEN Append(Append(escape_header(text), b), c)
                  ELSE Append(escape_header(text), c)
<1>1. /\ Escaped(b) \in Seq(Mark) /\ Escaped(d) \in Seq(Mark) /\ b # d
      /\ b # "newline" /\ d # "newline"
  BY Marks
<1>2. ASSUME NEW x \in Seq(Mark), NEW h \in {b, d}
       PROVE  /\ Escaping(x, h) \in Seq(Mark)
              /\ \A k \in Mark : Escaping(Append(x, k), h) =
                    IF k = h THEN Append(Append(Escaping(x, h), b), k)
                    ELSE Append(Escaping(x, h), k)
  <2>1. h \in Mark /\ Escaped(h) \in Seq(Mark)
    BY <1>1
  <2>2. Escaping(x, h) \in Seq(Mark)
    BY <2>1, EscapingGoesOn
  <2>3. ASSUME NEW k \in Mark
        PROVE  Escaping(Append(x, k), h) =
                   IF k = h THEN Append(Append(Escaping(x, h), b), k)
                   ELSE Append(Escaping(x, h), k)
    BY <2>1, EscapingGoesOn
  <2> QED BY <2>2, <2>3
<1>3. \A x : escape_header(x) = Escaping(Escaping(x, b), d)
  BY DEF escape_header, Escaping
<1>4. PICK doubled \in Seq(Mark) : doubled = Escaping(text, b)
  BY <1>2
<1>5. PICK out \in Seq(Mark) : out = Escaping(doubled, d)
  BY <1>2
<1>6. escape_header(text) = out
  BY <1>3, <1>4, <1>5
<1>7. PICK t \in Seq(Mark) : t = Append(text, c)
  BY AppendProperties
<1>8. CASE c = b
  <2>1. PICK x \in Seq(Mark), z \in Seq(Mark) : x = Append(doubled, b) /\ z = Append(out, b)
    BY AppendProperties
  <2>2. Escaping(t, b) = Append(x, c)
    BY <1>4, <1>7, <1>8, <2>1, <1>1, <1>2
  <2>3. Escaping(x, d) = z
    BY <1>5, <2>1, <1>1, <1>2
  <2>4. Escaping(Append(x, c), d) = Append(z, c)
    BY <1>8, <2>3, <1>2
  <2> QED BY <1>3, <1>6, <1>7, <1>8, <2>1, <2>2, <2>4
<1>9. CASE c # b
  <2>1. Escaping(t, b) = Append(doubled, c)
    BY <1>4, <1>7, <1>9, <1>2
  <2>2. Escaping(Append(doubled, c), d) =
            IF c = d THEN Append(Append(out, b), c) ELSE Append(out, c)
    BY <1>5, <1>1, <1>2
  <2>3. escape_header(t) = IF c = d THEN Append(Append(out, b), c) ELSE Append(out, c)
    BY <1>3, <2>1, <2>2
  <2> QED BY <1>6, <1>7, <1>9, <2>3
<1> QED BY <1>8, <1>9

\* A sequence that is not empty is one with an element added.
LEMMA SplitLast ==
    ASSUME NEW S, NEW x \in Seq(S), NEW l, Len(x) = l, l # 0
    PROVE  \E y \in Seq(S) : Len(y) = l - 1 /\ x = Append(y, x[l]) /\ x[l] \in S
                              /\ \A i \in 1 .. l - 1 : y[i] = x[i]
<1>0. PICK n \in Nat : l = n + 1 /\ l - 1 = n /\ Len(x) = n + 1
  <2>1. l \in Nat /\ l # 0
    BY LenProperties
  <2>2. l - 1 \in Nat /\ l = (l - 1) + 1
    BY <2>1
  <2> QED BY <2>2
<1>1. PICK y : y = [i \in 1 .. n |-> x[i]]
  OBVIOUS
<1>2. \A i \in 1 .. n + 1 : x[i] \in S
  BY <1>0, ElementOfSeq
<1>3. y \in Seq(S) /\ Len(y) = n
  BY <1>1, <1>2
<1>4. x[n + 1] \in S
  BY <1>2
<1>5. PICK z \in Seq(S) : z = Append(y, x[n + 1])
  BY <1>3, <1>4, AppendProperties
<1>6. Len(z) = n + 1 /\ z[n + 1] = x[n + 1] /\ \A i \in 1 .. n : z[i] = y[i]
  BY <1>0, <1>3, <1>4, <1>5, OneMore
<1>7. \A i \in 1 .. n + 1 : z[i] = x[i]
  <2>1. \A i \in 1 .. n + 1 : i = n + 1 \/ i \in 1 .. n
    OBVIOUS
  <2> QED BY <1>1, <1>6, <2>1
<1>8. z = x
  BY <1>0, <1>6, <1>7, SeqEqual
<1> QED BY <1>0, <1>1, <1>3, <1>4, <1>5, <1>8

\* The state of a reader who has read t, with no backslash left over.
ReadAs(t) == [text |-> t, literal |-> FALSE]

\* After a backslash a character is read as it is.
LEMMA EscapedIsRead ==
    ASSUME NEW t \in Seq(Mark), NEW c \in Mark, NEW b, b = "backslash", NEW delimiter
    PROVE  ReadOn(ReadOn(ReadAs(t), b, delimiter), c, delimiter) = ReadAs(Append(t, c))
<1>1. ReadOn(ReadAs(t), b, delimiter) = [text |-> t, literal |-> TRUE]
  BY DEF ReadOn, ReadAs
<1>2. ReadOn([text |-> t, literal |-> TRUE], c, delimiter) = ReadAs(Append(t, c))
  BY DEF ReadOn, ReadAs
<1> QED BY <1>1, <1>2

\* So is one that is no mark of the reader's.
LEMMA PlainIsRead ==
    ASSUME NEW t \in Seq(Mark), NEW c \in Mark, NEW delimiter,
           c \notin {"backslash", "newline", delimiter}
    PROVE  ReadOn(ReadAs(t), c, delimiter) = ReadAs(Append(t, c))
BY DEF ReadOn, ReadAs

\* Reading what escape_extension made of a text.
LEMMA ExtensionIsRead ==
    ASSUME NEW text \in Seq(Mark), NEW c \in Mark,
           Read(escape_extension(text), "equals") = ReadAs(Joining(text))
    PROVE  Read(escape_extension(Append(text, c)), "equals") = ReadAs(Joining(Append(text, c)))
<1>1. PICK b \in Mark, e \in Mark : b = "backslash" /\ e = "equals"
  BY Marks
<1>2. PICK out \in Seq(Mark) : out = escape_extension(text)
  BY <1>1, ExtensionGoesOn
<1>3. PICK t \in Seq(Mark) : t = Joining(text)
  BY JoiningGoesOn
<1>4. Read(out, e) = ReadAs(t)
  BY <1>1, <1>2, <1>3
<1>5. \A x \in Seq(Mark), k \in Mark : Read(Append(x, k), e) = ReadOn(Read(x, e), k, e)
  BY ReadAppend
<1>6. CASE c \in {b, e}
  <2>1. PICK x \in Seq(Mark) : x = Append(out, b)
    BY AppendProperties
  <2>2. escape_extension(Append(text, c)) = Append(x, c)
    BY <1>1, <1>2, <1>6, <2>1, ExtensionGoesOn
  <2>3. Read(Append(x, c), e) = ReadOn(ReadOn(ReadAs(t), b, e), c, e)
    BY <1>4, <1>5, <2>1
  <2>4. Read(Append(x, c), e) = ReadAs(Append(t, c))
    BY <1>1, <2>3, EscapedIsRead
  <2>5. Joining(Append(text, c)) = Append(t, c)
    BY <1>1, <1>3, <1>6, JoiningGoesOn
  <2> QED BY <1>1, <2>2, <2>4, <2>5
<1>7. CASE c \notin {b, e}
  <2>1. PICK k \in Mark : k = IF c = "newline" THEN "space" ELSE c
    BY Marks
  <2>2. escape_extension(Append(text, c)) = Append(out, k)
    BY <1>1, <1>2, <1>7, <2>1, ExtensionGoesOn
  <2>3. k \notin {"backslash", "newline", e}
    BY <1>1, <1>7, <2>1
  <2>4. Read(Append(out, k), e) = ReadAs(Append(t, k))
    BY <1>4, <1>5, <2>3, PlainIsRead
  <2>5. Joining(Append(text, c)) = Append(t, k)
    BY <1>3, <2>1, JoiningGoesOn
  <2> QED BY <1>1, <2>2, <2>4, <2>5
<1> QED BY <1>6, <1>7

\* Reading what escape_header made of a text of one line.
LEMMA HeaderIsRead ==
    ASSUME NEW text \in Seq(Mark), NEW c \in Mark, c # "newline",
           Read(escape_header(text), "bar") = ReadAs(text)
    PROVE  Read(escape_header(Append(text, c)), "bar") = ReadAs(Append(text, c))
<1>1. PICK b \in Mark, d \in Mark : b = "backslash" /\ d = "bar"
  BY Marks
<1>2. PICK out \in Seq(Mark) : out = escape_header(text)
  BY <1>1, HeaderGoesOn
<1>3. Read(out, d) = ReadAs(text)
  BY <1>1, <1>2
<1>4. \A x \in Seq(Mark), k \in Mark : Read(Append(x, k), d) = ReadOn(Read(x, d), k, d)
  BY ReadAppend
<1>5. CASE c \in {b, d}
  <2>1. PICK x \in Seq(Mark) : x = Append(out, b)
    BY AppendProperties
  <2>2. escape_header(Append(text, c)) = Append(x, c)
    BY <1>1, <1>2, <1>5, <2>1, HeaderGoesOn
  <2>3. Read(Append(x, c), d) = ReadOn(ReadOn(ReadAs(text), b, d), c, d)
    BY <1>3, <1>4, <2>1
  <2>4. Read(Append(x, c), d) = ReadAs(Append(text, c))
    BY <1>1, <2>3, EscapedIsRead
  <2> QED BY <1>1, <2>2, <2>4
<1>6. CASE c \notin {b, d}
  <2>1. escape_header(Append(text, c)) = Append(out, c)
    BY <1>1, <1>2, <1>6, HeaderGoesOn
  <2>2. c \notin {"backslash", "newline", d}
    BY <1>1, <1>6
  <2>3. Read(Append(out, c), d) = ReadAs(Append(text, c))
    BY <1>3, <1>4, <2>2, PlainIsRead
  <2> QED BY <1>1, <2>1, <2>3
<1> QED BY <1>5, <1>6

\* The two escapings are read back, however long the text.
LEMMA TextsReadBack ==
    ASSUME NEW text \in Seq(Mark), NEW N \in Nat, N = Len(text)
    PROVE  /\ Read(escape_extension(text), "equals") = ReadAs(Joining(text))
           /\ (\A i \in 1 .. N : text[i] # "newline") =>
                  Read(escape_header(text), "bar") = ReadAs(text)
<1> DEFINE Back(x, n) == /\ Read(escape_extension(x), "equals") = ReadAs(Joining(x))
                         /\ (\A i \in 1 .. n : x[i] # "newline") =>
                                Read(escape_header(x), "bar") = ReadAs(x)
           T == {n \in 0 .. N : \A x \in Seq(Mark) : Len(x) = n => Back(x, n)}
<1>1. 0 \in T
  <2> SUFFICES ASSUME NEW x \in Seq(Mark), Len(x) = 0 PROVE Back(x, 0)
    OBVIOUS
  <2>1. ASSUME NEW char, NEW by \in Seq(Mark) PROVE Replaced(x, char, by) = x
    <3>1. Replaced(x, char, by) = <<>>
      BY ReplacedEmpty
    <3>2. x = <<>>
      BY EmptySeq
    <3> QED BY <3>1, <3>2
  <2>2. escape_extension(x) = x /\ escape_header(x) = x /\ Joining(x) = x
    BY <2>1, Marks DEF escape_extension, escape_header, Joining
  <2>3. Read(x, "equals") = Nothing /\ Read(x, "bar") = Nothing
    BY ReadEmpty
  <2>4. Nothing = ReadAs(x)
    BY DEF Nothing, ReadAs
  <2> QED BY <2>2, <2>3, <2>4
<1>2. ASSUME NEW n \in 0 .. N - 1, n \in T PROVE n + 1 \in T
  <2> SUFFICES ASSUME NEW x \in Seq(Mark), Len(x) = n + 1 PROVE Back(x, n + 1)
    OBVIOUS
  <2>1. n \in Nat /\ \A i \in 1 .. n : i \in 1 .. n + 1
    OBVIOUS
  <2>2. PICK y \in Seq(Mark), c \in Mark :
            Len(y) = n /\ x = Append(y, c) /\ x[n + 1] = c /\ \A i \in 1 .. n : y[i] = x[i]
    <3>1. \E y \in Seq(Mark) : Len(y) = n /\ x = Append(y, x[n + 1]) /\ x[n + 1] \in Mark
                               /\ \A i \in 1 .. n : y[i] = x[i]
      <4>1. PICK l : l = n + 1 /\ l # 0 /\ l - 1 = n /\ Len(x) = l
        BY <2>1
      <4>2. \E y \in Seq(Mark) : Len(y) = l - 1 /\ x = Append(y, x[l]) /\ x[l] \in Mark
                                 /\ \A i \in 1 .. l - 1 : y[i] = x[i]
        BY <4>1, SplitLast
      <4> QED BY <4>1, <4>2
    <3> QED BY <3>1
  <2>3. Back(y, n)
    BY <1>2, <2>2
  <2>4. Read(escape_extension(x), "equals") = ReadAs(Joining(x))
    BY <2>2, <2>3, ExtensionIsRead
  <2>5. ASSUME \A i \in 1 .. n + 1 : x[i] # "newline"
        PROVE  Read(escape_header(x), "bar") = ReadAs(x)
    <3>1. c # "newline" /\ \A i \in 1 .. n : y[i] # "newline"
      BY <2>1, <2>2, <2>5
    <3>2. Read(escape_header(y), "bar") = ReadAs(y)
      BY <2>3, <3>1
    <3> QED BY <2>2, <3>1, <3>2, HeaderIsRead
  <2> QED BY <2>4, <2>5
<1> HIDE DEF T
<1>3. N \in 0 .. N /\ \A n \in 0 .. N : n \in T
  BY <1>1, <1>2, UpTo
<1>4. N \in T
  BY <1>3
<1> QED BY <1>4 DEF T

\* AlertReadsBack holds for values of any characters and any length.
THEOREM AlertsReadBack == Spec => []AlertReadsBack
<1>1. case \in Cases => AlertReadsBack
  <2> SUFFICES ASSUME case \in Cases, case.kind = "alert" PROVE AlertReadsBack
    BY DEF AlertReadsBack
  <2>1. PICK text \in Seq(Mark) : text = case.text
    <3>1. case.text \in Seq(Characters)
      BY InputsAssumption DEF Cases
    <3>2. case.text \in Seq(Mark)
      BY <3>1 DEF Mark
    <3> QED BY <3>2
  <2>2. PICK N \in Nat : N = Len(text)
    BY LenProperties
  <2>3. /\ Read(escape_extension(text), "equals") = ReadAs(Joining(text))
        /\ (\A i \in 1 .. N : text[i] # "newline") =>
               Read(escape_header(text), "bar") = ReadAs(text)
    BY <2>2, TextsReadBack
  <2>4. DOMAIN text = 1 .. N
    BY <2>2
  <2> QED BY <2>1, <2>3, <2>4 DEF AlertReadsBack, Joining, ReadAs
<1> QED BY <1>1, CasesStay, PTL
=============================================================================
