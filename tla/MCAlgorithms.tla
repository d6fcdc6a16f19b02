------------------------------ MODULE MCAlgorithms ------------------------------
(* Small families of inputs for Algorithms. *)
EXTENDS Algorithms

Digit == 0 .. 9

\* Cards of 12 and 13 digits, one with a separator, NHS numbers, Norwegian IBANs.
SomeNumbers ==
    {<<4, 0, 1, 2, 8, 8, 8, 8, 8, 8, a, b>> : a \in Digit, b \in Digit}
    \cup {<<5, 0, 1, 2, a, Other, 9, 7, 8, 0, 5, 3, 2, b>> : a \in Digit, b \in Digit}
    \cup {<<9, 4, a, 4, 7, 6, 5, 9, 1, b>> : a \in Digit, b \in Digit}
    \cup {<<23, 24, a, 3, 8, 6, 0, 1, 1, 1, 1, 7, 9, 4, b>> : a \in Digit, b \in Digit}

\* A shingle of two words, each 0 or 1, read as a number and scrambled so that neighbours do
\* not come in order; <<0, 0>> and <<1, 1>> collide.
SomeHash(shingle) ==
    LET number[n \in 0 .. Len(shingle)] ==
          IF n = 0 THEN 0 ELSE number[n - 1] * 3 + shingle[n] + 1
    IN  (number[Len(shingle)] * 7 + 3) % 4

SomeTexts == UNION {[1 .. n -> Words] : n \in 2 .. 7}

SomeRules ==
    [validator : BOOLEAN, weight : {30}, base : {-40, 60, 90}, boost : {20}, required : BOOLEAN,
     threshold : {-20, 75, 100}, min_count : {1, 2}]

SomeFounds == UNION {[1 .. n -> [valid : BOOLEAN, near : BOOLEAN]] : n \in 0 .. 3}

SomeSamples == {[i \in 1 .. n |-> i] : n \in 0 .. 9}

SomeEnds == -2 .. 4

SomeData == UNION {[1 .. n -> Unit] :
                      n \in 0 .. Sniffed + 1}

SomeValues == UNION {[1 .. n -> Characters] : n \in 0 .. 4}

SomeDocuments ==
    [kind : {"text", "unreadable"}, rules : V!Action, fp : {"allow", "hold"}, thin : BOOLEAN,
     ocr : V!Action]

SomePolicies ==
    [fail_mode : {"open", "closed"}, backend_fail_mode : {"open"},
     deep_scan_required : BOOLEAN, on_unreadable : V!Action]
=============================================================================
