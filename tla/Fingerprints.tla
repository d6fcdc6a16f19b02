------------------------------ MODULE Fingerprints ------------------------------
(***************************************************************************)
(* src/janusprint/inspector/fingerprint.py and the corpus in engine.py:    *)
(* the winnowed shingles of a document, and when a printed document is     *)
(* taken for a registered one.                                             *)
(*                                                                         *)
(* A document is the sequence of its normalised words.  Nothing is         *)
(* assumed of the hash but that it is a natural number: two shingles may   *)
(* well have the same one.                                                 *)
(***************************************************************************)
EXTENDS Integers, Sequences, FiniteSets, FiniteSetsExt

CONSTANTS Words,     \* the words documents are made of
          Hash(_),   \* _hash: of a shingle, a sequence of at most K words
          K,         \* fingerprint_k: words in a shingle
          Window,    \* fingerprint_window: shingles in a window
          Threshold  \* fingerprint_threshold, in percent

ASSUME SizesAssumption == K \in Nat \ {0} /\ Window \in Nat \ {0} /\ Threshold \in 1 .. 100

ASSUME HashAssumption == \A n \in 1 .. K : \A shingle \in [1 .. n -> Words] : Hash(shingle) \in Nat

shingle_hashes(words, k) ==
    IF Len(words) < k THEN (IF words = <<>> THEN <<>> ELSE <<Hash(words)>>)
    ELSE [i \in 1 .. Len(words) - k + 1 |-> Hash(SubSeq(words, i, i + k - 1))]

\* The rightmost place of the smallest hash of the window that starts at `start`.
MinimumAt(hashes, start, window) ==
    LET places == start .. start + window - 1
        least == Min({hashes[i] : i \in places})
    IN  Max({i \in places : hashes[i] = least})

\* Mutant of Starts: the last window is forgotten.
StartsButLast(hashes, window) == 1 .. Len(hashes) - window

Starts(hashes, window) == 1 .. Len(hashes) - window + 1

\* The place selected before is skipped in the code, which changes nothing in a set.
winnow(hashes, window) ==
    IF hashes = <<>> THEN {}
    ELSE IF Len(hashes) <= window THEN {Min({hashes[i] : i \in DOMAIN hashes})}
    ELSE {hashes[MinimumAt(hashes, s, window)] : s \in Starts(hashes, window)}

fingerprint(words) == winnow(shingle_hashes(words, K), Window)

\* A registered document: its Fingerprint rows and their number when it was registered.
register_document(words, enabled) ==
    [hashes |-> fingerprint(words), shingle_count |-> Cardinality(fingerprint(words)),
     enabled |-> enabled]

\* Mutant of Ratio: what share of the registered document was printed.
RatioOfDocument(overlap, queried, registered) == (100 * overlap) \div registered

\* The larger containment, in percent.
Ratio(overlap, queried, registered) ==
    Max({(100 * overlap) \div queried, (100 * overlap) \div registered})

\* The registered documents, out of `corpus`, that a text is found to overlap.
match_fingerprints(words, corpus) ==
    LET query == fingerprint(words)
        overlap(d) == Cardinality(query \cap corpus[d].hashes)
    IN  {d \in DOMAIN corpus :
            /\ overlap(d) > 0 /\ corpus[d].enabled
            /\ Ratio(overlap(d), Cardinality(query), corpus[d].shingle_count) >= Threshold}
=============================================================================
