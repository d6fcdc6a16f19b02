----------------------------- MODULE RuleEvaluation -----------------------------
(***************************************************************************)
(* src/janusprint/inspector/rules.py and the first step of extract.py: how *)
(* a rule judges the matches of its pattern on a page, how a sample is     *)
(* masked, which format a document is taken for.                           *)
(*                                                                         *)
(* A match is reduced to whether it passes the rule's validator, whether a *)
(* context term is near, and its text.  Scores are whole hundredths: the   *)
(* code's are binary floats, which may fall just short of a sum.           *)
(***************************************************************************)
EXTENDS Integers, Sequences, SequencesExt

\* Mutant of Passes: context is never required.
PassesUnrequired(rule, found) == rule.validator => found.valid

\* A match that is looked at further: its validator accepts it, a context term is near.
Passes(rule, found) == /\ rule.validator => found.valid
                       /\ rule.required => found.near

Score(rule, found) ==
    LET sum == rule.base + (IF rule.validator THEN rule.weight ELSE 0)
               + (IF found.near THEN rule.boost ELSE 0)
    IN  IF sum > 100 THEN 100 ELSE sum

\* One turn of the loop: a match qualifies or is dropped, and the best one's sample is kept
\* (0: none, since a sample must beat a score of 0).
Judged(rule, founds, best, i) ==
    LET score == Score(rule, founds[i]) IN
    IF ~Passes(rule, founds[i]) \/ score < rule.threshold THEN best
    ELSE [count  |-> best.count + 1,
          score  |-> IF score > best.score THEN score ELSE best.score,
          sample |-> IF score > best.score THEN i ELSE best.sample]

Judge(rule, founds) ==
    LET after[n \in 0 .. Len(founds)] ==
          IF n = 0 THEN [count |-> 0, score |-> 0, sample |-> 0]
                   ELSE Judged(rule, founds, after[n - 1], n)
    IN  after[Len(founds)]

evaluate_rule(rule, founds) ==
    LET best == Judge(rule, founds)
    IN  IF best.count < rule.min_count THEN [fires |-> FALSE, best |-> best]
                                       ELSE [fires |-> TRUE, best |-> best]

-----------------------------------------------------------------------------
Star == 0  \* samples are made of positive numbers

Stars(n) == [i \in 1 .. n |-> Star]

\* Python's value[:n] and value[n:], n below zero counting from the end.
Bound(value, n) ==
    LET at == IF n < 0 THEN Len(value) + n ELSE n
    IN  IF at < 0 THEN 0 ELSE IF at > Len(value) THEN Len(value) ELSE at

Upto(value, n) == SubSeq(value, 1, Bound(value, n))
From(value, n) == SubSeq(value, Bound(value, n) + 1, Len(value))

\* Mutant of TooShort: a value that both ends would show whole is not short.
TooShortStrictly(value, front, back) == Len(value) < front + back

TooShort(value, front, back) == Len(value) <= front + back

\* Rule.mask of a value without blanks around it.
mask(value, front, back) ==
    IF TooShort(value, front, back) THEN Stars(Len(value))
    ELSE Upto(value, front) \o Stars(Len(value) - front - back) \o From(value, Len(value) - back)

-----------------------------------------------------------------------------
(* Formats.  A document is a sequence of bytes: magic numbers ("pdf", "ps", *)
(* "pcl", one unit each), "nul", "ascii", the two bytes of an accented      *)
(* letter, "lead" and "tail", and "bad", which UTF-8 never has.             *)

CONSTANT Sniffed  \* how many bytes of a document sniff_format looks at

ASSUME SniffedAssumption == Sniffed \in Nat \ {0}

Unit == {"pdf", "ps", "pcl", "nul", "ascii", "lead", "tail", "bad"}

\* Mutant of Decodes: text is taken to be ASCII.
DecodesAscii(bytes) == \A i \in DOMAIN bytes : bytes[i] \notin {"lead", "tail", "bad"}

\* bytes.decode("utf-8"): every lead has its tail, and the other way round.
Decodes(bytes) ==
    \A i \in DOMAIN bytes :
        /\ bytes[i] # "bad"
        /\ bytes[i] = "lead" => i < Len(bytes) /\ bytes[i + 1] = "tail"
        /\ bytes[i] = "tail" => i > 1 /\ bytes[i - 1] = "lead"

sniff_format(data) ==
    LET head == Upto(data, Sniffed)
        Starts(magic) == head # <<>> /\ head[1] = magic
        Has(unit) == \E i \in DOMAIN head : head[i] = unit
    IN  IF Starts("ps") THEN "postscript"
        ELSE IF Starts("pcl") THEN "pcl"
        ELSE IF Has("pdf") THEN "pdf"
        ELSE IF Has("nul") \/ ~Decodes(head) THEN "binary"
        ELSE "text"
=============================================================================
