------------------------------- MODULE Algorithms -------------------------------
(***************************************************************************)
(* The detector's pure algorithms, each against what it is for: a case is  *)
(* picked, and the algorithms it concerns are evaluated on it.             *)
(***************************************************************************)
EXTENDS Checksums, Fingerprints, RuleEvaluation, Alerts

CONSTANTS Numbers,   \* matched values, as sequences of characters
          Texts,     \* documents, as sequences of words
          Rules,     \* rules, as far as evaluation needs them
          Founds,    \* sequences of matches
          Samples,   \* values to mask, of distinct characters
          Ends,      \* sample_prefix and sample_suffix
          Data,      \* documents, as sequences of bytes
          Values,    \* values an alert carries
          Documents, \* documents as Verdict abstracts them
          Policies   \* queue policies, likewise

VARIABLES case,  \* the inputs
          done   \* whether they have been looked at

vars == <<case, done>>

V == INSTANCE Verdict

ASSUME InputsAssumption ==
    /\ Numbers \subseteq Seq(0 .. Other)
    /\ Texts \subseteq Seq(Words)
    /\ Rules \subseteq [validator : BOOLEAN, weight : Int, base : Int, boost : Int,
                        required : BOOLEAN, threshold : Int, min_count : Int]
    /\ Founds \subseteq Seq([valid : BOOLEAN, near : BOOLEAN])
    /\ Samples \subseteq Seq(Nat \ {Star})
    /\ Ends \subseteq Int
    /\ Data \subseteq Seq(Unit)
    /\ Values \subseteq Seq(Characters)
    /\ Documents \subseteq {d \in V!Document : d.kind # "oversize"}  \* never uploaded
    /\ Policies \subseteq V!Policy

Cases ==
    [kind : {"number"}, value : Numbers]
    \cup [kind : {"texts"}, first : Texts, second : Texts]
    \cup [kind : {"rule"}, rule : Rules, founds : Founds]
    \cup [kind : {"sample"}, sample : Samples, front : Ends, back : Ends]
    \cup [kind : {"data"}, data : Data]
    \cup [kind : {"alert"}, text : Values]
    \cup [kind : {"job"}, doc : Documents, policy : Policies, matched : BOOLEAN]

Init == case \in Cases /\ done = FALSE

Evaluate == ~done /\ done' = TRUE /\ UNCHANGED case

Spec == Init /\ [][Evaluate]_vars

-----------------------------------------------------------------------------
(* Properties *)

\* The value with one of its digits taken for another.
MisreadingsOf(value) ==
    UNION {{[value EXCEPT ![i] = d] : d \in (0 .. 9) \ {value[i]}} :
           i \in {j \in DOMAIN value : value[j] \in 0 .. 9}}

\* validators.py's "whether a match is the real thing": no single misread digit turns a
\* valid card, NHS number or IBAN into another valid one.  (bban_mod11 promises no such
\* thing: its check digit 0 stands for two remainders.)
MisreadDigitIsCaught ==
    case.kind = "number" =>
        \A w \in MisreadingsOf(case.value) :
            /\ luhn(case.value) => ~luhn(w)
            /\ nhs_number(case.value) => ~nhs_number(w)
            /\ iban(case.value) => ~iban(w)

\* validators.py's "most national ID and account-number schemes ARE a weighted-sum-mod-N
\* checksum (this is literally how nhs_number and mod11 above work internally)": with the
\* right parameters the generic shape accepts what the shipped validators accept.  Its
\* weights run from the left, so which are right depends on the number of digits; and
\* mod11's check digit 0 stands for two remainders, which the generic shape cannot say.
GenericMatchesShipped ==
    case.kind = "number" =>
        LET digits == Digits(case.value)
            n == Len(digits)
            generic(params) == weighted_mod_check(case.value, params)
            luhnWeights == IF n % 2 = 0 THEN <<2, 1>> ELSE <<1, 2>>
        IN  /\ n >= 12 => (luhn(case.value) <=> generic(LuhnParams(luhnWeights)))
            /\ n = 10 => (nhs_number(case.value) <=> generic(NhsParams))
            /\ n >= 8 => /\ generic(Mod11Params(n - 1)) => bban_mod11(case.value)
                         /\ bban_mod11(case.value) =>
                               generic(Mod11Params(n - 1)) \/ Last(digits) = 0

RunsOf(words, n) == {SubSeq(words, i, i + n - 1) : i \in 1 .. Len(words) - n + 1}

\* The winnowing guarantee ("the selected set depends on content, not position"): two texts
\* with a run of K + Window - 1 words in common share a fingerprint, wherever the run is.
SharedRunIsFound ==
    case.kind = "texts" =>
        LET run == K + Window - 1
            common == RunsOf(case.first, run) \cap RunsOf(case.second, run)
        IN  common # {} => fingerprint(case.first) \cap fingerprint(case.second) # {}

HasExcerpt(words, part) == part \in RunsOf(words, Len(part))

\* fingerprint.py's "both directions are caught": a text that is an excerpt of a registered
\* document, or contains one, matches it, if the shorter of the two fills a window.
\* (A registered document of fewer words may be missed inside a longer text.)
ExcerptIsMatched ==
    case.kind = "texts" =>
        \/ ~HasExcerpt(case.first, case.second) /\ ~HasExcerpt(case.second, case.first)
        \/ Len(case.first) < K + Window - 1 \/ Len(case.second) < K + Window - 1
        \/ match_fingerprints(case.first,
               [d \in {"registered"} |-> register_document(case.second, TRUE)]) # {}

\* rules.py's "Matches scoring below `threshold` are dropped; the rule fires when at least
\* `min_count` matches survive", and a required context is "a gate on the check, not a hint":
\* the loop counts the survivors, its score is the best of theirs, and its sample is the
\* first that has it, if that is above 0.
RuleFiresAsDocumented ==
    case.kind = "rule" =>
        LET rule == case.rule
            founds == case.founds
            score(i) == Score(rule, founds[i])
            surviving == {i \in DOMAIN founds :
                /\ rule.validator => founds[i].valid
                /\ rule.required => founds[i].near
                /\ score(i) >= rule.threshold}
            outcome == evaluate_rule(rule, founds)
            sample == outcome.best.sample
        IN  /\ outcome.fires = (Cardinality(surviving) >= rule.min_count)
            /\ outcome.best.count = Cardinality(surviving)
            /\ \A i \in surviving : score(i) <= outcome.best.score
            /\ IF sample = 0 THEN outcome.best.score = 0
               ELSE /\ sample \in surviving /\ score(sample) = outcome.best.score
                    /\ \A i \in surviving : i < sample => score(i) < score(sample)

\* mask's "raw values never leave the archive": at least one character of a sample is
\* hidden, and no more than the two ends are shown, unless an end is negative, which
\* nothing refuses.
MaskHides ==
    case.kind = "sample" /\ case.front >= 0 /\ case.back >= 0 =>
        LET masked == mask(case.sample, case.front, case.back)
            shown == {i \in DOMAIN masked : masked[i] # Star}
        IN  /\ Len(masked) = Len(case.sample)
            /\ case.sample # <<>> => shown # DOMAIN masked
            /\ Cardinality(shown) <= case.front + case.back

\* Every lead byte has its tail, and every tail its lead.
WellFormed(bytes) ==
    \A i \in DOMAIN bytes : /\ bytes[i] = "lead" => i < Len(bytes) /\ bytes[i + 1] = "tail"
                            /\ bytes[i] = "tail" => i > 1 /\ bytes[i - 1] = "lead"

\* sniff_format: text in UTF-8 is read as text, however long it is, unless the end of the
\* part that is looked at falls inside a character.
TextIsReadAsText ==
    case.kind = "data" =>
        LET isText == /\ \A i \in DOMAIN case.data : case.data[i] \in {"ascii", "lead", "tail"}
                      /\ WellFormed(case.data)
            cut    == Len(case.data) > Sniffed /\ case.data[Sniffed] = "lead"
        IN  isText /\ ~cut => sniff_format(case.data) = "text"

\* What a reader of the line, so far, makes of the next character: a backslash makes the one
\* after it literal; a delimiter or a newline that is not literal ends the value ("end").
ReadOn(sofar, char, delimiter) ==
    IF ~sofar.literal /\ char = "backslash" THEN [sofar EXCEPT !.literal = TRUE]
    ELSE LET ends == ~sofar.literal /\ char \in {delimiter, "newline"}
         IN  [text |-> Append(sofar.text, IF ends THEN "end" ELSE char), literal |-> FALSE]

Nothing == [text |-> <<>>, literal |-> FALSE]

Read(text, delimiter) ==
    LET upto[n \in 0 .. Len(text)] ==
          IF n = 0 THEN Nothing ELSE ReadOn(upto[n - 1], text[n], delimiter)
    IN  upto[Len(text)]

\* _escape_extension and _escape_header: whatever a job's title or a reason holds, the SIEM
\* reads it back, a newline as a space, and it ends no field; nor does a one-line heading.
AlertReadsBack ==
    case.kind = "alert" =>
        LET text == case.text
            oneLine == \A i \in DOMAIN text : text[i] # "newline"
            readAs(t) == [text |-> t, literal |-> FALSE]  \* no backslash is left over
        IN  /\ Read(escape_extension(text), "equals")
                   = readAs(Replaced(text, "newline", <<"space">>))
            /\ oneLine => Read(escape_header(text), "bar") = readAs(text)

\* _signature_for's "Print job inspected, no match", as the API sends it: of a job whose pages
\* were not all read, the SIEM is told so only with a scanTier that names the gap.  (On a
\* re-inspection job.matches still is what the last one found, so `matched` may be anything.)
CleanInlineAlertNamesGaps ==
    case.kind = "job" =>
        \A v \in V!Verdicts(case.doc, case.policy, TRUE) :
            LET read == case.doc.kind = "text" /\ ~case.doc.thin /\ v.kind = "inspected"
            IN  signature_for(v.state, case.matched) = "PRINT_CLEAN"
                => read \/ v.tier \in {"ocr_pending", "unreadable"}

\* The states in which a deep scan may find a job: the verdict's, or a decision's.
MetByScan(state) ==
    {state} \cup IF state = "held" THEN {"released_by_analyst", "denied_by_analyst"} ELSE {}

\* ... and as the worker sends it after a deep scan, of the state it has computed and the
\* matches it loaded before the OCR: it covers up no restricting hit, of OCR or of an
\* inspection that read the text layer, and no failure that printed.  It is no word on the
\* rest: the scanTier is ocr_complete although OCR may have read no page, a hit that is only
\* to be logged is not among those matches, and a failed re-inspection has left none.
CleanScanAlertHidesNoHold ==
    case.kind = "job" /\ case.doc.kind = "text" /\ case.doc.thin =>
        \A v \in V!Verdicts(case.doc, case.policy, TRUE), found \in V!OcrActions(case.doc) :
            \A state \in MetByScan(v.state) :
                signature_for(V!scanned_state(state, v.blocking, found),
                              v.blocking \/ case.matched) = "PRINT_CLEAN"
                => /\ ~V!Restricts(found) /\ v.state # "failed_open"
                   /\ v.kind = "inspected" => ~V!MustHold(case.doc)
=============================================================================
