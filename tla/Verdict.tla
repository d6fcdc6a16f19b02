------------------------------- MODULE Verdict -------------------------------
(***************************************************************************)
(* The decisions of the inspector that depend on nothing but a document    *)
(* and its queue's policy: how actions are ordered and merged, which job   *)
(* state an action means, and what a complete, an unreadable, a failed and *)
(* an OCR inspection conclude.  src/janusprint/inspector/{engine,rules}.py *)
(*                                                                         *)
(* A document is abstracted to what those decisions can tell apart:        *)
(*   kind  "text"        extraction yields pages,                          *)
(*         "unreadable"  encrypted or undecodable (policy.on_unreadable),  *)
(*         "oversize"    over the backend's max_bytes, never uploaded;     *)
(*   rules merged action of the rules that hit the pages with a text layer *)
(*   fp    strictest action of the registered documents it overlaps        *)
(*   thin  some page has no usable text layer, so OCR is needed;           *)
(*   ocr   merged action of the rules that would hit the thin pages.       *)
(***************************************************************************)
EXTENDS Naturals

Action == {"allow", "log", "hold", "block"}

\* Action precedence: the most restrictive action wins.
ACTION_RANK == [allow |-> 0, log |-> 1, hold |-> 2, block |-> 3]

Restricts(a) == ACTION_RANK[a] >= ACTION_RANK["hold"]

\* One step of merge_action's and of the fingerprint loop's fold over the hits.
Stricter(a, b) == IF ACTION_RANK[b] > ACTION_RANK[a] THEN b ELSE a

JobState == {"inspecting", "released", "held", "blocked", "released_by_analyst",
             "denied_by_analyst", "failed_open", "released_then_flagged"}

ScanTier == {"text", "ocr_pending", "ocr_complete", "unreadable"}

Document == [kind : {"text", "unreadable", "oversize"},
             rules : Action, fp : Action, thin : BOOLEAN, ocr : Action]

Policy == [fail_mode : {"open", "closed"},          \* the queue's, in the API
           backend_fail_mode : {"open", "closed"},  \* backend.conf's, in the shim
           deep_scan_required : BOOLEAN,
           on_unreadable : Action]

-----------------------------------------------------------------------------
state_for(action) ==
    CASE action \in {"allow", "log"} -> "released"
      [] action = "hold"             -> "held"
      [] action = "block"            -> "blocked"

\* What the text layer and the fingerprint corpus say about a whole document.
InlineAction(doc) == Stricter(doc.rules, doc.fp)

\* The text layer alone demands that a person look at this document.
MustHold(doc) == doc.kind = "text" /\ Restricts(InlineAction(doc))

(***************************************************************************)
(* A verdict.  `blocking` stands for the Match rows: it says whether one   *)
(* of those written by this inspection restricts; `deep` is                *)
(* deep_scan_queued, `kind` the JobEvent the inspection leaves behind.     *)
(***************************************************************************)
Verdict == [action : Action, state : JobState, tier : ScanTier,
            blocking : BOOLEAN, deep : BOOLEAN,
            kind : {"inspected", "unreadable", "fail_open", "fail_closed"}]

\* run_inspection, when it reads every page inside its budget.
run_inspection(doc, policy) ==
    LET needsScan == doc.thin /\ policy.deep_scan_required
        action    == IF needsScan THEN Stricter(InlineAction(doc), "hold")
                                  ELSE InlineAction(doc)
    IN  [action |-> action, state |-> state_for(action),
         tier |-> IF doc.thin THEN "ocr_pending" ELSE "text",
         blocking |-> Restricts(InlineAction(doc)),
         deep |-> doc.thin, kind |-> "inspected"]

unreadable(policy) ==
    [action |-> policy.on_unreadable, state |-> state_for(policy.on_unreadable),
     tier |-> "unreadable", blocking |-> FALSE, deep |-> FALSE, kind |-> "unreadable"]

\* resolve_failure's own states: a gap is not a pass, whatever its action is.
FailedStateAsVerdict(base) == state_for(base)     \* mutant of failed_state
failed_state(base) == IF base = "hold" THEN "held" ELSE "failed_open"

(***************************************************************************)
(* The inspector crashed or passed its deadline.  `partial` is what the    *)
(* rules had found by then ("allow" after a crash, whose hits are lost).   *)
(* It can make the answer stricter, but no Match row is written for it.    *)
(***************************************************************************)
resolve_failure(policy, partial) ==
    LET closed == policy.fail_mode = "closed"
        base   == IF closed THEN "hold" ELSE "log"
        worse  == ACTION_RANK[partial] > ACTION_RANK[base]
    IN  [action |-> IF worse THEN partial ELSE base,
         state  |-> IF worse THEN state_for(partial) ELSE failed_state(base),
         tier |-> "text", blocking |-> FALSE, deep |-> FALSE,
         kind |-> IF closed THEN "fail_closed" ELSE "fail_open"]

\* What the rules may have found when the deadline passed: some of their hits.
PartialHits(doc) ==
    IF doc.kind = "text" THEN {a \in Action : ACTION_RANK[a] <= ACTION_RANK[doc.rules]}
                         ELSE {"allow"}

\* Every verdict inspect_job can reach; `faulty` lets it crash or run late.
Verdicts(doc, policy, faulty) ==
    { IF doc.kind = "unreadable" THEN unreadable(policy)
                                 ELSE run_inspection(doc, policy) }
    \cup (IF faulty THEN {resolve_failure(policy, p) : p \in PartialHits(doc)} ELSE {})

(***************************************************************************)
(* What OCR can conclude.  Tesseract may be missing, a page may fail or    *)
(* lie beyond ocr_max_pages: its text is then simply not looked at.  The   *)
(* fingerprints are matched again on the merged text, whose overlap ratio  *)
(* may fall under the threshold.                                           *)
(***************************************************************************)
OcrActions(doc) == {Stricter(o, f) : o \in {"allow", doc.ocr}, f \in {"allow", doc.fp}}

AlreadyPrinted == {"released", "released_by_analyst", "failed_open", "released_then_flagged"}

\* Mutant of scanned_state: a hold for want of a scan ends with it, whatever it found.
scanned_state_freed_first(state, blocking, found) ==
    IF state = "held" /\ ~blocking THEN "released"
    ELSE IF ~Restricts(found) THEN state
    ELSE IF state \in AlreadyPrinted THEN "released_then_flagged" ELSE state_for(found)

\* What deep_scan makes of the state it loaded, given what OCR found: a job without a match
\* that restricts was held for want of a scan alone.
scanned_state(state, blocking, found) ==
    CASE Restricts(found) /\ state \in AlreadyPrinted -> "released_then_flagged"
      [] Restricts(found) /\ state \notin AlreadyPrinted -> state_for(found)
      [] ~Restricts(found) /\ state = "held" /\ ~blocking -> "released"
      [] OTHER -> state

ClearedOrFailedOpen == {"released_by_analyst", "released", "failed_open"} \* mutant of Cleared

\* The states in which preflight lets a CUPS job pass without inspection.
Cleared == {"released_by_analyst", "released"}
=============================================================================
