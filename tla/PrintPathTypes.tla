---------------------------- MODULE PrintPathTypes ----------------------------
(***************************************************************************)
(* Type correctness of PrintPath. TypeOK is not inductive: a session that  *)
(* would write a row that is not there, or a scan taken from an empty      *)
(* queue, breaks the next state's types. TypeInv adds that every session,  *)
(* scan and decision in progress refers to a row that exists, and that     *)
(* every session past its inspection holds a verdict.                      *)
(***************************************************************************)
EXTENDS PrintPath, WellFoundedInduction, TLAPS

-----------------------------------------------------------------------------
(* What the inspector's pure decisions guarantee for every document and     *)
(* every policy: the invariants of the print path rest on these three       *)
(* lemmas and expand no verdict themselves.                                 *)

\* The fold over the hits of a document returns one of their actions.
LEMMA StricterIsEither ==
    ASSUME NEW a, NEW b
    PROVE  Stricter(a, b) \in {a, b}
BY DEF Stricter

\* Only hold and block restrict; a merged action restricts as soon as one of the two
\* does; what outranks a restricting action restricts.
LEMMA RanksKnown == /\ \A a \in Action : Restricts(a) <=> a \in {"hold", "block"}
                    /\ \A a \in Action, b \in Action : Restricts(a) \/ Restricts(b) <=> Restricts(Stricter(a, b))
                    /\ \A a \in Action, b \in Action : ACTION_RANK[b] > ACTION_RANK[a] /\ Restricts(a) => Restricts(b)
BY DEF Restricts, Stricter, ACTION_RANK, Action

\* Whatever way an inspection ends, what it returns is a verdict.
LEMMA VerdictsAreVerdicts ==
    ASSUME NEW d \in Document, NEW p \in Policy, NEW v \in Verdicts(d, p, TRUE)
    PROVE  v \in Verdict
<1>1. \A a \in Action : state_for(a) \in {"released", "held", "blocked"}
  BY DEF state_for, Action
<1>2. \A a \in Action, b \in Action : Stricter(a, b) \in Action
  BY DEF Stricter
<1>3. InlineAction(d) \in Action /\ Restricts(InlineAction(d)) \in BOOLEAN
  BY <1>2 DEF InlineAction, Document, Restricts
<1>4. run_inspection(d, p) \in Verdict
  <2> DEFINE needsScan == d.thin /\ p.deep_scan_required
             action == IF needsScan THEN Stricter(InlineAction(d), "hold") ELSE InlineAction(d)
  <2>1. action \in Action
    BY <1>2, <1>3 DEF Action
  <2>2. state_for(action) \in JobState
    BY <2>1, <1>1 DEF JobState
  <2>3. d.thin \in BOOLEAN
    BY DEF Document
  <2> QED BY <2>1, <2>2, <2>3, <1>3 DEF run_inspection, Verdict, ScanTier
<1>5. unreadable(p) \in Verdict
  BY <1>1 DEF unreadable, Verdict, Policy, JobState, ScanTier
<1>6. \A q \in Action : resolve_failure(p, q) \in Verdict
  BY <1>1 DEF resolve_failure, failed_state, Verdict, Action, JobState, ScanTier
<1> QED BY <1>4, <1>5, <1>6 DEF Verdicts, PartialHits, Action

\* What a verdict commits the inspector to, for a document that needs review.
LEMMA VerdictsKeepTheirPromise ==
    ASSUME NEW d \in Document, NEW p \in Policy, NEW v \in Verdicts(d, p, TRUE)
    PROVE  /\ v.state # "released_by_analyst"
           /\ MustHold(d) /\ ~v.blocking => v.kind \in {"fail_open", "fail_closed"}
           /\ MustHold(d) \/ (d.kind = "text" /\ d.thin /\ p.deep_scan_required) =>
                 /\ v.state # "released"
                 /\ ~Restricts(v.action) => v.kind = "fail_open" /\ p.fail_mode = "open"
<1>1. \A a \in Action : /\ state_for(a) # "released_by_analyst"
                        /\ Restricts(a) => state_for(a) # "released"
                        /\ a \in {"hold", "block"} <=> Restricts(a)
  BY RanksKnown DEF state_for, Action
<1>2. \A a \in Action, b \in Action : Stricter(a, b) \in Action
  BY DEF Stricter
<1>3. InlineAction(d) \in Action
  BY <1>2 DEF InlineAction, Document
<1>4. CASE v = run_inspection(d, p)
  <2> DEFINE needsScan == d.thin /\ p.deep_scan_required
             action == IF needsScan THEN Stricter(InlineAction(d), "hold") ELSE InlineAction(d)
  <2>1. action \in Action /\ "hold" \in Action
    BY <1>2, <1>3 DEF Action
  <2>2. Restricts("hold")
    BY <1>1 DEF Action
  <2>3. MustHold(d) \/ needsScan => Restricts(action)
    BY <2>1, <2>2, <1>3, RanksKnown DEF MustHold
  <2>4. /\ v.action = action /\ v.state = state_for(action)
        /\ v.blocking = Restricts(InlineAction(d))
    BY <1>4 DEF run_inspection
  <2> QED BY <2>1, <2>3, <2>4, <1>1, <1>3 DEF MustHold
<1>5. CASE \E q \in Action : v = resolve_failure(p, q)
  <2>1. PICK q \in Action : v = resolve_failure(p, q)
    BY <1>5
  <2> DEFINE closed == p.fail_mode = "closed"
             base == IF closed THEN "hold" ELSE "log"
             worse == ACTION_RANK[q] > ACTION_RANK[base]
  <2>2. /\ v.action = (IF worse THEN q ELSE base)
        /\ v.state = (IF worse THEN state_for(q) ELSE failed_state(base))
        /\ v.kind = (IF closed THEN "fail_closed" ELSE "fail_open")
    BY <2>1 DEF resolve_failure
  <2>3. failed_state(base) \in {"held", "failed_open"}
    BY DEF failed_state
  <2>5. p.fail_mode \in {"open", "closed"}
    BY DEF Policy
  <2>6. closed => Restricts(v.action)
    BY <2>2, <1>1, RanksKnown DEF Action
  <2>7. worse => Restricts(q)
    BY DEF ACTION_RANK, Action, Restricts
  <2> QED BY <2>2, <2>3, <2>5, <2>6, <2>7, <1>1
<1>6. CASE d.kind = "unreadable" /\ v = unreadable(p)
  <2>1. v.state = state_for(p.on_unreadable) /\ p.on_unreadable \in Action
    BY <1>6 DEF unreadable, Policy
  <2> QED BY <1>1, <1>6, <2>1 DEF MustHold
<1>7. \/ v = run_inspection(d, p) \/ \E q \in Action : v = resolve_failure(p, q)
      \/ d.kind = "unreadable" /\ v = unreadable(p)
  BY DEF Verdicts, PartialHits, Action
<1> QED BY <1>4, <1>5, <1>6, <1>7

-----------------------------------------------------------------------------

\* The newest of some runs is one of them: the dedup query returns a row it found.
LEMMA MaxOfRuns ==
    ASSUME NEW S \in SUBSET Runs, S # {}
    PROVE  Max(S) \in S
<1> DEFINE down == {MaxRuns - x : x \in S}
           less == OpToRel(<, Nat)
<1>1. IsWellFoundedOn(less, Nat)
  BY NatLessThanWellFounded
<1>2. \A a \in Nat, b \in Nat : a < b => <<a, b>> \in less
  BY DEF OpToRel
<1> HIDE DEF less
<1>3. MaxRuns \in Nat /\ S \subseteq Nat /\ \A x \in S : x <= MaxRuns
  BY RunsAssumption DEF Runs
<1>4. down \subseteq Nat /\ down # {}
  <2>1. \A x \in S : MaxRuns - x \in Nat
    BY <1>3
  <2> QED BY <2>1
<1> HIDE DEF down
<1>5. PICK y \in down : \A z \in down : ~(<<z, y>> \in less)
  BY <1>4, <1>1, WFMin
<1>6. \A z \in down : y <= z
  <2>1. ASSUME NEW z \in down, z < y PROVE FALSE
    <3>1. z \in Nat /\ y \in Nat
      BY <1>4
    <3>2. <<z, y>> \in less
      BY <1>2, <2>1, <3>1
    <3> QED BY <1>5, <3>2
  <2>2. \A z \in down : z \in Int /\ y \in Int
    BY <1>4
  <2> QED BY <2>1, <2>2
<1>7. PICK x \in S : y = MaxRuns - x
  BY DEF down
<1>8. \A z \in S : x >= z
  <2>1. \A z \in S : MaxRuns - z \in down
    BY DEF down
  <2>2. \A z \in S : z \in Nat /\ y <= MaxRuns - z
    BY <1>6, <1>3, <2>1
  <2> QED BY <2>2, <1>7, <1>3
<1> QED BY <1>8 DEF Max

-----------------------------------------------------------------------------

\* An inspection that has a session, one that has a verdict, one that writes or re-reads a row.
InProgress(i) == i.pc \notin {"none", "done", "dead"}
HasVerdict(i) == i.pc \in {"returned", "stored", "replied", "committed"}
NeedsRow(i)   == i.pc = "stored" \/ (InProgress(i) /\ i.loaded # NoRow)

\* ... and what it then holds.
InspTyped(i) == /\ i \in NoInsp \cup Inspection
                /\ HasVerdict(i) => i.verdict \in Verdict
                /\ NeedsRow(i) => Exists(i.row)

\* Whatever is going to be written is there.
TypeInv ==
    /\ TypeOK
    /\ be.pc # "idle" => run \in Runs
    /\ \A n \in Runs : InspTyped(insp[n])
    /\ \A r \in Runs : scanq[r] > 0 => Exists(r)
    /\ scan.pc # "idle" => Exists(scan.row)
    /\ \A a \in Analysts : an[a].pc # "idle" => Exists(an[a].row)

-----------------------------------------------------------------------------
USE RunsAssumption, DocumentsAssumption, PoliciesAssumption, DisturbancesAssumption DEF device

\* A step of CUPS, its backend or its user disturbs no type the API or the worker rely on.
LEMMA QueueSideTypes ==
    ASSUME TypeInv, UNCHANGED <<policy, api, worker>>, doc' \in Documents,
           run' \in 0 .. MaxRuns, cups' \in CupsState, be' \in Process,
           be'.pc # "idle" => run' \in Runs,
           syslog' \subseteq Audit, prints' \subseteq Delivery, forgotten' \subseteq Runs
    PROVE  TypeInv'
BY DEF TypeInv, TypeOK, InspTyped, Exists, api, worker

\* What CUPS and the backend become when the backend exits, releases, or CUPS is commanded.
LEMMA CupsTypes ==
    ASSUME TypeInv
    PROVE  /\ \A c \in CupsState : Exit(c) => cups' \in CupsState /\ be' \in Process /\ be'.pc = "idle"
           /\ \A w \in Why : Release(w) => cups' \in CupsState /\ be' \in Process
           /\ \A w \in Why : FailMode(w) => cups' \in CupsState /\ be' \in Process
           /\ CupsResume => cups' \in CupsState /\ be' = be
           /\ CupsCancel => cups' \in CupsState /\ be' \in Process /\ (be'.pc = "idle" \/ be' = be)
<1>1. Idle \in Process /\ Idle.pc = "idle"
  BY DEF Idle, Process, Action, Why
<1>2. ASSUME NEW w \in Why PROVE [be EXCEPT !.pc = "exec", !.why = w] \in Process
  BY DEF TypeInv, TypeOK, Process
<1>3. \A c \in CupsState : Exit(c) => cups' \in CupsState /\ be' \in Process /\ be'.pc = "idle"
  BY <1>1 DEF Exit
<1>4. \A w \in Why : Release(w) => cups' \in CupsState /\ be' \in Process
  BY <1>2 DEF Release, TypeInv, TypeOK
<1>5. {"held", "canceled", "pending"} \subseteq CupsState
  BY DEF CupsState
<1>6. \A w \in Why : FailMode(w) => cups' \in CupsState /\ be' \in Process
  BY <1>3, <1>4, <1>5 DEF FailMode
<1>7. cups \in CupsState /\ be \in Process
  BY DEF TypeInv, TypeOK
<1> QED BY <1>3, <1>4, <1>5, <1>6, <1>7 DEF CupsResume, CupsCancel

\* The backend keeps the types: a run that is going on is one of the counted ones.
LEMMA BackendTypes ==
    ASSUME TypeInv, Backend
    PROVE  TypeInv'
<1>0. /\ be \in Process /\ cups \in CupsState /\ run \in 0 .. MaxRuns
      /\ doc \in Documents /\ syslog \subseteq Audit /\ prints \subseteq Delivery /\ forgotten \subseteq Runs
      /\ be.pc # "idle" => run \in Runs
  BY DEF TypeInv, TypeOK
<1>1. CASE BackendStart
  <2>1. be' \in Process /\ cups' \in CupsState /\ run' \in Runs
    <3>1. Idle \in Process
      BY DEF Idle, Process, Action, Why
    <3>2. [Idle EXCEPT !.pc = "preflight"] \in Process
      BY <3>1 DEF Process
    <3> QED BY <1>0, <1>1, <3>2 DEF BackendStart, CupsState, Runs
  <2> QED BY <1>0, <1>1, <2>1, QueueSideTypes DEF BackendStart, Runs
<1>2. CASE PreflightAnswered
  <2>1. Granted \in BOOLEAN
    BY DEF Granted
  <2>2. ASSUME NEW g \in BOOLEAN PROVE [be EXCEPT !.pc = "spool", !.granted = g] \in Process
    BY <1>0 DEF Process
  <2>3. be' \in Process
    BY <1>2, <2>1, <2>2 DEF PreflightAnswered
  <2> QED BY <1>0, <1>2, <2>3, QueueSideTypes DEF PreflightAnswered
<1>3. CASE PreflightUnavailable
  <2>1. be' \in Process
    BY <1>0, <1>3 DEF PreflightUnavailable, Process
  <2> QED BY <1>0, <1>3, <2>1, QueueSideTypes DEF PreflightUnavailable
<1>4. CASE SpoolJob
  <2>1. be' \in Process /\ cups' \in CupsState /\ syslog' \subseteq Audit
    <3>1. {"grant", "oversize"} \subseteq Why /\ "OVERSIZE_UNINSPECTED" \in Audit
      BY DEF Why, Audit
    <3>2. [be EXCEPT !.pc = "post"] \in Process
      BY <1>0 DEF Process
    <3> QED BY <1>0, <1>4, <3>1, <3>2, CupsTypes DEF SpoolJob
  <2> QED BY <1>0, <1>4, <2>1, QueueSideTypes DEF SpoolJob
<1>5. CASE PostForInspection
  <2> DEFINE i == [pc |-> "queued", doc |-> doc, row |-> run, loaded |-> NoRow,
                   archived |-> FALSE, verdict |-> [action |-> "none"]]
  <2>1. be' \in Process /\ run \in Runs
    BY <1>0, <1>5 DEF PostForInspection, Process
  <2>2. i \in Inspection
    BY <1>0, <2>1 DEF Inspection
  <2>3. InspTyped(i)
    BY <2>2 DEF InspTyped, HasVerdict, NeedsRow
  <2> QED BY <1>5, <2>1, <2>3 DEF PostForInspection, TypeInv, TypeOK, InspTyped, Exists, worker
<1>6. CASE PostFails
  <2>1. "unreachable" \in Why /\ {"INSPECTION_FAILED_OPEN", "INSPECTION_FAILED_CLOSED"} \subseteq Audit
    BY DEF Why, Audit
  <2>2. be' \in Process /\ cups' \in CupsState /\ syslog' \subseteq Audit
    BY <1>0, <1>6, <2>1, CupsTypes DEF PostFails
  <2> QED BY <1>0, <1>6, <2>2, QueueSideTypes DEF PostFails
<1>7. CASE ObeyVerdict
  <2>1. "verdict" \in Why /\ {"held", "canceled"} \subseteq CupsState
    BY DEF Why, CupsState
  <2>2. be' \in Process /\ cups' \in CupsState
    BY <1>0, <1>7, <2>1, CupsTypes DEF ObeyVerdict
  <2> QED BY <1>0, <1>7, <2>2, QueueSideTypes DEF ObeyVerdict
<1>8. CASE BackendError
  <2>1. "error" \in Why /\ "pending" \in CupsState /\ "BACKEND_ERROR" \in Audit
    BY DEF Why, CupsState, Audit
  <2>2. be' \in Process /\ cups' \in CupsState /\ syslog' \subseteq Audit
    BY <1>0, <1>8, <2>1, CupsTypes DEF BackendError
  <2> QED BY <1>0, <1>8, <2>2, QueueSideTypes DEF BackendError
<1>9. CASE ExecRealBackend
  <2>1. [be EXCEPT !.pc = "device"] \in Process /\ "stopped" \in CupsState
    BY <1>0 DEF Process, CupsState
  <2>2. be' \in Process /\ cups' \in CupsState
    BY <1>0, <1>9, <2>1, CupsTypes DEF ExecRealBackend
  <2> QED BY <1>0, <1>9, <2>2, QueueSideTypes DEF ExecRealBackend
<1> QED BY <1>1, <1>2, <1>3, <1>4, <1>5, <1>6, <1>7, <1>8, <1>9 DEF Backend

\* The real backend delivers for the run in progress, and ends it.
LEMMA RealBackendTypes ==
    ASSUME TypeInv, RealBackend
    PROVE  TypeInv'
<1>0. /\ be \in Process /\ cups \in CupsState /\ run \in 0 .. MaxRuns
      /\ doc \in Documents /\ prints \subseteq Delivery /\ forgotten \subseteq Runs
      /\ be.pc # "idle" => run \in Runs
  BY DEF TypeInv, TypeOK
<1>1. CASE RealBackendSends
  <2>1. [doc |-> doc, why |-> be.why, run |-> run] \in Delivery
    BY <1>0, <1>1 DEF RealBackendSends, Delivery, Process
  <2>2. prints' \subseteq Delivery /\ UNCHANGED <<policy, doc, cups, run, be, api, worker, syslog, forgotten>>
    BY <1>0, <1>1, <2>1 DEF RealBackendSends
  <2> QED BY <1>0, <2>2, QueueSideTypes DEF TypeInv, TypeOK
<1>2. CASE RealBackendExits
  <2>1. {"completed", "pending", "stopped", "held", "canceled"} \subseteq CupsState
    BY DEF CupsState
  <2>2. be' \in Process /\ be'.pc = "idle" /\ cups' \in CupsState
    BY <1>2, <2>1, CupsTypes DEF RealBackendExits
  <2>3. forgotten' \subseteq Runs /\ UNCHANGED <<policy, doc, run, api, worker, syslog, prints>>
    BY <1>0, <1>2 DEF RealBackendExits, Forget
  <2> QED BY <1>0, <2>2, <2>3, QueueSideTypes DEF TypeInv, TypeOK
<1> QED BY <1>1, <1>2 DEF RealBackend

-----------------------------------------------------------------------------
\* One session changes, and with it nothing another process reads but `be`.
LEMMA InspectionTypes ==
    ASSUME TypeInv, NEW n \in Runs, NEW i, InspTyped(i), insp' = [insp EXCEPT ![n] = i],
           UNCHANGED <<policy, doc, cups, run, rows, an, events, worker, syslog, device>>,
           be' \in Process, be'.pc # "idle" => run \in Runs
    PROVE  TypeInv'
BY DEF TypeInv, TypeOK, InspTyped, Exists, worker

\* One row is written, with what is recorded of it.
LEMMA RowTypes ==
    ASSUME TypeInv, NEW r \in Runs, NEW row \in Row, rows' = [rows EXCEPT ![r] = row]
    PROVE  /\ rows' \in [Runs -> Row \cup {NoRow}]
           /\ Exists(r)' /\ \A q \in Runs : Exists(q) => Exists(q)'
<1>1. row.state # "none"
  BY DEF Row, JobState
<1> QED BY <1>1 DEF TypeInv, TypeOK, Exists

\* A row that exists is a row.
LEMMA RowsOfRuns ==
    ASSUME TypeInv, NEW r \in Runs, Exists(r)
    PROVE  rows[r] \in Row
BY DEF TypeInv, TypeOK, Exists, NoRow

\* An inspection in progress is neither absent nor over.
LEMMA InspectionsOfRuns ==
    ASSUME NEW i, InspTyped(i), InProgress(i)
    PROVE  i \in Inspection
BY DEF InspTyped, InProgress, NoInsp

\* What an inspection writes is a row, be it new or the one it loaded.
LEMMA InspectedTypes ==
    ASSUME TypeInv, NEW i \in Inspection, NeedsRow(i) => Exists(i.row), i.pc # "queued", NEW v \in Verdict
    PROVE  Inspected(i, v) \in Row
<1>1. CASE i.loaded = NoRow
  BY <1>1 DEF Inspected, Row, Verdict, Inspection
<1>2. CASE i.loaded # NoRow
  <2>1. rows[i.row] \in Row
    BY <1>2, RowsOfRuns DEF NeedsRow, InProgress, Inspection
  <2> DEFINE a == IF v.action = i.loaded.action THEN rows[i.row].action ELSE v.action
             t == IF v.tier = i.loaded.tier THEN rows[i.row].tier ELSE v.tier
  <2>2. a \in Action /\ t \in ScanTier /\ v.state \in JobState /\ v.blocking \in BOOLEAN
    BY <2>1 DEF Row, Verdict
  <2> HIDE DEF a, t
  <2>3. [rows[i.row] EXCEPT !.state = v.state, !.blocking = v.blocking, !.action = a, !.tier = t] \in Row
    BY <2>1, <2>2 DEF Row
  <2> QED BY <1>2, <2>3 DEF Inspected, a, t
<1> QED BY <1>1, <1>2

\* Writing a row disturbs nobody: what others are about to write is still there.
LEMMA RowWriteTypes ==
    ASSUME TypeInv, NEW r \in Runs, NEW row \in Row, rows' = [rows EXCEPT ![r] = row],
           UNCHANGED <<policy, doc, cups, run, be, scanq, syslog, device>>,
           events' \subseteq Runs \X EventKind,
           insp' \in [Runs -> NoInsp \cup Inspection],
           \A n \in Runs : insp'[n] = insp[n] \/ InspTyped(insp[n])',
           scan' \in DeepScan \cup {NoScan}, scan'.pc = "idle" \/ scan' = scan,
           an' \in [Analysts -> Decision \cup {NoDecision}],
           \A a \in Analysts : an'[a].pc = "idle" \/ an'[a] = an[a]
    PROVE  TypeInv'
<1>1. /\ rows' \in [Runs -> Row \cup {NoRow}]
      /\ Exists(r)' /\ \A q \in Runs : Exists(q) => Exists(q)'
  BY RowTypes
<1>2. TypeOK'
  BY <1>1 DEF TypeInv, TypeOK
<1>3. \A n \in Runs : InspTyped(insp[n])'
  <2>1. ASSUME NEW n \in Runs, insp'[n] = insp[n] PROVE InspTyped(insp[n])'
    <3>1. insp[n].row \in Runs \/ ~NeedsRow(insp[n])
      BY DEF TypeInv, InspTyped, NeedsRow, InProgress, NoInsp, Inspection
    <3> QED BY <2>1, <3>1, <1>1 DEF TypeInv, InspTyped, Exists, NeedsRow, HasVerdict, InProgress
  <2> QED BY <2>1
<1>4. /\ \A q \in Runs : scanq[q] > 0 => Exists(q)'
      /\ scan'.pc # "idle" => Exists(scan.row)'
      /\ \A a \in Analysts : an'[a].pc # "idle" => Exists(an[a].row)'
  <2>1. scan'.pc # "idle" => scan.row \in Runs /\ scan' = scan
    BY DEF TypeInv, TypeOK, DeepScan, NoScan
  <2>2. \A a \in Analysts : an'[a].pc # "idle" => an[a].row \in Runs /\ an'[a] = an[a]
    BY DEF TypeInv, TypeOK, Decision, NoDecision
  <2> QED BY <1>1, <2>1, <2>2 DEF TypeInv, Exists
<1> QED BY <1>2, <1>3, <1>4 DEF TypeInv

\* The dedup query chooses a row that exists, or the one it will insert.
LEMMA InspectSelectTypes ==
    ASSUME TypeInv, NEW n \in Runs, InspectSelect(n)
    PROVE  TypeInv'
<1> DEFINE same == {r \in Runs : Exists(r) /\ rows[r].doc = insp[n].doc}
           row  == IF same = {} THEN n ELSE Max(same)
<1>1. row \in Runs
  BY MaxOfRuns
<1> HIDE DEF row
<1>2. rows[row] \in Row \cup {NoRow}
  BY <1>1 DEF TypeInv, TypeOK
<1>i. PICK i : i = [insp[n] EXCEPT !.pc = "selected", !.row = row, !.loaded = rows[row]]
  OBVIOUS
<1>3. insp[n] \in Inspection
  BY InspectionsOfRuns DEF InspectSelect, TypeInv, InProgress
<1>4. i \in Inspection
  BY <1>i, <1>1, <1>2, <1>3 DEF Inspection
<1>5. InspTyped(i)
  <2>1. rows[row] # NoRow => Exists(row)
    BY <1>2 DEF Exists, Row, JobState
  <2> QED BY <1>i, <1>3, <1>4, <2>1 DEF InspTyped, HasVerdict, NeedsRow, Inspection
<1>6. insp' = [insp EXCEPT ![n] = i]
  BY <1>i DEF InspectSelect, row, TypeInv, TypeOK
<1>7. be' \in Process /\ (be'.pc # "idle" => run \in Runs)
  BY DEF InspectSelect, TypeInv, TypeOK
<1> QED BY <1>5, <1>6, <1>7, InspectionTypes DEF InspectSelect

\* A verdict is stored in a row that exists from then on, or kept until the commit.
LEMMA InspectJobTypes ==
    ASSUME TypeInv, NEW n \in Runs, InspectJob(n)
    PROVE  TypeInv'
<1>1. PICK v \in Verdicts(insp[n].doc, policy, "inspector_error" \in Disturbances), ok \in BOOLEAN :
        LET i == [insp[n] EXCEPT !.verdict = v, !.archived = ok]
        IN  \/ /\ insp' = [insp EXCEPT ![n] = [i EXCEPT !.pc = "stored"]]
               /\ rows' = [rows EXCEPT ![i.row] = Inspected(i, v)]
               /\ events' = events \cup {<<i.row, v.kind>>}
            \/ /\ insp' = [insp EXCEPT ![n] = [i EXCEPT !.pc = "returned"]]
               /\ UNCHANGED <<rows, events>>
  BY DEF InspectJob
<1>i. PICK i : i = [insp[n] EXCEPT !.verdict = v, !.archived = ok]
  OBVIOUS
<1>2. insp[n] \in Inspection /\ insp[n].pc = "selected"
  BY InspectionsOfRuns DEF InspectJob, TypeInv, InProgress
<1>3. v \in Verdict
  <2>1. insp[n].doc \in Document /\ policy \in Policy
    BY <1>2, DocumentsAssumption, PoliciesAssumption DEF Inspection, TypeInv, TypeOK
  <2>2. v \in Verdicts(insp[n].doc, policy, TRUE)
    BY <1>1 DEF Verdicts
  <2> QED BY <2>1, <2>2, VerdictsAreVerdicts
<1>4. /\ i \in Inspection /\ i.pc = "selected" /\ i.row = insp[n].row
      /\ i.loaded = insp[n].loaded /\ i.verdict = v
  BY <1>i, <1>2, <1>3 DEF Inspection
<1>5. i.row \in Runs /\ (NeedsRow(i) => Exists(i.row))
  BY <1>2, <1>4 DEF TypeInv, InspTyped, NeedsRow, InProgress, Inspection
<1>6. ASSUME NEW pc \in {"stored", "returned"}, NEW j, j = [i EXCEPT !.pc = pc]
      PROVE  j \in Inspection /\ j.verdict = v /\ j.row = i.row /\ j.loaded = i.loaded /\ j.pc = pc
  BY <1>4, <1>6 DEF Inspection
<1>7. be \in Process /\ be.pc # "idle" => run \in Runs
  BY DEF TypeInv
<1>8. CASE /\ insp' = [insp EXCEPT ![n] = [i EXCEPT !.pc = "returned"]]
           /\ UNCHANGED <<rows, events>>
  <2>j. PICK j : j = [i EXCEPT !.pc = "returned"]
    OBVIOUS
  <2>1. InspTyped(j)
    BY <1>3, <1>4, <1>5, <1>6, <2>j DEF InspTyped, HasVerdict, NeedsRow, InProgress
  <2>2. insp' = [insp EXCEPT ![n] = j]
    BY <1>8, <2>j
  <2>3. be' \in Process /\ be' = be /\ (be'.pc # "idle" => run \in Runs)
    BY DEF InspectJob, TypeInv, TypeOK
  <2> QED BY <1>8, <2>1, <2>2, <2>3, InspectionTypes DEF InspectJob
<1>9. CASE /\ insp' = [insp EXCEPT ![n] = [i EXCEPT !.pc = "stored"]]
           /\ rows' = [rows EXCEPT ![i.row] = Inspected(i, v)]
           /\ events' = events \cup {<<i.row, v.kind>>}
  <2>j. PICK j : j = [i EXCEPT !.pc = "stored"]
    OBVIOUS
  <2>1. Inspected(i, v) \in Row
    BY <1>3, <1>4, <1>5, InspectedTypes
  <2>3. j \in Inspection /\ j.verdict = v /\ j.row = i.row /\ j.pc = "stored"
    BY <1>6, <2>j
  <2>4. insp' = [insp EXCEPT ![n] = j]
    BY <1>9, <2>j
  <2>5. events' \subseteq Runs \X EventKind
    <3>1. v.kind \in EventKind
      BY <1>3 DEF Verdict, EventKind
    <3> QED BY <1>5, <1>9, <3>1 DEF TypeInv, TypeOK
  <2>6. UNCHANGED <<policy, doc, cups, run, be, an, worker, syslog, device>>
    BY DEF InspectJob
  <2>7. InspTyped(insp[n])'
    <3>1. insp'[n] = j /\ Exists(i.row)'
      BY <2>1, <2>4, <1>5, <1>9, RowTypes DEF TypeInv, TypeOK
    <3> QED BY <1>3, <2>3, <3>1 DEF InspTyped, HasVerdict, NeedsRow, InProgress, Exists
  <2>8. /\ insp' \in [Runs -> NoInsp \cup Inspection]
        /\ \A m \in Runs \ {n} : insp'[m] = insp[m]
    BY <2>3, <2>4 DEF TypeInv, TypeOK
  <2>9. PICK row \in Row : rows' = [rows EXCEPT ![i.row] = row]
    BY <1>9, <2>1
  <2>10. scan \in DeepScan \cup {NoScan} /\ an \in [Analysts -> Decision \cup {NoDecision}]
    BY DEF TypeInv, TypeOK
  <2> QED BY <1>5, <2>5, <2>6, <2>7, <2>8, <2>9, <2>10, RowWriteTypes DEF worker
<1> QED BY <1>1, <1>i, <1>8, <1>9

\* A scan is queued for a row that has been committed.
LEMMA EnqueueDeepScanTypes ==
    ASSUME TypeInv, NEW n \in Runs, EnqueueDeepScan(n)
    PROVE  TypeInv'
<1>1. PICK i : i = [insp[n] EXCEPT !.pc = "committed"]
  OBVIOUS
<1>2. insp[n] \in Inspection /\ insp[n].pc = "stored" /\ insp[n].row \in Runs /\ Exists(insp[n].row)
  <2>1. insp[n] \in Inspection /\ InspTyped(insp[n])
    BY InspectionsOfRuns DEF EnqueueDeepScan, TypeInv, InProgress
  <2>2. insp[n].pc = "stored" /\ Exists(insp[n].row)
    BY <2>1 DEF EnqueueDeepScan, InspTyped, NeedsRow
  <2>3. insp[n].row \in Runs
    BY <2>1 DEF Inspection
  <2> QED BY <2>1, <2>2, <2>3
<1>3. i \in Inspection /\ InspTyped(i)
  BY <1>1, <1>2 DEF Inspection, InspTyped, HasVerdict, NeedsRow, TypeInv
<1>4. insp' = [insp EXCEPT ![n] = i]
  BY <1>1 DEF EnqueueDeepScan
<1>5. /\ scanq' \in [Runs -> Nat]
      /\ \A r \in Runs : scanq'[r] > 0 => Exists(r)
  BY <1>2 DEF EnqueueDeepScan, TypeInv, TypeOK
<1>6. UNCHANGED <<policy, doc, cups, run, be, rows, an, events, scan, syslog, device>>
  BY DEF EnqueueDeepScan
<1>7. TypeOK'
  BY <1>3, <1>4, <1>5, <1>6 DEF TypeInv, TypeOK, InspTyped
<1>8. \A m \in Runs : InspTyped(insp[m])'
  <2>1. \A m \in Runs : InspTyped(insp'[m])
    BY <1>3, <1>4 DEF TypeInv, TypeOK
  <2> QED BY <1>6, <2>1 DEF InspTyped, Exists
<1> QED BY <1>5, <1>6, <1>7, <1>8 DEF TypeInv, Exists

\* The commit writes a row and leaves nothing of the session that depends on it.
LEMMA InspectCommitTypes ==
    ASSUME TypeInv, NEW n \in Runs, InspectCommit(n)
    PROVE  TypeInv'
<1>1. PICK i : i = insp[n]
  OBVIOUS
<1>2. i \in Inspection /\ i.pc \in {"returned", "replied"} /\ InspTyped(i) /\ i.row \in Runs
  BY <1>1, InspectionsOfRuns DEF InspectCommit, TypeInv, InProgress, Inspection
<1>3. PICK j : j = IF i.pc = "replied" THEN [pc |-> "done"] ELSE [i EXCEPT !.pc = "committed"]
  OBVIOUS
<1>4. /\ j \in NoInsp \cup Inspection /\ j.pc \in {"done", "committed"}
      /\ j.pc = "committed" => j.row = i.row /\ j.verdict \in Verdict
  <2>1. i.verdict \in Verdict
    BY <1>2 DEF InspTyped, HasVerdict
  <2> QED BY <1>2, <1>3, <2>1 DEF NoInsp, Inspection
<1>5. insp' = [insp EXCEPT ![n] = j]
  BY <1>1, <1>3 DEF InspectCommit
<1>6. PICK row \in Row : rows' = [rows EXCEPT ![i.row] = row]
  <2>1. Inspected(i, i.verdict) \in Row
    BY <1>2, InspectedTypes DEF InspTyped, HasVerdict
  <2> QED BY <1>1, <2>1 DEF InspectCommit
<1>7. events' \subseteq Runs \X EventKind
  <2>1. i.verdict.kind \in EventKind
    BY <1>2 DEF InspTyped, HasVerdict, Verdict, EventKind
  <2> QED BY <1>1, <1>2, <2>1 DEF InspectCommit, TypeInv, TypeOK
<1>8. InspTyped(insp[n])'
  <2>1. Exists(i.row)' /\ insp'[n] = j
    BY <1>2, <1>5, <1>6, RowTypes DEF TypeInv, TypeOK
  <2> QED BY <1>4, <2>1 DEF InspTyped, HasVerdict, NeedsRow, InProgress, Exists
<1>9. /\ insp' \in [Runs -> NoInsp \cup Inspection]
      /\ \A m \in Runs \ {n} : insp'[m] = insp[m]
  BY <1>4, <1>5 DEF TypeInv, TypeOK
<1>10. scan \in DeepScan \cup {NoScan} /\ an \in [Analysts -> Decision \cup {NoDecision}]
  BY DEF TypeInv, TypeOK
<1>11. UNCHANGED <<policy, doc, cups, run, be, scanq, scan, an, syslog, device>>
  BY DEF InspectCommit, worker
<1> QED BY <1>2, <1>6, <1>7, <1>8, <1>9, <1>10, <1>11, RowWriteTypes

\* A response reaches the backend that waits for it, or nobody.
LEMMA InspectReplyTypes ==
    ASSUME TypeInv, NEW n \in Runs, InspectReply(n)
    PROVE  TypeInv'
<1>1. insp[n] \in Inspection /\ insp[n].pc \in {"returned", "committed"} /\ InspTyped(insp[n])
  BY InspectionsOfRuns DEF InspectReply, TypeInv, InProgress
<1>2. PICK j : j = IF insp[n].pc = "committed" THEN [pc |-> "done"]
                   ELSE [insp[n] EXCEPT !.pc = "replied"]
  OBVIOUS
<1>3. j \in NoInsp \cup Inspection /\ InspTyped(j)
  BY <1>1, <1>2 DEF NoInsp, Inspection, InspTyped, HasVerdict, NeedsRow, InProgress
<1>4. insp' = [insp EXCEPT ![n] = j]
  BY <1>2 DEF InspectReply
<1>5. be' \in Process /\ (be'.pc # "idle" => run \in Runs)
  <2>1. insp[n].verdict.action \in Action
    BY <1>1 DEF InspTyped, HasVerdict, Verdict
  <2>2. \A a \in Action : [be EXCEPT !.pc = "verdict", !.action = a] \in Process
    BY DEF TypeInv, TypeOK, Process
  <2> QED BY <2>1, <2>2 DEF InspectReply, TypeInv, TypeOK
<1> QED BY <1>3, <1>4, <1>5, InspectionTypes DEF InspectReply

\* The whole of POST /inspect keeps the types.
LEMMA InspectorTypes ==
    ASSUME TypeInv, Inspector
    PROVE  TypeInv'
BY InspectSelectTypes, InspectJobTypes, EnqueueDeepScanTypes, InspectCommitTypes, InspectReplyTypes
   DEF Inspector

-----------------------------------------------------------------------------
\* An analyst decides on a row that exists and stays.
LEMMA DecideTypes ==
    ASSUME TypeInv, Decide
    PROVE  TypeInv'
<1>1. PICK a \in Analysts : \/ DecisionRead(a) \/ DecisionFlush(a)
                            \/ DecisionCallCups(a) \/ DecisionCommit(a)
  BY DEF Decide
<1>2. an[a].pc # "idle" => an[a] \in Decision /\ Exists(an[a].row)
  BY DEF TypeInv, TypeOK, NoDecision
<1>3. CASE DecisionRead(a)
  <2>1. PICK r \in Runs, k \in {"released", "denied"} :
           /\ rows[r].state = "held"
           /\ an' = [an EXCEPT ![a] = [pc |-> "read", kind |-> k, row |-> r]]
    BY <1>3 DEF DecisionRead
  <2>2. [pc |-> "read", kind |-> k, row |-> r] \in Decision /\ Exists(r)
    BY <2>1 DEF Decision, Exists
  <2> QED BY <1>3, <2>1, <2>2 DEF DecisionRead, TypeInv, TypeOK, InspTyped, Exists, worker
<1>4. CASE DecisionFlush(a)
  <2>1. PICK d : d = [an[a] EXCEPT !.pc = "flushed"]
    OBVIOUS
  <2>2. d \in Decision /\ Exists(d.row)
    BY <1>2, <1>4, <2>1 DEF Decision, DecisionFlush
  <2>3. an' = [an EXCEPT ![a] = d]
    BY <1>4, <2>1 DEF DecisionFlush
  <2> QED BY <1>4, <2>2, <2>3 DEF DecisionFlush, TypeInv, TypeOK, InspTyped, Exists, worker
<1>5. CASE DecisionCallCups(a)
  <2>1. PICK d : d = [an[a] EXCEPT !.pc = "called"]
    OBVIOUS
  <2>2. d \in Decision /\ Exists(d.row)
    BY <1>2, <1>5, <2>1 DEF Decision, DecisionCallCups
  <2>3. an' = [an EXCEPT ![a] = d]
    BY <1>5, <2>1 DEF DecisionCallCups
  <2>4. cups' \in CupsState /\ be' \in Process /\ (be'.pc # "idle" => run \in Runs)
    BY <1>5, CupsTypes DEF DecisionCallCups, TypeInv, TypeOK
  <2> QED BY <1>5, <2>2, <2>3, <2>4 DEF DecisionCallCups, TypeInv, TypeOK, InspTyped, Exists, worker
<1>6. CASE DecisionCommit(a)
  <2>1. PICK d : d = an[a]
    OBVIOUS
  <2>2. d \in Decision /\ d.row \in Runs /\ rows[d.row] \in Row
    BY <1>2, <1>6, <2>1, RowsOfRuns DEF Decision, DecisionCommit
  <2>3. \A s \in JobState : [rows[d.row] EXCEPT !.state = s] \in Row
    BY <2>2 DEF Row
  <2>4. PICK row \in Row : rows' = [rows EXCEPT ![d.row] = row]
    BY <1>6, <2>1, <2>3 DEF DecisionCommit, JobState
  <2>5. events' \subseteq Runs \X EventKind
    BY <1>6, <2>1, <2>2 DEF DecisionCommit, TypeInv, TypeOK, Decision, EventKind
  <2>6. /\ an' \in [Analysts -> Decision \cup {NoDecision}]
        /\ \A b \in Analysts : an'[b].pc = "idle" \/ an'[b] = an[b]
    BY <1>6 DEF DecisionCommit, TypeInv, TypeOK, NoDecision
  <2>7. scan \in DeepScan \cup {NoScan} /\ insp \in [Runs -> NoInsp \cup Inspection]
    BY DEF TypeInv, TypeOK
  <2> QED BY <1>6, <2>2, <2>4, <2>5, <2>6, <2>7, RowWriteTypes DEF DecisionCommit, worker
<1> QED BY <1>1, <1>3, <1>4, <1>5, <1>6

\* What a deep scan makes of a row is a row.
LEMMA ScannedTypes ==
    ASSUME NEW row \in Row, NEW found \in Action
    PROVE  Scanned(row, found) \in Row
<1>1. Restricts(found) => state_for(found) \in JobState
  BY RanksKnown DEF state_for, JobState
<1> DEFINE s == scanned_state(row.state, row.blocking, found)
           a == IF Restricts(found) THEN found ELSE row.action
<1>2. s \in JobState
  BY <1>1 DEF scanned_state, JobState, Row
<1>3. a \in Action
  BY DEF Row
<1> HIDE DEF s, a
<1>4. [row EXCEPT !.tier = "ocr_complete", !.action = a, !.state = s] \in Row
  BY <1>2, <1>3 DEF Row, ScanTier
<1> QED BY <1>4 DEF Scanned, s, a

\* The worker takes only scans that were queued, of rows that exist.
LEMMA WorkerTypes ==
    ASSUME TypeInv, Worker \/ ScanDies
    PROVE  TypeInv'
<1>0. /\ scan.pc # "idle" => scan \in DeepScan /\ scan.row \in Runs /\ Exists(scan.row)
      /\ be \in Process /\ cups \in CupsState
  BY DEF TypeInv, TypeOK, NoScan, DeepScan
<1>1. ASSUME NEW r \in Runs, ScanLoad(r) PROVE TypeInv'
  <2>1. rows[r] \in Row /\ Exists(r) /\ scanq' \in [Runs -> Nat]
    BY <1>1, RowsOfRuns DEF ScanLoad, TypeInv, TypeOK
  <2>2. \A q \in Runs : scanq'[q] > 0 => Exists(q)
    BY <1>1, <2>1 DEF ScanLoad, TypeInv, TypeOK
  <2>3. scan' \in DeepScan \cup {NoScan} /\ (scan'.pc # "idle" => Exists(scan'.row))
    BY <1>1, <2>1 DEF ScanLoad, DeepScan, NoScan
  <2> QED BY <1>1, <2>1, <2>2, <2>3 DEF ScanLoad, TypeInv, TypeOK, InspTyped, Exists, api
<1>2. CASE ScanOcr
  <2>1. PICK found \in OcrActions(scan.loaded.doc) :
          /\ scan' = [scan EXCEPT !.pc = "write", !.new = Scanned(scan.loaded, found)]
          /\ CupsResume \/ UNCHANGED <<cups, be>>
    BY <1>2 DEF ScanOcr
  <2>2. scan \in DeepScan /\ scan.loaded \in Row
    BY <1>0, <1>2 DEF ScanOcr, DeepScan
  <2>3. found \in Action
    <3>1. scan.loaded.doc \in Document
      BY <2>2, DocumentsAssumption DEF Row
    <3> QED BY <2>1, <3>1, StricterIsEither DEF OcrActions, Document, Action
  <2>4. PICK new \in Row : new = Scanned(scan.loaded, found)
    BY <2>2, <2>3, ScannedTypes
  <2>5. scan' \in DeepScan /\ scan'.row = scan.row
    BY <2>1, <2>2, <2>4 DEF DeepScan
  <2>6. cups' \in CupsState /\ be' = be
    BY <1>0, <2>1, CupsTypes
  <2> QED BY <1>0, <1>2, <2>5, <2>6 DEF ScanOcr, TypeInv, TypeOK, InspTyped, Exists, api
<1>3. CASE ScanCannotConvert
  <2>1. scan \in DeepScan /\ scan.loaded \in Row
    BY <1>0, <1>3 DEF ScanCannotConvert, DeepScan
  <2>2. [scan.loaded EXCEPT !.tier = "unreadable"] \in Row
    BY <2>1 DEF Row, ScanTier
  <2>3. scan' \in DeepScan /\ scan'.row = scan.row
    BY <1>3, <2>1, <2>2 DEF ScanCannotConvert, DeepScan
  <2> QED BY <1>0, <1>3, <2>3 DEF ScanCannotConvert, TypeInv, TypeOK, InspTyped, Exists, api
<1>4. CASE ScanWrite
  <2>1. PICK d : d = scan
    OBVIOUS
  <2>2. d.row \in Runs /\ rows[d.row] \in Row /\ d.new \in Row
    BY <1>0, <1>4, <2>1, RowsOfRuns DEF ScanWrite, DeepScan
  <2>3. PICK row \in Row : rows' = [rows EXCEPT ![d.row] = row]
    <3> DEFINE set(now, loaded, new) == IF new = loaded THEN now ELSE new
    <3>1. PICK s, a, t : /\ s = set(rows[d.row].state, d.loaded.state, d.new.state)
                         /\ a = set(rows[d.row].action, d.loaded.action, d.new.action)
                         /\ t = set(rows[d.row].tier, d.loaded.tier, d.new.tier)
      OBVIOUS
    <3>2. s \in JobState /\ a \in Action /\ t \in ScanTier
      BY <2>2, <3>1 DEF Row
    <3>3. [rows[d.row] EXCEPT !.state = s, !.action = a, !.tier = t] \in Row
      BY <2>2, <3>2 DEF Row
    <3> QED BY <1>4, <2>1, <3>1, <3>3 DEF ScanWrite
  <2>4. events' \subseteq Runs \X EventKind
    BY <1>4, <2>1, <2>2 DEF ScanWrite, TypeInv, TypeOK, EventKind
  <2>5. /\ scan' = NoScan /\ NoScan.pc = "idle"
        /\ an \in [Analysts -> Decision \cup {NoDecision}]
        /\ insp \in [Runs -> NoInsp \cup Inspection]
    BY <1>4 DEF ScanWrite, NoScan, TypeInv, TypeOK
  <2>6. UNCHANGED <<policy, doc, cups, run, be, insp, an, scanq, syslog, device>>
    BY <1>4 DEF ScanWrite
  <2> QED BY <2>2, <2>3, <2>4, <2>5, <2>6, RowWriteTypes
<1>5. CASE ScanDies
  BY <1>5 DEF ScanDies, NoScan, TypeInv, TypeOK, InspTyped, Exists, api
<1> QED BY <1>1, <1>2, <1>3, <1>4, <1>5 DEF Worker

\* Crashes, restarts, cancellations and a lost spool leave every type as it was.
LEMMA DisturbanceTypes ==
    ASSUME TypeInv, Disturbance
    PROVE  TypeInv'
<1>0. /\ be \in Process /\ cups \in CupsState /\ run \in 0 .. MaxRuns
      /\ doc \in Documents /\ syslog \subseteq Audit /\ prints \subseteq Delivery /\ forgotten \subseteq Runs
      /\ be.pc # "idle" => run \in Runs
  BY DEF TypeInv, TypeOK
<1>1. CASE ApiCrash
  <2>1. insp' \in [Runs -> NoInsp \cup Inspection] /\ \A n \in Runs : InspTyped(insp'[n])
    <3>1. \A n \in Runs : insp[n] \in NoInsp \cup Inspection /\ InspTyped(insp[n])
      BY DEF TypeInv, TypeOK
    <3>2. [pc |-> "dead"] \in NoInsp /\ InspTyped([pc |-> "dead"])
      BY DEF NoInsp, InspTyped, HasVerdict, NeedsRow, InProgress
    <3> QED BY <1>1, <3>1, <3>2 DEF ApiCrash
  <2>2. an' \in [Analysts -> Decision \cup {NoDecision}] /\ \A a \in Analysts : an'[a].pc = "idle"
    BY <1>1 DEF ApiCrash, NoDecision
  <2> QED BY <1>1, <2>1, <2>2 DEF ApiCrash, TypeInv, TypeOK, InspTyped, Exists, worker
<1>2. CASE ScanDies
  BY <1>2, WorkerTypes
<1>3. CASE CupsdRestart \/ OperatorResume \/ UserCancel \/ SpoolReset
  <2>1. "pending" \in CupsState /\ "canceled" \in CupsState
    BY DEF CupsState
  <2>2. cups' \in CupsState /\ be' \in Process /\ (be'.pc = "idle" \/ be' = be)
    BY <1>0, <1>3, <2>1, CupsTypes DEF CupsdRestart, OperatorResume, UserCancel, SpoolReset
  <2>3. forgotten' \subseteq Runs
    <3>1. \A p \in prints : p.run \in Runs
      BY <1>0 DEF Delivery
    <3>2. forgotten' \subseteq forgotten \cup {p.run : p \in prints}
      BY <1>3 DEF CupsdRestart, OperatorResume, UserCancel, SpoolReset, Forget, Sent
    <3> QED BY <1>0, <3>1, <3>2
  <2> QED BY <1>0, <1>3, <2>2, <2>3, QueueSideTypes
       DEF CupsdRestart, OperatorResume, UserCancel, SpoolReset
<1> QED BY <1>1, <1>2, <1>3 DEF Disturbance

\* TypeInv holds at the start and after every step.
LEMMA TypeInvIsInductive ==
    /\ Init => TypeInv
    /\ TypeInv /\ [Next]_vars => TypeInv'
<1>1. ASSUME Init PROVE TypeInv
  <2>1. Idle \in Process /\ "pending" \in CupsState /\ Idle.pc = "idle"
    BY DEF Idle, Process, Action, Why, CupsState
  <2>2. InspTyped([pc |-> "none"]) /\ [pc |-> "none"] \in NoInsp
    BY DEF InspTyped, HasVerdict, NeedsRow, InProgress, NoInsp
  <2> QED BY <1>1, <2>1, <2>2, RunsAssumption DEF Init, TypeInv, TypeOK, NoScan, NoDecision
<1>2. ASSUME TypeInv, UNCHANGED vars PROVE TypeInv'
  BY <1>2, QueueSideTypes DEF vars, api, worker, TypeInv, TypeOK
<1> QED BY <1>1, <1>2, BackendTypes, RealBackendTypes, InspectorTypes, DecideTypes, WorkerTypes, DisturbanceTypes
     DEF Next

(***************************************************************************)
(* Every variable keeps its type; in particular no session ever writes a   *)
(* row that is not there, and the worker takes no scan that nobody queued. *)
(***************************************************************************)
THEOREM TypeCorrect == Spec => []TypeOK
<1>1. TypeInv => TypeOK
  BY DEF TypeInv
<1> QED BY <1>1, TypeInvIsInductive, PTL DEF Spec
==============================================================================
