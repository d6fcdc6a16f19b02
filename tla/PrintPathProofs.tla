--------------------------- MODULE PrintPathProofs ----------------------------
(***************************************************************************)
(* The safety of PrintPath. AuthorityInv says what each party may rely on  *)
(* and owes: an inspection in progress holds a verdict the policy allows   *)
(* and has committed, or will commit, the event that explains it; a        *)
(* committed row is explained by its events; a deep scan holds a snapshot  *)
(* of such a row; and a backend about to print has its authority already.  *)
(* DeliveryInv ties the backend process to the CUPS job's state and places *)
(* every delivery: either CUPS lost sight of it, or it is the newest run's *)
(* and the job is still being printed, or is over for good.                *)
(***************************************************************************)
EXTENDS PrintPathTypes

USE DEF device

\* A failed inspection of row r is in its events.
FailRecorded(r) == {<<r, "fail_open">>, <<r, "fail_closed">>} \cap events # {}

\* What inspection i, asked for by run n, may rely on and what it owes to the log.
InspSound(n, i) ==
    /\ HasVerdict(i) => i.verdict \in Verdicts(i.doc, policy, TRUE)
    /\ i.pc \in {"stored", "committed"} => <<i.row, i.verdict.kind>> \in events
    /\ (InProgress(i) /\ i.loaded # NoRow) => rows[i.row].doc = i.doc
    /\ i.pc \in {"none", "queued"} => ~Exists(n)
    /\ (i.pc \in {"selected", "returned", "replied"} /\ i.loaded = NoRow) => i.row = n /\ ~Exists(n)
    /\ ("spool_reset" \notin Disturbances /\ InProgress(i)) => i.doc = doc

\* What the log shows of row r, whose content is `row`.
RowSound(r, row) ==
    /\ row.state = "released_by_analyst" => <<r, "released">> \in events
    /\ (row.state # "none" /\ ~row.blocking /\ MustHold(row.doc)) => FailRecorded(r)
    /\ (row.state = "released" /\ NeedsReview(row.doc)) => ScanCleared(r, row.doc)
    /\ ("spool_reset" \notin Disturbances /\ row.state # "none") => row.doc = doc

\* A scan is about the document it loaded, and clears only what it may clear.
ScanSound ==
    scan.pc # "idle" =>
        /\ rows[scan.row].doc = scan.loaded.doc
        /\ (~scan.loaded.blocking /\ MustHold(scan.loaded.doc)) => FailRecorded(scan.row)
        /\ (scan.pc = "write" /\ scan.new.state # scan.loaded.state) =>
              /\ scan.new.state # "released_by_analyst"
              /\ scan.new.state = "released" => HeldForScan(scan.loaded)

\* Run n asks for inspection n, and for no other.
RunSound ==
    /\ \A n \in Runs : n > run => insp[n].pc = "none"
    /\ be.pc \in {"preflight", "spool", "post"} => insp[run].pc = "none"
    /\ be.pc = "preflight" => ~be.granted
    /\ (be.pc = "posted" /\ InProgress(insp[run])) => insp[run].doc = doc

\* The backend has its authority before it hands the document on.
BackendHasAuthority ==
    NeedsReview(doc) =>
        /\ (be.pc = "spool" /\ be.granted) => Authority("grant", doc)
        /\ (be.pc = "verdict" /\ be.action \notin {"hold", "block"}) => Authority("verdict", doc)
        /\ be.pc \in {"exec", "device"} => Authority(be.why, doc)

SessionsSound == /\ \A n \in Runs : InspSound(n, insp[n])
                 /\ \A r \in Runs : RowSound(r, rows[r])
                 /\ ScanSound

AuthorityInv == /\ TypeInv /\ SessionsSound /\ RunSound
                /\ BackendHasAuthority /\ PrintNeedsAuthority

-----------------------------------------------------------------------------
\* An authority is never withdrawn: it rests on what was recorded, and records stay.
LEMMA AuthorityLasts ==
    ASSUME policy' = policy, syslog \subseteq syslog', events \subseteq events',
           GapRecorded => GapRecorded', NEW w, NEW d, Authority(w, d)
    PROVE  Authority(w, d)'
BY DEF Authority, ScanCleared

\* Steps that leave the API, the worker and the document alone.
LEMMA QueueSideSound ==
    ASSUME AuthorityInv, UNCHANGED <<policy, doc, api, worker>>, syslog \subseteq syslog'
    PROVE  /\ SessionsSound'
           /\ \A w \in Why, d \in Documents : Authority(w, d) => Authority(w, d)'
           /\ \A d \in Documents : NeedsReview(d)' <=> NeedsReview(d)
<1>1. SessionsSound'
  BY DEF AuthorityInv, SessionsSound, InspSound, RowSound, ScanSound, FailRecorded, ScanCleared,
         NeedsReview, Exists, api, worker
<1>2. GapRecorded => GapRecorded'
  BY DEF GapRecorded, api
<1>3. \A w \in Why, d \in Documents : Authority(w, d) => Authority(w, d)'
  BY <1>2, AuthorityLasts DEF api
<1> QED BY <1>1, <1>3 DEF NeedsReview

\* ... of which the run's own bookkeeping and the authority of the backend remain.
LEMMA QueueSideAuthority ==
    ASSUME AuthorityInv, TypeInv', UNCHANGED <<policy, doc, api, worker>>, syslog \subseteq syslog',
           RunSound', prints' = prints,
           NeedsReview(doc) =>
             /\ (be'.pc = "spool" /\ be'.granted) => Authority("grant", doc)'
             /\ (be'.pc = "verdict" /\ be'.action \notin {"hold", "block"}) => Authority("verdict", doc)'
             /\ \A w \in Why : (be'.pc \in {"exec", "device"} /\ be'.why = w) => Authority(w, doc)'
    PROVE  AuthorityInv'
<1>1. SessionsSound' /\ doc \in Documents /\ doc' = doc
      /\ \A d \in Documents : NeedsReview(d)' <=> NeedsReview(d)
  BY QueueSideSound DEF AuthorityInv, TypeInv, TypeOK
<1>2. BackendHasAuthority'
  <2>1. be'.why \in Why
    BY DEF TypeInv, TypeOK, Process
  <2>2. (NeedsReview(doc) /\ be'.pc \in {"exec", "device"}) => Authority(be.why, doc)'
    BY <2>1 DEF Authority
  <2> QED BY <1>1, <2>2 DEF BackendHasAuthority
<1>3. PrintNeedsAuthority'
  <2>1. \A p \in prints : p.why \in Why /\ p.doc \in Documents
    BY DEF AuthorityInv, TypeInv, TypeOK, Delivery
  <2>2. \A w \in Why, d \in Documents : Authority(w, d) => Authority(w, d)'
    BY QueueSideSound
  <2> QED BY <1>1, <2>1, <2>2 DEF AuthorityInv, PrintNeedsAuthority
<1> QED BY <1>1, <1>2, <1>3 DEF AuthorityInv

\* Each way the backend can come to print is answered for, by what preflight saw,
\* by the verdict it was sent or by what it audited itself.
LEMMA BackendSound ==
    ASSUME AuthorityInv, Backend
    PROVE  AuthorityInv'
<1>0. /\ TypeInv /\ TypeInv' /\ RunSound /\ doc \in Documents /\ be \in Process
      /\ be.pc # "idle" => run \in Runs
      /\ run \in 0 .. MaxRuns /\ policy \in Policy
  BY BackendTypes, PoliciesAssumption DEF AuthorityInv, TypeInv, TypeOK
<1>a. UNCHANGED <<policy, doc, api, worker>> /\ syslog \subseteq syslog'
        => \A w \in Why : Authority(w, doc) => Authority(w, doc)'
  BY <1>0, QueueSideSound
<1>b. NeedsReview(doc) =>
        /\ (be.pc = "spool" /\ be.granted) => Authority("grant", doc)
        /\ (be.pc = "verdict" /\ be.action \notin {"hold", "block"}) => Authority("verdict", doc)
        /\ be.pc \in {"exec", "device"} => Authority(be.why, doc)
  BY DEF AuthorityInv, BackendHasAuthority
<1>c. \A c : Exit(c) => be'.pc = "idle"
  BY DEF Exit, Idle
<1>d. \A w : Release(w) => be'.pc = "exec" /\ be'.why = w
  BY <1>0 DEF Release, Process
<1>1. CASE BackendStart
  <2>1. be'.pc = "preflight" /\ ~be'.granted /\ run' = run + 1 /\ run + 1 \in Runs
    BY <1>0, <1>1, RunsAssumption DEF BackendStart, Idle, Runs
  <2>2. RunSound'
    BY <1>0, <1>1, <2>1 DEF RunSound, BackendStart, api, Runs
  <2> QED BY <1>0, <1>1, <2>1, <2>2, QueueSideAuthority DEF BackendStart
<1>2. CASE PreflightAnswered
  <2>1. be'.pc = "spool" /\ be'.granted = Granted
    BY <1>0, <1>2 DEF PreflightAnswered, Process
  <2>2. RunSound'
    BY <1>0, <1>2, <2>1 DEF RunSound, PreflightAnswered, api
  <2>3. (NeedsReview(doc) /\ Granted) => Authority("grant", doc)
    <3>1. SUFFICES ASSUME NeedsReview(doc), "spool_reset" \notin Disturbances,
                          NEW r \in Runs, Exists(r), rows[r].state \in Cleared
                   PROVE  <<r, "released">> \in events \/ ScanCleared(r, doc)
      BY DEF Granted, Authority
    <3>2. RowSound(r, rows[r])
      BY DEF AuthorityInv, SessionsSound
    <3> QED BY <3>1, <3>2 DEF RowSound, Cleared, Exists
  <2> QED BY <1>0, <1>2, <1>a, <2>1, <2>2, <2>3, QueueSideAuthority DEF PreflightAnswered, Why
<1>3. CASE PreflightUnavailable
  <2>1. be'.pc = "spool" /\ ~be'.granted /\ be.pc = "preflight"
    BY <1>0, <1>3 DEF PreflightUnavailable, Process, RunSound
  <2>2. RunSound'
    BY <1>0, <1>3, <2>1 DEF RunSound, PreflightUnavailable, api
  <2> QED BY <1>0, <1>3, <2>1, <2>2, QueueSideAuthority DEF PreflightUnavailable
<1>4. CASE SpoolJob
  <2>1. /\ be.pc = "spool" /\ be'.pc \in {"idle", "exec", "post"}
        /\ be'.pc = "exec" => \/ be'.why = "oversize" /\ doc.kind = "oversize"
                              \/ be'.why = "grant" /\ be.granted
    BY <1>0, <1>4, <1>c, <1>d DEF SpoolJob, FailMode, Process
  <2>2. RunSound'
    BY <1>0, <1>4, <2>1 DEF RunSound, SpoolJob, api
  <2>3. syslog \subseteq syslog'
    BY <1>4 DEF SpoolJob
  <2>4. ASSUME NEW w \in Why, NeedsReview(doc), be'.pc = "exec", be'.why = w PROVE Authority(w, doc)'
    <3>1. w = "grant" /\ be.granted
      BY <2>1, <2>4 DEF NeedsReview
    <3> QED BY <1>4, <1>a, <1>b, <2>1, <2>3, <2>4, <3>1 DEF SpoolJob
  <2> QED BY <1>0, <1>4, <2>1, <2>2, <2>3, <2>4, QueueSideAuthority DEF SpoolJob
<1>5. CASE PostForInspection
  <2>1. be.pc = "post" /\ be'.pc = "posted" /\ insp[run].pc = "none" /\ run \in Runs
    BY <1>0, <1>5 DEF PostForInspection, Process, RunSound
  <2>2. PICK i : i = [pc |-> "queued", doc |-> doc, row |-> run, loaded |-> NoRow,
                      archived |-> FALSE, verdict |-> [action |-> "none"]]
    OBVIOUS
  <2>3. /\ insp' = [insp EXCEPT ![run] = i] /\ insp \in [Runs -> NoInsp \cup Inspection]
        /\ UNCHANGED <<policy, doc, run, rows, an, events, worker, syslog, device>>
    BY <1>0, <1>5, <2>2 DEF PostForInspection, TypeInv, TypeOK
  <2>4. RunSound'
    BY <1>0, <2>1, <2>2, <2>3 DEF RunSound, Runs
  <2>5. SessionsSound'
    <3>1. InspSound(run, i)
      <4>1. ~Exists(run)
        BY <2>1 DEF AuthorityInv, SessionsSound, InspSound
      <4> QED BY <2>2, <4>1 DEF InspSound, HasVerdict, InProgress
    <3>2. \A n \in Runs : InspSound(n, insp'[n])
      BY <2>1, <2>3, <3>1 DEF AuthorityInv, SessionsSound
    <3>3. \A n \in Runs : InspSound(n, insp[n])'
      BY <2>3, <3>2 DEF InspSound, Exists
    <3>4. \A r \in Runs : RowSound(r, rows[r])'
      BY <2>3 DEF AuthorityInv, SessionsSound, RowSound, FailRecorded, ScanCleared, NeedsReview
    <3>5. ScanSound'
      BY <2>3 DEF AuthorityInv, SessionsSound, ScanSound, FailRecorded, worker
    <3> QED BY <3>3, <3>4, <3>5 DEF SessionsSound
  <2>6. GapRecorded => GapRecorded'
    BY <2>1, <2>3 DEF GapRecorded
  <2>7. PrintNeedsAuthority'
    BY <2>3, <2>6, AuthorityLasts DEF AuthorityInv, PrintNeedsAuthority, NeedsReview
  <2>8. BackendHasAuthority'
    BY <2>1 DEF BackendHasAuthority
  <2> QED BY <1>0, <2>4, <2>5, <2>7, <2>8 DEF AuthorityInv
<1>6. CASE PostFails
  <2>1. /\ be'.pc \in {"idle", "exec"} /\ syslog \subseteq syslog'
        /\ be'.pc = "exec" => /\ be'.why = "unreachable" /\ policy.backend_fail_mode # "closed"
                              /\ "INSPECTION_FAILED_OPEN" \in syslog'
    BY <1>0, <1>6, <1>c, <1>d DEF PostFails, FailMode
  <2>2. RunSound'
    BY <1>0, <1>6, <2>1 DEF RunSound, PostFails, api
  <2>3. policy.backend_fail_mode # "closed" => policy.backend_fail_mode = "open"
    BY <1>0 DEF Policy
  <2>4. \A w \in Why : (be'.pc = "exec" /\ be'.why = w) => Authority(w, doc)'
    BY <1>6, <2>1, <2>3 DEF PostFails, Authority
  <2> QED BY <1>0, <1>6, <2>1, <2>2, <2>4, QueueSideAuthority DEF PostFails
<1>7. CASE ObeyVerdict
  <2>1. /\ be.pc = "verdict" /\ be'.pc \in {"idle", "exec"}
        /\ be'.pc = "exec" => be'.why = "verdict" /\ be.action \notin {"hold", "block"}
    BY <1>0, <1>7, <1>c, <1>d DEF ObeyVerdict
  <2>2. RunSound'
    BY <1>0, <1>7, <2>1 DEF RunSound, ObeyVerdict, api
  <2>3. ASSUME NEW w \in Why, NeedsReview(doc), be'.pc = "exec", be'.why = w PROVE Authority(w, doc)'
    BY <1>7, <1>a, <1>b, <2>1, <2>3 DEF ObeyVerdict
  <2> QED BY <1>0, <1>7, <2>1, <2>2, <2>3, QueueSideAuthority DEF ObeyVerdict
<1>8. CASE BackendError
  <2>1. /\ be'.pc \in {"idle", "exec"} /\ syslog \subseteq syslog'
        /\ be'.pc = "exec" => /\ be'.why = "error" /\ policy.backend_fail_mode # "closed"
                              /\ "BACKEND_ERROR" \in syslog'
    BY <1>0, <1>8, <1>c, <1>d DEF BackendError, FailMode
  <2>2. RunSound'
    BY <1>0, <1>8, <2>1 DEF RunSound, BackendError, api
  <2>3. policy.backend_fail_mode # "closed" => policy.backend_fail_mode = "open"
    BY <1>0 DEF Policy
  <2>4. \A w \in Why : (be'.pc = "exec" /\ be'.why = w) => Authority(w, doc)'
    BY <1>8, <2>1, <2>3 DEF BackendError, Authority
  <2> QED BY <1>0, <1>8, <2>1, <2>2, <2>4, QueueSideAuthority DEF BackendError
<1>9. CASE ExecRealBackend
  <2>1. be.pc = "exec" /\ be'.pc \in {"idle", "device"} /\ (be'.pc = "device" => be'.why = be.why)
    BY <1>0, <1>9, <1>c DEF ExecRealBackend, Process
  <2>2. RunSound'
    BY <1>0, <1>9, <2>1 DEF RunSound, ExecRealBackend, api
  <2>3. ASSUME NEW w \in Why, NeedsReview(doc), be'.pc = "device", be'.why = w PROVE Authority(w, doc)'
    BY <1>9, <1>a, <1>b, <2>1, <2>3 DEF ExecRealBackend
  <2> QED BY <1>0, <1>9, <2>1, <2>2, <2>3, QueueSideAuthority DEF ExecRealBackend
<1> QED BY <1>1, <1>2, <1>3, <1>4, <1>5, <1>6, <1>7, <1>8, <1>9 DEF Backend

\* What the real backend sends, it was given by a shim that had its authority.
LEMMA RealBackendSound ==
    ASSUME AuthorityInv, RealBackend
    PROVE  AuthorityInv'
<1>0. TypeInv /\ TypeInv' /\ RunSound /\ doc \in Documents /\ be \in Process
  BY RealBackendTypes DEF AuthorityInv, TypeInv, TypeOK
<1>1. /\ UNCHANGED <<policy, doc, run, api, worker, syslog>> /\ be.pc = "device"
      /\ be' = be \/ be'.pc = "idle"
      /\ \A p \in prints' : p \in prints \/ (p.doc = doc /\ p.why = be.why)
  BY DEF RealBackend, RealBackendSends, RealBackendExits, Exit, Idle
<1>2. RunSound'
  BY <1>0, <1>1 DEF RunSound, api
<1>3. /\ SessionsSound' /\ \A d \in Documents : NeedsReview(d)' <=> NeedsReview(d)
      /\ \A w \in Why, d \in Documents : Authority(w, d) => Authority(w, d)'
  BY <1>1, QueueSideSound
<1>4. be.why \in Why /\ (NeedsReview(doc) => Authority(be.why, doc))
  BY <1>0, <1>1 DEF AuthorityInv, BackendHasAuthority, Process
<1>5. PrintNeedsAuthority'
  <2>1. \A p \in prints : p.why \in Why /\ p.doc \in Documents /\ (NeedsReview(p.doc) => Authority(p.why, p.doc))
    BY DEF AuthorityInv, TypeInv, TypeOK, Delivery, PrintNeedsAuthority
  <2>2. ASSUME NEW p \in prints', NeedsReview(p.doc)' PROVE Authority(p.why, p.doc)'
    BY <1>0, <1>1, <1>3, <1>4, <2>1, <2>2
  <2> QED BY <2>2 DEF PrintNeedsAuthority
<1>6. BackendHasAuthority'
  <2>1. CASE be' = be
    BY <1>0, <1>1, <1>3, <1>4, <2>1 DEF BackendHasAuthority
  <2>2. CASE be'.pc = "idle"
    BY <2>2 DEF BackendHasAuthority
  <2> QED BY <1>1, <2>1, <2>2
<1> QED BY <1>0, <1>2, <1>3, <1>5, <1>6 DEF AuthorityInv

\* Steps of the API and the worker, which leave the document and its prints alone.
LEMMA SessionSideAuthority ==
    ASSUME AuthorityInv, TypeInv', SessionsSound', RunSound',
           UNCHANGED <<policy, doc, syslog, prints>>, events \subseteq events',
           GapRecorded => GapRecorded',
           \/ be' = be \/ be'.pc = "idle"
           \/ /\ be'.pc = "verdict"
              /\ (NeedsReview(doc) /\ be'.action \notin {"hold", "block"}) => Authority("verdict", doc)'
    PROVE  AuthorityInv'
<1>1. \A w, d : Authority(w, d) => Authority(w, d)'
  BY AuthorityLasts
<1>2. \A d : NeedsReview(d)' <=> NeedsReview(d)
  BY DEF NeedsReview
<1>3. PrintNeedsAuthority'
  BY <1>1, <1>2 DEF AuthorityInv, PrintNeedsAuthority
<1>4. BackendHasAuthority'
  <2>1. CASE be' = be
    BY <1>1, <1>2, <2>1 DEF AuthorityInv, BackendHasAuthority
  <2>2. CASE be'.pc = "idle"
    BY <2>2 DEF BackendHasAuthority
  <2>3. CASE /\ be'.pc = "verdict"
             /\ (NeedsReview(doc) /\ be'.action \notin {"hold", "block"}) => Authority("verdict", doc)'
    BY <1>2, <2>3 DEF BackendHasAuthority
  <2> QED BY <2>1, <2>2, <2>3
<1> QED BY <1>3, <1>4 DEF AuthorityInv

\* An inspection in progress goes on.
LEMMA InspectionGoesOn ==
    ASSUME AuthorityInv, NEW n \in Runs, NEW i, insp' = [insp EXCEPT ![n] = i],
           InProgress(insp[n]), InProgress(i) => i.doc = insp[n].doc, i.pc # "none",
           UNCHANGED <<doc, run>>, be' = be \/ be'.pc \in {"idle", "verdict"}
    PROVE  RunSound'
<1>1. insp[n].pc # "none" /\ insp \in [Runs -> NoInsp \cup Inspection]
  BY DEF InProgress, AuthorityInv, TypeInv, TypeOK
<1>2. be.pc # "idle" => run \in Runs
  BY DEF AuthorityInv, TypeInv
<1> QED BY <1>1, <1>2 DEF AuthorityInv, RunSound, InProgress

\* Only an inspection changes.
LEMMA InspectionSound ==
    ASSUME AuthorityInv, NEW n \in Runs, NEW i, insp' = [insp EXCEPT ![n] = i], InspSound(n, i),
           UNCHANGED <<policy, doc, rows, events, scan>>
    PROVE  SessionsSound'
<1>1. \A m \in Runs : InspSound(m, insp'[m])
  BY DEF AuthorityInv, SessionsSound, TypeInv, TypeOK
<1>2. \A m \in Runs : InspSound(m, insp[m])'
  BY <1>1 DEF InspSound, Exists
<1>3. \A r \in Runs : RowSound(r, rows[r])'
  BY DEF AuthorityInv, SessionsSound, RowSound, FailRecorded, ScanCleared, NeedsReview
<1>4. ScanSound'
  BY DEF AuthorityInv, SessionsSound, ScanSound, FailRecorded
<1> QED BY <1>2, <1>3, <1>4 DEF SessionsSound

\* A row is written, the log grows, and whoever did it is done or still sound.
LEMMA RowWriteSound ==
    ASSUME AuthorityInv, NEW r \in Runs, NEW row \in Row, rows' = [rows EXCEPT ![r] = row],
           RowSound(r, row)', Exists(r) => row.doc = rows[r].doc,
           events \subseteq events', UNCHANGED <<policy, doc>>,
           \A m \in Runs : \/ insp'[m] = insp[m] /\ (Exists(r) \/ r # m)
                           \/ InspSound(m, insp[m])',
           scan' = scan \/ scan'.pc = "idle"
    PROVE  SessionsSound'
<1>0. /\ rows \in [Runs -> Row \cup {NoRow}] /\ insp \in [Runs -> NoInsp \cup Inspection]
      /\ \A m \in Runs : NeedsRow(insp[m]) => Exists(insp[m].row)
      /\ \A m \in Runs : NeedsRow(insp[m]) => insp[m].row \in Runs
      /\ scan.pc # "idle" => scan.row \in Runs /\ Exists(scan.row)
  <2>1. \A m \in Runs : InspTyped(insp[m])
    BY DEF AuthorityInv, TypeInv
  <2>2. \A m \in Runs : NeedsRow(insp[m]) => insp[m] \in Inspection
    BY <2>1 DEF InspTyped, NeedsRow, InProgress, NoInsp
  <2>3. scan.pc # "idle" => scan.row \in Runs /\ Exists(scan.row)
    BY DEF AuthorityInv, TypeInv, TypeOK, DeepScan, NoScan
  <2> QED BY <2>1, <2>2, <2>3 DEF InspTyped, Inspection, AuthorityInv, TypeInv, TypeOK
<1>1. /\ \A q \in Runs \ {r} : rows'[q] = rows[q]
      /\ rows'[r] = row
      /\ \A q \in Runs : Exists(q) => rows'[q].doc = rows[q].doc
  BY <1>0
<1>2. ASSUME NEW m \in Runs, insp'[m] = insp[m], Exists(r) \/ r # m PROVE InspSound(m, insp[m])'
  <2>1. InspSound(m, insp[m])
    BY DEF AuthorityInv, SessionsSound
  <2>2. (InProgress(insp[m]) /\ insp[m].loaded # NoRow) => rows'[insp[m].row].doc = rows[insp[m].row].doc
    BY <1>0, <1>1 DEF NeedsRow
  <2>3. ~Exists(m) => ~Exists(m)'
    BY <1>1, <1>2 DEF Exists
  <2> QED BY <1>2, <2>1, <2>2, <2>3 DEF InspSound, InProgress, HasVerdict
<1>3. ASSUME NEW q \in Runs PROVE RowSound(q, rows[q])'
  <2>1. CASE q = r
    BY <1>1, <2>1 DEF RowSound, FailRecorded, ScanCleared, NeedsReview
  <2>2. CASE q # r
    <3>1. RowSound(q, rows[q]) /\ rows'[q] = rows[q]
      BY <1>1, <2>2 DEF AuthorityInv, SessionsSound
    <3> QED BY <3>1 DEF RowSound, FailRecorded, ScanCleared, NeedsReview
  <2> QED BY <2>1, <2>2
<1>4. ScanSound'
  BY <1>0, <1>1 DEF AuthorityInv, SessionsSound, ScanSound, FailRecorded
<1> QED BY <1>2, <1>3, <1>4 DEF SessionsSound

\* The dedup query brings up a row of the very document that is inspected.
LEMMA InspectSelectSound ==
    ASSUME AuthorityInv, NEW n \in Runs, InspectSelect(n)
    PROVE  AuthorityInv'
<1> DEFINE same == {r \in Runs : Exists(r) /\ rows[r].doc = insp[n].doc}
           row  == IF same = {} THEN n ELSE Max(same)
<1>0. TypeInv /\ TypeInv' /\ insp \in [Runs -> NoInsp \cup Inspection]
  BY InspectSelectTypes DEF AuthorityInv, TypeInv, TypeOK
<1>1. insp[n] \in Inspection /\ insp[n].pc = "queued" /\ InspSound(n, insp[n])
  BY InspectionsOfRuns DEF InspectSelect, AuthorityInv, SessionsSound, TypeInv, InProgress
<1>2. PICK i : i = [insp[n] EXCEPT !.pc = "selected", !.row = row, !.loaded = rows[row]]
  OBVIOUS
<1>3. i.pc = "selected" /\ i.row = row /\ i.loaded = rows[row] /\ i.doc = insp[n].doc
  BY <1>1, <1>2 DEF Inspection
<1>4. insp' = [insp EXCEPT ![n] = i]
  BY <1>2 DEF InspectSelect
<1>5. InspSound(n, i)
  <2>1. CASE same = {}
    <3>1. ~Exists(n) /\ rows[n] = NoRow
      BY <1>0, <1>1 DEF InspSound, TypeInv, TypeOK, Exists, Row, JobState
    <3> QED BY <1>1, <1>3, <2>1, <3>1 DEF InspSound, HasVerdict, InProgress
  <2>2. CASE same # {}
    <3>1. Exists(row) /\ rows[row].doc = insp[n].doc
      BY <2>2, MaxOfRuns
    <3>2. rows[row] # NoRow
      BY <3>1 DEF Exists, NoRow
    <3> QED BY <1>1, <1>3, <3>1, <3>2 DEF InspSound, HasVerdict, InProgress
  <2> QED BY <2>1, <2>2
<1>6. InProgress(insp[n])
  BY <1>1 DEF InProgress
<1>7. GapRecorded => GapRecorded'
  BY <1>0, <1>1, <1>4 DEF GapRecorded, InspectSelect
<1>8. UNCHANGED <<policy, doc, run, be, rows, events, scan, syslog, device>>
  BY DEF InspectSelect, worker
<1>9. SessionsSound'
  BY <1>4, <1>5, <1>8, InspectionSound
<1>10. RunSound'
  BY <1>3, <1>4, <1>6, <1>8, InspectionGoesOn
<1> QED BY <1>0, <1>7, <1>8, <1>9, <1>10, SessionSideAuthority

\* What an inspection writes is sound, and answers for what it found.
LEMMA InspectedSound ==
    ASSUME AuthorityInv, NEW n \in Runs, NEW i \in Inspection, InspSound(n, i), NeedsRow(i) => Exists(i.row),
           i.pc \in {"selected", "returned", "replied"},
           i.verdict \in Verdicts(i.doc, policy, TRUE), i.verdict \in Verdict,
           <<i.row, i.verdict.kind>> \in events', policy' = policy, doc' = doc,
           NEW row \in Row, row = Inspected(i, i.verdict)
    PROVE  /\ RowSound(i.row, row)'
           /\ i.loaded = NoRow => i.row = n /\ ~Exists(n)
           /\ i.loaded # NoRow => Exists(i.row)
<1>1. PICK v \in Verdicts(i.doc, policy, TRUE) : v = i.verdict
  OBVIOUS
<1>2. /\ row \in Row /\ row.state = v.state /\ row.blocking = v.blocking /\ row.doc = i.doc
      /\ i.loaded = NoRow => i.row = n /\ ~Exists(n)
      /\ i.loaded # NoRow => Exists(i.row) /\ rows[i.row].doc = i.doc
  <2>1. row \in Row
    BY <1>1, InspectedTypes DEF AuthorityInv
  <2>2. i.loaded = NoRow => i.row = n /\ ~Exists(n)
    BY DEF InspSound
  <2>3. i.loaded # NoRow => Exists(i.row) /\ rows[i.row].doc = i.doc
    BY DEF InspSound, NeedsRow, InProgress
  <2>4. CASE i.loaded = NoRow
    BY <1>1, <2>1, <2>2, <2>4 DEF Inspected
  <2>5. CASE i.loaded # NoRow
    <3>1. rows[i.row] \in Row
      BY <2>3, <2>5, RowsOfRuns DEF AuthorityInv, Inspection
    <3>2. /\ row.state = v.state /\ row.blocking = v.blocking /\ row.doc = rows[i.row].doc
      BY <1>1, <2>5, <3>1 DEF Inspected, Row
    <3> QED BY <2>1, <2>2, <2>3, <2>5, <3>2
  <2> QED BY <2>4, <2>5
<1>3. i.doc \in Document /\ policy \in Policy
  BY DocumentsAssumption, PoliciesAssumption DEF Inspection, AuthorityInv, TypeInv, TypeOK
<1>4. /\ row.state # "released_by_analyst"
      /\ MustHold(row.doc) /\ ~row.blocking => v.kind \in {"fail_open", "fail_closed"}
      /\ NeedsReview(row.doc) => row.state # "released"
  <2>1. /\ v.state # "released_by_analyst"
        /\ MustHold(i.doc) /\ ~v.blocking => v.kind \in {"fail_open", "fail_closed"}
        /\ MustHold(i.doc) \/ (i.doc.kind = "text" /\ i.doc.thin /\ policy.deep_scan_required)
             => v.state # "released"
    BY <1>3, VerdictsKeepTheirPromise
  <2> QED BY <1>2, <2>1 DEF NeedsReview, MustHold
<1>5. "spool_reset" \notin Disturbances => row.doc = doc
  BY <1>2 DEF InspSound, InProgress
<1>6. RowSound(i.row, row)'
  <2>1. MustHold(row.doc) /\ ~row.blocking => FailRecorded(i.row)'
    BY <1>1, <1>4 DEF FailRecorded
  <2>2. NeedsReview(row.doc)' => NeedsReview(row.doc)
    BY DEF NeedsReview
  <2> QED BY <1>4, <1>5, <2>1, <2>2 DEF RowSound
<1> QED BY <1>2, <1>6

\* The verdict is one the document and the policy allow, and if it is committed at
\* once its event is committed with it.
LEMMA InspectJobSound ==
    ASSUME AuthorityInv, NEW n \in Runs, InspectJob(n)
    PROVE  AuthorityInv'
<1>0. TypeInv /\ TypeInv' /\ insp \in [Runs -> NoInsp \cup Inspection] /\ InspTyped(insp[n])
  BY InspectJobTypes DEF AuthorityInv, TypeInv, TypeOK
<1>1. PICK v \in Verdicts(insp[n].doc, policy, "inspector_error" \in Disturbances), ok \in BOOLEAN :
        LET i == [insp[n] EXCEPT !.verdict = v, !.archived = ok]
        IN  \/ /\ insp' = [insp EXCEPT ![n] = [i EXCEPT !.pc = "stored"]]
               /\ rows' = [rows EXCEPT ![i.row] = Inspected(i, v)]
               /\ events' = events \cup {<<i.row, v.kind>>}
            \/ /\ insp' = [insp EXCEPT ![n] = [i EXCEPT !.pc = "returned"]]
               /\ UNCHANGED <<rows, events>>
  BY DEF InspectJob
<1>2. insp[n] \in Inspection /\ insp[n].pc = "selected" /\ InspSound(n, insp[n])
  BY <1>0, InspectionsOfRuns DEF InspectJob, AuthorityInv, SessionsSound, InProgress
<1>3. v \in Verdicts(insp[n].doc, policy, TRUE) /\ v \in Verdict
  <2>1. insp[n].doc \in Document /\ policy \in Policy
    BY <1>0, <1>2, DocumentsAssumption, PoliciesAssumption DEF Inspection, TypeInv, TypeOK
  <2>2. v \in Verdicts(insp[n].doc, policy, TRUE)
    BY <1>1 DEF Verdicts
  <2> QED BY <2>1, <2>2, VerdictsAreVerdicts
<1>i. PICK i : i = [insp[n] EXCEPT !.verdict = v, !.archived = ok]
  OBVIOUS
<1>4. /\ i \in Inspection /\ i.pc = "selected" /\ i.row = insp[n].row /\ i.row \in Runs
      /\ i.loaded = insp[n].loaded /\ i.verdict = v /\ i.doc = insp[n].doc
  BY <1>i, <1>2, <1>3 DEF Inspection
<1>5. InspSound(n, i) /\ (NeedsRow(i) => Exists(i.row))
  BY <1>0, <1>2, <1>4 DEF InspSound, InspTyped, NeedsRow, InProgress, HasVerdict
<1>6. ASSUME NEW pc \in {"stored", "returned"}, NEW j, j = [i EXCEPT !.pc = pc]
      PROVE  /\ j.verdict = v /\ j.row = i.row /\ j.loaded = i.loaded /\ j.doc = i.doc /\ j.pc = pc
             /\ InProgress(j)
  BY <1>4, <1>6 DEF Inspection, InProgress
<1>7. InProgress(insp[n])
  BY <1>2 DEF InProgress
<1>8. UNCHANGED <<policy, doc, run, be, scan, syslog, device>>
  BY DEF InspectJob, worker
<1>9. CASE /\ insp' = [insp EXCEPT ![n] = [i EXCEPT !.pc = "returned"]]
           /\ UNCHANGED <<rows, events>>
  <2>1. PICK j : j = [i EXCEPT !.pc = "returned"]
    OBVIOUS
  <2>2. insp' = [insp EXCEPT ![n] = j] /\ j.doc = insp[n].doc /\ j.pc # "none"
    BY <1>4, <1>6, <1>9, <2>1
  <2>3. InspSound(n, j)
    BY <1>3, <1>4, <1>5, <1>6, <2>1 DEF InspSound, HasVerdict, InProgress
  <2>4. SessionsSound'
    BY <1>8, <1>9, <2>2, <2>3, InspectionSound
  <2>5. RunSound'
    BY <1>7, <1>8, <2>2, InspectionGoesOn
  <2>6. GapRecorded => GapRecorded'
    BY <1>0, <1>2, <1>9, <2>2 DEF GapRecorded
  <2> QED BY <1>0, <1>8, <1>9, <2>4, <2>5, <2>6, SessionSideAuthority
<1>10. CASE /\ insp' = [insp EXCEPT ![n] = [i EXCEPT !.pc = "stored"]]
            /\ rows' = [rows EXCEPT ![i.row] = Inspected(i, v)]
            /\ events' = events \cup {<<i.row, v.kind>>}
  <2>1. PICK j : j = [i EXCEPT !.pc = "stored"]
    OBVIOUS
  <2>2. insp' = [insp EXCEPT ![n] = j] /\ j.doc = insp[n].doc /\ j.pc = "stored"
    BY <1>4, <1>6, <1>10, <2>1
  <2>3. PICK row : row = Inspected(i, v)
    OBVIOUS
  <2>4. /\ row \in Row /\ RowSound(i.row, row)'
        /\ Exists(i.row) => row.doc = rows[i.row].doc
        /\ i.loaded = NoRow => i.row = n /\ ~Exists(n)
        /\ i.loaded # NoRow => Exists(i.row)
    <3>1. i.verdict \in Verdicts(i.doc, policy, TRUE) /\ <<i.row, i.verdict.kind>> \in events'
      BY <1>3, <1>4, <1>10
    <3>2. row = Inspected(i, i.verdict) /\ row \in Row
      BY <1>0, <1>3, <1>4, <1>5, <2>3, InspectedTypes
    <3>3. /\ RowSound(i.row, row)'
          /\ i.loaded = NoRow => i.row = n /\ ~Exists(n)
          /\ i.loaded # NoRow => Exists(i.row)
      BY <3>2, <1>3, <1>4, <1>5, <1>8, <3>1, InspectedSound
    <3>4. Exists(i.row) => row.doc = rows[i.row].doc
      BY <1>4, <1>5, <3>2, <3>3 DEF Inspected, InspSound, InProgress
    <3> QED BY <3>2, <3>3, <3>4
  <2>5. rows' = [rows EXCEPT ![i.row] = row]
    BY <1>10, <2>3
  <2>6. InspSound(n, insp[n])'
    <3>1. insp'[n] = j /\ rows'[i.row] = row /\ row.doc = i.doc
      <4>1. row.doc = i.doc
        BY <1>4, <1>5, <2>3, <2>4 DEF Inspected, InspSound, InProgress
      <4> QED BY <1>0, <1>4, <2>2, <2>5, <4>1 DEF TypeInv, TypeOK
    <3>2. <<j.row, j.verdict.kind>> \in events'
      <4>1. j.row = i.row /\ j.verdict = v
        BY <1>6, <2>1
      <4> QED BY <1>10, <4>1
    <3>3. "spool_reset" \notin Disturbances => j.doc = doc'
      BY <1>2, <1>7, <1>8, <2>2 DEF InspSound
    <3>4. j.verdict \in Verdicts(j.doc, policy', TRUE) /\ j.row = i.row
      BY <1>3, <1>4, <1>6, <1>8, <2>1
    <3> QED BY <1>4, <2>2, <3>1, <3>2, <3>3, <3>4 DEF InspSound
  <2>7. \A m \in Runs : \/ insp'[m] = insp[m] /\ (Exists(i.row) \/ i.row # m)
                        \/ InspSound(m, insp[m])'
    BY <1>0, <2>2, <2>4, <2>6
  <2>8. SessionsSound'
    BY <1>4, <1>8, <1>10, <2>4, <2>5, <2>7, RowWriteSound
  <2>9. RunSound'
    BY <1>7, <1>8, <2>2, InspectionGoesOn
  <2>10. GapRecorded => GapRecorded'
    BY <1>0, <1>2, <1>10, <2>2 DEF GapRecorded
  <2> QED BY <1>0, <1>8, <1>10, <2>8, <2>9, <2>10, SessionSideAuthority
<1> QED BY <1>1, <1>i, <1>9, <1>10

\* Queueing a scan changes nothing the invariant speaks of.
LEMMA EnqueueDeepScanSound ==
    ASSUME AuthorityInv, NEW n \in Runs, EnqueueDeepScan(n)
    PROVE  AuthorityInv'
<1>0. TypeInv' /\ insp \in [Runs -> NoInsp \cup Inspection]
  BY EnqueueDeepScanTypes DEF AuthorityInv, TypeInv, TypeOK
<1>1. insp[n] \in Inspection /\ insp[n].pc = "stored" /\ InspSound(n, insp[n])
  BY InspectionsOfRuns DEF EnqueueDeepScan, AuthorityInv, SessionsSound, TypeInv, InProgress
<1>2. PICK j : j = [insp[n] EXCEPT !.pc = "committed"]
  OBVIOUS
<1>3. /\ j.pc = "committed" /\ j.verdict = insp[n].verdict /\ j.row = insp[n].row
      /\ j.loaded = insp[n].loaded /\ j.doc = insp[n].doc
  BY <1>1, <1>2 DEF Inspection
<1>4. insp' = [insp EXCEPT ![n] = j]
  BY <1>2 DEF EnqueueDeepScan
<1>5. InspSound(n, j) /\ InProgress(insp[n])
  BY <1>1, <1>3 DEF InspSound, HasVerdict, InProgress
<1>6. UNCHANGED <<policy, doc, run, be, rows, events, scan, syslog, device>>
  BY DEF EnqueueDeepScan
<1>7. SessionsSound'
  BY <1>4, <1>5, <1>6, InspectionSound
<1>8. RunSound'
  BY <1>3, <1>4, <1>5, <1>6, InspectionGoesOn
<1>9. GapRecorded => GapRecorded'
  BY <1>0, <1>1, <1>4, <1>6 DEF GapRecorded
<1> QED BY <1>0, <1>6, <1>7, <1>8, <1>9, SessionSideAuthority

\* The row and its event are committed together, so the row stays explained.
LEMMA InspectCommitSound ==
    ASSUME AuthorityInv, NEW n \in Runs, InspectCommit(n)
    PROVE  AuthorityInv'
<1>0. TypeInv /\ TypeInv' /\ insp \in [Runs -> NoInsp \cup Inspection] /\ InspTyped(insp[n])
  BY InspectCommitTypes DEF AuthorityInv, TypeInv, TypeOK
<1>1. PICK i : i = insp[n]
  OBVIOUS
<1>2. /\ i \in Inspection /\ i.pc \in {"returned", "replied"} /\ i.row \in Runs
      /\ InspSound(n, i) /\ (NeedsRow(i) => Exists(i.row)) /\ InProgress(insp[n])
  <2>1. i \in Inspection /\ i.pc \in {"returned", "replied"} /\ InProgress(insp[n])
    BY <1>0, <1>1, InspectionsOfRuns DEF InspectCommit, InProgress
  <2>2. InspSound(n, i) /\ (NeedsRow(i) => Exists(i.row))
    BY <1>0, <1>1 DEF AuthorityInv, SessionsSound, InspTyped
  <2>3. i.row \in Runs
    BY <2>1 DEF Inspection
  <2> QED BY <2>1, <2>2, <2>3
<1>3. PICK j : j = IF i.pc = "replied" THEN [pc |-> "done"] ELSE [i EXCEPT !.pc = "committed"]
  OBVIOUS
<1>4. /\ j.pc \in {"done", "committed"}
      /\ j.pc = "committed" => /\ j.row = i.row /\ j.verdict = i.verdict
                               /\ j.loaded = i.loaded /\ j.doc = i.doc
  BY <1>2, <1>3 DEF Inspection
<1>5. /\ insp' = [insp EXCEPT ![n] = j] /\ events' = events \cup {<<i.row, i.verdict.kind>>}
      /\ UNCHANGED <<policy, doc, run, be, scan, syslog, device>>
  BY <1>1, <1>3 DEF InspectCommit, worker
<1>6. PICK row : row = Inspected(i, i.verdict)
  OBVIOUS
<1>7. rows' = [rows EXCEPT ![i.row] = row]
  BY <1>1, <1>6 DEF InspectCommit
<1>8. /\ row \in Row /\ row.doc = i.doc /\ RowSound(i.row, row)'
      /\ Exists(i.row) => row.doc = rows[i.row].doc
      /\ i.loaded = NoRow => i.row = n /\ ~Exists(n)
      /\ i.loaded # NoRow => Exists(i.row)
  <2>1. i.verdict \in Verdicts(i.doc, policy, TRUE) /\ i.verdict \in Verdict
    BY <1>0, <1>1, <1>2 DEF InspSound, InspTyped, HasVerdict
  <2>2. <<i.row, i.verdict.kind>> \in events'
    BY <1>5
  <2>3. i.pc \in {"selected", "returned", "replied"} /\ policy' = policy /\ doc' = doc
    BY <1>2, <1>5
  <2>4. /\ i \in Inspection /\ InspSound(n, i)
        /\ NeedsRow(i) => Exists(i.row)
        /\ row = Inspected(i, i.verdict) /\ row \in Row
    BY <1>0, <1>2, <1>6, <2>1, InspectedTypes
  <2>5. /\ row \in Row /\ row.doc = i.doc /\ RowSound(i.row, row)'
        /\ i.loaded = NoRow => i.row = n /\ ~Exists(n)
        /\ i.loaded # NoRow => Exists(i.row)
    <3>1. /\ RowSound(i.row, row)'
          /\ i.loaded = NoRow => i.row = n /\ ~Exists(n)
          /\ i.loaded # NoRow => Exists(i.row)
      BY <2>1, <2>2, <2>3, <2>4, InspectedSound
    <3>2. row.doc = i.doc
      BY <1>2, <2>4, <3>1 DEF Inspected, InspSound, InProgress
    <3> QED BY <2>4, <3>1, <3>2
  <2>6. Exists(i.row) => row.doc = rows[i.row].doc
    BY <1>2, <2>5 DEF InspSound, InProgress
  <2> QED BY <2>5, <2>6
<1>9. InspSound(n, insp[n])'
  <2>1. insp'[n] = j /\ rows'[i.row] = row /\ row.doc = i.doc
    BY <1>0, <1>2, <1>5, <1>7, <1>8 DEF TypeInv, TypeOK
  <2>2. <<i.row, i.verdict.kind>> \in events'
    BY <1>5
  <2>3. /\ "spool_reset" \notin Disturbances => i.doc = doc'
        /\ i.verdict \in Verdicts(i.doc, policy', TRUE)
    BY <1>1, <1>2, <1>5 DEF InspSound, HasVerdict
  <2> QED BY <1>4, <2>1, <2>2, <2>3 DEF InspSound, HasVerdict, InProgress
<1>10. \A m \in Runs : \/ insp'[m] = insp[m] /\ (Exists(i.row) \/ i.row # m)
                       \/ InspSound(m, insp[m])'
  BY <1>0, <1>5, <1>8, <1>9
<1>11. SessionsSound'
  BY <1>2, <1>5, <1>7, <1>8, <1>10, RowWriteSound
<1>12. RunSound'
  BY <1>1, <1>2, <1>4, <1>5, InspectionGoesOn DEF InProgress
<1>13. GapRecorded => GapRecorded'
  BY <1>0, <1>1, <1>2, <1>5 DEF GapRecorded
<1> QED BY <1>0, <1>5, <1>11, <1>12, <1>13, SessionSideAuthority

\* A verdict that lets a document out which needed review is a recorded gap.
LEMMA InspectReplySound ==
    ASSUME AuthorityInv, NEW n \in Runs, InspectReply(n)
    PROVE  AuthorityInv'
<1>0. TypeInv /\ TypeInv' /\ insp \in [Runs -> NoInsp \cup Inspection] /\ InspTyped(insp[n])
  BY InspectReplyTypes DEF AuthorityInv, TypeInv, TypeOK
<1>1. PICK i : i = insp[n]
  OBVIOUS
<1>2. /\ i \in Inspection /\ i.pc \in {"returned", "committed"} /\ InProgress(insp[n])
      /\ InspSound(n, i) /\ i.verdict \in Verdict
  <2>1. i \in Inspection /\ i.pc \in {"returned", "committed"} /\ InProgress(insp[n])
    BY <1>0, <1>1, InspectionsOfRuns DEF InspectReply, InProgress
  <2> QED BY <1>0, <1>1, <2>1 DEF AuthorityInv, SessionsSound, InspTyped, HasVerdict
<1>3. PICK j : j = IF i.pc = "committed" THEN [pc |-> "done"] ELSE [i EXCEPT !.pc = "replied"]
  OBVIOUS
<1>4. /\ i.pc = "committed" => j.pc = "done"
      /\ i.pc = "returned" => /\ j.pc = "replied" /\ j.row = i.row /\ j.verdict = i.verdict
                              /\ j.loaded = i.loaded /\ j.doc = i.doc
  BY <1>2, <1>3 DEF Inspection
<1>5. /\ insp' = [insp EXCEPT ![n] = j]
      /\ UNCHANGED <<policy, doc, run, rows, events, scan, syslog, device>>
  BY <1>1, <1>3 DEF InspectReply, worker
<1>6. InspSound(n, j)
  BY <1>2, <1>4 DEF InspSound, HasVerdict, InProgress
<1>7. SessionsSound'
  BY <1>5, <1>6, InspectionSound
<1>8. \/ be' = be
      \/ /\ be.pc = "posted" /\ run = n /\ be'.pc = "verdict"
         /\ be'.action = i.verdict.action
  BY <1>0, <1>1 DEF InspectReply, TypeInv, TypeOK, Process
<1>9. RunSound'
  BY <1>1, <1>2, <1>4, <1>5, <1>8, InspectionGoesOn DEF InProgress
<1>10. (i.verdict.kind = "fail_open" \/ GapRecorded) => GapRecorded'
  <2>1. i.row \in Runs /\ (i.pc = "committed" => <<i.row, i.verdict.kind>> \in events)
    BY <1>2 DEF InspSound, Inspection
  <2>2. insp'[n] = j
    BY <1>0, <1>5
  <2>3. i.verdict.kind = "fail_open" => GapRecorded'
    BY <1>2, <1>4, <1>5, <2>1, <2>2 DEF GapRecorded
  <2>4. ASSUME GapRecorded PROVE GapRecorded'
    BY <1>0, <1>1, <1>2, <1>5, <2>3, <2>4 DEF GapRecorded
  <2> QED BY <2>3, <2>4
<1>11. ASSUME run = n, be.pc = "posted", NeedsReview(doc), i.verdict.action \notin {"hold", "block"}
       PROVE  Authority("verdict", doc)'
  <2>1. i.doc = doc /\ i.doc \in Document /\ policy \in Policy
    BY <1>0, <1>1, <1>2, <1>11, DocumentsAssumption, PoliciesAssumption
    DEF AuthorityInv, RunSound, TypeInv, TypeOK
  <2>2. ~Restricts(i.verdict.action)
    BY <1>2, <1>11, RanksKnown DEF Verdict
  <2>3. i.verdict \in Verdicts(doc, policy, TRUE)
    BY <1>2, <2>1 DEF InspSound, HasVerdict
  <2>4. i.verdict.kind = "fail_open" /\ policy.fail_mode = "open"
    BY <1>11, <2>1, <2>2, <2>3, VerdictsKeepTheirPromise DEF NeedsReview, MustHold
  <2> QED BY <1>5, <1>10, <2>4 DEF Authority
<1> QED BY <1>0, <1>5, <1>7, <1>8, <1>9, <1>10, <1>11, SessionSideAuthority

\* The whole of POST /inspect keeps the authority invariant.
LEMMA InspectorSound ==
    ASSUME AuthorityInv, Inspector
    PROVE  AuthorityInv'
BY InspectSelectSound, InspectJobSound, EnqueueDeepScanSound, InspectCommitSound, InspectReplySound
   DEF Inspector

\* CUPS's answer to a command leaves the backend running, or kills it.
LEMMA RunSoundUnlessInspected ==
    ASSUME AuthorityInv, UNCHANGED <<doc, run, insp>>, be' = be \/ be'.pc = "idle"
    PROVE  RunSound'
BY DEF AuthorityInv, RunSound

\* A release is committed together with its event, and a denial grants nothing.
LEMMA DecideSound ==
    ASSUME AuthorityInv, Decide
    PROVE  AuthorityInv'
<1>0. TypeInv /\ TypeInv' /\ rows \in [Runs -> Row \cup {NoRow}]
  BY DecideTypes DEF AuthorityInv, TypeInv, TypeOK
<1>1. PICK a \in Analysts : \/ DecisionRead(a) \/ DecisionFlush(a)
                            \/ DecisionCallCups(a) \/ DecisionCommit(a)
  BY DEF Decide
<1>2. CASE DecisionRead(a) \/ DecisionFlush(a) \/ DecisionCallCups(a)
  <2>1. /\ UNCHANGED <<policy, doc, run, insp, rows, events, scan, syslog, device>>
        /\ be' = be \/ be'.pc = "idle"
    BY <1>0, <1>2, CupsTypes DEF DecisionRead, DecisionFlush, DecisionCallCups, worker
  <2>2. SessionsSound'
    BY <2>1 DEF AuthorityInv, SessionsSound, InspSound, RowSound, ScanSound, FailRecorded,
                ScanCleared, NeedsReview, Exists
  <2>3. GapRecorded => GapRecorded'
    BY <2>1 DEF GapRecorded
  <2> QED BY <1>0, <2>1, <2>2, <2>3, RunSoundUnlessInspected, SessionSideAuthority
<1>3. CASE DecisionCommit(a)
  <2>1. PICK d : d = an[a]
    OBVIOUS
  <2>2. d \in Decision /\ d.row \in Runs /\ Exists(d.row) /\ rows[d.row] \in Row
    <3>1. d \in Decision /\ Exists(d.row)
      BY <1>0, <1>3, <2>1 DEF DecisionCommit, TypeInv, TypeOK, NoDecision
    <3>2. d.row \in Runs
      BY <3>1 DEF Decision
    <3> QED BY <1>0, <3>1, <3>2, RowsOfRuns
  <2>3. PICK s \in JobState :
           s = IF d.kind = "released" THEN "released_by_analyst" ELSE "denied_by_analyst"
    BY DEF JobState
  <2>4. PICK row : row = [rows[d.row] EXCEPT !.state = s]
    OBVIOUS
  <2>5. /\ row \in Row /\ row.state = s /\ row.doc = rows[d.row].doc
        /\ row.blocking = rows[d.row].blocking
    BY <2>2, <2>4 DEF Row
  <2>6. /\ rows' = [rows EXCEPT ![d.row] = row]
        /\ events' = events \cup {<<d.row, d.kind>>}
        /\ UNCHANGED <<policy, doc, run, be, insp, scan, syslog, device>>
    BY <1>3, <2>1, <2>3, <2>4 DEF DecisionCommit, worker
  <2>7. RowSound(d.row, row)'
    <3>1. RowSound(d.row, rows[d.row])
      BY <2>2 DEF AuthorityInv, SessionsSound
    <3>2. s = "released_by_analyst" => <<d.row, "released">> \in events'
      BY <2>2, <2>3, <2>6 DEF Decision
    <3>3. s # "released" /\ s # "none"
      BY <2>3
    <3>4. FailRecorded(d.row) => FailRecorded(d.row)'
      BY <2>6 DEF FailRecorded
    <3> QED BY <2>2, <2>5, <2>6, <3>1, <3>2, <3>3, <3>4 DEF RowSound, Exists
  <2>8. SessionsSound'
    BY <2>2, <2>5, <2>6, <2>7, RowWriteSound
  <2>9. GapRecorded => GapRecorded'
    BY <2>6 DEF GapRecorded
  <2> QED BY <1>0, <2>6, <2>8, <2>9, RunSoundUnlessInspected, SessionSideAuthority
<1> QED BY <1>1, <1>2, <1>3

\* What a deep scan makes of a row.
LEMMA ScannedSound ==
    ASSUME NEW row \in Row, NEW found \in Action, NEW new, new = Scanned(row, found),
           new.state # row.state
    PROVE  /\ new.state # "released_by_analyst"
           /\ new.state = "released" => HeldForScan(row)
<1>1. new.state = scanned_state(row.state, row.blocking, found)
  BY DEF Scanned, Row
<1>2. Restricts(found) => state_for(found) \in {"held", "blocked"}
  BY RanksKnown DEF state_for
<1> QED BY <1>1, <1>2 DEF scanned_state, HeldForScan

\* A scan clears only what was held for a scan, and logs that it did; the row it
\* overwrites may have changed meanwhile, the document it is about has not.
LEMMA WorkerSound ==
    ASSUME AuthorityInv, Worker \/ ScanDies
    PROVE  AuthorityInv'
<1>0. /\ TypeInv /\ TypeInv' /\ rows \in [Runs -> Row \cup {NoRow}]
      /\ scan.pc # "idle" => scan \in DeepScan /\ Exists(scan.row)
  BY WorkerTypes DEF AuthorityInv, TypeInv, TypeOK, NoScan
\* Only the scan changes.
<1>a. ASSUME UNCHANGED <<policy, doc, run, insp, rows, events, syslog, device>>,
             be' = be \/ be'.pc = "idle", ScanSound'
      PROVE  AuthorityInv'
  <2>1. SessionsSound'
    BY <1>a DEF AuthorityInv, SessionsSound, InspSound, RowSound, FailRecorded, ScanCleared,
                NeedsReview, Exists
  <2>2. GapRecorded => GapRecorded'
    BY <1>a DEF GapRecorded
  <2> QED BY <1>0, <1>a, <2>1, <2>2, RunSoundUnlessInspected, SessionSideAuthority
<1>1. ASSUME NEW r \in Runs, ScanLoad(r) PROVE AuthorityInv'
  <2>1. RowSound(r, rows[r]) /\ rows[r] \in Row /\ Exists(r)
    BY <1>0, <1>1, RowsOfRuns DEF ScanLoad, AuthorityInv, SessionsSound, TypeInv
  <2>2. ScanSound'
    BY <1>1, <2>1 DEF ScanLoad, ScanSound, RowSound, FailRecorded, NoScan, Exists, api
  <2> QED BY <1>1, <1>a, <2>2 DEF ScanLoad, api
<1>2. CASE ScanOcr
  <2>1. PICK found \in OcrActions(scan.loaded.doc) :
          /\ scan' = [scan EXCEPT !.pc = "write", !.new = Scanned(scan.loaded, found)]
          /\ CupsResume \/ UNCHANGED <<cups, be>>
    BY <1>2 DEF ScanOcr
  <2>2. scan \in DeepScan /\ scan.loaded \in Row /\ scan.pc = "loaded"
    BY <1>0, <1>2 DEF ScanOcr, DeepScan
  <2>3. found \in Action
    <3>1. scan.loaded.doc \in Document
      BY <2>2, DocumentsAssumption DEF Row
    <3> QED BY <2>1, <3>1, StricterIsEither DEF OcrActions, Document, Action
  <2>4. PICK new : new = Scanned(scan.loaded, found)
    OBVIOUS
  <2>5. new.state # scan.loaded.state => /\ new.state # "released_by_analyst"
                                         /\ new.state = "released" => HeldForScan(scan.loaded)
    BY <2>2, <2>3, <2>4, ScannedSound
  <2>6. scan'.row = scan.row /\ scan'.loaded = scan.loaded /\ scan'.new = new /\ scan'.pc = "write"
    BY <2>1, <2>2, <2>4 DEF DeepScan
  <2>7. ScanSound'
    BY <1>2, <2>2, <2>5, <2>6 DEF AuthorityInv, SessionsSound, ScanSound, ScanOcr, FailRecorded,
                                  HeldForScan, api
  <2>8. be' = be
    BY <1>0, <2>1, CupsTypes
  <2> QED BY <1>2, <1>a, <2>7, <2>8 DEF ScanOcr, api
<1>3. CASE ScanCannotConvert
  <2>1. scan \in DeepScan /\ scan.loaded \in Row /\ scan.pc = "loaded"
    BY <1>0, <1>3 DEF ScanCannotConvert, DeepScan
  <2>2. PICK new : new = [scan.loaded EXCEPT !.tier = "unreadable"]
    OBVIOUS
  <2>3. new.state = scan.loaded.state
    BY <2>1, <2>2 DEF Row
  <2>4. scan'.row = scan.row /\ scan'.loaded = scan.loaded /\ scan'.new = new /\ scan'.pc = "write"
    BY <1>3, <2>1, <2>2 DEF DeepScan, ScanCannotConvert
  <2>5. ScanSound'
    BY <1>3, <2>1, <2>3, <2>4 DEF AuthorityInv, SessionsSound, ScanSound, ScanCannotConvert,
                                  FailRecorded, api
  <2> QED BY <1>3, <1>a, <2>5 DEF ScanCannotConvert, api
<1>4. CASE ScanWrite
  <2>1. PICK d : d = scan
    OBVIOUS
  <2>2. /\ d \in DeepScan /\ d.pc = "write" /\ d.row \in Runs /\ Exists(d.row)
        /\ rows[d.row] \in Row /\ d.new \in Row /\ d.loaded \in Row
    <3>1. d \in DeepScan /\ d.pc = "write" /\ Exists(d.row)
      BY <1>0, <1>4, <2>1 DEF ScanWrite
    <3>2. d.row \in Runs /\ d.new \in Row /\ d.loaded \in Row
      BY <3>1 DEF DeepScan
    <3> QED BY <1>0, <3>1, <3>2, RowsOfRuns
  <2> DEFINE set(now, loaded, new) == IF new = loaded THEN now ELSE new
  <2>3. PICK s, a, t : /\ s = set(rows[d.row].state, d.loaded.state, d.new.state)
                       /\ a = set(rows[d.row].action, d.loaded.action, d.new.action)
                       /\ t = set(rows[d.row].tier, d.loaded.tier, d.new.tier)
    OBVIOUS
  <2>4. PICK row : row = [rows[d.row] EXCEPT !.state = s, !.action = a, !.tier = t]
    OBVIOUS
  <2>5. s \in JobState /\ a \in Action /\ t \in ScanTier
    BY <2>2, <2>3 DEF Row
  <2>6. /\ row \in Row /\ row.state = s /\ row.doc = rows[d.row].doc
        /\ row.blocking = rows[d.row].blocking
    BY <2>2, <2>4, <2>5 DEF Row
  <2>7. /\ rows' = [rows EXCEPT ![d.row] = row] /\ scan'.pc = "idle" /\ events \subseteq events'
        /\ UNCHANGED <<policy, doc, run, be, insp, syslog, device>>
    BY <1>4, <2>1, <2>3, <2>4 DEF ScanWrite, NoScan
  <2>8. (d.loaded.state = "held" /\ d.new.state = "released") => <<d.row, "deep_scan_clear">> \in events'
    BY <1>4, <2>1 DEF ScanWrite
  <2>9. RowSound(d.row, row)'
    <3>1. /\ RowSound(d.row, rows[d.row]) /\ rows[d.row].doc = d.loaded.doc
          /\ (~d.loaded.blocking /\ MustHold(d.loaded.doc)) => FailRecorded(d.row)
          /\ d.new.state # d.loaded.state =>
               /\ d.new.state # "released_by_analyst"
               /\ d.new.state = "released" => HeldForScan(d.loaded)
      BY <2>1, <2>2 DEF AuthorityInv, SessionsSound, ScanSound
    <3>2. FailRecorded(d.row) => FailRecorded(d.row)'
      BY <2>7 DEF FailRecorded
    <3>3. \A x : /\ ScanCleared(d.row, x) => ScanCleared(d.row, x)'
                 /\ NeedsReview(x)' => NeedsReview(x)
      BY <2>7 DEF ScanCleared, NeedsReview
    <3>4. CASE d.new.state = d.loaded.state
      <4>1. s = rows[d.row].state
        BY <2>3, <3>4
      <4> QED BY <2>2, <2>6, <2>7, <3>1, <3>2, <3>3, <4>1 DEF RowSound, Exists
    <3>5. CASE d.new.state # d.loaded.state
      <4>1. s = d.new.state /\ s # "released_by_analyst"
        BY <2>3, <3>1, <3>5
      <4>2. s = "released" => ScanCleared(d.row, row.doc)'
        <5>1. SUFFICES ASSUME s = "released"
                       PROVE  ScanCleared(d.row, row.doc)'
          OBVIOUS
        <5>2. d.loaded.state = "held" /\ ~d.loaded.blocking
          BY <3>1, <3>5, <4>1, <5>1 DEF HeldForScan
        <5>3. <<d.row, "deep_scan_clear">> \in events'
          BY <2>8, <4>1, <5>1, <5>2
        <5>4. MustHold(row.doc) => FailRecorded(d.row)'
          BY <2>6, <3>1, <3>2, <5>2
        <5> QED BY <5>3, <5>4 DEF ScanCleared, FailRecorded
      <4> QED BY <2>2, <2>6, <2>7, <3>1, <3>2, <4>1, <4>2 DEF RowSound, Exists
    <3> QED BY <3>4, <3>5
  <2>10. SessionsSound'
    BY <2>2, <2>6, <2>7, <2>9, RowWriteSound
  <2>11. GapRecorded => GapRecorded'
    BY <2>7 DEF GapRecorded
  <2> QED BY <1>0, <2>7, <2>10, <2>11, RunSoundUnlessInspected, SessionSideAuthority
<1>5. CASE ScanDies
  <2>1. ScanSound'
    BY <1>5 DEF ScanDies, ScanSound, NoScan
  <2> QED BY <1>5, <1>a, <2>1 DEF ScanDies, api
<1> QED BY <1>1, <1>2, <1>3, <1>4, <1>5 DEF Worker

\* No crash, restart, cancellation or lost spool takes an authority away: an API that
\* dies loses a verdict it may have sent, and is then the record of the gap itself.
LEMMA DisturbanceSound ==
    ASSUME AuthorityInv, Disturbance
    PROVE  AuthorityInv'
<1>0. TypeInv /\ TypeInv' /\ RunSound /\ SessionsSound /\ (be.pc # "idle" => run \in Runs)
  BY DisturbanceTypes DEF AuthorityInv, TypeInv
<1>1. CASE ApiCrash
  <2>1. \A n \in Runs : IF insp[n].pc \in {"none", "done"} THEN insp'[n] = insp[n]
                                                           ELSE insp'[n] = [pc |-> "dead"]
    BY <1>1 DEF ApiCrash
  <2>2. /\ UNCHANGED <<policy, doc, run, be, rows, events, scan, syslog, device>>
    BY <1>1 DEF ApiCrash, worker
  <2>3. \A n \in Runs : InspSound(n, insp'[n])
    <3>1. TAKE n \in Runs
    <3>2. InspSound(n, insp[n])
      BY <1>0 DEF SessionsSound
    <3>3. InspSound(n, [pc |-> "dead"])
      BY DEF InspSound, HasVerdict, InProgress
    <3> QED BY <2>1, <3>2, <3>3
  <2>4. SessionsSound'
    <3>1. \A n \in Runs : InspSound(n, insp[n])'
      BY <2>2, <2>3 DEF InspSound, Exists
    <3>2. \A r \in Runs : RowSound(r, rows[r])'
      BY <1>0, <2>2 DEF SessionsSound, RowSound, FailRecorded, ScanCleared, NeedsReview
    <3>3. ScanSound'
      BY <1>0, <2>2 DEF SessionsSound, ScanSound, FailRecorded
    <3> QED BY <3>1, <3>2, <3>3 DEF SessionsSound
  <2>5. RunSound'
    <3>1. (be.pc = "posted" /\ InProgress(insp[run])') => insp[run]' = insp[run]
      BY <1>0, <2>1, <2>2 DEF InProgress
    <3>2. \A n \in Runs : insp[n].pc = "none" => insp'[n].pc = "none"
      BY <2>1
    <3> QED BY <1>0, <2>2, <3>1, <3>2 DEF RunSound
  <2>6. GapRecorded => GapRecorded'
    BY <2>1, <2>2 DEF GapRecorded
  <2> QED BY <1>0, <2>2, <2>4, <2>5, <2>6, SessionSideAuthority
<1>2. CASE ScanDies
  BY <1>2, WorkerSound
<1>3. CASE CupsdRestart \/ OperatorResume \/ UserCancel
  <2>1. /\ be' = be \/ be'.pc = "idle"
        /\ UNCHANGED <<policy, doc, run, api, worker, syslog, prints>>
    BY <1>3 DEF CupsdRestart, OperatorResume, UserCancel, Exit, Idle
  <2>2. RunSound'
    BY <1>0, <2>1 DEF RunSound, api
  <2>3. SessionsSound' /\ (GapRecorded => GapRecorded')
    BY <2>1, QueueSideSound DEF GapRecorded, api
  <2> QED BY <1>0, <2>1, <2>2, <2>3, SessionSideAuthority DEF api
<1>4. CASE SpoolReset
  <2>1. /\ "spool_reset" \in Disturbances /\ be'.pc = "idle"
        /\ UNCHANGED <<policy, run, insp, rows, events, scan, syslog, prints>>
    BY <1>4 DEF SpoolReset, Exit, Idle, api, worker
  <2>2. RunSound'
    BY <1>0, <2>1 DEF RunSound
  <2>3. SessionsSound'
    <3>1. \A n \in Runs : InspSound(n, insp[n])'
      BY <1>0, <2>1 DEF SessionsSound, InspSound, Exists
    <3>2. \A r \in Runs : RowSound(r, rows[r])'
      BY <1>0, <2>1 DEF SessionsSound, RowSound, FailRecorded, ScanCleared, NeedsReview
    <3>3. ScanSound'
      BY <1>0, <2>1 DEF SessionsSound, ScanSound, FailRecorded
    <3> QED BY <3>1, <3>2, <3>3 DEF SessionsSound
  <2>4. GapRecorded => GapRecorded'
    BY <2>1 DEF GapRecorded
  <2>5. PrintNeedsAuthority'
    BY <2>1, <2>4, AuthorityLasts DEF AuthorityInv, PrintNeedsAuthority, NeedsReview
  <2>6. BackendHasAuthority'
    BY <2>1 DEF BackendHasAuthority
  <2> QED BY <1>0, <2>2, <2>3, <2>5, <2>6 DEF AuthorityInv
<1> QED BY <1>1, <1>2, <1>3, <1>4 DEF Disturbance

\* AuthorityInv holds at the start and after every step.
LEMMA AuthorityInvIsInductive ==
    /\ Init => AuthorityInv
    /\ AuthorityInv /\ [Next]_vars => AuthorityInv'
<1>1. ASSUME Init PROVE AuthorityInv
  <2>1. TypeInv
    BY <1>1, TypeInvIsInductive
  <2>2. SessionsSound
    BY <1>1 DEF Init, SessionsSound, InspSound, RowSound, ScanSound, NoScan, NoRow, HasVerdict,
                InProgress, Exists
  <2>3. RunSound /\ BackendHasAuthority /\ PrintNeedsAuthority
    BY <1>1 DEF Init, RunSound, BackendHasAuthority, PrintNeedsAuthority, Idle
  <2> QED BY <2>1, <2>2, <2>3 DEF AuthorityInv
<1>2. ASSUME AuthorityInv, UNCHANGED vars PROVE AuthorityInv'
  <2>1. TypeInv'
    BY <1>2, TypeInvIsInductive DEF AuthorityInv
  <2>2. SessionsSound' /\ RunSound' /\ (GapRecorded => GapRecorded')
    BY <1>2, QueueSideSound DEF vars, api, worker, AuthorityInv, RunSound, GapRecorded
  <2> QED BY <1>2, <2>1, <2>2, SessionSideAuthority DEF vars, api, worker
<1> QED BY <1>1, <1>2, BackendSound, RealBackendSound, InspectorSound, DecideSound, WorkerSound, DisturbanceSound
     DEF Next

(***************************************************************************)
(* Every printed document that needed review was let out by an analyst, a  *)
(* deep scan, or a queue set to fail open, and the last is on record:      *)
(* backend/janus, POST /inspect, the worker and the console together, for  *)
(* any number of runs, analysts, documents and policies.                   *)
(***************************************************************************)
THEOREM PrintsAreAuthorised == Spec => []PrintNeedsAuthority
<1>1. AuthorityInv => PrintNeedsAuthority
  BY DEF AuthorityInv
<1> QED BY <1>1, AuthorityInvIsInductive, PTL DEF Spec

(***************************************************************************)
(* No row ever reads `released` for a document that needs review, unless a *)
(* deep scan cleared it: what resolve_failure and deep_scan write cannot   *)
(* turn a gap into a pass, in whatever order their sessions commit.        *)
(***************************************************************************)
THEOREM GapsStayVisible == Spec => []GapIsNotClean
<1>1. AuthorityInv => GapIsNotClean
  BY DEF AuthorityInv, SessionsSound, RowSound, GapIsNotClean
<1> QED BY <1>1, AuthorityInvIsInductive, PTL DEF Spec
-----------------------------------------------------------------------------
\* A delivery that CUPS has not lost sight of is the newest run's, and nothing can
\* start the job again.
InSight(p) == p.run = run /\ cups \in {"processing", "completed", "canceled"}

\* A backend runs exactly while CUPS has the job in progress, delivers only for its own
\* run, and every delivery is in sight or accounted for.
DeliveryInv ==
    /\ be.pc # "idle" <=> cups = "processing"
    /\ \A p \in prints : p.run <= run
    /\ \A p \in prints : p.run = run /\ cups = "processing" => be.pc = "device"
    /\ \A p \in prints : p.run \in forgotten \/ InSight(p)

\* A step that delivers nothing keeps the account, if it leaves a job that is over as it
\* is, or forgets what the job delivered.
LEMMA DeliveryGoesOn ==
    ASSUME TypeInv, DeliveryInv, prints' = prints, run' = run, forgotten \subseteq forgotten',
           be'.pc # "idle" <=> cups' = "processing",
           \/ cups' = cups /\ (be' = be \/ be.pc # "device")
           \/ cups' # "processing" /\ (\/ cups \notin {"processing", "completed", "canceled"}
                                       \/ cups' \in {"completed", "canceled"}
                                       \/ \A p \in prints : p.run = run => p.run \in forgotten')
    PROVE  DeliveryInv'
BY DEF DeliveryInv, InSight

\* lp -H resume takes up held jobs only; cancel ends what it finds.
LEMMA CupsCommandsAndDelivery ==
    ASSUME TypeInv, DeliveryInv, UNCHANGED <<run, device>>, CupsResume \/ CupsCancel
    PROVE  DeliveryInv'
<1>1. CASE UNCHANGED <<cups, be>>
  BY <1>1, DeliveryGoesOn DEF DeliveryInv
<1>2. CASE cups = "held" /\ cups' = "pending" /\ be' = be
  BY <1>2, DeliveryGoesOn DEF DeliveryInv
<1>3. CASE Exit("canceled")
  <2>1. be'.pc = "idle" /\ cups' = "canceled"
    BY <1>3 DEF Exit, Idle
  <2> QED BY <2>1, DeliveryGoesOn
<1> QED BY <1>1, <1>2, <1>3 DEF CupsResume, CupsCancel

\* The shim delivers nothing: what it starts is a new run of a job whose deliveries are
\* all forgotten, and what it ends has not delivered.
LEMMA BackendAndDelivery ==
    ASSUME TypeInv, DeliveryInv, Backend
    PROVE  DeliveryInv'
<1>0. /\ be \in Process /\ run \in Nat /\ (be.pc # "idle" <=> cups = "processing")
      /\ \A p \in prints : p.run \in Nat
  BY DEF TypeInv, TypeOK, DeliveryInv, Delivery, Runs
<1>a. \A c : (Exit(c) /\ c # "processing") => (be'.pc = "idle" /\ cups' # "processing")
  BY DEF Exit, Idle
<1>b. \A w : Release(w) => be'.pc = "exec" /\ cups' = cups
  BY <1>0 DEF Release, Process
<1>1. CASE BackendStart
  <2>1. /\ be'.pc = "preflight" /\ cups' = "processing" /\ cups = "pending"
        /\ UNCHANGED device /\ run' = run + 1
    BY <1>1 DEF BackendStart, Idle
  <2> QED BY <1>0, <2>1 DEF DeliveryInv, InSight
<1>2. ASSUME be.pc \notin {"idle", "device"}, UNCHANGED <<run, device>>,
             \/ be'.pc = "idle" /\ cups' # "processing"
             \/ be'.pc # "idle" /\ cups' = cups
      PROVE DeliveryInv'
  <2>1. \A p \in prints : p.run = run => p.run \in forgotten
    BY <1>0, <1>2 DEF DeliveryInv
  <2> QED BY <1>0, <1>2, <2>1, DeliveryGoesOn
<1>3. CASE PreflightAnswered \/ PreflightUnavailable \/ PostForInspection
  <2>1. be.pc \notin {"idle", "device"} /\ be'.pc # "idle" /\ cups' = cups /\ UNCHANGED <<run, device>>
    BY <1>0, <1>3 DEF PreflightAnswered, PreflightUnavailable, PostForInspection, Process
  <2> QED BY <1>2, <2>1
<1>4. CASE SpoolJob \/ PostFails \/ ObeyVerdict \/ BackendError \/ ExecRealBackend
  <2>1. be.pc \notin {"idle", "device"} /\ UNCHANGED <<run, device>>
    BY <1>4 DEF SpoolJob, PostFails, ObeyVerdict, BackendError, ExecRealBackend
  <2>2. \/ be'.pc = "idle" /\ cups' # "processing"
        \/ be'.pc # "idle" /\ cups' = cups
    <3>1. CASE SpoolJob
      BY <1>0, <1>a, <1>b, <3>1 DEF SpoolJob, FailMode, Process
    <3>2. CASE PostFails
      BY <1>0, <1>a, <1>b, <3>2 DEF PostFails, FailMode
    <3>3. CASE ObeyVerdict
      BY <1>0, <1>a, <1>b, <3>3 DEF ObeyVerdict
    <3>4. CASE BackendError
      BY <1>0, <1>a, <1>b, <3>4 DEF BackendError, FailMode
    <3>5. CASE ExecRealBackend
      BY <1>0, <1>a, <3>5 DEF ExecRealBackend, Process
    <3> QED BY <1>4, <3>1, <3>2, <3>3, <3>4, <3>5
  <2> QED BY <1>2, <2>1, <2>2
<1> QED BY <1>1, <1>3, <1>4 DEF Backend

\* The real backend delivers for the run in progress, and CUPS sees it or forgets it.
LEMMA RealBackendAndDelivery ==
    ASSUME TypeInv, DeliveryInv, RealBackend
    PROVE  DeliveryInv'
<1>0. /\ be.pc = "device" /\ cups = "processing" /\ run \in Nat
      /\ \A p \in prints : p.run \in Nat
  BY DEF RealBackend, RealBackendSends, RealBackendExits, DeliveryInv, TypeInv, TypeOK, Delivery, Runs
<1>1. CASE RealBackendSends
  <2>1. /\ UNCHANGED <<cups, run, be, forgotten>>
        /\ \A p \in prints' : p \in prints \/ p.run = run
    BY <1>1 DEF RealBackendSends
  <2>2. \A p \in prints' : p.run <= run /\ (p.run \in forgotten \/ p.run = run)
    BY <1>0, <2>1 DEF DeliveryInv, InSight
  <2> QED BY <1>0, <2>1, <2>2 DEF DeliveryInv, InSight
<1>2. CASE RealBackendExits
  <2>1. /\ UNCHANGED <<run, prints>> /\ be'.pc = "idle" /\ forgotten \subseteq forgotten'
        /\ cups' # "processing"
        /\ \/ cups' = "completed"
           \/ \A p \in prints : p.run = run => p.run \in forgotten'
    BY <1>2 DEF RealBackendExits, Exit, Idle, Forget, Sent
  <2> QED BY <2>1, DeliveryGoesOn
<1> QED BY <1>1, <1>2 DEF RealBackend

\* An inspection delivers nothing and restarts nothing.
LEMMA InspectorAndDelivery ==
    ASSUME TypeInv, DeliveryInv, Inspector
    PROVE  DeliveryInv'
<1>0. be \in Process
  BY DEF TypeInv, TypeOK
<1>1. PICK n \in Runs : \/ InspectSelect(n) \/ InspectJob(n) \/ EnqueueDeepScan(n)
                        \/ InspectCommit(n) \/ InspectReply(n)
  BY DEF Inspector
<1>2. /\ UNCHANGED <<cups, run, device>>
      /\ be' = be \/ (be.pc = "posted" /\ be'.pc = "verdict")
  BY <1>0, <1>1 DEF InspectSelect, InspectJob, EnqueueDeepScan, InspectCommit, InspectReply, Process
<1> QED BY <1>2, DeliveryGoesOn DEF DeliveryInv

\* A cancelled job is over; a restart forgets what its backend sent, a lost spool all.
LEMMA DisturbanceAndDelivery ==
    ASSUME TypeInv, DeliveryInv, Disturbance
    PROVE  DeliveryInv'
<1>1. CASE ApiCrash \/ ScanDies
  <2>1. UNCHANGED <<cups, run, be, device>>
    BY <1>1 DEF ApiCrash, ScanDies
  <2> QED BY <2>1, DeliveryGoesOn DEF DeliveryInv
<1>2. CASE CupsdRestart
  <2>1. /\ UNCHANGED <<run, prints>> /\ be'.pc = "idle" /\ forgotten \subseteq forgotten'
        /\ cups' = "pending" /\ \A p \in prints : p.run = run => p.run \in forgotten'
    BY <1>2 DEF CupsdRestart, Exit, Idle, Forget, Sent
  <2> QED BY <2>1, DeliveryGoesOn
<1>3. CASE OperatorResume
  <2>1. UNCHANGED <<run, be, device>> /\ cups \in {"held", "stopped"} /\ cups' = "pending"
    BY <1>3 DEF OperatorResume
  <2> QED BY <2>1, DeliveryGoesOn DEF DeliveryInv
<1>4. CASE UserCancel
  <2>1. UNCHANGED <<run, device>> /\ be'.pc = "idle" /\ cups' = "canceled"
    BY <1>4 DEF UserCancel, Exit, Idle
  <2> QED BY <2>1, DeliveryGoesOn
<1>5. CASE SpoolReset
  <2>1. /\ UNCHANGED <<run, prints>> /\ be'.pc = "idle" /\ cups' = "pending"
        /\ forgotten \subseteq forgotten' /\ \A p \in prints : p.run \in forgotten'
    BY <1>5 DEF SpoolReset, Exit, Idle
  <2> QED BY <2>1, DeliveryGoesOn
<1> QED BY <1>1, <1>2, <1>3, <1>4, <1>5 DEF Disturbance

(***************************************************************************)
(* A document is delivered again only after a delivery that CUPS did not   *)
(* see through, because the real backend or cupsd failed under it or the   *)
(* spool was lost: no verdict, decision, deep scan or resume by an         *)
(* operator starts a backend for a job that CUPS knows to be printed, for  *)
(* any number of runs, analysts and documents.                             *)
(***************************************************************************)
THEOREM ReprintsAreCupsOwn == Spec => []ReprintsFollowBreaks
<1>1. Init => TypeInv /\ DeliveryInv
  BY TypeInvIsInductive DEF Init, DeliveryInv, Idle
<1>2. ASSUME TypeInv, DeliveryInv, [Next]_vars PROVE DeliveryInv'
  <2>1. ASSUME UNCHANGED <<run, device>>, (CupsResume \/ CupsCancel) \/ UNCHANGED <<cups, be>>
        PROVE DeliveryInv'
    BY <1>2, <2>1, CupsCommandsAndDelivery, DeliveryGoesOn DEF DeliveryInv
  <2>2. CASE Decide
    <3>1. PICK a \in Analysts : \/ DecisionRead(a) \/ DecisionFlush(a)
                                \/ DecisionCallCups(a) \/ DecisionCommit(a)
      BY <2>2 DEF Decide
    <3> QED BY <2>1, <3>1 DEF DecisionRead, DecisionFlush, DecisionCallCups, DecisionCommit
  <2>3. CASE Worker
    BY <2>1, <2>3 DEF Worker, ScanLoad, ScanOcr, ScanCannotConvert, ScanWrite
  <2>4. CASE UNCHANGED vars
    BY <2>1, <2>4 DEF vars
  <2> QED BY <1>2, <2>2, <2>3, <2>4, BackendAndDelivery, RealBackendAndDelivery,
             InspectorAndDelivery, DisturbanceAndDelivery DEF Next
<1>3. TypeInv /\ DeliveryInv => ReprintsFollowBreaks
  <2> SUFFICES ASSUME TypeInv, DeliveryInv, NEW p \in prints, NEW q \in prints, p.run < q.run
               PROVE  p.run \in forgotten
    BY DEF ReprintsFollowBreaks
  <2>1. p.run \in Nat /\ q.run \in Nat /\ run \in Nat /\ q.run <= run
    BY DEF TypeInv, TypeOK, Delivery, Runs, DeliveryInv
  <2> QED BY <2>1 DEF DeliveryInv, InSight
<1>4. TypeInv /\ [Next]_vars => TypeInv'
  BY TypeInvIsInductive
<1> QED BY <1>1, <1>2, <1>3, <1>4, PTL DEF Spec

-----------------------------------------------------------------------------
(* No deep scan is forgotten. Between the row that asks for a scan and the *)
(* scan that answers it there are an inspection about to queue it, an      *)
(* entry of the queue, and a scan that has loaded the row. A scan that     *)
(* loaded the row before a re-inspection made it wait again does not       *)
(* answer it, so ScansInv asks what a scan had loaded.                     *)

\* A scan of row r will be loaded.
Awaited(r) == \/ scanq[r] > 0
              \/ \E n \in Runs : insp[n].pc = "stored" /\ insp[n].row = r

\* One that has loaded it, and will find its tier changed by nobody else, is at work.
Answering(r) == scan.pc # "idle" /\ scan.row = r /\ scan.loaded.tier = "ocr_pending"

Waits(r) == OcrPending(r) /\ rows[r].archived

NothingDies == {"api_crash", "worker_crash"} \cap Disturbances = {}

\* An inspection that commits with its answer asks for no scan; a scan always ends one.
SessionsPlain ==
    /\ \A n \in Runs : insp[n].pc \in {"returned", "replied"} => insp[n].verdict.tier # "ocr_pending"
    /\ scan.pc = "write" => scan.new.tier # "ocr_pending"

ScansInv == /\ SessionsPlain
            /\ NothingDies => \A r \in Runs : Waits(r) => Awaited(r) \/ Answering(r)

-----------------------------------------------------------------------------

\* An inspection that sees text missing says so in its verdict and asks for the scan.
LEMMA PendingAsksForScan ==
    ASSUME NEW d \in Document, NEW p \in Policy, NEW v \in Verdicts(d, p, TRUE), ~v.deep
    PROVE  v.tier # "ocr_pending"
BY DEF Verdicts, unreadable, run_inspection, resolve_failure

\* A step that leaves the rows, the inspections and the scans alone changes nothing here.
LEMMA ScansGoOn ==
    ASSUME ScansInv, UNCHANGED <<insp, rows, scanq, scan>>
    PROVE  ScansInv'
BY DEF ScansInv, SessionsPlain, Waits, OcrPending, Exists, Awaited, Answering, NothingDies

\* Nor does one that keeps what waits, and what it waits for.
LEMMA ScansKept ==
    ASSUME ScansInv, SessionsPlain',
           NothingDies => \A r \in Runs : /\ Waits(r)' => Waits(r) \/ Awaited(r)'
                                          /\ Awaited(r) => Awaited(r)'
                                          /\ Answering(r) => Answering(r)' \/ Awaited(r)' \/ ~Waits(r)'
    PROVE  ScansInv'
BY DEF ScansInv, NothingDies

LEMMA InspectorAwaits ==
    ASSUME TypeInv, ScansInv, Inspector
    PROVE  ScansInv'
<1>0. /\ insp \in [Runs -> NoInsp \cup Inspection] /\ rows \in [Runs -> Row \cup {NoRow}]
      /\ scanq \in [Runs -> Nat]
      /\ \A n \in Runs : InspTyped(insp[n])
  BY DEF TypeInv, TypeOK
<1>1. PICK n \in Runs : \/ InspectSelect(n) \/ InspectJob(n) \/ EnqueueDeepScan(n)
                        \/ InspectCommit(n) \/ InspectReply(n)
  BY DEF Inspector
<1>2. scan' = scan
  BY <1>1 DEF InspectSelect, InspectJob, EnqueueDeepScan, InspectCommit, InspectReply, worker
<1>3. /\ \A m \in Runs \ {n} : insp'[m] = insp[m]
      /\ insp[n].pc \in {"queued", "selected", "stored", "returned", "replied", "committed"}
  BY <1>0, <1>1 DEF InspectSelect, InspectJob, EnqueueDeepScan, InspectCommit, InspectReply
<1>4. insp[n] \in Inspection
  BY <1>0, <1>3 DEF NoInsp
<1>5. insp[n].row \in Runs /\ insp[n].doc \in Document
  BY <1>4, DocumentsAssumption DEF Inspection
<1>6. ASSUME scanq' = scanq, insp[n].pc # "stored", NEW r \in Runs, Awaited(r)
      PROVE  Awaited(r)'
  BY <1>3, <1>6 DEF Awaited
<1>7. \A r \in Runs : Answering(r) => Answering(r)'
  BY <1>2 DEF Answering
<1>8. ASSUME insp'[n].pc \in {"returned", "replied"} => insp'[n].verdict.tier # "ocr_pending"
      PROVE  SessionsPlain'
  <2>1. SessionsPlain
    BY DEF ScansInv
  <2>2. \A m \in Runs : insp'[m].pc \in {"returned", "replied"} => insp'[m].verdict.tier # "ocr_pending"
    BY <1>3, <1>8, <2>1 DEF SessionsPlain
  <2> QED BY <1>2, <2>1, <2>2 DEF SessionsPlain
<1>9. CASE InspectSelect(n)
  <2>1. insp'[n].pc = "selected" /\ insp[n].pc = "queued" /\ rows' = rows /\ scanq' = scanq
    BY <1>0, <1>4, <1>9 DEF InspectSelect, worker, Inspection
  <2>2. \A r \in Runs : Waits(r)' => Waits(r)
    BY <2>1 DEF Waits, OcrPending, Exists
  <2> QED BY <1>6, <1>7, <1>8, <2>1, <2>2, ScansKept
<1>10. CASE InspectJob(n)
  <2>1. PICK v \in Verdicts(insp[n].doc, policy, "inspector_error" \in Disturbances),
             ok \in BOOLEAN :
           LET i == [insp[n] EXCEPT !.verdict = v, !.archived = ok]
           IN  IF v.deep
               THEN /\ insp' = [insp EXCEPT ![n] = [i EXCEPT !.pc = "stored"]]
                    /\ rows' = [rows EXCEPT ![i.row] = Inspected(i, v)]
               ELSE /\ insp' = [insp EXCEPT ![n] = [i EXCEPT !.pc = "returned"]]
                    /\ rows' = rows
    BY <1>10 DEF InspectJob
  <2>2. scanq' = scanq /\ insp[n].pc = "selected"
    BY <1>10 DEF InspectJob, worker
  <2>3. CASE v.deep
    <3>q. PICK q \in Runs : q = insp[n].row
      BY <1>5
    <3>1. insp'[n].pc = "stored" /\ insp'[n].row = q
      <4>1. insp'[n] = [[insp[n] EXCEPT !.verdict = v, !.archived = ok] EXCEPT !.pc = "stored"]
        BY <1>0, <2>1, <2>3
      <4> QED BY <1>4, <3>q, <4>1 DEF Inspection
    <3>2. \A r \in Runs \ {q} : rows'[r] = rows[r]
      BY <1>0, <1>4, <2>1, <2>3, <3>q DEF Inspection
    <3>3. Awaited(q)'
      BY <3>1 DEF Awaited
    <3>4. \A r \in Runs : Waits(r)' => Waits(r) \/ Awaited(r)'
      BY <3>2, <3>3 DEF Waits, OcrPending, Exists
    <3> QED BY <1>6, <1>7, <1>8, <2>2, <3>1, <3>4, ScansKept
  <2>4. CASE ~v.deep
    <3>1. insp'[n].verdict = v /\ rows' = rows
      <4>1. insp'[n] = [[insp[n] EXCEPT !.verdict = v, !.archived = ok] EXCEPT !.pc = "returned"]
        BY <1>0, <2>1, <2>4
      <4> QED BY <1>4, <2>1, <2>4, <4>1 DEF Inspection
    <3>2. v.tier # "ocr_pending"
      <4>1. policy \in Policy
        BY PoliciesAssumption DEF TypeInv, TypeOK
      <4>2. v \in Verdicts(insp[n].doc, policy, TRUE)
        BY DEF Verdicts
      <4> QED BY <1>5, <2>4, <4>1, <4>2, PendingAsksForScan
    <3>3. \A r \in Runs : Waits(r)' => Waits(r)
      BY <3>1 DEF Waits, OcrPending, Exists
    <3> QED BY <1>6, <1>7, <1>8, <2>2, <3>1, <3>2, <3>3, ScansKept
  <2> QED BY <2>3, <2>4
<1>11. CASE EnqueueDeepScan(n)
  <2>1. insp[n].pc = "stored" /\ insp'[n].pc = "committed" /\ rows' = rows
    BY <1>0, <1>4, <1>11 DEF EnqueueDeepScan, Inspection
  <2>2. scanq'[insp[n].row] > 0 /\ \A r \in Runs : scanq[r] > 0 => scanq'[r] > 0
    BY <1>0, <1>5, <1>11 DEF EnqueueDeepScan
  <2>3. ASSUME NEW r \in Runs, Awaited(r) PROVE Awaited(r)'
    BY <1>3, <2>2, <2>3 DEF Awaited
  <2>4. \A r \in Runs : Waits(r)' => Waits(r)
    BY <2>1 DEF Waits, OcrPending, Exists
  <2> QED BY <1>7, <1>8, <2>1, <2>3, <2>4, ScansKept
<1>12. CASE InspectCommit(n)
  <2>1. /\ insp[n].pc \in {"returned", "replied"} /\ scanq' = scanq
        /\ insp'[n].pc \in {"done", "committed"}
        /\ rows' = [rows EXCEPT ![insp[n].row] = Inspected(insp[n], insp[n].verdict)]
    BY <1>0, <1>4, <1>12 DEF InspectCommit, worker, Inspection
  <2>2. insp[n].verdict.tier # "ocr_pending"
    BY <2>1 DEF ScansInv, SessionsPlain
  <2>3. ASSUME NEW r \in Runs, Waits(r)' PROVE Waits(r)
    <3>1. CASE r # insp[n].row
      BY <1>0, <2>1, <2>3, <3>1 DEF Waits, OcrPending, Exists
    <3>2. CASE r = insp[n].row
      <4>1. rows'[r] = Inspected(insp[n], insp[n].verdict)
        BY <1>0, <2>1, <3>2
      <4>2. rows'[r].tier = "ocr_pending" /\ rows'[r].archived
        BY <2>3 DEF Waits, OcrPending
      <4>3. insp[n].loaded # NoRow
        BY <2>2, <4>1, <4>2 DEF Inspected
      <4>4. Exists(r) /\ rows[r] \in Row
        BY <1>0, <2>1, <3>2, <4>3 DEF InspTyped, NeedsRow, InProgress, Exists, NoRow
      <4>5. rows[r].tier = "ocr_pending" /\ rows[r].archived
        BY <2>2, <3>2, <4>1, <4>2, <4>3, <4>4 DEF Inspected, Row
      <4> QED BY <4>4, <4>5 DEF Waits, OcrPending
    <3> QED BY <3>1, <3>2
  <2> QED BY <1>6, <1>7, <1>8, <2>1, <2>3, ScansKept
<1>13. CASE InspectReply(n)
  <2>1. /\ insp[n].pc \in {"returned", "committed"} /\ scanq' = scanq /\ rows' = rows
        /\ insp'[n] = IF insp[n].pc = "committed" THEN [pc |-> "done"]
                      ELSE [insp[n] EXCEPT !.pc = "replied"]
    BY <1>0, <1>13 DEF InspectReply, worker
  <2>2. insp'[n].pc \in {"returned", "replied"} => insp'[n].verdict.tier # "ocr_pending"
    BY <1>4, <2>1 DEF Inspection, ScansInv, SessionsPlain
  <2>3. \A r \in Runs : Waits(r)' => Waits(r)
    BY <2>1 DEF Waits, OcrPending, Exists
  <2> QED BY <1>6, <1>7, <1>8, <2>1, <2>2, <2>3, ScansKept
<1> QED BY <1>1, <1>9, <1>10, <1>11, <1>12, <1>13

\* A scan that ends without an answer had not loaded the row as waiting.
LEMMA WorkerAwaits ==
    ASSUME TypeInv, ScansInv, Worker
    PROVE  ScansInv'
<1>0. /\ rows \in [Runs -> Row \cup {NoRow}] /\ scanq \in [Runs -> Nat]
      /\ scan \in DeepScan \cup {NoScan}
      /\ scan.pc # "idle" => Exists(scan.row)
  BY DEF TypeInv, TypeOK
<1>1. ASSUME insp' = insp, scan'.pc = "write" => scan'.new.tier # "ocr_pending"
      PROVE  SessionsPlain'
  BY <1>1 DEF ScansInv, SessionsPlain
<1>2. ASSUME insp' = insp, scanq' = scanq, NEW r \in Runs, Awaited(r)
      PROVE  Awaited(r)'
  BY <1>2 DEF Awaited
<1>3. ASSUME NEW q \in Runs, ScanLoad(q) PROVE ScansInv'
  <2>1. /\ scan.pc = "idle" /\ insp' = insp /\ rows' = rows
        /\ \A r \in Runs \ {q} : scanq'[r] = scanq[r]
    BY <1>0, <1>3 DEF ScanLoad, api
  <2>2. scan'.pc # "write"
    BY <1>3 DEF ScanLoad, NoScan
  <2>3. \A r \in Runs : Waits(r)' <=> Waits(r)
    BY <2>1 DEF Waits, OcrPending, Exists
  <2>4. \A r \in Runs : ~Answering(r)
    BY <2>1 DEF Answering
  <2>5. Waits(q) => Answering(q)'
    BY <1>3 DEF ScanLoad, Waits, OcrPending, Answering
  <2>6. \A r \in Runs \ {q} : Awaited(r) => Awaited(r)'
    BY <2>1 DEF Awaited
  <2> QED BY <1>1, <2>1, <2>2, <2>3, <2>4, <2>5, <2>6 DEF ScansInv, NothingDies
<1>4. CASE ScanOcr \/ ScanCannotConvert
  <2>1. /\ scan.pc = "loaded" /\ scan \in DeepScan
        /\ insp' = insp /\ rows' = rows /\ scanq' = scanq
    <3>1. scan.pc = "loaded"
      BY <1>4 DEF ScanOcr, ScanCannotConvert
    <3>2. scan \in DeepScan
      BY <1>0, <3>1 DEF NoScan
    <3>3. insp' = insp /\ rows' = rows /\ scanq' = scanq
      <4>1. CASE ScanOcr
        BY <4>1 DEF ScanOcr, api
      <4>2. CASE ScanCannotConvert
        BY <4>2 DEF ScanCannotConvert, api
      <4> QED BY <1>4, <4>1, <4>2
    <3> QED BY <3>1, <3>2, <3>3
  <2>2. /\ scan'.pc = "write" /\ scan'.row = scan.row /\ scan'.loaded = scan.loaded
        /\ scan'.new.tier \in {"ocr_complete", "unreadable"}
    <3>1. scan.loaded \in Row \/ scan.loaded = NoRow
      BY <2>1 DEF DeepScan
    <3>2. CASE ScanOcr
      <4>1. PICK found : scan' = [scan EXCEPT !.pc = "write", !.new = Scanned(scan.loaded, found)]
        BY <3>2 DEF ScanOcr
      <4>2. Scanned(scan.loaded, found).tier = "ocr_complete"
        BY <2>1 DEF DeepScan, Scanned, Row
      <4> QED BY <2>1, <4>1, <4>2 DEF DeepScan
    <3>3. CASE ScanCannotConvert
      <4>1. scan' = [scan EXCEPT !.pc = "write", !.new = [scan.loaded EXCEPT !.tier = "unreadable"]]
        BY <3>3 DEF ScanCannotConvert
      <4>2. [scan.loaded EXCEPT !.tier = "unreadable"].tier = "unreadable"
        BY <2>1 DEF DeepScan, Row
      <4> QED BY <2>1, <4>1, <4>2 DEF DeepScan
    <3> QED BY <1>4, <3>2, <3>3
  <2>3. \A r \in Runs : (Waits(r)' <=> Waits(r)) /\ (Answering(r) => Answering(r)')
    BY <2>1, <2>2 DEF Waits, OcrPending, Exists, Answering
  <2> QED BY <1>1, <1>2, <2>1, <2>2, <2>3, ScansKept
<1>5. CASE ScanWrite
  <2>1. /\ scan.pc = "write" /\ scan \in DeepScan /\ scan' = NoScan
        /\ insp' = insp /\ scanq' = scanq
    BY <1>0, <1>5 DEF ScanWrite, NoScan
  <2>q. PICK q \in Runs : q = scan.row
    BY <2>1 DEF DeepScan
  <2>2. scan.new.tier # "ocr_pending"
    BY <2>1 DEF ScansInv, SessionsPlain
  <2>3. /\ rows[q] \in Row /\ \A r \in Runs \ {q} : rows'[r] = rows[r]
        /\ rows'[q].archived = rows[q].archived
        /\ rows'[q].tier = IF scan.new.tier = scan.loaded.tier THEN rows[q].tier ELSE scan.new.tier
    <3>1. rows[q] \in Row
      BY <1>0, <2>1, <2>q DEF Exists, NoRow
    <3> QED BY <1>0, <1>5, <2>q, <3>1 DEF ScanWrite, Row
  <2>4. \A r \in Runs : Waits(r)' => Waits(r) /\ (r = q => scan.loaded.tier # "ocr_pending")
    BY <1>0, <2>1, <2>2, <2>3, <2>q DEF Waits, OcrPending, Exists
  <2>5. \A r \in Runs : Answering(r) => r = q /\ scan.loaded.tier = "ocr_pending"
    BY <2>q DEF Answering
  <2>6. scan'.pc # "write"
    BY <2>1 DEF NoScan
  <2> QED BY <1>1, <1>2, <2>1, <2>4, <2>5, <2>6 DEF ScansInv, NothingDies
<1> QED BY <1>3, <1>4, <1>5 DEF Worker

\* A decision changes no tier, and a crash is what the property excuses.
LEMMA OthersAwait ==
    ASSUME AuthorityInv, ScansInv, Backend \/ RealBackend \/ Decide \/ Disturbance
    PROVE  ScansInv'
<1>0. /\ rows \in [Runs -> Row \cup {NoRow}] /\ insp \in [Runs -> NoInsp \cup Inspection]
      /\ be.pc # "idle" => run \in Runs
      /\ TypeInv
  BY DEF AuthorityInv, TypeInv, TypeOK
<1>1. CASE PostForInspection
  <2>1. PICK m : m = run
    OBVIOUS
  <2>2. /\ rows' = rows /\ scanq' = scanq /\ scan' = scan
        /\ insp' = [insp EXCEPT ![m] = [pc |-> "queued", doc |-> doc, row |-> m, loaded |-> NoRow,
                                        archived |-> FALSE, verdict |-> [action |-> "none"]]]
    BY <1>1, <2>1 DEF PostForInspection, worker
  <2>3. m \in Runs /\ insp[m].pc = "none"
    <3>1. be.pc = "post"
      BY <1>1 DEF PostForInspection
    <3>2. insp[run].pc = "none"
      BY <3>1 DEF AuthorityInv, RunSound
    <3>3. run \in Runs
      BY <1>0, <3>1
    <3> QED BY <2>1, <3>2, <3>3
  <2>4. insp'[m].pc = "queued" /\ \A n \in Runs \ {m} : insp'[n] = insp[n]
    BY <1>0, <2>2, <2>3
  <2>5. SessionsPlain'
    BY <2>2, <2>4 DEF ScansInv, SessionsPlain
  <2>6. \A r \in Runs : /\ Waits(r)' <=> Waits(r)
                        /\ Awaited(r) => Awaited(r)'
                        /\ Answering(r) => Answering(r)'
    BY <2>2, <2>3, <2>4 DEF Waits, OcrPending, Exists, Awaited, Answering
  <2> QED BY <2>5, <2>6, ScansKept
<1>2. CASE (Backend /\ ~PostForInspection) \/ RealBackend
  BY <1>2, ScansGoOn DEF Backend, RealBackend, RealBackendSends, RealBackendExits, BackendStart, PreflightAnswered, PreflightUnavailable, SpoolJob,
       PostFails, ObeyVerdict, BackendError, ExecRealBackend, api, worker
<1>3. CASE Decide
  <2>1. PICK a \in Analysts : \/ DecisionRead(a) \/ DecisionFlush(a)
                              \/ DecisionCallCups(a) \/ DecisionCommit(a)
    BY <1>3 DEF Decide
  <2>2. insp' = insp /\ scanq' = scanq /\ scan' = scan
    BY <2>1 DEF DecisionRead, DecisionFlush, DecisionCallCups, DecisionCommit, worker
  <2>3. CASE rows' = rows
    BY <2>2, <2>3, ScansGoOn
  <2>4. CASE DecisionCommit(a)
    <3>1. PICK q \in Runs : q = an[a].row /\ Exists(q)
      BY <1>0, <2>4 DEF DecisionCommit, TypeInv, TypeOK, Decision, NoDecision
    <3>2. /\ rows[q] \in Row /\ \A r \in Runs \ {q} : rows'[r] = rows[r]
          /\ rows'[q].archived = rows[q].archived /\ rows'[q].tier = rows[q].tier
      <4>1. rows[q] \in Row
        BY <1>0, <3>1 DEF Exists, NoRow
      <4> QED BY <1>0, <2>4, <3>1, <4>1 DEF DecisionCommit, Row
    <3>3. \A r \in Runs : Waits(r)' => Waits(r)
      BY <3>1, <3>2 DEF Waits, OcrPending, Exists
    <3>4. \A r \in Runs : (Awaited(r) => Awaited(r)') /\ (Answering(r) => Answering(r)')
      BY <2>2 DEF Awaited, Answering
    <3>5. SessionsPlain'
      BY <2>2 DEF ScansInv, SessionsPlain
    <3> QED BY <3>3, <3>4, <3>5, ScansKept
  <2> QED BY <2>1, <2>3, <2>4 DEF DecisionRead, DecisionFlush, DecisionCallCups
<1>4. CASE ApiCrash \/ ScanDies
  <2>1. ~NothingDies
    BY <1>4 DEF ApiCrash, ScanDies, NothingDies
  <2>2. SessionsPlain'
    <3>1. CASE ApiCrash
      BY <1>0, <3>1 DEF ApiCrash, ScansInv, SessionsPlain, worker
    <3>2. CASE ScanDies
      BY <3>2 DEF ScanDies, ScansInv, SessionsPlain, NoScan, api
    <3> QED BY <1>4, <3>1, <3>2
  <2> QED BY <2>1, <2>2 DEF ScansInv, NothingDies
<1>5. CASE CupsdRestart \/ OperatorResume \/ UserCancel \/ SpoolReset
  BY <1>5, ScansGoOn DEF CupsdRestart, OperatorResume, UserCancel, SpoolReset, api, worker
<1> QED BY <1>1, <1>2, <1>3, <1>4, <1>5 DEF Disturbance

(***************************************************************************)
(* PendingScanIsQueued holds in every state: as long as nothing dies, each *)
(* archived row that waits for OCR has its scan in sight.                  *)
(***************************************************************************)
THEOREM ScansAreQueued == Spec => []PendingScanIsQueued
<1>1. Init => AuthorityInv /\ ScansInv
  <2>1. Init => ScansInv
    BY DEF Init, ScansInv, SessionsPlain, Waits, OcrPending, Exists, NoRow, NoScan
  <2> QED BY <2>1, AuthorityInvIsInductive
<1>2. AuthorityInv /\ ScansInv /\ [Next]_vars => (AuthorityInv /\ ScansInv)'
  <2>1. ScansInv /\ UNCHANGED vars => ScansInv'
    BY ScansGoOn DEF vars, api, worker
  <2>2. AuthorityInv => TypeInv
    BY DEF AuthorityInv
  <2> QED BY <2>1, <2>2, AuthorityInvIsInductive, InspectorAwaits, WorkerAwaits, OthersAwait DEF Next
<1>3. ScansInv => PendingScanIsQueued
  BY DEF ScansInv, PendingScanIsQueued, Waits, Awaited, Answering, NothingDies
<1> QED BY <1>1, <1>2, <1>3, PTL DEF Spec
=============================================================================
