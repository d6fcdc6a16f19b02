------------------------------ MODULE PrintPath ------------------------------
(***************************************************************************)
(* The life of one CUPS job on one inspected queue: the backend that CUPS  *)
(* runs for it, the inspections that backend asks the API for, the row     *)
(* they keep in the database, the deep scan of that row by the worker and  *)
(* the analysts who release or deny it from the console.                   *)
(*                                                                         *)
(* The real backend that the shim execs is external.  It may deliver some  *)
(* or all of the document before it fails, or before cupsd loses track of  *)
(* it, and CUPS then runs the shim again: nothing here can take back what  *)
(* was delivered, so `forgotten` keeps account of it.                      *)
(*                                                                         *)
(* Other jobs touch this one only through time (a busy event loop, a slow  *)
(* answer), which `Disturbances` lets in.  The rows belong to this job's   *)
(* (queue, cups_job_id); the row created by the n-th backend run is row n. *)
(*                                                                         *)
(* Sessions are PostgreSQL READ COMMITTED: a SELECT sees the committed     *)
(* rows, a flush takes the row's lock until the commit, and an UPDATE      *)
(* writes only the columns whose value differs from the one loaded.  The   *)
(* API is one uvicorn process: inspect() is a coroutine that runs          *)
(* inspect_job on the event loop, while release_job and deny_job run on    *)
(* threads and need the loop again to return and commit.                   *)
(***************************************************************************)
EXTENDS Verdict, FiniteSets, FiniteSetsExt

CONSTANTS Analysts,      \* people with the analyst role, at the console
          Documents,     \* the documents that may be printed
          Policies,      \* the policies the queue may have
          MaxRuns,       \* bound: how often CUPS runs the backend for this job
          Disturbances   \* what may go wrong or be slow in this instance

DisturbanceKinds ==
    {"api_down",        \* the backend cannot connect
     "api_slow",        \* an answer comes after the backend's timeout
     "api_crash",       \* the API process dies; its open sessions roll back
     "worker_crash",    \* a deep scan dies, or gives up, before its commit
     "inspector_error", \* an inspection raises, or passes its deadline
     "archive_error",   \* the archive copy cannot be written
     "ocr_error",       \* the document cannot be converted for OCR
     "cups_refuses",    \* lp / cancel fail or time out
     "backend_error",   \* an exception inside the backend
     "device_error",    \* the real backend is missing, or fails at any point
     "cupsd_restart",   \* cupsd restarts under a running backend
     "operator_resume", \* lp -H resume or cupsenable, outside the console
     "user_cancel",     \* the owner cancels the job in CUPS
     "spool_reset"}     \* the spool is lost and CUPS counts from 1 again

ASSUME RunsAssumption         == MaxRuns \in Nat \ {0}
ASSUME DocumentsAssumption    == Documents \subseteq Document
ASSUME PoliciesAssumption     == Policies \subseteq Policy
ASSUME DisturbancesAssumption == Disturbances \subseteq DisturbanceKinds

Runs == 1 .. MaxRuns

VARIABLES policy,   \* the queue's policy
          doc,      \* the document CUPS now holds under this job id
          cups,     \* the CUPS job's state
          run,      \* backend runs so far; the current one is number `run`
          be,       \* the backend process
          insp,     \* insp[n]: the inspection asked for by run n
          rows,     \* rows[n]: the committed row created by run n
          scanq,    \* scanq[r]: deep scans of row r waiting in the queue
          scan,     \* the worker's deep scan
          an,       \* an[a]: the decision analyst a is making
          events,   \* committed JobEvents, as <<row, kind>>
          syslog,   \* what the backend has audited to syslog
          prints,   \* what reached the device, in part or in full: [doc, why, run]
          forgotten \* the runs that delivered, and that CUPS has no completion of

api    == <<insp, rows, an, events>>
worker == <<scanq, scan>>
device == <<prints, forgotten>>
vars   == <<policy, doc, cups, run, be, insp, rows, scanq, scan, an, events,
            syslog, prints, forgotten>>

-----------------------------------------------------------------------------
(* Values *)

Why == {"grant", "verdict", "oversize", "unreachable", "error"}

Delivery == [doc : Documents, why : Why, run : Runs]

Audit == {"OVERSIZE_UNINSPECTED", "INSPECTION_FAILED_OPEN",
          "INSPECTION_FAILED_CLOSED", "BACKEND_ERROR"}

\* deep_scan_clear is the clear that releases; the other deep scan events say nothing
\* that the row does not.
EventKind == {"inspected", "unreadable", "fail_open", "fail_closed",
              "released", "denied", "deep_scan_clear"}

Row == [state : JobState, action : Action, tier : ScanTier,
        blocking : BOOLEAN, archived : BOOLEAN, doc : Documents]

NoRow == [state |-> "none"]
Exists(r) == rows[r].state # "none"

CupsState == {"pending", "processing", "held", "canceled", "completed", "stopped"}

\* The backend's process, and what it is between two jobs; "device" is the real one.
Process == [pc : {"idle", "preflight", "spool", "post", "posted", "verdict", "exec", "device"},
            granted : BOOLEAN, action : Action, why : Why]
Idle == [pc |-> "idle", granted |-> FALSE, action |-> "allow", why |-> "verdict"]

\* An inspection that does not exist yet, has answered, or died with the API.
NoInsp == {[pc |-> "none"], [pc |-> "done"], [pc |-> "dead"]}

\* One in progress.  It loaded row `row` as `loaded` (NoRow: it inserts row n).
Inspection == [pc : {"queued", "selected", "returned", "stored", "replied", "committed"},
               doc : Documents, row : Runs, loaded : Row \cup {NoRow},
               archived : BOOLEAN, verdict : Verdict \cup {[action |-> "none"]}]

\* A deep scan: the row as loaded and as it is about to be written.
DeepScan == [pc : {"loaded", "write"}, row : Runs, loaded : Row, new : Row]
NoScan   == [pc |-> "idle"]

\* A decision on row `row`; "flushed" holds the row's lock, "called" also CUPS's answer.
Decision   == [pc : {"read", "flushed", "called"}, kind : {"released", "denied"}, row : Runs]
NoDecision == [pc |-> "idle"]

\* Inspections, and decisions, whose session holds the lock of row r.
LockedByInsp(r) == \E n \in Runs : insp[n].pc \in {"returned", "replied"} /\ insp[n].row = r
LockedByAnalyst(r) == \E a \in Analysts : an[a].pc \in {"flushed", "called"} /\ an[a].row = r
Locked(r) == LockedByInsp(r) \/ LockedByAnalyst(r)

\* inspect() is on the event loop from its SELECT to its return.
LoopBusy == \E n \in Runs : insp[n].pc \in {"selected", "stored"}

\* ... and waits there, with the whole API behind it, while its row is locked.
LoopWaits == \E n \in Runs : insp[n].pc = "selected" /\ Locked(insp[n].row)

-----------------------------------------------------------------------------
Init ==
    /\ policy \in Policies
    /\ doc \in Documents
    /\ cups = "pending" /\ run = 0 /\ be = Idle
    /\ insp = [n \in Runs |-> [pc |-> "none"]]
    /\ rows = [r \in Runs |-> NoRow]
    /\ scanq = [r \in Runs |-> 0]
    /\ scan = NoScan
    /\ an = [a \in Analysts |-> NoDecision]
    /\ events = {} /\ syslog = {} /\ prints = {} /\ forgotten = {}

-----------------------------------------------------------------------------
(* backend/janus *)

BackendStart ==
    /\ cups = "pending" /\ run < MaxRuns
    /\ cups' = "processing" /\ run' = run + 1
    /\ be' = [Idle EXCEPT !.pc = "preflight"]
    /\ UNCHANGED <<policy, doc, api, worker, syslog, device>>

\* The newest row of this job, among those preflight accepts, is a clearance.
Granted == \E r \in Runs : Exists(r) /\ rows[r].state \in Cleared

PreflightAnswered ==
    /\ be.pc = "preflight" /\ ~LoopWaits
    /\ be' = [be EXCEPT !.pc = "spool", !.granted = Granted]
    /\ UNCHANGED <<policy, doc, cups, run, api, worker, syslog, device>>

\* Any exception counts as "no clearance": the job is inspected normally.
PreflightUnavailable ==
    /\ be.pc = "preflight"
    /\ Disturbances \cap {"api_down", "api_slow"} # {} \/ LoopWaits
    /\ be' = [be EXCEPT !.pc = "spool"]
    /\ UNCHANGED <<policy, doc, cups, run, api, worker, syslog, device>>

\* The backend exits with a code that makes CUPS put the job in state c.
Exit(c) == cups' = c /\ be' = Idle

\* The backend goes on to exec the real one, because of `why`.
Release(why) == be' = [be EXCEPT !.pc = "exec", !.why = why] /\ UNCHANGED cups

\* backend.conf's fail_mode: hold the job, or let it out uninspected.
FailMode(why) == IF policy.backend_fail_mode = "closed" THEN Exit("held") ELSE Release(why)

SpoolJob ==
    /\ be.pc = "spool"
    /\ \/ be.granted /\ Release("grant") /\ UNCHANGED syslog
       \/ /\ ~be.granted /\ doc.kind = "oversize"
          /\ FailMode("oversize")
          /\ syslog' = syslog \cup {"OVERSIZE_UNINSPECTED"}
       \/ /\ ~be.granted /\ doc.kind # "oversize"
          /\ be' = [be EXCEPT !.pc = "post"]
          /\ UNCHANGED <<cups, syslog>>
    /\ UNCHANGED <<policy, doc, run, api, worker, device>>

PostForInspection ==
    /\ be.pc = "post"
    /\ be' = [be EXCEPT !.pc = "posted"]
    /\ insp' = [insp EXCEPT ![run] =
                   [pc |-> "queued", doc |-> doc, row |-> run, loaded |-> NoRow,
                    archived |-> FALSE, verdict |-> [action |-> "none"]]]
    /\ UNCHANGED <<policy, doc, cups, run, rows, an, events, worker, syslog, device>>

\* Mutant of PostFails: the request has no timeout of its own.
PostFailsIfRefused ==
    /\ \/ be.pc = "post" /\ "api_down" \in Disturbances
       \/ be.pc = "posted" /\ insp[run].pc = "dead"
    /\ FailMode("unreachable")
    /\ syslog' = syslog \cup {IF policy.backend_fail_mode = "closed"
                              THEN "INSPECTION_FAILED_CLOSED" ELSE "INSPECTION_FAILED_OPEN"}
    /\ UNCHANGED <<policy, doc, run, api, worker, device>>

\* Refused, cut off by a crash, or past the timeout: the API may still be at it.
PostFails ==
    /\ \/ be.pc = "post" /\ "api_down" \in Disturbances
       \/ be.pc = "posted" /\ ("api_slow" \in Disturbances \/ LoopWaits)
       \/ be.pc = "posted" /\ insp[run].pc = "dead"
    /\ FailMode("unreachable")
    /\ syslog' = syslog \cup {IF policy.backend_fail_mode = "closed"
                              THEN "INSPECTION_FAILED_CLOSED" ELSE "INSPECTION_FAILED_OPEN"}
    /\ UNCHANGED <<policy, doc, run, api, worker, device>>

ObeyVerdict ==
    /\ be.pc = "verdict"
    /\ CASE be.action = "block" -> Exit("canceled")
         [] be.action = "hold"  -> Exit("held")
         [] OTHER               -> Release("verdict")
    /\ UNCHANGED <<policy, doc, run, api, worker, syslog, device>>

\* The outer except.  While the job is being spooled there may be nothing to pass
\* on yet, and CUPS_BACKEND_FAILED meets `ErrorPolicy retry-job`.
BackendError ==
    /\ "backend_error" \in Disturbances
    /\ be.pc \in {"spool", "post", "verdict"}
    /\ \/ FailMode("error")
       \/ be.pc = "spool" /\ policy.backend_fail_mode = "open" /\ Exit("pending")
    /\ syslog' = syslog \cup {"BACKEND_ERROR"}
    /\ UNCHANGED <<policy, doc, run, api, worker, device>>

\* execv replaces this process; a binary that is not there, or cannot be run, stops
\* the queue.
ExecRealBackend ==
    /\ be.pc = "exec"
    /\ \/ be' = [be EXCEPT !.pc = "device"] /\ UNCHANGED cups
       \/ "device_error" \in Disturbances /\ Exit("stopped")
    /\ UNCHANGED <<policy, doc, run, api, worker, syslog, device>>

Backend == \/ BackendStart \/ PreflightAnswered \/ PreflightUnavailable
           \/ SpoolJob \/ PostForInspection \/ PostFails \/ ObeyVerdict
           \/ BackendError \/ ExecRealBackend

-----------------------------------------------------------------------------
(* The real backend (external): it sends, and then tells CUPS how it went *)

\* The run in progress has delivered.
Sent == \E p \in prints : p.run = run

RealBackendSends ==
    /\ be.pc = "device" /\ ~Sent
    /\ prints' = prints \cup {[doc |-> doc, why |-> be.why, run |-> run]}
    /\ UNCHANGED <<policy, doc, cups, run, be, api, worker, syslog, forgotten>>

\* The run in progress ends without CUPS knowing that it delivered.
Forget == forgotten' = IF Sent THEN forgotten \cup {run} ELSE forgotten

\* FAILED meets `ErrorPolicy retry-job`; the other codes stop the queue, or hold or
\* cancel the job, whatever has been sent.
RealBackendExits ==
    /\ be.pc = "device"
    /\ \/ Sent /\ Exit("completed") /\ UNCHANGED forgotten
       \/ /\ "device_error" \in Disturbances
          /\ \E c \in {"pending", "stopped", "held", "canceled"} : Exit(c)
          /\ Forget
    /\ UNCHANGED <<policy, doc, run, api, worker, syslog, prints>>

RealBackend == RealBackendSends \/ RealBackendExits

-----------------------------------------------------------------------------
(* POST /inspect: inspect(), inspect_job() and the session's teardown *)

\* The dedup query: the newest row with this document under this CUPS id.
InspectSelect(n) ==
    LET same == {r \in Runs : Exists(r) /\ rows[r].doc = insp[n].doc}
        row  == IF same = {} THEN n ELSE Max(same)
    IN  /\ insp[n].pc = "queued" /\ ~LoopBusy
        /\ insp' = [insp EXCEPT ![n].pc = "selected", ![n].row = row,
                                ![n].loaded = rows[row]]
        /\ UNCHANGED <<policy, doc, cups, run, be, rows, an, events, worker, syslog, device>>

\* The row as inspection i leaves it.  Only a first inspection archives the body;
\* action and tier are in the UPDATE only if they are not what was loaded.
Inspected(i, v) ==
    IF i.loaded = NoRow
    THEN [state |-> v.state, action |-> v.action, tier |-> v.tier,
          blocking |-> v.blocking, archived |-> i.archived, doc |-> i.doc]
    ELSE [rows[i.row] EXCEPT !.state = v.state, !.blocking = v.blocking,
            !.action = IF v.action = i.loaded.action THEN @ ELSE v.action,
            !.tier   = IF v.tier = i.loaded.tier THEN @ ELSE v.tier]

\* inspect_job reaches a verdict: it takes the row's lock, waiting for it on the
\* event loop if need be.  A verdict that wants a deep scan is committed at once.
InspectJob(n) ==
    /\ insp[n].pc = "selected"
    /\ insp[n].loaded = NoRow \/ ~Locked(insp[n].row)
    /\ \E v \in Verdicts(insp[n].doc, policy, "inspector_error" \in Disturbances),
          ok \in {TRUE} \cup {b \in {FALSE} : "archive_error" \in Disturbances} :
         LET i == [insp[n] EXCEPT !.verdict = v, !.archived = ok]
         IN  IF v.deep
             THEN /\ insp' = [insp EXCEPT ![n] = [i EXCEPT !.pc = "stored"]]
                  /\ rows' = [rows EXCEPT ![i.row] = Inspected(i, v)]
                  /\ events' = events \cup {<<i.row, v.kind>>}
             ELSE /\ insp' = [insp EXCEPT ![n] = [i EXCEPT !.pc = "returned"]]
                  /\ UNCHANGED <<rows, events>>
    /\ UNCHANGED <<policy, doc, cups, run, be, an, worker, syslog, device>>

\* Mutant of EnqueueDeepScan: a re-inspection relies on the scan already queued.
EnqueueFirstScanOnly(n) ==
    /\ insp[n].pc = "stored"
    /\ scanq' = IF insp[n].loaded = NoRow
                THEN [scanq EXCEPT ![insp[n].row] = @ + 1] ELSE scanq
    /\ insp' = [insp EXCEPT ![n].pc = "committed"]
    /\ UNCHANGED <<policy, doc, cups, run, be, rows, an, events, scan, syslog, device>>

EnqueueDeepScan(n) ==
    /\ insp[n].pc = "stored"
    /\ scanq' = [scanq EXCEPT ![insp[n].row] = @ + 1]
    /\ insp' = [insp EXCEPT ![n].pc = "committed"]
    /\ UNCHANGED <<policy, doc, cups, run, be, rows, an, events, scan, syslog, device>>

\* The dependency's teardown commits, before or after the response is sent
\* (pyproject.toml admits FastAPI releases that do the one or the other).
InspectCommit(n) ==
    /\ insp[n].pc \in {"returned", "replied"} /\ ~LoopBusy
    /\ insp' = [insp EXCEPT ![n] = IF @.pc = "replied" THEN [pc |-> "done"]
                                   ELSE [@ EXCEPT !.pc = "committed"]]
    /\ rows' = [rows EXCEPT ![insp[n].row] = Inspected(insp[n], insp[n].verdict)]
    /\ events' = events \cup {<<insp[n].row, insp[n].verdict.kind>>}
    /\ UNCHANGED <<policy, doc, cups, run, be, an, worker, syslog, device>>

\* The response leaves; a backend that gave up waiting never sees it.
InspectReply(n) ==
    /\ insp[n].pc \in {"returned", "committed"} /\ ~LoopBusy
    /\ insp' = [insp EXCEPT ![n] = IF @.pc = "committed" THEN [pc |-> "done"]
                                   ELSE [@ EXCEPT !.pc = "replied"]]
    /\ be' = IF be.pc = "posted" /\ run = n
             THEN [be EXCEPT !.pc = "verdict", !.action = insp[n].verdict.action]
             ELSE be
    /\ UNCHANGED <<policy, doc, cups, run, rows, an, events, worker, syslog, device>>

Inspector == \E n \in Runs : InspectSelect(n) \/ InspectJob(n) \/ EnqueueDeepScan(n)
                              \/ InspectCommit(n) \/ InspectReply(n)

-----------------------------------------------------------------------------
(* cups_control: commands to CUPS, which may refuse them *)

\* Mutant of CupsResume: lp -H restart, which also reprints a completed job.
CupsRestartJob == \/ cups \in {"held", "completed"} /\ cups' = "pending" /\ UNCHANGED be
                  \/ /\ cups \notin {"held", "completed"} \/ "cups_refuses" \in Disturbances
                     /\ UNCHANGED <<cups, be>>

\* lp -H resume: only a held job can be resumed.
CupsResume == \/ cups = "held" /\ cups' = "pending" /\ UNCHANGED be
              \/ (cups # "held" \/ "cups_refuses" \in Disturbances) /\ UNCHANGED <<cups, be>>

\* cancel: also stops a backend that is running for the job.
CupsCancel == \/ cups \in {"pending", "held", "processing", "stopped"} /\ Exit("canceled")
              \/ (cups \in {"canceled", "completed"} \/ "cups_refuses" \in Disturbances)
                 /\ UNCHANGED <<cups, be>>

-----------------------------------------------------------------------------
(* routes_jobs.release_job and deny_job *)

\* The guard is evaluated on the committed row, before anything is locked.
DecisionRead(a) ==
    /\ an[a].pc = "idle"
    /\ \E r \in Runs, k \in {"released", "denied"} :
         /\ rows[r].state = "held"
         /\ an' = [an EXCEPT ![a] = [pc |-> "read", kind |-> k, row |-> r]]
    /\ UNCHANGED <<policy, doc, cups, run, be, insp, rows, events, worker, syslog, device>>

DecisionFlush(a) ==
    /\ an[a].pc = "read" /\ ~Locked(an[a].row)
    /\ an' = [an EXCEPT ![a].pc = "flushed"]
    /\ UNCHANGED <<policy, doc, cups, run, be, insp, rows, events, worker, syslog, device>>

\* A refusal is caught and recorded; the decision stands.
DecisionCallCups(a) ==
    /\ an[a].pc = "flushed"
    /\ IF an[a].kind = "released" THEN CupsResume ELSE CupsCancel
    /\ an' = [an EXCEPT ![a].pc = "called"]
    /\ UNCHANGED <<policy, doc, run, insp, rows, events, worker, syslog, device>>

DecisionCommit(a) ==
    /\ an[a].pc = "called" /\ ~LoopBusy
    /\ rows' = [rows EXCEPT ![an[a].row].state =
                   IF an[a].kind = "released" THEN "released_by_analyst" ELSE "denied_by_analyst"]
    /\ events' = events \cup {<<an[a].row, an[a].kind>>}
    /\ an' = [an EXCEPT ![a] = NoDecision]
    /\ UNCHANGED <<policy, doc, cups, run, be, insp, worker, syslog, device>>

Decide == \E a \in Analysts : DecisionRead(a) \/ DecisionFlush(a)
                               \/ DecisionCallCups(a) \/ DecisionCommit(a)

-----------------------------------------------------------------------------
(* engine.deep_scan, in the worker *)

\* Mutant of ScanLoad: the worker takes a scan nobody has queued.
ScanLoadUnqueued(r) ==
    /\ scan.pc = "idle"
    /\ scanq' = [scanq EXCEPT ![r] = @ - 1]
    /\ UNCHANGED <<policy, doc, cups, run, be, scan, api, syslog, device>>

\* The row and its matches are loaded once, before the OCR.
ScanLoad(r) ==
    /\ scan.pc = "idle" /\ scanq[r] > 0
    /\ scanq' = [scanq EXCEPT ![r] = @ - 1]
    /\ scan' = IF rows[r].archived
               THEN [pc |-> "loaded", row |-> r, loaded |-> rows[r], new |-> rows[r]]
               ELSE NoScan
    /\ UNCHANGED <<policy, doc, cups, run, be, api, syslog, device>>

\* Held for want of a scan alone: no match from the text layer restricts.
HeldForScan(row) == row.state = "held" /\ ~row.blocking

\* What deep_scan makes of the row it loaded, given what OCR found.
Scanned(row, found) ==
    [row EXCEPT !.tier = "ocr_complete",
                !.action = IF Restricts(found) THEN found ELSE @,
                !.state = scanned_state(@, row.blocking, found)]

\* CUPS is told to resume the job here, before anything is written.
ScanOcr ==
    /\ scan.pc = "loaded"
    /\ \E found \in OcrActions(scan.loaded.doc) :
         /\ scan' = [scan EXCEPT !.pc = "write", !.new = Scanned(scan.loaded, found)]
         /\ IF ~Restricts(found) /\ HeldForScan(scan.loaded)
            THEN CupsResume ELSE UNCHANGED <<cups, be>>
    /\ UNCHANGED <<policy, doc, run, api, scanq, syslog, device>>

\* Mutant of ScanCannotConvert: the failure is logged, the row left as it was.
ScanGivesUp ==
    /\ scan.pc = "loaded" /\ "ocr_error" \in Disturbances
    /\ scan' = NoScan
    /\ UNCHANGED <<policy, doc, cups, run, be, api, scanq, syslog, device>>

\* deep_scan_failed: no PDF to rasterise; the job stays as it is.
ScanCannotConvert ==
    /\ scan.pc = "loaded" /\ "ocr_error" \in Disturbances
    /\ scan' = [scan EXCEPT !.pc = "write", !.new = [scan.loaded EXCEPT !.tier = "unreadable"]]
    /\ UNCHANGED <<policy, doc, cups, run, be, api, scanq, syslog, device>>

\* Flush and commit: the columns that changed since the load, whatever they hold now.
ScanWrite ==
    LET row == rows[scan.row]
        set(now, loaded, new) == IF new = loaded THEN now ELSE new
    IN  /\ scan.pc = "write" /\ ~Locked(scan.row)
        /\ rows' = [rows EXCEPT ![scan.row] =
              [row EXCEPT !.state  = set(@, scan.loaded.state, scan.new.state),
                          !.action = set(@, scan.loaded.action, scan.new.action),
                          !.tier   = set(@, scan.loaded.tier, scan.new.tier)]]
        /\ events' = IF scan.loaded.state = "held" /\ scan.new.state = "released"
                     THEN events \cup {<<scan.row, "deep_scan_clear">>} ELSE events
        /\ scan' = NoScan
        /\ UNCHANGED <<policy, doc, cups, run, be, insp, an, scanq, syslog, device>>

\* The worker's death, an exception, or a body that cannot be extracted a second
\* time loses the scan: nothing queues it again.
ScanDies ==
    /\ scan.pc # "idle" /\ "worker_crash" \in Disturbances
    /\ scan' = NoScan
    /\ UNCHANGED <<policy, doc, cups, run, be, api, scanq, syslog, device>>

Worker == (\E r \in Runs : ScanLoad(r)) \/ ScanOcr \/ ScanCannotConvert \/ ScanWrite

-----------------------------------------------------------------------------
(* Disturbances *)

\* The API process dies: every open session rolls back and every answer is lost.
ApiCrash ==
    /\ "api_crash" \in Disturbances
    /\ insp' = [n \in Runs |-> IF insp[n].pc \in {"none", "done"} THEN insp[n]
                               ELSE [pc |-> "dead"]]
    /\ an' = [a \in Analysts |-> NoDecision]
    /\ <<insp', an'>> # <<insp, an>>
    /\ UNCHANGED <<policy, doc, cups, run, be, rows, events, worker, syslog, device>>

\* Whatever its backend was doing, cupsd finds the job unfinished and runs it again.
CupsdRestart ==
    /\ "cupsd_restart" \in Disturbances /\ cups = "processing"
    /\ Exit("pending") /\ Forget
    /\ UNCHANGED <<policy, doc, run, api, worker, syslog, prints>>

OperatorResume ==
    /\ "operator_resume" \in Disturbances /\ cups \in {"held", "stopped"}
    /\ cups' = "pending"
    /\ UNCHANGED <<policy, doc, run, be, api, worker, syslog, device>>

UserCancel ==
    /\ "user_cancel" \in Disturbances /\ cups \in {"pending", "held", "processing"}
    /\ Exit("canceled")
    /\ UNCHANGED <<policy, doc, run, api, worker, syslog, device>>

\* /var/spool/cups is on no volume: a rebuilt container numbers its jobs afresh,
\* and another document comes under an id the database already knows.
SpoolReset ==
    /\ "spool_reset" \in Disturbances /\ run > 0
    /\ doc' \in Documents \ {doc}
    /\ Exit("pending")
    /\ forgotten' = forgotten \cup {p.run : p \in prints}
    /\ UNCHANGED <<policy, run, api, worker, syslog, prints>>

Disturbance == ApiCrash \/ ScanDies \/ CupsdRestart \/ OperatorResume
               \/ UserCancel \/ SpoolReset

Next == Backend \/ RealBackend \/ Inspector \/ Decide \/ Worker \/ Disturbance

Spec == Init /\ [][Next]_vars

(***************************************************************************)
(* Fairness: CUPS runs what is pending and the shim runs to its exit or    *)
(* its exec (its requests have timeouts); the API serves what it has       *)
(* received; a decision, once taken, is carried through; the worker drains *)
(* its queue.  Nobody is obliged to decide, no real backend has to send or *)
(* to end, and no disturbance has to happen.                               *)
(***************************************************************************)
Fairness == /\ WF_vars(Backend) /\ WF_vars(Inspector) /\ WF_vars(Worker)
            /\ \A a \in Analysts :
                 WF_vars(DecisionFlush(a) \/ DecisionCallCups(a) \/ DecisionCommit(a))

FairSpec == Spec /\ Fairness

-----------------------------------------------------------------------------
(* Properties *)

TypeOK ==
    /\ policy \in Policies /\ doc \in Documents /\ run \in 0 .. MaxRuns
    /\ cups \in CupsState /\ be \in Process
    /\ insp \in [Runs -> NoInsp \cup Inspection]
    /\ rows \in [Runs -> Row \cup {NoRow}]
    /\ scanq \in [Runs -> Nat]
    /\ scan \in DeepScan \cup {NoScan}
    /\ an \in [Analysts -> Decision \cup {NoDecision}]
    /\ events \subseteq Runs \X EventKind
    /\ syslog \subseteq Audit
    /\ prints \subseteq Delivery /\ forgotten \subseteq Runs

\* Policy and text layer together want a look at this document before it prints.
NeedsReview(d) == d.kind = "text" /\ (\/ Restricts(InlineAction(d))
                                      \/ d.thin /\ policy.deep_scan_required)

\* The record of row r explains how document d may count as cleared: a deep scan
\* cleared it - for one the text layer restricts, after a failed re-inspection
\* had dropped its matches.
ScanCleared(r, d) ==
    /\ <<r, "deep_scan_clear">> \in events
    /\ MustHold(d) => {<<r, "fail_open">>, <<r, "fail_closed">>} \cap events # {}

\* A fail-open verdict is in the log, or its session is about to commit it, or
\* the API died between an answer and its commit.
GapRecorded == \/ \E r \in Runs : <<r, "fail_open">> \in events
               \/ \E n \in Runs : insp[n].pc \in {"replied", "returned", "committed"}
                                 /\ insp[n].verdict.kind = "fail_open"
               \/ \E n \in Runs : insp[n].pc = "dead"

\* Who answers for a document printed because of `why`.
Authority(why, d) ==
    /\ why = "unreachable" => /\ policy.backend_fail_mode = "open"
                              /\ "INSPECTION_FAILED_OPEN" \in syslog
    /\ why = "error"       => policy.backend_fail_mode = "open" /\ "BACKEND_ERROR" \in syslog
    /\ why = "verdict"     => policy.fail_mode = "open" /\ GapRecorded
    /\ why = "grant"       => \/ \E r \in Runs : <<r, "released">> \in events \/ ScanCleared(r, d)
                              \/ "spool_reset" \in Disturbances
    /\ why # "oversize"

(***************************************************************************)
(* Every printed document that needed review was let out by someone who    *)
(* answers for it: an analyst, a deep scan, or a fail-open queue - and the *)
(* last leaves a trace in the job's events or in syslog (PLAN.md, 4: the   *)
(* gap is auditable).  The shim, the API, the worker and the console must  *)
(* all play their part for this.                                           *)
(***************************************************************************)
PrintNeedsAuthority == \A p \in prints : NeedsReview(p.doc) => Authority(p.why, p.doc)

(***************************************************************************)
(* A gap never reads as a clean pass (docs/flow.md: fail-open "records     *)
(* state failed_open, never released"): a row says released only if the    *)
(* document needs no review or a deep scan cleared it.                     *)
(***************************************************************************)
GapIsNotClean ==
    \A r \in Runs : rows[r].state = "released" /\ NeedsReview(rows[r].doc)
                   => ScanCleared(r, rows[r].doc)

OcrPending(r) == Exists(r) /\ rows[r].tier = "ocr_pending"

(***************************************************************************)
(* No deep scan is forgotten: a row that waits for OCR has a scan running, *)
(* queued or about to be queued, unless a crash lost it or there is no     *)
(* body to scan.  This is what the commit before enqueue_deep_scan buys.   *)
(***************************************************************************)
PendingScanIsQueued ==
    \A r \in Runs : OcrPending(r) /\ rows[r].archived =>
        \/ scanq[r] > 0
        \/ scan.pc # "idle" /\ scan.row = r
        \/ \E n \in Runs : insp[n].pc = "stored" /\ insp[n].row = r
        \/ {"api_crash", "worker_crash"} \cap Disturbances # {}

(***************************************************************************)
(* Only CUPS prints again: a document goes to the device a second time     *)
(* only if CUPS did not see the first delivery through - the real backend  *)
(* failed after sending, cupsd restarted under it (retry-job runs it       *)
(* again), or the spool and its job history were lost.  No late verdict,   *)
(* second or refused decision, deep scan or operator's resume prints it    *)
(* again.                                                                  *)
(***************************************************************************)
ReprintsFollowBreaks ==
    \A p, q \in prints : p.run < q.run => p.run \in forgotten

(***************************************************************************)
(* A run of the shim ends: it exits, or is replaced by the real backend,   *)
(* and never stalls the queue itself, even if the API is wedged, slow,     *)
(* down or dead (backend/janus: "nothing may escape").                     *)
(***************************************************************************)
BackendTerminates == cups = "processing" ~> (cups # "processing" \/ be.pc = "device")

(***************************************************************************)
(* A pending OCR pass is run (worker.py: a missing Redis must never mean   *)
(* silently skipped OCR), as long as the event loop is not wedged, in      *)
(* which case the row's lock is never released.                            *)
(***************************************************************************)
PendingScanEnds ==
    \A r \in Runs : OcrPending(r) ~> (~OcrPending(r) \/ LoopWaits)

-----------------------------------------------------------------------------
(* What the repository says and the code does not do: each of these is     *)
(* checked by a run that expects TLC to refute it.                         *)

(***************************************************************************)
(* routes_jobs.py: the release is "Recorded before touching CUPS so the    *)
(* preflight grant exists even if lp is slow".  From the call to CUPS on,  *)
(* no preflight of this job is turned down.                                *)
(***************************************************************************)
GrantExistsWhenResumed ==
    [][ be.pc = "preflight" /\ be'.pc = "spool" /\ ~be'.granted
          => \A a \in Analysts : ~(an[a].pc = "called" /\ an[a].kind = "released") ]_vars

(***************************************************************************)
(* models.py on JobState.held: "sitting in the CUPS queue awaiting a       *)
(* decision".  Once nothing is in progress, a row that reads held has its  *)
(* job held in CUPS.                                                       *)
(***************************************************************************)
Settled == /\ be.pc = "idle" /\ cups # "pending" /\ scan.pc = "idle"
           /\ \A n \in Runs : insp[n] \in NoInsp /\ scanq[n] = 0
           /\ \A a \in Analysts : an[a].pc = "idle"

HeldRowMeansHeldJob == Settled => \A r \in Runs : rows[r].state = "held" => cups = "held"

(***************************************************************************)
(* docs/flow.md on release and deny: they record the decision before       *)
(* calling CUPS.  A decision CUPS has acted on is eventually committed.    *)
(***************************************************************************)
DecisionsAreRecorded == \A a \in Analysts : an[a].pc = "called" ~> an[a].pc = "idle"

(***************************************************************************)
(* routes_inspect.preflight: "Has an analyst already cleared this exact    *)
(* CUPS job?"  What passes on a clearance has a cleared row of its own.    *)
(***************************************************************************)
ClearanceIsForThisDocument ==
    \A p \in prints : p.why = "grant" => \E r \in Runs : Exists(r) /\ rows[r].doc = p.doc

(***************************************************************************)
(* engine.deep_scan and its test: a clean OCR releases a job "held only    *)
(* because this queue requires a deep scan", and "a rule hold survives a   *)
(* clean ocr".                                                             *)
(***************************************************************************)
RuleHoldSurvivesCleanOcr ==
    \A r \in Runs : <<r, "deep_scan_clear">> \in events => ~MustHold(rows[r].doc)
=============================================================================
