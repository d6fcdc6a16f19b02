----------------------------- MODULE PrinterQueues -----------------------------
(***************************************************************************)
(* Managed printers: the rows of the queue table, the pairs of CUPS queues *)
(* they stand for, and the console's requests, which change CUPS one       *)
(* command at a time and commit the row last.                              *)
(*                                                                         *)
(* A printer q is a client-facing queue, whose jobs are inspected, and an  *)
(* internal device queue that owns the hardware.  A command may fail       *)
(* having done nothing, or (a timeout) having done its work.  A request    *)
(* that dies, or whose commit fails, leaves what it did to CUPS.  Pages of *)
(* the console ask for the report meanwhile, one step of it at a time.     *)
(*                                                                         *)
(* Policy fields, descriptions and the advertising of the client-facing    *)
(* queue are left out; a row's cups_state and device_uri are kept.         *)
(***************************************************************************)
EXTENDS Naturals

CONSTANTS Queues,     \* names of printers
          Uris,       \* device URIs
          Jobs,       \* print jobs
          Requests,   \* requests the API can have in progress at once
          Viewers,    \* pages asking for the report at once
          Gone,       \* not a URI: the device queue does not exist
          ClientUri,  \* not one of Uris: what an adopted queue's own URI unwraps to
          MaxEdits    \* bound: requests altogether

ASSUME GoneAssumption  == {Gone, ClientUri} \cap Uris = {} /\ Gone # ClientUri
ASSUME QueuesAssumption == Queues # {}
ASSUME EditsAssumption == MaxEdits \in Nat

VARIABLES row,    \* row[q]: the committed row
          client, \* client[q]: CUPS has the client-facing queue
          device, \* device[q]: where the device queue points, or Gone
          shared, \* the device queues CUPS advertises
          job,    \* job[j]: its row, and whether CUPS still has it
          req,    \* req[t]: the request thread t is serving
          report, \* the cached answer of `reconcile`
          view,   \* view[v]: the `reconcile` that page v waits for
          edits,  \* requests begun so far
          blame   \* blame[q]: what has gone wrong around q (history)

console == <<report, view>>
vars    == <<row, client, device, shared, job, req, report, view, edits, blame>>

State == {"ok", "warning", "error", "external"}
Row   == [there : BOOLEAN, uri : Uris \cup {ClientUri, Gone}, cups : State]
NoRow == [there |-> FALSE, uri |-> Gone, cups |-> "external"]

\* `missed`: the delete that removed it from CUPS had not counted it as held (history).
Job   == [state : {"new", "inspecting", "held", "settled"}, queue : Queues, spooled : BOOLEAN,
          missed : BOOLEAN]

\* What it has yet to do, the row as it read it, the one it will write, and the held jobs
\* there were when a delete counted.
Request == [pc : {"idle", "device", "unshare", "client", "finish", "knob", "remove",
                  "removeDevice", "flush", "commit"},
            op : {"none", "create", "update", "delete", "adopt"},
            queue : Queues, seen : Row, new : Row, held : SUBSET Jobs]

\* lost: a request died.  overlap: two were in progress.  cleared: an update that gave CUPS
\* no queue took the error away.  unwarned: an update ignored a warning.  refused: a delete
\* failed.  half: a delete found no client-facing queue.  kept: it failed on the device's.
Blame == {"lost", "overlap", "cleared", "unwarned", "refused", "half", "kept"}

Idle == [pc |-> "idle", op |-> "none", queue |-> CHOOSE q \in Queues : TRUE, seen |-> NoRow,
         new |-> NoRow, held |-> {}]

\* `missing`: rows without a queue; `stray`: client-facing queues without a row (device
\* queues, which the console lists among them, left out).  A blind report was made when
\* CUPS did not answer, and says that all is well.  `raced`: while it was being made, some
\* request had dropped the cache and not yet committed (history).
Report == [kind : {"none", "blind", "full"}, missing : SUBSET Queues, stray : SUBSET Queues,
           raced : BOOLEAN]

NoReport == [kind |-> "none", missing |-> {}, stray |-> {}, raced |-> FALSE]
Blind    == [NoReport EXCEPT !.kind = "blind"]

\* A report in the making: the rows it has read, then the queues lpstat has listed.
View == [pc : {"idle", "read", "listed"}, rows : SUBSET Queues, live : SUBSET Queues,
         raced : BOOLEAN]

NoView == [pc |-> "idle", rows |-> {}, live |-> {}, raced |-> FALSE]

\* Policies seeded from YAML name a queue that may exist; a queue may be made by hand.
Init ==
    /\ row \in [Queues -> {NoRow, [there |-> TRUE, uri |-> Gone, cups |-> "external"]}]
    /\ client \in [Queues -> BOOLEAN]
    /\ device = [q \in Queues |-> Gone]
    /\ shared = {}
    /\ job = [j \in Jobs |-> [state |-> "new", queue |-> Idle.queue, spooled |-> FALSE,
                              missed |-> FALSE]]
    /\ req = [t \in Requests |-> Idle]
    /\ report = NoReport
    /\ view = [v \in Viewers |-> NoView]
    /\ edits = 0
    /\ blame = [q \in Queues |-> {}]

-----------------------------------------------------------------------------
(* Jobs, as far as queues concern them *)

Arrive(j, q) ==
    /\ job[j].state = "new" /\ client[q]
    /\ job' = [job EXCEPT ![j].state = "inspecting", ![j].queue = q, ![j].spooled = TRUE]
    /\ UNCHANGED <<row, client, device, shared, req, console, edits, blame>>

\* The verdict is written whether or not CUPS still has the job.
Verdict(j, state) ==
    /\ job[j].state = "inspecting" /\ state \in {"held", "settled"}
    /\ job' = [job EXCEPT ![j].state = state]
    /\ UNCHANGED <<row, client, device, shared, req, console, edits, blame>>

Decide(j) ==
    /\ job[j].state = "held"
    /\ job' = [job EXCEPT ![j].state = "settled", ![j].spooled = FALSE]
    /\ UNCHANGED <<row, client, device, shared, req, console, edits, blame>>

-----------------------------------------------------------------------------
(* Requests begin: they read the row *)

Busy(q) == \E t \in Requests : req[t].pc # "idle" /\ req[t].queue = q

Begin(t, op, q, pc, new, held, note) ==
    /\ req[t].pc = "idle" /\ edits < MaxEdits
    /\ req' = [req EXCEPT ![t] = [pc |-> pc, op |-> op, queue |-> q, seen |-> row[q],
                                  new |-> new, held |-> held]]
    /\ edits' = edits + 1
    /\ blame' = [blame EXCEPT ![q] = @ \cup note \cup IF Busy(q) THEN {"overlap"} ELSE {}]
    /\ UNCHANGED <<row, client, device, shared, job, console>>

Create(t, q, uri) ==
    /\ ~row[q].there
    /\ Begin(t, "create", q, "device", [there |-> TRUE, uri |-> uri, cups |-> "ok"], {}, {})

\* An update that reaches its end clears an error; otherwise it leaves cups_state alone.
Cleared(r) == [r EXCEPT !.cups = IF @ = "error" THEN "ok" ELSE @]

ClearedNote(r) == IF r.cups = "error" THEN {"cleared"} ELSE {}

\* The device URI changes: the whole pair is set up again.
UpdateDevice(t, q, uri) ==
    /\ row[q].there /\ uri # row[q].uri
    /\ Begin(t, "update", q, "device", [Cleared(row[q]) EXCEPT !.uri = uri], {}, {})

\* Sharing or enabling changes: a command about the client-facing queue.
UpdateKnob(t, q) ==
    /\ row[q].there
    /\ Begin(t, "update", q, "knob", Cleared(row[q]), {}, {})

\* Only policy changes: no command.
UpdatePolicy(t, q) ==
    /\ row[q].there
    /\ Begin(t, "update", q, "flush", Cleared(row[q]), {}, ClearedNote(row[q]))

\* Mutant of HeldOn: jobs still being inspected are counted, held ones are not.
InspectedOn(q) == {j \in Jobs : job[j].state = "inspecting" /\ job[j].queue = q}

HeldOn(q) == {j \in Jobs : job[j].state = "held" /\ job[j].queue = q}

Delete(t, q) ==
    /\ row[q].there /\ HeldOn(q) = {}
    /\ Begin(t, "delete", q, "remove", NoRow, {j \in Jobs : job[j].state = "held"}, {})

\* adopt_existing, at startup or when asked: a queue CUPS has gets the row it lacks.
Adopt(t, q) ==
    /\ client[q] /\ ~row[q].there
    /\ Begin(t, "adopt", q, "flush", [there |-> TRUE, uri |-> ClientUri, cups |-> "ok"], {}, {})

-----------------------------------------------------------------------------
(* Commands: create_queue *)

At(t, pc) == req[t].pc = pc

\* Request t goes on at `pc`, its row to be written with state `cups`.
Go(t, pc, cups) == req' = [req EXCEPT ![t].pc = pc, ![t].new.cups = cups]

\* Mutant of Failed: the exception is logged, the state is what it was to be.
FailedQuietly(t) == Go(t, "flush", req[t].new.cups)

\* A CupsControlError: the row is kept, marked as broken.
Failed(t) == Go(t, "flush", "error")

\* lpadmin -p <q>-device: a new queue is advertised until it is told otherwise.
SetDevice(q, uri) ==
    /\ device' = [device EXCEPT ![q] = uri]
    /\ shared' = IF device[q] = Gone THEN shared \cup {q} ELSE shared

\* Mutant of Target: the URI the row had.
TargetAsRead(t) == req[t].seen.uri

Target(t) == req[t].new.uri

MakeDevice(t) ==
    LET q == req[t].queue IN
    /\ At(t, "device")
    /\ \/ SetDevice(q, Target(t)) /\ (Go(t, "unshare", req[t].new.cups) \/ Failed(t))
       \/ Failed(t) /\ UNCHANGED <<device, shared>>
    /\ UNCHANGED <<row, client, job, console, edits, blame>>

\* Mutant of Warned: create drops warnings too.
WarnedNever(t) == req[t].new.cups

\* What becomes of a warning: create reports it, update drops it.
Warned(t) == IF req[t].op = "create" THEN "warning" ELSE req[t].new.cups

\* lpadmin -o printer-is-shared=false on the device queue: a failure is a warning.
Unshare(t) ==
    LET q == req[t].queue IN
    /\ At(t, "unshare")
    /\ \/ /\ shared' = shared \ {q}
          /\ Go(t, "client", req[t].new.cups)
          /\ UNCHANGED blame
       \/ /\ Go(t, "client", Warned(t))
          /\ blame' = IF req[t].op = "update" THEN [blame EXCEPT ![q] = @ \cup {"unwarned"}]
                                              ELSE blame
          /\ UNCHANGED shared
    /\ UNCHANGED <<row, client, device, job, console, edits>>

MakeClient(t) ==
    LET q == req[t].queue IN
    /\ At(t, "client")
    /\ \/ client' = [client EXCEPT ![q] = TRUE] /\ (Go(t, "finish", req[t].new.cups) \/ Failed(t))
       \/ Failed(t) /\ UNCHANGED client
    /\ UNCHANGED <<row, device, shared, job, console, edits, blame>>

\* Advertising the client-facing queue may warn; enabling it may fail.
Finish(t) ==
    /\ At(t, "finish")
    /\ \/ Go(t, "flush", req[t].new.cups)
       \/ Go(t, "flush", Warned(t))
       \/ Failed(t)
    /\ UNCHANGED <<row, client, device, shared, job, console, edits, blame>>

\* set_shared or set_enabled.
Turn(t) ==
    LET q == req[t].queue IN
    /\ At(t, "knob")
    /\ \/ /\ client[q] /\ Go(t, "flush", req[t].new.cups)
          /\ blame' = [blame EXCEPT ![q] = @ \cup ClearedNote(req[t].seen)]
       \/ Failed(t) /\ UNCHANGED blame
    /\ UNCHANGED <<row, client, device, shared, job, console, edits>>

-----------------------------------------------------------------------------
(* Commands: delete_queue *)

Purged(q, held) ==
    [j \in Jobs |-> IF job[j].queue = q /\ job[j].spooled
                    THEN [job[j] EXCEPT !.spooled = FALSE, !.missed = j \notin held]
                    ELSE job[j]]

\* Without a client-facing queue the first command fails, delete takes that for success,
\* and the device queue's command is never given.
NothingToRemove(t) ==
    LET q == req[t].queue IN
    /\ At(t, "remove") /\ ~client[q]
    /\ req' = [req EXCEPT ![t].pc = "flush"]
    /\ blame' = [blame EXCEPT ![q] = @ \cup {"half"}]
    /\ UNCHANGED <<row, client, device, shared, job, console, edits>>

\* CUPS drops the queue's jobs with it.
RemoveClient(t) ==
    LET q == req[t].queue IN
    /\ At(t, "remove") /\ client[q]
    /\ client' = [client EXCEPT ![q] = FALSE]
    /\ job' = Purged(q, req[t].held)
    /\ \/ req' = [req EXCEPT ![t].pc = "removeDevice"] /\ UNCHANGED blame
       \/ req' = [req EXCEPT ![t] = Idle] /\ blame' = [blame EXCEPT ![q] = @ \cup {"refused"}]
    /\ UNCHANGED <<row, device, shared, console, edits>>

RemoveRefused(t) ==
    /\ At(t, "remove")
    /\ req' = [req EXCEPT ![t] = Idle]
    /\ UNCHANGED <<row, client, device, shared, job, console, edits, blame>>

\* Mutant of AfterDevice: the command names another queue.
AfterDeviceSkipped(q) == device[q]

\* What lpadmin -x leaves of the device queue.
AfterDevice(q) == Gone

\* A failure is only logged.
RemoveDevice(t) ==
    LET q == req[t].queue IN
    /\ At(t, "removeDevice")
    /\ \/ /\ device' = [device EXCEPT ![q] = AfterDevice(q)]
          /\ shared' = shared \ {q}
          /\ UNCHANGED blame
       \/ /\ blame' = [blame EXCEPT ![q] = @ \cup {"kept"}]
          /\ UNCHANGED <<device, shared>>
    /\ req' = [req EXCEPT ![t].pc = "flush"]
    /\ UNCHANGED <<row, client, job, console, edits>>

-----------------------------------------------------------------------------
(* Requests end *)

\* Mutant of Dropped: the report is left to its time limit.
DroppedNever == report

\* invalidate_cache drops the report with the policies, before the commit.
Dropped == NoReport

Flush(t) ==
    /\ At(t, "flush")
    /\ req' = [req EXCEPT ![t].pc = "commit"]
    /\ report' = Dropped
    /\ view' = [v \in Viewers |-> [view[v] EXCEPT !.raced = view[v].pc # "idle"]]
    /\ UNCHANGED <<row, client, device, shared, job, edits, blame>>

\* An insert needs a free key; an update or a delete needs its row.
Conflicts(t) == (req[t].op \in {"create", "adopt"}) = row[req[t].queue].there

\* An update writes the columns that differ from what it read.
Written(t) ==
    LET r == req[t]
        now == row[r.queue]
    IN  IF r.op # "update" THEN r.new
        ELSE [there |-> TRUE,
              uri   |-> IF r.new.uri # r.seen.uri THEN r.new.uri ELSE now.uri,
              cups  |-> IF r.new.cups # r.seen.cups THEN r.new.cups ELSE now.cups]

Commit(t) ==
    /\ At(t, "commit") /\ ~Conflicts(t)
    /\ row' = [row EXCEPT ![req[t].queue] = Written(t)]
    /\ req' = [req EXCEPT ![t] = Idle]
    /\ UNCHANGED <<client, device, shared, job, console, edits, blame>>

\* The commit conflicts, the connection is lost, or the API goes down.
Dies(t) ==
    /\ req[t].pc # "idle"
    /\ req' = [req EXCEPT ![t] = Idle]
    /\ blame' = [blame EXCEPT ![req[t].queue] = @ \cup {"lost"}]
    /\ UNCHANGED <<row, client, device, shared, job, console, edits>>

-----------------------------------------------------------------------------
(* The report *)

Rows == {q \in Queues : row[q].there}
Live == {q \in Queues : client[q]}

\* A report still in time is served as it is.  A new one begins with the table ...
ReconcileReads(v) ==
    /\ view[v].pc = "idle" /\ report.kind = "none"
    /\ view' = [view EXCEPT ![v] = [pc |-> "read", rows |-> Rows, live |-> {},
                                    raced |-> \E t \in Requests : At(t, "commit")]]
    /\ UNCHANGED <<row, client, device, shared, job, req, report, edits, blame>>

\* ... goes on with what lpstat says, up to its timeout later ...
ReconcileLists(v) ==
    /\ view[v].pc = "read"
    /\ view' = [view EXCEPT ![v].pc = "listed", ![v].live = Live]
    /\ UNCHANGED <<row, client, device, shared, job, req, report, edits, blame>>

\* ... unless there is no lpstat (nothing is cached), or it fails ...
ReconcileFails(v) ==
    /\ view[v].pc = "read"
    /\ view' = [view EXCEPT ![v] = NoView]
    /\ report' \in {report, Blind}
    /\ UNCHANGED <<row, client, device, shared, job, req, edits, blame>>

\* ... and replaces whatever has been cached meanwhile.
ReconcileStores(v) ==
    /\ view[v].pc = "listed"
    /\ report' = [kind |-> "full", missing |-> view[v].rows \ view[v].live,
                  stray |-> view[v].live \ view[v].rows, raced |-> view[v].raced]
    /\ view' = [view EXCEPT ![v] = NoView]
    /\ UNCHANGED <<row, client, device, shared, job, req, edits, blame>>

\* _RECONCILE_TTL is over.
ReportExpires ==
    /\ report.kind # "none"
    /\ report' = NoReport
    /\ UNCHANGED <<row, client, device, shared, job, req, view, edits, blame>>

Next ==
    \/ ReportExpires
    \/ \E v \in Viewers :
          ReconcileReads(v) \/ ReconcileLists(v) \/ ReconcileFails(v) \/ ReconcileStores(v)
    \/ \E j \in Jobs, q \in Queues : Arrive(j, q)
    \/ \E j \in Jobs, state \in {"held", "settled"} : Verdict(j, state)
    \/ \E j \in Jobs : Decide(j)
    \/ \E t \in Requests, q \in Queues, uri \in Uris : Create(t, q, uri) \/ UpdateDevice(t, q, uri)
    \/ \E t \in Requests, q \in Queues :
          UpdateKnob(t, q) \/ UpdatePolicy(t, q) \/ Delete(t, q) \/ Adopt(t, q)
    \/ \E t \in Requests :
          \/ MakeDevice(t) \/ Unshare(t) \/ MakeClient(t) \/ Finish(t) \/ Turn(t)
          \/ NothingToRemove(t) \/ RemoveClient(t) \/ RemoveRefused(t) \/ RemoveDevice(t)
          \/ Flush(t) \/ Commit(t) \/ Dies(t)

Spec == Init /\ [][Next]_vars

-----------------------------------------------------------------------------
(* Properties *)

TypeOK ==
    /\ row \in [Queues -> Row]
    /\ client \in [Queues -> BOOLEAN]
    /\ device \in [Queues -> Uris \cup {Gone}]
    /\ shared \subseteq {q \in Queues : device[q] # Gone}
    /\ job \in [Jobs -> Job]
    /\ req \in [Requests -> Request]
    /\ report \in Report
    /\ view \in [Viewers -> View]
    /\ edits \in 0 .. MaxEdits
    /\ blame \in [Queues -> SUBSET Blame]

Mishaps(q, excused) == blame[q] \cap excused # {}

\* printers.py's "the console can show the discrepancy rather than hiding it": while nobody
\* is changing printer q, an "ok" row means an inspected queue exists and its jobs go where
\* the row says, unless an update cleared an error it had not repaired, a delete failed
\* having removed the queue, or requests overlapped or died.
OkMeansInspected ==
    \A q \in Queues : row[q].there /\ row[q].cups = "ok" /\ ~Busy(q) =>
        \/ client[q] /\ row[q].uri \in {device[q], ClientUri}
        \/ Mishaps(q, {"cleared", "refused", "overlap", "lost"})

\* create_queue's "never shared, so nobody can print to it directly and skip inspection":
\* nobody is told of a device queue whose row says "ok", unless an update dropped the
\* warning or cleared an error, or requests overlapped or died.
OkMeansUnshared ==
    \A q \in Queues : row[q].there /\ row[q].cups = "ok" /\ ~Busy(q) /\ q \in shared =>
        Mishaps(q, {"unwarned", "cleared", "overlap", "lost"})

\* delete_queue's "leaving the device queue behind would strand a working, un-inspected
\* route to the printer": with the row goes the device queue, unless its removal failed, the
\* client-facing queue was missing, or requests overlapped or died.
NoStrandedDevice ==
    \A q \in Queues : ~row[q].there /\ ~Busy(q) /\ device[q] # Gone =>
        Mishaps(q, {"kept", "half", "overlap", "lost"})

\* delete's "deleting the queue would strand them: no way to release, no way to deny": CUPS
\* still has every held job, except one that was not yet held when a delete counted.
HeldJobsSurviveDelete ==
    \A j \in Jobs : job[j].state = "held" => job[j].spooled \/ job[j].missed

\* reconcile's "configured here, absent there: looks protected, inspects nothing": of every
\* printer that nobody is changing, a cached report says whether its row or its queue is
\* missing, although edits change CUPS between its steps and after them: an edit drops what
\* it makes old.  The exceptions are a report in whose making some request had dropped the
\* cache and not yet committed - an edit that ends within it, too, leaves it as it is - and
\* a request that died or failed.
ReportIsTrue ==
    report.kind = "full" /\ ~report.raced =>
        \A q \in Queues : ~Busy(q) =>
            \/ (q \in report.missing) = (q \in Rows \ Live)
               /\ (q \in report.stray) = (q \in Live \ Rows)
            \/ Mishaps(q, {"refused", "lost"})
=============================================================================
