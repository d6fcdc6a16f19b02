# janus-print: TLA+ models and proofs

janus-print inspects print jobs for data leaks. A CUPS backend sends every job to an
inspector, which lets it print, holds it for an analyst or cancels it. This directory holds
TLA+ modules that model the code, TLC configurations that check small instances, and proofs
that TLAPS checks for every instance. `PROJECT.json` maps every definition to the lines it
models and lists runs, mutants, findings, hazards and theorems.

    tlc -workers 2 -config PrintPathSafety.cfg MCPrintPath     # one run
    tlapm PrintPathProofs.tla                                  # one module's proofs

## 1. Inventory

Paths are relative to the repository; `jp/` stands for `src/janusprint/`.

| Part | State it keeps | Operations | Must be true of it | Module |
|---|---|---|---|---|
| **Backend shim** `backend/janus` | one process per run of a CUPS job | preflight, spool, post, obey, exec the real backend | every run ends; nothing prints that no one answers for; failing open leaves a trace | `PrintPath` |
| **Inspector** `jp/inspector/engine.py`, `rules.py` | row of the job, its matches and events | `inspect_job`, `deep_scan`, `register_document` | a gap is no clean pass; a rule hold survives a clean OCR | `PrintPath`, `Verdict`, `RuleEvaluation` |
| **Inspect API** `jp/api/routes_inspect.py` | a database session per request | `/preflight`, `/inspect` | preflight passes only what was cleared; the row is committed before its scan is queued | `PrintPath` |
| **Decisions** `jp/api/routes_jobs.py`, `cups_control.py` | session, CUPS | release, deny | decided once; recorded before CUPS acts; no second print of its making | `PrintPath` |
| **Worker** `jp/worker.py`, `ocr.py` | RQ queue, session | `enqueue_deep_scan`, `run_deep_scan` | no pending scan is forgotten | `PrintPath`, `Retention` |
| **Sessions** `jp/db.py` | snapshot, row locks | commit, roll back | | every module with sessions |
| **Content gate** `routes_jobs.py` 170-440 | content requests, audit rows | request, approve, text, download, preview | two people; a used grant opens nothing more; used means read and audited | `ContentGate` |
| **Archive, retention** `jp/archive/` | blobs, wrapped keys, purge dates | store, load, purge | a purged body stays gone; a body lost in a crash is still due | `Retention` |
| **Registries** `inspector/store.py`, `printers.py`, `validator_store.py` | tables, per-process caches | create, update, enable, delete, seed, load | a cache its probe calls current is current; no rule in force lacks its validator | `Registry` |
| **Printer queues** `jp/printers.py`, `routes_printers.py` | table and CUPS's own queues | create, update, delete, adopt, reconcile | "ok" is true of CUPS; no way past the inspection; held jobs survive a delete | `PrinterQueues` |
| **Users** `routes_users.py`, `auth.py`, `admin_cli.py` | users, tokens | log in and out, create, edit, reset, delete, command line | an active administrator remains; a revoked session opens nothing | `Accounts` |
| **Fingerprints, checksums** `fingerprint.py`, `validators.py` | none | pure functions | agree with their definitions | `Fingerprints`, `Checksums` |
| **SIEM bridge** `jp/bridge/cef.py` | none | name, escape and send an event | a gap is not reported as clean; a value ends no field | `Alerts` |
| Dashboard, installers, React console, deployment | none of the above | output and wiring | | none |

**Interaction.** CUPS runs the shim; the shim asks the API over HTTP with timeouts of its
own (3 s for preflight, 8 s in the Docker image for inspection, against the API's 15 s
deadline) and answers CUPS by its exit code. `/inspect` writes the job's row and queues a
deep scan; the worker reads and rewrites the row and may tell CUPS to resume the job; an
analyst's decision rewrites it too and tells CUPS to resume or cancel. A resumed job runs
the shim again, whose preflight reads the row. Apart from CUPS, the row is the only memory
they share. The worker's second thread purges archived bodies that the console's readers,
the deep scan and a re-inspection may be using; administrators change the rules and
validators both processes hold copies of, the printers CUPS holds the other half of, and
each other's accounts.

**What is hard.** Writers of one row whose sessions overlap; decisions taken on snapshots
minutes old; CUPS or the blob store changed before the commit; caches dropped before it;
checks of one statement acted on in another; answers that come after the asker has given
up; processes that die in between; one event loop on which `inspect()` blocks. The 40
hazards are listed at their lines in `PROJECT.json`, with the properties that watch them.

## 2. Modules

| Module | Content |
|---|---|
| `Verdict` | Actions and their order, documents, policies, verdicts: the decisions that depend on nothing but a document and a policy. No state. |
| `PrintPath` | The life of one CUPS job: shim, inspections, row, deep scan, decisions, CUPS. EXTENDS `Verdict`. |
| `Retention` | One archived job: blob, wrapped key, text, the purge and a re-inspection beside it. |
| `TwoPersonRule` | What the content gate promises, in three actions: the abstract specification. |
| `ContentGate` | Requests, approvals and readings of the job of `Retention`, which it EXTENDS; implements `TwoPersonRule`. |
| `Registry` | Rules, validators, and the copies the API and the worker keep. |
| `PrinterQueues` | The table of printers, CUPS's pairs of queues, and requests that change both. |
| `Accounts` | Accounts, tokens, the console's edits and the command line. |
| `Checksums`, `Fingerprints`, `RuleEvaluation`, `Alerts` | The pure algorithms, as operators. |
| `Algorithms` | Picks an input and states what the algorithms owe of it. EXTENDS the four. |
| `MC...` | Instances for TLC of the module whose name follows. |
| `PrintPathTypes`, `PrintPathProofs` | Proofs about `Verdict` and `PrintPath`. |
| `AccountsProofs`, `ContentGateProofs`, `RegistryProofs`, `PrinterQueuesProofs` | Proofs about the modules they are named for, `Retention` with `ContentGate`. |
| `AlgorithmsProofs`, `ChecksumProofs` | Proofs about `Algorithms`: the second of the checksums, the first of the rest. |

One convention holds throughout: one action stands for the code between two points at which
another process can see or change shared state. A flush that nobody can see before its
commit is part of the commit's step, unless its lock or the order matters.

Some variables or fields are *history*: no guard reads them, and they only serve to say in
a property which race or failure excuses a bad state. Each such excuse is needed: without
it TLC finds a counterexample. The comments where they are declared name them.

### Verdict

A document is reduced to what the decisions tell apart: whether it can be read at all or is
too big to be uploaded, the strictest action of the rules that hit its text layer, of the
fingerprints it overlaps and of the rules OCR would make hit, and whether a page needs OCR.
A policy carries the *two* fail modes, the queue's (in the API) and `backend.conf`'s (in the
shim): they are configured apart and may disagree. `run_inspection`, `unreadable` and
`resolve_failure` are the three ways `inspect_job` ends; `Verdicts` is the set of all it may
conclude, including a crash and a passed deadline with any part of the hits found so far.
`OcrActions` is what a deep scan may find: a missing tesseract, a failing page or one past
`ocr_max_pages` is simply not looked at, so "nothing found" is always possible.

### PrintPath

| Variable | Code |
|---|---|
| `policy`, `doc` | the queue's policy; the document CUPS holds under this id |
| `cups`, `run`, `be` | CUPS's job state, the count of backend runs, the shim's process and where it is in `main`; `device` once the real backend has replaced it |
| `insp[n]` | the `/inspect` request of run *n*: `queued` (body received), `selected` (dedup query done), `returned` (row flushed, lock held), `stored` (committed early, scan not queued yet), `committed` or `replied` (teardown and response, in either order), `dead` |
| `rows[n]` | the committed row that run *n* inserted: state, action, scan tier, whether a match blocks, whether the body was archived |
| `scanq`, `scan` | RQ's queue and the worker's `deep_scan`, with the row as it loaded it and as it will write it |
| `an[a]` | an analyst's request: `read` (guard passed), `flushed` (row lock held), `called` (CUPS has answered) |
| `events`, `syslog` | JobEvents, the shim's audit lines |
| `prints`, `forgotten` | what reached the device, in which run and why; the runs that delivered and that CUPS has no completion of (history) |

One action stands for the code between two points at which another process can see or
change shared state. Sessions are PostgreSQL's READ COMMITTED: reads see committed rows,
a flush locks the row until the commit, and SQLAlchemy's UPDATE writes the columns that
differ from those *loaded* - which is how a deep scan can keep, or overwrite, what others
wrote in between (`ScanWrite`, `Inspected`). `inspect()` is a coroutine that runs
`inspect_job` on the event loop, so only one is on it at a time (`LoopBusy`), nothing else
commits or answers meanwhile, and if its row is locked the API stands still (`LoopWaits`).
`release_job` and `deny_job` run on threads.

A commit may come before or after the response: `pyproject.toml` asks for FastAPI 0.115 or
later, which includes releases of either order.

The real backend that the shim execs is external and has two steps. `RealBackendSends` is
the delivery, of all the document or part of it; `RealBackendExits` is its exit code, and
with `device_error` any code, before or after sending. Between the two a restart of cupsd
runs the job again, as a failure does under `ErrorPolicy retry-job`, and what was delivered
stays delivered: `prints` keeps every run's.

`Disturbances` chooses what may go wrong in an instance; the names are explained where they
are declared. `user_cancel`, `operator_resume`, `cupsd_restart`, `spool_reset` and
`api_crash` are the environment; they are marked external in the map.

### Retention and ContentGate

| Variable | Code |
|---|---|
| `job` | the `PrintJob` row: `key` (archive_key and wrapped_key), `text` (ExtractedText), `purged` (purged_at), `due` (purge_after has passed) |
| `blob` | the encrypted body in the archive store |
| `purge` | `purge_expired`: `deleted` (the store has been asked to delete), `flushed` (row locked) |
| `insp` | a re-inspection: `selected` (the dedup query chose the row), `locked` (flushed) |
| `req[g]`, `deciding[p]` | a `ContentRequest`; an approver between reading it and committing |
| `access[x]` | a handler that reads text, a preview or the original: checked, loaded, answered and logged in either order |

Encryption is modelled by what it is for: a body is readable with blob and key, and with
nothing less. `archive.delete` may raise; the code logs that and clears the row all the
same, so a key may go while the blob stays (`blob' \in {FALSE, blob}`). SQLAlchemy flushes
the row before it deletes the text, hence `PurgeFlush`. A crash of the worker rolls the row
back but not the blob.

### Registry

| Variable | Code |
|---|---|
| `row[i]` | a rule or validator: absent, off or on; the validator a rule names; `updated_at` |
| `edit[e]` | a request between flush and commit |
| `cache[p]`, `reader[p]` | `store._cached` of the API or the worker; a `load_ruleset` between its probe and its rows |
| `registry[p]` | `validators._custom`, compiled at start and, in the API, by each edit |
| `clock` | the wall clock that stamps `updated_at` |

Edits of one row wait for each other at its lock; no two flushes share a reading of the
clock; a process loads once at a time. Seeding at the API's start (`Seeded`) brings back
shipped rules that are missing. `printers.py` 96-149 caches queue policies by the same
algorithm.

### PrinterQueues

| Variable | Code |
|---|---|
| `row[q]` | a queue's row: device URI and `cups_state` |
| `client[q]`, `device[q]`, `shared` | CUPS: the inspected queue, the `-device` queue and where it points, whether it is advertised |
| `job[j]` | a job's row and whether CUPS still has it |
| `req[t]` | a request of the console and the CUPS command it is at |
| `report` | `reconcile`'s answer, cached for 30 s |
| `view[v]` | a page's `reconcile` in the making: `read` (the rows it has read), `listed` (and the queues `lpstat` named) |

`create_queue` and `delete_queue` are followed command by command; each may fail with
nothing done or, by a timeout, with its work done. `reconcile` is three steps - the table,
`lpstat` up to its timeout later, the store into the cache - and requests may do anything
in between. That a knob command fails for a missing
queue is an assumption about `lpadmin`.

### Accounts

| Variable | Code |
|---|---|
| `user[u]`, `token[k]` | rows of users and sessions |
| `txn[t]` | a console request: `authorised` (has read its actor), `loaded` (has read its target, counted the administrators and deleted the sessions it sees, and must commit) |

`session.get` of one's own account answers from the request's identity map (`Loaded`); an
UPDATE writes only what differs from what was loaded and fails if the row is gone.
Passwords and one's own password change, which touches only the hash, are left out.

### Checksums, Fingerprints, RuleEvaluation, Alerts

A matched value is a sequence of digits and letters, a text of words, a match what a rule
asks of it, a document a sequence of bytes by kind. The hash of a shingle is a constant
operator of which only `HashAssumption` is known, that it is a natural number: shingles may
collide, and in the run two do. What is left out: the entropy gate (logarithms), `us_ssn` (a
list of shapes), regular expressions, the rounding of binary floats.

Every loop is a recursive function from the front of its input (`upto[n]`, what the loop has
after `n` turns), which is also the form the proofs reason about; that is why `Kept` and
`Replaced` are written out where the community modules have `SelectSeq` and `FlattenSeq`.

## 3. Properties and runs

| Run | Instance | Checks | Distinct states |
|---|---|---|---|
| `print_path_safety` | a scan with card data and a clean scan; open and closed queues with deep scan required; 2 runs, 1 analyst, 9 kinds of disturbance | `TypeOK`, `PrintNeedsAuthority`, `GapIsNotClean`, `ReprintsFollowBreaks` | 3.1 million |
| `print_path_liveness` | a scan with card data and an oversize plot; API closed, backend open; 2 runs, 7 kinds of disturbance; fairness | `PendingScanIsQueued`, `BackendTerminates`, `PendingScanEnds` | 287 000 |
| `accounts` | 2 users, 2 tokens, 2 overlapping requests, 3 edits | `TypeOK`, `SessionsEndAtRevocation`, `AdminsLostOnlyByRace` | 716 000 |
| `content_gate` | an analyst and two approvers, 1 grant, 2 readings, 1 crash, dual approval and triage on; fairness | `TypeOK`, `RecordedGrantIsSpent`, `GrantUsedMeansRead`, `MissingBodyIsDue`, `TextReturnsOnlyByRace`, `TwoPeopleOpen`, `DueIsPurged` | 906 000 |
| `registry` | a shipped and a local rule, 1 validator, 2 overlapping edits, 2 flushes | `TypeOK`, `StaleRulesOnlyByRace`, `RulesResolve` | 1.4 million |
| `printer_queues` | 1 printer, 2 URIs, 1 job, 2 overlapping requests, 3 in all, 1 page asking for the report | `TypeOK`, `OkMeansInspected`, `OkMeansUnshared`, `NoStrandedDevice`, `HeldJobsSurviveDelete`, `ReportIsTrue` | 2.9 million |
| `algorithms` | inputs below | the ten properties of `Algorithms` | 160 000 |
| `preflight_race`, `blocked_reads_held`, `wedged_release`, `reused_job_id`, `scan_frees_rule_hold` | see section 5 | one property each, violated | small |

**The print path**

* `PrintNeedsAuthority` - whatever needs review and reaches the device was let out by an
  analyst, a deep scan or a fail-open setting that left its trace. All five writers can
  break it.
* `GapIsNotClean` - no row of a document that needs review reads `released` unless a deep
  scan cleared it.
* `ReprintsFollowBreaks` - a document goes to the device again only if CUPS did not see the
  earlier delivery through: the real backend failed after sending, cupsd restarted under it,
  or the spool was lost. Resumes, refused or double decisions, late verdicts and deep scans
  print nothing a second time. That a break does print it again is a hazard of `retry-job`
  which nothing in this code prevents.
* `PendingScanIsQueued` - a row that waits for OCR has a scan running, queued or about to
  be. This is what the commit before `enqueue_deep_scan` buys.
* `BackendTerminates`, `PendingScanEnds` - a run of the shim ends or hands over to the real
  backend; a pending scan ends.

**Accounts**

* `AdminsLostOnlyByRace` - the console loses its last active administrator only through the
  command line or an edit whose count was stale when it committed.
* `SessionsEndAtRevocation` - after a revocation no older session is usable, but for logins
  that overlapped it.

**Content gate and retention**

* `TwoPeopleOpen` - the gate implements `TwoPersonRule` under the mapping `holder`,
  `approver`, `opened`: the detailed handlers, with their stale reads and double
  approvals, take only its steps.
* `RecordedGrantIsSpent`, `GrantUsedMeansRead` - a recorded download ends its grant for
  every later request; a used grant was read under and audited.
* `MissingBodyIsDue` - a row that promises a body which is gone is past its date, and a
  purged row opens nothing.
* `TextReturnsOnlyByRace` - purged text comes back only through an inspection that chose
  the row before the purge committed.
* `DueIsPurged` - whatever is due is purged, crashes and missing blobs notwithstanding.

**Registry**

* `StaleRulesOnlyByRace` - a cache the probe agrees with holds the rules in force, unless an
  edit committed between a load's probe and its rows, or edits committed in another order
  than they were stamped.
* `RulesResolve` - a rule in force whose validator a process cannot resolve was enabled
  without validation, or its validator was disabled under it, or (in the worker) edited
  since the worker started, or edits overlapped or failed.

**Printer queues**

* `OkMeansInspected`, `OkMeansUnshared`, `NoStrandedDevice` - what the console says of a
  printer at rest is so in CUPS, its device queue is not advertised, and none is left behind
  by a delete; each with the mishaps that excuse it.
* `HeldJobsSurviveDelete` - a delete takes no held job with it, but one held after it
  counted.
* `ReportIsTrue` - of every printer nobody is changing, a full report in time agrees with
  table and CUPS, although edits change both before, between and after its three steps.
  Excused are the reports in whose making some request had dropped the cache and not yet
  committed (`raced`): the code stores those all the same, even if the whole edit came and
  went between the reading and the store, and serves them for 30 s. And a request that died,
  or a delete that was refused, may have left CUPS changed and the report standing.

**Algorithms**

* `MisreadDigitIsCaught` - one misread digit invalidates a card, NHS number or IBAN.
* `GenericMatchesShipped` - `weighted_mod` with the right parameters accepts what the
  shipped checksums accept.
* `SharedRunIsFound`, `ExcerptIsMatched` - the winnowing guarantee, and what
  `match_fingerprints` makes of it.
* `RuleFiresAsDocumented` - the evaluation loop against the set of surviving matches: their
  number, the best of their scores (which are capped at 1), the first that has it.
* `MaskHides` - a sample never shows itself whole.
* `TextIsReadAsText` - UTF-8 is text, unless the sniffed part ends inside a character.
* `AlertReadsBack` - escaping against a reader of the line.
* `CleanInlineAlertNamesGaps` - when the API sends `PRINT_CLEAN` of a job whose pages were
  not all read, `scanTier` names the gap.
* `CleanScanAlertHidesNoHold` - when the worker sends it after a deep scan, no restricting
  hit is covered up, of OCR or of an inspection that read the text layer, and no failure
  that printed. It does *not* mean that every page was read (section 5).

Each property has a mutant in its module, a plausible bug under which TLC finds it violated.

**Bounds.** `MaxRuns` is how often CUPS may run the shim for the job. Two suffice for every
pair of writers to meet: an inspection and its re-inspection, a scan between them, a
decision before or after either; the second run is also the resumed one. It caps nothing
else. Queue counters never exceed the runs. The safety run has one analyst, who may decide
again and again; a second one is left to the theorems, which hold for any number. The
documents of the safety
run are those on which text layer, OCR and policy disagree; a document with no thin page
takes a subset of the same actions.

In `accounts`, two requests at once and a third edit give every pair that overlaps and one
that comes before or after both; the symmetry is of tokens and of requests. In
`content_gate`, two readers meet each other, the purge, both approvers and one crash; the
people are not symmetric. In `registry`, two flushes give every pair of edits in either
order of stamps and commits; loads, restarts and reloads are not bounded. In
`printer_queues`, two requests overlap and a third precedes or follows, while one page asks
for the report over and over; two pages with two requests pass as well (1 million states). A
second printer shares nothing with the first but the report, and names that end in `-device`
are not modelled. The theorems of section 4 hold without these bounds. The `algorithms`
inputs are: cards, NHS numbers and IBANs with one or two digits varied; every text of 2 to 7
words over two words, with shingles and windows of two, so that excerpts begin anywhere and
some texts fill no window; up to three matches; samples up to nine characters with ends from
-2 to 4; documents up to one byte beyond the sniffed head; values up to four characters;
documents and policies as in `Verdict`.

CHECK_DEADLOCK is off in every run: a job that is printed, cancelled or waits for an analyst
is a proper end, the other instances stop when their bounded edits or readings are used up,
and an algorithm's input is looked at once.

**Fairness.** `FairSpec` of `PrintPath` is weakly fair to four things: CUPS runs pending
jobs and the shim runs to its exit or its `execv` (each request has a timeout, so
`PostFails` stays enabled while the API is wedged); the API serves what it received; a
request to decide, once made, is carried through; the worker drains its queue. Nobody has to
decide, no disturbance has to happen, and no real backend has to send or to end: nothing in
this code bounds the time it takes, so `BackendTerminates` ends where the shim does. The
liveness run leaves out crashes and disturbances that can recur for ever.

`ContentGate` is weakly fair to `PurgeBody` and `PurgeCommit`, since
`run_retention_loop` comes round every hour and catches whatever a purge raises, and to
`InspectCommit`, since an inspection has a deadline; it is strongly fair to `PurgeFlush`,
since PostgreSQL hands a row's lock to whoever has waited longest. Requests for content,
approvals, inspections and crashes need not happen.

## 4. Proofs

Every invariant and every action property that a run checks is a theorem, and so is the
refinement; what is left to TLC alone is liveness.

All theorems hold for any value of the constants; they assume only the named `ASSUME`s of
their modules: that documents and policies are of their type, bounds are natural numbers,
sets that must not overlap do not, and the set of rules is finite. Those of the algorithms
are `InputsAssumption` (inputs are of their types; nothing bounds their length),
`SizesAssumption` and `SniffedAssumption` (a shingle, a window and the sniffed part are not
empty, the threshold is a percentage of at least 1) and `HashAssumption`. TLC checked the
strengthened invariants before they were proved.

**`PrintPath`** (any analysts, documents, policies, disturbances and number of runs)

* `TypeCorrect: Spec => []TypeOK`. `TypeOK` is not inductive: a flush writes to the row it
  loaded, so `TypeInv` adds that whatever is about to be written exists, and that an
  inspection past its verdict has one.
* `PrintsAreAuthorised: Spec => []PrintNeedsAuthority`. `AuthorityInv` follows the authority
  back from the print to where it arises: a run that is about to exec already has one
  (`BackendHasAuthority`), a run that preflight granted found a row that is sound
  (`RunSound`), a sound row's clearance has its event, and every open session - inspection,
  scan, decision - will commit a sound row (`SessionsSound`). The last is the heart: a deep
  scan writes a *stale* row, and the proof shows that the columns it writes together with
  those it leaves are still sound.
* `GapsStayVisible: Spec => []GapIsNotClean` follows from the same invariant.
* `ReprintsAreCupsOwn: Spec => []ReprintsFollowBreaks`. `DeliveryInv`: the shim or the real
  backend is active exactly while CUPS says `processing`, and every delivery is forgotten
  unless it is the current run's and the job is in progress or over for good (`InSight`).
* `ScansAreQueued: Spec => []PendingScanIsQueued`. A scan that is at work need not answer
  the row that waits: it may have loaded it before a re-inspection made it wait again, and
  then writes no tier. `ScansInv` therefore counts a running scan only if it loaded the row
  as waiting, and shows that another is queued or about to be otherwise.

**`Accounts`**

* `AdminGuard: Spec => AdminsLostOnlyByRace`. `Guarded`: an edit that is about to demote,
  disable or delete an administrator counted another one.
* `SessionsEnd: Spec => []SessionsEndAtRevocation`. `CutInv`: a session that is
  there is newer than every revocation of its account, and any revocation about to commit
  has it in `kills`, unless its login overlapped one of them.

**`ContentGate`**

* `TwoPeople: Spec => TwoPeopleOpen`, the refinement, step by step. `GateInv`: whoever is
  deciding is not the requester, an approved request has an approver, and an access under a
  grant was begun by its holder.
* `GrantsAreSpent: Spec => []RecordedGrantIsSpent` and
  `GrantsAreUsedToRead: Spec => []GrantUsedMeansRead`. `SpentInv`: `used` is set exactly
  where a download is logged, so who begins later sees it.
* `BodiesAreAccountedFor: Spec => []MissingBodyIsDue`. `BodyInv`: a purge at
  work is of a row that is due, and the row stays due if the worker dies.
* `TextStaysAway: Spec => TextReturnsOnlyByRace` needs only the types.

**`Registry`**

* `RulesAreResolved: Spec => []RulesResolve`. `ResolveInv`: until edits overlap, at most one
  is in progress, and the API's registry is what the table will be once it commits.
* `StaleOnlyByRace: Spec => []StaleRulesOnlyByRace`. `StampInv`: the stamp of a pending edit
  is unlike every other. `CacheInv`: a cache was filled from *some* table whose probe it
  keeps, and since then either every row stamped no later is as it was (`Kept`), or
  the newest of them was overwritten or deleted for good (`Overwritten`). If count and
  newest stamp agree with today's table, the two tables have the same rows.

**`PrinterQueues`**

* `OkIsInspected`, `OkIsUnshared`, `DevicesNotStranded` prove `OkMeansInspected`,
  `OkMeansUnshared`, `NoStrandedDevice` from one invariant, `LocalInv`: unless a request
  overlapped another or died, the one that is in progress knows its printer's row, and
  `During` says for each of its steps what CUPS has by then; `Rest` says it of a printer
  nobody is changing.
* `HeldJobsKept: Spec => []HeldJobsSurviveDelete`. `HeldInv`: CUPS has every job
  that is inspected or held, or a delete missed it, and a delete that goes ahead has counted
  only jobs of other queues.
* `ReportsAreTrue: Spec => []ReportIsTrue`. `ReportInv`: what the cached report says of a
  printer (`Told`), and what each one in the making has gathered of it (`Gathered`), is so,
  or the request that made it false has yet to drop it; and while one of them stands that no
  request raced, none is about to commit.

`AccountsTyped`, `GateTyped`, `RegistryTyped` and `QueuesTyped` prove the four `TypeOK`s on
the way.

**`Algorithms`** (inputs of any length)

The state never changes after the input is picked, so each theorem is one about operators:
for every input that `Cases` allows, the property holds. What a loop computes for every
length needs induction. The library's induction theorems take an operator as a parameter,
which no prover here can instantiate; `UpTo` takes a *set* instead - if 0 is in it and each
member hands on to the next, all numbers are - and follows from the least member of its
complement (`MinIsLeast`, from the well-founded order of the naturals). `LoopRuns` makes of
it that every loop has a run, a function from the number of turns to what the loop has by
then, and one lemma per recursive function (`SumOfIsTotal`, `KeptIsRun`, `Mod97IsRun`,
`ReplacedIsRun`, ...) that the function is the end of its run. The rest is induction on
that run.

* `SharedRunsAreFound`, `ExcerptsAreMatched`: a common run of
  `K + Window - 1` words has the same window of hashes wherever it stands
  (`SameRunSameHashes`), and winnowing keeps the least hash of every window
  (`WinnowKeepsTheLeast`), whatever collides.
* `RulesFireAsDocumented`: after `n` turns count, score and sample are those of the survivors
  among the first `n` matches (`JudgedSoFar`).
* `MasksHide`: what is shown of a sample lies in its two ends (`EndsAreShown`).
* `TextsAreReadAsText`: what is sniffed of well-formed UTF-8 is well-formed unless its last
  byte is a lead.
* `AlertsReadBack`: what each of the chained replacements makes of one more character
  (`ExtensionGoesOn`, `HeaderGoesOn`), and what a reader makes of that (`ExtensionIsRead`,
  `HeaderIsRead`).
* `CleanInlineAlerts`, `CleanScanAlerts`: which states the SIEM hears of as clean
  (`CleanMeans`), and which of them a verdict or a deep scan can leave
  (`RestrictingStates`).
* `MisreadDigitsAreCaught`: dropping separators, reversing and weighting turn values that
  differ in one digit into sums that differ in one term (`KeptDiffers`, `ReversedDiffer`,
  `OneTermDiffers`), by an amount that is no multiple of 10 or 11 (`NoMultipleOf10`,
  `NoMultipleOf11`). For IBAN, remainders modulo 97 that differ still differ after any
  further character, since 10 and 100 have inverses (`TurnsDiffer`, `Mod97Differs`).
* `GenericMatchesTheShipped`: the shipped checksums count from the right, the generic one
  from the left; `SumReversed` turns one sum into the other, and `CheckDigit10`,
  `CheckDigit11`, `CheckDigit11Or0` compare what they make of the remainder.

Two details carry these proofs. `RuleFiresAsDocumented` speaks of scores capped at 1, as the
loop has them: of uncapped scores it would be false. And nothing is needed of the hash, so
that collisions do no harm to the winnowing guarantee: they can only add matches.

**Only model-checked:** liveness (`BackendTerminates`, `PendingScanEnds`, `DueIsPurged`), since
leads-to under fairness needs ENABLED, which is out of TLAPS's reach, and the five runs of
section 5, which are counterexamples.

## 5. Where code and words part

Each of the first five is a run that TLC ends with a counterexample.

1. `preflight_race` - `release_job` flushes, calls CUPS and commits last, so the resumed
   job's preflight may find no grant. The comment says the record comes first so that the
   grant exists.
2. `blocked_reads_held` - an OCR hit of action `hold` turns a blocked row into `held`; CUPS
   cancelled that job long ago, and the console offers a decision about nothing.
3. `wedged_release` - a release holds the row's lock while `lp` runs; the resumed job's
   re-inspection waits for the lock on the event loop; the release needs the loop to
   commit. CUPS acted on a decision that is never recorded.
4. `reused_job_id` - preflight compares queue and CUPS id, never the content. After the
   spool is lost, an old clearance passes another document.
5. `scan_frees_rule_hold` - a failed re-inspection drops the matches of a held job on a
   fail-closed queue; the deep scan queued before then takes it for a job held for want of
   a scan and releases it.

The other modules state what *does* hold, with the exceptions the code makes. These
exceptions part with words too:

* **Accounts.** Two overlapping edits, or `janus-print-admin disable`, can remove the last
  administrator, which `routes_users.py` says cannot happen. A login that overlaps a reset
  keeps its token. Disabling from the command line revokes no session, so enabling the
  account, or giving it a password, revives them.
* **Content gate.** Reading the text or previews does not use up a grant ("single-use and
  time-boxed", `README.md` 164-165), and two downloads at once may share one. An approval
  overwrites a concurrent one and begins the two hours anew. The status "denied" is never
  set.
* **Retention.** A body that could not be archived leaves no purge date: its extracted text
  is kept for ever. A blob whose deletion fails stays in the store, unreadable without its
  key. Retention ignores the job's state: a held job may lose its body, and its later scan
  returns at once. An inspection that chose a row before the purge writes its text again.
* **Registry.** `set_enabled` does not validate: disable a rule, delete its validator, enable
  the rule, and every inspection raises `UnknownValidator`, which `store.py` 96-98 means to
  exclude; switching off a validator in use does the same. The worker never learns of later
  validators. A load that an edit overtakes keeps a deleted rule in force (`store.py` 15-17
  says a cache would not). A shipped rule an operator deleted returns when the API starts.
* **Printer queues.** An update without a new URI clears "error" without asking CUPS
  (`printers.py` 7-11), and ignores `create_queue`'s warnings. A delete of a row whose
  client queue is missing leaves the device queue. A job in inspection while its queue is
  deleted ends up held, with nothing in CUPS. When `lpstat` fails, an all-clear report is
  cached for 30 s; so is one in whose making an edit had dropped the cache and not yet
  committed. Device queues are always listed as unmanaged.
* **Checksums.** mod 11's check digit 0 stands for two remainders, so `weighted_mod` is not
  quite "that same logic" (`validators.py` 138-142); as Luhn it depends on the parity of the
  number of digits.
* **Fingerprints.** A registered document of fewer than `k + window - 1` words (8 by default)
  may be missed inside a longer text, though "both directions are caught".
* **Rules.** A negative `sample_prefix` or `sample_suffix` shows nearly everything. Binary
  floats may fall just short of a threshold (0.6 + 0.3 < 0.9). UTF-8 whose 1024th byte
  splits a character is taken for binary.
* **Alerts.** `PRINT_CLEAN` is sent of jobs whose pages were not all read. From the API
  `scanTier` tells; from the worker nothing does: after a deep scan it is `ocr_complete`,
  also without tesseract (`inspector/ocr.py` 29-31), after a page that failed or past
  `ocr_max_pages`. The worker's matches are those it loaded before the OCR (`models.py`
  106-108), so a hit that OCR found and that is only logged is reported as "no match", and
  on a re-inspection they are the last inspection's (`engine.py` 138). A job that run 5
  frees is reported clean too.

## 6. Not modelled

* How text is extracted and how a pattern hits it; reasons and statistics, which no decision
  reads.
* The thread that stands in for the worker when Redis is down, and with it two scans at
  once; a single request that fails with an internal error (its effect on the row is that of
  `ApiCrash`, which rolls every session back).
* Retention inside `PrintPath`: there a row is never purged and a body once archived stays
  loadable. The two meet in `Retention` only as far as the archived job goes.
* `load_ruleset`'s three readings of the global `_cached`, between which another thread may
  set it to None: a load is two steps in `Registry`. Likewise `reconcile`'s look at
  `_reconcile_cache` before it unpacks it (`printers.py` 429-432).
* In `Retention`: a purge asked for by hand (`POST /retention/purge`) beside the timer's; and
  `InspectFlush` takes the DELETE of the text and the UPDATE of the job together. Their locks
  are taken in the reverse of the purge's order, so that PostgreSQL may see a deadlock and
  roll one of the two back.
* What the real backend does beyond sending and ending, and how long it takes.
* Fixtures, parameters and revisions of rules; the test page, the control mode "none" and
  printers whose names end in `-device`.
* The rendering of previews, and `preview_info`, which keeps no state.
* The clock: a timeout is a choice that `api_slow` allows at any moment; a grant and a
  report may expire at any moment.
* The registration and deletion of documents to be recognised and the reload of policies
  from YAML, which do change state.
* The console's queries, forms and installers, the React console and the deployment scripts,
  which keep none of their own (the status and reason of each are in `PROJECT.json`).

## 7. Plan

1. Composing `PrintPath` with the purge: a scan or a re-inspection finds the body of its row
   gone. It needs a third value of `archived` and one more case in each of its proofs.
2. `load_ruleset` at the grain of its readings of `_cached`, and the worker's thread without
   Redis.

An abstract specification of the whole print path - cleared by someone, then delivered, and
again only after a break - was considered: since authorities are only ever added, it says no
more than `PrintNeedsAuthority` and `ReprintsFollowBreaks` together, which are proved.
