------------------------------ MODULE Retention ------------------------------
(***************************************************************************)
(* One archived job: the encrypted body in the blob store, the wrapped key *)
(* that opens it and the extracted text in the database, the worker's      *)
(* retention timer that destroys all three, and an inspection that CUPS    *)
(* may ask for again while it does.                                        *)
(*                                                                         *)
(* The blob store is no part of the transaction: the purge deletes the     *)
(* body first and commits the row last, and a crash in between undoes only *)
(* the row.  Encryption is modelled by what it is for: a body is readable  *)
(* with its blob and its wrapped key, and with nothing less.               *)
(***************************************************************************)
EXTENDS Naturals

CONSTANT MaxCrashes   \* bound: how often a process dies

ASSUME CrashesAssumption == MaxCrashes \in Nat

VARIABLES job,     \* the committed row, and whether its retention date has passed
          blob,    \* the encrypted body is in the store
          purge,   \* the retention timer's thread
          insp,    \* an inspection of the same row
          crashes  \* processes that died so far

retentionVars == <<job, blob, purge, insp, crashes>>

\* `key` stands for archive_key and wrapped_key, which are written together; `due` for
\* purge_after < now, which a row that was never archived never is.
JobRow == [key : BOOLEAN, text : BOOLEAN, purged : BOOLEAN, due : BOOLEAN]

\* inspect_job stored the body, or could not (engine.py "archive_failed").
RetentionInit ==
    /\ blob \in BOOLEAN
    /\ job \in [key : {blob}, text : BOOLEAN, purged : {FALSE}, due : {FALSE}]
    /\ purge = "idle" /\ insp = "idle" /\ crashes = 0

RetentionTypeOK ==
    /\ job \in JobRow
    /\ blob \in BOOLEAN
    /\ purge \in {"idle", "deleted", "flushed"}
    /\ insp \in {"idle", "selected", "locked"}
    /\ crashes \in 0 .. MaxCrashes

\* _load_body, download_content: the row promises a body ...
Promised == job.key /\ ~job.purged
\* ... and ArchiveStore.load finds one.
Readable == job.key /\ blob

RetentionDateComes ==
    /\ job.key /\ ~job.due
    /\ job' = [job EXCEPT !.due = TRUE]
    /\ UNCHANGED <<blob, purge, insp, crashes>>

-----------------------------------------------------------------------------
(* purge_expired, in a thread of the worker *)

\* Mutant of PurgeBody: a row whose blob is missing is skipped.
PurgeExistingBody ==
    /\ purge = "idle" /\ job.due /\ ~job.purged /\ blob
    /\ blob' \in {FALSE, blob}
    /\ purge' = "deleted"
    /\ UNCHANGED <<job, insp, crashes>>

\* The SELECT and archive.delete: whatever the latter raises is logged, and the row is
\* cleared all the same.
PurgeBody ==
    /\ purge = "idle" /\ job.due /\ ~job.purged
    /\ blob' \in {FALSE, blob}
    /\ purge' = "deleted"
    /\ UNCHANGED <<job, insp, crashes>>

\* The DELETE of the text has the UPDATE of the row flushed before it, which waits for an
\* inspection that holds the row.
PurgeFlush ==
    /\ purge = "deleted" /\ insp # "locked"
    /\ purge' = "flushed"
    /\ UNCHANGED <<job, blob, insp, crashes>>

\* Mutant of PurgeCommit: the key is kept, the missing blob taken to be enough.
PurgeKeepsKey ==
    /\ purge = "flushed"
    /\ job' = [job EXCEPT !.text = FALSE, !.purged = TRUE]
    /\ purge' = "idle"
    /\ UNCHANGED <<blob, insp, crashes>>

PurgeCommit ==
    /\ purge = "flushed"
    /\ job' = [job EXCEPT !.key = FALSE, !.text = FALSE, !.purged = TRUE]
    /\ purge' = "idle"
    /\ UNCHANGED <<blob, insp, crashes>>

-----------------------------------------------------------------------------
(* inspect_job, when CUPS runs the backend again for the same document *)

\* Mutant of InspectAgain: a purged row is chosen like any other.
InspectAnyRow ==
    /\ insp = "idle"
    /\ insp' = "selected"
    /\ UNCHANGED <<job, blob, purge, crashes>>

InspectAgain ==
    /\ insp = "idle" /\ ~job.purged
    /\ insp' = "selected"
    /\ UNCHANGED <<job, blob, purge, crashes>>

\* Its first flush waits for a purge that holds the row; the row may be purged by now.
InspectFlush ==
    /\ insp = "selected" /\ purge # "flushed"
    /\ insp' = "locked"
    /\ UNCHANGED <<job, blob, purge, crashes>>

\* The old text is replaced, unless the document has become unreadable.  Nothing is
\* archived again.
InspectCommit ==
    /\ insp = "locked"
    /\ \E text \in BOOLEAN : job' = [job EXCEPT !.text = text]
    /\ insp' = "idle"
    /\ UNCHANGED <<blob, purge, crashes>>

\* The worker dies: the row is as it was, the blob is not.
WorkerCrash ==
    /\ crashes < MaxCrashes /\ purge # "idle"
    /\ purge' = "idle" /\ crashes' = crashes + 1
    /\ UNCHANGED <<job, blob, insp>>

RetentionStep ==
    \/ RetentionDateComes
    \/ PurgeBody \/ PurgeFlush \/ PurgeCommit \/ WorkerCrash
    \/ InspectAgain \/ InspectFlush \/ InspectCommit

-----------------------------------------------------------------------------
(* Properties *)

\* A body is deleted before its row says so: a row that promises a body which is gone is
\* past its date, so that the next purge repairs what a crash left behind; and no purged
\* row can be read again, not even from a store that failed to delete.
MissingBodyIsDue ==
    /\ Promised /\ ~blob => job.due
    /\ job.purged => ~Readable

\* README.md: "Retention purge destroys the wrapped key".  The text goes with it, and only
\* an inspection brings it back, one that had chosen the row before the purge was
\* committed: without such a one the text is gone for good.
TextReturnsOnlyByRace ==
    [][/\ job'.purged /\ job'.text => (job.purged /\ job.text) \/ insp = "locked"
       /\ job.purged /\ ~job.text /\ insp = "idle" => ~job'.text /\ insp' = "idle"]_retentionVars

\* Whatever is past its retention date is destroyed, though purges crash and a blob may be
\* gone already (a text whose body was never archived has no date and stays for ever).
DueIsPurged == job.due ~> job.purged
=============================================================================
