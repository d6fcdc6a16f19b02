----------------------------- MODULE MCPrintPath -----------------------------
(* Small instances of PrintPath for TLC. *)
EXTENDS PrintPath

\* Documents: harmless, or restricted by their text; `Scan`s have pages only OCR can
\* read, and a text layer that is clean, restricted, or laxer than what OCR may find.
Clean     == [kind |-> "text", rules |-> "allow", fp |-> "allow", thin |-> FALSE, ocr |-> "allow"]
CardData  == [Clean EXCEPT !.rules = "hold"]
CleanScan == [Clean EXCEPT !.thin = TRUE]
CardScan  == [Clean EXCEPT !.rules = "hold", !.thin = TRUE]
KeyScan   == [Clean EXCEPT !.rules = "block", !.thin = TRUE, !.ocr = "hold"]
Plot      == [Clean EXCEPT !.kind = "oversize"]

CardOnly         == {CardData}
KeyOnly          == {KeyScan}
TwoDocuments     == {Clean, CardData}
LayeredDocuments == {CardScan, CleanScan}
ScanAndPlot      == {CardScan, Plot}

\* Queues whose API and backend fail the same way, and one on which they disagree.
Queue(mode, deep) == [fail_mode |-> mode, backend_fail_mode |-> mode,
                      deep_scan_required |-> deep, on_unreadable |-> "log"]
AllQueues    == {Queue(m, d) : m \in {"open", "closed"}, d \in BOOLEAN}
StrictQueues == {Queue("open", TRUE), Queue("closed", TRUE)}
MixedQueues  == {[Queue("closed", TRUE) EXCEPT !.backend_fail_mode = "open"]}

\* Everything that makes inspections, scans and decisions of one row overlap or die.
RaceDisturbances == {"api_slow", "api_crash", "worker_crash", "inspector_error",
                     "archive_error", "cups_refuses", "cupsd_restart", "operator_resume",
                     "device_error"}

\* Everything after which a backend and a scan still have to come to an end.
LiveDisturbances == {"inspector_error", "ocr_error", "backend_error", "device_error",
                     "cups_refuses", "user_cancel", "spool_reset"}
=============================================================================
