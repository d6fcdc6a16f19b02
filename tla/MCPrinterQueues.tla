---------------------------- MODULE MCPrinterQueues ----------------------------
(* A small instance of PrinterQueues for TLC. *)
EXTENDS PrinterQueues, TLC

Interchangeable == Permutations(Requests) \cup Permutations(Uris)
=============================================================================
