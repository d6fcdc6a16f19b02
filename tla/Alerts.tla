--------------------------------- MODULE Alerts ---------------------------------
(***************************************************************************)
(* src/janusprint/bridge/cef.py: which event the SIEM is sent about a job, *)
(* and how values are escaped in its one line.                             *)
(***************************************************************************)
EXTENDS Integers, Sequences

CONSTANT Characters  \* what values are made of

\* _signature_for: the first that applies.
signature_for(state, matched) ==
    CASE state = "failed_open"           -> "INSPECTION_FAILED_OPEN"
      [] state = "released_then_flagged" -> "PRINT_FLAGGED_AFTER_RELEASE"
      [] state = "blocked"               -> "PRINT_BLOCKED"
      [] state = "held"                  -> "PRINT_HELD"
      [] OTHER -> IF matched THEN "PRINT_POLICY_MATCH" ELSE "PRINT_CLEAN"

Replaced(value, char, by) ==
    LET upto[n \in 0 .. Len(value)] ==
          IF n = 0 THEN <<>>
          ELSE upto[n - 1] \o (IF value[n] = char THEN by ELSE <<value[n]>>)
    IN  upto[Len(value)]

\* A character with a backslash before it.
Escaped(char) == <<"backslash", char>>

escape_header(value) ==
    Replaced(Replaced(value, "backslash", Escaped("backslash")), "bar", Escaped("bar"))

\* Mutant of escape_extension: the backslash is doubled last.
escape_extension_late(value) ==
    Replaced(Replaced(Replaced(value, "equals", Escaped("equals")),
                      "backslash", Escaped("backslash")),
             "newline", <<"space">>)

\* A carriage return is treated as a newline is, and left out.
escape_extension(value) ==
    Replaced(Replaced(Replaced(value, "backslash", Escaped("backslash")),
                      "equals", Escaped("equals")),
             "newline", <<"space">>)

=============================================================================
