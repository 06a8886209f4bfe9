----------------------------- MODULE RowResults ------------------------------
(***************************************************************************)
(* The tools that return rows: execute_dax (with validate_dax, which runs  *)
(* the same code), sample_data_source_table and inspect_data_source_schema.*)
(* Each asks for a bounded number of rows, keeps those that fit its limits *)
(* and says whether it left any out.                                       *)
(*                                                                         *)
(* All rows of a response have the same size, so rows are counted.  Sizes  *)
(* are bytes of JSON up to a comma; the counts inside a result are taken   *)
(* to have always the same number of digits.                               *)
(***************************************************************************)
EXTENDS Naturals, FiniteSets

CONSTANTS
  Sources,   \* what a query finds: rows per result stream, streams, their sizes, errors
  Limits,    \* effective row limits
  MaxBytes,  \* the output limit, maxResponseBytes or maxDataResponseBytes
  Envelope,  \* a result without its rows, column names, reasons and warnings
  Reason,    \* one truncation reason in it
  Trailer    \* the field responseBytes of a DAX result

ASSUME SizeAssumption ==
  /\ {MaxBytes, Envelope, Reason, Trailer} \subseteq Nat
  /\ Limits \subseteq Nat \ {0}
  /\ \A s \in Sources :
       /\ {s.rows, s.columnBytes, s.warningBytes} \subseteq Nat
       /\ {s.streams, s.rowBytes} \subseteq Nat \ {0}
       /\ s.errors \in SUBSET {"query", "limitLike"}

VARIABLES
  tool, limit, source,
  stage,     \* the part of the code
  received,  \* rows that arrived
  errors,    \* kinds of query errors among the answers
  kept,      \* rows of the result
  reasons,   \* truncationReasons
  outcome

question == <<tool, limit, source>>
rowVars == <<question, stage, received, errors, kept, reasons, outcome>>

-----------------------------------------------------------------------------
Tools == {"execute_dax", "validate_dax", "sample_data_source_table", "inspect_data_source_schema"}
Dax(t) == t \in {"execute_dax", "validate_dax"}

RowsTypeOK ==
  /\ tool \in Tools
  /\ limit \in Limits \cup {1}
  /\ source \in Sources
  /\ stage \in {"asking", "received", "capped", "done"}
  /\ received \in Nat
  /\ errors \in SUBSET {"query", "limitLike", "limit"}
  /\ kept \in 0..received
  /\ reasons \in SUBSET {"row_cap", "response_bytes", "powerbi_limit"}
  /\ outcome \in {"open", "failed", "queryFailed", "invalid", "valid", "tooLarge", "delivered"}

RowsInit ==
  /\ tool \in Tools
  /\ limit \in IF tool = "validate_dax" THEN {1} ELSE Limits
  /\ source \in Sources
  /\ ~Dax(tool) => source.streams = 1 /\ source.errors = {}
  /\ stage = "asking"
  /\ received = 0
  /\ errors = {}
  /\ kept = 0
  /\ reasons = {}
  /\ outcome = "open"

AtMost(n, bound) == IF n < bound THEN n ELSE bound

-----------------------------------------------------------------------------
(* The query.  SQL is asked for one row more than wanted, which tells      *)
(* whether there are more.  Power BI is asked for the limit itself, per    *)
(* result stream; that it tells when it left rows out is what the code     *)
(* relies on, and it does so by an error beside the rows.                  *)
ExactlyTheLimit == limit
RowsAsked == IF Dax(tool) THEN limit ELSE limit + 1

Answered ==
  /\ stage = "asking"
  /\ stage' = "received"
  /\ received' = source.streams * AtMost(source.rows, RowsAsked)
  /\ errors' = source.errors \cup (IF Dax(tool) /\ source.rows > RowsAsked THEN {"limit"} ELSE {})
  /\ UNCHANGED <<question, kept, reasons, outcome>>

(* The request fails; Power BI may do so with 400, which tells             *)
(* validate_dax that the expression is invalid.                            *)
QueryUnanswered ==
  /\ stage = "asking"
  /\ stage' = "done"
  /\ outcome' \in IF tool = "validate_dax" THEN {"failed", "invalid"} ELSE {"failed"}
  /\ UNCHANGED <<question, received, errors, kept, reasons>>

(* Errors whose message matches TRUNCATION_PATTERN are not fatal: those    *)
(* about a limit, and others that happen to be worded like them.           *)
FatalError == "query" \in errors

QueryFailed ==
  /\ stage = "received"
  /\ FatalError
  /\ stage' = "done"
  /\ outcome' = IF tool = "validate_dax" THEN "invalid" ELSE "queryFailed"
  /\ UNCHANGED <<question, received, errors, kept, reasons>>

-----------------------------------------------------------------------------
(* capRows, and the same loop in sampleTable: rows are taken while they    *)
(* fit, with 256 bytes set aside for the rest of the result.               *)
Reserve == 256
FitsCap(n) == tool # "inspect_data_source_schema" => Reserve + n * (source.rowBytes + 1) <= MaxBytes

Reasons(bytesExceeded) ==
  (IF received > limit THEN {"row_cap"} ELSE {})
    \cup (IF bytesExceeded THEN {"response_bytes"} ELSE {})
    \cup (IF errors # {} THEN {"powerbi_limit"} ELSE {})

Capped ==
  /\ stage = "received"
  /\ ~FatalError
  /\ stage' = "capped"
  /\ \E n \in 0..AtMost(received, limit) :
       /\ n > 0 => FitsCap(n)
       /\ n < AtMost(received, limit) => ~FitsCap(n + 1)
       /\ kept' = n
       /\ reasons' = Reasons(n < AtMost(received, limit))
  /\ UNCHANGED <<question, received, errors, outcome>>

(* The size of a result of n rows; only a DAX result repeats the columns   *)
(* and the first warnings.                                                 *)
ResultBytes(n, why) ==
  Envelope + n * (source.rowBytes + 1) + Reason * Cardinality(why)
    + IF Dax(tool)
        THEN (IF n > 0 THEN source.columnBytes ELSE 0) + (IF errors # {} THEN source.warningBytes ELSE 0)
        ELSE 0

(* runDax drops rows from the end until the result fits.                   *)
TooLongWithReserve == Dax(tool) /\ kept > 0 /\ Reserve + ResultBytes(kept, reasons) > MaxBytes
TooLong == Dax(tool) /\ kept > 0 /\ ResultBytes(kept, reasons) > MaxBytes

DropRow ==
  /\ stage = "capped"
  /\ TooLong
  /\ kept' = kept - 1
  /\ reasons' = Reasons(TRUE)
  /\ UNCHANGED <<question, stage, received, errors, outcome>>

(* boundedSuccess, after runDax has added the field responseBytes.         *)
FinalBytes == ResultBytes(kept, reasons) + IF Dax(tool) THEN Trailer ELSE 0

Deliver ==
  /\ stage = "capped"
  /\ ~TooLong
  /\ stage' = "done"
  /\ outcome' = CASE tool = "validate_dax" -> "valid"
                  [] tool # "validate_dax" /\ FinalBytes > MaxBytes -> "tooLarge"
                  [] OTHER -> "delivered"
  /\ UNCHANGED <<question, received, errors, kept, reasons>>

RowsNext == Answered \/ QueryUnanswered \/ QueryFailed \/ Capped \/ DropRow \/ Deliver

RowsSpec == RowsInit /\ [][RowsNext]_rowVars

-----------------------------------------------------------------------------
(* A result that lacks rows which the query has says so, whichever of the  *)
(* four limits (the service's own, the row limit, the byte cap, the size   *)
(* of the result) left them out.                                           *)
CutsAreAnnounced ==
  outcome = "delivered" /\ kept < source.streams * source.rows => reasons # {}

(* No row is left out that would have fitted: one more would break the row *)
(* limit, the byte cap or the size of the result.                          *)
NoneLeftOutInVain ==
  outcome = "delivered" /\ kept < received =>
    \/ kept = limit
    \/ ~FitsCap(kept + 1)
    \/ ResultBytes(kept + 1, reasons) > MaxBytes
==============================================================================
