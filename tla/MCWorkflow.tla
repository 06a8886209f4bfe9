----------------------------- MODULE MCWorkflow ------------------------------
(* The tools that return rows and the acceptance scripts, side by side:    *)
(* they share no state, so it is enough to have any one query answered     *)
(* first and any one script run after it.                                  *)
(*                                                                         *)
(* Of the queries, narrow rows, rows with some 100 bytes of column names,  *)
(* and one that is larger than any result, at the smallest output limit    *)
(* that can be set, which three long warnings exceed on their own.         *)
(* Of the scripts, all four, with time for two polls: one that finds the   *)
(* refresh running and one that finds it over, or still running at the     *)
(* deadline.                                                               *)
EXTENDS DisposableModel, RowResults

Shapes == {[rowBytes |-> 30, columnBytes |-> 12], [rowBytes |-> 300, columnBytes |-> 16],
           [rowBytes |-> 121, columnBytes |-> 103], [rowBytes |-> 2000, columnBytes |-> 12]}

MCSources ==
  {[rows |-> n, streams |-> k, rowBytes |-> shape.rowBytes, columnBytes |-> shape.columnBytes,
    errors |-> e, warningBytes |-> w] :
     n \in {0, 1, 3, 7, 40}, k \in {1, 2}, shape \in Shapes,
     e \in SUBSET {"query", "limitLike"}, w \in {69, 1200}}

-----------------------------------------------------------------------------
(* Where every query ends, so that the scripts start from one state only:  *)
(* a sample of an empty table that failed.                                 *)
EmptyTable == [rows |-> 0, streams |-> 1, rowBytes |-> 30, columnBytes |-> 12, errors |-> {}, warningBytes |-> 69]

Settled ==
  /\ tool = "sample_data_source_table" /\ limit = 1 /\ source = EmptyTable
  /\ received = 0 /\ errors = {} /\ kept = 0 /\ reasons = {}
  /\ stage = "done" /\ outcome = "failed"

Settle ==
  /\ stage = "done" /\ ~Settled
  /\ tool' = "sample_data_source_table" /\ limit' = 1 /\ source' = EmptyTable
  /\ received' = 0 /\ errors' = {} /\ kept' = 0 /\ reasons' = {}
  /\ stage' = "done" /\ outcome' = "failed"

Query == (RowsNext \/ Settle) /\ UNCHANGED vars
Scripted(A) == Settled /\ A /\ UNCHANGED rowVars

WorkflowInit == Init /\ RowsInit
WorkflowNext == Query \/ Scripted(Next)

WorkflowSpec ==
  /\ WorkflowInit /\ [][WorkflowNext]_<<vars, rowVars>>
  /\ WF_<<vars, rowVars>>(Query) /\ WF_<<vars, rowVars>>(Scripted(Script))
=============================================================================
