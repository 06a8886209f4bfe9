--------------------------- MODULE MCItemLifecycle --------------------------
(* One existing model and one free identifier; two calls of any tools and  *)
(* changes from outside.                                                   *)
EXTENDS ItemLifecycle

CONSTANTS c1, c2, m, n, sales, draft, sqlA, sqlB, connA, connB

MCDetails == [k \in {connA, connB} |-> IF k = connA THEN sqlA ELSE sqlB]

MCInitialItems ==
  [i \in {m, n} |->
     IF i = m THEN [name |-> sales, description |-> draft, source |-> sqlA] ELSE Unused]

MCRequests ==
  [tool: {"create"}, name: {draft}, description: {draft}, source: {sqlA}, apply: BOOLEAN]
    \cup [tool: {"properties"}, target: {m}, name: {draft}, description: {Same}, apply: BOOLEAN]
    \cup [tool: {"properties"}, target: {m}, name: {Same}, description: {sales}, apply: {TRUE}]
    \cup [tool: {"delete"}, target: {m}, confirmId: {m}, confirmName: {sales}, apply: BOOLEAN]
    \cup [tool: {"delete"}, target: {m}, confirmId: {n}, confirmName: {sales}, apply: {TRUE}]
    \cup [tool: {"delete"}, target: {n}, confirmId: {n}, confirmName: {draft}, apply: {TRUE}]
    \cup [tool: {"bind"}, target: {m}, connection: {connA, connB}, apply: {TRUE}]
    \cup [tool: {"bind"}, target: {m}, connection: {connA}, apply: {FALSE}]
=============================================================================
