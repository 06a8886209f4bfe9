--------------------------- MODULE MCModelChanges ---------------------------
(* A definition is the set of objects in it; "reversed" stands for an order *)
(* of calculation items that is not the usual one.  One call adds an object,*)
(* the other adds, rewrites or reverses; a rewrite changes nothing, and     *)
(* adding what exists or rewriting what does not is refused.                *)
EXTENDS ModelChanges, FiniteSets

CONSTANTS c1, c2, measure, table, reversed

MCDefinitions == {{}, {measure}, {table}, {measure, table}, {measure, reversed}}
MCEdits == [kind: {"add", "rewrite"}, object: {measure, table, reversed}]

MCEdited ==
  [d \in MCDefinitions |-> [e \in MCEdits |->
     CASE e.kind = "add" /\ e.object \notin d /\ d \cup {e.object} \in MCDefinitions
            -> d \cup {e.object}
       [] e.kind = "rewrite" /\ e.object \in d -> d
       [] OTHER -> NoDefinition]]

MCDiffSees == [d \in MCDefinitions |-> [e \in MCDefinitions |-> d \ {reversed} # e \ {reversed}]]

Add(o) == [kind |-> "add", object |-> o]
Rewrite(o) == [kind |-> "rewrite", object |-> o]

MCRequests ==
  [expected: {{}}, edit: {Add(measure), Add(table)}, apply: {TRUE}]
    \cup [expected: {{}}, edit: {Add(measure)}, apply: {FALSE}]
    \cup [expected: {{measure}}, edit: {Add(measure), Rewrite(measure), Add(reversed)}, apply: {TRUE}]
=============================================================================
