--------------------------- MODULE MeasureCycles ----------------------------
(***************************************************************************)
(* validateMeasureCycles: the graph of measures built from the references  *)
(* of their DAX expressions, and the depth-first search for cycles in it.  *)
(* One step is one call of visit() or one return from it.  The orders in   *)
(* which the code walks its maps and sets are left open.                   *)
(***************************************************************************)
EXTENDS Integers, Sequences

CONSTANTS
  Measures,   \* canonical names of the measures of a model
  Tables,     \* canonical names of its tables
  OtherNames, \* canonical names of columns and the like
  Expressions \* what a DAX expression may refer to

(* What extractDaxReferences reports of an expression, as far as it has a  *)
(* name: [name] or table[name].                                            *)
DaxReferences ==
  [kind: {"unqualified"}, name: Measures \cup OtherNames]
    \cup [kind: {"qualified"}, table: Tables, name: Measures \cup OtherNames]

ASSUME ExpressionAssumption == Expressions \subseteq SUBSET DaxReferences

VARIABLES
  owner,       \* the table of each measure (measureTables)
  expression,  \* the references in each measure's expression
  todo,        \* measures the outer loop has not come to
  stack,       \* the calls of visit() that have not returned
  remaining,   \* for each of them, the dependencies it has not come to
  visiting, visited, reported

input == <<owner, expression>>
searchVars == <<owner, expression, todo, stack, remaining, visiting, visited, reported>>

-----------------------------------------------------------------------------
NamesMeasure(r) == r.name \in Measures /\ (r.kind = "unqualified" \/ r.table = owner[r.name])

(* The dependencies of a measure.                                          *)
graph == [m \in Measures |-> {r.name : r \in {q \in expression[m] : NamesMeasure(q)}}]

Top == stack[Len(stack)]

SearchTypeOK ==
  /\ owner \in [Measures -> Tables]
  /\ expression \in [Measures -> Expressions]
  /\ todo \in SUBSET Measures
  /\ stack \in Seq(Measures)
  /\ remaining \in [Measures -> SUBSET Measures]
  /\ visiting \in SUBSET Measures
  /\ visited \in SUBSET Measures
  /\ reported \in SUBSET Measures

SearchInit ==
  /\ owner \in [Measures -> Tables]
  /\ expression \in [Measures -> Expressions]
  /\ todo = Measures
  /\ stack = <<>>
  /\ remaining = [m \in Measures |-> {}]
  /\ visiting = {}
  /\ visited = {}
  /\ reported = {}

(* The body of visit(m) up to its loop; "left" is what remains of the      *)
(* caller's loop.                                                          *)
SeenOnce(m) == m \in visited \cup visiting
Seen(m) == m \in visited

OnPath(m) == m \in visiting

WithPath(m) == reported \cup visiting
WithMeasure(m) == reported \cup {m}

Visit(m, left) ==
  \/ /\ Seen(m)
     /\ remaining' = left
     /\ UNCHANGED <<stack, visiting, reported>>
  \/ /\ ~Seen(m)
     /\ OnPath(m)
     /\ reported' = WithMeasure(m)
     /\ remaining' = left
     /\ UNCHANGED <<stack, visiting>>
  \/ /\ ~Seen(m)
     /\ ~OnPath(m)
     /\ visiting' = visiting \cup {m}
     /\ stack' = Append(stack, m)
     /\ remaining' = [left EXCEPT ![m] = graph[m]]
     /\ UNCHANGED reported

VisitRoot ==
  /\ stack = <<>>
  /\ \E m \in todo :
       /\ todo' = todo \ {m}
       /\ Visit(m, remaining)
  /\ UNCHANGED <<input, visited>>

VisitDependency ==
  /\ stack # <<>>
  /\ \E d \in remaining[Top] : Visit(d, [remaining EXCEPT ![Top] = @ \ {d}])
  /\ UNCHANGED <<input, todo, visited>>

Return ==
  /\ stack # <<>>
  /\ remaining[Top] = {}
  /\ visiting' = visiting \ {Top}
  /\ visited' = visited \cup {Top}
  /\ stack' = SubSeq(stack, 1, Len(stack) - 1)
  /\ UNCHANGED <<input, todo, remaining, reported>>

SearchNext == VisitRoot \/ VisitDependency \/ Return

SearchSpec == SearchInit /\ [][SearchNext]_searchVars

Finished == todo = {} /\ stack = <<>>

-----------------------------------------------------------------------------
(* Measures of a set that all depend on measures of the same set: such a   *)
(* set exists exactly when the (finite) graph has a cycle.                 *)
Circular(S) == S # {} /\ \A m \in S : graph[m] \cap S # {}

(* m can be reached from itself: it is in every set that contains its      *)
(* dependencies and the dependencies of its elements.                      *)
Closed(S) == \A s \in S : graph[s] \subseteq S
ParticipatesInCycle(m) == \A S \in SUBSET Measures : graph[m] \subseteq S /\ Closed(S) => m \in S

(* A model with circular measures does not pass: when the search is over,  *)
(* every set of circular measures has made it report something, wherever   *)
(* the search began and in whatever order it went.                         *)
CyclesAreReported ==
  Finished /\ reported = {} => \A S \in SUBSET Measures : ~Circular(S)

(* "Measure ... participates in a circular dependency" is said only of a   *)
(* measure that does, not of one that merely leads to a cycle.             *)
ReportsAreCycles == \A m \in reported : ParticipatesInCycle(m)

(* No measure is entered twice, on one path or on two: the recursion is no *)
(* deeper than the number of measures, whatever the cycles.                *)
EnteredOnce ==
  /\ \A i, j \in 1..Len(stack) : stack[i] = stack[j] => i = j
  /\ \A i \in 1..Len(stack) : stack[i] \notin visited
=============================================================================
