-------------------------- MODULE MCMeasureCycles ---------------------------
(* Expressions with every set of unqualified references, and with one      *)
(* qualified reference, to a measure's table or to another.                *)
EXTENDS MeasureCycles, TLC

CONSTANTS m1, m2, m3, t1, t2, column

MCExpressions ==
  SUBSET [kind: {"unqualified"}, name: Measures] \cup {{[kind |-> "unqualified", name |-> column]}}
    \cup {{r} : r \in [kind: {"qualified"}, table: Tables, name: Measures]}

Interchangeable == Permutations(Measures) \cup Permutations(Tables)
=============================================================================
