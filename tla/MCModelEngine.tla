--------------------------- MODULE MCModelEngine ----------------------------
(* A model with every kind of object and of reference, and batches of      *)
(* changes to it: any delete, renames to a new name or to the name of      *)
(* another object of the kind, and a few creates and updates.              *)
EXTENDS ModelEngine

Ref(kind, table, name) == [kind |-> kind, owner |-> None, table |-> table, name |-> name]
Filter(kind, owner, table, name) == [kind |-> kind, owner |-> owner, table |-> table, name |-> name]
Object(type, parent, name, refs, detail) ==
  [type |-> type, parent |-> parent, name |-> name, refs |-> refs, detail |-> detail,
   order |-> <<>>, was |-> None]
Part(type, parent, name, refs) == Object(type, parent, name, refs, None)
Top(type, name, refs) == Object(type, None, name, refs, None)
Group(name, column, order) ==
  [Object("calculation_group", None, name, {}, column) EXCEPT !.order = order]

Sales ==
  {Top("table", "sales", {}),
   Part("column", "sales", "amount", {}),
   Part("column", "sales", "day", {Ref("sort", None, "amount")}),
   Part("column", "sales", "net", {Ref("unqualified", None, "amount")}),
   Part("partition", "sales", "rows", {Ref("source", None, "warehouse")}),
   Part("measure", "sales", "total", {Ref("qualified", "sales", "amount")}),
   Part("hierarchy", "sales", "calendar", {Ref("level", None, "day")})}
Dates ==
  {Top("table", "dates", {}),
   Part("column", "dates", "day", {}),
   Part("column", "dates", "spare", {}),
   Part("partition", "dates", "lake", {Ref("entity", None, "base")}),
   Part("measure", "dates", "double", {Ref("unqualified", None, "total"), Ref("table", "sales", None)})}
Copy ==
  {Top("table", "copy", {}),
   Part("column", "copy", "key", {}),
   Part("measure", "copy", "count", {Ref("qualified", "copy", "key")}),
   Part("partition", "copy", "count", {Ref("qualified", "dates", "day"), Ref("unqualified", None, "count")})}
Extra ==
  {Top("table", "extra", {}),
   Part("column", "extra", "key", {})}
Items ==
  {Group("scenario", "version", <<"plan", "actual">>),
   Part("calculation_item", "scenario", "plan", {Ref("unqualified", None, "count")}),
   Part("calculation_item", "scenario", "actual", {Ref("qualified", "sales", "total")})}
Shared ==
  {Top("data_source", "warehouse", {}),
   Top("data_source", "archive", {}),
   Top("expression", "base", {}),
   Top("expression", "derived", {Ref("quoted", None, "base")}),
   Top("relationship", "salesDates", {Ref("endpoint", "sales", "day"), Ref("endpoint", "dates", "day")}),
   Top("role", "reader",
       {Ref("permission", "dates", None), Filter("unqualified", "dates", None, "day"),
        Filter("qualified", "dates", "scenario", "version")})}

MCModel == Sales \cup Dates \cup Copy \cup Extra \cup Items \cup Shared
(* The same with a measure that depends on itself through another.         *)
MCCircular ==
  MCModel \cup {Part("measure", "copy", "up", {Ref("unqualified", None, "down")}),
                Part("measure", "copy", "down", {Ref("qualified", "copy", "up")})}
MCModels == {MCModel, MCCircular}

MCNames ==
  {o.name : o \in MCCircular} \cup {"version", "fresh", "other", "nowhere"}

KeyOf(type, parent, name) == [type |-> type, parent |-> parent, name |-> name]
(* The keys of the model, and those of a table under a new name. *)
Moved(k) == IF k.parent = "copy" THEN [k EXCEPT !.parent = "fresh"] ELSE k
MCKeys ==
  LET keys == {Key(o) : o \in MCModel}
  IN  keys \cup {Moved(k) : k \in keys} \cup {KeyOf("table", None, "fresh")}
ChangeOf(action, k, newName, value) ==
  [action |-> action, target |-> k, newName |-> newName, value |-> value]

Deletes == {ChangeOf("delete", k, None, {}) : k \in MCKeys}
Neighbours(k) ==
  {l \in MCKeys : \/ l.type = k.type
                  \/ k.parent # None /\ l.parent = k.parent
                  \/ {k.type, l.type} = {"table", "calculation_group"}}
NewNames(k) == {"fresh"} \cup {l.name : l \in Neighbours(k)}
Renames == UNION {{ChangeOf("rename", k, n, {}) : n \in NewNames(k)} : k \in MCKeys}

(* A measure whose name is taken in its table, in another, or nowhere; a   *)
(* table under another name than its target's; a part of no table.         *)
Creates ==
  {ChangeOf("create", KeyOf("measure", "copy", n), None, {Part("measure", "copy", n, {})}) :
     n \in {"fresh", "total"}}
    \cup {ChangeOf("create", KeyOf("measure", "sales", "total"), None,
                   {Part("measure", "sales", "total", {})}),
          ChangeOf("create", KeyOf("table", None, "fresh"), None, {Top("table", "other", {})}),
          ChangeOf("create", KeyOf("column", "nowhere", "day"), None, {Part("column", "nowhere", "day", {})}),
          ChangeOf("create", KeyOf("calculation_item", "scenario", "fresh"), None,
                   {Part("calculation_item", "scenario", "fresh", {})})}

(* The group with its items the other way round; a measure that refers to  *)
(* another; a table without its parts; a missing target.                   *)
Updates ==
  {ChangeOf("update", KeyOf("calculation_group", None, "scenario"), None,
            {[o EXCEPT !.order = IF o.order = <<>> THEN <<>> ELSE <<"actual", "plan">>] : o \in Items}),
   ChangeOf("update", KeyOf("measure", "sales", "total"), None,
            {Part("measure", "sales", "total", {Ref("qualified", "dates", "double")})}),
   ChangeOf("update", KeyOf("table", None, "copy"), None, {Top("table", "copy", {})}),
   ChangeOf("update", KeyOf("role", None, "fresh"), None, {Top("role", "fresh", {})}),
   ChangeOf("update", KeyOf("role", None, "reader"), None, {Top("role", "other", {})})}

MCChanges == Deletes \cup Renames \cup Creates \cup Updates
=============================================================================
