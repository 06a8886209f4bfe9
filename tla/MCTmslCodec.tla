----------------------------- MODULE MCTmslCodec -----------------------------
(* A model with every kind of object: a plain table, a calculated one and  *)
(* a calculation group.  It comes with one object that has any one or all  *)
(* of its fields, or padded texts, with all objects having all of them,    *)
(* with an object too many or too few, and with parts of every kind.       *)
EXTENDS TmslCodec

CONSTANTS plain, derived, group, x, y

Object(k, t, n) == [kind |-> k, place |-> t, name |-> n, fields |-> {}, texts |-> "trimmed"]
Padded(o) == [o EXCEPT !.texts = "padded"]

Base ==
  {Object(k, Model, x) : k \in DOMAIN TmslModel}
  \cup {Object("table", t, t) : t \in {plain, derived, group}}
  \cup {Object(k, plain, x) : k \in {"data", "mPartition", "measure", "hierarchy", "rowNumber"}}
  \cup {Object("queryPartition", plain, y), Object("calculated", plain, y)}
  \cup {Object(k, derived, x) : k \in {"calculatedTableColumn", "calculatedPartition"}}
  \cup {Object("calculated", derived, y), Object("measure", derived, y)}
  \cup {Object(k, group, x) : k \in {"data", "groupPartition", "group", "item"}}

Fields(o) == CASE o.kind \in DOMAIN TmslModel -> TmslModel[o.kind]
               [] o.kind \in DOMAIN TmslTable -> TmslTable[o.kind]
               [] OTHER -> {"unknown"}

Some(o) == {Padded(o)} \cup
  {[o EXCEPT !.fields = f] :
     f \in {{g} : g \in Fields(o) \cup {"unknown"}} \cup {Fields(o)} \cup {Fields(o) \ {g} : g \in Fields(o)}}

Mistyped == [Object("data", group, x) EXCEPT !.kind = "calculatedTableColumn"]

Extra ==
  {Object("entityPartition", plain, plain), Object("calculatedTableColumn", plain, plain),
   [Object("calculatedTableColumn", plain, plain) EXCEPT !.fields = {"isNameInferred"}],
   Object("data", derived, derived), Object("groupPartition", plain, plain), Object("data", group, y),
   Object("mPartition", group, y), Object("measure", group, group), Object("hierarchy", group, x),
   Object("rowNumber", group, y), Object("item", group, y), Object("unsupported", plain, x),
   Object("data", plain, y), Object("measure", derived, x),
   Padded(Object("measure", plain, x)), Padded(Object("measure", plain, y))}

Bims ==
  UNION {{(Base \ {o}) \cup {p} : p \in Some(o)} : o \in Base}
  \cup {{[o EXCEPT !.fields = Fields(o) \ {"unknown"}] : o \in Base}, {Padded(o) : o \in Base}}
  \cup {Base \cup {o} : o \in Extra}
  \cup {(Base \ {Object("data", group, x)}) \cup {Mistyped}}
  \cup {(Base \ {Object("groupPartition", group, x)}) \cup {GroupPartition(group)}}
  \cup {Base \ {o} : o \in {p \in Base : p.kind # "table"}}
  \cup {{o \in Base : o.place # t} : t \in {plain, derived, group}}
  \cup {{o \in Base : o.place = group}}

Part(path, copy, decodes) == [path |-> path, copy |-> copy, decodes |-> decodes]
Standard == {Part(r, 1, TRUE) : r \in Reserved}

PartSets ==
  {Standard, Standard \ {Part("model.bim", 1, TRUE)}, Standard \ {Part("definition.pbism", 1, TRUE)}}
  \cup {Standard \cup {p} : p \in {Part("layout", 1, TRUE), Part("layout", 1, FALSE), Part("definition/", 1, TRUE),
                                   Part("model.bim", 2, TRUE)}}
  \cup {Standard \cup {Part("layout", 1, TRUE), Part("layout", 2, TRUE)},
        Standard \cup {Part("layout", 1, TRUE), Part("report", 1, TRUE)}}

MCDefinitions ==
  [format : {"TMSL"}, bim : Bims, properties : {{"version"}}, parts : {Standard}]
  \cup [format : {"none", "TMSL", "TMDL"}, bim : {Base}, properties : {{}, {"version", "qnaEnabled"}, {"unknown"}},
        parts : PartSets]

(* An edit gives an object none or all of the fields the ModelSpec has for *)
(* it, or removes an object or a table.                                    *)
MCChanges(m) ==
  {(m \ {o}) \cup {[o EXCEPT !.fields = f]} :
     o \in {p \in m : p.place # Model}, f \in {{}, TmslSource \cup Inferred}}
  \cup {(m \ {o}) \cup {[o EXCEPT !.fields = SpecFields(o, m)]} : o \in m}
  \cup {m \ {o} : o \in {p \in m : p.kind # "table"}}
  \cup {{o \in m : o.place # t} : t \in Tables(m)}
=============================================================================
