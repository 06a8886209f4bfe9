--------------------------- MODULE TmslCodecProofs ---------------------------
(***************************************************************************)
(* What the codec guarantees for every definition and every edit: a model  *)
(* that passes validation is read back as it was written, and a rewrite    *)
(* changes of the rest no more than is listed.                             *)
(***************************************************************************)
EXTENDS TmslCodec, TLAPS

ModelKinds == {"model", "dataSource", "expression", "relationship", "role"}
TableKinds ==
  {"table", "data", "calculated", "calculatedTableColumn", "mPartition", "queryPartition",
   "entityPartition", "calculatedPartition", "groupPartition", "measure", "hierarchy", "group", "item"}

LEMMA KindSets ==
  /\ DOMAIN TmslModel = ModelKinds
  /\ DOMAIN TmslTable = TableKinds
  /\ SpecKinds = (ModelKinds \cup TableKinds \cup {"source"})
                   \ {"data", "calculatedTableColumn", "groupPartition"}
  BY DEF TmslModel, TmslTable, ModelKinds, TableKinds, SpecKinds

LEMMA FieldSets ==
  /\ TmslTable["table"] = {"description", "isHidden", "lineageTag", "annotations"}
  /\ TmslTable["data"] = TmslSource
  /\ TmslTable["calculatedTableColumn"] = TmslSource \cup Inferred
  /\ TmslTable["groupPartition"] = {"annotations"}
  /\ TmslTable["group"] = {"precedence"}
  /\ TmslTable["item"] = {"description", "formatStringDefinition", "ordinal"}
  BY DEF TmslTable

LEMMA ColumnFields ==
  /\ TmslSource \cap Inferred = {}
  /\ {"lineageTag", "annotations"} \subseteq TmslSource
  BY DEF TmslSource, TmslColumn, Inferred

(* An object is its five components. *)
IsObject(o) == o = Retyped(o, o.kind, o.fields)

LEMMA Retype ==
  ASSUME NEW o, NEW k, NEW f
  PROVE  /\ Retyped(o, k, f).kind = k /\ Retyped(o, k, f).fields = f
         /\ Retyped(o, k, f).place = o.place /\ Retyped(o, k, f).name = o.name
         /\ Retyped(o, k, f).texts = o.texts
         /\ IsObject(Retyped(o, k, f))
  BY DEF Retyped, IsObject

LEMMA Trim ==
  ASSUME NEW o
  PROVE  /\ Trimmed(o).kind = o.kind /\ Trimmed(o).fields = o.fields
         /\ Trimmed(o).place = o.place /\ Trimmed(o).name = o.name
         /\ IsObject(o) /\ o.texts = "trimmed" => Trimmed(o) = o
  BY DEF Trimmed, IsObject, Retyped

LEMMA FieldsNamed ==
  /\ \A k \in ModelKinds : TmslModel[k] \subseteq FieldNames
  /\ \A k \in TableKinds : TmslTable[k] \subseteq FieldNames
<1>1. ASSUME NEW k \in ModelKinds
      PROVE  TmslModel[k] \subseteq FieldNames
  <2>1. TmslModel[k] \in {TmslModel[j] : j \in DOMAIN TmslModel}
    BY KindSets
  <2> QED
    BY <2>1 DEF FieldNames
<1>2. ASSUME NEW k \in TableKinds
      PROVE  TmslTable[k] \subseteq FieldNames
  <2>1. TmslTable[k] \in {TmslTable[j] : j \in DOMAIN TmslTable}
    BY KindSets
  <2> QED
    BY <2>1 DEF FieldNames
<1> QED
  BY <1>1, <1>2

(* An object of a model, by the shape of its table. *)
LEMMA ObjectOfSchema ==
  ASSUME NEW s, InSchema(s), NEW o \in s
  PROVE  /\ IsObject(o) /\ o.kind \in SpecKinds /\ o.fields \subseteq SpecFields(o, s)
         /\ o.place \in Names \cup {Model} /\ o.name \in Names /\ o.texts = "trimmed"
         /\ IsGroup(o.place, s) => o.kind \in {"table", "source", "group", "item"}
         /\ ~IsGroup(o.place, s) => o.kind \notin {"group", "item"}
<1>1. /\ IsObject(o) /\ o.kind \in SpecKinds /\ o.fields \subseteq SpecFields(o, s)
      /\ o.place \in Names \cup {Model} /\ o.name \in Names /\ o.texts = "trimmed"
  <2>1. o \in [kind : SpecKinds, place : Names \cup {Model}, name : Names, fields : SUBSET SpecFields(o, s),
               texts : {"trimmed"}]
    BY DEF InSchema
  <2> QED
    BY <2>1 DEF IsObject, Retyped
<1>2. CASE o.kind \in ModelKinds
  <2>1. o.place = Model
    BY <1>2, KindSets DEF InSchema, Nested
  <2>2. \A p \in s : p.kind = "group" => p.place # Model
    BY KindSets DEF InSchema, Nested, ModelKinds
  <2> QED
    BY <1>1, <1>2, <2>1, <2>2 DEF IsGroup, In, ModelKinds
<1>3. CASE o.kind \notin ModelKinds
  <2>1. o.place \in Tables(s)
    BY <1>3, KindSets DEF InSchema, Nested
  <2>2. o.kind = "group" => IsGroup(o.place, s)
    BY DEF IsGroup, In
  <2>3. CASE IsGroup(o.place, s)
    <3>1. In(o.place, SpecKinds, s) = In(o.place, {"table", "source", "group", "item"}, s)
      BY <2>1, <2>3 DEF InSchema
    <3> QED
      BY <1>1, <2>3, <3>1 DEF In
  <2>4. CASE ~IsGroup(o.place, s)
    <3>1. In(o.place, {"item"}, s) = {}
      BY <2>1, <2>4 DEF InSchema
    <3> QED
      BY <1>1, <2>2, <2>4, <3>1 DEF In
  <2> QED
    BY <2>3, <2>4
<1> QED
  BY <1>2, <1>3

-----------------------------------------------------------------------------
(* Writing one object of a model, and reading it again. *)
LEMMA WriteInGroup ==
  ASSUME NEW s, InSchema(s), NEW o \in s, IsGroup(o.place, s)
  PROVE  /\ WriteObject(o, s) = IF o.kind = "source" THEN Retyped(o, "data", o.fields) ELSE o
         /\ WriteObject(o, s).kind \in TableKinds
         /\ WriteObject(o, s).fields \subseteq TmslTable[WriteObject(o, s).kind]
         /\ ReadGroup(WriteObject(o, s)) = o
<1>1. /\ IsObject(o) /\ o.fields \subseteq GroupRead(o)
      /\ o.kind \in {"table", "source", "group", "item"}
  BY ObjectOfSchema DEF SpecFields
<1>2. o.fields \cap GroupRead(o) = o.fields
  BY <1>1
<1>3. CASE o.kind = "source"
  <2> DEFINE w == Retyped(o, "data", o.fields)
  <2>1. WriteObject(o, s) = w
    BY <1>1, <1>3, Retype DEF WriteObject, WriteGroup, Columns
  <2>2. w.kind = "data" /\ w.place = o.place /\ w.name = o.name /\ w.fields = o.fields /\ IsObject(w)
    BY Retype
  <2>3. GroupRead(o) = {"lineageTag", "annotations"} /\ GroupRead(w) = {"lineageTag", "annotations"}
    BY <1>3, <2>2 DEF GroupRead
  <2>4. ReadGroup(w) = Retyped(o, "source", o.fields)
    <3>1. w.fields \cap GroupRead(w) = o.fields
      BY <1>2, <2>2, <2>3
    <3>2. ReadGroup(w) = Retyped(w, "source", w.fields \cap GroupRead(w))
      BY <2>2 DEF ReadGroup, Columns
    <3> QED
      BY <2>2, <3>1, <3>2 DEF Retyped
  <2>5. ReadGroup(w) = o
    BY <1>1, <1>2, <1>3, <2>2, <2>3, <2>4 DEF IsObject
  <2> QED
    BY <1>1, <1>3, <2>1, <2>2, <2>3, <2>5, FieldSets, ColumnFields DEF TableKinds
<1>4. CASE o.kind # "source"
  <2>1. "isHidden" \notin GroupRead(o) /\ GroupRead(o) \subseteq TmslTable[o.kind]
    BY <1>1, <1>4, FieldSets DEF GroupRead
  <2>2. o.fields \ {"isHidden"} = o.fields
    BY <1>1, <2>1
  <2>3. WriteObject(o, s) = o
    BY <1>1, <1>4, <2>2, Retype DEF WriteObject, WriteGroup, Columns, IsObject
  <2>4. ReadGroup(o) = Retyped(o, o.kind, o.fields)
    BY <1>1, <1>2, <1>4, Retype DEF ReadGroup, Columns
  <2> QED
    BY <1>1, <1>4, <2>1, <2>3, <2>4 DEF TableKinds, IsObject
<1> QED
  BY <1>3, <1>4

LEMMA WriteColumnInTable ==
  ASSUME NEW s, InSchema(s), InferredOnlyWhenCalculated(s),
         NEW o \in s, ~IsGroup(o.place, s), o.kind = "source"
  PROVE  /\ WriteObject(o, s) = Retyped(o, ColumnType(o, s), o.fields)
         /\ ColumnType(o, s) \in TableKinds
         /\ o.fields \subseteq TmslTable[ColumnType(o, s)]
         /\ ReadTable(WriteObject(o, s)) = o
<1>1. IsObject(o) /\ o.fields \subseteq TmslSource \cup Inferred
  BY ObjectOfSchema, KindSets DEF SpecFields, ModelKinds
<1> DEFINE w == Retyped(o, ColumnType(o, s), o.fields)
<1>2. /\ w.kind = ColumnType(o, s) /\ w.place = o.place /\ w.name = o.name /\ w.fields = o.fields
      /\ IsObject(w)
  BY Retype
<1>3. WriteObject(o, s) = WriteColumn(o, s)
  BY DEF WriteObject, Columns
<1>4. CASE IsCalculated(o.place, s)
  <2>1. ColumnType(o, s) = "calculatedTableColumn" /\ o.fields \ {} = o.fields
    BY <1>4 DEF ColumnType
  <2>2. WriteColumn(o, s) = w
    BY <1>1, <2>1, Retype DEF WriteColumn
  <2>3. ReadTable(w) = Retyped(o, "source", o.fields)
    <3>1. ReadTable(w) = Retyped(w, "source", w.fields \ {})
      BY <1>2, <2>1 DEF ReadTable, ReadColumn, Columns
    <3> QED
      BY <1>2, <2>1, <3>1 DEF Retyped
  <2> QED
    BY <1>1, <1>3, <2>1, <2>2, <2>3, FieldSets DEF TableKinds, IsObject
<1>5. CASE ~IsCalculated(o.place, s)
  <2>1. o.fields \cap Inferred = {}
    BY <1>5 DEF InferredOnlyWhenCalculated
  <2>2. ColumnType(o, s) = "data" /\ o.fields \ Inferred = o.fields
    BY <1>5, <2>1 DEF ColumnType
  <2>3. WriteColumn(o, s) = w
    BY <1>1, <2>2, Retype DEF WriteColumn
  <2>4. ReadTable(w) = Retyped(o, "source", o.fields)
    <3>1. ReadTable(w) = Retyped(w, "source", w.fields \ Inferred)
      BY <1>2, <2>2 DEF ReadTable, ReadColumn, Columns
    <3> QED
      BY <1>2, <2>2, <3>1 DEF Retyped
  <2> QED
    BY <1>1, <1>3, <2>1, <2>2, <2>3, <2>4, FieldSets DEF TableKinds, IsObject
<1> QED
  BY <1>4, <1>5

LEMMA WriteInTable ==
  ASSUME NEW s, InSchema(s), NEW o \in s, ~IsGroup(o.place, s), o.kind # "source"
  PROVE  /\ WriteObject(o, s) = o
         /\ ReadTable(o) = o
         /\ \/ o.kind \in ModelKinds /\ o.fields \subseteq TmslModel[o.kind]
            \/ o.kind \in TableKinds /\ o.fields \subseteq TmslTable[o.kind]
<1>1. /\ IsObject(o) /\ o.fields \subseteq SpecFields(o, s)
      /\ o.kind \in (ModelKinds \cup TableKinds) \ {"data", "calculatedTableColumn", "groupPartition", "rowNumber"}
  BY ObjectOfSchema, KindSets DEF ModelKinds, TableKinds
<1>2. o.kind \in Columns => o.kind = "calculated"
  BY <1>1 DEF Columns
<1>3. WriteObject(o, s) = o
  BY <1>2 DEF WriteObject, WriteColumn
<1>4. CASE o.kind = "hierarchy"
  <2>1. SpecFields(o, s) = TmslTable["hierarchy"] \ {"ordinals"}
    BY <1>4, KindSets DEF SpecFields, ModelKinds
  <2>2. o.fields \ {"ordinals"} = o.fields
    BY <1>1, <2>1
  <2>3. ReadTable(o) = o
    BY <1>1, <1>4, <2>2, Retype DEF ReadTable, Columns, IsObject
  <2> QED
    BY <1>1, <1>3, <1>4, <2>1, <2>3 DEF TableKinds
<1>5. CASE o.kind # "hierarchy"
  <2>1. SpecFields(o, s) = IF o.kind \in ModelKinds THEN TmslModel[o.kind] ELSE TmslTable[o.kind]
    BY <1>1, <1>5, KindSets DEF SpecFields
  <2>2. ReadTable(o) = o
    BY <1>2, <1>5 DEF ReadTable, ReadColumn
  <2> QED
    BY <1>1, <1>3, <2>1, <2>2
<1> QED
  BY <1>4, <1>5

LEMMA Written ==
  ASSUME NEW s, InSchema(s), InferredOnlyWhenCalculated(s), NEW o \in s
  PROVE  LET w == WriteObject(o, s) IN
         /\ w \in Objects /\ Supported(w)
         /\ w.place = o.place /\ w.name = o.name
         /\ w.kind \notin {"groupPartition", "rowNumber", "source"}
         /\ IF o.kind = "source" THEN w.kind \in {"data", "calculatedTableColumn"} ELSE w.kind = o.kind
         /\ IsGroup(o.place, s) /\ o.kind = "source" => w.kind = "data"
         /\ \A b : (IsGroup(o.place, b) <=> IsGroup(o.place, s)) => ReadObject(w, b) = o
<1> DEFINE w == WriteObject(o, s)
<1>1. /\ IsObject(o) /\ o.place \in Names \cup {Model} /\ o.name \in Names
      /\ o.kind \in SpecKinds /\ o.texts = "trimmed"
  BY ObjectOfSchema
<1>2. /\ w \in {o, Retyped(o, "data", o.fields), Retyped(o, "calculatedTableColumn", o.fields)}
      /\ IF o.kind = "source" THEN w.kind \in {"data", "calculatedTableColumn"} ELSE w = o
      /\ IsGroup(o.place, s) /\ o.kind = "source" => w.kind = "data"
  BY WriteInGroup, WriteColumnInTable, WriteInTable, Retype DEF ColumnType
<1>3. IsObject(w) /\ w.place = o.place /\ w.name = o.name /\ w.texts = "trimmed"
  BY <1>1, <1>2, Retype
<1>4. \/ w.kind \in ModelKinds /\ w.fields \subseteq TmslModel[w.kind]
      \/ w.kind \in TableKinds /\ w.fields \subseteq TmslTable[w.kind]
  BY WriteInGroup, WriteColumnInTable, WriteInTable, Retype
<1>5. w.kind \in Kinds /\ w.fields \subseteq FieldNames /\ Supported(w)
  BY <1>4, FieldsNamed, KindSets DEF Kinds, Supported
<1>6. w \in Objects
  BY <1>1, <1>3, <1>5 DEF Objects, IsObject, Retyped
<1>7. w.kind \notin {"groupPartition", "rowNumber", "source"}
  BY <1>1, <1>2, KindSets DEF ModelKinds, TableKinds
<1>8. IF IsGroup(o.place, s) THEN ReadGroup(w) = o ELSE ReadTable(w) = o
  BY WriteInGroup, WriteColumnInTable, WriteInTable
<1>9. ASSUME NEW b, IsGroup(o.place, b) <=> IsGroup(o.place, s)
      PROVE  ReadObject(w, b) = o
  BY <1>1, <1>3, <1>8, <1>9, Trim DEF ReadObject
<1> QED
  BY <1>2, <1>3, <1>5, <1>6, <1>7, <1>9

-----------------------------------------------------------------------------
(* What is in a written definition. *)
LEMMA WrittenGroups ==
  ASSUME NEW s, InSchema(s), InferredOnlyWhenCalculated(s), NEW t
  PROVE  /\ IsGroup(t, ModelSpecToBim(s)) <=> IsGroup(t, s)
         /\ t \in Tables(ModelSpecToBim(s)) <=> t \in Tables(s)
<1> DEFINE b == ModelSpecToBim(s)
<1>1. \A k \in {"group", "table"} :
        /\ \A o \in s : o.kind = k => WriteObject(o, s) \in b /\ WriteObject(o, s).kind = k /\ WriteObject(o, s).place = o.place
        /\ \A p \in b : p.kind = k => \E o \in s : o.kind = k /\ o.place = p.place
  BY Written DEF ModelSpecToBim, GroupPartition
<1> QED
  BY <1>1 DEF IsGroup, In, Tables

LEMMA WrittenEditable ==
  ASSUME NEW s, InSchema(s), InferredOnlyWhenCalculated(s)
  PROVE  Editable(ModelSpecToBim(s)) = {WriteObject(o, s) : o \in s}
  BY Written DEF ModelSpecToBim, GroupPartition, Editable

(* A model of the server's is read back as it was written. *)
LEMMA RoundTrip ==
  ASSUME NEW s, InSchema(s), InferredOnlyWhenCalculated(s)
  PROVE  BimToModelSpec(ModelSpecToBim(s)) = s
<1> DEFINE b == ModelSpecToBim(s)
<1>1. Editable(b) = {WriteObject(o, s) : o \in s}
  BY WrittenEditable
<1>2. \A o \in s : ReadObject(WriteObject(o, s), b) = o
  BY Written, WrittenGroups
<1>3. BimToModelSpec(b) = {ReadObject(w, b) : w \in {WriteObject(o, s) : o \in s}}
  BY <1>1 DEF BimToModelSpec
<1> HIDE DEF b
<1>4. ASSUME NEW o \in s
      PROVE  o \in BimToModelSpec(b)
  BY <1>2, <1>3
<1>5. ASSUME NEW q \in BimToModelSpec(b)
      PROVE  q \in s
  <2>1. PICK w \in {WriteObject(o, s) : o \in s} : q = ReadObject(w, b)
    BY <1>3
  <2>2. PICK o \in s : w = WriteObject(o, s)
    BY <2>1
  <2> QED
    BY <1>2, <2>1, <2>2
<1> QED
  BY <1>4, <1>5 DEF b

LEMMA ConvertsBack ==
  ASSUME NEW s, InSchema(s), InferredOnlyWhenCalculated(s)
  PROVE  Convertible(ModelSpecToBim(s))
<1> DEFINE b == ModelSpecToBim(s)
<1> SUFFICES ASSUME NEW t \in Tables(b)
             PROVE  IF IsGroup(t, b) THEN GroupIsPlain(t, b) ELSE In(t, {"groupPartition"}, b) = {}
  BY DEF Convertible
<1>1. t \in Tables(s) /\ (IsGroup(t, b) <=> IsGroup(t, s))
  BY WrittenGroups
<1>2. \A p \in b : \/ \E o \in s : p = WriteObject(o, s)
                   \/ p = GroupPartition(p.place) /\ p.kind = "groupPartition" /\ IsGroup(p.place, s)
  BY DEF ModelSpecToBim, GroupPartition
<1>3. CASE IsGroup(t, s)
  <2>1. PICK c \in s : In(t, Columns, s) = {c} /\ c.kind = "source"
    BY <1>1, <1>3 DEF InSchema
  <2>2. c.place = t /\ WriteObject(c, s) \in b /\ WriteObject(c, s).kind = "data" /\ WriteObject(c, s).place = t
    BY <1>3, <2>1, Written DEF In, ModelSpecToBim
  <2>3. ASSUME NEW p \in b, p.place = t, p.kind \notin {"groupPartition"}
        PROVE  /\ p.kind \in {"table", "data", "calculatedTableColumn", "group", "item"}
               /\ p.kind \in Columns => p = WriteObject(c, s)
    <3>1. PICK o \in s : p = WriteObject(o, s)
      BY <1>2, <2>3
    <3>2. o.place = t /\ o.kind \in {"table", "source", "group", "item"}
      BY <1>3, <2>3, <3>1, Written, ObjectOfSchema
    <3>3. o.kind = "source" => o = c
      BY <2>1, <3>2 DEF In, Columns
    <3> QED
      BY <3>1, <3>2, <3>3, Written DEF Columns
  <2>4. In(t, Columns \ {"rowNumber"}, b) = {WriteObject(c, s)}
    BY <2>2, <2>3 DEF In, Columns
  <2>5. GroupPartition(t) \in b /\ GroupPartition(t).kind = "groupPartition" /\ GroupPartition(t).place = t
    BY <1>1, <1>3 DEF ModelSpecToBim, GroupPartition
  <2>6. \A p \in b : p.kind = "groupPartition" => p = GroupPartition(p.place)
    BY <1>2, Written
  <2>7. In(t, Partitions, b) = {GroupPartition(t)}
    BY <2>3, <2>5, <2>6 DEF In, Partitions
  <2>8. In(t, {"measure", "hierarchy"}, b) = {}
    BY <2>3 DEF In
  <2> QED
    BY <1>1, <1>3, <2>2, <2>4, <2>5, <2>7, <2>8 DEF GroupIsPlain
<1>4. CASE ~IsGroup(t, s)
  BY <1>1, <1>2, <1>4, Written DEF In
<1> QED
  BY <1>3, <1>4

-----------------------------------------------------------------------------
(* Definitions as a whole. *)
LEMMA KeptParts ==
  ASSUME NEW s, NEW properties, NEW additional, BuildSucceeds(additional)
  PROVE  LET d == BuildTmslDefinition(s, properties, additional) IN
         /\ PartsOK(d.parts) /\ Reserved \subseteq {p.path : p \in d.parts}
         /\ AdditionalParts(d) = additional
<1> DEFINE own == {[path |-> r, copy |-> 1, decodes |-> TRUE] : r \in Reserved}
<1> DEFINE parts == own \cup additional
<1>1. BuildTmslDefinition(s, properties, additional).parts = parts
  BY DEF BuildTmslDefinition, PreservedParts
<1>2. \A p \in own : p.path \in Reserved /\ p = [path |-> p.path, copy |-> 1, decodes |-> TRUE]
  OBVIOUS
<1>3. ASSUME NEW r \in Reserved
      PROVE  \E p \in own : p.path = r
  <2>1. [path |-> r, copy |-> 1, decodes |-> TRUE] \in own
    OBVIOUS
  <2> QED
    BY <2>1
<1>4. \A p \in own : ~IsTmdl(p) /\ Decodable(p)
  BY DEF Reserved, IsTmdl, Decodable
<1>5. PartsOK(additional) /\ \A p \in additional : p.path \notin Reserved
  BY DEF BuildSucceeds
<1> HIDE DEF own
<1>6. PartsOK(parts)
  BY <1>2, <1>4, <1>5 DEF PartsOK
<1>7. Reserved \subseteq {p.path : p \in parts}
  BY <1>3
<1>8. {p \in parts : p.path \notin Reserved} = additional
  BY <1>2, <1>5
<1> QED
  BY <1>1, <1>6, <1>7, <1>8 DEF AdditionalParts

(* A valid model with parts that can be built is stored as a definition    *)
(* that can be read, and it reads as that model.                           *)
LEMMA StoredIsReadable ==
  ASSUME NEW s, Valid(s), NEW properties, properties \subseteq {"version", "qnaEnabled"},
         NEW additional, BuildSucceeds(additional)
  PROVE  LET d == BuildTmslDefinition(s, properties, additional) IN
         /\ ParseSucceeds(d)
         /\ ParseTmslDefinition(d).model = s
<1> DEFINE d == BuildTmslDefinition(s, properties, additional)
<1>1. InSchema(s) /\ InferredOnlyWhenCalculated(s)
  BY DEF Valid
<1>2. d.format = "TMSL" /\ d.bim = ModelSpecToBim(s) /\ d.properties = properties
  BY DEF BuildTmslDefinition
<1>3. PartsOK(d.parts) /\ Reserved \subseteq {p.path : p \in d.parts}
  BY KeptParts
<1> HIDE DEF d
<1>4. BimToModelSpec(d.bim) = s /\ Convertible(d.bim)
  BY <1>1, <1>2, RoundTrip, ConvertsBack
<1>5. ASSUME NEW o \in d.bim
      PROVE  Supported(o)
  <2>1. \A t : GroupPartition(t).kind = "groupPartition" /\ GroupPartition(t).fields = {}
    BY DEF GroupPartition
  <2>2. \A t : Supported(GroupPartition(t))
    BY <2>1, KindSets DEF Supported, TableKinds
  <2> QED
    BY <1>1, <1>2, <2>2, Written DEF ModelSpecToBim
<1>6. Distinct(Editable(d.bim))
  <2>1. ASSUME NEW o \in s, NEW p \in s, Id(WriteObject(o, s)) = Id(WriteObject(p, s))
        PROVE  o = p
    <3>1. ASSUME NEW q \in s
          PROVE  Id(WriteObject(q, s)) = Id(q)
      BY <1>1, Written DEF Id, Family, Columns, Partitions
    <3> QED
      BY <2>1, <3>1 DEF Valid, Distinct
  <2>2. Editable(d.bim) = {WriteObject(o, s) : o \in s}
    BY <1>1, <1>2, WrittenEditable
  <2> QED
    BY <2>1, <2>2 DEF Distinct
<1>7. ParseSucceeds(d)
  BY <1>2, <1>3, <1>4, <1>5, <1>6 DEF ParseSucceeds
<1>8. ParseTmslDefinition(d).model = s
  BY <1>4 DEF ParseTmslDefinition
<1> QED
  BY <1>7, <1>8 DEF d

-----------------------------------------------------------------------------
(* The phases of an edit. *)
PhaseOK ==
  /\ before \in Definitions
  /\ phase \in {"idle", "read", "edited", "stored", "ended"}
  /\ phase # "ended" => result = "none"
  /\ phase \in {"idle", "read", "edited"} => stored = before
  /\ phase \in {"idle", "read"} => submitted = {}
  /\ phase = "idle" => snapshot = NoSnapshot
  /\ phase \in {"read", "edited"} \/ Rewritten => ParseSucceeds(before) /\ snapshot = ParseTmslDefinition(before)
  /\ phase = "edited" \/ Rewritten => Valid(submitted)
  /\ Rewritten => stored = BuildTmslDefinition(submitted, snapshot.properties, snapshot.additional)

Inv == TypeOK /\ PhaseOK /\ WritesReadBack

LEMMA InitInv == Init => Inv
<1> SUFFICES ASSUME Init PROVE Inv
  OBVIOUS
<1>1. InSchema({})
  BY DEF InSchema, Nested, Tables
<1>2. NoSnapshot.model = {}
  BY DEF NoSnapshot
<1> QED
  BY <1>1, <1>2, DefinitionsAssumption DEF Init, Inv, TypeOK, PhaseOK, WritesReadBack, Rewritten

LEMMA ReadInv ==
  ASSUME Inv, Read
  PROVE  Inv'
<1>1. CASE ~ParseSucceeds(stored)
  BY <1>1 DEF Read, Inv, TypeOK, PhaseOK, WritesReadBack, Rewritten
<1>2. CASE ParseSucceeds(stored)
  <2>1. InSchema(ParseTmslDefinition(stored).model)
    BY <1>2 DEF ParseSucceeds, ParseTmslDefinition, Valid
  <2> QED
    BY <1>2, <2>1 DEF Read, Inv, TypeOK, PhaseOK, WritesReadBack, Rewritten
<1> QED
  BY <1>1, <1>2

LEMMA EditInv ==
  ASSUME Inv, Edit
  PROVE  Inv'
  BY DEF Edit, Inv, TypeOK, PhaseOK, WritesReadBack, Rewritten, Valid

LEMMA CanBeBuilt ==
  ASSUME NEW d, ParseSucceeds(d)
  PROVE  BuildSucceeds(AdditionalParts(d))
  BY DEF ParseSucceeds, BuildSucceeds, AdditionalParts, PartsOK

LEMMA StoredShape ==
  ASSUME NEW s, Valid(s), NEW properties, properties \subseteq {"version", "qnaEnabled"},
         NEW additional, additional \subseteq Parts
  PROVE  BuildTmslDefinition(s, properties, additional) \in DefinitionShape
<1> DEFINE parts == {[path |-> r, copy |-> 1, decodes |-> TRUE] : r \in Reserved} \cup additional
<1>1. BuildTmslDefinition(s, properties, additional)
        = [format |-> "TMSL", bim |-> ModelSpecToBim(s), properties |-> properties, parts |-> parts]
  BY DEF BuildTmslDefinition, PreservedParts
<1>2. parts \subseteq Parts
  <2>1. ASSUME NEW r \in Reserved
        PROVE  [path |-> r, copy |-> 1, decodes |-> TRUE] \in Parts
    BY NamesAssumption DEF Parts
  <2> QED
    BY <2>1
<1>3. InSchema(s) /\ InferredOnlyWhenCalculated(s)
  BY DEF Valid
<1>4. ASSUME NEW t \in Tables(s)
      PROVE  GroupPartition(t) \in Objects
  <2>1. PICK o \in s : o.place = t /\ o.kind = "table"
    BY DEF Tables
  <2>2. t \in Names
    BY <1>3, <2>1, ObjectOfSchema, KindSets DEF InSchema, Nested, ModelKinds
  <2>3. "groupPartition" \in Kinds
    BY KindSets DEF Kinds, TableKinds
  <2> QED
    BY <2>2, <2>3 DEF GroupPartition, Objects
<1>5. ModelSpecToBim(s) \subseteq Objects
  BY <1>3, <1>4, Written DEF ModelSpecToBim
<1> HIDE DEF parts
<1> QED
  BY <1>1, <1>2, <1>5 DEF DefinitionShape

LEMMA StoreInv ==
  ASSUME Inv, Store
  PROVE  Inv'
<1> DEFINE d == BuildTmslDefinition(submitted, snapshot.properties, snapshot.additional)
<1>1. /\ ParseSucceeds(before) /\ snapshot = ParseTmslDefinition(before) /\ Valid(submitted)
      /\ before \in DefinitionShape
  BY DefinitionsAssumption DEF Inv, PhaseOK, Store
<1>2. snapshot.additional = AdditionalParts(before) /\ snapshot.properties = before.properties
  BY <1>1 DEF ParseTmslDefinition
<1>3. BuildSucceeds(snapshot.additional)
  BY <1>1, <1>2, CanBeBuilt
<1>4. snapshot.properties \subseteq {"version", "qnaEnabled"} /\ snapshot.additional \subseteq Parts
  BY <1>1, <1>2 DEF ParseSucceeds, AdditionalParts, DefinitionShape
<1>5. d \in DefinitionShape
  BY <1>1, <1>4, StoredShape
<1>6. stored' = d /\ phase' = "stored" /\ UNCHANGED <<result, snapshot, submitted, before>>
  BY <1>3 DEF Store
<1> HIDE DEF d
<1>7. TypeOK'
  BY <1>5, <1>6 DEF Inv, TypeOK
<1>8. PhaseOK'
  BY <1>1, <1>6 DEF Inv, PhaseOK, Rewritten, Store, d
<1>9. WritesReadBack'
  BY <1>6 DEF Inv, WritesReadBack
<1> QED
  BY <1>7, <1>8, <1>9 DEF Inv

LEMMA ReadBackInv ==
  ASSUME Inv, ReadBack
  PROVE  Inv'
<1>1. /\ ParseSucceeds(before) /\ snapshot = ParseTmslDefinition(before) /\ Valid(submitted)
      /\ stored = BuildTmslDefinition(submitted, snapshot.properties, snapshot.additional)
  BY DEF Inv, PhaseOK, ReadBack, Rewritten
<1>2. snapshot.additional = AdditionalParts(before) /\ snapshot.properties = before.properties
  BY <1>1 DEF ParseTmslDefinition
<1>3. BuildSucceeds(snapshot.additional) /\ snapshot.properties \subseteq {"version", "qnaEnabled"}
  BY <1>1, <1>2, CanBeBuilt DEF ParseSucceeds
<1>4. ParseSucceeds(stored) /\ ParseTmslDefinition(stored).model = submitted
  BY <1>1, <1>3, StoredIsReadable
<1>5. result' = "completed" /\ phase' = "ended" /\ UNCHANGED <<stored, snapshot, submitted, before>>
  BY <1>4 DEF ReadBack
<1> QED
  BY <1>1, <1>5 DEF Inv, TypeOK, PhaseOK, WritesReadBack, Rewritten

LEMMA Invariance == Spec => []Inv
<1>1. Inv /\ UNCHANGED vars => Inv'
  BY DEF Inv, TypeOK, PhaseOK, WritesReadBack, Rewritten, vars
<1>2. Inv /\ [Next]_vars => Inv'
  BY <1>1, ReadInv, EditInv, StoreInv, ReadBackInv DEF Next
<1> QED
  BY InitInv, <1>2, PTL DEF Spec

-----------------------------------------------------------------------------
(* The variables keep their types: whatever is stored has the shape of a   *)
(* definition, whatever was read or submitted that of a model.             *)
THEOREM TypeCorrect == Spec => []TypeOK
<1>1. Inv => TypeOK
  BY DEF Inv
<1> QED
  BY Invariance, <1>1, PTL

(* No update that the engine accepts is stored and then found changed or   *)
(* unreadable by fault of the codec, for every definition and every edit.  *)
THEOREM StoredReadsBack == Spec => []WritesReadBack
<1>1. Inv => WritesReadBack
  BY DEF Inv
<1> QED
  BY Invariance, <1>1, PTL

(* A rewrite keeps the properties of the definition and its other parts.   *)
THEOREM RewriteKeepsParts == Spec => []PartsAreKept
<1>1. ASSUME Inv, Rewritten
      PROVE  stored.properties = before.properties /\ AdditionalParts(stored) = AdditionalParts(before)
  <2>1. /\ ParseSucceeds(before) /\ snapshot = ParseTmslDefinition(before)
        /\ stored = BuildTmslDefinition(submitted, snapshot.properties, snapshot.additional)
    BY <1>1 DEF Inv, PhaseOK
  <2>2. snapshot.additional = AdditionalParts(before) /\ snapshot.properties = before.properties
    BY <2>1 DEF ParseTmslDefinition
  <2>3. AdditionalParts(stored) = snapshot.additional
    BY <2>1, <2>2, CanBeBuilt, KeptParts
  <2>4. stored.properties = snapshot.properties
    BY <2>1 DEF BuildTmslDefinition
  <2> QED
    BY <2>2, <2>3, <2>4
<1>2. Inv => PartsAreKept
  BY <1>1 DEF PartsAreKept
<1> QED
  BY Invariance, <1>2, PTL

-----------------------------------------------------------------------------
(* What becomes of one object of a definition that is read and written     *)
(* again: in a plain or calculated table, and in a calculation group.      *)
LEMMA ReadKeepsKinds ==
  ASSUME NEW b, NEW t
  PROVE  /\ IsGroup(t, BimToModelSpec(b)) <=> IsGroup(t, b)
         /\ IsCalculated(t, BimToModelSpec(b)) <=> IsCalculated(t, b)
<1> DEFINE m == BimToModelSpec(b)
<1>1. \A o \in b : /\ ReadObject(o, b).place = o.place /\ ReadObject(o, b).name = o.name
                   /\ o.kind \notin Columns => ReadObject(o, b).kind = o.kind
                   /\ o.kind \in Columns => ReadObject(o, b).kind \in Columns
  BY Retype, Trim DEF ReadObject, ReadGroup, ReadTable, ReadColumn, Columns
<1>2. \A k \in {"group", "calculatedPartition"} :
        /\ \A o \in b : o.kind = k => ReadObject(o, b) \in m /\ ReadObject(o, b).kind = k /\ ReadObject(o, b).place = o.place
        /\ \A p \in m : p.kind = k => \E o \in b : o.kind = k /\ o.place = p.place
  BY <1>1 DEF BimToModelSpec, Editable, Columns
<1> QED
  BY <1>2 DEF IsGroup, IsCalculated, In

LEMMA RestoredInGroup ==
  ASSUME NEW b, NEW s, InSchema(s), NEW o, IsObject(o), Supported(o),
         IsGroup(o.place, b), IsGroup(o.place, s), ReadObject(o, b) \in s,
         o.kind \notin {"rowNumber", "groupPartition", "source"}, o.texts = "trimmed",
         o.kind = "table" => "isHidden" \notin o.fields,
         o.kind \in Columns => o.kind = "data" /\ o.fields \subseteq {"lineageTag", "annotations"}
  PROVE  WriteObject(ReadObject(o, b), s) = o
<1> DEFINE r == ReadObject(o, b)
<1>1. r = ReadGroup(o)
  BY Retype, Trim DEF ReadObject, ReadGroup
<1>2. /\ r.place = o.place /\ r.name = o.name /\ r.fields = o.fields \cap GroupRead(o)
      /\ r.kind = IF o.kind \in Columns THEN "source" ELSE o.kind
      /\ r = Retyped(o, r.kind, r.fields)
  BY <1>1, Retype DEF ReadGroup
<1>3. r \in s /\ r.kind \in {"table", "source", "group", "item"}
  BY <1>2, ObjectOfSchema
<1> HIDE DEF r
<1>4. WriteObject(r, s) = IF r.kind = "source" THEN Retyped(r, "data", r.fields) ELSE r
  BY <1>2, <1>3, WriteInGroup
<1>5. CASE o.kind \in Columns
  <2>1. GroupRead(o) = {"lineageTag", "annotations"} /\ o.kind = "data"
    BY <1>5 DEF GroupRead, Columns
  <2>2. o.fields \cap GroupRead(o) = o.fields
    BY <1>5, <2>1
  <2>3. r.kind = "source" /\ WriteObject(r, s) = Retyped(r, "data", o.fields)
    BY <1>2, <1>4, <1>5, <2>2
  <2> QED
    BY <1>2, <2>1, <2>3 DEF Retyped, IsObject, r
<1>6. CASE o.kind \notin Columns
  <2>1. o.kind \in {"table", "group", "item"} /\ r.kind = o.kind
    BY <1>2, <1>3, <1>6 DEF Columns
  <2>2. o.fields \subseteq TmslTable[o.kind]
    BY <2>1, KindSets DEF Supported, ModelKinds, TableKinds
  <2>3. o.fields \subseteq GroupRead(o)
    BY <2>1, <2>2, FieldSets DEF GroupRead
  <2>4. r.fields = o.fields
    BY <1>2, <2>3
  <2> QED
    BY <1>2, <1>4, <2>1, <2>4 DEF IsObject, r
<1> QED
  BY <1>5, <1>6 DEF r

LEMMA RestoredInTable ==
  ASSUME NEW b, NEW s, InSchema(s), InferredOnlyWhenCalculated(s),
         NEW o, IsObject(o), Supported(o),
         ~IsGroup(o.place, b), ~IsGroup(o.place, s), ReadObject(o, b) \in s,
         IsCalculated(o.place, b) <=> IsCalculated(o.place, s),
         o.kind \notin {"rowNumber", "groupPartition", "source"}, o.texts = "trimmed",
         o.kind = "hierarchy" => "ordinals" \notin o.fields,
         o.kind \in {"data", "calculatedTableColumn"} => o.kind = ColumnType(o, b)
  PROVE  WriteObject(ReadObject(o, b), s) = o
<1> DEFINE r == ReadObject(o, b)
<1>1. r = ReadTable(o)
  BY Retype, Trim DEF ReadObject, ReadTable, ReadColumn
<1>2. CASE o.kind \in {"data", "calculatedTableColumn"}
  <2>1. o.fields \subseteq TmslTable[o.kind]
    BY <1>2, KindSets DEF Supported, ModelKinds, TableKinds
  <2>2. o.fields \ (IF o.kind = "calculatedTableColumn" THEN {} ELSE Inferred) = o.fields
    BY <1>2, <2>1, FieldSets, ColumnFields
  <2>3. r = Retyped(o, "source", o.fields)
    BY <1>1, <1>2, <2>2 DEF ReadTable, ReadColumn, Columns
  <2>4. r.kind = "source" /\ r.place = o.place /\ r.name = o.name /\ r.fields = o.fields /\ r \in s
      /\ r.texts = o.texts
    BY <2>3, Retype
  <2> HIDE DEF r
  <2>5. ColumnType(r, s) = o.kind
    BY <1>2, <2>4 DEF ColumnType
  <2>6. WriteObject(r, s) = Retyped(r, o.kind, o.fields)
    BY <2>4, <2>5, WriteColumnInTable
  <2>7. WriteObject(r, s) = o
    BY <2>4, <2>6 DEF Retyped, IsObject
  <2> QED
    BY <2>7 DEF r
<1>3. CASE o.kind \notin {"data", "calculatedTableColumn"}
  <2>1. o.kind = "hierarchy" => o.fields \ {"ordinals"} = o.fields
    OBVIOUS
  <2>2. r = o
    BY <1>1, <1>3, <2>1 DEF ReadTable, ReadColumn, Columns, IsObject
  <2> QED
    BY <2>2, WriteInTable
<1> QED
  BY <1>2, <1>3

(* White space around texts does not matter to what is read.               *)
LEMMA TrimFirst ==
  ASSUME NEW o, NEW b
  PROVE  ReadObject(Trimmed(o), b) = ReadObject(o, b)
<1> DEFINE q == Trimmed(o)
<1>1. q.kind = o.kind /\ q.place = o.place /\ q.name = o.name /\ q.fields = o.fields
  BY Trim
<1> HIDE DEF q
<1>2. Trimmed(ReadGroup(q)) = Trimmed(ReadGroup(o))
  <2>1. GroupRead(q) = GroupRead(o)
    BY <1>1 DEF GroupRead
  <2> QED
    BY <1>1, <2>1, Retype DEF ReadGroup, Trimmed
<1>3. Trimmed(ReadTable(q)) = Trimmed(ReadTable(o))
  BY <1>1, Retype DEF ReadTable, ReadColumn, Trimmed
<1> QED
  BY <1>1, <1>2, <1>3 DEF ReadObject, q

(* A rewrite changes nothing that the edit left alone, but what is listed  *)
(* in Restored, for every definition and every edit.                       *)
THEOREM RewriteIsFaithful == Spec => []LossesAreKnown
<1>1. ASSUME Inv, Rewritten, NEW o \in before.bim, LeftAlone(o), ~Restored(o)
      PROVE  Trimmed(o) \in stored.bim
  <2> DEFINE b == before.bim
  <2> DEFINE m == snapshot.model
  <2>1. /\ ParseSucceeds(before) /\ m = BimToModelSpec(b) /\ Valid(submitted)
        /\ stored.bim = ModelSpecToBim(submitted)
    BY <1>1 DEF Inv, PhaseOK, ParseTmslDefinition, BuildTmslDefinition
  <2>2. b \subseteq Objects /\ Nested(b)
    BY <1>1, DefinitionsAssumption DEF Inv, PhaseOK, DefinitionShape
  <2>3. /\ InSchema(submitted) /\ InferredOnlyWhenCalculated(submitted)
        /\ Supported(o) /\ Convertible(b)
    BY <2>1 DEF Valid, ParseSucceeds
  <2>4. IsObject(o) /\ o.kind \in Kinds
    <3>1. o \in Objects
      BY <2>2
    <3> QED
      BY <3>1 DEF Objects, IsObject, Retyped
  <2>5. o.kind \notin {"rowNumber", "source"}
    BY <1>1, <2>2, <2>4, KindSets DEF Objects, Restored, Kinds, ModelKinds, TableKinds
  <2>6. /\ IsGroup(o.place, b) <=> IsGroup(o.place, submitted)
        /\ IsCalculated(o.place, b) <=> IsCalculated(o.place, submitted)
    BY <1>1, <2>1, ReadKeepsKinds DEF LeftAlone
  <2>7. CASE o.kind = "groupPartition"
    <3>1. o.place \in Tables(b) \ {Model}
      BY <2>2, <2>7, KindSets DEF Nested, ModelKinds
    <3>2. IsGroup(o.place, b)
      BY <2>3, <2>7, <3>1 DEF Convertible, In
    <3>3. o = GroupPartition(o.place)
      BY <1>1, <2>7, <3>2 DEF Restored
    <3>4. o.place \in Tables(submitted)
      BY <1>1, <3>1 DEF LeftAlone
    <3>5. Trimmed(o) = o
      BY <3>3 DEF GroupPartition, Trimmed
    <3> QED
      BY <2>1, <2>6, <3>2, <3>3, <3>4, <3>5 DEF ModelSpecToBim
  <2>8. CASE o.kind # "groupPartition"
    <3> DEFINE r == ReadObject(o, b)
    <3> DEFINE q == Trimmed(o)
    <3>1. r \in m
      BY <2>1, <2>5, <2>8 DEF BimToModelSpec, Editable
    <3>2. Id(r) = Id(o)
      BY Retype, Trim DEF Id, Family, ReadObject, ReadGroup, ReadTable, ReadColumn, Columns, Partitions
    <3>3. r \in submitted
      BY <1>1, <3>1, <3>2 DEF LeftAlone
    <3>4. WriteObject(r, submitted) \in stored.bim
      BY <2>1, <3>3 DEF ModelSpecToBim
    <3>5. /\ q.kind = o.kind /\ q.place = o.place /\ q.fields = o.fields /\ q.texts = "trimmed"
          /\ IsObject(q) /\ Supported(q) /\ ReadObject(q, b) = r
      <4>1. q.kind = o.kind /\ q.place = o.place /\ q.fields = o.fields /\ ReadObject(q, b) = r
        BY Trim, TrimFirst
      <4>2. q.texts = "trimmed" /\ IsObject(q)
        BY DEF Trimmed, IsObject, Retyped
      <4> QED
        BY <2>3, <4>1, <4>2 DEF Supported
    <3> HIDE DEF q
    <3>6. CASE IsGroup(o.place, b)
      <4>1. /\ o.kind = "table" => "isHidden" \notin o.fields
            /\ o.kind \in Columns => o.kind = "data" /\ o.fields \subseteq {"lineageTag", "annotations"}
        BY <1>1, <3>6 DEF Restored
      <4>2. WriteObject(r, submitted) = q
        BY <2>3, <2>5, <2>6, <2>8, <3>3, <3>5, <3>6, <4>1, RestoredInGroup
      <4> QED
        BY <3>4, <4>2 DEF q
    <3>7. CASE ~IsGroup(o.place, b)
      <4>1. /\ o.kind = "hierarchy" => "ordinals" \notin o.fields
            /\ o.kind \in {"data", "calculatedTableColumn"} => o.kind = ColumnType(q, b)
        BY <1>1, <3>5 DEF Restored, ColumnType
      <4>2. WriteObject(r, submitted) = q
        BY <2>3, <2>5, <2>6, <2>8, <3>3, <3>5, <3>7, <4>1, RestoredInTable
      <4> QED
        BY <3>4, <4>2 DEF q
    <3> QED
      BY <3>6, <3>7
  <2> QED
    BY <2>7, <2>8
<1>2. Inv => LossesAreKnown
  BY <1>1 DEF LossesAreKnown, Changed
<1> QED
  BY Invariance, <1>2, PTL
=============================================================================
