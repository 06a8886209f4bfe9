------------------------------ MODULE TmslCodec ------------------------------
(***************************************************************************)
(* The codec between a definition in Fabric (TMSL: model.bim,              *)
(* definition.pbism and other parts) and the ModelSpec the server works    *)
(* on, and what becomes of a definition that is read, edited and written   *)
(* back whole.                                                             *)
(*                                                                         *)
(* Both forms of a model are sets of objects.  An object has a kind, the   *)
(* table it is in (or Model), a name, and the set of those fields whose    *)
(* value is not the one left out or defaulted; a field keeps its TMSL name *)
(* in both forms.  Values are passed on as they are but for white space    *)
(* around a text, line endings, the split of an expression into lines and  *)
(* the order of a collection, which the schemas and normalizeModelSpec     *)
(* make canonical; of these only the white space, which decides whether    *)
(* two names are the same, is modelled.                                    *)
(* What validation asks of references is in ModelEngine.                   *)
(***************************************************************************)
CONSTANTS
  Model,        \* the place of the objects outside tables
  Names,        \* names of tables and of objects
  Paths,        \* of parts
  Definitions,  \* definitions that Fabric may hold
  Changes(_)    \* edits of a model: the models a batch may turn it into

VARIABLES
  stored,     \* Fabric: the definition
  phase,
  snapshot,   \* the model that was read, and the parts kept with it
  submitted,  \* the edited model
  result,
  before      \* history: the definition that was read

vars == <<stored, phase, snapshot, submitted, result, before>>

-----------------------------------------------------------------------------
(* The fields that the schema of model.bim accepts, by kind of object; the *)
(* field "unknown" stands for all that a strict schema refuses.            *)
TmslColumn == {"description", "formatString", "isHidden", "sortByColumn", "summarizeBy", "isDefaultLabel",
               "isAvailableInMdx", "lineageTag", "annotations"}
TmslSource == TmslColumn \cup {"dataType", "sourceColumn", "sourceProviderType", "isKey"}
Inferred == {"isNameInferred", "isDataTypeInferred", "columnOriginTable", "columnOriginColumn"}

TmslModel ==
  [model        |-> {"collation", "defaultMode", "sourceQueryCulture", "description",
                     "discourageImplicitMeasures", "dataAccessOptions", "annotations"},
   dataSource   |-> {"description", "options", "annotations"},
   expression   |-> {"description", "lineageTag", "annotations"},
   relationship |-> {"fromCardinality", "toCardinality", "crossFilteringBehavior",
                     "securityFilteringBehavior", "isActive", "annotations"},
   role         |-> {"description", "tablePermissions", "annotations"}]

TmslTable ==
  [table               |-> {"description", "isHidden", "lineageTag", "annotations"},
   data                |-> TmslSource,
   calculated          |-> TmslColumn \cup {"dataType"},
   calculatedTableColumn |-> TmslSource \cup Inferred,
   mPartition          |-> {"mode", "annotations"},
   queryPartition      |-> {"mode", "annotations"},
   entityPartition     |-> {"schemaName", "annotations"},
   calculatedPartition |-> {"annotations"},
   groupPartition      |-> {"annotations"},
   measure             |-> {"displayFolder", "isHidden", "lineageTag", "annotations"},
   hierarchy           |-> {"description", "isHidden", "ordinals", "levelTags", "lineageTag", "annotations"},
   group               |-> {"precedence"},
   item                |-> {"description", "formatStringDefinition", "ordinal"}]

Partitions == {"mPartition", "queryPartition", "entityPartition", "calculatedPartition", "groupPartition"}
Columns == {"data", "calculated", "calculatedTableColumn", "rowNumber", "source"}

(* What model.bim is made of, and a definition: its format, the objects of *)
(* model.bim, the properties in definition.pbism, and its parts.           *)
Kinds == DOMAIN TmslModel \cup DOMAIN TmslTable \cup {"rowNumber", "unsupported"}
FieldNames ==
  (UNION {TmslModel[k] : k \in DOMAIN TmslModel}) \cup (UNION {TmslTable[k] : k \in DOMAIN TmslTable})
    \cup {"unknown"}
Retyped(o, kind, fields) ==
  [kind |-> kind, place |-> o.place, name |-> o.name, fields |-> fields, texts |-> o.texts]

(* The texts of an object are padded when white space surrounds any of its *)
(* name, references, expressions, display folder, format or other texts    *)
(* that the schemas trim.                                                  *)
Objects ==
  [kind : Kinds, place : Names \cup {Model}, name : Names, fields : SUBSET FieldNames,
   texts : {"trimmed", "padded"}]
Parts == [path : Paths, copy : {1, 2}, decodes : BOOLEAN]
Reserved == {"model.bim", "definition.pbism"}

DefinitionShape ==
  [format : {"none", "TMSL", "TMDL"}, bim : SUBSET Objects,
   properties : SUBSET {"version", "qnaEnabled", "unknown"}, parts : SUBSET Parts]

ASSUME NamesAssumption == Model \notin Names /\ Reserved \subseteq Paths

(* The objects of a table; every object is in its table, or outside them.  *)
In(t, kinds, m) == {o \in m : o.place = t /\ o.kind \in kinds}
IsGroup(t, m) == In(t, {"group"}, m) # {}
IsCalculated(t, m) == In(t, {"calculatedPartition"}, m) # {}
Tables(m) == {o.place : o \in {p \in m : p.kind = "table"}}
Nested(m) ==
  \A o \in m : IF o.kind \in DOMAIN TmslModel THEN o.place = Model ELSE o.place \in Tables(m) \ {Model}

ASSUME DefinitionsAssumption == Definitions \subseteq {d \in DefinitionShape : Nested(d.bim)}

(* Row-number columns may have any further field. *)
Supported(o) ==
  \/ o.kind = "rowNumber"
  \/ o.kind \in DOMAIN TmslModel /\ o.fields \subseteq TmslModel[o.kind]
  \/ o.kind \in DOMAIN TmslTable /\ o.fields \subseteq TmslTable[o.kind]

-----------------------------------------------------------------------------
(* Reading: bimToModelSpec.  A calculation group must have its partition   *)
(* and one column that is not calculated, and nothing else.                *)
GroupIsPlain(t, b) ==
  /\ \E c \in b : In(t, Columns \ {"rowNumber"}, b) = {c} /\ c.kind # "calculated"
  /\ \E p \in b : In(t, Partitions, b) = {p} /\ p.kind = "groupPartition"
  /\ In(t, {"measure", "hierarchy"}, b) = {}

Convertible(b) ==
  \A t \in Tables(b) : IF IsGroup(t, b) THEN GroupIsPlain(t, b) ELSE In(t, {"groupPartition"}, b) = {}

(* What is read of the objects of a calculation group, by kind. *)
GroupReadUntagged(o) ==
  CASE o.kind = "table" -> {"description", "lineageTag", "annotations"}
    [] o.kind = "item" -> {"description", "formatStringDefinition", "ordinal"}
    [] o.kind = "group" -> {"precedence"}
    [] OTHER -> {"annotations"}

GroupRead(o) ==
  CASE o.kind = "table" -> {"description", "lineageTag", "annotations"}
    [] o.kind = "item" -> {"description", "formatStringDefinition", "ordinal"}
    [] o.kind = "group" -> {"precedence"}
    [] OTHER -> {"lineageTag", "annotations"}

ReadColumn(o) ==
  IF o.kind = "calculated" THEN o
  ELSE Retyped(o, "source", o.fields \ (IF o.kind = "calculatedTableColumn" THEN {} ELSE Inferred))

(* The levels of a hierarchy are put in the order of their ordinals. *)
ReadTable(o) ==
  IF o.kind \in Columns THEN ReadColumn(o)
  ELSE IF o.kind = "hierarchy" THEN Retyped(o, "hierarchy", o.fields \ {"ordinals"})
  ELSE o

ReadGroup(o) ==
  Retyped(o, IF o.kind \in Columns THEN "source" ELSE o.kind, o.fields \cap GroupRead(o))

Trimmed(o) ==
  [kind |-> o.kind, place |-> o.place, name |-> o.name, fields |-> o.fields, texts |-> "trimmed"]

ReadObject(o, b) == Trimmed(IF IsGroup(o.place, b) THEN ReadGroup(o) ELSE ReadTable(o))

Editable(b) == {o \in b : o.kind \notin {"rowNumber", "groupPartition"}}
BimToModelSpec(b) == {ReadObject(o, b) : o \in Editable(b)}

-----------------------------------------------------------------------------
(* The model the server works on, and what its schema and its validation   *)
(* ask: a table that is not a calculation group, items in every group,     *)
(* distinct names, and no metadata of calculated tables elsewhere.         *)
Family(k) == IF k \in Columns THEN "column" ELSE IF k \in Partitions THEN "partition" ELSE k
Id(o) == <<o.place, Family(o.kind), o.name>>
Distinct(m) == \A o, p \in m : Id(o) = Id(p) => o = p

SpecFields(o, s) ==
  IF IsGroup(o.place, s) THEN GroupRead(o)
  ELSE CASE o.kind = "source" -> TmslSource \cup Inferred
         [] o.kind = "hierarchy" -> TmslTable.hierarchy \ {"ordinals"}
         [] o.kind \in DOMAIN TmslModel -> TmslModel[o.kind]
         [] OTHER -> TmslTable[o.kind]

SpecKinds == (DOMAIN TmslModel \cup DOMAIN TmslTable \cup {"source"})
               \ {"data", "calculatedTableColumn", "groupPartition"}

InSchema(s) ==
  /\ \A o \in s : o \in [kind : SpecKinds, place : Names \cup {Model}, name : Names,
                          fields : SUBSET SpecFields(o, s), texts : {"trimmed"}]
  /\ Nested(s)
  /\ \A t \in Tables(s) :
       IF IsGroup(t, s)
       THEN /\ \E c \in s : In(t, Columns, s) = {c} /\ c.kind = "source"
            /\ In(t, {"item"}, s) # {}
            /\ In(t, SpecKinds, s) = In(t, {"table", "source", "group", "item"}, s)
       ELSE In(t, {"item"}, s) = {}

InferredOnlyWhenCalculated(s) ==
  \A o \in s : o.kind = "source" /\ o.fields \cap Inferred # {} => IsCalculated(o.place, s)

Valid(s) ==
  /\ InSchema(s)
  /\ \E t \in Tables(s) : ~IsGroup(t, s)
  /\ Distinct(s)
  /\ \A o, p \in {q \in s : q.kind = "measure"} : o.name = p.name => o = p
  /\ InferredOnlyWhenCalculated(s)

-----------------------------------------------------------------------------
(* Writing: modelSpecToBim.  The type of a column with a source is that of *)
(* its table; a calculation group gets a partition of its own.             *)
AlwaysData(o, s) == "data"
ColumnType(o, s) == IF IsCalculated(o.place, s) THEN "calculatedTableColumn" ELSE "data"

WriteColumn(o, s) ==
  IF o.kind = "calculated" THEN o
  ELSE Retyped(o, ColumnType(o, s),
               o.fields \ (IF ColumnType(o, s) = "calculatedTableColumn" THEN {} ELSE Inferred))

WriteGroup(o) ==
  IF o.kind = "table" THEN Retyped(o, "table", o.fields \ {"isHidden"})
  ELSE IF o.kind \in Columns THEN Retyped(o, "data", o.fields)
  ELSE o

GroupPartition(t) ==
  [kind |-> "groupPartition", place |-> t, name |-> t, fields |-> {}, texts |-> "trimmed"]

WriteObject(o, s) ==
  IF IsGroup(o.place, s) THEN WriteGroup(o) ELSE IF o.kind \in Columns THEN WriteColumn(o, s) ELSE o

ModelSpecToBim(s) ==
  {WriteObject(o, s) : o \in s} \cup {GroupPartition(t) : t \in {u \in Tables(s) : IsGroup(u, s)}}

-----------------------------------------------------------------------------
(* The parts of a definition.  One that cannot be decoded has a path that  *)
(* is not safe or a payload that is not canonical base64.                  *)
Decodable(part) == part.decodes
IsTmdl(part) == part.path = "definition/"

PartsOK(parts) ==
  /\ \A p \in parts : ~IsTmdl(p) /\ Decodable(p)
  /\ \A p, q \in parts : p.path = q.path => p = q

(* Two objects of one name are refused, also if white space tells them     *)
(* apart in the definition.                                                *)
ParseUnvalidated(d) ==
  /\ d.format \in {"none", "TMSL"}
  /\ PartsOK(d.parts)
  /\ Reserved \subseteq {p.path : p \in d.parts}
  /\ \A o \in d.bim : Supported(o)
  /\ d.properties \subseteq {"version", "qnaEnabled"}
  /\ Convertible(d.bim)

ParseSucceeds(d) ==
  /\ d.format \in {"none", "TMSL"}
  /\ PartsOK(d.parts)
  /\ Reserved \subseteq {p.path : p \in d.parts}
  /\ \A o \in d.bim : Supported(o)
  /\ d.properties \subseteq {"version", "qnaEnabled"}
  /\ Convertible(d.bim)
  /\ Distinct(Editable(d.bim))
  /\ Valid(BimToModelSpec(d.bim))

AdditionalParts(d) == {p \in d.parts : p.path \notin Reserved}

ParseTmslDefinition(d) ==
  [model |-> BimToModelSpec(d.bim), properties |-> d.properties, additional |-> AdditionalParts(d)]

BuildSucceeds(additional) == PartsOK(additional) /\ \A p \in additional : p.path \notin Reserved

NoAdditionalParts(additional) == {}
PreservedParts(additional) == additional

BuildTmslDefinition(m, properties, additional) ==
  [format |-> "TMSL", bim |-> ModelSpecToBim(m), properties |-> properties,
   parts |-> {[path |-> r, copy |-> 1, decodes |-> TRUE] : r \in Reserved} \cup PreservedParts(additional)]

-----------------------------------------------------------------------------
NoSnapshot == [model |-> {}, properties |-> {}, additional |-> {}]

TypeOK ==
  /\ phase \in {"idle", "read", "edited", "stored", "ended"}
  /\ result \in {"none", "refused", "unbuildable", "unreadable", "mismatch", "completed"}
  /\ {stored, before} \subseteq DefinitionShape
  /\ InSchema(snapshot.model) /\ InSchema(submitted)

Init ==
  /\ stored \in Definitions /\ before = stored
  /\ phase = "idle" /\ snapshot = NoSnapshot /\ submitted = {} /\ result = "none"

Read ==
  /\ phase = "idle"
  /\ IF ParseSucceeds(stored)
     THEN snapshot' = ParseTmslDefinition(stored) /\ phase' = "read" /\ UNCHANGED result
     ELSE phase' = "ended" /\ result' = "refused" /\ UNCHANGED snapshot
  /\ UNCHANGED <<stored, submitted, before>>

Edit ==
  /\ phase = "read"
  /\ \E m \in Changes(snapshot.model) :
       IF Valid(m)
       THEN submitted' = m /\ phase' = "edited" /\ UNCHANGED result
       ELSE phase' = "ended" /\ result' = "refused" /\ UNCHANGED submitted
  /\ UNCHANGED <<stored, snapshot, before>>

Store ==
  /\ phase = "edited"
  /\ IF BuildSucceeds(snapshot.additional)
     THEN /\ stored' = BuildTmslDefinition(submitted, snapshot.properties, snapshot.additional)
          /\ phase' = "stored" /\ UNCHANGED result
     ELSE phase' = "ended" /\ result' = "unbuildable" /\ UNCHANGED stored
  /\ UNCHANGED <<snapshot, submitted, before>>

ReadBack ==
  /\ phase = "stored" /\ phase' = "ended"
  /\ result' = IF ~ParseSucceeds(stored) THEN "unreadable"
               ELSE IF ParseTmslDefinition(stored).model # submitted THEN "mismatch" ELSE "completed"
  /\ UNCHANGED <<stored, snapshot, submitted, before>>

Next == Read \/ Edit \/ Store \/ ReadBack

Spec == Init /\ [][Next]_vars

-----------------------------------------------------------------------------
(* Every model the engine accepts survives being written and read back: no *)
(* update is stored and then reported as DEFINITION_READBACK_MISMATCH, or  *)
(* found outside the supported subset, by fault of the codec; and every    *)
(* definition that can be read can be built again.                         *)
WritesReadBack == result \notin {"unbuildable", "unreadable", "mismatch"}

(* The objects that an edit left alone, by their names: those of the same  *)
(* value in both models, in a table that is a calculated one or a group as *)
(* much as before.                                                         *)
LeftAlone(o) ==
  /\ \A p \in (snapshot.model \ submitted) \cup (submitted \ snapshot.model) : Id(p) # Id(o)
  /\ IsCalculated(o.place, snapshot.model) <=> IsCalculated(o.place, submitted)
  /\ IsGroup(o.place, snapshot.model) <=> IsGroup(o.place, submitted)
  /\ o.place = Model \/ o.place \in Tables(submitted)

(* Of these, the ones that come back as something else, or not at all; the *)
(* white space around texts apart, which a rewrite always trims.           *)
Changed == {o \in before.bim : LeftAlone(o) /\ Trimmed(o) \notin stored.bim}
Rewritten == phase = "stored" \/ result = "completed"

(* A rewrite changes only a few things that the call did not edit: the     *)
(* white space around texts, the row numbers, the level ordinals, the type *)
(* of a column that does not fit its table; and of a calculation group,    *)
(* its visibility, its partition and all of its column but tag and         *)
(* annotations.  No other object, field or type is lost.                   *)
Restored(o) ==
  \/ o.kind = "rowNumber"
  \/ o.kind = "hierarchy" /\ "ordinals" \in o.fields
  \/ o.kind \in {"data", "calculatedTableColumn"} /\ o.kind # ColumnType(o, before.bim)
  \/ IsGroup(o.place, before.bim) /\
       \/ o.kind = "table" /\ "isHidden" \in o.fields
       \/ o.kind = "groupPartition" /\ o # GroupPartition(o.place)
       \/ o.kind \in Columns /\ (o.kind # "data" \/ ~(o.fields \subseteq {"lineageTag", "annotations"}))

LossesAreKnown == Rewritten => \A o \in Changed : Restored(o)

(* README: "Definitions containing unsupported or unmapped TMSL fields     *)
(* fail closed before mutation to prevent lossy full-definition            *)
(* replacement."  No field of an object that the edit left alone is gone   *)
(* after the rewrite; row numbers, which the README lets Fabric make anew, *)
(* ordinals and the partition of a group, which the code makes, apart.     *)
NoFieldIsDropped ==
  Rewritten =>
    \A o \in Changed :
      \/ o.kind \in {"rowNumber", "groupPartition"}
      \/ \E p \in stored.bim : Id(p) = Id(o) /\ o.fields \ {"ordinals"} \subseteq p.fields

(* The properties of the definition and all parts besides model.bim are    *)
(* there after the rewrite, unchanged.                                     *)
PartsAreKept ==
  Rewritten => stored.properties = before.properties /\ AdditionalParts(stored) = AdditionalParts(before)
=============================================================================
