----------------------------- MODULE ModelEngine ----------------------------
(***************************************************************************)
(* applyModelChanges of the editing engine: a batch of typed changes to a  *)
(* copy of a model, with the dependency check before a delete or a rename, *)
(* the validation after the batch, and the semantic diff and the hash of   *)
(* the outcome.  One step is one change of the batch.                      *)
(*                                                                         *)
(* A model is a set of objects.  Names are canonical names, so spelling is *)
(* left out; so are annotations, ordinals and column metadata and their    *)
(* checks.  DAX and M text stands for the references found in it.          *)
(***************************************************************************)
EXTENDS Integers, Sequences, FiniteSets, SequencesExt

CONSTANTS
  Names,       \* canonical names
  None,        \* no name, no key
  Models,      \* models the engine is given
  Changes,     \* changes a caller may ask for
  MaxChanges   \* bound on the length of a batch

VARIABLES
  original,   \* the caller's model, normalized
  working,    \* the engine's copy
  applied,    \* changes applied so far
  outcome,    \* "start", "open", "accepted" or the error thrown
  movesOnly,  \* history: the batch has had only deletes and renames
  waived      \* history: the references they left to the author, see Waived

vars == <<original, working, applied, outcome, movesOnly, waived>>

-----------------------------------------------------------------------------
(* An object: its key; the references in it; the rest of its content, which*)
(* is the column's name for a calculation group; the order of a group's    *)
(* items; and, as history, the key it had in the original model.           *)
TableParts == {"column", "partition", "measure", "hierarchy"}
Types ==
  TableParts \cup {"table", "data_source", "expression", "relationship", "role",
                   "calculation_group", "calculation_item"}

Keys == [type: Types, parent: Names \cup {None}, name: Names]
Key(o) == [type |-> o.type, parent |-> o.parent, name |-> o.name]

PartOf(o, k) ==
  /\ o.parent = k.name
  /\ \/ k.type = "table" /\ o.type \in TableParts
     \/ k.type = "calculation_group" /\ o.type = "calculation_item"

Find(model, k) == {o \in model : Key(o) = k}
Family(model, k) == {o \in model : Key(o) = k \/ PartOf(o, k)}
Named(model, type, name) == {o \in model : o.type = type /\ o.name = name}

(* The references: of a query partition to its data source, of an entity   *)
(* partition to its expression, of M text to an expression by its quoted   *)
(* name, of a column to the one it sorts by, of a hierarchy to the columns *)
(* of its levels, of a relationship to its ends, of a role to the tables   *)
(* it filters, and those of DAX text.                                      *)
Dax == {"table", "qualified", "unqualified"}
RefKinds == {"source", "entity", "quoted", "sort", "level", "endpoint", "permission"} \cup Dax
References ==
  [kind: RefKinds, owner: Names \cup {None}, table: Names \cup {None}, name: Names \cup {None}]

(* What the schema of each kind of object has room for.                    *)
Objects ==
  {o \in [type: Types, parent: Names \cup {None}, name: Names, refs: SUBSET References,
          detail: Names \cup {None}, order: Seq(Names), was: Keys \cup {None}] :
     /\ o.parent # None <=> o.type \in TableParts \cup {"calculation_item"}
     /\ \A r \in o.refs :
          /\ r.kind = "sort" => o.type = "column"
          /\ r.kind = "level" => o.type = "hierarchy"
          /\ o.type = "role" /\ r.kind \in Dax =>
               \E permission \in o.refs : permission.kind = "permission" /\ permission.table = r.owner}

(* The order of a group names each of its items once.                      *)
ItemNames(model, group) == {o.name : o \in {b \in model : PartOf(b, Key(group))}}
OrdersOK(model) ==
  \A o \in model : o.type = "calculation_group" =>
    /\ Range(o.order) = ItemNames(model, o)
    /\ IsInjective(o.order)

ParentsThere(model) == \A o \in model : o.parent # None => \E b \in model : PartOf(o, Key(b))
KeysUnique(model) == \A o \in model : \A b \in model : Key(o) = Key(b) => o = b

ASSUME NamesAssumption == None \notin Names
ASSUME BoundAssumption == MaxChanges \in Nat
ASSUME ModelsAssumption ==
  \A model \in Models : model \in SUBSET Objects /\ ParentsThere(model) /\ OrdersOK(model)

(* The value of a create or an update is an object of the target's kind    *)
(* and parent with its parts.  One with two parts of the same name is left *)
(* out: a set of keys cannot tell them apart.                              *)
ASSUME ChangesAssumption ==
  \A change \in Changes :
    /\ change.target \in Keys
    /\ change.action \in {"create", "update", "delete", "rename"}
    /\ change.action = "rename" => change.newName \in Names
    /\ change.action \in {"create", "update"} =>
         /\ change.value \in SUBSET Objects
         /\ OrdersOK(change.value)
         /\ KeysUnique(change.value)
         /\ \E root \in change.value :
              /\ root.type = change.target.type /\ root.parent = change.target.parent
              /\ \A o \in change.value \ {root} : PartOf(o, Key(root))

(* The table in whose context a DAX expression stands.                     *)
OwnerTable(o, r) == IF o.type = "role" THEN r.owner ELSE o.parent

-----------------------------------------------------------------------------
(* findModelReferences: does the reference r in o stand in the way of a    *)
(* delete or a rename of t?                                                *)
Itself(o, r, t) == o.type # "role" /\ OwnerTable(o, r) = t.parent /\ o.name = t.name

RefersToSource(o, r, t) ==
  t.type = "data_source" /\ r.kind = "source" /\ r.name = t.name

RefersToExpression(o, r, t) ==
  /\ t.type = "expression"
  /\ r.name = t.name
  /\ \/ r.kind = "entity"
     \/ r.kind = "quoted" /\ ~(o.type = "expression" /\ o.name = t.name)

RefersToTable(o, r, t) ==
  /\ r.table = t.name
  /\ \/ t.type = "table" /\ r.kind \in {"endpoint", "permission"}
     \/ /\ t.type \in {"table", "calculation_group"}
        /\ r.kind \in Dax
        /\ OwnerTable(o, r) # t.name

RefersToColumn(o, r, t) ==
  /\ t.type = "column"
  /\ r.name = t.name
  /\ \/ r.kind = "sort" /\ o.parent = t.parent /\ o.name # t.name
     \/ r.kind = "level" /\ o.parent = t.parent
     \/ r.kind = "endpoint" /\ r.table = t.parent
     \/ r.kind = "qualified" /\ r.table = t.parent /\ ~Itself(o, r, t)
     \/ r.kind = "unqualified" /\ OwnerTable(o, r) = t.parent /\ ~Itself(o, r, t)

QualifiedMeasuresOnly(o, r, t) ==
  /\ t.type = "measure"
  /\ r.name = t.name
  /\ r.kind = "qualified" /\ r.table = t.parent
  /\ ~Itself(o, r, t)
RefersToMeasure(o, r, t) ==
  /\ t.type = "measure"
  /\ r.name = t.name
  /\ r.kind = "unqualified" \/ (r.kind = "qualified" /\ r.table = t.parent)
  /\ ~Itself(o, r, t)

Refers(o, r, t) ==
  \/ RefersToSource(o, r, t) \/ RefersToExpression(o, r, t) \/ RefersToTable(o, r, t)
  \/ RefersToColumn(o, r, t) \/ RefersToMeasure(o, r, t)

Referenced(model, t) == \E o \in model : \E r \in o.refs : Refers(o, r, t)

-----------------------------------------------------------------------------
(* validateModelSpec: which objects a reference may denote.                *)
Denotes(o, r, b) ==
  CASE r.kind = "source" -> b.type = "data_source" /\ b.name = r.name
    [] r.kind \in {"entity", "quoted"} -> b.type = "expression" /\ b.name = r.name
    [] r.kind \in {"sort", "level"} -> b.type = "column" /\ b.parent = o.parent /\ b.name = r.name
    [] r.kind = "endpoint" -> b.type = "column" /\ b.parent = r.table /\ b.name = r.name
    [] r.kind = "permission" -> b.type = "table" /\ b.name = r.table
    [] r.kind = "table" -> b.type \in {"table", "calculation_group"} /\ b.name = r.table
    [] r.kind = "qualified" ->
         \/ b.type \in {"column", "measure"} /\ b.parent = r.table /\ b.name = r.name
         \/ b.type = "calculation_group" /\ b.name = r.table /\ b.detail = r.name
    [] r.kind = "unqualified" ->
         \/ b.type = "measure" /\ b.name = r.name
         \/ /\ o.type \in {"column", "role"}
            /\ b.type = "column" /\ b.parent = OwnerTable(o, r) /\ b.name = r.name

Denoted(model, o, r) == {b \in model : Denotes(o, r, b)}

(* M text is not validated; a column sorts by another column; the ends of  *)
(* a relationship differ.                                                  *)
ReferenceOK(model, o, r) ==
  /\ r.kind # "quoted" => Denoted(model, o, r) # {}
  /\ r.kind = "sort" => r.name # o.name
EndsDiffer(o) == o.type = "relationship" => Cardinality(o.refs) = 2

(* Unique names; of the other duplicates a set of objects has none.        *)
NamesUnique(model) ==
  /\ KeysUnique(model)
  /\ \A o \in model : \A b \in model :
       o.type = "measure" /\ b.type = "measure" /\ o.name = b.name => o = b
  /\ \A o \in model : \A b \in model :
       ~(o.type = "table" /\ b.type = "calculation_group" /\ o.name = b.name)

(* validateMeasureCycles, by what MeasureCycles shows of it.               *)
DependsOn(o, b) ==
  \E r \in o.refs : r.kind \in {"qualified", "unqualified"} /\ b.type = "measure" /\ Denotes(o, r, b)
NoCircularMeasures(model) ==
  \A S \in SUBSET {o \in model : o.type = "measure"} :
    S # {} => \E o \in S : \A b \in S : ~DependsOn(o, b)

(* The minimum sizes of the schema.                                        *)
SizesOK(model) ==
  /\ \E o \in model : o.type = "table"
  /\ \A o \in model : o.type = "calculation_group" => \E b \in model : PartOf(b, Key(o))

Valid(model) ==
  /\ SizesOK(model)
  /\ NamesUnique(model)
  /\ \A o \in model : EndsDiffer(o) /\ \A r \in o.refs : ReferenceOK(model, o, r)
  /\ NoCircularMeasures(model)

-----------------------------------------------------------------------------
(* indexModel: what the diff knows of an object; and what the hash adds.   *)
Indexed(o) == [key |-> Key(o), refs |-> o.refs, detail |-> o.detail]
Hashed(o) == [index |-> Indexed(o), order |-> o.order]

HasChanges(before, after) == {Indexed(o) : o \in before} # {Indexed(o) : o \in after}
SameHash(before, after) == {Hashed(o) : o \in before} = {Hashed(o) : o \in after}

-----------------------------------------------------------------------------
Init ==
  /\ original \in Models
  /\ working = {}
  /\ applied = 0
  /\ outcome = "start"
  /\ movesOnly = TRUE
  /\ waived = {}

(* normalizeModelSpec of the input, and the isolated copy.                 *)
Begin ==
  /\ outcome = "start"
  /\ IF Valid(original)
       THEN /\ outcome' = "open"
            /\ working' = {[o EXCEPT !.was = Key(o)] : o \in original}
       ELSE outcome' = "invalid" /\ UNCHANGED working
  /\ UNCHANGED <<original, applied, movesOnly, waived>>

(* Where a change has to find its target's parent.                         *)
ParentThere(k) ==
  CASE k.type \in TableParts -> Named(working, "table", k.parent) # {}
    [] k.type = "calculation_item" -> Named(working, "calculation_group", k.parent) # {}
    [] OTHER -> TRUE
There(k) == Find(working, k) # {}

(* A group's items keep their order: a new one comes last.                 *)
HoldsItem(o, k) == k.type = "calculation_item" /\ o.type = "calculation_group" /\ o.name = k.parent
WithItem(o, k) ==
  IF HoldsItem(o, k) THEN [o EXCEPT !.order = Append(@, k.name)] ELSE o
Position(order, name) == CHOOSE i \in DOMAIN order : order[i] = name
WithoutItem(o, k) ==
  IF HoldsItem(o, k) THEN [o EXCEPT !.order = RemoveAt(@, Position(@, k.name))] ELSE o

(* What the dependency check leaves to the author of a batch: a reference  *)
(* o makes to an object b that goes, or gets another name, with k.  It may *)
(* be to o itself, or to what has o's name in o's table; by the name of    *)
(* its own table; or by bare name to a measure of a table that is deleted. *)
LeftToAuthor(o, r, b, k, action) ==
  \/ Key(b) = k /\ Itself(o, r, k)
  \/ k.type \in {"table", "calculation_group"} /\ r.kind \in Dax /\ r.table = k.name /\ OwnerTable(o, r) = k.name
  \/ action = "delete" /\ k.type = "table" /\ r.kind = "unqualified" /\ b.type = "measure"

(* Such references of what is in the model, with what they referred to.    *)
Waived(k, action) ==
  UNION {UNION {{<<o.was, r, b.was>> :
                   b \in {b \in Family(working, k) : Denotes(o, r, b) /\ LeftToAuthor(o, r, b, k, action)}} :
                r \in o.refs} :
         o \in working}

Apply(model) ==
  /\ working' = model
  /\ applied' = applied + 1
  /\ UNCHANGED <<original, outcome>>
Put(model) == Apply(model) /\ movesOnly' = FALSE /\ UNCHANGED waived
Move(model, k, action) == Apply(model) /\ waived' = waived \cup Waived(k, action) /\ UNCHANGED movesOnly

Fail(error) ==
  /\ outcome' = error
  /\ UNCHANGED <<original, working, applied, movesOnly, waived>>

(* The value of a create or an update is an object with its parts.         *)
Create(change) ==
  LET k == change.target IN
  /\ change.action = "create"
  /\ IF There(k) THEN Fail("duplicate")
     ELSE IF Find(change.value, k) = {} THEN Fail("mismatch")
     ELSE Put({WithItem(o, k) : o \in working} \cup change.value)

Update(change) ==
  LET k == change.target IN
  /\ change.action = "update"
  /\ IF ~There(k) THEN Fail("missing")
     ELSE IF Find(change.value, k) = {} THEN Fail("mismatch")
     ELSE Put((working \ Family(working, k)) \cup change.value)

Delete(change) ==
  LET k == change.target IN
  /\ change.action = "delete"
  /\ IF ~There(k) THEN Fail("missing")
     ELSE IF Referenced(working, k) THEN Fail("conflict")
     ELSE Move({WithoutItem(o, k) : o \in working \ Family(working, k)}, k, change.action)

(* A group may not take the name of a table either.                        *)
NameTaken(k, name) ==
  \/ There([k EXCEPT !.name = name])
  \/ k.type = "calculation_group" /\ There([k EXCEPT !.type = "table", !.name = name])

RenamedAlone(o, k, name) == IF Key(o) = k THEN [o EXCEPT !.name = name] ELSE o
Renamed(o, k, name) ==
  CASE Key(o) = k -> [o EXCEPT !.name = name]
    [] PartOf(o, k) -> [o EXCEPT !.parent = name]
    [] HoldsItem(o, k) -> [o EXCEPT !.order = ReplaceAll(@, k.name, name)]
    [] OTHER -> o

Rename(change) ==
  LET k == change.target IN
  /\ change.action = "rename"
  /\ IF ~There(k) THEN Fail("missing")
     ELSE IF NameTaken(k, change.newName) THEN Fail("duplicate")
     ELSE IF Referenced(working, k) THEN Fail("conflict")
     ELSE Move({Renamed(o, k, change.newName) : o \in working}, k, change.action)

Change ==
  /\ outcome = "open"
  /\ applied < MaxChanges
  /\ \E change \in Changes :
       IF ParentThere(change.target)
         THEN Create(change) \/ Update(change) \/ Delete(change) \/ Rename(change)
         ELSE Fail("noParent")

(* The end of the batch: the copy is validated as a whole.                 *)
Finish ==
  /\ outcome = "open"
  /\ outcome' = IF Valid(working) THEN "accepted" ELSE "invalid"
  /\ UNCHANGED <<original, working, applied, movesOnly, waived>>

Next == Begin \/ Change \/ Finish

Spec == Init /\ [][Next]_vars

-----------------------------------------------------------------------------
(* The copy stays a model that the next change can be looked up in: every  *)
(* part has its parent, a group's order lists its items, and no two        *)
(* objects have the same key.                                              *)
TypeOK ==
  /\ original \in Models
  /\ applied \in 0..MaxChanges
  /\ outcome \in {"start", "open", "accepted", "duplicate", "missing", "noParent",
                  "mismatch", "conflict", "invalid"}
  /\ movesOnly \in BOOLEAN
  /\ working \in SUBSET Objects
  /\ ParentsThere(working)
  /\ OrdersOK(working)
  /\ KeysUnique(working)

(* The object of the original model that o is; o may have been renamed.    *)
Origin(o) == CHOOSE p \in original : Key(p) = o.was
StillDenotes(o, r, k) == \E now \in Denoted(working, o, r) : now.was = k

(* However many deletes and renames a batch strings together, a name given  *)
(* up by one and taken by the next included, every reference left in the    *)
(* model still denotes the object that it denoted before the batch, unless  *)
(* one of them was let through in spite of it.                              *)
BindingsKept ==
  movesOnly =>
    \A o \in working : \A r \in o.refs : \A b \in Denoted(original, Origin(o), r) :
      <<o.was, r, Key(b)>> \in waived \/ StillDenotes(o, r, Key(b))

(* tests/unit/model/normalize-diff.test.ts:12: normalization "sorts         *)
(* set-like collections but preserves semantic sequence".  A batch that     *)
(* changes the model, by the hash, is one the semantic diff shows.          *)
DiffShowsEveryChange ==
  outcome = "accepted" /\ ~SameHash(original, working) => HasChanges(original, working)
=============================================================================
