-------------------------- MODULE ModelEngineProofs --------------------------
(***************************************************************************)
(* For any models and changes: a batch leaves a model that can be looked   *)
(* up in, and rebinds no reference that its dependency checks have not     *)
(* left to the author.  For any measures and expressions: the search for   *)
(* cycles of the final validation enters no measure twice, reports only    *)
(* measures on a cycle, and decides whether a model has circular measures. *)
(***************************************************************************)
EXTENDS ModelEngine, MeasureCycles, SequenceTheorems, TLAPS

(* What a change can be looked up in.                                      *)
Tree(model) ==
  /\ model \in SUBSET Objects
  /\ ParentsThere(model)
  /\ OrdersOK(model)
  /\ KeysUnique(model)

(* Both are needed: a dependency check says something of the references in *)
(* the model only if parts stand below their parents and keys are unique.  *)
Inv == TypeOK /\ BindingsKept

-----------------------------------------------------------------------------
(* The order of a group's items.                                           *)
LEMMA AppendName ==
  ASSUME NEW s \in Seq(Names), IsInjective(s), NEW n \in Names, n \notin Range(s)
  PROVE  /\ Append(s, n) \in Seq(Names)
         /\ Range(Append(s, n)) = Range(s) \cup {n}
         /\ IsInjective(Append(s, n))
<1>1. /\ Append(s, n) \in Seq(Names)
      /\ Len(Append(s, n)) = Len(s) + 1
      /\ \A i \in 1..Len(s) : Append(s, n)[i] = s[i]
      /\ Append(s, n)[Len(s) + 1] = n
  OBVIOUS
<1>2. DOMAIN s = 1..Len(s) /\ Len(s) \in Nat /\ DOMAIN Append(s, n) = 1..(Len(s) + 1)
  BY <1>1
<1> DEFINE t == Append(s, n)
<1> HIDE DEF t
<1>3. /\ t \in Seq(Names) /\ DOMAIN t = 1..(Len(s) + 1)
      /\ \A i \in 1..Len(s) : t[i] = s[i]
      /\ t[Len(s) + 1] = n
  BY <1>1, <1>2 DEF t
<1>4. Range(t) = Range(s) \cup {n}
  <2>1. ASSUME NEW x \in Range(t) PROVE x \in Range(s) \cup {n}
    BY <1>2, <1>3 DEF Range
  <2>2. Range(s) \subseteq Range(t)
    BY <1>2, <1>3 DEF Range
  <2>3. n \in Range(t)
    BY <1>2, <1>3 DEF Range
  <2> QED
    BY <2>1, <2>2, <2>3
<1>5. IsInjective(t)
  <2> SUFFICES ASSUME NEW i \in 1..(Len(s) + 1), NEW j \in 1..(Len(s) + 1), t[i] = t[j] PROVE i = j
    BY <1>3 DEF IsInjective
  <2>1. \A a \in 1..Len(s) : s[a] # n
    BY <1>2 DEF Range
  <2>2. CASE i \in 1..Len(s) /\ j \in 1..Len(s)
    BY <1>2, <1>3, <2>2 DEF IsInjective
  <2>3. CASE ~(i \in 1..Len(s) /\ j \in 1..Len(s))
    BY <1>2, <1>3, <2>1, <2>3
  <2> QED
    BY <2>2, <2>3
<1> QED
  BY <1>3, <1>4, <1>5 DEF t

(* Without one of them, the others are there once each, in place.          *)
LEMMA RemoveName ==
  ASSUME NEW s \in Seq(Names), IsInjective(s), NEW n \in Range(s)
  PROVE  /\ RemoveAt(s, Position(s, n)) \in Seq(Names)
         /\ Range(RemoveAt(s, Position(s, n))) = Range(s) \ {n}
         /\ IsInjective(RemoveAt(s, Position(s, n)))
<1> DEFINE p == Position(s, n)
           a == SubSeq(s, 1, p - 1)
           c == SubSeq(s, p + 1, Len(s))
           t == a \o c
<1>1. DOMAIN s = 1..Len(s) /\ Len(s) \in Nat
  OBVIOUS
<1>2. p \in 1..Len(s) /\ s[p] = n
  BY <1>1 DEF Range, Position
<1> HIDE DEF p
<1>3. /\ a \in Seq(Names) /\ Len(a) = p - 1
      /\ \A i \in 1..(p - 1) : a[i] = s[i]
  <2>1. \A i \in 1..(p - 1) : s[i] \in Names
    BY <1>2
  <2>2. 1 \in Int /\ p - 1 \in Int
    BY <1>2
  <2>3. /\ a \in Seq(Names)
        /\ Len(a) = IF 1 <= p - 1 THEN p - 1 - 1 + 1 ELSE 0
        /\ \A i \in 1..(p - 1 - 1 + 1) : a[i] = s[1 + i - 1]
    BY <2>1, <2>2, SubSeqProperties
  <2> HIDE DEF a
  <2> QED
    BY <1>2, <2>3
<1>4. /\ c \in Seq(Names) /\ Len(c) = Len(s) - p
      /\ \A i \in 1..(Len(s) - p) : c[i] = s[p + i]
  <2>1. \A i \in (p + 1)..Len(s) : s[i] \in Names
    BY <1>2
  <2>2. p + 1 \in Int /\ Len(s) \in Int
    BY <1>2
  <2>3. /\ c \in Seq(Names)
        /\ Len(c) = IF p + 1 <= Len(s) THEN Len(s) - (p + 1) + 1 ELSE 0
        /\ \A i \in 1..(Len(s) - (p + 1) + 1) : c[i] = s[p + 1 + i - 1]
    BY <2>1, <2>2, SubSeqProperties
  <2> HIDE DEF c
  <2> QED
    BY <1>2, <2>3
<1> HIDE DEF a, c
<1>5. /\ t \in Seq(Names) /\ Len(t) = Len(a) + Len(c)
      /\ \A i \in 1..(Len(a) + Len(c)) : t[i] = IF i <= Len(a) THEN a[i] ELSE c[i - Len(a)]
  BY <1>3, <1>4, ConcatProperties
<1> HIDE DEF t
<1>6. /\ t \in Seq(Names) /\ DOMAIN t = 1..(Len(s) - 1)
      /\ \A i \in 1..(Len(s) - 1) : t[i] = IF i < p THEN s[i] ELSE s[i + 1]
  <2>1. Len(t) = Len(s) - 1
    BY <1>1, <1>2, <1>3, <1>4, <1>5
  <2>2. ASSUME NEW i \in 1..(Len(s) - 1) PROVE t[i] = IF i < p THEN s[i] ELSE s[i + 1]
    <3>1. CASE i < p
      <4>1. i \in 1..(p - 1) /\ i <= Len(a)
        BY <1>2, <1>3, <3>1
      <4>2. i \in 1..(Len(a) + Len(c))
        BY <1>1, <1>2, <1>3, <1>4
      <4>3. t[i] = a[i]
        BY <1>5, <4>1, <4>2
      <4> QED
        BY <1>3, <3>1, <4>1, <4>3
    <3>2. CASE ~(i < p)
      <4>1. i - (p - 1) \in 1..(Len(s) - p)
        BY <1>1, <1>2, <3>2
      <4>2. t[i] = c[i - (p - 1)]
        BY <1>1, <1>2, <1>3, <1>4, <1>5, <3>2
      <4>3. c[i - (p - 1)] = s[p + (i - (p - 1))]
        BY <1>4, <4>1
      <4>4. p + (i - (p - 1)) = i + 1
        BY <1>2
      <4> QED
        BY <3>2, <4>2, <4>3, <4>4
    <3> QED
      BY <3>1, <3>2
  <2> QED
    BY <1>5, <2>1, <2>2
<1>7. Range(t) = Range(s) \ {n}
  <2>1. ASSUME NEW i \in 1..(Len(s) - 1) PROVE t[i] \in Range(s) \ {n}
    <3>1. i \in 1..Len(s) /\ i + 1 \in 1..Len(s)
      BY <1>1
    <3>2. CASE i < p
      <4>1. t[i] = s[i] /\ i # p
        BY <1>2, <1>6, <3>2
      <4>2. s[i] # s[p]
        BY <1>1, <1>2, <3>1, <4>1 DEF IsInjective
      <4> QED
        BY <1>1, <1>2, <3>1, <4>1, <4>2 DEF Range
    <3>3. CASE ~(i < p)
      <4>1. i + 1 # p
        BY <1>2, <3>3
      <4> QED
        BY <1>1, <1>2, <1>6, <3>1, <3>3, <4>1 DEF Range, IsInjective
    <3> QED
      BY <3>2, <3>3
  <2>2. ASSUME NEW i \in 1..Len(s), s[i] # n PROVE s[i] \in Range(t)
    <3>1. CASE i < p
      <4>1. i \in 1..(Len(s) - 1) /\ t[i] = s[i]
        BY <1>1, <1>2, <1>6, <3>1
      <4> QED
        BY <1>6, <4>1 DEF Range
    <3>2. CASE ~(i < p)
      <4>1. i # p
        BY <1>2, <2>2
      <4>2. i - 1 \in 1..(Len(s) - 1) /\ ~(i - 1 < p) /\ (i - 1) + 1 = i
        BY <1>1, <1>2, <3>2, <4>1
      <4>3. t[i - 1] = s[i]
        BY <1>6, <4>2
      <4> QED
        BY <1>6, <4>2, <4>3 DEF Range
    <3> QED
      BY <3>1, <3>2
  <2> QED
    BY <1>1, <1>6, <2>1, <2>2 DEF Range
<1>8. IsInjective(t)
  <2> SUFFICES ASSUME NEW i \in 1..(Len(s) - 1), NEW j \in 1..(Len(s) - 1), t[i] = t[j] PROVE i = j
    BY <1>6 DEF IsInjective
  <2>1. i \in 1..Len(s) /\ i + 1 \in 1..Len(s) /\ j \in 1..Len(s) /\ j + 1 \in 1..Len(s)
    BY <1>1
  <2>2. CASE i < p /\ j < p
    BY <1>1, <1>6, <2>1, <2>2 DEF IsInjective
  <2>3. CASE i < p /\ ~(j < p)
    <3>1. s[i] = s[j + 1]
      BY <1>6, <2>3
    <3> QED
      BY <1>1, <1>2, <2>1, <2>3, <3>1 DEF IsInjective
  <2>4. CASE ~(i < p) /\ j < p
    <3>1. s[i + 1] = s[j]
      BY <1>6, <2>4
    <3> QED
      BY <1>1, <1>2, <2>1, <2>4, <3>1 DEF IsInjective
  <2>5. CASE ~(i < p) /\ ~(j < p)
    <3>1. s[i + 1] = s[j + 1]
      BY <1>6, <2>5
    <3>2. i + 1 = j + 1
      BY <1>1, <2>1, <3>1 DEF IsInjective
    <3> QED
      BY <3>2
  <2> QED
    BY <2>2, <2>3, <2>4, <2>5
<1> QED
  BY <1>6, <1>7, <1>8 DEF RemoveAt, t, a, c, p

(* A new name in the place of an old one.                                  *)
LEMMA ReplaceName ==
  ASSUME NEW s \in Seq(Names), IsInjective(s), NEW old \in Names, NEW new \in Names,
         new \notin Range(s)
  PROVE  /\ ReplaceAll(s, old, new) \in Seq(Names)
         /\ Range(ReplaceAll(s, old, new)) = {IF x = old THEN new ELSE x : x \in Range(s)}
         /\ IsInjective(ReplaceAll(s, old, new))
<1> DEFINE t == ReplaceAll(s, old, new)
<1>1. DOMAIN s = 1..Len(s) /\ Len(s) \in Nat /\ \A i \in 1..Len(s) : s[i] \in Names
  OBVIOUS
<1>2. /\ DOMAIN t = 1..Len(s)
      /\ \A i \in 1..Len(s) : t[i] = IF s[i] = old THEN new ELSE s[i]
  BY DEF ReplaceAll
<1>3. t \in Seq(Names)
  BY <1>1 DEF ReplaceAll
<1> HIDE DEF t
<1>4. Range(t) = {IF x = old THEN new ELSE x : x \in Range(s)}
  BY <1>1, <1>2 DEF Range
<1>5. \A i \in 1..Len(s) : s[i] # new
  BY <1>1 DEF Range
<1>6. IsInjective(t)
  BY <1>1, <1>2, <1>5 DEF IsInjective
<1> QED
  BY <1>3, <1>4, <1>6 DEF t

-----------------------------------------------------------------------------
(* Objects with one field changed.                                         *)
LEMMA Fields ==
  ASSUME NEW o \in Objects
  PROVE  /\ o \in [type: Types, parent: Names \cup {None}, name: Names, refs: SUBSET References,
                   detail: Names \cup {None}, order: Seq(Names), was: Keys \cup {None}]
         /\ o.type \in Types /\ o.name \in Names /\ o.parent \in Names \cup {None}
         /\ o.refs \in SUBSET References /\ o.order \in Seq(Names) /\ o.was \in Keys \cup {None}
         /\ o.parent # None <=> o.type \in TableParts \cup {"calculation_item"}
         /\ \A r \in o.refs :
              /\ r.kind = "sort" => o.type = "column"
              /\ r.kind = "level" => o.type = "hierarchy"
              /\ o.type = "role" /\ r.kind \in Dax =>
                   \E permission \in o.refs : permission.kind = "permission" /\ permission.table = r.owner
         /\ Key(o) \in Keys
  BY DEF Objects, Key, Keys

(* One with another name.                                                  *)
LEMMA NewName ==
  ASSUME NEW o \in Objects, NEW n \in Names
  PROVE  LET p == [o EXCEPT !.name = n] IN
           /\ p \in Objects
           /\ p.name = n
           /\ p.type = o.type /\ p.parent = o.parent /\ p.refs = o.refs /\ p.detail = o.detail
           /\ p.order = o.order /\ p.was = o.was
  BY Fields DEF Objects

(* A part with another parent.                                             *)
LEMMA NewParent ==
  ASSUME NEW o \in Objects, o.parent # None, NEW n \in Names
  PROVE  LET p == [o EXCEPT !.parent = n] IN
           /\ p \in Objects
           /\ p.parent = n
           /\ p.type = o.type /\ p.name = o.name /\ p.refs = o.refs /\ p.detail = o.detail
           /\ p.order = o.order /\ p.was = o.was
  BY Fields, NamesAssumption DEF Objects

(* A group with another order.                                             *)
LEMMA NewOrder ==
  ASSUME NEW o \in Objects, NEW s \in Seq(Names)
  PROVE  LET p == [o EXCEPT !.order = s] IN
           /\ p \in Objects
           /\ p.order = s
           /\ p.type = o.type /\ p.name = o.name /\ p.parent = o.parent /\ p.refs = o.refs
           /\ p.detail = o.detail /\ p.was = o.was
  BY Fields DEF Objects

(* An object that remembers its key.                                       *)
LEMMA WithOrigin ==
  ASSUME NEW o \in Objects
  PROVE  LET p == [o EXCEPT !.was = Key(o)] IN
           /\ p \in Objects
           /\ p.was = Key(o)
           /\ p.type = o.type /\ p.name = o.name /\ p.parent = o.parent /\ p.refs = o.refs
           /\ p.detail = o.detail /\ p.order = o.order
  BY Fields DEF Objects

-----------------------------------------------------------------------------
(* Keys, parts and items.                                                  *)
LEMMA SameKey ==
  ASSUME NEW o, NEW b
  PROVE  Key(o) = Key(b) <=> o.type = b.type /\ o.parent = b.parent /\ o.name = b.name
  BY DEF Key

(* An object has a key when its fields are those of the key.               *)
LEMMA KeyFields ==
  ASSUME NEW o, NEW k \in Keys
  PROVE  /\ Key(o) = k <=> o.type = k.type /\ o.parent = k.parent /\ o.name = k.name
         /\ k.type \in Types /\ k.parent \in Names \cup {None} /\ k.name \in Names
  BY DEF Key, Keys

(* A part is below a table or group of its parent name.                    *)
LEMMA PartFields ==
  ASSUME NEW o, NEW b
  PROVE  PartOf(o, Key(b)) <=>
           /\ o.parent = b.name
           /\ \/ b.type = "table" /\ o.type \in TableParts
              \/ b.type = "calculation_group" /\ o.type = "calculation_item"
  BY DEF PartOf, Key

(* The items of a group, by name.                                          *)
LEMMA GroupItems ==
  ASSUME NEW model, NEW group, group.type = "calculation_group"
  PROVE  \A x : x \in ItemNames(model, group) <=>
           \E o \in model : o.type = "calculation_item" /\ o.parent = group.name /\ o.name = x
  BY PartFields DEF ItemNames

(* A part's table or group is the only object of that name and type.       *)
LEMMA ParentKey ==
  ASSUME NEW model, Tree(model), NEW o \in model, NEW b \in model, NEW k \in Keys,
         PartOf(o, Key(b)), PartOf(o, k), k.parent = None
  PROVE  Key(b) = k
<1>1. b \in Objects
  BY DEF Tree
<1>2. b.type = k.type /\ b.name = k.name
  BY PartFields DEF PartOf, TableParts
<1>3. b.parent = None
  BY <1>1, Fields, PartFields DEF TableParts
<1> QED
  BY <1>2, <1>3, KeyFields

(* The copy the engine works on.                                           *)
LEMMA BeginTree ==
  ASSUME NEW model \in Models, KeysUnique(model)
  PROVE  Tree({[o EXCEPT !.was = Key(o)] : o \in model})
<1> DEFINE W(o) == [o EXCEPT !.was = Key(o)]
           m == {W(o) : o \in model}
<1>1. model \in SUBSET Objects /\ ParentsThere(model) /\ OrdersOK(model)
  BY ModelsAssumption
<1>2. \A o \in model :
        /\ W(o) \in Objects
        /\ W(o).type = o.type /\ W(o).name = o.name /\ W(o).parent = o.parent /\ W(o).order = o.order
  BY <1>1, WithOrigin
<1> HIDE DEF W
<1>3. ParentsThere(m)
  BY <1>2, <1>1, PartFields DEF ParentsThere
<1>4. OrdersOK(m)
  <2> SUFFICES ASSUME NEW o \in model, o.type = "calculation_group"
               PROVE  Range(W(o).order) = ItemNames(m, W(o)) /\ IsInjective(W(o).order)
    BY <1>2 DEF OrdersOK
  <2>1. Range(o.order) = ItemNames(model, o) /\ IsInjective(o.order)
    BY <1>1 DEF OrdersOK
  <2>2. \A x : x \in ItemNames(m, W(o)) <=> x \in ItemNames(model, o)
    <3>1. W(o).type = "calculation_group" /\ W(o).name = o.name
      BY <1>2
    <3>2. ASSUME NEW x
          PROVE  (\E b \in m : b.type = "calculation_item" /\ b.parent = o.name /\ b.name = x)
                   <=> \E b \in model : b.type = "calculation_item" /\ b.parent = o.name /\ b.name = x
      BY <1>2
    <3> QED
      BY <3>1, <3>2, GroupItems
  <2> QED
    BY <1>2, <2>1, <2>2
<1>5. KeysUnique(m)
  BY <1>2, SameKey DEF KeysUnique
<1> QED
  BY <1>2, <1>3, <1>4, <1>5 DEF Tree, W

(* The value of a create or an update is the target with its parts.        *)
LEMMA ValueRoot ==
  ASSUME NEW change \in Changes, change.action \in {"create", "update"},
         Find(change.value, change.target) # {}
  PROVE  /\ change.target \in Keys
         /\ change.value \in SUBSET Objects /\ OrdersOK(change.value) /\ KeysUnique(change.value)
         /\ \E root \in change.value :
              /\ Key(root) = change.target
              /\ \A o \in change.value \ {root} : PartOf(o, change.target)
<1>1. /\ change.target \in Keys
      /\ change.value \in SUBSET Objects /\ OrdersOK(change.value) /\ KeysUnique(change.value)
  BY ChangesAssumption
<1>2. PICK root \in change.value :
        /\ root.type = change.target.type /\ root.parent = change.target.parent
        /\ \A o \in change.value \ {root} : PartOf(o, Key(root))
  BY ChangesAssumption
<1>3. PICK v \in change.value : Key(v) = change.target
  BY DEF Find
<1>4. v.type = root.type
  BY <1>1, <1>2, <1>3, KeyFields
<1>5. v = root
  BY <1>2, <1>4, PartFields DEF TableParts
<1> QED
  BY <1>1, <1>2, <1>3, <1>5

(* What one more item does to the objects.                                 *)
LEMMA WithItemFields ==
  ASSUME Tree(working), NEW k \in Keys, ~There(k), NEW o \in working
  PROVE  LET p == WithItem(o, k) IN
           /\ p \in Objects
           /\ p.type = o.type /\ p.name = o.name /\ p.parent = o.parent
           /\ ~HoldsItem(o, k) => p.order = o.order
           /\ HoldsItem(o, k) =>
                Range(p.order) = ItemNames(working, o) \cup {k.name} /\ IsInjective(p.order)
           /\ o.type = "calculation_group" /\ ~HoldsItem(o, k) =>
                Range(p.order) = ItemNames(working, o) /\ IsInjective(p.order)
<1>1. o \in Objects /\ k.name \in Names
  BY KeyFields DEF Tree
<1>2. CASE ~HoldsItem(o, k)
  BY <1>1, <1>2 DEF WithItem, Tree, OrdersOK
<1>3. CASE HoldsItem(o, k)
  <2>1. o.type = "calculation_group" /\ o.name = k.parent /\ k.type = "calculation_item"
    BY <1>3 DEF HoldsItem
  <2>2. Range(o.order) = ItemNames(working, o) /\ IsInjective(o.order)
    BY <2>1 DEF Tree, OrdersOK
  <2>3. k.name \notin ItemNames(working, o)
    BY <2>1, GroupItems, KeyFields DEF There, Find
  <2>4. o.order \in Seq(Names)
    BY <1>1, Fields
  <2> DEFINE s == Append(o.order, k.name)
  <2>5. s \in Seq(Names) /\ Range(s) = Range(o.order) \cup {k.name} /\ IsInjective(s)
    BY <1>1, <2>2, <2>3, <2>4, AppendName
  <2>6. WithItem(o, k) = [o EXCEPT !.order = s]
    BY <1>3 DEF WithItem
  <2> HIDE DEF s
  <2>7. LET p == [o EXCEPT !.order = s] IN
          /\ p \in Objects /\ p.order = s
          /\ p.type = o.type /\ p.name = o.name /\ p.parent = o.parent
    BY <1>1, <2>5, NewOrder
  <2> QED
    BY <1>3, <2>2, <2>5, <2>6, <2>7
<1> QED
  BY <1>2, <1>3

(* One step of each kind keeps parts, orders and keys in order.            *)
LEMMA CreateTree ==
  ASSUME Tree(working), NEW change \in Changes, change.action = "create",
         ParentThere(change.target), ~There(change.target), Find(change.value, change.target) # {}
  PROVE  Tree({WithItem(o, change.target) : o \in working} \cup change.value)
<1> DEFINE k == change.target
           value == change.value
           W(o) == WithItem(o, k)
           m == {W(o) : o \in working} \cup value
<1>1. k \in Keys /\ value \in SUBSET Objects /\ OrdersOK(value) /\ KeysUnique(value)
  BY ValueRoot
<1>2. PICK root \in value : Key(root) = k /\ \A v \in value \ {root} : PartOf(v, k)
  BY ValueRoot
<1>3. \A o \in working :
        /\ W(o) \in Objects
        /\ W(o).type = o.type /\ W(o).name = o.name /\ W(o).parent = o.parent
        /\ HoldsItem(o, k) =>
             Range(W(o).order) = ItemNames(working, o) \cup {k.name} /\ IsInjective(W(o).order)
        /\ o.type = "calculation_group" /\ ~HoldsItem(o, k) =>
             Range(W(o).order) = ItemNames(working, o) /\ IsInjective(W(o).order)
  BY <1>1, WithItemFields
<1>4. root.type = k.type /\ root.parent = k.parent /\ root.name = k.name /\ root \in Objects
  BY <1>1, <1>2, KeyFields
<1>5. \A o \in working : Key(o) # k
  BY DEF There, Find
<1>6. ParentThere(k)
  OBVIOUS
<1> HIDE DEF W, k, value
<1>7. ASSUME NEW o \in working, PartOf(o, k)
      PROVE  FALSE
  <2>1. k.type \in {"table", "calculation_group"} /\ o.parent = k.name
    BY <1>7 DEF PartOf
  <2>2. k.parent = None
    BY <1>4, <2>1, Fields DEF TableParts
  <2>3. o.parent # None
    BY <1>1, <2>1, KeyFields, NamesAssumption
  <2>4. PICK b \in working : PartOf(o, Key(b))
    BY <2>3 DEF Tree, ParentsThere
  <2> QED
    BY <1>1, <1>5, <1>7, <2>2, <2>4, ParentKey
<1>8. ParentsThere(m)
  <2>1. ASSUME NEW o \in working, W(o).parent # None PROVE \E b \in m : PartOf(W(o), Key(b))
    <3>1. PICK b \in working : PartOf(o, Key(b))
      BY <1>3, <2>1 DEF Tree, ParentsThere
    <3>2. PartOf(W(o), Key(W(b)))
      BY <1>3, <3>1, PartFields
    <3> QED
      BY <3>2
  <2>2. ASSUME root.parent # None PROVE \E b \in m : PartOf(root, Key(b))
    <3>1. k.type \in TableParts \cup {"calculation_item"}
      BY <1>4, <2>2, Fields
    <3>2. PICK b \in working :
            /\ b.name = k.parent
            /\ \/ k.type \in TableParts /\ b.type = "table"
               \/ k.type = "calculation_item" /\ b.type = "calculation_group"
      BY <1>6, <3>1 DEF ParentThere, Named, TableParts
    <3>3. PartOf(root, Key(W(b)))
      BY <1>3, <1>4, <3>2, PartFields
    <3> QED
      BY <3>3
  <2>3. ASSUME NEW v \in value \ {root} PROVE PartOf(v, Key(root))
    BY <1>2
  <2> QED
    BY <2>1, <2>2, <2>3 DEF ParentsThere
<1>9. OrdersOK(m)
  <2>1. ASSUME NEW o \in working, o.type = "calculation_group"
        PROVE  Range(W(o).order) = ItemNames(m, W(o)) /\ IsInjective(W(o).order)
    <3>1. W(o).type = "calculation_group" /\ W(o).name = o.name
      BY <1>3, <2>1
    <3>2. ASSUME NEW v \in value, v.type = "calculation_item", v.parent = o.name
          PROVE  HoldsItem(o, k) /\ v.name = k.name
      <4>1. CASE v = root
        BY <1>4, <2>1, <3>2, <4>1 DEF HoldsItem
      <4>2. CASE v # root
        <5>1. k.type = "calculation_group" /\ k.name = o.name
          BY <1>2, <3>2, <4>2 DEF PartOf, TableParts
        <5>2. o.parent = None /\ k.parent = None
          BY <1>4, <2>1, <5>1, Fields DEF Tree, TableParts
        <5> QED
          BY <1>1, <1>5, <2>1, <5>1, <5>2, KeyFields
      <4> QED
        BY <4>1, <4>2
    <3>3. HoldsItem(o, k) => root.type = "calculation_item" /\ root.parent = o.name /\ root.name = k.name
      BY <1>4 DEF HoldsItem
    <3>4. ASSUME NEW x
          PROVE  x \in ItemNames(m, W(o)) <=>
                   x \in ItemNames(working, o) \/ (HoldsItem(o, k) /\ x = k.name)
      <4>1. x \in ItemNames(m, W(o)) <=>
              \E b \in m : b.type = "calculation_item" /\ b.parent = o.name /\ b.name = x
        BY <3>1, GroupItems
      <4>2. x \in ItemNames(working, o) <=>
              \E b \in working : b.type = "calculation_item" /\ b.parent = o.name /\ b.name = x
        BY <2>1, GroupItems
      <4> QED
        BY <1>3, <3>2, <3>3, <4>1, <4>2
    <3> QED
      BY <1>3, <2>1, <3>4
  <2>2. ASSUME NEW g \in value, g.type = "calculation_group"
        PROVE  Range(g.order) = ItemNames(m, g) /\ IsInjective(g.order)
    <3>1. g = root
      BY <1>2, <2>2 DEF PartOf, TableParts
    <3>2. Range(g.order) = ItemNames(value, g) /\ IsInjective(g.order)
      BY <1>1, <2>2 DEF OrdersOK
    <3>3. ASSUME NEW o \in working, W(o).type = "calculation_item", W(o).parent = g.name
          PROVE  FALSE
      BY <1>3, <1>4, <1>7, <2>2, <3>1, <3>3 DEF PartOf
    <3>4. ASSUME NEW x PROVE x \in ItemNames(m, g) <=> x \in ItemNames(value, g)
      BY <2>2, <3>3, GroupItems
    <3> QED
      BY <3>2, <3>4
  <2> QED
    BY <1>3, <2>1, <2>2 DEF OrdersOK
<1>10. KeysUnique(m)
  <2>1. ASSUME NEW o \in working, NEW b \in working, Key(W(o)) = Key(W(b)) PROVE W(o) = W(b)
    BY <1>3, <2>1, SameKey DEF Tree, KeysUnique
  <2>2. ASSUME NEW o \in working, NEW v \in value, Key(W(o)) = Key(v) PROVE FALSE
    <3>1. Key(o) = Key(v) /\ o.type = v.type /\ o.parent = v.parent
      BY <1>3, <2>2, SameKey
    <3>2. CASE v = root
      BY <1>2, <1>5, <3>1, <3>2
    <3>3. CASE v # root
      BY <1>2, <1>7, <3>1, <3>3 DEF PartOf
    <3> QED
      BY <3>2, <3>3
  <2> QED
    BY <1>1, <2>1, <2>2 DEF KeysUnique
<1> QED
  BY <1>1, <1>3, <1>8, <1>9, <1>10 DEF Tree, W, k, value

(* The same for an update: the new value stands where the old one stood.   *)
LEMMA UpdateTree ==
  ASSUME Tree(working), NEW change \in Changes, change.action = "update",
         There(change.target), Find(change.value, change.target) # {}
  PROVE  Tree((working \ Family(working, change.target)) \cup change.value)
<1> DEFINE k == change.target
           value == change.value
           rest == working \ Family(working, k)
           m == rest \cup value
<1>1. k \in Keys /\ value \in SUBSET Objects /\ OrdersOK(value) /\ KeysUnique(value)
  BY ValueRoot
<1>2. PICK root \in value : Key(root) = k /\ \A v \in value \ {root} : PartOf(v, k)
  BY ValueRoot
<1>3. PICK old \in working : Key(old) = k
  BY DEF There, Find
<1>4. /\ root.type = k.type /\ root.parent = k.parent /\ root.name = k.name /\ root \in Objects
      /\ old.type = k.type /\ old.parent = k.parent /\ old.name = k.name /\ old \in Objects
  BY <1>1, <1>2, <1>3, KeyFields DEF Tree
<1>5. /\ rest \subseteq working
      /\ \A o \in rest : Key(o) # k /\ ~PartOf(o, k)
      /\ \A o \in working : Key(o) = k \/ PartOf(o, k) \/ o \in rest
  BY DEF Family
<1> HIDE DEF k, value, rest
<1>6. ParentsThere(m)
  <2>1. ASSUME NEW o \in working, NEW b \in working, PartOf(o, Key(b)), ~PartOf(o, k)
        PROVE  b \in rest
    <3>1. b.type \in {"table", "calculation_group"}
      BY <2>1, PartFields
    <3>2. ~PartOf(b, k)
      BY <3>1 DEF PartOf, TableParts
    <3> QED
      BY <1>5, <2>1, <3>2
  <2>2. ASSUME NEW o \in rest, o.parent # None PROVE \E b \in m : PartOf(o, Key(b))
    <3>1. PICK b \in working : PartOf(o, Key(b))
      BY <1>5, <2>2 DEF Tree, ParentsThere
    <3> QED
      BY <1>5, <2>1, <3>1
  <2>3. ASSUME root.parent # None PROVE \E b \in m : PartOf(root, Key(b))
    <3>1. PICK b \in working : PartOf(old, Key(b))
      BY <1>4, <2>3 DEF Tree, ParentsThere
    <3>2. k.type \in TableParts \cup {"calculation_item"}
      BY <1>4, <2>3, Fields
    <3>3. ~PartOf(old, k)
      BY <1>4, <3>2 DEF PartOf, TableParts
    <3>4. PartOf(root, Key(b))
      BY <1>4, <3>1, PartFields
    <3> QED
      BY <2>1, <3>1, <3>3, <3>4
  <2>4. ASSUME NEW v \in value \ {root} PROVE PartOf(v, Key(root))
    BY <1>2
  <2> QED
    BY <2>2, <2>3, <2>4 DEF ParentsThere
<1>7. OrdersOK(m)
  <2>1. ASSUME NEW o \in rest, o.type = "calculation_group"
        PROVE  Range(o.order) = ItemNames(m, o) /\ IsInjective(o.order)
    <3>1. Range(o.order) = ItemNames(working, o) /\ IsInjective(o.order)
      BY <1>5, <2>1 DEF Tree, OrdersOK
    <3>2. o.parent = None /\ o \in Objects
      BY <1>5, <2>1, Fields DEF Tree, TableParts
    <3>3. ~(k.type = "calculation_group" /\ k.name = o.name)
      <4>1. k.type = "calculation_group" => k.parent = None
        BY <1>4, Fields DEF TableParts
      <4> QED
        BY <1>1, <1>5, <2>1, <3>2, <4>1, KeyFields
    <3>4. ASSUME NEW v \in value, v.type = "calculation_item", v.parent = o.name
          PROVE  old.type = "calculation_item" /\ old.parent = o.name /\ old.name = v.name
      <4>1. v = root
        BY <1>2, <3>3, <3>4 DEF PartOf, TableParts
      <4> QED
        BY <1>4, <3>4, <4>1
    <3>5. ASSUME NEW v \in working, v.type = "calculation_item", v.parent = o.name
          PROVE  \E w \in m : w.type = "calculation_item" /\ w.parent = o.name /\ w.name = v.name
      <4>1. CASE v \in rest
        BY <3>5, <4>1
      <4>2. CASE Key(v) = k
        BY <1>1, <1>4, <3>5, <4>2, KeyFields
      <4>3. CASE PartOf(v, k)
        BY <3>3, <3>5, <4>3 DEF PartOf, TableParts
      <4> QED
        BY <1>5, <4>1, <4>2, <4>3
    <3>6. ASSUME NEW x PROVE x \in ItemNames(m, o) <=> x \in ItemNames(working, o)
      <4>1. x \in ItemNames(m, o) <=>
              \E b \in m : b.type = "calculation_item" /\ b.parent = o.name /\ b.name = x
        BY <2>1, GroupItems
      <4>2. x \in ItemNames(working, o) <=>
              \E b \in working : b.type = "calculation_item" /\ b.parent = o.name /\ b.name = x
        BY <2>1, GroupItems
      <4> QED
        BY <1>5, <3>4, <3>5, <4>1, <4>2
    <3> QED
      BY <3>1, <3>6
  <2>2. ASSUME NEW g \in value, g.type = "calculation_group"
        PROVE  Range(g.order) = ItemNames(m, g) /\ IsInjective(g.order)
    <3>1. g = root
      BY <1>2, <2>2 DEF PartOf, TableParts
    <3>2. Range(g.order) = ItemNames(value, g) /\ IsInjective(g.order)
      BY <1>1, <2>2 DEF OrdersOK
    <3>3. ASSUME NEW o \in rest, o.type = "calculation_item", o.parent = g.name PROVE FALSE
      BY <1>4, <1>5, <2>2, <3>1, <3>3 DEF PartOf
    <3>4. ASSUME NEW x PROVE x \in ItemNames(m, g) <=> x \in ItemNames(value, g)
      BY <2>2, <3>3, GroupItems
    <3> QED
      BY <3>2, <3>4
  <2> QED
    BY <2>1, <2>2 DEF OrdersOK
<1>8. KeysUnique(m)
  <2>1. ASSUME NEW o \in rest, NEW v \in value, Key(o) = Key(v) PROVE FALSE
    <3>1. o.type = v.type /\ o.parent = v.parent
      BY <2>1, SameKey
    <3>2. CASE v = root
      BY <1>2, <1>5, <2>1, <3>2
    <3>3. CASE v # root
      BY <1>2, <1>5, <3>1, <3>3 DEF PartOf
    <3> QED
      BY <3>2, <3>3
  <2> QED
    BY <1>1, <1>5, <2>1 DEF Tree, KeysUnique
<1> QED
  BY <1>1, <1>5, <1>6, <1>7, <1>8 DEF Tree, k, value, rest

(* What one item less does to the objects.                                 *)
LEMMA WithoutItemFields ==
  ASSUME Tree(working), NEW k \in Keys, There(k), NEW o \in working
  PROVE  LET p == WithoutItem(o, k) IN
           /\ p \in Objects
           /\ p.type = o.type /\ p.name = o.name /\ p.parent = o.parent
           /\ p.refs = o.refs /\ p.detail = o.detail /\ p.was = o.was
           /\ HoldsItem(o, k) =>
                Range(p.order) = ItemNames(working, o) \ {k.name} /\ IsInjective(p.order)
           /\ o.type = "calculation_group" /\ ~HoldsItem(o, k) =>
                Range(p.order) = ItemNames(working, o) /\ IsInjective(p.order)
<1>1. o \in Objects /\ k.name \in Names
  BY KeyFields DEF Tree
<1>2. CASE ~HoldsItem(o, k)
  BY <1>1, <1>2 DEF WithoutItem, Tree, OrdersOK
<1>3. CASE HoldsItem(o, k)
  <2>1. o.type = "calculation_group" /\ o.name = k.parent /\ k.type = "calculation_item"
    BY <1>3 DEF HoldsItem
  <2>2. Range(o.order) = ItemNames(working, o) /\ IsInjective(o.order)
    BY <2>1 DEF Tree, OrdersOK
  <2>3. k.name \in ItemNames(working, o)
    BY <2>1, GroupItems, KeyFields DEF There, Find
  <2>4. o.order \in Seq(Names)
    BY <1>1, Fields
  <2> DEFINE s == RemoveAt(o.order, Position(o.order, k.name))
  <2>5. s \in Seq(Names) /\ Range(s) = Range(o.order) \ {k.name} /\ IsInjective(s)
    BY <2>2, <2>3, <2>4, RemoveName
  <2>6. WithoutItem(o, k) = [o EXCEPT !.order = s]
    BY <1>3 DEF WithoutItem
  <2> HIDE DEF s
  <2>7. LET p == [o EXCEPT !.order = s] IN
          /\ p \in Objects /\ p.order = s
          /\ p.type = o.type /\ p.name = o.name /\ p.parent = o.parent
          /\ p.refs = o.refs /\ p.detail = o.detail /\ p.was = o.was
    BY <1>1, <2>5, NewOrder
  <2> QED
    BY <1>3, <2>2, <2>5, <2>6, <2>7
<1> QED
  BY <1>2, <1>3

(* The same for a delete: what goes takes its parts along.                 *)
LEMMA DeleteTree ==
  ASSUME Tree(working), NEW k \in Keys, There(k)
  PROVE  Tree({WithoutItem(o, k) : o \in working \ Family(working, k)})
<1> DEFINE W(o) == WithoutItem(o, k)
           rest == working \ Family(working, k)
           m == {W(o) : o \in rest}
<1>1. \A o \in working :
        /\ W(o) \in Objects
        /\ W(o).type = o.type /\ W(o).name = o.name /\ W(o).parent = o.parent
        /\ HoldsItem(o, k) =>
             Range(W(o).order) = ItemNames(working, o) \ {k.name} /\ IsInjective(W(o).order)
        /\ o.type = "calculation_group" /\ ~HoldsItem(o, k) =>
             Range(W(o).order) = ItemNames(working, o) /\ IsInjective(W(o).order)
  BY WithoutItemFields
<1>2. PICK old \in working : Key(old) = k
  BY DEF There, Find
<1>3. old.type = k.type /\ old.parent = k.parent /\ old.name = k.name /\ old \in Objects
  BY <1>2, KeyFields DEF Tree
<1>4. /\ rest \subseteq working
      /\ \A o \in rest : Key(o) # k /\ ~PartOf(o, k)
      /\ \A o \in working : Key(o) = k \/ PartOf(o, k) \/ o \in rest
  BY DEF Family
<1> HIDE DEF W, rest
<1>5. ParentsThere(m)
  <2> SUFFICES ASSUME NEW o \in rest, W(o).parent # None PROVE \E b \in m : PartOf(W(o), Key(b))
    BY DEF ParentsThere
  <2>1. PICK b \in working : PartOf(o, Key(b))
    BY <1>1, <1>4 DEF Tree, ParentsThere
  <2>2. b.type \in {"table", "calculation_group"}
    BY <2>1, PartFields
  <2>3. ~PartOf(b, k) /\ Key(b) # k
    BY <1>4, <2>1, <2>2 DEF PartOf, TableParts
  <2>4. b \in rest
    BY <1>4, <2>3
  <2>5. PartOf(W(o), Key(W(b)))
    BY <1>1, <1>4, <2>1, PartFields
  <2> QED
    BY <2>4, <2>5
<1>6. OrdersOK(m)
  <2> SUFFICES ASSUME NEW o \in rest, o.type = "calculation_group"
               PROVE  Range(W(o).order) = ItemNames(m, W(o)) /\ IsInjective(W(o).order)
    BY <1>1, <1>4 DEF OrdersOK
  <2>1. W(o).type = "calculation_group" /\ W(o).name = o.name /\ o \in working
    BY <1>1, <1>4
  <2>2. o.parent = None
    BY <2>1, Fields DEF Tree, TableParts
  <2>3. ~(k.type = "calculation_group" /\ k.name = o.name)
    <3>1. k.type = "calculation_group" => k.parent = None
      BY <1>3, Fields DEF TableParts
    <3> QED
      BY <1>4, <2>2, <3>1, KeyFields
  <2>4. ASSUME NEW v \in working, v.type = "calculation_item", v.parent = o.name
        PROVE  v \in rest <=> ~(HoldsItem(o, k) /\ v.name = k.name)
    <3>1. ~PartOf(v, k)
      BY <2>3, <2>4 DEF PartOf, TableParts
    <3>2. Key(v) = k <=> HoldsItem(o, k) /\ v.name = k.name
      BY <2>4, KeyFields DEF HoldsItem
    <3> QED
      BY <1>4, <3>1, <3>2
  <2>5. ASSUME NEW x
        PROVE  x \in ItemNames(m, W(o)) <=> x \in ItemNames(working, o) /\ ~(HoldsItem(o, k) /\ x = k.name)
    <3>1. x \in ItemNames(m, W(o)) <=>
            \E b \in m : b.type = "calculation_item" /\ b.parent = o.name /\ b.name = x
      BY <2>1, GroupItems
    <3>2. x \in ItemNames(working, o) <=>
            \E b \in working : b.type = "calculation_item" /\ b.parent = o.name /\ b.name = x
      BY GroupItems
    <3> QED
      BY <1>1, <1>4, <2>4, <3>1, <3>2
  <2> QED
    BY <1>1, <2>1, <2>5
<1>7. KeysUnique(m)
  BY <1>1, <1>4, SameKey DEF Tree, KeysUnique
<1> QED
  BY <1>1, <1>4, <1>5, <1>6, <1>7 DEF Tree, W, rest

(* A name that is not taken is nobody's.                                   *)
LEMMA NobodysName ==
  ASSUME NEW k \in Keys, NEW n \in Names, ~NameTaken(k, n), NEW o \in working
  PROVE  ~(o.type = k.type /\ o.parent = k.parent /\ o.name = n)
<1>1. [k EXCEPT !.name = n] \in Keys
  BY DEF Keys
<1>2. Key(o) # [k EXCEPT !.name = n]
  BY DEF NameTaken, There, Find
<1> QED
  BY <1>1, <1>2, KeyFields DEF Keys

(* What a rename does to the objects.                                      *)
LEMMA RenamedFields ==
  ASSUME Tree(working), NEW k \in Keys, NEW n \in Names, ~NameTaken(k, n), NEW o \in working
  PROVE  LET p == Renamed(o, k, n) IN
           /\ p \in Objects
           /\ p.type = o.type /\ p.refs = o.refs /\ p.detail = o.detail /\ p.was = o.was
           /\ p.name = IF Key(o) = k THEN n ELSE o.name
           /\ p.parent = IF PartOf(o, k) THEN n ELSE o.parent
           /\ HoldsItem(o, k) =>
                /\ Range(p.order) = {IF x = k.name THEN n ELSE x : x \in ItemNames(working, o)}
                /\ IsInjective(p.order)
           /\ o.type = "calculation_group" /\ ~HoldsItem(o, k) =>
                Range(p.order) = ItemNames(working, o) /\ IsInjective(p.order)
<1>1. o \in Objects /\ k.name \in Names
  BY KeyFields DEF Tree
<1>2. /\ ~(Key(o) = k /\ PartOf(o, k))
      /\ ~(Key(o) = k /\ HoldsItem(o, k))
      /\ ~(PartOf(o, k) /\ HoldsItem(o, k))
  BY KeyFields DEF PartOf, HoldsItem, TableParts
<1>3. o.type = "calculation_group" => Range(o.order) = ItemNames(working, o) /\ IsInjective(o.order)
  BY DEF Tree, OrdersOK
<1>4. CASE Key(o) = k
  <2>1. Renamed(o, k, n) = [o EXCEPT !.name = n]
    <3>1. Key(o) = k /\ ~PartOf(o, k) /\ ~HoldsItem(o, k)
      BY <1>2, <1>4
    <3> QED
      BY <3>1 DEF Renamed
  <2>2. LET p == [o EXCEPT !.name = n] IN
          /\ p \in Objects
          /\ p.name = n
          /\ p.type = o.type /\ p.parent = o.parent /\ p.refs = o.refs /\ p.detail = o.detail
          /\ p.order = o.order /\ p.was = o.was
    BY <1>1, NewName
  <2> QED
    BY <1>2, <1>3, <1>4, <2>1, <2>2
<1>5. CASE PartOf(o, k)
  <2>1. Renamed(o, k, n) = [o EXCEPT !.parent = n]
    BY <1>2, <1>5 DEF Renamed
  <2>2. o.parent # None
    BY <1>1, <1>5, NamesAssumption DEF PartOf
  <2>3. LET p == [o EXCEPT !.parent = n] IN
          /\ p \in Objects
          /\ p.parent = n
          /\ p.type = o.type /\ p.name = o.name /\ p.refs = o.refs /\ p.detail = o.detail
          /\ p.order = o.order /\ p.was = o.was
    BY <1>1, <2>2, NewParent
  <2> QED
    BY <1>2, <1>3, <1>5, <2>1, <2>3
<1>6. CASE HoldsItem(o, k)
  <2>1. Renamed(o, k, n) = [o EXCEPT !.order = ReplaceAll(o.order, k.name, n)]
    BY <1>2, <1>6 DEF Renamed
  <2>2. o.type = "calculation_group" /\ o.name = k.parent /\ k.type = "calculation_item"
    BY <1>6 DEF HoldsItem
  <2>3. n \notin Range(o.order)
    BY <1>3, <2>2, GroupItems, NobodysName
  <2>4. o.order \in Seq(Names)
    BY <1>1, Fields
  <2> DEFINE s == ReplaceAll(o.order, k.name, n)
  <2>5. /\ s \in Seq(Names) /\ IsInjective(s)
        /\ Range(s) = {IF x = k.name THEN n ELSE x : x \in Range(o.order)}
    BY <1>1, <1>3, <2>2, <2>3, <2>4, ReplaceName
  <2>6. Renamed(o, k, n) = [o EXCEPT !.order = s]
    BY <2>1
  <2> HIDE DEF s
  <2>7. LET p == [o EXCEPT !.order = s] IN
          /\ p \in Objects /\ p.order = s
          /\ p.type = o.type /\ p.name = o.name /\ p.parent = o.parent
          /\ p.refs = o.refs /\ p.detail = o.detail /\ p.was = o.was
    BY <1>1, <2>5, NewOrder
  <2> QED
    BY <1>2, <1>3, <1>6, <2>2, <2>5, <2>6, <2>7
<1>7. CASE Key(o) # k /\ ~PartOf(o, k) /\ ~HoldsItem(o, k)
  BY <1>1, <1>3, <1>7 DEF Renamed
<1> QED
  BY <1>4, <1>5, <1>6, <1>7

(* The same for a rename: the new name is in nobody's way.                 *)
LEMMA RenameTree ==
  ASSUME Tree(working), NEW k \in Keys, There(k), NEW n \in Names, ~NameTaken(k, n)
  PROVE  Tree({Renamed(o, k, n) : o \in working})
<1> DEFINE R(o) == Renamed(o, k, n)
           m == {R(o) : o \in working}
<1>1. \A o \in working :
        /\ R(o) \in Objects
        /\ R(o).type = o.type
        /\ R(o).name = IF Key(o) = k THEN n ELSE o.name
        /\ R(o).parent = IF PartOf(o, k) THEN n ELSE o.parent
        /\ HoldsItem(o, k) =>
             /\ Range(R(o).order) = {IF x = k.name THEN n ELSE x : x \in ItemNames(working, o)}
             /\ IsInjective(R(o).order)
        /\ o.type = "calculation_group" /\ ~HoldsItem(o, k) =>
             Range(R(o).order) = ItemNames(working, o) /\ IsInjective(R(o).order)
  BY RenamedFields
<1>2. PICK old \in working : Key(old) = k
  BY DEF There, Find
<1>3. /\ old.type = k.type /\ old.parent = k.parent /\ old.name = k.name /\ old \in Objects
      /\ k.name \in Names
  BY <1>2, KeyFields DEF Tree
<1>4. \A o \in working : ~(o.type = k.type /\ o.parent = k.parent /\ o.name = n)
  BY NobodysName
<1>5. k.type \in {"table", "calculation_group"} => k.parent = None
  BY <1>3, Fields DEF TableParts
<1> HIDE DEF R
(* A part of another table or group: that one is not called n. *)
<1>6. ASSUME NEW o \in working, NEW b \in working, PartOf(o, Key(b))
      PROVE  /\ Key(b) = k <=> PartOf(o, k)
             /\ o.parent = n => ~(\E x : PartOf(x, k) /\ x.type = o.type)
  <2>1. b.type \in {"table", "calculation_group"} /\ b.name = o.parent /\ b.parent = None
    BY <1>6, PartFields, Fields DEF Tree, TableParts
  <2>2. PartOf(o, k) => Key(b) = k
    <3>1. PartOf(o, k) => k.parent = None
      BY <1>5 DEF PartOf
    <3> QED
      BY <1>6, <3>1, ParentKey
  <2>3. ASSUME o.parent = n, NEW x, PartOf(x, k), x.type = o.type
        PROVE  FALSE
    <3>1. b.type = k.type
      BY <1>6, <2>3, PartFields DEF PartOf, TableParts
    <3> QED
      BY <1>4, <1>5, <2>1, <2>3, <3>1
  <2> QED
    BY <1>6, <2>2, <2>3
<1>7. ParentsThere(m)
  <2> SUFFICES ASSUME NEW o \in working, R(o).parent # None PROVE \E b \in m : PartOf(R(o), Key(b))
    BY DEF ParentsThere
  <2>1. o.parent # None
    BY <1>1, <1>3, NamesAssumption DEF PartOf
  <2>2. PICK b \in working : PartOf(o, Key(b))
    BY <2>1 DEF Tree, ParentsThere
  <2>3. Key(b) = k <=> PartOf(o, k)
    BY <1>6, <2>2
  <2>4. PartOf(R(o), Key(R(b)))
    BY <1>1, <2>2, <2>3, PartFields
  <2> QED
    BY <2>4
<1>8. OrdersOK(m)
  <2> SUFFICES ASSUME NEW o \in working, o.type = "calculation_group"
               PROVE  Range(R(o).order) = ItemNames(m, R(o)) /\ IsInjective(R(o).order)
    BY <1>1 DEF OrdersOK
  <2>1. o.parent = None
    BY Fields DEF Tree, TableParts
  <2>2. R(o).type = "calculation_group"
    BY <1>1
  <2>3. ASSUME NEW v \in working, v.type = "calculation_item"
        PROVE  R(v).parent = R(o).name <=> v.parent = o.name
    <3>1. PICK b \in working : PartOf(v, Key(b))
      BY <2>3, Fields DEF Tree, ParentsThere
    <3>2. PartOf(v, Key(o)) <=> v.parent = o.name
      BY <2>3, PartFields
    <3>3. CASE Key(o) = k
      <4>1. R(o).name = n /\ (PartOf(v, k) <=> v.parent = o.name)
        BY <1>1, <3>2, <3>3
      <4>2. PartOf(old, k) => FALSE
        BY <1>3 DEF PartOf, TableParts
      <4>3. ~PartOf(v, k) => v.parent # n
        <5>1. k.type = "calculation_group" /\ k.parent = None
          BY <2>1, <3>3, KeyFields
        <5>2. v.parent = n => b.type = "calculation_group" /\ b.name = n /\ b.parent = None
          BY <2>3, <3>1, PartFields, Fields DEF Tree, TableParts
        <5> QED
          BY <1>4, <5>1, <5>2
      <4> QED
        BY <1>1, <4>1, <4>3
    <3>4. CASE Key(o) # k
      <4>1. R(o).name = o.name
        BY <1>1, <3>4
      <4>2. PartOf(v, k) => o.name # n /\ v.parent # o.name
        <5>1. PartOf(v, k) => k.type = "calculation_group" /\ k.parent = None /\ v.parent = k.name
          BY <1>5, <2>3 DEF PartOf, TableParts
        <5>2. PartOf(v, k) => o.name # n
          BY <1>4, <2>1, <5>1
        <5>3. PartOf(v, k) => o.name # k.name
          BY <2>1, <3>4, <5>1, KeyFields
        <5> QED
          BY <5>1, <5>2, <5>3
      <4> QED
        BY <1>1, <4>1, <4>2
    <3> QED
      BY <3>3, <3>4
  <2>4. ASSUME NEW x
        PROVE  x \in ItemNames(m, R(o)) <=>
                 \E v \in working : v.type = "calculation_item" /\ v.parent = o.name /\ R(v).name = x
    <3>1. x \in ItemNames(m, R(o)) <=>
            \E w \in m : w.type = "calculation_item" /\ w.parent = R(o).name /\ w.name = x
      BY <2>2, GroupItems
    <3> QED
      BY <1>1, <2>3, <3>1
  <2>5. ASSUME NEW x
        PROVE  x \in ItemNames(working, o) <=>
                 \E v \in working : v.type = "calculation_item" /\ v.parent = o.name /\ v.name = x
    BY GroupItems
  <2>6. CASE HoldsItem(o, k)
    <3>1. o.name = k.parent /\ k.type = "calculation_item"
      BY <2>6 DEF HoldsItem
    <3>2. ASSUME NEW v \in working, v.type = "calculation_item", v.parent = o.name
          PROVE  R(v).name = IF v.name = k.name THEN n ELSE v.name
      BY <1>1, <3>1, <3>2, KeyFields
    <3>3. ASSUME NEW x
          PROVE  x \in ItemNames(m, R(o)) <=>
                   x \in {IF y = k.name THEN n ELSE y : y \in ItemNames(working, o)}
      BY <2>4, <2>5, <3>2
    <3> QED
      BY <1>1, <2>6, <3>3
  <2>7. CASE ~HoldsItem(o, k)
    <3>1. ASSUME NEW v \in working, v.type = "calculation_item", v.parent = o.name
          PROVE  R(v).name = v.name
      BY <1>1, <2>7, <3>1, KeyFields DEF HoldsItem
    <3>2. ASSUME NEW x PROVE x \in ItemNames(m, R(o)) <=> x \in ItemNames(working, o)
      BY <2>4, <2>5, <3>1
    <3> QED
      BY <1>1, <2>7, <3>2
  <2> QED
    BY <2>6, <2>7
<1>9. KeysUnique(m)
  <2> SUFFICES ASSUME NEW o \in working, NEW b \in working, Key(R(o)) = Key(R(b)) PROVE R(o) = R(b)
    BY DEF KeysUnique
  <2>1. R(o).type = R(b).type /\ R(o).parent = R(b).parent /\ R(o).name = R(b).name /\ o.type = b.type
    BY <1>1, SameKey
  <2>2. CASE Key(o) = k \/ Key(b) = k
    <3>1. ~PartOf(o, k) /\ ~PartOf(b, k)
      BY <2>1, <2>2, KeyFields DEF PartOf, TableParts
    <3>2. Key(o) = k /\ Key(b) = k
      BY <1>1, <1>4, <2>1, <2>2, <3>1, KeyFields
    <3> QED
      BY <3>2 DEF Tree, KeysUnique
  <2>3. CASE Key(o) # k /\ Key(b) # k
    <3>1. o.name = b.name
      BY <1>1, <2>1, <2>3
    <3>2. CASE PartOf(o, k) <=> PartOf(b, k)
      <4>1. o.parent = b.parent
        BY <1>1, <2>1, <3>2 DEF PartOf
      <4> QED
        BY <2>1, <3>1, <4>1, SameKey DEF Tree, KeysUnique
    <3>3. ASSUME NEW u \in working, NEW v \in working, u.type = v.type, R(u).parent = R(v).parent,
                 PartOf(u, k), ~PartOf(v, k)
          PROVE  FALSE
      <4>1. v.parent = n
        BY <1>1, <3>3
      <4>2. v.parent # None
        BY <4>1, NamesAssumption
      <4>3. PICK w \in working : PartOf(v, Key(w))
        BY <4>2 DEF Tree, ParentsThere
      <4> QED
        BY <1>6, <3>3, <4>1, <4>3
    <3> QED
      BY <2>1, <3>2, <3>3
  <2> QED
    BY <2>2, <2>3
<1> QED
  BY <1>1, <1>7, <1>8, <1>9 DEF Tree, R

-----------------------------------------------------------------------------
(* What a reference denotes, kind by kind.                                 *)
LEMMA DenotesCases ==
  ASSUME NEW o, NEW b, NEW r, r.kind \in RefKinds
  PROVE  Denotes(o, r, b) <=>
    \/ r.kind = "source" /\ b.type = "data_source" /\ b.name = r.name
    \/ r.kind \in {"entity", "quoted"} /\ b.type = "expression" /\ b.name = r.name
    \/ r.kind \in {"sort", "level"} /\ b.type = "column" /\ b.parent = o.parent /\ b.name = r.name
    \/ r.kind = "endpoint" /\ b.type = "column" /\ b.parent = r.table /\ b.name = r.name
    \/ r.kind = "permission" /\ b.type = "table" /\ b.name = r.table
    \/ r.kind = "table" /\ b.type \in {"table", "calculation_group"} /\ b.name = r.table
    \/ r.kind = "qualified" /\ b.type \in {"column", "measure"} /\ b.parent = r.table /\ b.name = r.name
    \/ r.kind = "qualified" /\ b.type = "calculation_group" /\ b.name = r.table /\ b.detail = r.name
    \/ r.kind = "unqualified" /\ b.type = "measure" /\ b.name = r.name
    \/ /\ r.kind = "unqualified" /\ o.type \in {"column", "role"}
       /\ b.type = "column" /\ b.parent = OwnerTable(o, r) /\ b.name = r.name
<1>1. CASE r.kind = "source"
  BY <1>1 DEF Denotes
<1>2. CASE r.kind \in {"entity", "quoted"}
  BY <1>2 DEF Denotes
<1>3. CASE r.kind \in {"sort", "level"}
  BY <1>3 DEF Denotes
<1>4. CASE r.kind = "endpoint"
  BY <1>4 DEF Denotes
<1>5. CASE r.kind = "permission"
  BY <1>5 DEF Denotes
<1>6. CASE r.kind = "table"
  BY <1>6 DEF Denotes
<1>7. CASE r.kind = "qualified"
  BY <1>7 DEF Denotes
<1>8. CASE r.kind = "unqualified"
  BY <1>8 DEF Denotes
<1> QED
  BY <1>1, <1>2, <1>3, <1>4, <1>5, <1>6, <1>7, <1>8 DEF RefKinds, Dax

(* An object that is referred to and may yet go or change its name: the    *)
(* dependency check has left the reference to the author.                  *)
LEMMA TargetLeft ==
  ASSUME Tree(working), NEW k \in Keys, ~Referenced(working, k), NEW action,
         NEW o \in working, NEW r \in o.refs, NEW b \in working,
         Key(b) = k, Denotes(o, r, b)
  PROVE  LeftToAuthor(o, r, b, k, action)
<1>1. o \in Objects /\ b \in Objects /\ r \in References /\ r.kind \in RefKinds
  BY Fields DEF Tree, References
<1>2. ~Refers(o, r, k)
  BY DEF Referenced
<1>3. b.type = k.type /\ b.parent = k.parent /\ b.name = k.name
  BY KeyFields
<1>4. o.type = "role" \/ OwnerTable(o, r) = o.parent
  BY DEF OwnerTable
<1>5. Itself(o, r, k) => LeftToAuthor(o, r, b, k, action)
  BY DEF LeftToAuthor
<1>6. k.type \notin TableParts \cup {"calculation_item"} => k.parent = None
  BY <1>1, <1>3, Fields
<1>7. CASE r.kind = "source"
  BY <1>1, <1>2, <1>3, <1>7, DenotesCases DEF Refers, RefersToSource
<1>8. CASE r.kind \in {"entity", "quoted"}
  <2>1. k.type = "expression" /\ k.name = r.name
    BY <1>1, <1>3, <1>8, DenotesCases
  <2>2. r.kind = "quoted" /\ o.type = "expression" /\ o.name = k.name
    BY <1>2, <1>8, <2>1 DEF Refers, RefersToExpression
  <2>3. o.parent = None /\ k.parent = None
    BY <1>1, <1>6, <2>1, <2>2, Fields DEF TableParts
  <2> QED
    BY <1>4, <1>5, <2>2, <2>3 DEF Itself
<1>9. CASE r.kind \in {"sort", "level"}
  <2>1. k.type = "column" /\ k.name = r.name /\ k.parent = o.parent
    BY <1>1, <1>3, <1>9, DenotesCases
  <2>2. r.kind = "sort" /\ o.name = k.name
    BY <1>2, <1>9, <2>1 DEF Refers, RefersToColumn
  <2>3. o.type = "column"
    BY <1>1, <2>2, Fields
  <2> QED
    BY <1>4, <1>5, <2>1, <2>2, <2>3 DEF Itself
<1>10. CASE r.kind = "endpoint"
  BY <1>1, <1>2, <1>3, <1>10, DenotesCases DEF Refers, RefersToColumn
<1>11. CASE r.kind = "permission"
  BY <1>1, <1>2, <1>3, <1>11, DenotesCases DEF Refers, RefersToTable
<1>12. ASSUME r.kind \in Dax, r.table = k.name, k.type \in {"table", "calculation_group"}
       PROVE  LeftToAuthor(o, r, b, k, action)
  BY <1>2, <1>12 DEF Refers, RefersToTable, LeftToAuthor
<1>13. CASE r.kind = "table"
  BY <1>1, <1>3, <1>12, <1>13, DenotesCases DEF Dax
<1>14. CASE r.kind = "qualified"
  <2>1. \/ k.type \in {"column", "measure"} /\ k.parent = r.table /\ k.name = r.name
        \/ k.type = "calculation_group" /\ k.name = r.table
    BY <1>1, <1>3, <1>14, DenotesCases
  <2>2. k.type \in {"column", "measure"} /\ k.parent = r.table /\ k.name = r.name => Itself(o, r, k)
    BY <1>2, <1>14 DEF Refers, RefersToColumn, RefersToMeasure
  <2> QED
    BY <1>5, <1>12, <1>14, <2>1, <2>2 DEF Dax
<1>15. CASE r.kind = "unqualified"
  <2>1. \/ k.type = "measure" /\ k.name = r.name
        \/ k.type = "column" /\ k.parent = OwnerTable(o, r) /\ k.name = r.name
    BY <1>1, <1>3, <1>15, DenotesCases
  <2>2. Itself(o, r, k)
    BY <1>2, <1>15, <2>1 DEF Refers, RefersToColumn, RefersToMeasure
  <2> QED
    BY <1>5, <2>2
<1> QED
  BY <1>1, <1>7, <1>8, <1>9, <1>10, <1>11, <1>13, <1>14, <1>15 DEF RefKinds, Dax

(* The same for a part of such an object, referred to from elsewhere: but  *)
(* for a measure with a bare name, which a rename of its table leaves as   *)
(* it is.                                                                  *)
LEMMA PartLeft ==
  ASSUME Tree(working), NEW k \in Keys, There(k), ~Referenced(working, k), NEW action,
         NEW o \in working, NEW r \in o.refs, NEW b \in working,
         PartOf(b, k), Denotes(o, r, b), ~PartOf(o, k)
  PROVE  \/ LeftToAuthor(o, r, b, k, action)
         \/ k.type = "table" /\ r.kind = "unqualified" /\ b.type = "measure" /\ b.name = r.name
<1>1. o \in Objects /\ b \in Objects /\ r \in References /\ r.kind \in RefKinds
  BY Fields DEF Tree, References
<1>2. ~Refers(o, r, k)
  BY DEF Referenced
<1>3. /\ b.parent = k.name
      /\ \/ k.type = "table" /\ b.type \in TableParts
         \/ k.type = "calculation_group" /\ b.type = "calculation_item"
  BY Zenon DEF PartOf
<1>4. b.type \in {"column", "measure"} /\ k.type = "table"
  <2>1. b.type \in TableParts \cup {"calculation_item"}
    BY <1>3
  <2>2. b.type \in {"column", "measure"}
    BY <1>1, <2>1, DenotesCases DEF TableParts
  <2> QED
    BY <1>3, <2>2
<1>5. r.kind \notin {"sort", "level"}
  <2> SUFFICES ASSUME r.kind \in {"sort", "level"} PROVE FALSE
    OBVIOUS
  <2>1. b.parent = o.parent
    BY <1>1, DenotesCases DEF Dax
  <2>2. o.type \in TableParts
    BY <1>1, Fields DEF TableParts
  <2> QED
    BY <1>3, <1>4, <2>1, <2>2 DEF PartOf
<1>6. CASE r.kind = "endpoint"
  BY <1>1, <1>2, <1>3, <1>4, <1>6, DenotesCases DEF Refers, RefersToTable
<1>7. CASE r.kind = "qualified"
  <2>1. r.table = k.name
    BY <1>1, <1>3, <1>4, <1>7, DenotesCases
  <2> QED
    BY <1>2, <1>4, <1>7, <2>1 DEF Refers, RefersToTable, LeftToAuthor, Dax
<1>8. CASE r.kind = "unqualified" /\ b.type = "column"
  <2>1. o.type \in {"column", "role"} /\ k.name = OwnerTable(o, r)
    BY <1>1, <1>3, <1>8, DenotesCases
  <2>2. o.type = "role" /\ r.owner = k.name
    BY <1>3, <1>4, <2>1 DEF PartOf, OwnerTable, TableParts
  <2>3. PICK p \in o.refs : p.kind = "permission" /\ p.table = r.owner
    BY <1>1, <1>8, <2>2, Fields DEF Dax
  <2>4. Refers(o, p, k)
    BY <1>4, <2>2, <2>3 DEF Refers, RefersToTable
  <2> QED
    BY <2>4 DEF Referenced
<1>9. CASE r.kind = "unqualified" /\ b.type = "measure"
  BY <1>1, <1>4, <1>9, DenotesCases
<1>10. r.kind \in {"sort", "level", "endpoint", "qualified", "unqualified"}
  BY <1>1, <1>4, DenotesCases
<1> QED
  BY <1>4, <1>5, <1>6, <1>7, <1>8, <1>9, <1>10

(* A rename takes a reference along, or the dependency check has left it   *)
(* to the author.                                                          *)
LEMMA RenameKeeps ==
  ASSUME Tree(working), NEW k \in Keys, There(k), NEW n \in Names, ~NameTaken(k, n),
         ~Referenced(working, k), NEW action,
         NEW o \in working, NEW r \in o.refs, NEW b \in working, Denotes(o, r, b)
  PROVE  \/ b \in Family(working, k) /\ LeftToAuthor(o, r, b, k, action)
         \/ Denotes(Renamed(o, k, n), r, Renamed(b, k, n))
<1> DEFINE p == Renamed(o, k, n)
           c == Renamed(b, k, n)
<1>1. o \in Objects /\ b \in Objects /\ r \in References /\ r.kind \in RefKinds
  BY Fields DEF Tree, References
<1>2. ~Refers(o, r, k)
  BY DEF Referenced
<1>3. /\ p.type = o.type
      /\ p.parent = IF PartOf(o, k) THEN n ELSE o.parent
  BY RenamedFields
<1>4. /\ c.type = b.type /\ c.detail = b.detail
      /\ c.name = IF Key(b) = k THEN n ELSE b.name
      /\ c.parent = IF PartOf(b, k) THEN n ELSE b.parent
  BY RenamedFields
<1> HIDE DEF p, c
<1>5. OwnerTable(p, r) = IF o.type = "role" THEN r.owner ELSE p.parent
  BY <1>3 DEF OwnerTable
<1>6. OwnerTable(o, r) = IF o.type = "role" THEN r.owner ELSE o.parent
  BY DEF OwnerTable
<1>7. CASE Key(b) = k
  BY <1>7, TargetLeft DEF Family
<1>8. CASE PartOf(b, k) /\ ~PartOf(o, k)
  <2>1. \/ LeftToAuthor(o, r, b, k, action)
        \/ r.kind = "unqualified" /\ b.type = "measure" /\ b.name = r.name
    BY <1>8, PartLeft
  <2>2. Key(b) # k
    BY <1>8, KeyFields DEF PartOf, TableParts
  <2>3. r.kind = "unqualified" /\ b.type = "measure" /\ b.name = r.name => Denotes(p, r, c)
    BY <1>1, <1>4, <2>2, DenotesCases
  <2> QED
    BY <1>8, <2>1, <2>3 DEF Family, p, c
<1>9. CASE PartOf(b, k) /\ PartOf(o, k)
  <2>1. /\ b.parent = k.name /\ o.parent = k.name
        /\ b.type \in TableParts \cup {"calculation_item"}
    BY <1>9 DEF PartOf
  <2>2. Key(b) # k /\ o.type # "role"
    BY <1>9, KeyFields DEF PartOf, TableParts
  <2>3. b.type \in {"column", "measure"}
    BY <1>1, <2>1, DenotesCases DEF TableParts
  <2>4. k.type = "table"
    BY <1>9, <2>3 DEF PartOf
  <2>5. c.name = b.name /\ c.parent = n /\ p.parent = n
    BY <1>3, <1>4, <1>9, <2>2
  <2>6. CASE r.kind \in {"sort", "level"}
    <3>1. Denotes(p, r, c)
      BY <1>1, <1>4, <2>1, <2>3, <2>5, <2>6, DenotesCases
    <3> QED
      BY <3>1 DEF p, c
  <2>7. CASE r.kind = "endpoint"
    BY <1>1, <1>2, <2>1, <2>3, <2>4, <2>7, DenotesCases DEF Refers, RefersToTable
  <2>8. CASE r.kind = "qualified"
    <3>1. r.table = k.name /\ OwnerTable(o, r) = k.name
      BY <1>1, <1>6, <2>1, <2>2, <2>3, <2>8, DenotesCases
    <3> QED
      BY <1>9, <2>4, <2>8, <3>1 DEF LeftToAuthor, Dax, Family
  <2>9. CASE r.kind = "unqualified"
    <3>1. OwnerTable(p, r) = n
      BY <1>5, <2>2, <2>5
    <3>2. Denotes(p, r, c)
      BY <1>1, <1>3, <1>4, <2>3, <2>5, <2>9, <3>1, DenotesCases
    <3> QED
      BY <3>2 DEF p, c
  <2>10. r.kind \in {"sort", "level", "endpoint", "qualified", "unqualified"}
    BY <1>1, <2>3, DenotesCases
  <2> QED
    BY <2>6, <2>7, <2>8, <2>9, <2>10 DEF p, c
<1>10. CASE Key(b) # k /\ ~PartOf(b, k)
  <2>1. c.type = b.type /\ c.name = b.name /\ c.parent = b.parent /\ c.detail = b.detail
    BY <1>4, <1>10
  <2>2. CASE ~PartOf(o, k)
    <3>1. p.type = o.type /\ p.parent = o.parent /\ OwnerTable(p, r) = OwnerTable(o, r)
      BY <1>3, <1>5, <1>6, <2>2
    <3>2. Denotes(p, r, c)
      BY <1>1, <2>1, <3>1, DenotesCases
    <3> QED
      BY <3>2 DEF p, c
  <2>3. CASE PartOf(o, k)
    <3>1. o.parent = k.name /\ o.type # "role" /\ OwnerTable(o, r) = k.name
      BY <1>6, <2>3 DEF PartOf, TableParts
    <3>2. o.type \in TableParts => k.type = "table"
      BY <2>3 DEF PartOf, TableParts
    <3>3. ~(r.kind \in {"sort", "level"})
      <4> SUFFICES ASSUME r.kind \in {"sort", "level"} PROVE FALSE
        OBVIOUS
      <4>1. o.type \in TableParts
        BY <1>1, Fields DEF TableParts
      <4>2. b.type = "column" /\ b.parent = k.name
        BY <1>1, <3>1, DenotesCases
      <4> QED
        BY <1>10, <3>2, <4>1, <4>2 DEF PartOf, TableParts
    <3>4. ~(r.kind = "unqualified" /\ b.type = "column")
      <4> SUFFICES ASSUME r.kind = "unqualified", b.type = "column" PROVE FALSE
        OBVIOUS
      <4>1. o.type = "column" /\ b.parent = k.name
        BY <1>1, <3>1, DenotesCases
      <4> QED
        BY <1>10, <3>2, <4>1 DEF PartOf, TableParts
    <3>5. Denotes(p, r, c)
      BY <1>1, <2>1, <3>3, <3>4, DenotesCases
    <3> QED
      BY <3>5 DEF p, c
  <2> QED
    BY <2>2, <2>3
<1> QED
  BY <1>7, <1>8, <1>9, <1>10

(* A delete leaves what stays as it was, and what goes was left to the     *)
(* author.                                                                 *)
LEMMA DeleteKeeps ==
  ASSUME Tree(working), NEW k \in Keys, There(k), ~Referenced(working, k),
         NEW o \in working, o \notin Family(working, k),
         NEW r \in o.refs, NEW b \in working, Denotes(o, r, b)
  PROVE  \/ b \in Family(working, k) /\ LeftToAuthor(o, r, b, k, "delete")
         \/ b \notin Family(working, k) /\ Denotes(WithoutItem(o, k), r, WithoutItem(b, k))
<1> DEFINE p == WithoutItem(o, k)
           c == WithoutItem(b, k)
<1>1. o \in Objects /\ b \in Objects /\ r \in References /\ r.kind \in RefKinds
  BY Fields DEF Tree, References
<1>2. p.type = o.type /\ p.parent = o.parent
  BY WithoutItemFields
<1>3. c.type = b.type /\ c.name = b.name /\ c.parent = b.parent /\ c.detail = b.detail
  BY WithoutItemFields
<1> HIDE DEF p, c
<1>4. OwnerTable(p, r) = OwnerTable(o, r)
  BY <1>2 DEF OwnerTable
<1>5. Denotes(p, r, c)
  BY <1>1, <1>2, <1>3, <1>4, DenotesCases
<1>6. CASE Key(b) = k
  BY <1>6, TargetLeft DEF Family
<1>7. CASE PartOf(b, k)
  <2>1. ~PartOf(o, k)
    BY DEF Family
  <2>2. \/ LeftToAuthor(o, r, b, k, "delete")
        \/ k.type = "table" /\ r.kind = "unqualified" /\ b.type = "measure"
    BY <1>7, <2>1, PartLeft
  <2>3. LeftToAuthor(o, r, b, k, "delete")
    BY <2>2 DEF LeftToAuthor
  <2> QED
    BY <1>7, <2>3 DEF Family
<1>8. CASE b \notin Family(working, k)
  BY <1>5, <1>8 DEF p, c
<1> QED
  BY <1>6, <1>7, <1>8 DEF Family

-----------------------------------------------------------------------------
(* TypeOK, one step per action.                                            *)
LEMMA BeginType ==
  ASSUME TypeOK, Begin
  PROVE  TypeOK'
<1>1. Tree(working)
  BY DEF TypeOK, Tree
<1>2. Tree(working')
  <2>1. CASE Valid(original)
    <3>1. original \in Models /\ KeysUnique(original)
      BY <2>1 DEF TypeOK, Valid, NamesUnique
    <3>2. working' = {[o EXCEPT !.was = Key(o)] : o \in original}
      BY <2>1 DEF Begin
    <3>3. Tree({[o EXCEPT !.was = Key(o)] : o \in original})
      BY <3>1, BeginTree
    <3> QED
      BY <3>2, <3>3
  <2>2. CASE ~Valid(original)
    BY <1>1, <2>2 DEF Begin
  <2> QED
    BY <2>1, <2>2
<1>3. original' = original /\ applied' = applied /\ movesOnly' = movesOnly /\ outcome' \in {"open", "invalid"}
  BY DEF Begin
<1> QED
  BY <1>2, <1>3 DEF TypeOK, Tree

(* An error leaves everything as it was.                                   *)
LEMMA FailType ==
  ASSUME TypeOK, NEW error \in {"duplicate", "missing", "noParent", "mismatch", "conflict"}, Fail(error)
  PROVE  TypeOK'
  BY DEF TypeOK, Fail

(* A change that is applied, once its model is known to be in order.       *)
LEMMA ApplyType ==
  ASSUME TypeOK, applied < MaxChanges, NEW model, Tree(model), Apply(model), movesOnly' \in BOOLEAN
  PROVE  TypeOK'
<1>1. applied' \in 0..MaxChanges
  BY BoundAssumption DEF TypeOK, Apply
<1>2. Tree(working')
  BY DEF Apply
<1> QED
  BY <1>1, <1>2 DEF TypeOK, Apply, Tree

(* A change, by its action.                                                *)
LEMMA ChangeType ==
  ASSUME TypeOK, Change
  PROVE  TypeOK'
<1>1. PICK change \in Changes :
        IF ParentThere(change.target)
          THEN Create(change) \/ Update(change) \/ Delete(change) \/ Rename(change)
          ELSE Fail("noParent")
  BY DEF Change
<1>2. Tree(working) /\ applied < MaxChanges /\ movesOnly \in BOOLEAN
  BY DEF TypeOK, Tree, Change
<1>3. change.target \in Keys /\ (change.action = "rename" => change.newName \in Names)
  BY ChangesAssumption
<1>4. CASE ~ParentThere(change.target)
  BY <1>1, <1>4, FailType
<1>5. ASSUME ParentThere(change.target), Create(change) PROVE TypeOK'
  <2> DEFINE m == {WithItem(o, change.target) : o \in working} \cup change.value
  <2>1. \/ Fail("duplicate") \/ Fail("mismatch")
        \/ ~There(change.target) /\ Find(change.value, change.target) # {} /\ Put(m)
    BY <1>5 DEF Create
  <2>2. ASSUME ~There(change.target), Find(change.value, change.target) # {}, Put(m) PROVE TypeOK'
    <3>1. Tree(m)
      BY <1>2, <1>5, <2>2, CreateTree DEF Create
    <3> HIDE DEF m
    <3> QED
      BY <1>2, <2>2, <3>1, ApplyType DEF Put
  <2> QED
    BY <2>1, <2>2, FailType
<1>6. ASSUME Update(change) PROVE TypeOK'
  <2> DEFINE m == (working \ Family(working, change.target)) \cup change.value
  <2>1. \/ Fail("missing") \/ Fail("mismatch")
        \/ There(change.target) /\ Find(change.value, change.target) # {} /\ Put(m)
    BY <1>6 DEF Update
  <2>2. ASSUME There(change.target), Find(change.value, change.target) # {}, Put(m) PROVE TypeOK'
    <3>1. Tree(m)
      BY <1>2, <1>6, <2>2, UpdateTree DEF Update
    <3> HIDE DEF m
    <3> QED
      BY <1>2, <2>2, <3>1, ApplyType DEF Put
  <2> QED
    BY <2>1, <2>2, FailType
<1>7. ASSUME Delete(change) PROVE TypeOK'
  <2> DEFINE m == {WithoutItem(o, change.target) : o \in working \ Family(working, change.target)}
  <2>1. \/ Fail("missing") \/ Fail("conflict")
        \/ There(change.target) /\ Move(m, change.target, change.action)
    BY <1>7 DEF Delete
  <2>2. ASSUME There(change.target), Move(m, change.target, change.action) PROVE TypeOK'
    <3>1. Tree(m)
      BY <1>2, <1>3, <2>2, DeleteTree
    <3> HIDE DEF m
    <3> QED
      BY <1>2, <2>2, <3>1, ApplyType DEF Move
  <2> QED
    BY <2>1, <2>2, FailType
<1>8. ASSUME Rename(change) PROVE TypeOK'
  <2> DEFINE m == {Renamed(o, change.target, change.newName) : o \in working}
  <2>1. \/ Fail("missing") \/ Fail("duplicate") \/ Fail("conflict")
        \/ /\ There(change.target) /\ ~NameTaken(change.target, change.newName)
           /\ Move(m, change.target, change.action)
    BY <1>8 DEF Rename
  <2>2. ASSUME There(change.target), ~NameTaken(change.target, change.newName),
               Move(m, change.target, change.action)
        PROVE  TypeOK'
    <3>1. change.newName \in Names
      BY <1>3, <1>8 DEF Rename
    <3>2. Tree(m)
      BY <1>2, <1>3, <2>2, <3>1, RenameTree
    <3> HIDE DEF m
    <3> QED
      BY <1>2, <2>2, <3>2, ApplyType DEF Move
  <2> QED
    BY <2>1, <2>2, FailType
<1> QED
  BY <1>1, <1>4, <1>5, <1>6, <1>7, <1>8

(* The end of the batch.                                                   *)
LEMMA FinishType ==
  ASSUME TypeOK, Finish
  PROVE  TypeOK'
  BY DEF TypeOK, Finish

-----------------------------------------------------------------------------
(* BindingsKept, for the actions that keep to deletes and renames.         *)
LEMMA WaivedMember ==
  ASSUME NEW k, NEW action, NEW o \in working, NEW r \in o.refs, NEW b \in Family(working, k),
         Denotes(o, r, b), LeftToAuthor(o, r, b, k, action)
  PROVE  <<o.was, r, b.was>> \in Waived(k, action)
  BY DEF Waived

(* The copy is taken: every reference denotes what it did.                 *)
LEMMA BeginBindings ==
  ASSUME TypeOK, Begin, BindingsKept
  PROVE  BindingsKept'
<1>1. CASE ~Valid(original)
  BY <1>1 DEF Begin, BindingsKept, Origin, Denoted, StillDenotes
<1>2. CASE Valid(original)
  <2> DEFINE W(o) == [o EXCEPT !.was = Key(o)]
  <2>1. original \in SUBSET Objects /\ KeysUnique(original)
    BY <1>2, ModelsAssumption DEF TypeOK, Valid, NamesUnique
  <2>2. working' = {W(o) : o \in original} /\ original' = original
    BY <1>2 DEF Begin
  <2>3. \A o \in original :
          /\ W(o).was = Key(o) /\ W(o).type = o.type /\ W(o).name = o.name /\ W(o).parent = o.parent
          /\ W(o).refs = o.refs /\ W(o).detail = o.detail
    BY <2>1, WithOrigin
  <2> HIDE DEF W
  <2>4. ASSUME NEW o \in original, NEW r \in o.refs, NEW b \in original, Denotes(o, r, b)
        PROVE  Denotes(W(o), r, W(b))
    <3>1. r.kind \in RefKinds
      BY <2>1, Fields DEF References
    <3>2. OwnerTable(W(o), r) = OwnerTable(o, r)
      BY <2>3 DEF OwnerTable
    <3> QED
      BY <2>3, <2>4, <3>1, <3>2, DenotesCases
  <2>5. ASSUME NEW o \in original PROVE (CHOOSE p \in original : Key(p) = W(o).was) = o
    BY <2>1, <2>3 DEF KeysUnique
  <2>6. ASSUME NEW o \in original, NEW r \in W(o).refs, NEW b \in original, Denotes(o, r, b)
        PROVE  \E now \in working' : Denotes(W(o), r, now) /\ now.was = Key(b)
    BY <2>2, <2>3, <2>4, <2>6
  <2>7. ASSUME NEW o \in original, NEW r \in W(o).refs, NEW b \in Denoted(original, o, r)
        PROVE  StillDenotes(W(o), r, Key(b))'
    BY <2>6 DEF Denoted, StillDenotes
  <2>8. ASSUME NEW o \in original PROVE Origin(W(o))' = o
    BY <2>2, <2>5 DEF Origin
  <2> QED
    BY <2>2, <2>7, <2>8 DEF BindingsKept
<1> QED
  BY <1>1, <1>2

(* A delete: what was denoted stays or has been waived.                    *)
LEMMA DeleteBindings ==
  ASSUME TypeOK, BindingsKept, NEW change \in Changes, change.action = "delete", There(change.target),
         ~Referenced(working, change.target),
         Move({WithoutItem(o, change.target) : o \in working \ Family(working, change.target)},
              change.target, change.action)
  PROVE  BindingsKept'
<1> DEFINE k == change.target
           W(o) == WithoutItem(o, k)
<1>1. Tree(working) /\ k \in Keys
  BY ChangesAssumption DEF TypeOK, Tree
<1>2. /\ working' = {W(o) : o \in working \ Family(working, k)}
      /\ original' = original /\ movesOnly' = movesOnly
      /\ waived' = waived \cup Waived(k, "delete")
  BY DEF Move, Apply
<1>3. \A o \in working : W(o).refs = o.refs /\ W(o).was = o.was
  BY <1>1, WithoutItemFields
<1>4. ASSUME NEW o \in working, o \notin Family(working, k), NEW r \in o.refs, NEW now \in working,
             Denotes(o, r, now)
      PROVE  \/ <<o.was, r, now.was>> \in Waived(k, "delete")
             \/ W(now) \in working' /\ Denotes(W(o), r, W(now)) /\ W(now).was = now.was
  <2>1. \/ now \in Family(working, k) /\ LeftToAuthor(o, r, now, k, "delete")
        \/ now \notin Family(working, k) /\ Denotes(W(o), r, W(now))
    BY <1>1, <1>4, DeleteKeeps
  <2> HIDE DEF W, k
  <2> QED
    BY <1>2, <1>3, <1>4, <2>1, WaivedMember
<1> HIDE DEF W, k
<1>5. ASSUME movesOnly, NEW o \in working, o \notin Family(working, k), NEW r \in o.refs,
             NEW b \in Denoted(original, Origin(o), r)
      PROVE  \/ <<o.was, r, Key(b)>> \in waived'
             \/ \E now \in working' : Denotes(W(o), r, now) /\ now.was = Key(b)
  <2>1. <<o.was, r, Key(b)>> \in waived \/ \E now \in working : Denotes(o, r, now) /\ now.was = Key(b)
    BY <1>5 DEF BindingsKept, StillDenotes, Denoted
  <2> QED
    BY <1>2, <1>4, <1>5, <2>1
<1>6. ASSUME NEW o \in working PROVE Origin(W(o))' = Origin(o)
  BY <1>2, <1>3 DEF Origin
<1> QED
  BY <1>2, <1>3, <1>5, <1>6 DEF BindingsKept, Denoted, StillDenotes

(* A rename: the same.                                                     *)
LEMMA RenameBindings ==
  ASSUME TypeOK, BindingsKept, NEW change \in Changes, change.action = "rename", There(change.target),
         ~NameTaken(change.target, change.newName), ~Referenced(working, change.target),
         Move({Renamed(o, change.target, change.newName) : o \in working}, change.target, change.action)
  PROVE  BindingsKept'
<1> DEFINE k == change.target
           n == change.newName
           W(o) == Renamed(o, k, n)
<1>1. Tree(working) /\ k \in Keys /\ n \in Names
  BY ChangesAssumption DEF TypeOK, Tree
<1>2. /\ working' = {W(o) : o \in working}
      /\ original' = original /\ movesOnly' = movesOnly
      /\ waived' = waived \cup Waived(k, "rename")
  BY DEF Move, Apply
<1>3. \A o \in working : W(o).refs = o.refs /\ W(o).was = o.was
  BY <1>1, RenamedFields
<1>4. ASSUME NEW o \in working, NEW r \in o.refs, NEW now \in working, Denotes(o, r, now)
      PROVE  \/ <<o.was, r, now.was>> \in Waived(k, "rename")
             \/ W(now) \in working' /\ Denotes(W(o), r, W(now)) /\ W(now).was = now.was
  <2>1. \/ now \in Family(working, k) /\ LeftToAuthor(o, r, now, k, "rename")
        \/ Denotes(W(o), r, W(now))
    BY <1>1, <1>4, RenameKeeps
  <2> HIDE DEF W, k, n
  <2> QED
    BY <1>2, <1>3, <1>4, <2>1, WaivedMember
<1> HIDE DEF W, k, n
<1>5. ASSUME movesOnly, NEW o \in working, NEW r \in o.refs, NEW b \in Denoted(original, Origin(o), r)
      PROVE  \/ <<o.was, r, Key(b)>> \in waived'
             \/ \E now \in working' : Denotes(W(o), r, now) /\ now.was = Key(b)
  <2>1. <<o.was, r, Key(b)>> \in waived \/ \E now \in working : Denotes(o, r, now) /\ now.was = Key(b)
    BY <1>5 DEF BindingsKept, StillDenotes, Denoted
  <2> QED
    BY <1>2, <1>4, <1>5, <2>1
<1>6. ASSUME NEW o \in working PROVE Origin(W(o))' = Origin(o)
  BY <1>2, <1>3 DEF Origin
<1> QED
  BY <1>2, <1>3, <1>5, <1>6 DEF BindingsKept, Denoted, StillDenotes

-----------------------------------------------------------------------------
(* The invariant, from the empty copy on.                                  *)
LEMMA InitInv == Init => Inv
<1> SUFFICES ASSUME Init PROVE Inv
  OBVIOUS
<1>1. working = {} /\ original \in Models /\ applied = 0 /\ outcome = "start" /\ movesOnly = TRUE
  BY DEF Init
<1>2. Tree({})
  BY DEF Tree, ParentsThere, OrdersOK, KeysUnique
<1>3. TypeOK
  BY <1>1, <1>2, BoundAssumption DEF TypeOK, Tree
<1>4. BindingsKept
  BY <1>1 DEF BindingsKept
<1> QED
  BY <1>3, <1>4 DEF Inv

(* What neither touches the copy nor the caller's model keeps the bindings.*)
LEMMA SameBindings ==
  ASSUME BindingsKept, UNCHANGED <<original, working, movesOnly, waived>>
  PROVE  BindingsKept'
  BY DEF BindingsKept, Origin, Denoted, StillDenotes

(* The invariant, one step per action.                                     *)
LEMMA NextInv == Inv /\ [Next]_vars => Inv'
<1> SUFFICES ASSUME Inv, [Next]_vars PROVE Inv'
  OBVIOUS
<1>1. TypeOK /\ BindingsKept
  BY DEF Inv
<1>2. CASE Begin
  BY <1>1, <1>2, BeginType, BeginBindings DEF Inv
<1>3. CASE Change
  <2>1. TypeOK'
    BY <1>1, <1>3, ChangeType
  <2>2. PICK change \in Changes :
          \/ Create(change) \/ Update(change) \/ Delete(change) \/ Rename(change) \/ Fail("noParent")
    BY <1>3 DEF Change
  <2>3. ASSUME NEW error, Fail(error) PROVE BindingsKept'
    BY <1>1, <2>3, SameBindings DEF Fail
  <2>4. ASSUME NEW model, Put(model) PROVE BindingsKept'
    BY <2>4 DEF Put, BindingsKept
  <2>5. ASSUME Create(change) PROVE BindingsKept'
    <3>1. \/ Fail("duplicate") \/ Fail("mismatch")
          \/ Put({WithItem(o, change.target) : o \in working} \cup change.value)
      BY <2>5 DEF Create
    <3> QED
      BY <2>3, <2>4, <3>1
  <2>6. ASSUME Update(change) PROVE BindingsKept'
    <3>1. \/ Fail("missing") \/ Fail("mismatch")
          \/ Put((working \ Family(working, change.target)) \cup change.value)
      BY <2>6 DEF Update
    <3> QED
      BY <2>3, <2>4, <3>1
  <2>7. ASSUME Delete(change) PROVE BindingsKept'
    <3>1. \/ Fail("missing") \/ Fail("conflict")
          \/ /\ change.action = "delete" /\ There(change.target) /\ ~Referenced(working, change.target)
             /\ Move({WithoutItem(o, change.target) : o \in working \ Family(working, change.target)},
                     change.target, change.action)
      BY <2>7 DEF Delete
    <3> QED
      BY <1>1, <2>3, <3>1, DeleteBindings
  <2>8. ASSUME Rename(change) PROVE BindingsKept'
    <3>1. \/ Fail("missing") \/ Fail("duplicate") \/ Fail("conflict")
          \/ /\ change.action = "rename" /\ There(change.target)
             /\ ~NameTaken(change.target, change.newName) /\ ~Referenced(working, change.target)
             /\ Move({Renamed(o, change.target, change.newName) : o \in working},
                     change.target, change.action)
      BY <2>8 DEF Rename
    <3> QED
      BY <1>1, <2>3, <3>1, RenameBindings
  <2> QED
    BY <2>1, <2>2, <2>3, <2>5, <2>6, <2>7, <2>8 DEF Inv
<1>4. CASE Finish
  <2>1. BindingsKept'
    BY <1>1, <1>4, SameBindings DEF Finish
  <2> QED
    BY <1>1, <1>4, <2>1, FinishType DEF Inv
<1>5. CASE UNCHANGED vars
  <2>1. BindingsKept'
    BY <1>1, <1>5, SameBindings DEF vars
  <2>2. TypeOK'
    BY <1>1, <1>5 DEF vars, TypeOK
  <2> QED
    BY <2>1, <2>2 DEF Inv
<1> QED
  BY <1>2, <1>3, <1>4, <1>5 DEF Next

(* The engine keeps to its invariant.                                      *)
THEOREM Invariance == Spec => []Inv
  BY InitInv, NextInv, PTL DEF Spec

(* After any batch the engine's copy can be looked up in: every part of a  *)
(* table or group has its parent, a group's order lists each of its items  *)
(* once, and no two objects have the same key, although each change        *)
(* rewrites part of the model by itself and nothing validates in between.  *)
THEOREM TypeCorrect == Spec => []TypeOK
  BY Invariance, PTL DEF Inv

(* However many deletes and renames a batch strings together, a reference  *)
(* that is left denotes what it denoted before the batch, unless the       *)
(* dependency check of one of them left it to the author.                  *)
THEOREM BindingsAreKept == Spec => []BindingsKept
  BY Invariance, PTL DEF Inv

-----------------------------------------------------------------------------
(* The search for circular measures, of validation.ts.                     *)

(* b is in every set that contains a's dependencies and their dependencies.*)
Reaches(a, b) == \A S \in SUBSET Measures : graph[a] \subseteq S /\ Closed(S) => b \in S

OnStack(m) == \E i \in 1..Len(stack) : stack[i] = m

(* The path is what is being visited, and each of its measures reaches     *)
(* those above it.                                                         *)
PathOK ==
  /\ \A m \in Measures : m \in visiting <=> OnStack(m)
  /\ \A i \in 1..Len(stack) : remaining[stack[i]] \subseteq graph[stack[i]]
  /\ \A i, j \in 1..Len(stack) : i < j => Reaches(stack[i], stack[j])

(* Every measure has yet to be reached, is on the path, or is visited.     *)
Covered == \A m \in Measures : m \in todo \cup visiting \cup visited

(* As long as nothing is reported: what is visited depends only on what is *)
(* visited, and so do the measures on the path, but for the next one on it *)
(* and what remains of them.                                               *)
VisitedDown == \A v \in visited : graph[v] \subseteq visited
PathDown ==
  \A i \in 1..Len(stack) : \A d \in graph[stack[i]] :
    \/ d \in remaining[stack[i]]
    \/ d \in visited
    \/ i < Len(stack) /\ d = stack[i + 1]
NoneCircular == \A S \in SUBSET visited : ~Circular(S)
Explored == reported = {} => VisitedDown /\ PathDown /\ NoneCircular

SearchInv == SearchTypeOK /\ PathOK /\ Covered /\ EnteredOnce /\ ReportsAreCycles /\ Explored

-----------------------------------------------------------------------------
(* The graph of dependencies.                                              *)
LEMMA GraphType ==
  ASSUME SearchTypeOK
  PROVE  graph \in [Measures -> SUBSET Measures]
BY DEF graph, NamesMeasure

(* It is built once, from the input.                                       *)
LEMMA GraphUnchanged ==
  ASSUME UNCHANGED input
  PROVE  graph' = graph
BY DEF graph, input, NamesMeasure

(* The measure whose dependencies are being visited.                       *)
LEMMA TopOnStack ==
  ASSUME SearchTypeOK, stack # <<>>
  PROVE  Len(stack) \in 1..Len(stack) /\ Top \in Measures /\ Top = stack[Len(stack)]
BY DEF SearchTypeOK, Top

(* The invariant of the search, from the empty path on.                    *)
LEMMA SearchInitInv == SearchInit => SearchInv
<1> SUFFICES ASSUME SearchInit PROVE SearchInv
  OBVIOUS
<1>1. SearchTypeOK
  BY DEF SearchInit, SearchTypeOK
<1>2. Len(stack) = 0 /\ 1..Len(stack) = {}
  BY DEF SearchInit
<1>3. PathOK /\ Covered /\ EnteredOnce
  BY <1>2 DEF SearchInit, PathOK, OnStack, Covered, EnteredOnce
<1>4. ReportsAreCycles
  BY DEF SearchInit, ReportsAreCycles
<1>5. Explored
  BY <1>2 DEF SearchInit, Explored, VisitedDown, PathDown, NoneCircular, Circular
<1> QED
  BY <1>1, <1>3, <1>4, <1>5 DEF SearchInv

-----------------------------------------------------------------------------
(* Where visit(m) is called from: the outer loop, or the loop over the     *)
(* dependencies of the measure on top of the path.                         *)
Called(m, left) ==
  \/ /\ stack = <<>>
     /\ m \in todo
     /\ left = remaining
     /\ todo' = todo \ {m}
  \/ /\ stack # <<>>
     /\ m \in remaining[Top]
     /\ left = [remaining EXCEPT ![Top] = @ \ {m}]
     /\ todo' = todo

(* What the loop that called m leaves for later.                           *)
LEMMA LeftOver ==
  ASSUME SearchInv, NEW m, NEW left, Called(m, left)
  PROVE  /\ m \in Measures
         /\ left \in [Measures -> SUBSET Measures]
         /\ \A v \in Measures : left[v] \subseteq remaining[v]
         /\ \A v \in Measures : \A d \in remaining[v] :
              d \in left[v] \/ (stack # <<>> /\ v = Top /\ d = m)
<1>1. SearchTypeOK
  BY DEF SearchInv
<1>2. CASE stack = <<>>
  BY <1>1, <1>2 DEF Called, SearchTypeOK
<1>3. CASE stack # <<>>
  BY <1>1, <1>3, TopOnStack DEF Called, SearchTypeOK
<1> QED
  BY <1>2, <1>3

(* A measure called from the path is reached by the whole path.            *)
LEMMA PathReachesCalled ==
  ASSUME SearchInv, NEW m, NEW left, Called(m, left), NEW i \in 1..Len(stack)
  PROVE  Reaches(stack[i], m)
<1>1. stack # <<>> /\ m \in remaining[Top]
  BY DEF Called, SearchInv, SearchTypeOK
<1>2. m \in graph[Top] /\ Len(stack) \in 1..Len(stack) /\ Top = stack[Len(stack)]
  BY <1>1, TopOnStack DEF SearchInv, PathOK
<1>3. CASE i = Len(stack)
  BY <1>2, <1>3 DEF Reaches
<1>4. CASE i < Len(stack)
  <2>1. Reaches(stack[i], Top)
    BY <1>2, <1>4 DEF SearchInv, PathOK
  <2> QED
    BY <1>2, <2>1 DEF Reaches, Closed
<1> QED
  BY <1>2, <1>3, <1>4 DEF SearchInv, SearchTypeOK

-----------------------------------------------------------------------------
(* visit(m) of a measure that is done: nothing happens.                    *)
LEMMA SeenInv ==
  ASSUME SearchInv, NEW m, NEW left, Called(m, left), Seen(m), remaining' = left,
         UNCHANGED <<input, stack, visiting, visited, reported>>
  PROVE  SearchInv'
<1>1. graph' = graph
  BY GraphUnchanged
<1>2. /\ m \in Measures /\ m \in visited
      /\ left \in [Measures -> SUBSET Measures]
      /\ \A v \in Measures : left[v] \subseteq remaining[v]
      /\ \A v \in Measures : \A d \in remaining[v] : d \in left[v] \/ d = m
  BY LeftOver DEF Seen
<1>3. SearchTypeOK'
  BY <1>2 DEF SearchInv, SearchTypeOK, Called, input
<1>4. stack' = stack /\ \A i \in 1..Len(stack) : stack[i] \in Measures
  BY DEF SearchInv, SearchTypeOK
<1>5. PathOK'
  BY SMTT(90), <1>1, <1>2, <1>4 DEF SearchInv, PathOK, OnStack, Reaches, Closed
<1>6. Covered'
  BY <1>2 DEF SearchInv, Covered, Called
<1>7. EnteredOnce' /\ ReportsAreCycles'
  BY <1>1 DEF SearchInv, EnteredOnce, ReportsAreCycles, ParticipatesInCycle, Closed
<1>8. Explored'
  <2> SUFFICES ASSUME reported = {} PROVE VisitedDown' /\ PathDown' /\ NoneCircular'
    BY DEF Explored
  <2>1. VisitedDown' /\ NoneCircular'
    BY <1>1 DEF SearchInv, Explored, VisitedDown, NoneCircular, Circular
  <2>2. PathDown
    BY DEF SearchInv, Explored
  <2>3. PathDown'
    BY <1>1, <1>2, <1>4, <2>2 DEF PathDown
  <2> QED
    BY <2>1, <2>3
<1> QED
  BY <1>3, <1>5, <1>6, <1>7, <1>8 DEF SearchInv

(* visit(m) of a measure on the path: m is on a cycle.                     *)
LEMMA ReportInv ==
  ASSUME SearchInv, NEW m, NEW left, Called(m, left), ~Seen(m), OnPath(m),
         remaining' = left, reported' = WithMeasure(m),
         UNCHANGED <<input, stack, visiting, visited>>
  PROVE  SearchInv'
<1>1. graph' = graph
  BY GraphUnchanged
<1>2. /\ m \in Measures /\ m \in visiting
      /\ left \in [Measures -> SUBSET Measures]
      /\ \A v \in Measures : left[v] \subseteq remaining[v]
  BY LeftOver DEF OnPath
<1>3. SearchTypeOK'
  BY <1>2 DEF SearchInv, SearchTypeOK, Called, input, WithMeasure
<1>4. stack' = stack /\ \A i \in 1..Len(stack) : stack[i] \in Measures
  BY DEF SearchInv, SearchTypeOK
<1>5. PathOK'
  BY ZenonT(60), <1>1, <1>2, <1>4 DEF SearchInv, PathOK, OnStack, Reaches, Closed
<1>6. Covered'
  BY <1>2 DEF SearchInv, Covered, Called
<1>7. EnteredOnce'
  BY DEF SearchInv, EnteredOnce
<1>8. ReportsAreCycles'
  <2>1. PICK i \in 1..Len(stack) : stack[i] = m
    BY <1>2 DEF SearchInv, PathOK, OnStack
  <2>2. Reaches(m, m)
    BY <2>1, PathReachesCalled
  <2>3. ParticipatesInCycle(m)
    BY <2>2 DEF Reaches, ParticipatesInCycle
  <2> QED
    BY <1>1, <2>3 DEF SearchInv, ReportsAreCycles, ParticipatesInCycle, Closed, WithMeasure
<1>9. Explored'
  BY DEF Explored, WithMeasure
<1> QED
  BY <1>3, <1>5, <1>6, <1>7, <1>8, <1>9 DEF SearchInv

(* visit(m) of a new measure: the path grows by it.                        *)
LEMMA EnterInv ==
  ASSUME SearchInv, NEW m, NEW left, Called(m, left), ~Seen(m), ~OnPath(m),
         visiting' = visiting \cup {m}, stack' = Append(stack, m),
         remaining' = [left EXCEPT ![m] = graph[m]],
         UNCHANGED <<input, visited, reported>>
  PROVE  SearchInv'
<1>1. graph' = graph /\ graph \in [Measures -> SUBSET Measures]
  BY GraphUnchanged, GraphType DEF SearchInv
<1>2. /\ m \in Measures /\ m \notin visited /\ m \notin visiting
      /\ left \in [Measures -> SUBSET Measures]
      /\ \A v \in Measures : left[v] \subseteq remaining[v]
      /\ \A v \in Measures : \A d \in remaining[v] :
           d \in left[v] \/ (stack # <<>> /\ v = Top /\ d = m)
  BY LeftOver DEF OnPath, Seen
<1>3. SearchTypeOK'
  BY <1>1, <1>2 DEF SearchInv, SearchTypeOK, Called, input
<1>4. /\ Len(stack) \in Nat /\ Len(stack') = Len(stack) + 1
      /\ stack'[Len(stack) + 1] = m
      /\ \A i \in 1..Len(stack) : stack[i] \in Measures /\ stack'[i] = stack[i] /\ stack[i] # m
  BY <1>2 DEF SearchInv, SearchTypeOK, PathOK, OnStack
<1>5. /\ remaining'[m] = graph[m]
      /\ \A i \in 1..Len(stack) : remaining'[stack[i]] = left[stack[i]]
  BY <1>2, <1>4
<1>6. PathOK'
  <2>1. (\A v \in Measures : v \in visiting <=> OnStack(v))'
    BY <1>4, <1>2 DEF SearchInv, PathOK, OnStack
  <2>2. (\A i \in 1..Len(stack) : remaining[stack[i]] \subseteq graph[stack[i]])'
    BY <1>1, <1>2, <1>4, <1>5 DEF SearchInv, PathOK
  <2>3. ASSUME NEW i \in 1..Len(stack'), NEW j \in 1..Len(stack'), i < j
        PROVE  Reaches(stack'[i], stack'[j])
    <3>1. i \in 1..Len(stack) /\ stack'[i] = stack[i]
      BY <1>4, <2>3
    <3>2. CASE j \in 1..Len(stack)
      BY <1>4, <2>3, <3>1, <3>2 DEF SearchInv, PathOK
    <3>3. CASE j = Len(stack) + 1
      BY <1>4, <3>1, <3>3, PathReachesCalled
    <3> QED
      BY <1>4, <2>3, <3>2, <3>3
  <2>4. (\A i, j \in 1..Len(stack) : i < j => Reaches(stack[i], stack[j]))'
    BY <1>1, <2>3 DEF Reaches, Closed
  <2> QED
    BY <2>1, <2>2, <2>4 DEF PathOK
<1>7. Covered'
  BY <1>2 DEF SearchInv, Covered, Called
<1>8. EnteredOnce'
  BY <1>2, <1>4 DEF SearchInv, EnteredOnce
<1>9. ReportsAreCycles'
  BY <1>1 DEF SearchInv, ReportsAreCycles, ParticipatesInCycle, Closed
<1>10. Explored'
  <2> SUFFICES ASSUME reported = {} PROVE VisitedDown' /\ PathDown' /\ NoneCircular'
    BY DEF Explored
  <2>1. VisitedDown' /\ NoneCircular'
    BY <1>1 DEF SearchInv, Explored, VisitedDown, NoneCircular, Circular
  <2>2. PathDown
    BY DEF SearchInv, Explored
  <2>3. ASSUME NEW i \in 1..Len(stack), NEW d \in graph[stack[i]]
        PROVE  d \in remaining'[stack[i]] \/ d \in visited \/ d = stack'[i + 1]
    <3>1. CASE d \in remaining[stack[i]] /\ d \notin left[stack[i]]
      <4>1. stack[i] = Top /\ d = m
        BY <1>2, <1>4, <3>1
      <4>2. i = Len(stack)
        BY <1>4, <4>1 DEF SearchInv, EnteredOnce, Top
      <4> QED
        BY <1>4, <4>1, <4>2
    <3>2. CASE d \in left[stack[i]]
      BY <1>5, <3>2
    <3>3. CASE i < Len(stack) /\ d = stack[i + 1]
      BY <1>4, <3>3
    <3> QED
      BY <2>2, <3>1, <3>2, <3>3 DEF PathDown
  <2>4. PathDown'
    BY <1>1, <1>4, <1>5, <2>3 DEF PathDown
  <2> QED
    BY <2>1, <2>4
<1> QED
  BY <1>3, <1>6, <1>7, <1>8, <1>9, <1>10 DEF SearchInv

(* The measure on top of the path has nothing left: all it depends on is   *)
(* visited, so it closes no circle of visited measures.                    *)
LEMMA ReturnInv ==
  ASSUME SearchInv, Return
  PROVE  SearchInv'
<1> DEFINE n == Len(stack)
<1>1. graph' = graph /\ graph \in [Measures -> SUBSET Measures]
  BY GraphUnchanged, GraphType DEF SearchInv, Return
<1>2. n \in 1..n /\ Top \in Measures /\ Top = stack[n] /\ n \in Nat
  BY TopOnStack DEF SearchInv, Return, SearchTypeOK
<1>3. /\ Len(stack') = n - 1
      /\ \A i \in 1..(n - 1) : stack'[i] = stack[i]
      /\ \A i \in 1..(n - 1) : stack[i] # Top /\ stack[i] \in Measures
  <2>1. stack \in Seq(Measures) /\ stack' = SubSeq(stack, 1, n - 1)
    BY DEF SearchInv, SearchTypeOK, Return
  <2>2. \A i \in 1..(n - 1) : stack[i] # stack[n]
    BY <1>2 DEF SearchInv, EnteredOnce
  <2>3. Len(stack') = n - 1 /\ \A i \in 1..(n - 1) : stack'[i] = stack[i]
    <3> HIDE DEF n
    <3>1. n = Len(stack)
      BY DEF n
    <3> QED
      BY <1>2, <2>1, <3>1
  <2>4. \A i \in 1..(n - 1) : i \in 1..n /\ stack[i] \in Measures
    BY <1>2, <2>1
  <2> QED
    BY <1>2, <2>2, <2>3, <2>4
<1>4. SearchTypeOK'
  <2>1. stack' \in Seq(Measures)
    BY <1>2 DEF SearchInv, SearchTypeOK, Return
  <2> QED
    BY <1>2, <2>1 DEF SearchInv, SearchTypeOK, Return, input
<1>5. PathOK'
  <2>1. ASSUME NEW m \in Measures
        PROVE  m \in visiting' <=> \E i \in 1..(n - 1) : stack[i] = m
    <3>1. m \in visiting <=> \E i \in 1..n : stack[i] = m
      BY DEF SearchInv, PathOK, OnStack
    <3>2. m \in visiting' <=> m \in visiting /\ m # Top
      BY DEF Return
    <3> QED
      BY <1>2, <1>3, <3>1, <3>2
  <2>2. (\A m \in Measures : m \in visiting <=> OnStack(m))'
    BY <1>3, <2>1 DEF OnStack
  <2>3. remaining' = remaining /\ \A i \in 1..(n - 1) : i \in 1..n
    BY <1>2 DEF Return
  <2>4. (\A i \in 1..Len(stack) : remaining[stack[i]] \subseteq graph[stack[i]])'
    BY <1>1, <1>3, <2>3 DEF SearchInv, PathOK
  <2>5. (\A i, j \in 1..Len(stack) : i < j => Reaches(stack[i], stack[j]))'
    BY <1>1, <1>3, <2>3 DEF SearchInv, PathOK, Reaches, Closed
  <2> QED
    BY <2>2, <2>4, <2>5 DEF PathOK
<1>6. Covered'
  BY DEF SearchInv, Covered, Return
<1>7. EnteredOnce'
  <2>1. ASSUME NEW i \in 1..(n - 1) PROVE stack[i] \notin visited'
    BY <1>2, <1>3 DEF SearchInv, EnteredOnce, Return
  <2> QED
    BY SMTT(30), <1>2, <1>3, <2>1 DEF SearchInv, EnteredOnce
<1>8. ReportsAreCycles'
  BY <1>1 DEF SearchInv, ReportsAreCycles, ParticipatesInCycle, Closed, Return
<1>9. Explored'
  <2> SUFFICES ASSUME reported = {} PROVE VisitedDown' /\ PathDown' /\ NoneCircular'
    BY DEF Explored, Return
  <2>1. VisitedDown /\ PathDown /\ NoneCircular
    BY DEF SearchInv, Explored
  <2>2. remaining[Top] = {} /\ remaining' = remaining /\ visited' = visited \cup {Top}
    BY DEF Return
  <2>3. graph[Top] \subseteq visited
    BY <1>1, <1>2, <2>1, <2>2 DEF PathDown
  <2>4. Top \notin visited
    BY <1>2 DEF SearchInv, EnteredOnce
  <2>5. VisitedDown'
    BY <1>1, <2>1, <2>2, <2>3 DEF VisitedDown
  <2>6. PathDown'
    <3>1. ASSUME NEW i \in 1..(n - 1), NEW d \in graph[stack[i]]
          PROVE  \/ d \in remaining[stack[i]]
                 \/ d \in visited'
                 \/ i < n - 1 /\ d = stack[i + 1]
      <4>1. i \in 1..n
        BY <1>2
      <4>2. CASE i < n - 1
        BY <2>1, <2>2, <4>1, <4>2 DEF PathDown
      <4>3. CASE i = n - 1
        BY <1>2, <2>1, <2>2, <4>1, <4>3 DEF PathDown
      <4> QED
        BY <1>2, <4>2, <4>3
    <3>2. ASSUME NEW i \in 1..(n - 1), i < n - 1
          PROVE  stack'[i + 1] = stack[i + 1]
      BY <1>2, <1>3, <3>2
    <3> QED
      BY <1>1, <1>3, <2>2, <3>1, <3>2 DEF PathDown
  <2>7. NoneCircular'
    <3> SUFFICES ASSUME NEW S \in SUBSET (visited \cup {Top}), Circular(S)
                 PROVE  FALSE
      BY <1>1, <2>2 DEF NoneCircular, Circular
    <3>1. CASE Top \notin S
      BY <2>1, <3>1 DEF NoneCircular
    <3>2. CASE Top \in S
      <4>1. S \ {Top} # {}
        BY <2>3, <2>4, <3>2 DEF Circular
      <4>2. \A s \in S \ {Top} : Top \notin graph[s]
        BY <2>1, <2>4 DEF VisitedDown
      <4>3. Circular(S \ {Top})
        BY <4>1, <4>2 DEF Circular
      <4> QED
        BY <2>1, <4>3 DEF NoneCircular
    <3> QED
      BY <3>1, <3>2
  <2> QED
    BY <2>5, <2>6, <2>7
<1> QED
  BY <1>4, <1>5, <1>6, <1>7, <1>8, <1>9 DEF SearchInv

-----------------------------------------------------------------------------
(* visit(m), by the three cases.                                           *)
LEMMA VisitInv ==
  ASSUME SearchInv, NEW m, NEW left, Called(m, left), Visit(m, left), UNCHANGED <<input, visited>>
  PROVE  SearchInv'
<1>1. CASE Seen(m) /\ remaining' = left /\ UNCHANGED <<stack, visiting, reported>>
  BY <1>1, SeenInv
<1>2. CASE /\ ~Seen(m) /\ OnPath(m)
           /\ reported' = WithMeasure(m) /\ remaining' = left /\ UNCHANGED <<stack, visiting>>
  BY <1>2, ReportInv
<1>3. CASE /\ ~Seen(m) /\ ~OnPath(m)
           /\ visiting' = visiting \cup {m} /\ stack' = Append(stack, m)
           /\ remaining' = [left EXCEPT ![m] = graph[m]] /\ UNCHANGED reported
  BY <1>3, EnterInv
<1> QED
  BY <1>1, <1>2, <1>3 DEF Visit

(* The invariant of the search, one step per action.                       *)
LEMMA SearchNextInv == SearchInv /\ [SearchNext]_searchVars => SearchInv'
<1> SUFFICES ASSUME SearchInv, [SearchNext]_searchVars PROVE SearchInv'
  OBVIOUS
<1>1. CASE VisitRoot
  <2>1. PICK m \in todo : todo' = todo \ {m} /\ Visit(m, remaining)
    BY <1>1 DEF VisitRoot
  <2>2. PICK left : left = remaining
    OBVIOUS
  <2> QED
    BY <1>1, <2>1, <2>2, VisitInv DEF VisitRoot, Called
<1>2. CASE VisitDependency
  <2>1. PICK d \in remaining[Top] : Visit(d, [remaining EXCEPT ![Top] = @ \ {d}])
    BY <1>2 DEF VisitDependency
  <2>2. PICK left : left = [remaining EXCEPT ![Top] = @ \ {d}]
    OBVIOUS
  <2> QED
    BY <1>2, <2>1, <2>2, VisitInv DEF VisitDependency, Called
<1>3. CASE Return
  BY <1>3, ReturnInv
<1>4. CASE UNCHANGED searchVars
  <2>1. graph' = graph
    BY <1>4, GraphUnchanged DEF searchVars, input
  <2> QED
    BY <1>4, <2>1
    DEF searchVars, SearchInv, SearchTypeOK, PathOK, OnStack, Reaches, Closed, Covered, EnteredOnce,
        ReportsAreCycles, ParticipatesInCycle, Explored, VisitedDown, PathDown, NoneCircular, Circular
<1> QED
  BY <1>1, <1>2, <1>3, <1>4 DEF SearchNext

(* The search keeps to its invariant.                                      *)
LEMMA SearchInvHolds == SearchSpec => []SearchInv
<1>1. SearchInit => SearchInv
  BY SearchInitInv
<1>2. SearchInv /\ [SearchNext]_searchVars => SearchInv'
  BY SearchNextInv
<1> QED
  BY <1>1, <1>2, PTL DEF SearchSpec

(* The search keeps its variables in their types.                          *)
THEOREM SearchTypeCorrect == SearchSpec => []SearchTypeOK
<1>1. SearchInv => SearchTypeOK
  BY DEF SearchInv
<1> QED
  BY <1>1, SearchInvHolds, PTL

(* The recursion enters no measure twice.                                  *)
THEOREM EntersOnce == SearchSpec => []EnteredOnce
<1>1. SearchInv => EnteredOnce
  BY DEF SearchInv
<1> QED
  BY <1>1, SearchInvHolds, PTL

(* Every measure reported participates in a cycle.                         *)
THEOREM ReportsOnlyCycles == SearchSpec => []ReportsAreCycles
<1>1. SearchInv => ReportsAreCycles
  BY DEF SearchInv
<1> QED
  BY <1>1, SearchInvHolds, PTL

(* A search that ends without a report has visited every measure.          *)
LEMMA FinishedSearch ==
  ASSUME SearchInv
  PROVE  CyclesAreReported
<1> SUFFICES ASSUME Finished, reported = {}, NEW S \in SUBSET Measures
             PROVE  ~Circular(S)
  BY DEF CyclesAreReported
<1>1. \A m \in Measures : m \notin visiting
  <2>1. 1..Len(stack) = {}
    BY DEF Finished
  <2> QED
    BY <2>1 DEF SearchInv, PathOK, OnStack
<1>2. Measures \subseteq visited
  BY <1>1 DEF SearchInv, Covered, Finished
<1> QED
  BY <1>2 DEF SearchInv, Explored, NoneCircular

(* A search that ends without a report has been through an acyclic graph.  *)
THEOREM ReportsEveryCyclicModel == SearchSpec => []CyclesAreReported
  BY FinishedSearch, SearchInvHolds, PTL

-----------------------------------------------------------------------------
(* The search decides what the engine's validation asks of a model.        *)
MeasuresOf(model) == {o \in model : o.type = "measure"}
NamePart(r) ==
  IF r.kind = "unqualified" THEN [kind |-> "unqualified", name |-> r.name]
  ELSE [kind |-> "qualified", table |-> r.table, name |-> r.name]
Searched(model) ==
  /\ Measures = {o.name : o \in MeasuresOf(model)}
  /\ \A o \in MeasuresOf(model) :
       /\ owner[o.name] = o.parent
       /\ expression[o.name] = {NamePart(r) : r \in {q \in o.refs : q.kind \in {"qualified", "unqualified"}}}

(* The graph of the search is the dependency relation of ModelEngine.      *)
LEMMA GraphOfModel ==
  ASSUME NEW model \in SUBSET Objects, Searched(model),
         NEW o \in MeasuresOf(model), NEW b \in MeasuresOf(model)
  PROVE  b.name \in graph[o.name] <=> DependsOn(o, b)
<1> DEFINE dax == {q \in o.refs : q.kind \in {"qualified", "unqualified"}}
<1>1. /\ o.name \in Measures /\ b.name \in Measures
      /\ expression[o.name] = {NamePart(r) : r \in dax}
      /\ owner[b.name] = b.parent
      /\ b.type = "measure"
  BY DEF Searched, MeasuresOf
<1>2. graph[o.name] = {r.name : r \in {q \in expression[o.name] : NamesMeasure(q)}}
  BY <1>1 DEF graph
<1>3. ASSUME NEW r \in dax
      PROVE  /\ NamePart(r).name = r.name
             /\ NamePart(r).name = b.name =>
                  (NamesMeasure(NamePart(r)) <=> r.kind = "unqualified" \/ r.table = b.parent)
  BY <1>1 DEF NamePart, NamesMeasure
<1>4. ASSUME NEW r \in dax
      PROVE  Denotes(o, r, b) <=> b.name = r.name /\ (r.kind = "unqualified" \/ r.table = b.parent)
  <2>1. r.kind \in RefKinds /\ r.kind \in {"qualified", "unqualified"}
    BY DEF RefKinds, Dax
  <2> QED
    BY <1>1, <2>1, DenotesCases
<1>5. DependsOn(o, b) <=> \E r \in dax : Denotes(o, r, b)
  BY <1>1 DEF DependsOn
<1> HIDE DEF dax
<1>6. b.name \in graph[o.name] <=> \E r \in dax : NamePart(r).name = b.name /\ NamesMeasure(NamePart(r))
  BY <1>1, <1>2
<1> QED
  BY <1>3, <1>4, <1>5, <1>6

(* The two ways to say that no measure depends on itself.                  *)
LEMMA CircularInModel ==
  ASSUME NEW model \in SUBSET Objects, Searched(model), SearchTypeOK
  PROVE  NoCircularMeasures(model) <=> \A S \in SUBSET Measures : ~Circular(S)
<1>1. Measures = {o.name : o \in MeasuresOf(model)}
  BY DEF Searched
<1>2. graph \in [Measures -> SUBSET Measures]
  BY GraphType
<1>3. \A o, b \in MeasuresOf(model) : b.name \in graph[o.name] <=> DependsOn(o, b)
  BY GraphOfModel
<1>4. NoCircularMeasures(model) <=>
        \A T \in SUBSET MeasuresOf(model) : T # {} => \E o \in T : \A b \in T : ~DependsOn(o, b)
  BY DEF NoCircularMeasures, MeasuresOf
<1>5. ASSUME NoCircularMeasures(model), NEW S \in SUBSET Measures, Circular(S)
      PROVE  FALSE
  <2> DEFINE T == {o \in MeasuresOf(model) : o.name \in S}
  <2>1. T \in SUBSET MeasuresOf(model) /\ T # {}
    BY <1>1, <1>5 DEF Circular
  <2>2. PICK o \in T : \A b \in T : ~DependsOn(o, b)
    BY <1>4, <1>5, <2>1
  <2>3. PICK d \in S : d \in graph[o.name]
    BY <1>5, <2>2 DEF Circular
  <2>4. PICK b \in T : b.name = d
    BY <1>1, <2>3
  <2> QED
    BY <1>3, <2>2, <2>3, <2>4
<1>6. ASSUME \A S \in SUBSET Measures : ~Circular(S), NEW T \in SUBSET MeasuresOf(model), T # {}
      PROVE  \E o \in T : \A b \in T : ~DependsOn(o, b)
  <2> SUFFICES ASSUME \A o \in T : \E b \in T : DependsOn(o, b) PROVE FALSE
    OBVIOUS
  <2> DEFINE S == {o.name : o \in T}
  <2>1. S \in SUBSET Measures /\ S # {}
    BY <1>1, <1>6
  <2>2. ASSUME NEW o \in T PROVE graph[o.name] \cap S # {}
    BY <1>3
  <2>3. Circular(S)
    BY <2>1, <2>2 DEF Circular
  <2> QED
    BY <1>6, <2>1, <2>3
<1> QED
  BY <1>4, <1>5, <1>6

(* A measure that can be reached from itself is one of a circular set: of  *)
(* those that reach it.                                                    *)
LEMMA CycleIsCircular ==
  ASSUME SearchTypeOK, NEW m \in Measures, ParticipatesInCycle(m)
  PROVE  \E S \in SUBSET Measures : Circular(S)
<1>1. graph \in [Measures -> SUBSET Measures]
  BY GraphType
<1> DEFINE S == {x \in Measures : x = m \/ Reaches(x, m)}
<1>2. ASSUME NEW x \in S PROVE graph[x] \cap S # {}
  <2>1. Reaches(x, m)
    BY DEF Reaches, ParticipatesInCycle
  <2> SUFFICES ASSUME \A d \in graph[x] : d # m /\ ~Reaches(d, m) PROVE FALSE
    BY <1>1
  <2> DEFINE R == {y \in Measures : y # m /\ ~Reaches(y, m)}
  <2>2. ASSUME NEW y \in R, NEW d \in graph[y] PROVE d \in R
    <3>1. d \in Measures /\ y \in Measures /\ ~Reaches(y, m)
      BY <1>1
    <3>2. PICK Q \in SUBSET Measures : graph[y] \subseteq Q /\ Closed(Q) /\ m \notin Q
      BY <3>1 DEF Reaches
    <3>3. d \in Q /\ graph[d] \subseteq Q
      BY <3>2 DEF Closed
    <3>4. ~Reaches(d, m)
      BY <3>2, <3>3 DEF Reaches
    <3> QED
      BY <3>1, <3>2, <3>3, <3>4
  <2>3. Closed(R) /\ graph[x] \subseteq R /\ m \notin R /\ R \in SUBSET Measures
    BY <1>1, <2>2 DEF Closed
  <2> QED
    BY <2>1, <2>3 DEF Reaches
<1>3. Circular(S)
  BY <1>2 DEF Circular
<1> QED
  BY <1>3

(* A search that is over has reported something exactly when the model it  *)
(* was given has circular measures: so the engine's validation may ask the *)
(* predicate NoCircularMeasures instead, whatever the order of the search. *)
THEOREM SearchDecides ==
  SearchSpec =>
    [](Finished => \A model \in SUBSET Objects : Searched(model) =>
                     (reported = {} <=> NoCircularMeasures(model)))
<1>1. ASSUME SearchInv, Finished, NEW model \in SUBSET Objects, Searched(model)
      PROVE  reported = {} <=> NoCircularMeasures(model)
  <2>1. SearchTypeOK /\ ReportsAreCycles /\ CyclesAreReported
    BY <1>1, FinishedSearch DEF SearchInv
  <2>2. NoCircularMeasures(model) <=> \A S \in SUBSET Measures : ~Circular(S)
    BY <1>1, <2>1, CircularInModel
  <2>3. reported = {} => \A S \in SUBSET Measures : ~Circular(S)
    BY <1>1, <2>1 DEF CyclesAreReported
  <2>4. ASSUME NEW m \in reported PROVE \E S \in SUBSET Measures : Circular(S)
    BY <2>1, CycleIsCircular DEF ReportsAreCycles, SearchTypeOK
  <2> QED
    BY <2>2, <2>3, <2>4
<1>2. SearchInv => (Finished => \A model \in SUBSET Objects : Searched(model) =>
                                  (reported = {} <=> NoCircularMeasures(model)))
  BY <1>1
<1> QED
  BY <1>2, SearchInvHolds, PTL
==============================================================================
