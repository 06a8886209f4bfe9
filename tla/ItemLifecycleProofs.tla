------------------------- MODULE ItemLifecycleProofs ------------------------
(***************************************************************************)
(* What the tools that create, rename, delete and bind guarantee for any   *)
(* number of calls, of identifiers, names and connections, and of changes  *)
(* made by others.                                                         *)
(***************************************************************************)
EXTENDS ItemLifecycle, TLAPS

(* Where a call's mutation may be, by the stage the call is in. *)
WireFollowsStage ==
  \A c \in Calls :
    /\ stage[c] # "done" => outcome[c] = "open"
    /\ stage[c] \in {"start", "item", "decide", "connection"} => wire[c] = "unsent"
    /\ stage[c] \in {"readback", "verify"} => wire[c] \in {"unsent", "handled", "finished"}
    /\ outcome[c] = "completed" => wire[c] \in {"handled", "finished"}

(* Which tools reach a stage, and what was checked before. *)
StageFollowsTool ==
  \A c \in Calls :
    /\ stage[c] = "connection" => IsTool(c, "bind")
    /\ stage[c] \in {"item", "decide", "connection"} => ~IsTool(c, "create")
    /\ IsTool(c, "delete") /\ stage[c] \in {"item", "decide"} => ConfirmsId(c)

(* The state of a call's item belongs to its history, and so does what the *)
(* call has read of it.                                                    *)
HistoryIsComplete ==
  \A c \in Calls :
    /\ Active(c) /\ Exists(ItemOf(c)) => items[ItemOf(c)] \in shown[c]
    /\ stage[c] \in {"decide", "connection", "verify"} =>
         seen[c] \in Items /\ seen[c] \in shown[c]

Before == {"unsent", "travelling", "accepted", "refused", "failed"}
NameAndDescription(item) == [name |-> item.name, description |-> item.description]

(* While nobody else touches the item of a property update, it is as it    *)
(* was read until the update arrives, and as it is wanted from then on.    *)
AsExpected(c) ==
  /\ stage[c] \in {"decide", "write", "readback"} /\ wire[c] \in Before =>
       seen[c] \in Items /\ items[request[c].target] = seen[c]
  /\ stage[c] \in {"decide", "write", "readback"} => items[request[c].target] \in Items
  /\ stage[c] = "write" => wanted[c] = Wanted(c)
  /\ stage[c] = "write" /\ wire[c] \notin Before =>
       NameAndDescription(items[request[c].target]) = wanted[c]
  /\ stage[c] = "readback" => NameAndDescription(items[request[c].target]) = wanted[c]
  /\ stage[c] = "verify" => NameAndDescription(seen[c]) = wanted[c]

Undisturbed ==
  \A c \in Calls : IsTool(c, "properties") /\ ~interfered[c] => AsExpected(c)

Inv ==
  /\ TypeOK
  /\ WireFollowsStage
  /\ StageFollowsTool
  /\ HistoryIsComplete
  /\ Undisturbed
  /\ NotAppliedIsFinal
  /\ CompletedWasShown
  /\ MismatchMeansInterference

LEMMA RequestTypes ==
  ASSUME TypeOK, NEW c \in Calls
  PROVE  /\ IsTool(c, "create") => request[c] \in CreateRequests
         /\ IsTool(c, "properties") => request[c] \in PropertyRequests
         /\ IsTool(c, "delete") => request[c] \in DeleteRequests
         /\ IsTool(c, "bind") => request[c] \in BindRequests
         /\ request[c].tool \in {"create", "properties", "delete", "bind"}
         /\ ~IsTool(c, "create") => request[c].target \in Ids
  BY RequestAssumption
  DEF TypeOK, IsTool, CreateRequests, PropertyRequests, DeleteRequests, BindRequests

LEMMA WantedType ==
  ASSUME TypeOK, NEW c \in Calls, IsTool(c, "properties"), seen[c] \in Items
  PROVE  Wanted(c) \in [name: Texts, description: Texts]
  BY RequestTypes DEF Wanted, Items, PropertyRequests

LEMMA InitInv == Init => Inv
  BY ItemsAssumption, BoundAssumption
  DEF Init, Inv, TypeOK, WireFollowsStage, StageFollowsTool, HistoryIsComplete, Undisturbed, AsExpected,
      NotAppliedIsFinal, CompletedWasShown, MismatchMeansInterference, Stages, Outcomes, Active,
      NotApplied, RefusedEarly

LEMMA BeginInv ==
  ASSUME Inv, NEW c \in Calls, Begin(c)
  PROVE  Inv'
<1> USE DEF Inv, Begin, BeginRefused, BeginInvalid, BeginUnconfirmed, BeginCreatePreview, BeginRead, Goto, End, arguments
<1>1. TypeOK'
  BY DEF TypeOK, Exists, Stages, Outcomes, NotApplied, RefusedEarly
<1>2. WireFollowsStage'
  BY DEF TypeOK, WireFollowsStage
<1>3. StageFollowsTool'
  BY DEF TypeOK, StageFollowsTool, IsTool, ConfirmsId
<1>4. HistoryIsComplete'
  BY DEF TypeOK, HistoryIsComplete, Active, Exists, ItemOf, IsTool
<1>5. Undisturbed'
  BY DEF TypeOK, Undisturbed, AsExpected, IsTool, Wanted, Before
<1>6. NotAppliedIsFinal'
  BY DEF TypeOK, NotAppliedIsFinal, WireFollowsStage, NotApplied, RefusedEarly
<1>7. CompletedWasShown'
  BY DEF TypeOK, CompletedWasShown, WireFollowsStage, IsTool
<1>8. MismatchMeansInterference'
  BY DEF TypeOK, MismatchMeansInterference, IsTool
<1> QED
  BY <1>1, <1>2, <1>3, <1>4, <1>5, <1>6, <1>7, <1>8

LEMMA SendCreateInv ==
  ASSUME Inv, NEW c \in Calls, SendCreate(c)
  PROVE  Inv'
<1> USE DEF Inv, SendCreate, Transmit, Goto, arguments
<1>1. TypeOK'
  BY DEF TypeOK, Exists, Stages, Outcomes, NotApplied, RefusedEarly
<1>2. WireFollowsStage'
  BY DEF TypeOK, WireFollowsStage
<1>3. StageFollowsTool'
  BY DEF TypeOK, StageFollowsTool, IsTool, ConfirmsId
<1>4. HistoryIsComplete'
  BY DEF TypeOK, HistoryIsComplete, Active, Exists, ItemOf, IsTool
<1>5. Undisturbed'
  BY DEF TypeOK, Undisturbed, AsExpected, IsTool, Wanted, Before
<1>6. NotAppliedIsFinal'
  BY DEF TypeOK, NotAppliedIsFinal, WireFollowsStage, NotApplied, RefusedEarly
<1>7. CompletedWasShown'
  BY DEF TypeOK, CompletedWasShown, WireFollowsStage, IsTool
<1>8. MismatchMeansInterference'
  BY DEF TypeOK, MismatchMeansInterference, IsTool
<1> QED
  BY <1>1, <1>2, <1>3, <1>4, <1>5, <1>6, <1>7, <1>8

LEMMA ItemAnsweredInv ==
  ASSUME Inv, NEW c \in Calls, ItemAnswered(c)
  PROVE  Inv'
<1> USE DEF Inv, ItemAnswered, Goto, fabricState, arguments
<1>1. TypeOK'
  BY DEF TypeOK, Stages, Exists
<1>2. WireFollowsStage'
  BY DEF TypeOK, WireFollowsStage
<1>3. StageFollowsTool'
  BY DEF TypeOK, StageFollowsTool, IsTool, ConfirmsId
<1>4. HistoryIsComplete'
  BY DEF TypeOK, HistoryIsComplete, Active, Exists, ItemOf, IsTool
<1>5. Undisturbed'
  BY DEF TypeOK, Undisturbed, AsExpected, IsTool, ItemOf, Wanted, Before, NameAndDescription, WireFollowsStage, Exists
<1>6. NotAppliedIsFinal'
  BY DEF TypeOK, NotAppliedIsFinal, WireFollowsStage, NotApplied, RefusedEarly
<1>7. CompletedWasShown'
  BY DEF TypeOK, CompletedWasShown, WireFollowsStage, IsTool
<1>8. MismatchMeansInterference'
  BY DEF TypeOK, MismatchMeansInterference, IsTool
<1> QED
  BY <1>1, <1>2, <1>3, <1>4, <1>5, <1>6, <1>7, <1>8

LEMMA SnapshotPendingInv ==
  ASSUME Inv, NEW c \in Calls, SnapshotPending(c)
  PROVE  Inv'
<1> USE DEF Inv, SnapshotPending, End, fabricState, arguments
<1>1. TypeOK'
  BY DEF TypeOK, Stages, Outcomes, NotApplied, RefusedEarly
<1>2. WireFollowsStage'
  BY DEF TypeOK, WireFollowsStage
<1>3. StageFollowsTool'
  BY DEF TypeOK, StageFollowsTool, IsTool, ConfirmsId
<1>4. HistoryIsComplete'
  BY DEF TypeOK, HistoryIsComplete, Active, Exists, ItemOf, IsTool
<1>5. Undisturbed'
  BY DEF TypeOK, Undisturbed, AsExpected, IsTool, Wanted, Before
<1>6. NotAppliedIsFinal'
  BY DEF TypeOK, NotAppliedIsFinal, WireFollowsStage, NotApplied, RefusedEarly
<1>7. CompletedWasShown'
  BY DEF TypeOK, CompletedWasShown, WireFollowsStage, IsTool
<1>8. MismatchMeansInterference'
  BY DEF TypeOK, MismatchMeansInterference, IsTool
<1> QED
  BY <1>1, <1>2, <1>3, <1>4, <1>5, <1>6, <1>7, <1>8

LEMMA RequestFailsInv ==
  ASSUME Inv, NEW c \in Calls, RequestFails(c)
  PROVE  Inv'
<1> USE DEF Inv, RequestFails, FailureOutcome, End, fabricState, arguments
<1>1. TypeOK'
  BY DEF TypeOK, Stages, Outcomes, NotApplied, RefusedEarly
<1>2. WireFollowsStage'
  BY DEF TypeOK, WireFollowsStage
<1>3. StageFollowsTool'
  BY DEF TypeOK, StageFollowsTool, IsTool, ConfirmsId
<1>4. HistoryIsComplete'
  BY DEF TypeOK, HistoryIsComplete, Active, Exists, ItemOf, IsTool
<1>5. Undisturbed'
  BY DEF TypeOK, Undisturbed, AsExpected, IsTool, Wanted, Before
<1>6. NotAppliedIsFinal'
  BY DEF TypeOK, NotAppliedIsFinal, WireFollowsStage, NotApplied, RefusedEarly
<1>7. CompletedWasShown'
  BY DEF TypeOK, CompletedWasShown, WireFollowsStage, IsTool
<1>8. MismatchMeansInterference'
  BY DEF TypeOK, MismatchMeansInterference, IsTool
<1> QED
  BY <1>1, <1>2, <1>3, <1>4, <1>5, <1>6, <1>7, <1>8

LEMMA DecidePropertiesInv ==
  ASSUME Inv, NEW c \in Calls, stage[c] = "decide", DecideProperties(c)
  PROVE  Inv'
<1> USE DEF Inv, DecideProperties, Preview, Transmit, Goto, End, fabricState, arguments
<1>1. TypeOK'
  BY WantedType DEF TypeOK, HistoryIsComplete, Exists, Stages, Outcomes, NotApplied, RefusedEarly
<1>2. WireFollowsStage'
  BY DEF TypeOK, WireFollowsStage
<1>3. StageFollowsTool'
  BY DEF TypeOK, StageFollowsTool, IsTool, ConfirmsId
<1>4. HistoryIsComplete'
  BY DEF TypeOK, HistoryIsComplete, Active, Exists, ItemOf, IsTool
<1>5. Undisturbed'
  <2>1. ~HasChanges(c) => Wanted(c) = NameAndDescription(seen[c])
    BY DEF HasChanges, NameAndDescription
  <2>2. ASSUME NEW d \in Calls, d # c, (IsTool(d, "properties") /\ ~interfered[d])'
        PROVE  AsExpected(d)'
    BY <2>2 DEF TypeOK, Undisturbed, AsExpected, IsTool, Wanted, Before
  <2>3. ASSUME (IsTool(c, "properties") /\ ~interfered[c])'
        PROVE  AsExpected(c)'
    BY <2>1, <2>3 DEF TypeOK, Undisturbed, AsExpected, IsTool, Wanted, Before, WireFollowsStage
  <2> QED
    BY <2>2, <2>3 DEF Undisturbed
<1>6. NotAppliedIsFinal'
  BY DEF TypeOK, NotAppliedIsFinal, WireFollowsStage, NotApplied, RefusedEarly
<1>7. CompletedWasShown'
  BY DEF TypeOK, CompletedWasShown, WireFollowsStage, IsTool
<1>8. MismatchMeansInterference'
  BY DEF TypeOK, MismatchMeansInterference, IsTool
<1> QED
  BY <1>1, <1>2, <1>3, <1>4, <1>5, <1>6, <1>7, <1>8

LEMMA DecideDeleteInv ==
  ASSUME Inv, NEW c \in Calls, stage[c] = "decide", DecideDelete(c)
  PROVE  Inv'
<1> USE DEF Inv, DecideDelete, Preview, Transmit, Goto, End, fabricState, arguments
<1>1. TypeOK'
  BY DEF TypeOK, Exists, Stages, Outcomes, NotApplied, RefusedEarly
<1>2. WireFollowsStage'
  BY DEF TypeOK, WireFollowsStage
<1>3. StageFollowsTool'
  BY DEF TypeOK, StageFollowsTool, IsTool, ConfirmsId
<1>4. HistoryIsComplete'
  BY DEF TypeOK, HistoryIsComplete, Active, Exists, ItemOf, IsTool
<1>5. Undisturbed'
  BY DEF TypeOK, Undisturbed, AsExpected, IsTool, Wanted, Before
<1>6. NotAppliedIsFinal'
  BY DEF TypeOK, NotAppliedIsFinal, WireFollowsStage, NotApplied, RefusedEarly
<1>7. CompletedWasShown'
  BY DEF TypeOK, CompletedWasShown, WireFollowsStage, IsTool
<1>8. MismatchMeansInterference'
  BY DEF TypeOK, MismatchMeansInterference, IsTool
<1> QED
  BY <1>1, <1>2, <1>3, <1>4, <1>5, <1>6, <1>7, <1>8

LEMMA DecideBindInv ==
  ASSUME Inv, NEW c \in Calls, stage[c] = "decide", DecideBind(c)
  PROVE  Inv'
<1> USE DEF Inv, DecideBind, Preview, Transmit, Goto, End, fabricState, arguments
<1>1. TypeOK'
  BY DEF TypeOK, Exists, Stages, Outcomes, NotApplied, RefusedEarly
<1>2. WireFollowsStage'
  BY DEF TypeOK, WireFollowsStage
<1>3. StageFollowsTool'
  BY DEF TypeOK, StageFollowsTool, IsTool, ConfirmsId
<1>4. HistoryIsComplete'
  BY DEF TypeOK, HistoryIsComplete, Active, Exists, ItemOf, IsTool
<1>5. Undisturbed'
  BY DEF TypeOK, Undisturbed, AsExpected, IsTool, Wanted, Before
<1>6. NotAppliedIsFinal'
  BY DEF TypeOK, NotAppliedIsFinal, WireFollowsStage, NotApplied, RefusedEarly
<1>7. CompletedWasShown'
  BY DEF TypeOK, CompletedWasShown, WireFollowsStage, IsTool
<1>8. MismatchMeansInterference'
  BY DEF TypeOK, MismatchMeansInterference, IsTool
<1> QED
  BY <1>1, <1>2, <1>3, <1>4, <1>5, <1>6, <1>7, <1>8

LEMMA ConnectionAnsweredInv ==
  ASSUME Inv, NEW c \in Calls, ConnectionAnswered(c)
  PROVE  Inv'
<1> USE DEF Inv, ConnectionAnswered, Preview, Transmit, Goto, End, fabricState, arguments
<1>1. TypeOK'
  BY DEF TypeOK, Exists, Stages, Outcomes, NotApplied, RefusedEarly
<1>2. WireFollowsStage'
  BY DEF TypeOK, WireFollowsStage
<1>3. StageFollowsTool'
  BY DEF TypeOK, StageFollowsTool, IsTool, ConfirmsId
<1>4. HistoryIsComplete'
  BY DEF TypeOK, HistoryIsComplete, Active, Exists, ItemOf, IsTool
<1>5. Undisturbed'
  BY DEF TypeOK, Undisturbed, AsExpected, IsTool, Wanted, Before, StageFollowsTool
<1>6. NotAppliedIsFinal'
  BY DEF TypeOK, NotAppliedIsFinal, WireFollowsStage, NotApplied, RefusedEarly
<1>7. CompletedWasShown'
  BY DEF TypeOK, CompletedWasShown, WireFollowsStage, IsTool
<1>8. MismatchMeansInterference'
  BY DEF TypeOK, MismatchMeansInterference, IsTool
<1> QED
  BY <1>1, <1>2, <1>3, <1>4, <1>5, <1>6, <1>7, <1>8

LEMMA WriteAnsweredInv ==
  ASSUME Inv, NEW c \in Calls, WriteAnswered(c)
  PROVE  Inv'
<1> USE DEF Inv, WriteAnswered, Goto, End, fabricState, arguments
<1>1. TypeOK'
  BY DEF TypeOK, Stages, Outcomes, NotApplied, RefusedEarly
<1>2. WireFollowsStage'
  BY DEF TypeOK, WireFollowsStage
<1>3. StageFollowsTool'
  BY DEF TypeOK, StageFollowsTool, IsTool, ConfirmsId
<1>4. HistoryIsComplete'
  BY DEF TypeOK, HistoryIsComplete, Active, Exists, ItemOf, IsTool
<1>5. Undisturbed'
  BY DEF TypeOK, Undisturbed, AsExpected, IsTool, Wanted, Before
<1>6. NotAppliedIsFinal'
  BY DEF TypeOK, NotAppliedIsFinal, WireFollowsStage, NotApplied, RefusedEarly
<1>7. CompletedWasShown'
  BY DEF TypeOK, CompletedWasShown, WireFollowsStage, IsTool
<1>8. MismatchMeansInterference'
  BY DEF TypeOK, MismatchMeansInterference, IsTool
<1> QED
  BY <1>1, <1>2, <1>3, <1>4, <1>5, <1>6, <1>7, <1>8

LEMMA CreatePendingInv ==
  ASSUME Inv, NEW c \in Calls, CreatePending(c)
  PROVE  Inv'
<1> USE DEF Inv, CreatePending, End, fabricState, arguments
<1>1. TypeOK'
  BY DEF TypeOK, Stages, Outcomes, NotApplied, RefusedEarly
<1>2. WireFollowsStage'
  BY DEF TypeOK, WireFollowsStage
<1>3. StageFollowsTool'
  BY DEF TypeOK, StageFollowsTool, IsTool, ConfirmsId
<1>4. HistoryIsComplete'
  BY DEF TypeOK, HistoryIsComplete, Active, Exists, ItemOf, IsTool
<1>5. Undisturbed'
  BY DEF TypeOK, Undisturbed, AsExpected, IsTool, Wanted, Before
<1>6. NotAppliedIsFinal'
  BY DEF TypeOK, NotAppliedIsFinal, WireFollowsStage, NotApplied, RefusedEarly
<1>7. CompletedWasShown'
  BY DEF TypeOK, CompletedWasShown, WireFollowsStage, IsTool
<1>8. MismatchMeansInterference'
  BY DEF TypeOK, MismatchMeansInterference, IsTool
<1> QED
  BY <1>1, <1>2, <1>3, <1>4, <1>5, <1>6, <1>7, <1>8

LEMMA VerifyInv ==
  ASSUME Inv, NEW c \in Calls, Verify(c)
  PROVE  Inv'
<1> USE DEF Inv, Verify, End, fabricState, arguments
<1>1. TypeOK'
  BY DEF TypeOK, Stages, Outcomes, NotApplied, RefusedEarly
<1>2. WireFollowsStage'
  BY DEF TypeOK, WireFollowsStage
<1>3. StageFollowsTool'
  BY DEF TypeOK, StageFollowsTool, IsTool, ConfirmsId
<1>4. HistoryIsComplete'
  BY DEF TypeOK, HistoryIsComplete, Active, Exists, ItemOf, IsTool
<1>5. Undisturbed'
  BY DEF TypeOK, Undisturbed, AsExpected, IsTool, Wanted, Before
<1>6. NotAppliedIsFinal'
  BY DEF TypeOK, NotAppliedIsFinal, WireFollowsStage, NotApplied, RefusedEarly
<1>7. CompletedWasShown'
  BY DistinctAssumption DEF TypeOK, CompletedWasShown, HistoryIsComplete, WireFollowsStage, IsTool, Verified
<1>8. MismatchMeansInterference'
  BY DEF TypeOK, MismatchMeansInterference, Undisturbed, AsExpected, NameAndDescription, IsTool, Verified
<1> QED
  BY <1>1, <1>2, <1>3, <1>4, <1>5, <1>6, <1>7, <1>8

LEMMA AcceptInv ==
  ASSUME Inv, NEW c \in Calls, Accept(c)
  PROVE  Inv'
<1> USE DEF Inv, Accept, arguments, fabricState
<1>1. TypeOK'
  BY DEF TypeOK, Stages, Outcomes, NotApplied, RefusedEarly
<1>2. WireFollowsStage'
  BY DEF TypeOK, WireFollowsStage
<1>3. StageFollowsTool'
  BY DEF TypeOK, StageFollowsTool, IsTool, ConfirmsId
<1>4. HistoryIsComplete'
  BY DEF TypeOK, HistoryIsComplete, Active, Exists, ItemOf, IsTool
<1>5. Undisturbed'
  BY DEF TypeOK, Undisturbed, AsExpected, IsTool, Wanted, Before
<1>6. NotAppliedIsFinal'
  BY DEF TypeOK, NotAppliedIsFinal, WireFollowsStage, NotApplied, RefusedEarly
<1>7. CompletedWasShown'
  BY DEF TypeOK, CompletedWasShown, WireFollowsStage, IsTool
<1>8. MismatchMeansInterference'
  BY DEF TypeOK, MismatchMeansInterference, IsTool
<1> QED
  BY <1>1, <1>2, <1>3, <1>4, <1>5, <1>6, <1>7, <1>8

LEMMA RefuseInv ==
  ASSUME Inv, NEW c \in Calls, Refuse(c)
  PROVE  Inv'
<1> USE DEF Inv, Refuse, arguments, fabricState
<1>1. TypeOK'
  BY DEF TypeOK, Stages, Outcomes, NotApplied, RefusedEarly
<1>2. WireFollowsStage'
  BY DEF TypeOK, WireFollowsStage
<1>3. StageFollowsTool'
  BY DEF TypeOK, StageFollowsTool, IsTool, ConfirmsId
<1>4. HistoryIsComplete'
  BY DEF TypeOK, HistoryIsComplete, Active, Exists, ItemOf, IsTool
<1>5. Undisturbed'
  BY DEF TypeOK, Undisturbed, AsExpected, IsTool, Wanted, Before
<1>6. NotAppliedIsFinal'
  BY DEF TypeOK, NotAppliedIsFinal, WireFollowsStage, NotApplied, RefusedEarly
<1>7. CompletedWasShown'
  BY DEF TypeOK, CompletedWasShown, WireFollowsStage, IsTool
<1>8. MismatchMeansInterference'
  BY DEF TypeOK, MismatchMeansInterference, IsTool
<1> QED
  BY <1>1, <1>2, <1>3, <1>4, <1>5, <1>6, <1>7, <1>8

LEMMA CarryOutBindInv ==
  ASSUME Inv, NEW c \in Calls, CarryOut(c), CarryOutBind(c)
  PROVE  Inv'
<1> USE DEF Inv, CarryOutBind, arguments, fabricState
<1>1. TypeOK'
  BY DEF CarryOut, TypeOK
<1>2. WireFollowsStage'
  BY DEF CarryOut, TypeOK, WireFollowsStage
<1>3. StageFollowsTool'
  BY DEF CarryOut, TypeOK, StageFollowsTool, IsTool, ConfirmsId
<1>4. HistoryIsComplete'
  BY DEF CarryOut, TypeOK, HistoryIsComplete, Active, Exists, ItemOf, IsTool
<1>5. Undisturbed'
  BY DEF CarryOut, TypeOK, Undisturbed, AsExpected, IsTool, Wanted, Before
<1>6. NotAppliedIsFinal'
  BY DEF CarryOut, TypeOK, NotAppliedIsFinal, WireFollowsStage, NotApplied, RefusedEarly
<1>7. CompletedWasShown'
  BY DEF CarryOut, TypeOK, CompletedWasShown, WireFollowsStage, IsTool
<1>8. MismatchMeansInterference'
  BY DEF CarryOut, TypeOK, MismatchMeansInterference, IsTool
<1> QED
  BY <1>1, <1>2, <1>3, <1>4, <1>5, <1>6, <1>7, <1>8

LEMMA OutsideChangeInv ==
  ASSUME Inv, OutsideChange
  PROVE  Inv'
<1> USE DEF Inv, OutsideChange, SetItem, arguments
<1>1. TypeOK'
  BY BoundAssumption DEF TypeOK
<1>2. WireFollowsStage'
  BY DEF TypeOK, WireFollowsStage
<1>3. StageFollowsTool'
  BY DEF TypeOK, StageFollowsTool, IsTool, ConfirmsId
<1>4. HistoryIsComplete'
  BY DEF TypeOK, HistoryIsComplete, Active, Exists, ItemOf, IsTool, WireFollowsStage
<1>5. Undisturbed'
  <2> SUFFICES ASSUME NEW d \in Calls, (IsTool(d, "properties") /\ ~interfered[d])'
               PROVE  AsExpected(d)'
    BY DEF Undisturbed
  <2>1. PICK i \in Ids, item \in Items \cup {Deleted} : Exists(i) /\ SetItem(i, item, Calls)
    OBVIOUS
  <2>2. ~interfered[d] /\ ~(Active(d) /\ ItemOf(d) = i) /\ IsTool(d, "properties")
    BY <2>1 DEF TypeOK, SetItem, IsTool
  <2>3. Active(d) => items'[request[d].target] = items[request[d].target]
    BY <2>1, <2>2, RequestTypes DEF TypeOK, SetItem, ItemOf, IsTool
  <2> QED
    BY <2>2, <2>3 DEF Undisturbed, AsExpected, Wanted, Active
<1>6. NotAppliedIsFinal'
  BY DEF TypeOK, NotAppliedIsFinal, WireFollowsStage, NotApplied, RefusedEarly
<1>7. CompletedWasShown'
  BY DEF TypeOK, CompletedWasShown, WireFollowsStage, IsTool
<1>8. MismatchMeansInterference'
  BY DEF TypeOK, MismatchMeansInterference, IsTool
<1> QED
  BY <1>1, <1>2, <1>3, <1>4, <1>5, <1>6, <1>7, <1>8

LEMMA CarryOutPropertiesInv ==
  ASSUME Inv, NEW c \in Calls, CarryOut(c), CarryOutProperties(c)
  PROVE  Inv'
<1> USE DEF Inv, CarryOut, CarryOutProperties, SetItem, arguments
<1>1. TypeOK'
  <2>1. request[c] \in PropertyRequests
    BY RequestTypes
  <2>2. items[request[c].target] \in Items
    BY DEF Exists
  <2>3. [items[request[c].target] EXCEPT
           !.name = IF request[c].name = Same THEN @ ELSE request[c].name,
           !.description = IF request[c].description = Same THEN @ ELSE request[c].description] \in Items
    BY <2>1, <2>2 DEF Items, PropertyRequests
  <2> QED
    BY <2>3 DEF TypeOK
<1>2. WireFollowsStage'
  BY DEF TypeOK, WireFollowsStage
<1>3. StageFollowsTool'
  BY DEF TypeOK, StageFollowsTool, IsTool, ConfirmsId
<1>4. HistoryIsComplete'
  BY DEF TypeOK, HistoryIsComplete, Active, Exists, ItemOf, IsTool, WireFollowsStage
<1>5. Undisturbed'
  <2>1. ASSUME NEW d \in Calls, d # c, (IsTool(d, "properties") /\ ~interfered[d])'
        PROVE  AsExpected(d)'
    BY <2>1, RequestTypes DEF TypeOK, Undisturbed, AsExpected, IsTool, Wanted, Before, Active, ItemOf
  <2>2. ASSUME (IsTool(c, "properties") /\ ~interfered[c])'
        PROVE  AsExpected(c)'
    <3> DEFINE i == request[c].target
    <3> DEFINE after == [items[i] EXCEPT
               !.name = IF request[c].name = Same THEN @ ELSE request[c].name,
               !.description = IF request[c].description = Same THEN @ ELSE request[c].description]
    <3>1. i \in Ids /\ items'[i] = after /\ items[i] \in Items /\ wire'[c] \notin Before
      BY RequestTypes DEF TypeOK, Exists, IsTool, Before
    <3>2. IsTool(c, "properties") /\ ~interfered[c] /\ wire[c] \in Before
      BY <2>2 DEF TypeOK, IsTool, Before
    <3>3. stage[c] \in {"write", "done"} /\ stage'[c] = stage[c]
      BY DEF TypeOK, WireFollowsStage, Stages
    <3>4. after \in Items
      BY <3>1, <3>2, RequestTypes DEF Items, PropertyRequests
    <3>5. stage[c] = "write" => items[i] = seen[c] /\ wanted[c] = Wanted(c)
      BY <3>2 DEF Undisturbed, AsExpected
    <3>6. stage[c] = "write" => NameAndDescription(after) = wanted[c]
      BY <3>1, <3>5 DEF NameAndDescription, Wanted, Items
    <3>7. wanted'[c] = wanted[c] /\ seen'[c] = seen[c] /\ request' = request
      OBVIOUS
    <3> QED
      BY <3>1, <3>3, <3>4, <3>5, <3>6, <3>7 DEF AsExpected, NameAndDescription, Wanted
  <2> QED
    BY <2>1, <2>2 DEF Undisturbed
<1>6. NotAppliedIsFinal'
  BY DEF TypeOK, NotAppliedIsFinal, WireFollowsStage, NotApplied, RefusedEarly
<1>7. CompletedWasShown'
  BY DEF TypeOK, CompletedWasShown, WireFollowsStage, IsTool
<1>8. MismatchMeansInterference'
  BY DEF TypeOK, MismatchMeansInterference, IsTool
<1> QED
  BY <1>1, <1>2, <1>3, <1>4, <1>5, <1>6, <1>7, <1>8

LEMMA CarryOutDeleteInv ==
  ASSUME Inv, NEW c \in Calls, CarryOut(c), CarryOutDelete(c)
  PROVE  Inv'
<1> USE DEF Inv, CarryOut, CarryOutDelete, SetItem, arguments
<1>1. TypeOK'
  BY RequestTypes DEF TypeOK
<1>2. WireFollowsStage'
  BY DEF TypeOK, WireFollowsStage
<1>3. StageFollowsTool'
  BY DEF TypeOK, StageFollowsTool, IsTool, ConfirmsId
<1>4. HistoryIsComplete'
  BY DEF TypeOK, HistoryIsComplete, Active, Exists, ItemOf, IsTool, WireFollowsStage
<1>5. Undisturbed'
  BY RequestTypes DEF TypeOK, Undisturbed, AsExpected, IsTool, Wanted, Before, Active, ItemOf
<1>6. NotAppliedIsFinal'
  BY DEF TypeOK, NotAppliedIsFinal, WireFollowsStage, NotApplied, RefusedEarly
<1>7. CompletedWasShown'
  BY DEF TypeOK, CompletedWasShown, WireFollowsStage, IsTool
<1>8. MismatchMeansInterference'
  BY DEF TypeOK, MismatchMeansInterference, IsTool
<1> QED
  BY <1>1, <1>2, <1>3, <1>4, <1>5, <1>6, <1>7, <1>8

LEMMA CarryOutCreateInv ==
  ASSUME Inv, NEW c \in Calls, CarryOut(c), CarryOutCreate(c)
  PROVE  Inv'
<1> USE DEF Inv, CarryOut, CarryOutCreate, arguments
<1>1. TypeOK'
  BY RequestTypes DEF TypeOK, Items, CreateRequests
<1>2. WireFollowsStage'
  BY DEF TypeOK, WireFollowsStage
<1>3. StageFollowsTool'
  BY DEF TypeOK, StageFollowsTool, IsTool, ConfirmsId
<1>4. HistoryIsComplete'
  BY DEF TypeOK, HistoryIsComplete, Active, Exists, ItemOf, IsTool, WireFollowsStage
<1>5. Undisturbed'
  BY DistinctAssumption, RequestTypes DEF TypeOK, Undisturbed, AsExpected, IsTool, Wanted, Before, Active, ItemOf
<1>6. NotAppliedIsFinal'
  BY DEF TypeOK, NotAppliedIsFinal, WireFollowsStage, NotApplied, RefusedEarly
<1>7. CompletedWasShown'
  BY DEF TypeOK, CompletedWasShown, WireFollowsStage, IsTool
<1>8. MismatchMeansInterference'
  BY DEF TypeOK, MismatchMeansInterference, IsTool
<1> QED
  BY <1>1, <1>2, <1>3, <1>4, <1>5, <1>6, <1>7, <1>8

LEMMA NextInv == Inv /\ [Next]_vars => Inv'
<1> SUFFICES ASSUME Inv, [Next]_vars PROVE Inv'
  OBVIOUS
<1>1. CASE UNCHANGED vars
  BY <1>1
  DEF Inv, vars, TypeOK, WireFollowsStage, StageFollowsTool, HistoryIsComplete, Undisturbed, AsExpected,
      NotAppliedIsFinal, CompletedWasShown, MismatchMeansInterference, Active, Exists, ItemOf, IsTool,
      ConfirmsId, Wanted
<1>2. ASSUME NEW c \in Calls, Begin(c) \/ SendCreate(c)
      PROVE  Inv'
  BY <1>2, BeginInv, SendCreateInv
<1>3. ASSUME NEW c \in Calls, ClientStep(c)
      PROVE  Inv'
  BY <1>3, ItemAnsweredInv, SnapshotPendingInv, RequestFailsInv, DecidePropertiesInv, DecideDeleteInv,
     DecideBindInv, ConnectionAnsweredInv, WriteAnsweredInv, CreatePendingInv, VerifyInv
  DEF ClientStep, Decide
<1>4. ASSUME NEW c \in Calls, CarryOut(c)
      PROVE  Inv'
  BY <1>4, CarryOutPropertiesInv, CarryOutDeleteInv, CarryOutBindInv, CarryOutCreateInv DEF CarryOut
<1>5. ASSUME NEW c \in Calls, Accept(c) \/ Refuse(c)
      PROVE  Inv'
  BY <1>5, AcceptInv, RefuseInv
<1> QED
  BY <1>1, <1>2, <1>3, <1>4, <1>5, OutsideChangeInv DEF Next

LEMMA Invariance == Spec => []Inv
  BY InitInv, NextInv, PTL DEF Spec

-----------------------------------------------------------------------------
(* The tools keep their variables in their types. *)
THEOREM TypeCorrect == Spec => []TypeOK
<1>1. Inv => TypeOK
  BY DEF Inv
<1> QED
  BY Invariance, <1>1, PTL

(* Results that say nothing was applied, and errors raised before the      *)
(* mutation, are final, for any number of calls.                           *)
THEOREM UnappliedIsFinal == Spec => []NotAppliedIsFinal
<1>1. Inv => NotAppliedIsFinal
  BY DEF Inv
<1> QED
  BY Invariance, <1>1, PTL

(* A completed create or property update was visible in Fabric as verified *)
(* after it was sent.                                                      *)
THEOREM CompletionIsReal == Spec => []CompletedWasShown
<1>1. Inv => CompletedWasShown
  BY DEF Inv
<1> QED
  BY Invariance, <1>1, PTL

(* A property mismatch is always somebody else's doing. *)
THEOREM MismatchIsForeign == Spec => []MismatchMeansInterference
<1>1. Inv => MismatchMeansInterference
  BY DEF Inv
<1> QED
  BY Invariance, <1>1, PTL

(* A deletion leaves the server only for an item that bore the confirmed   *)
(* name at some moment of the call, and for the identifier repeated.       *)
THEOREM DeletionIsConfirmed == Spec => DeleteIsConfirmed
<1> DEFINE Sends ==
      \A c \in Calls :
        IsTool(c, "delete") /\ wire[c] = "unsent" /\ wire'[c] # "unsent" =>
          /\ request[c].target = request[c].confirmId
          /\ \E item \in shown[c] \ {Deleted} : item.name = request[c].confirmName
<1>1. ASSUME Inv, [Next]_vars, NEW c \in Calls,
             IsTool(c, "delete"), wire[c] = "unsent", wire'[c] # "unsent"
      PROVE  stage[c] = "decide" /\ DecideDelete(c) /\ ConfirmsName(c)
  BY <1>1
  DEF Inv, TypeOK, StageFollowsTool, Next, vars, Begin, SendCreate, ClientStep, ItemAnswered, SnapshotPending,
      RequestFails, Decide, DecideProperties, DecideDelete, DecideBind, ConnectionAnswered, WriteAnswered,
      CreatePending, Verify, CarryOut, Accept, Refuse, OutsideChange, IsTool, Preview, Transmit
<1>2. Inv /\ [Next]_vars => Sends
  BY <1>1, DistinctAssumption DEF Inv, StageFollowsTool, HistoryIsComplete, ConfirmsId, ConfirmsName
<1>3. Inv /\ [Next]_vars => [Sends]_vars
  BY <1>2
<1> QED
  BY Invariance, <1>3, PTL DEF Spec, DeleteIsConfirmed

(* A binding leaves the server only for a connection whose details were    *)
(* those of the model's data source at some moment of the call.            *)
THEOREM BindingMatches == Spec => BindMatchesSource
<1> DEFINE Sends ==
      \A c \in Calls :
        IsTool(c, "bind") /\ wire[c] = "unsent" /\ wire'[c] # "unsent" =>
          \E item \in shown[c] \ {Deleted} : item.source = DetailsOf[request[c].connection]
<1>1. ASSUME Inv, [Next]_vars, NEW c \in Calls,
             IsTool(c, "bind"), wire[c] = "unsent", wire'[c] # "unsent"
      PROVE  stage[c] = "connection" /\ MatchesSource(c)
  BY <1>1
  DEF Inv, TypeOK, StageFollowsTool, Next, vars, Begin, SendCreate, ClientStep, ItemAnswered, SnapshotPending,
      RequestFails, Decide, DecideProperties, DecideDelete, DecideBind, ConnectionAnswered, WriteAnswered,
      CreatePending, Verify, CarryOut, Accept, Refuse, OutsideChange, IsTool, Preview, Transmit
<1>2. Inv /\ [Next]_vars => Sends
  BY <1>1, DistinctAssumption DEF Inv, HistoryIsComplete, MatchesSource
<1>3. Inv /\ [Next]_vars => [Sends]_vars
  BY <1>2
<1> QED
  BY Invariance, <1>3, PTL DEF Spec, BindMatchesSource

=============================================================================
