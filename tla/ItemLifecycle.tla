---------------------------- MODULE ItemLifecycle ---------------------------
(***************************************************************************)
(* The tools that create, rename, delete and bind semantic models          *)
(* (SemanticModelService: createSemanticModel,                             *)
(* updateSemanticModelProperties, deleteSemanticModel,                     *)
(* bindSemanticModelConnection).  Each reads what it needs, decides, sends *)
(* one mutation and, for create and properties, reads the result back.     *)
(* Calls interleave with each other and with editors outside this server;  *)
(* nothing is locked between the read a decision rests on and the mutation.*)
(*                                                                         *)
(* The poll loop is in ModelChanges; here an operation is seen to have     *)
(* finished, or the call ends as pending or failed.  Of a definition only  *)
(* its data source is kept.                                                *)
(***************************************************************************)
EXTENDS Integers

CONSTANTS
  Calls,        \* the tool calls ever made
  Ids,          \* identifiers Fabric may give to items
  Texts,        \* display names and descriptions
  Sources,      \* connection details of data sources
  DetailsOf,    \* the details of each connection
  InitialItems, \* [Ids -> Items \cup {Unused}]
  Requests,     \* what callers ask
  MaxOutside,   \* bound on the changes made outside this server
  Unused,       \* the state of an identifier not given out
  Deleted,      \* the state of a deleted item
  Same,         \* a property the caller leaves out
  None          \* nothing read yet, or no identifier yet

Items == [name: Texts, description: Texts, source: Sources]
Connections == DOMAIN DetailsOf

CreateRequests == [tool: {"create"}, name: Texts, description: Texts, source: Sources, apply: BOOLEAN]
PropertyRequests ==
  [tool: {"properties"}, target: Ids, name: Texts \cup {Same}, description: Texts \cup {Same},
   apply: BOOLEAN]
DeleteRequests ==
  [tool: {"delete"}, target: Ids, confirmId: Ids, confirmName: Texts, apply: BOOLEAN]
BindRequests == [tool: {"bind"}, target: Ids, connection: Connections, apply: BOOLEAN]

ASSUME RequestAssumption ==
  Requests \subseteq CreateRequests \cup PropertyRequests \cup DeleteRequests \cup BindRequests
ASSUME DetailsAssumption == DetailsOf \in [Connections -> Sources]
ASSUME ItemsAssumption == InitialItems \in [Ids -> Items \cup {Unused}]
ASSUME BoundAssumption == MaxOutside \in Nat
ASSUME DistinctAssumption ==
  Unused \notin Items /\ Deleted \notin Items /\ Same \notin Texts /\ None \notin Items \cup Ids

VARIABLES
  items,      \* Fabric: what each identifier stands for
  outside,    \* changes made outside this server so far
  readOnly,   \* FABRIC_MODE of the server
  request,    \* the arguments of each call
  stage,      \* where each call is
  seen,       \* the item a call read last
  wanted,     \* the properties a property update must read back
  wire,       \* what became of the call's mutation
  made,       \* the item a create call made
  outcome,    \* what the call returned or threw
  shown,      \* history: what the call's item has been since the call began or, once it sent, since then
  interfered  \* history: whether another actor changed the call's item since the call began

vars == <<items, outside, readOnly, request, stage, seen, wanted, wire, made, outcome,
          shown, interfered>>
fabricState == <<items, outside, shown, interfered, made>>
arguments == <<readOnly, request>>

Stages == {"start", "item", "decide", "connection", "write", "readback", "verify", "done"}
NotApplied == {"preview", "pendingRead"}
RefusedEarly == {"readOnly", "invalid", "unconfirmed", "unmatched", "readFailed"}
Outcomes ==
  {"open", "completed", "unchanged", "pendingCreate", "pendingReadback", "mismatch", "uncertain"}
    \cup NotApplied \cup RefusedEarly

TypeOK ==
  /\ items \in [Ids -> Items \cup {Unused, Deleted}]
  /\ outside \in 0..MaxOutside
  /\ readOnly \in BOOLEAN
  /\ request \in [Calls -> Requests]
  /\ stage \in [Calls -> Stages]
  /\ seen \in [Calls -> Items \cup {None}]
  /\ wanted \in [Calls -> [name: Texts, description: Texts] \cup {None}]
  /\ wire \in [Calls ->
       {"unsent", "travelling", "accepted", "handled", "finished", "refused", "failed"}]
  /\ made \in [Calls -> Ids \cup {None}]
  /\ outcome \in [Calls -> Outcomes]
  /\ shown \in [Calls -> SUBSET (Items \cup {Deleted})]
  /\ interfered \in [Calls -> BOOLEAN]

Init ==
  /\ items = InitialItems
  /\ outside = 0
  /\ readOnly \in BOOLEAN
  /\ request \in [Calls -> Requests]
  /\ stage = [c \in Calls |-> "start"]
  /\ seen = [c \in Calls |-> None]
  /\ wanted = [c \in Calls |-> None]
  /\ wire = [c \in Calls |-> "unsent"]
  /\ made = [c \in Calls |-> None]
  /\ outcome = [c \in Calls |-> "open"]
  /\ shown = [c \in Calls |-> {}]
  /\ interfered = [c \in Calls |-> FALSE]

-----------------------------------------------------------------------------
IsTool(c, tool) == request[c].tool = tool
Active(c) == stage[c] \notin {"start", "done"}

(* The item a call works on.                                               *)
ItemOf(c) == IF IsTool(c, "create") THEN made[c] ELSE request[c].target

Exists(i) == i \in Ids /\ items[i] \in Items

Goto(c, aStage) ==
  /\ stage' = [stage EXCEPT ![c] = aStage]
  /\ UNCHANGED outcome

End(c, result) ==
  /\ stage' = [stage EXCEPT ![c] = "done"]
  /\ outcome' = [outcome EXCEPT ![c] = result]

(* The mutation leaves: from here on, history starts anew.                 *)
Transmit(c) ==
  /\ ~readOnly
  /\ wire' = [wire EXCEPT ![c] = "travelling"]
  /\ shown' = [shown EXCEPT ![c] = IF Exists(ItemOf(c)) THEN {items[ItemOf(c)]} ELSE {}]
  /\ Goto(c, "write")
  /\ UNCHANGED <<items, outside, interfered, made, arguments>>

-----------------------------------------------------------------------------
(* A call begins.  In read-only mode the workflow refuses to apply; a      *)
(* deletion whose repeated identifier differs stops before any request; a  *)
(* create previews or sends at once; the others read first.                *)
ConfirmsId(c) == request[c].target = request[c].confirmId

BeginRefused(c) ==
  /\ readOnly /\ request[c].apply
  /\ End(c, "readOnly")

(* The arguments, or the model to create, do not pass validation.          *)
BeginInvalid(c) ==
  /\ ~(readOnly /\ request[c].apply)
  /\ End(c, "invalid")

BeginUnconfirmed(c) ==
  /\ ~(readOnly /\ request[c].apply)
  /\ IsTool(c, "delete")
  /\ ~ConfirmsId(c)
  /\ End(c, "unconfirmed")

BeginCreatePreview(c) ==
  /\ IsTool(c, "create")
  /\ ~request[c].apply
  /\ End(c, "preview")

BeginRead(c) ==
  /\ ~(readOnly /\ request[c].apply)
  /\ ~IsTool(c, "create")
  /\ IsTool(c, "delete") => ConfirmsId(c)
  /\ Goto(c, "item")

Begin(c) ==
  /\ stage[c] = "start"
  /\ \/ BeginRefused(c) \/ BeginInvalid(c) \/ BeginUnconfirmed(c)
     \/ BeginCreatePreview(c) \/ BeginRead(c)
  /\ shown' = [shown EXCEPT ![c] = IF Exists(ItemOf(c)) THEN {items[ItemOf(c)]} ELSE {}]
  /\ UNCHANGED <<items, outside, interfered, made, arguments, seen, wanted, wire>>

SendCreate(c) ==
  /\ stage[c] = "start"
  /\ IsTool(c, "create")
  /\ request[c].apply
  /\ Transmit(c)
  /\ UNCHANGED <<seen, wanted>>

-----------------------------------------------------------------------------
(* The item, or its snapshot, was read: before the decision or back.       *)
ItemAnswered(c) ==
  /\ stage[c] \in {"item", "readback"}
  /\ Exists(ItemOf(c))
  /\ seen' = [seen EXCEPT ![c] = items[ItemOf(c)]]
  /\ Goto(c, IF stage[c] = "item" THEN "decide" ELSE "verify")
  /\ UNCHANGED <<fabricState, arguments, wanted, wire>>

(* The definition read of bind or create outlasts its poll budget.         *)
SnapshotPending(c) ==
  /\ stage[c] \in {"item", "readback"}
  /\ request[c].tool \in {"bind", "create"}
  /\ End(c, IF stage[c] = "item" THEN "pendingRead" ELSE "pendingReadback")
  /\ UNCHANGED <<fabricState, arguments, seen, wanted, wire>>

FailureBeforeWrite(aStage) == "readFailed"
FailureOutcome(aStage) ==
  IF aStage \in {"item", "connection"} THEN "readFailed" ELSE "uncertain"

(* A request fails or its reply is refused.                                *)
RequestFails(c) ==
  /\ stage[c] \in {"item", "connection", "write", "readback"}
  /\ End(c, FailureOutcome(stage[c]))
  /\ UNCHANGED <<fabricState, arguments, seen, wanted, wire>>

-----------------------------------------------------------------------------
(* What a call does with the item it read.                                 *)
Preview(c) ==
  /\ ~request[c].apply
  /\ End(c, "preview")
  /\ UNCHANGED <<fabricState, arguments, seen, wire>>

(* Property update: a field the caller leaves out keeps the value read.    *)
WantedFromName(c) ==
  [name |-> IF request[c].name = Same THEN seen[c].name ELSE request[c].name,
   description |-> IF request[c].description = Same THEN seen[c].name ELSE request[c].description]
Wanted(c) ==
  [name |-> IF request[c].name = Same THEN seen[c].name ELSE request[c].name,
   description |->
     IF request[c].description = Same THEN seen[c].description ELSE request[c].description]

HasChanges(c) ==
  Wanted(c) # [name |-> seen[c].name, description |-> seen[c].description]

DecideProperties(c) ==
  /\ IsTool(c, "properties")
  /\ wanted' = [wanted EXCEPT ![c] = Wanted(c)]
  /\ \/ Preview(c)
     \/ /\ request[c].apply
        /\ HasChanges(c)
        /\ Transmit(c)
        /\ UNCHANGED seen
     \/ /\ request[c].apply
        /\ ~HasChanges(c)
        /\ Goto(c, "readback")
        /\ UNCHANGED <<fabricState, arguments, seen, wire>>

(* Deletion: the confirmed name must be the one just read.                 *)
ConfirmsAnyName(c) == TRUE
ConfirmsName(c) == seen[c].name = request[c].confirmName

DecideDelete(c) ==
  /\ IsTool(c, "delete")
  /\ UNCHANGED wanted
  /\ \/ /\ ~ConfirmsName(c)
        /\ End(c, "unconfirmed")
        /\ UNCHANGED <<fabricState, arguments, seen, wire>>
     \/ ConfirmsName(c) /\ Preview(c)
     \/ /\ ConfirmsName(c)
        /\ request[c].apply
        /\ Transmit(c)
        /\ UNCHANGED seen

(* Binding: the model has the named source, or the call ends; then the     *)
(* connection is fetched.                                                  *)
DecideBind(c) ==
  /\ IsTool(c, "bind")
  /\ End(c, "unmatched") \/ Goto(c, "connection")
  /\ UNCHANGED <<fabricState, arguments, seen, wanted, wire>>

Decide(c) ==
  /\ stage[c] = "decide"
  /\ DecideProperties(c) \/ DecideDelete(c) \/ DecideBind(c)

MatchesAnySource(c) == TRUE
MatchesSource(c) == DetailsOf[request[c].connection] = seen[c].source

(* The connection was fetched: its details must be the source's.           *)
ConnectionAnswered(c) ==
  /\ stage[c] = "connection"
  /\ UNCHANGED wanted
  /\ \/ /\ ~MatchesSource(c)
        /\ End(c, "unmatched")
        /\ UNCHANGED <<fabricState, arguments, seen, wire>>
     \/ MatchesSource(c) /\ Preview(c)
     \/ /\ MatchesSource(c)
        /\ request[c].apply
        /\ Transmit(c)
        /\ UNCHANGED seen

(* The mutation was answered, or its operation seen to have succeeded:     *)
(* deletion and binding are complete, the others read back.                *)
WriteAnswered(c) ==
  /\ stage[c] = "write"
  /\ wire[c] \in {"handled", "finished"}
  /\ IF request[c].tool \in {"delete", "bind"} THEN End(c, "completed") ELSE Goto(c, "readback")
  /\ UNCHANGED <<fabricState, arguments, seen, wanted, wire>>

(* The poll budget is spent; the operation may have ended since it was     *)
(* last asked.                                                             *)
CreatePending(c) ==
  /\ stage[c] = "write"
  /\ wire[c] \in {"accepted", "finished", "failed"}
  /\ End(c, "pendingCreate")
  /\ UNCHANGED <<fabricState, arguments, seen, wanted, wire>>

(* A create compares the definition, a property update both properties,    *)
(* those it did not send included.                                         *)
VerifiedAlways(c) == TRUE
Verified(c) ==
  IF IsTool(c, "create")
  THEN seen[c].source = request[c].source
  ELSE [name |-> seen[c].name, description |-> seen[c].description] = wanted[c]

Verify(c) ==
  /\ stage[c] = "verify"
  /\ End(c, IF ~Verified(c) THEN "mismatch"
            ELSE IF wire[c] = "unsent" THEN "unchanged" ELSE "completed")
  /\ UNCHANGED <<fabricState, arguments, seen, wanted, wire>>

ClientStep(c) ==
  \/ ItemAnswered(c) \/ SnapshotPending(c) \/ RequestFails(c) \/ Decide(c)
  \/ ConnectionAnswered(c) \/ WriteAnswered(c) \/ CreatePending(c) \/ Verify(c)

-----------------------------------------------------------------------------
(* Fabric.  An item changes: calls that work on it and others' changes to  *)
(* it are noted.                                                           *)
SetItem(i, item, others) ==
  /\ items' = [items EXCEPT ![i] = item]
  /\ shown' = [c \in Calls |->
       IF Active(c) /\ ItemOf(c) = i THEN shown[c] \cup {item} ELSE shown[c]]
  /\ interfered' = [c \in Calls |->
       interfered[c] \/ (c \in others /\ Active(c) /\ ItemOf(c) = i)]

CarryOutProperties(c) ==
  LET i == request[c].target IN
  /\ IsTool(c, "properties")
  /\ Exists(i)
  /\ SetItem(i, [items[i] EXCEPT
       !.name = IF request[c].name = Same THEN @ ELSE request[c].name,
       !.description = IF request[c].description = Same THEN @ ELSE request[c].description],
       Calls \ {c})
  /\ UNCHANGED <<outside, made>>

CarryOutDelete(c) ==
  LET i == request[c].target IN
  /\ IsTool(c, "delete")
  /\ Exists(i)
  /\ SetItem(i, Deleted, Calls \ {c})
  /\ UNCHANGED <<outside, made>>

(* A binding is kept beside the item and changes nothing read here.        *)
CarryOutBind(c) ==
  /\ IsTool(c, "bind")
  /\ Exists(request[c].target)
  /\ UNCHANGED fabricState

(* Fabric is not trusted to keep the definition that was sent.             *)
CarryOutCreate(c) ==
  /\ IsTool(c, "create")
  /\ \E i \in Ids, source \in Sources :
       /\ items[i] = Unused
       /\ LET item == [name |-> request[c].name, description |-> request[c].description,
                       source |-> source] IN
          /\ items' = [items EXCEPT ![i] = item]
          /\ shown' = [d \in Calls |->
               IF d = c THEN {item}
               ELSE IF Active(d) /\ ItemOf(d) = i THEN shown[d] \cup {item} ELSE shown[d]]
       /\ made' = [made EXCEPT ![c] = i]
  /\ UNCHANGED <<outside, interfered>>

CarryOut(c) ==
  /\ wire[c] \in {"travelling", "accepted"}
  /\ wire' = [wire EXCEPT ![c] = IF @ = "accepted" THEN "finished" ELSE "handled"]
  /\ CarryOutProperties(c) \/ CarryOutDelete(c) \/ CarryOutBind(c) \/ CarryOutCreate(c)
  /\ UNCHANGED <<arguments, stage, seen, wanted, outcome>>

Accept(c) ==
  /\ wire[c] = "travelling"
  /\ IsTool(c, "create")
  /\ wire' = [wire EXCEPT ![c] = "accepted"]
  /\ UNCHANGED <<fabricState, arguments, stage, seen, wanted, outcome>>

Refuse(c) ==
  /\ wire[c] \in {"travelling", "accepted"}
  /\ wire' = [wire EXCEPT ![c] = IF @ = "accepted" THEN "failed" ELSE "refused"]
  /\ UNCHANGED <<fabricState, arguments, stage, seen, wanted, outcome>>

(* Somebody else renames, describes, rebinds or deletes an item.           *)
OutsideChange ==
  /\ outside < MaxOutside
  /\ outside' = outside + 1
  /\ \E i \in Ids, item \in Items \cup {Deleted} :
       /\ Exists(i)
       /\ item # items[i]
       /\ SetItem(i, item, Calls)
  /\ UNCHANGED <<arguments, stage, seen, wanted, wire, made, outcome>>

Next ==
  \/ \E c \in Calls : Begin(c) \/ SendCreate(c) \/ ClientStep(c)
  \/ \E c \in Calls : CarryOut(c) \/ Accept(c) \/ Refuse(c)
  \/ OutsideChange

Spec == Init /\ [][Next]_vars

-----------------------------------------------------------------------------
(* A deletion is sent only for the identifier the caller repeated and when *)
(* the item bore the confirmed name at some moment since the call began.   *)
DeleteIsConfirmed ==
  [][\A c \in Calls :
       IsTool(c, "delete") /\ wire[c] = "unsent" /\ wire'[c] # "unsent" =>
         /\ request[c].target = request[c].confirmId
         /\ \E item \in shown[c] \ {Deleted} : item.name = request[c].confirmName]_vars

(* A binding is sent only for a connection whose details were those of the *)
(* model's data source at some moment since the call began.                *)
BindMatchesSource ==
  [][\A c \in Calls :
       IsTool(c, "bind") /\ wire[c] = "unsent" /\ wire'[c] # "unsent" =>
         \E item \in shown[c] \ {Deleted} : item.source = DetailsOf[request[c].connection]]_vars

(* Results that say nothing was applied, and errors raised before the      *)
(* mutation, are final: no mutation of the call is on its way.             *)
NotAppliedIsFinal ==
  \A c \in Calls :
    outcome[c] \in NotApplied \cup RefusedEarly \cup {"unchanged"} => wire[c] = "unsent"

(* A completed create or property update was visible in Fabric as verified *)
(* after it was sent.                                                      *)
CompletedWasShown ==
  \A c \in Calls :
    outcome[c] = "completed" =>
      /\ IsTool(c, "create") => \E item \in shown[c] \ {Deleted} : item.source = request[c].source
      /\ IsTool(c, "properties") =>
           \E item \in shown[c] \ {Deleted} :
             item.name = wanted[c].name /\ item.description = wanted[c].description

(* PROPERTY_READBACK_MISMATCH is raised only when somebody else changed    *)
(* the item during the call, never by the call's own update.               *)
MismatchMeansInterference ==
  \A c \in Calls :
    outcome[c] = "mismatch" /\ IsTool(c, "properties") => interfered[c]
=============================================================================
