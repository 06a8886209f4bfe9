---------------------------- MODULE ModelChanges ----------------------------
(***************************************************************************)
(* apply_model_changes (SemanticModelService.applyModelChanges, with       *)
(* getSnapshot, the operation polling and the Fabric client calls under    *)
(* it): read the definition, compare its hash with the one the caller      *)
(* expects, edit it, replace the whole definition, read it back, verify.   *)
(*                                                                         *)
(* Several calls and editors outside this server work on one semantic      *)
(* model; the code holds no lock.  Fabric may answer a read or an update   *)
(* at once (200) or with an operation to poll (202), and may carry an      *)
(* update out after the call that sent it has ended.  What the helper      *)
(* under the client does about lost replies and retries is HttpClient; a   *)
(* request here either is answered or fails.                               *)
(*                                                                         *)
(* A definition stands for its hash, so equal hashes are equal definitions.*)
(* The semantic diff is a given relation between definitions.              *)
(*                                                                         *)
(* An error carries a flag, retryable, that the tool passes on to its      *)
(* caller (mcp/server.ts).                                                 *)
(***************************************************************************)
EXTENDS Integers

CONSTANTS
  Calls,         \* the apply_model_changes calls ever made
  Definitions,   \* definitions of the model
  Edits,         \* operation lists
  Edited,        \* the definition an edit makes of a definition, or NoDefinition
  DiffSees,      \* whether the semantic diff of two definitions shows a change
  Requests,      \* what callers ask: expected definition, edit, apply
  PollBudget,    \* lroPollBudgetMs, in clock units
  MaxOutside,    \* bound on the edits made outside this server
  NoDefinition   \* no definition, or the engine's refusal of an edit

ASSUME BudgetAssumption == PollBudget \in Nat /\ MaxOutside \in Nat
ASSUME NoDefinitionAssumption == NoDefinition \notin Definitions
ASSUME EditedAssumption == Edited \in [Definitions -> [Edits -> Definitions \cup {NoDefinition}]]
ASSUME DiffAssumption ==
  /\ DiffSees \in [Definitions -> [Definitions -> BOOLEAN]]
  /\ \A d \in Definitions : ~DiffSees[d][d]
ASSUME RequestAssumption ==
  Requests \subseteq [expected: Definitions, edit: Edits, apply: BOOLEAN]

VARIABLES
  definition,  \* Fabric: the model's definition
  outside,     \* edits made outside this server so far
  readOnly,    \* FABRIC_MODE of the server
  request,     \* the arguments of each call
  stage,       \* the part of the call: its read, its update or its read-back
  step,        \* what the part waits for
  snapshot,    \* the definition the call read last
  submitted,   \* the definition the call sent
  wire,        \* what became of the update request
  op,          \* the Fabric operation the call polls
  waited,      \* time spent in the current poll loop
  outcome,     \* what the call returned or threw
  retryable,   \* the flag of the error it threw
  live,        \* history: definitions Fabric held since the call began or, once it sent, since then
  replaced     \* history: what Fabric held when it stored the call's update

callState == <<stage, step, outcome, retryable>>
fabricState == <<definition, outside, replaced>>
vars == <<definition, outside, readOnly, request, stage, step, snapshot, submitted,
          wire, op, waited, outcome, retryable, live, replaced>>

-----------------------------------------------------------------------------
Stages == {"start", "read", "update", "readback", "done"}
Reads == {"read", "readback"}
Operations ==
  [kind: {"none", "read", "update"}, state: {"running", "succeeded", "failed"},
   value: Definitions \cup {NoDefinition}]

(* Results that say applied: false, and errors raised before any write.    *)
NotApplied == {"preview", "unchanged", "pendingRead"}
RefusedEarly == {"readOnly", "stale", "rejected", "readFailed", "unsent"}
Outcomes ==
  {"open", "completed", "pendingUpdate", "pendingReadback", "mismatch", "uncertain", "tooLarge"}
    \cup NotApplied \cup RefusedEarly

TypeOK ==
  /\ definition \in Definitions
  /\ outside \in 0..MaxOutside
  /\ readOnly \in BOOLEAN
  /\ request \in [Calls -> Requests]
  /\ stage \in [Calls -> Stages]
  /\ step \in [Calls -> {"request", "poll", "result", "ready"}]
  /\ snapshot \in [Calls -> Definitions \cup {NoDefinition}]
  /\ submitted \in [Calls -> Definitions \cup {NoDefinition}]
  /\ wire \in [Calls -> {"unsent", "travelling", "stored", "accepted", "refused"}]
  /\ op \in [Calls -> Operations]
  /\ waited \in [Calls -> 0..PollBudget]
  /\ outcome \in [Calls -> Outcomes]
  /\ retryable \in [Calls -> BOOLEAN]
  /\ live \in [Calls -> SUBSET Definitions]
  /\ replaced \in [Calls -> Definitions \cup {NoDefinition}]
  /\ \A c \in Calls : step[c] = "ready" => snapshot[c] \in Definitions

Init ==
  /\ definition \in Definitions
  /\ outside = 0
  /\ readOnly \in BOOLEAN
  /\ request \in [Calls -> Requests]
  /\ stage = [c \in Calls |-> "start"]
  /\ step = [c \in Calls |-> "request"]
  /\ snapshot = [c \in Calls |-> NoDefinition]
  /\ submitted = [c \in Calls |-> NoDefinition]
  /\ wire = [c \in Calls |-> "unsent"]
  /\ op = [c \in Calls |-> [kind |-> "none", state |-> "failed", value |-> NoDefinition]]
  /\ waited = [c \in Calls |-> 0]
  /\ outcome = [c \in Calls |-> "open"]
  /\ retryable = [c \in Calls |-> FALSE]
  /\ live = [c \in Calls |-> {}]
  /\ replaced = [c \in Calls |-> NoDefinition]

At(c, aStage, aStep) == stage[c] = aStage /\ step[c] = aStep
Active(c) == stage[c] \notin {"start", "done"}

Goto(c, aStage, aStep) ==
  /\ stage' = [stage EXCEPT ![c] = aStage]
  /\ step' = [step EXCEPT ![c] = aStep]
  /\ UNCHANGED <<outcome, retryable>>

(* The call throws an error, with its flag.                                *)
Throw(c, result, flag) ==
  /\ stage' = [stage EXCEPT ![c] = "done"]
  /\ outcome' = [outcome EXCEPT ![c] = result]
  /\ retryable' = [retryable EXCEPT ![c] = flag]
  /\ UNCHANGED step

(* It returns a result, or throws an error that is never flagged.          *)
End(c, result) == Throw(c, result, FALSE)

(* A result that carries the transaction goes through boundedSuccess,      *)
(* which throws TOOL_OUTPUT_TOO_LARGE when it exceeds the output limit.    *)
EndBounded(c, result) == \E bounded \in {result, "tooLarge"} : End(c, bounded)

-----------------------------------------------------------------------------
(* The call begins: the workflow refuses it in read-only mode if it asks   *)
(* to apply, else the snapshot is requested.                               *)
Begin(c) ==
  /\ stage[c] = "start"
  /\ live' = [live EXCEPT ![c] = {definition}]
  /\ IF readOnly /\ request[c].apply THEN End(c, "readOnly") ELSE Goto(c, "read", "request")
  /\ UNCHANGED <<fabricState, readOnly, request, snapshot, submitted, wire, op, waited>>

(* getDefinition answered with 200; the item request beside it answered.   *)
SnapshotAnswered(c) ==
  /\ stage[c] \in Reads
  /\ step[c] = "request"
  /\ snapshot' = [snapshot EXCEPT ![c] = definition]
  /\ Goto(c, stage[c], "ready")
  /\ UNCHANGED <<fabricState, readOnly, request, submitted, wire, op, waited, live>>

(* getDefinition answered with 202 and an operation.                       *)
SnapshotAccepted(c) ==
  /\ stage[c] \in Reads
  /\ step[c] = "request"
  /\ op' = [op EXCEPT ![c] = [kind |-> "read", state |-> "running", value |-> NoDefinition]]
  /\ waited' = [waited EXCEPT ![c] = 0]
  /\ Goto(c, stage[c], "poll")
  /\ UNCHANGED <<fabricState, readOnly, request, snapshot, submitted, wire, live>>

FailureOutcome(aStage) == IF aStage = "read" THEN "readFailed" ELSE "uncertain"

(* The mode of the request the call waits for: the update alone must not   *)
(* be repeated, and its failures are not flagged once it has been sent.    *)
RepeatableAlways(c) == TRUE
Repeatable(c) == ~At(c, "update", "request")

(* A request of the call fails: a timeout, an error status, a 202 without  *)
(* operation headers, a definition that cannot be parsed.  The update may  *)
(* have reached Fabric, or reach it later, all the same.                   *)
RequestFails(c) ==
  /\ Active(c)
  /\ step[c] \in {"request", "poll", "result"}
  /\ \E flag \in BOOLEAN :
       /\ flag => Repeatable(c)
       /\ Throw(c, FailureOutcome(stage[c]), flag)
  /\ UNCHANGED <<fabricState, readOnly, request, snapshot, submitted, wire, op, waited, live>>

-----------------------------------------------------------------------------
(* poll(): sleep, ask for the state, until it is terminal or the budget is *)
(* spent.  A sleep and its request take at least one clock unit; the loop  *)
(* does not look at the clock in between.                                  *)
BudgetNeverSpent(c) == FALSE
BudgetSpent(c) == waited[c] >= PollBudget

PollRound(c) ==
  /\ Active(c)
  /\ step[c] = "poll"
  /\ ~BudgetSpent(c)
  /\ \E t \in 1..PollBudget :
       /\ t > waited[c] \/ t = PollBudget
       /\ waited' = [waited EXCEPT ![c] = t]
  /\ UNCHANGED <<fabricState, readOnly, request, snapshot, submitted, wire, op, live>>

PollSeesRunning(c) ==
  /\ op[c].state = "running"
  /\ PollRound(c)
  /\ UNCHANGED callState

(* A read goes on to fetch its result, an update to its read-back.         *)
AnyEndIsSuccess(c) == op[c].state # "running"
Succeeded(c) == op[c].state = "succeeded"

PollSeesSuccess(c) ==
  /\ Succeeded(c)
  /\ PollRound(c)
  /\ IF stage[c] = "update" THEN Goto(c, "readback", "request") ELSE Goto(c, stage[c], "result")

(* The flag is the one that Fabric gave the operation (isRetriable).       *)
PollSeesFailure(c) ==
  /\ op[c].state = "failed"
  /\ PollRound(c)
  /\ \E flag \in BOOLEAN : Throw(c, FailureOutcome(stage[c]), flag)

PendingAlwaysUnapplied(aStage) == "pendingRead"
PendingOutcome(aStage) ==
  CASE aStage = "read" -> "pendingRead"
    [] aStage = "update" -> "pendingUpdate"
    [] OTHER -> "pendingReadback"

PollExpires(c) ==
  /\ Active(c)
  /\ step[c] = "poll"
  /\ BudgetSpent(c)
  /\ End(c, PendingOutcome(stage[c]))
  /\ UNCHANGED <<fabricState, readOnly, request, snapshot, submitted, wire, op, waited, live>>

PollLoop(c) == PollSeesRunning(c) \/ PollSeesSuccess(c) \/ PollSeesFailure(c) \/ PollExpires(c)

(* getOperationResult of a definition read.                                *)
ResultAnswered(c) ==
  /\ stage[c] \in Reads
  /\ step[c] = "result"
  /\ snapshot' = [snapshot EXCEPT ![c] = op[c].value]
  /\ Goto(c, stage[c], "ready")
  /\ UNCHANGED <<fabricState, readOnly, request, submitted, wire, op, waited, live>>

-----------------------------------------------------------------------------
(* What the call does with its snapshot, without a break up to the request.*)
HashMatchesAlways(c) == TRUE
HashMatches(c) == snapshot[c] = request[c].expected

Result(c) == Edited[snapshot[c]][request[c].edit]

(* transaction.diff.hasChanges, which is not the same as another hash: the  *)
(* diff leaves out the order of calculation items (see ModelEngine).        *)
HasChanges(c) == DiffSees[snapshot[c]][Result(c)]

IsPreview(c) == ~request[c].apply

DecideStale(c) ==
  /\ ~HashMatches(c)
  /\ End(c, "stale")

(* The engine or the serializer refuses an operation list.                 *)
DecideRejected(c) ==
  /\ HashMatches(c)
  /\ Result(c) = NoDefinition
  /\ End(c, "rejected")

DecidePreview(c) ==
  /\ HashMatches(c)
  /\ Result(c) # NoDefinition
  /\ IsPreview(c)
  /\ EndBounded(c, "preview")

DecideUnchanged(c) ==
  /\ HashMatches(c)
  /\ ~IsPreview(c)
  /\ Result(c) # NoDefinition
  /\ ~HasChanges(c)
  /\ EndBounded(c, "unchanged")

DecideNotToSend(c) ==
  /\ At(c, "read", "ready")
  /\ DecideStale(c) \/ DecideRejected(c) \/ DecidePreview(c) \/ DecideUnchanged(c)
  /\ UNCHANGED <<fabricState, readOnly, request, snapshot, submitted, wire, op, waited, live>>

(* updateSemanticModelDefinition: assertWritable, then the whole edited    *)
(* definition is sent, with no condition on what it replaces.              *)
DecidesToSend(c) ==
  /\ At(c, "read", "ready")
  /\ HashMatches(c)
  /\ ~IsPreview(c)
  /\ Result(c) # NoDefinition
  /\ HasChanges(c)
  /\ ~readOnly

(* No token for the update: an error flagged retryable before it is sent.  *)
UpdateUnsent(c) ==
  /\ DecidesToSend(c)
  /\ Throw(c, "unsent", TRUE)
  /\ UNCHANGED <<fabricState, readOnly, request, snapshot, submitted, wire, op, waited, live>>

SendUpdate(c) ==
  /\ DecidesToSend(c)
  /\ submitted' = [submitted EXCEPT ![c] = Result(c)]
  /\ wire' = [wire EXCEPT ![c] = "travelling"]
  /\ live' = [live EXCEPT ![c] = {definition}]
  /\ Goto(c, "update", "request")
  /\ UNCHANGED <<fabricState, readOnly, request, snapshot, op, waited>>

UpdateAnswered(c) ==
  /\ At(c, "update", "request")
  /\ wire[c] = "stored"
  /\ Goto(c, "readback", "request")
  /\ UNCHANGED <<fabricState, readOnly, request, snapshot, submitted, wire, op, waited, live>>

UpdateAccepted(c) ==
  /\ At(c, "update", "request")
  /\ wire[c] = "accepted"
  /\ waited' = [waited EXCEPT ![c] = 0]
  /\ Goto(c, "update", "poll")
  /\ UNCHANGED <<fabricState, readOnly, request, snapshot, submitted, wire, op, live>>

(* verifyReadBack.                                                         *)
VerifiedAlways(c) == TRUE
Verified(c) == snapshot[c] = submitted[c]

Verify(c) ==
  /\ At(c, "readback", "ready")
  /\ IF Verified(c) THEN EndBounded(c, "completed") ELSE End(c, "mismatch")
  /\ UNCHANGED <<fabricState, readOnly, request, snapshot, submitted, wire, op, waited, live>>

ClientStep(c) ==
  \/ SnapshotAnswered(c) \/ SnapshotAccepted(c) \/ RequestFails(c)
  \/ PollSeesRunning(c) \/ PollSeesSuccess(c) \/ PollSeesFailure(c) \/ PollExpires(c)
  \/ ResultAnswered(c) \/ DecideNotToSend(c) \/ UpdateUnsent(c) \/ SendUpdate(c)
  \/ UpdateAnswered(c) \/ UpdateAccepted(c) \/ Verify(c)

-----------------------------------------------------------------------------
(* Fabric and the editors outside this server.                             *)
SetDefinition(d) ==
  /\ definition' = d
  /\ live' = [c \in Calls |-> IF Active(c) THEN live[c] \cup {d} ELSE live[c]]

(* The code does not trust a success to mean that the definition sent is   *)
(* the one stored: that is what the read-back is for.                      *)
Store(c) ==
  /\ \E d \in {submitted[c], definition} : SetDefinition(d)
  /\ replaced' = [replaced EXCEPT ![c] = definition]
  /\ UNCHANGED outside

StoreUpdate(c) ==
  /\ wire[c] = "travelling"
  /\ wire' = [wire EXCEPT ![c] = "stored"]
  /\ Store(c)
  /\ UNCHANGED <<callState, readOnly, request, snapshot, submitted, op, waited>>

AcceptUpdate(c) ==
  /\ wire[c] = "travelling"
  /\ wire' = [wire EXCEPT ![c] = "accepted"]
  /\ op' = [op EXCEPT ![c] = [kind |-> "update", state |-> "running", value |-> NoDefinition]]
  /\ UNCHANGED <<callState, fabricState, readOnly, request, snapshot, submitted, waited, live>>

RefuseUpdate(c) ==
  /\ wire[c] = "travelling"
  /\ wire' = [wire EXCEPT ![c] = "refused"]
  /\ UNCHANGED <<callState, fabricState, readOnly, request, snapshot, submitted, op, waited, live>>

FinishUpdate(c) ==
  /\ op[c].kind = "update"
  /\ op[c].state = "running"
  /\ op' = [op EXCEPT ![c].state = "succeeded"]
  /\ Store(c)
  /\ UNCHANGED <<callState, readOnly, request, snapshot, submitted, wire, waited>>

FinishRead(c) ==
  /\ op[c].kind = "read"
  /\ op[c].state = "running"
  /\ op' = [op EXCEPT ![c].state = "succeeded", ![c].value = definition]
  /\ UNCHANGED <<callState, fabricState, readOnly, request, snapshot, submitted, wire, waited, live>>

FailOperation(c) ==
  /\ op[c].state = "running"
  /\ op' = [op EXCEPT ![c].state = "failed"]
  /\ UNCHANGED <<callState, fabricState, readOnly, request, snapshot, submitted, wire, waited, live>>

FabricStep(c) ==
  \/ StoreUpdate(c) \/ AcceptUpdate(c) \/ RefuseUpdate(c)
  \/ FinishUpdate(c) \/ FinishRead(c) \/ FailOperation(c)

OutsideEdit ==
  /\ outside < MaxOutside
  /\ outside' = outside + 1
  /\ \E d \in Definitions : SetDefinition(d)
  /\ UNCHANGED <<callState, readOnly, request, snapshot, submitted, wire, op, waited, replaced>>

Next ==
  \/ \E c \in Calls : Begin(c) \/ ClientStep(c) \/ FabricStep(c)
  \/ OutsideEdit

Spec == Init /\ [][Next]_vars

(* A call keeps running once begun: the helper's timeout ends every wait   *)
(* for a reply and setTimeout every sleep.  Fabric owes nothing, and no    *)
(* state request of the poll loop need ever fail: the loop ends by itself. *)
FairSpec ==
  /\ Spec
  /\ \A c \in Calls : WF_vars(step[c] # "poll" /\ ClientStep(c)) /\ WF_vars(PollLoop(c))

-----------------------------------------------------------------------------
(* What a call sends is its own edit of the definition its caller expected *)
(* and reviewed, never an edit of a definition that came in between.       *)
SubmitsEditOfExpected ==
  \A c \in Calls :
    submitted[c] # NoDefinition => submitted[c] = Edited[request[c].expected][request[c].edit]

(* A call sends only if Fabric held the expected definition at some moment *)
(* since the call began, even when the read went through an operation that *)
(* finished much earlier than it was polled.                               *)
ExpectedWasLive ==
  [][\A c \in Calls : SendUpdate(c) => request[c].expected \in live[c]]_vars

(* A result with applied: false, and an error thrown before the write, is  *)
(* final: the call has sent nothing that could still arrive.               *)
NotAppliedIsFinal ==
  \A c \in Calls : outcome[c] \in NotApplied \cup RefusedEarly => wire[c] = "unsent"

(* An error flagged retryable, which invites its caller to call again,     *)
(* never leaves open whether Fabric took the update: it was not sent, or   *)
(* Fabric has answered that it stored or accepted it.  It does not mean    *)
(* that nothing was applied.                                               *)
RetryableIsUnambiguous ==
  \A c \in Calls : retryable[c] => wire[c] \in {"unsent", "stored", "accepted"}

(* A completed call's definition was in Fabric at some moment after the    *)
(* call sent it, though Fabric may report success without storing it.      *)
CompletedWasLive ==
  \A c \in Calls : outcome[c] = "completed" => submitted[c] \in live[c]

(* Every call ends, whatever Fabric does with its operations.              *)
CallEnds == \A c \in Calls : Active(c) ~> stage[c] = "done"

(* docs/adr/0004: "Concurrent definition changes are visible and must be   *)
(* reconciled instead of being silently overwritten."  An update replaces  *)
(* only the definition its caller expected.                                *)
NoSilentOverwrite ==
  \A c \in Calls : replaced[c] # NoDefinition => replaced[c] = request[c].expected
=============================================================================
