------------------------- MODULE ModelChangesProofs -------------------------
(***************************************************************************)
(* What apply_model_changes guarantees for any number of calls, any set of *)
(* definitions, edits and requests, and any poll budget.                   *)
(***************************************************************************)
EXTENDS ModelChanges, TLAPS

(* Where the update request may be, by the part the call is in.            *)
WireFollowsStage ==
  \A c \in Calls :
    /\ stage[c] \in {"start", "read"} => wire[c] = "unsent"
    /\ stage[c] = "update" /\ step[c] # "request" => wire[c] = "accepted"
    /\ stage[c] = "readback" => wire[c] \in {"stored", "accepted"}
    /\ stage[c] # "done" => outcome[c] = "open" /\ retryable[c] = FALSE
    /\ wire[c] = "unsent" <=> submitted[c] = NoDefinition
    /\ op[c].kind = "update" => wire[c] = "accepted"

(* While a read polls an operation it is its own, and what it yields was   *)
(* live; so is what the read has yielded.                                  *)
ReadsAreLive ==
  \A c \in Calls :
    /\ Active(c) => definition \in live[c]
    /\ stage[c] \in Reads /\ step[c] \in {"poll", "result"} =>
         /\ op[c].kind = "read"
         /\ op[c].state = "succeeded" => op[c].value \in live[c]
         /\ step[c] = "result" => op[c].state = "succeeded"
    /\ stage[c] \in Reads /\ step[c] = "ready" => snapshot[c] \in live[c]

Inv ==
  /\ TypeOK
  /\ WireFollowsStage
  /\ ReadsAreLive
  /\ SubmitsEditOfExpected
  /\ NotAppliedIsFinal
  /\ RetryableIsUnambiguous
  /\ CompletedWasLive

LEMMA InitInv == Init => Inv
  BY BudgetAssumption
  DEF Init, Inv, TypeOK, WireFollowsStage, ReadsAreLive, SubmitsEditOfExpected,
      NotAppliedIsFinal, RetryableIsUnambiguous, CompletedWasLive, Stages, Reads, Operations,
      Outcomes, NotApplied, RefusedEarly, At, Active

LEMMA BeginInv ==
  ASSUME Inv, NEW c \in Calls, Begin(c)
  PROVE  Inv'
<1> USE DEF Inv, Goto, End, Throw, fabricState, Begin
<1>1. TypeOK'
  BY ZenonT(60) DEF TypeOK, Stages, Outcomes, NotApplied, RefusedEarly, Operations
<1>2. WireFollowsStage'
  BY DEF TypeOK, WireFollowsStage, At, Reads
<1>3. ReadsAreLive'
  BY DEF TypeOK, ReadsAreLive, Active, Reads, WireFollowsStage, At
<1>4. SubmitsEditOfExpected'
  BY DEF TypeOK, SubmitsEditOfExpected
<1>5. NotAppliedIsFinal'
  BY DEF TypeOK, NotAppliedIsFinal, WireFollowsStage, NotApplied, RefusedEarly
<1>6. CompletedWasLive'
  BY DEF TypeOK, CompletedWasLive, WireFollowsStage, ReadsAreLive
<1>7. RetryableIsUnambiguous'
  BY DEF TypeOK, RetryableIsUnambiguous, WireFollowsStage
<1> QED
  BY <1>1, <1>2, <1>3, <1>4, <1>5, <1>6, <1>7

LEMMA SnapshotAnsweredInv ==
  ASSUME Inv, NEW c \in Calls, SnapshotAnswered(c)
  PROVE  Inv'
<1> USE DEF Inv, Goto, End, Throw, fabricState, SnapshotAnswered
<1>1. TypeOK'
  BY DEF TypeOK, Stages, Outcomes, NotApplied, RefusedEarly, Operations
<1>2. WireFollowsStage'
  BY DEF TypeOK, WireFollowsStage, At, Reads
<1>3. ReadsAreLive'
  BY DEF TypeOK, ReadsAreLive, Active, Reads, WireFollowsStage, At
<1>4. SubmitsEditOfExpected'
  BY DEF TypeOK, SubmitsEditOfExpected
<1>5. NotAppliedIsFinal'
  BY DEF TypeOK, NotAppliedIsFinal, WireFollowsStage, NotApplied, RefusedEarly
<1>6. CompletedWasLive'
  BY DEF TypeOK, CompletedWasLive, WireFollowsStage, ReadsAreLive
<1>7. RetryableIsUnambiguous'
  BY DEF TypeOK, RetryableIsUnambiguous, WireFollowsStage
<1> QED
  BY <1>1, <1>2, <1>3, <1>4, <1>5, <1>6, <1>7

LEMMA SnapshotAcceptedInv ==
  ASSUME Inv, NEW c \in Calls, SnapshotAccepted(c)
  PROVE  Inv'
<1> USE DEF Inv, Goto, End, Throw, fabricState, SnapshotAccepted
<1>1. TypeOK'
  BY BudgetAssumption DEF TypeOK, Stages, Outcomes, NotApplied, RefusedEarly, Operations
<1>2. WireFollowsStage'
  BY DEF TypeOK, WireFollowsStage, At, Reads
<1>3. ReadsAreLive'
  BY DEF TypeOK, ReadsAreLive, Active, Reads, WireFollowsStage, At
<1>4. SubmitsEditOfExpected'
  BY DEF TypeOK, SubmitsEditOfExpected
<1>5. NotAppliedIsFinal'
  BY DEF TypeOK, NotAppliedIsFinal, WireFollowsStage, NotApplied, RefusedEarly
<1>6. CompletedWasLive'
  BY DEF TypeOK, CompletedWasLive, WireFollowsStage, ReadsAreLive
<1>7. RetryableIsUnambiguous'
  BY DEF TypeOK, RetryableIsUnambiguous, WireFollowsStage
<1> QED
  BY <1>1, <1>2, <1>3, <1>4, <1>5, <1>6, <1>7

LEMMA RequestFailsInv ==
  ASSUME Inv, NEW c \in Calls, RequestFails(c)
  PROVE  Inv'
<1> USE DEF Inv, Goto, End, Throw, fabricState, RequestFails, Repeatable, At, FailureOutcome, Active
<1>1. TypeOK'
  BY DEF TypeOK, Stages, Outcomes, NotApplied, RefusedEarly, Operations
<1>2. WireFollowsStage'
  BY DEF TypeOK, WireFollowsStage, At, Reads
<1>3. ReadsAreLive'
  BY DEF TypeOK, ReadsAreLive, Active, Reads, WireFollowsStage, At
<1>4. SubmitsEditOfExpected'
  BY DEF TypeOK, SubmitsEditOfExpected
<1>5. NotAppliedIsFinal'
  BY DEF TypeOK, NotAppliedIsFinal, WireFollowsStage, NotApplied, RefusedEarly
<1>6. CompletedWasLive'
  BY DEF TypeOK, CompletedWasLive, WireFollowsStage, ReadsAreLive
<1>7. RetryableIsUnambiguous'
  <2>1. PICK flag \in BOOLEAN : Throw(c, FailureOutcome(stage[c]), flag) /\ (flag => Repeatable(c))
    BY DEF Repeatable, At
  <2>2. Repeatable(c) => wire[c] \in {"unsent", "stored", "accepted"}
    BY DEF TypeOK, WireFollowsStage, Stages, Repeatable, At
  <2>3. retryable' = [retryable EXCEPT ![c] = flag] /\ wire' = wire
    BY <2>1
  <2> QED
    BY <2>1, <2>2, <2>3, Zenon DEF TypeOK, RetryableIsUnambiguous
<1> QED
  BY <1>1, <1>2, <1>3, <1>4, <1>5, <1>6, <1>7

LEMMA PollSeesRunningInv ==
  ASSUME Inv, NEW c \in Calls, PollSeesRunning(c)
  PROVE  Inv'
<1> USE DEF Inv, Goto, End, Throw, fabricState, PollSeesRunning, PollRound, callState, Active, BudgetSpent
<1>1. TypeOK'
  BY DEF TypeOK, Stages, Outcomes, NotApplied, RefusedEarly, Operations
<1>2. WireFollowsStage'
  BY DEF TypeOK, WireFollowsStage, At, Reads
<1>3. ReadsAreLive'
  BY DEF TypeOK, ReadsAreLive, Active, Reads, WireFollowsStage, At
<1>4. SubmitsEditOfExpected'
  BY DEF TypeOK, SubmitsEditOfExpected
<1>5. NotAppliedIsFinal'
  BY DEF TypeOK, NotAppliedIsFinal, WireFollowsStage, NotApplied, RefusedEarly
<1>6. CompletedWasLive'
  BY DEF TypeOK, CompletedWasLive, WireFollowsStage, ReadsAreLive
<1>7. RetryableIsUnambiguous'
  BY DEF TypeOK, RetryableIsUnambiguous, WireFollowsStage
<1> QED
  BY <1>1, <1>2, <1>3, <1>4, <1>5, <1>6, <1>7

LEMMA PollSeesSuccessInv ==
  ASSUME Inv, NEW c \in Calls, PollSeesSuccess(c)
  PROVE  Inv'
<1> USE DEF Inv, Goto, End, Throw, fabricState, PollSeesSuccess, Succeeded, PollRound, Active, BudgetSpent
<1>1. TypeOK'
  <2>1. waited' \in [Calls -> 0..PollBudget]
    BY BudgetAssumption DEF TypeOK
  <2>2. stage' \in [Calls -> Stages] /\ step' \in [Calls -> {"request", "poll", "result", "ready"}]
    BY DEF TypeOK, Stages
  <2> QED
    BY <2>1, <2>2 DEF TypeOK
<1>2. WireFollowsStage'
  BY DEF TypeOK, WireFollowsStage, At, Reads
<1>3. ReadsAreLive'
  BY DEF TypeOK, ReadsAreLive, Active, Reads, WireFollowsStage, At
<1>4. SubmitsEditOfExpected'
  BY DEF TypeOK, SubmitsEditOfExpected
<1>5. NotAppliedIsFinal'
  BY DEF TypeOK, NotAppliedIsFinal, WireFollowsStage, NotApplied, RefusedEarly
<1>6. CompletedWasLive'
  BY DEF TypeOK, CompletedWasLive, WireFollowsStage, ReadsAreLive
<1>7. RetryableIsUnambiguous'
  BY DEF TypeOK, RetryableIsUnambiguous, WireFollowsStage
<1> QED
  BY <1>1, <1>2, <1>3, <1>4, <1>5, <1>6, <1>7

LEMMA PollSeesFailureInv ==
  ASSUME Inv, NEW c \in Calls, PollSeesFailure(c)
  PROVE  Inv'
<1> USE DEF Inv, Goto, End, Throw, fabricState, PollSeesFailure, PollRound, Active, BudgetSpent, FailureOutcome
<1>1. TypeOK'
  BY DEF TypeOK, Stages, Outcomes, NotApplied, RefusedEarly, Operations
<1>2. WireFollowsStage'
  BY DEF TypeOK, WireFollowsStage, At, Reads
<1>3. ReadsAreLive'
  BY DEF TypeOK, ReadsAreLive, Active, Reads, WireFollowsStage, At
<1>4. SubmitsEditOfExpected'
  BY DEF TypeOK, SubmitsEditOfExpected
<1>5. NotAppliedIsFinal'
  BY DEF TypeOK, NotAppliedIsFinal, WireFollowsStage, NotApplied, RefusedEarly
<1>6. CompletedWasLive'
  BY DEF TypeOK, CompletedWasLive, WireFollowsStage, ReadsAreLive
<1>7. RetryableIsUnambiguous'
  <2>1. PICK flag \in BOOLEAN : Throw(c, FailureOutcome(stage[c]), flag) /\ (flag => Repeatable(c))
    BY DEF Repeatable, At
  <2>2. Repeatable(c) => wire[c] \in {"unsent", "stored", "accepted"}
    BY DEF TypeOK, WireFollowsStage, Stages, Repeatable, At
  <2>3. retryable' = [retryable EXCEPT ![c] = flag] /\ wire' = wire
    BY <2>1
  <2> QED
    BY <2>1, <2>2, <2>3, Zenon DEF TypeOK, RetryableIsUnambiguous
<1> QED
  BY <1>1, <1>2, <1>3, <1>4, <1>5, <1>6, <1>7

LEMMA PollExpiresInv ==
  ASSUME Inv, NEW c \in Calls, PollExpires(c)
  PROVE  Inv'
<1> USE DEF Inv, Goto, End, Throw, fabricState, PollExpires, PendingOutcome, Active
<1>1. TypeOK'
  BY DEF TypeOK, Stages, Outcomes, NotApplied, RefusedEarly, Operations
<1>2. WireFollowsStage'
  BY DEF TypeOK, WireFollowsStage, At, Reads
<1>3. ReadsAreLive'
  BY DEF TypeOK, ReadsAreLive, Active, Reads, WireFollowsStage, At
<1>4. SubmitsEditOfExpected'
  BY DEF TypeOK, SubmitsEditOfExpected
<1>5. NotAppliedIsFinal'
  BY DEF TypeOK, NotAppliedIsFinal, WireFollowsStage, NotApplied, RefusedEarly
<1>6. CompletedWasLive'
  BY DEF TypeOK, CompletedWasLive, WireFollowsStage, ReadsAreLive
<1>7. RetryableIsUnambiguous'
  BY DEF TypeOK, RetryableIsUnambiguous, WireFollowsStage
<1> QED
  BY <1>1, <1>2, <1>3, <1>4, <1>5, <1>6, <1>7

LEMMA ResultAnsweredInv ==
  ASSUME Inv, NEW c \in Calls, ResultAnswered(c)
  PROVE  Inv'
<1> USE DEF Inv, Goto, End, Throw, fabricState, ResultAnswered
<1>1. TypeOK'
  <2>1. op[c].value \in Definitions
    BY DEF TypeOK, ReadsAreLive
  <2>2. stage' = stage /\ step' \in [Calls -> {"request", "poll", "result", "ready"}]
    BY DEF TypeOK
  <2> QED
    BY <2>1, <2>2 DEF TypeOK
<1>2. WireFollowsStage'
  BY DEF TypeOK, WireFollowsStage, At, Reads
<1>3. ReadsAreLive'
  BY DEF TypeOK, ReadsAreLive, Active, Reads, WireFollowsStage, At
<1>4. SubmitsEditOfExpected'
  BY DEF TypeOK, SubmitsEditOfExpected
<1>5. NotAppliedIsFinal'
  BY DEF TypeOK, NotAppliedIsFinal, WireFollowsStage, NotApplied, RefusedEarly
<1>6. CompletedWasLive'
  BY DEF TypeOK, CompletedWasLive, WireFollowsStage, ReadsAreLive
<1>7. RetryableIsUnambiguous'
  BY DEF TypeOK, RetryableIsUnambiguous, WireFollowsStage
<1> QED
  BY <1>1, <1>2, <1>3, <1>4, <1>5, <1>6, <1>7

LEMMA DecideNotToSendInv ==
  ASSUME Inv, NEW c \in Calls, DecideNotToSend(c)
  PROVE  Inv'
<1> USE DEF Inv, Goto, End, Throw, fabricState, DecideNotToSend, DecideStale, DecideRejected, DecidePreview, DecideUnchanged, EndBounded, At
<1>1. TypeOK'
  <2>1. PICK result \in Outcomes : End(c, result)
    BY DEF Outcomes, NotApplied, RefusedEarly
  <2> QED
    BY <2>1 DEF TypeOK, Stages
<1>2. WireFollowsStage'
  BY DEF TypeOK, WireFollowsStage, At, Reads
<1>3. ReadsAreLive'
  BY DEF TypeOK, ReadsAreLive, Active, Reads, WireFollowsStage, At
<1>4. SubmitsEditOfExpected'
  BY DEF TypeOK, SubmitsEditOfExpected
<1>5. NotAppliedIsFinal'
  BY DEF TypeOK, NotAppliedIsFinal, WireFollowsStage, NotApplied, RefusedEarly
<1>6. CompletedWasLive'
  BY DEF TypeOK, CompletedWasLive, WireFollowsStage, ReadsAreLive
<1>7. RetryableIsUnambiguous'
  BY DEF TypeOK, RetryableIsUnambiguous, WireFollowsStage
<1> QED
  BY <1>1, <1>2, <1>3, <1>4, <1>5, <1>6, <1>7

LEMMA UpdateUnsentInv ==
  ASSUME Inv, NEW c \in Calls, UpdateUnsent(c)
  PROVE  Inv'
<1> USE DEF Inv, Goto, End, Throw, fabricState, UpdateUnsent, DecidesToSend, HashMatches, IsPreview, Result, At
<1>1. TypeOK'
  BY DEF TypeOK, Stages, Outcomes, NotApplied, RefusedEarly, Operations
<1>2. WireFollowsStage'
  BY DEF TypeOK, WireFollowsStage, At, Reads
<1>3. ReadsAreLive'
  BY DEF TypeOK, ReadsAreLive, Active, Reads, WireFollowsStage, At
<1>4. SubmitsEditOfExpected'
  BY DEF TypeOK, SubmitsEditOfExpected
<1>5. NotAppliedIsFinal'
  BY DEF TypeOK, NotAppliedIsFinal, WireFollowsStage, NotApplied, RefusedEarly
<1>6. CompletedWasLive'
  BY DEF TypeOK, CompletedWasLive, WireFollowsStage, ReadsAreLive
<1>7. RetryableIsUnambiguous'
  BY DEF TypeOK, RetryableIsUnambiguous, WireFollowsStage
<1> QED
  BY <1>1, <1>2, <1>3, <1>4, <1>5, <1>6, <1>7

LEMMA SendUpdateInv ==
  ASSUME Inv, NEW c \in Calls, SendUpdate(c)
  PROVE  Inv'
<1> USE DEF Inv, Goto, End, Throw, fabricState, SendUpdate, DecidesToSend, HashMatches, IsPreview, Result, At
<1>1. TypeOK'
  BY EditedAssumption, RequestAssumption DEF TypeOK, Stages, Outcomes, NotApplied, RefusedEarly, Operations
<1>2. WireFollowsStage'
  BY DEF TypeOK, WireFollowsStage, At, Reads
<1>3. ReadsAreLive'
  BY DEF TypeOK, ReadsAreLive, Active, Reads, WireFollowsStage, At
<1>4. SubmitsEditOfExpected'
  BY DEF TypeOK, SubmitsEditOfExpected
<1>5. NotAppliedIsFinal'
  BY DEF TypeOK, NotAppliedIsFinal, WireFollowsStage, NotApplied, RefusedEarly
<1>6. CompletedWasLive'
  BY DEF TypeOK, CompletedWasLive, WireFollowsStage, ReadsAreLive
<1>7. RetryableIsUnambiguous'
  BY DEF TypeOK, RetryableIsUnambiguous, WireFollowsStage
<1> QED
  BY <1>1, <1>2, <1>3, <1>4, <1>5, <1>6, <1>7

LEMMA UpdateAnsweredInv ==
  ASSUME Inv, NEW c \in Calls, UpdateAnswered(c)
  PROVE  Inv'
<1> USE DEF Inv, Goto, End, Throw, fabricState, UpdateAnswered, At
<1>1. TypeOK'
  BY DEF TypeOK, Stages, Outcomes, NotApplied, RefusedEarly, Operations
<1>2. WireFollowsStage'
  BY DEF TypeOK, WireFollowsStage, At, Reads
<1>3. ReadsAreLive'
  BY DEF TypeOK, ReadsAreLive, Active, Reads, WireFollowsStage, At
<1>4. SubmitsEditOfExpected'
  BY DEF TypeOK, SubmitsEditOfExpected
<1>5. NotAppliedIsFinal'
  BY DEF TypeOK, NotAppliedIsFinal, WireFollowsStage, NotApplied, RefusedEarly
<1>6. CompletedWasLive'
  BY DEF TypeOK, CompletedWasLive, WireFollowsStage, ReadsAreLive
<1>7. RetryableIsUnambiguous'
  BY DEF TypeOK, RetryableIsUnambiguous, WireFollowsStage
<1> QED
  BY <1>1, <1>2, <1>3, <1>4, <1>5, <1>6, <1>7

LEMMA UpdateAcceptedInv ==
  ASSUME Inv, NEW c \in Calls, UpdateAccepted(c)
  PROVE  Inv'
<1> USE DEF Inv, Goto, End, Throw, fabricState, UpdateAccepted, At
<1>1. TypeOK'
  BY BudgetAssumption DEF TypeOK, Stages, Outcomes, NotApplied, RefusedEarly, Operations
<1>2. WireFollowsStage'
  BY DEF TypeOK, WireFollowsStage, At, Reads
<1>3. ReadsAreLive'
  BY DEF TypeOK, ReadsAreLive, Active, Reads, WireFollowsStage, At
<1>4. SubmitsEditOfExpected'
  BY DEF TypeOK, SubmitsEditOfExpected
<1>5. NotAppliedIsFinal'
  BY DEF TypeOK, NotAppliedIsFinal, WireFollowsStage, NotApplied, RefusedEarly
<1>6. CompletedWasLive'
  BY DEF TypeOK, CompletedWasLive, WireFollowsStage, ReadsAreLive
<1>7. RetryableIsUnambiguous'
  BY DEF TypeOK, RetryableIsUnambiguous, WireFollowsStage
<1> QED
  BY <1>1, <1>2, <1>3, <1>4, <1>5, <1>6, <1>7

LEMMA VerifyInv ==
  ASSUME Inv, NEW c \in Calls, Verify(c)
  PROVE  Inv'
<1> USE DEF Inv, Goto, End, Throw, fabricState, Verify, Verified, EndBounded, At
<1>1. TypeOK'
  <2>1. PICK result \in Outcomes : End(c, result)
    BY DEF Outcomes
  <2> QED
    BY <2>1 DEF TypeOK, Stages
<1>2. WireFollowsStage'
  BY DEF TypeOK, WireFollowsStage, At, Reads
<1>3. ReadsAreLive'
  BY DEF TypeOK, ReadsAreLive, Active, Reads, WireFollowsStage, At
<1>4. SubmitsEditOfExpected'
  BY DEF TypeOK, SubmitsEditOfExpected
<1>5. NotAppliedIsFinal'
  BY DEF TypeOK, NotAppliedIsFinal, WireFollowsStage, NotApplied, RefusedEarly
<1>6. CompletedWasLive'
  <2>1. outcome'[c] = "completed" => submitted[c] \in live[c]
    BY DEF TypeOK, ReadsAreLive, Reads, Outcomes
  <2>2. \A d \in Calls \ {c} : outcome'[d] = outcome[d]
    BY DEF TypeOK
  <2> QED
    BY <2>1, <2>2 DEF CompletedWasLive
<1>7. RetryableIsUnambiguous'
  BY DEF TypeOK, RetryableIsUnambiguous, WireFollowsStage
<1> QED
  BY <1>1, <1>2, <1>3, <1>4, <1>5, <1>6, <1>7

LEMMA StoreUpdateInv ==
  ASSUME Inv, NEW c \in Calls, StoreUpdate(c)
  PROVE  Inv'
<1> USE DEF Inv, Goto, End, Throw, fabricState, StoreUpdate, Store, SetDefinition, callState
<1>1. TypeOK'
  <2>1. submitted[c] \in Definitions
    BY DEF TypeOK, WireFollowsStage
  <2>2. definition' \in Definitions /\ live' \in [Calls -> SUBSET Definitions]
    BY <2>1 DEF TypeOK
  <2>3. replaced' \in [Calls -> Definitions \cup {NoDefinition}]
    BY DEF TypeOK
  <2> QED
    BY <2>2, <2>3 DEF TypeOK, Operations
<1>2. WireFollowsStage'
  BY DEF TypeOK, WireFollowsStage, At, Reads
<1>3. ReadsAreLive'
  BY DEF TypeOK, ReadsAreLive, Active, Reads, WireFollowsStage, At
<1>4. SubmitsEditOfExpected'
  BY DEF TypeOK, SubmitsEditOfExpected
<1>5. NotAppliedIsFinal'
  BY DEF TypeOK, NotAppliedIsFinal, WireFollowsStage, NotApplied, RefusedEarly
<1>6. CompletedWasLive'
  BY DEF TypeOK, CompletedWasLive, WireFollowsStage, ReadsAreLive
<1>7. RetryableIsUnambiguous'
  BY DEF TypeOK, RetryableIsUnambiguous, WireFollowsStage
<1> QED
  BY <1>1, <1>2, <1>3, <1>4, <1>5, <1>6, <1>7

LEMMA AcceptUpdateInv ==
  ASSUME Inv, NEW c \in Calls, AcceptUpdate(c)
  PROVE  Inv'
<1> USE DEF Inv, Goto, End, Throw, fabricState, AcceptUpdate, callState
<1>1. TypeOK'
  BY DEF TypeOK, Stages, Outcomes, NotApplied, RefusedEarly, Operations
<1>2. WireFollowsStage'
  BY DEF TypeOK, WireFollowsStage, At, Reads
<1>3. ReadsAreLive'
  BY DEF TypeOK, ReadsAreLive, Active, Reads, WireFollowsStage, At
<1>4. SubmitsEditOfExpected'
  BY DEF TypeOK, SubmitsEditOfExpected
<1>5. NotAppliedIsFinal'
  BY DEF TypeOK, NotAppliedIsFinal, WireFollowsStage, NotApplied, RefusedEarly
<1>6. CompletedWasLive'
  BY DEF TypeOK, CompletedWasLive, WireFollowsStage, ReadsAreLive
<1>7. RetryableIsUnambiguous'
  BY DEF TypeOK, RetryableIsUnambiguous, WireFollowsStage
<1> QED
  BY <1>1, <1>2, <1>3, <1>4, <1>5, <1>6, <1>7

LEMMA RefuseUpdateInv ==
  ASSUME Inv, NEW c \in Calls, RefuseUpdate(c)
  PROVE  Inv'
<1> USE DEF Inv, Goto, End, Throw, fabricState, RefuseUpdate, callState
<1>1. TypeOK'
  BY DEF TypeOK, Stages, Outcomes, NotApplied, RefusedEarly, Operations
<1>2. WireFollowsStage'
  BY DEF TypeOK, WireFollowsStage, At, Reads
<1>3. ReadsAreLive'
  BY DEF TypeOK, ReadsAreLive, Active, Reads, WireFollowsStage, At
<1>4. SubmitsEditOfExpected'
  BY DEF TypeOK, SubmitsEditOfExpected
<1>5. NotAppliedIsFinal'
  BY DEF TypeOK, NotAppliedIsFinal, WireFollowsStage, NotApplied, RefusedEarly
<1>6. CompletedWasLive'
  BY DEF TypeOK, CompletedWasLive, WireFollowsStage, ReadsAreLive
<1>7. RetryableIsUnambiguous'
  BY DEF TypeOK, RetryableIsUnambiguous, WireFollowsStage
<1> QED
  BY <1>1, <1>2, <1>3, <1>4, <1>5, <1>6, <1>7

LEMMA FinishUpdateInv ==
  ASSUME Inv, NEW c \in Calls, FinishUpdate(c)
  PROVE  Inv'
<1> USE DEF Inv, Goto, End, Throw, fabricState, FinishUpdate, Store, SetDefinition, callState
<1>1. TypeOK'
  <2>1. submitted[c] \in Definitions
    BY DEF TypeOK, WireFollowsStage
  <2>2. definition' \in Definitions /\ live' \in [Calls -> SUBSET Definitions]
    BY <2>1 DEF TypeOK
  <2>3. replaced' \in [Calls -> Definitions \cup {NoDefinition}]
    BY DEF TypeOK
  <2> QED
    BY <2>2, <2>3 DEF TypeOK, Operations
<1>2. WireFollowsStage'
  BY DEF TypeOK, WireFollowsStage, At, Reads
<1>3. ReadsAreLive'
  BY DEF TypeOK, ReadsAreLive, Active, Reads, WireFollowsStage, At
<1>4. SubmitsEditOfExpected'
  BY DEF TypeOK, SubmitsEditOfExpected
<1>5. NotAppliedIsFinal'
  BY DEF TypeOK, NotAppliedIsFinal, WireFollowsStage, NotApplied, RefusedEarly
<1>6. CompletedWasLive'
  BY DEF TypeOK, CompletedWasLive, WireFollowsStage, ReadsAreLive
<1>7. RetryableIsUnambiguous'
  BY DEF TypeOK, RetryableIsUnambiguous, WireFollowsStage
<1> QED
  BY <1>1, <1>2, <1>3, <1>4, <1>5, <1>6, <1>7

LEMMA FinishReadInv ==
  ASSUME Inv, NEW c \in Calls, FinishRead(c)
  PROVE  Inv'
<1> USE DEF Inv, Goto, End, Throw, fabricState, FinishRead, callState
<1>1. TypeOK'
  <2>1. op[c] \in Operations /\ definition \in Definitions
    BY DEF TypeOK
  <2>2. [op[c] EXCEPT !.state = "succeeded", !.value = definition] \in Operations
    BY <2>1 DEF Operations
  <2>3. op' \in [Calls -> Operations]
    BY <2>2 DEF TypeOK
  <2> QED
    BY <2>3 DEF TypeOK
<1>2. WireFollowsStage'
  BY DEF TypeOK, WireFollowsStage, At, Reads
<1>3. ReadsAreLive'
  BY DEF TypeOK, ReadsAreLive, Active, Reads, WireFollowsStage, At
<1>4. SubmitsEditOfExpected'
  BY DEF TypeOK, SubmitsEditOfExpected
<1>5. NotAppliedIsFinal'
  BY DEF TypeOK, NotAppliedIsFinal, WireFollowsStage, NotApplied, RefusedEarly
<1>6. CompletedWasLive'
  BY DEF TypeOK, CompletedWasLive, WireFollowsStage, ReadsAreLive
<1>7. RetryableIsUnambiguous'
  BY DEF TypeOK, RetryableIsUnambiguous, WireFollowsStage
<1> QED
  BY <1>1, <1>2, <1>3, <1>4, <1>5, <1>6, <1>7

LEMMA FailOperationInv ==
  ASSUME Inv, NEW c \in Calls, FailOperation(c)
  PROVE  Inv'
<1> USE DEF Inv, Goto, End, Throw, fabricState, FailOperation, callState
<1>1. TypeOK'
  BY SMTT(90) DEF TypeOK, Stages, Outcomes, NotApplied, RefusedEarly, Operations
<1>2. WireFollowsStage'
  BY DEF TypeOK, WireFollowsStage, At, Reads
<1>3. ReadsAreLive'
  BY DEF TypeOK, ReadsAreLive, Active, Reads, WireFollowsStage, At
<1>4. SubmitsEditOfExpected'
  BY DEF TypeOK, SubmitsEditOfExpected
<1>5. NotAppliedIsFinal'
  BY DEF TypeOK, NotAppliedIsFinal, WireFollowsStage, NotApplied, RefusedEarly
<1>6. CompletedWasLive'
  BY DEF TypeOK, CompletedWasLive, WireFollowsStage, ReadsAreLive
<1>7. RetryableIsUnambiguous'
  BY DEF TypeOK, RetryableIsUnambiguous, WireFollowsStage
<1> QED
  BY <1>1, <1>2, <1>3, <1>4, <1>5, <1>6, <1>7

LEMMA OutsideEditInv ==
  ASSUME Inv, OutsideEdit
  PROVE  Inv'
<1> USE DEF Inv, OutsideEdit, SetDefinition, callState
<1>1. TypeOK'
  BY BudgetAssumption DEF TypeOK
<1>2. WireFollowsStage'
  BY DEF WireFollowsStage, At
<1>3. ReadsAreLive'
  BY DEF TypeOK, ReadsAreLive, Active, Reads
<1>4. SubmitsEditOfExpected' /\ NotAppliedIsFinal' /\ RetryableIsUnambiguous'
  BY DEF SubmitsEditOfExpected, NotAppliedIsFinal, RetryableIsUnambiguous
<1>5. CompletedWasLive'
  BY DEF TypeOK, CompletedWasLive
<1> QED
  BY <1>1, <1>2, <1>3, <1>4, <1>5

LEMMA StepInv ==
  ASSUME Inv, [Next]_vars
  PROVE  Inv'
<1>1. ASSUME NEW c \in Calls, ClientStep(c) PROVE Inv'
  BY <1>1, SnapshotAnsweredInv, SnapshotAcceptedInv, RequestFailsInv,
      PollSeesRunningInv, PollSeesSuccessInv, PollSeesFailureInv,
      PollExpiresInv, ResultAnsweredInv, DecideNotToSendInv,
      UpdateUnsentInv, SendUpdateInv, UpdateAnsweredInv, UpdateAcceptedInv, VerifyInv
  DEF ClientStep
<1>2. ASSUME NEW c \in Calls, FabricStep(c) PROVE Inv'
  BY <1>2, StoreUpdateInv, AcceptUpdateInv, RefuseUpdateInv, FinishUpdateInv,
      FinishReadInv, FailOperationInv
  DEF FabricStep
<1>3. CASE UNCHANGED vars
  BY <1>3 DEF vars, Inv, TypeOK, WireFollowsStage, ReadsAreLive, SubmitsEditOfExpected,
              NotAppliedIsFinal, RetryableIsUnambiguous, CompletedWasLive, At, Active
<1> QED
  BY <1>1, <1>2, <1>3, BeginInv, OutsideEditInv DEF Next

LEMMA Invariance == Spec => []Inv
  BY InitInv, StepInv, PTL DEF Spec

-----------------------------------------------------------------------------
(* Every variable keeps its type.                                          *)
THEOREM TypeCorrect == Spec => []TypeOK
<1>1. Inv => TypeOK
  BY DEF Inv
<1> QED
  BY Invariance, <1>1, PTL

(* A call sends nothing but its edit of the definition its caller expected.*)
THEOREM SubmissionIsReviewed == Spec => []SubmitsEditOfExpected
<1>1. Inv => SubmitsEditOfExpected
  BY DEF Inv
<1> QED
  BY Invariance, <1>1, PTL

(* A result that says nothing was applied stays true.                      *)
THEOREM UnappliedIsFinal == Spec => []NotAppliedIsFinal
<1>1. Inv => NotAppliedIsFinal
  BY DEF Inv
<1> QED
  BY Invariance, <1>1, PTL

(* An error flagged retryable never leaves open whether Fabric took the    *)
(* update of the call.                                                     *)
THEOREM RetryableErrorsAreClear == Spec => []RetryableIsUnambiguous
<1>1. Inv => RetryableIsUnambiguous
  BY DEF Inv
<1> QED
  BY Invariance, <1>1, PTL

(* A completed call's definition was live after it was sent.               *)
THEOREM CompletionIsReal == Spec => []CompletedWasLive
<1>1. Inv => CompletedWasLive
  BY DEF Inv
<1> QED
  BY Invariance, <1>1, PTL

(* At the moment of sending, the expected definition had been live since   *)
(* the call began: the hash was checked against what this call read.       *)
THEOREM HashGate == Spec => ExpectedWasLive
<1>1. Inv /\ [Next]_vars =>
        [\A c \in Calls : SendUpdate(c) => request[c].expected \in live[c]]_vars
  BY DEF Inv, ReadsAreLive, SendUpdate, DecidesToSend, HashMatches, At, Reads
<1> QED
  BY Invariance, <1>1, PTL DEF Spec, ExpectedWasLive

=============================================================================
