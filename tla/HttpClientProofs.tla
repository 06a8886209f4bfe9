-------------------------- MODULE HttpClientProofs --------------------------
(***************************************************************************)
(* What one HTTP request guarantees for every retry limit, and that it     *)
(* implements DeliveryContract.                                            *)
(***************************************************************************)
EXTENDS HttpClient, TLAPS

(* Attempts the loop has not come to were not sent, and the one it is at   *)
(* was not sent while the token is awaited.                                *)
FutureUnsent ==
  \A i \in Attempts : i > attempt \/ (i = attempt /\ pc = "token") => wire[i] = "unsent"

(* Another attempt is only on its way for a safe request with one left.    *)
LoopControl ==
  /\ mode = "never" => attempt = 0
  /\ pc = "backoff" => mode = "safe" /\ attempt < MaxRetries
  /\ pc # "done" <=> outcome = "open"

(* What the effects and replies say of each other.                         *)
EffectsExplained ==
  /\ mode = "never" /\ wire[0] # "handled" => effects = 0
  /\ mode = "never" => effects <= 1
  /\ \A i \in Attempts : reply[i] = "accepted" => effects > 0
  /\ pc = "body" => effects > 0

Inv ==
  /\ TypeOK
  /\ FutureUnsent
  /\ LoopControl
  /\ EffectsExplained
  /\ RetryableErrorIsHarmless
  /\ SuccessIsReal

LEMMA InitInv == Init => Inv
  BY MaxRetriesAssumption
  DEF Init, Inv, TypeOK, FutureUnsent, LoopControl, EffectsExplained,
      RetryableErrorIsHarmless, SuccessIsReal, Attempts, Outcomes

(* Steps of the client change neither the wire, except Send, nor what the  *)
(* service did.                                                            *)
LEMMA ClientInv ==
  ASSUME Inv, ClientStep
  PROVE  Inv'
<1> USE MaxRetriesAssumption
    DEF Inv, TypeOK, FutureUnsent, LoopControl, EffectsExplained,
        RetryableErrorIsHarmless, SuccessIsReal, Attempts, Outcomes, End, Goto
<1>1. CASE TokenFails
  <2>1. mode = "never" => \A i \in Attempts : wire[i] = "unsent"
    <3> SUFFICES ASSUME mode = "never", NEW i \in Attempts PROVE wire[i] = "unsent"
      OBVIOUS
    <3>1. i > attempt \/ i = attempt
      OBVIOUS
    <3> QED
      BY <1>1, <3>1 DEF TokenFails
  <2> QED
    BY <1>1, <2>1 DEF TokenFails
<1>2. CASE Send
  BY <1>2 DEF Send
<1>3. CASE HeadRetried
  BY <1>3 DEF HeadRetried, MayRetry
<1>4. CASE HeadAccepted
  BY <1>4 DEF HeadAccepted, IsAccepted
<1>5. CASE HeadRefused
  BY <1>5 DEF HeadRefused
<1>6. CASE BodyParsed
  BY <1>6 DEF BodyParsed
<1>7. CASE BodyRefused
  BY <1>7 DEF BodyRefused
<1>8. CASE StatusError
  BY <1>8 DEF StatusError, ErrorOutcome
<1>9. CASE TransportFails
  BY <1>9 DEF TransportFails, ErrorOutcome, MayRetry
<1>10. CASE BackoffElapses
  BY <1>10 DEF BackoffElapses
<1> QED
  BY <1>1, <1>2, <1>3, <1>4, <1>5, <1>6, <1>7, <1>8, <1>9, <1>10, ClientStep DEF ClientStep

(* Steps of the service handle an attempt that was sent.                   *)
LEMMA ServiceInv ==
  ASSUME Inv, NEW i \in Attempts, CarryOut(i) \/ Refuse(i)
  PROVE  Inv'
<1>1. PICK status \in Statuses :
        /\ reply' = [reply EXCEPT ![i] = status]
        /\ status = "accepted" => effects' = effects + 1
  BY DEF CarryOut, Refuse, MayLackEffect
<1>2. /\ wire[i] = "travelling"
      /\ wire' = [wire EXCEPT ![i] = "handled"]
      /\ effects' = effects \/ effects' = effects + 1
      /\ UNCHANGED <<mode, attempt, pc, outcome>>
  BY DEF CarryOut, Refuse
<1>3. 0 \in Attempts /\ \A j \in Attempts : j \in Nat
  BY MaxRetriesAssumption DEF Attempts
<1>4. TypeOK
  BY DEF Inv
<1>5. TypeOK'
  BY <1>1, <1>2, <1>4 DEF TypeOK
<1>6. mode = "never" => i = 0 /\ effects = 0
  <2> SUFFICES ASSUME mode = "never" PROVE i = 0 /\ effects = 0
    OBVIOUS
  <2>1. ~(i > attempt) /\ attempt = 0
    BY <1>2 DEF Inv, FutureUnsent, LoopControl
  <2>2. i = 0
    BY <1>3, <2>1
  <2> QED
    BY <1>2, <2>2 DEF Inv, EffectsExplained
<1>7. FutureUnsent'
  BY <1>2, <1>4 DEF Inv, FutureUnsent, TypeOK
<1>8. LoopControl'
  BY <1>2 DEF Inv, LoopControl
<1>9. EffectsExplained'
  <2>1. effects' \in Nat /\ (effects > 0 => effects' > 0)
    BY <1>2, <1>4 DEF TypeOK
  <2>2. mode' = "never" /\ wire'[0] # "handled" => effects' = 0
    BY <1>2, <1>3, <1>4, <1>6 DEF TypeOK
  <2>3. mode' = "never" => effects' <= 1
    BY <1>2, <1>6
  <2>4. ASSUME NEW j \in Attempts, reply'[j] = "accepted"
        PROVE  effects' > 0
    <3>1. CASE j = i
      BY <1>1, <1>4, <2>4, <3>1 DEF TypeOK
    <3>2. CASE j # i
      BY <1>1, <1>4, <2>1, <2>4, <3>2 DEF TypeOK, Inv, EffectsExplained
    <3> QED
      BY <3>1, <3>2
  <2>5. pc' = "body" => effects' > 0
    BY <1>2, <2>1 DEF Inv, EffectsExplained
  <2> QED
    BY <2>2, <2>3, <2>4, <2>5 DEF EffectsExplained
<1>10. RetryableErrorIsHarmless'
  BY <1>2, <1>4 DEF Inv, RetryableErrorIsHarmless, TypeOK
<1>11. SuccessIsReal'
  BY <1>2, <1>4 DEF Inv, SuccessIsReal, TypeOK
<1> QED
  BY <1>5, <1>7, <1>8, <1>9, <1>10, <1>11 DEF Inv

LEMMA Invariance == Spec => []Inv
<1>1. Inv /\ [Next]_vars => Inv'
  <2> SUFFICES ASSUME Inv, [Next]_vars PROVE Inv'
    OBVIOUS
  <2>1. CASE ClientStep
    BY <2>1, ClientInv
  <2>2. CASE ServiceStep
    BY <2>2, ServiceInv DEF ServiceStep
  <2>3. CASE UNCHANGED vars
    BY <2>3 DEF vars, Inv, TypeOK, FutureUnsent, LoopControl, EffectsExplained,
                RetryableErrorIsHarmless, SuccessIsReal
  <2> QED
    BY <2>1, <2>2, <2>3 DEF Next
<1> QED
  BY InitInv, <1>1, PTL DEF Spec

-----------------------------------------------------------------------------
(* Every variable keeps its type.                                          *)
THEOREM TypeCorrect == Spec => []TypeOK
<1>1. Inv => TypeOK
  BY DEF Inv
<1> QED
  BY Invariance, <1>1, PTL

(* A request in mode "never" is carried out at most once.                  *)
THEOREM AtMostOnce == Spec => []NeverRepeated
<1>1. Inv => NeverRepeated
  BY DEF Inv, EffectsExplained, NeverRepeated
<1> QED
  BY Invariance, <1>1, PTL

(* An error marked retryable on such a request means it was never sent.    *)
THEOREM RetryableIsUnsent == Spec => []RetryableErrorIsHarmless
<1>1. Inv => RetryableErrorIsHarmless
  BY DEF Inv
<1> QED
  BY Invariance, <1>1, PTL

(* A success report implies an effect.                                     *)
THEOREM SuccessHasEffect == Spec => []SuccessIsReal
<1>1. Inv => SuccessIsReal
  BY DEF Inv
<1> QED
  BY Invariance, <1>1, PTL

-----------------------------------------------------------------------------
LEMMA InitRefines == Init => Contract!Init
  BY DEF Init, Contract!Init

(* Each step of the helper or the service is a step of the contract or     *)
(* leaves its variables alone.                                             *)
LEMMA StepRefines ==
  ASSUME Inv, Inv', [Next]_vars
  PROVE  [Contract!Next]_(Contract!contractVars)
<1>0. 0 \in Attempts /\ (\A i \in Attempts : i \in Nat)
  BY MaxRetriesAssumption DEF Attempts
<1>1. CASE ClientStep
  <2>1. UNCHANGED <<mode, effects>>
    BY <1>1 DEF ClientStep, TokenFails, Send, HeadRetried, HeadAccepted, HeadRefused,
      BodyParsed, BodyRefused, StatusError, TransportFails, BackoffElapses, End, Goto
  <2>2. CASE UNCHANGED outcome
    BY <2>1, <2>2 DEF Contract!contractVars
  <2>3. CASE outcome' # outcome
    <3>1. outcome = "open" /\ outcome' \in Contract!Outcomes \ {"open"}
      BY <1>1, <2>3
      DEF ClientStep, TokenFails, Send, HeadRetried, HeadAccepted, HeadRefused, BodyParsed,
        BodyRefused, StatusError, TransportFails, BackoffElapses, End, Goto, ErrorOutcome,
        Inv, LoopControl, Contract!Outcomes
    <3>2. outcome' = "success" => effects > 0
      BY <2>1 DEF Inv, SuccessIsReal
    <3>3. outcome' = "retryable" => mode = "safe" \/ effects = 0
      <4> SUFFICES ASSUME outcome' = "retryable", mode # "safe"
                   PROVE  effects = 0
        OBVIOUS
      <4>1. mode' = "never"
        BY <2>1 DEF Inv, TypeOK
      <4>2. wire'[0] = "unsent"
        BY <1>0, <4>1 DEF Inv, RetryableErrorIsHarmless
      <4> QED
        BY <2>1, <4>1, <4>2 DEF Inv, EffectsExplained
    <3>4. Contract!Report(outcome')
      BY <2>1, <3>1, <3>2, <3>3 DEF Contract!Report
    <3> QED
      BY <3>1, <3>4 DEF Contract!Next
  <2> QED
    BY <2>2, <2>3
<1>2. CASE ServiceStep
  <2> PICK i \in Attempts : CarryOut(i) \/ Refuse(i)
    BY <1>2 DEF ServiceStep
  <2>1. CASE Refuse(i)
    BY <2>1 DEF Refuse, Contract!contractVars
  <2>2. CASE CarryOut(i)
    <3>1. effects' = effects + 1 /\ UNCHANGED <<mode, outcome>> /\ wire[i] = "travelling"
      BY <2>2 DEF CarryOut
    <3>2. mode = "safe" \/ effects = 0
      <4> SUFFICES ASSUME mode = "never" PROVE effects = 0
        BY DEF Inv, TypeOK
      <4>1. i = 0
        BY <1>0, <3>1, MaxRetriesAssumption DEF Inv, FutureUnsent, LoopControl, Attempts
      <4> QED
        BY <3>1, <4>1 DEF Inv, EffectsExplained
    <3>3. mode = "safe" \/ outcome # "retryable"
      BY <3>1 DEF Inv, RetryableErrorIsHarmless, TypeOK
    <3> QED
      BY <3>1, <3>2, <3>3 DEF Contract!TakeEffect, Contract!Next
  <2> QED
    BY <2>1, <2>2
<1>3. CASE UNCHANGED vars
  BY <1>3 DEF vars, Contract!contractVars
<1> QED
  BY <1>1, <1>2, <1>3 DEF Next

(* The retry loop implements the delivery contract.                        *)
THEOREM HelperImplementsContract == Spec => ImplementsContract
<1>1. Inv /\ Inv' /\ [Next]_vars => [Contract!Next]_(Contract!contractVars)
  BY StepRefines
<1> QED
  BY InitRefines, Invariance, <1>1, PTL DEF Spec, ImplementsContract, Contract!Spec
=============================================================================
