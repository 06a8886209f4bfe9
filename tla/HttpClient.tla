----------------------------- MODULE HttpClient -----------------------------
(***************************************************************************)
(* ResilientHttpClient.request (src/clients/http-client.ts): one request,  *)
(* sent in up to MaxRetries + 1 attempts.  Each attempt asks for a token,  *)
(* sends, and waits under a timeout that covers the response body too.     *)
(* Only requests in mode "safe" are tried again.                           *)
(*                                                                         *)
(* The service is external.  An attempt that was sent may be carried out,  *)
(* refused or lost, at any time, also after the client stopped waiting for *)
(* it; a reply may come back or not.                                       *)
(***************************************************************************)
EXTENDS Integers

CONSTANT MaxRetries   \* options.maxRetries

ASSUME MaxRetriesAssumption == MaxRetries \in Nat

Attempts == 0..MaxRetries

(* Statuses by what the code does with them: accepted, 429, 500 and above, *)
(* and any other, among them a 2xx the caller did not list.                *)
Statuses == {"accepted", "throttled", "unavailable", "unexpected"}
RetryableStatuses == {"throttled", "unavailable"}

VARIABLES
  mode,     \* the request's retryMode
  attempt,  \* the loop counter
  pc,       \* where the loop body is
  wire,     \* what became of each attempt
  reply,    \* the status each attempt was answered with
  effects,  \* how often the service carried the request out
  outcome   \* what request() returned or threw

vars == <<mode, attempt, pc, wire, reply, effects, outcome>>

Outcomes == {"open", "success", "error", "retryable"}

(* The counter stays in range, so the loop's condition never fails and the *)
(* INTERNAL_ERROR after the loop is unreachable.                           *)
TypeOK ==
  /\ mode \in {"safe", "never"}
  /\ attempt \in Attempts
  /\ pc \in {"token", "waiting", "body", "refusal", "backoff", "done"}
  /\ wire \in [Attempts -> {"unsent", "travelling", "handled"}]
  /\ reply \in [Attempts -> Statuses \cup {"none"}]
  /\ effects \in Nat
  /\ outcome \in Outcomes

Init ==
  /\ mode \in {"safe", "never"}
  /\ attempt = 0
  /\ pc = "token"
  /\ wire = [i \in Attempts |-> "unsent"]
  /\ reply = [i \in Attempts |-> "none"]
  /\ effects = 0
  /\ outcome = "open"

End(o) ==
  /\ pc' = "done"
  /\ outcome' = o
  /\ UNCHANGED <<mode, attempt>>

Goto(label) ==
  /\ pc' = label
  /\ UNCHANGED <<mode, attempt, outcome>>

-----------------------------------------------------------------------------
(* The client.                                                             *)

(* The token request throws TOKEN_ACQUISITION_FAILED, marked retryable,    *)
(* outside the try block: no other attempt follows.                        *)
TokenFails ==
  /\ pc = "token"
  /\ attempt <= MaxRetries
  /\ End("retryable")
  /\ UNCHANGED <<wire, reply, effects>>

Send ==
  /\ pc = "token"
  /\ attempt <= MaxRetries
  /\ Goto("waiting")
  /\ wire' = [wire EXCEPT ![attempt] = "travelling"]
  /\ UNCHANGED <<reply, effects>>

(* Whether the loop goes round again; the code asks this after a status    *)
(* worth retrying and after a timeout or network failure.                  *)
MayRetryAnyMode == attempt < MaxRetries
MayRetryOnceTooOften == mode = "safe" /\ attempt <= MaxRetries
MayRetry == mode = "safe" /\ attempt < MaxRetries

HeadRetried ==
  /\ pc = "waiting"
  /\ reply[attempt] \in RetryableStatuses
  /\ MayRetry
  /\ Goto("backoff")
  /\ UNCHANGED <<wire, reply, effects>>

IsAccepted(status) == status = "accepted"

HeadAccepted ==
  /\ pc = "waiting"
  /\ IsAccepted(reply[attempt])
  /\ Goto("body")
  /\ UNCHANGED <<wire, reply, effects>>

HeadRefused ==
  /\ pc = "waiting"
  /\ reply[attempt] # "none"
  /\ ~IsAccepted(reply[attempt])
  /\ ~(reply[attempt] \in RetryableStatuses /\ MayRetry)
  /\ Goto("refusal")
  /\ UNCHANGED <<wire, reply, effects>>

BodyParsed ==
  /\ pc = "body"
  /\ End("success")
  /\ UNCHANGED <<wire, reply, effects>>

(* INVALID_API_RESPONSE: an oversized body of either kind, or a success    *)
(* body that is empty, not JSON or does not match the schema.              *)
BodyRefused ==
  /\ pc \in {"body", "refusal"}
  /\ End("error")
  /\ UNCHANGED <<wire, reply, effects>>

(* createResponseError: `hint` is Fabric's isRetriable or, without it,     *)
(* whether the status is worth retrying.                                   *)
ErrorOutcome(hint) == IF mode = "safe" /\ hint THEN "retryable" ELSE "error"

StatusError ==
  /\ pc = "refusal"
  /\ \E hint \in BOOLEAN : End(ErrorOutcome(hint))
  /\ UNCHANGED <<wire, reply, effects>>

(* A timeout or a network failure, before the head arrives, while either   *)
(* body is read, or while the body of a retried response is cancelled.     *)
TransportFails ==
  /\ pc \in {"waiting", "body", "refusal"}
  /\ IF MayRetry THEN Goto("backoff") ELSE End(ErrorOutcome(TRUE))
  /\ UNCHANGED <<wire, reply, effects>>

BackoffElapses ==
  /\ pc = "backoff"
  /\ pc' = "token"
  /\ attempt' = attempt + 1
  /\ UNCHANGED <<mode, wire, reply, effects, outcome>>

ClientStep ==
  \/ TokenFails \/ Send \/ HeadRetried \/ HeadAccepted \/ HeadRefused
  \/ BodyParsed \/ BodyRefused \/ StatusError \/ TransportFails \/ BackoffElapses

-----------------------------------------------------------------------------
(* The service.  An accepted request was carried out and a throttled one   *)
(* was not; behind any other status it may have been either.               *)
MayHaveEffect(status) == status # "throttled"
MayLackEffect(status) == status # "accepted"

CarryOut(i) ==
  /\ wire[i] = "travelling"
  /\ wire' = [wire EXCEPT ![i] = "handled"]
  /\ \E status \in Statuses : MayHaveEffect(status) /\ reply' = [reply EXCEPT ![i] = status]
  /\ effects' = effects + 1
  /\ UNCHANGED <<mode, attempt, pc, outcome>>

Refuse(i) ==
  /\ wire[i] = "travelling"
  /\ wire' = [wire EXCEPT ![i] = "handled"]
  /\ \E status \in Statuses : MayLackEffect(status) /\ reply' = [reply EXCEPT ![i] = status]
  /\ UNCHANGED <<mode, attempt, pc, effects, outcome>>

ServiceStep == \E i \in Attempts : CarryOut(i) \/ Refuse(i)

Next == ClientStep \/ ServiceStep

Spec == Init /\ [][Next]_vars

(* The abort timer ends every wait and setTimeout every backoff; the       *)
(* service owes the client nothing.                                        *)
FairSpec == Spec /\ WF_vars(ClientStep)

-----------------------------------------------------------------------------
(* A request that is not marked safe is carried out at most once, over all *)
(* attempts, timeouts and late arrivals (docs/adr/0002: mutations "are     *)
(* never retried automatically").                                          *)
NeverRepeated == mode = "never" => effects <= 1

(* When a request that must not be repeated fails with an error marked     *)
(* retryable, no attempt ever left the client, so a caller that obeys the  *)
(* mark cannot apply it twice.                                             *)
RetryableErrorIsHarmless ==
  mode = "never" /\ outcome = "retryable" => \A i \in Attempts : wire[i] = "unsent"

(* Success is reported only for a request the service carried out.         *)
SuccessIsReal == outcome = "success" => effects > 0

(* Every request ends, however the service behaves.                        *)
RequestEnds == <>(pc = "done")

(* The helper implements the delivery contract of its callers.             *)
Contract == INSTANCE DeliveryContract WITH repeatable <- (mode = "safe")

ImplementsContract == Contract!Spec
=============================================================================
