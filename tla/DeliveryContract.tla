-------------------------- MODULE DeliveryContract --------------------------
(***************************************************************************)
(* What one request promises its caller (docs/adr/0002), with the attempts,*)
(* timeouts, backoff and polling left out: a request that is not           *)
(* repeatable takes effect at most once, success is reported only after an *)
(* effect, and a non-repeatable request whose failure is reported as       *)
(* retryable has had no effect and never will.  HttpClient implements it.  *)
(***************************************************************************)
EXTENDS Integers

VARIABLES
  repeatable,  \* whether the caller marked the request safe to repeat
  effects,     \* how often the service carried it out
  outcome      \* what the caller was told

contractVars == <<repeatable, effects, outcome>>

Outcomes == {"open", "success", "error", "retryable"}

TypeOK ==
  /\ repeatable \in BOOLEAN
  /\ effects \in Nat
  /\ outcome \in Outcomes

Init ==
  /\ repeatable \in BOOLEAN
  /\ effects = 0
  /\ outcome = "open"

(* The service carries the request out, possibly after the caller gave up. *)
TakeEffect ==
  /\ repeatable \/ effects = 0
  /\ repeatable \/ outcome # "retryable"
  /\ effects' = effects + 1
  /\ UNCHANGED <<repeatable, outcome>>

Report(o) ==
  /\ outcome = "open"
  /\ o = "success" => effects > 0
  /\ o = "retryable" => repeatable \/ effects = 0
  /\ outcome' = o
  /\ UNCHANGED <<repeatable, effects>>

Next == TakeEffect \/ \E o \in Outcomes \ {"open"} : Report(o)

Spec == Init /\ [][Next]_contractVars
=============================================================================
