--------------------------- MODULE DisposableModel ---------------------------
(***************************************************************************)
(* The live acceptance scripts: each creates a semantic model of its own,  *)
(* works on it and must not leave it behind, whatever fails on the way.    *)
(* Included is the refresh they start and watch (refresh_semantic_model,   *)
(* get_refresh_status).                                                    *)
(*                                                                         *)
(* A script is the sequence of its steps; several calls in a row that only *)
(* read or preview, and the checks of their answers, are one step "read".  *)
(* A request is one step, with whatever may become of it: answered, failed *)
(* without effect, failed though carried out, or failed and carried out    *)
(* later (a timeout, a pending operation).                                 *)
(***************************************************************************)
EXTENDS Naturals, Sequences

CONSTANTS
  Scripts,   \* the scripts considered
  MaxPolls   \* refresh polls that fit before the deadline of five minutes

ASSUME ScriptsAssumption == Scripts \subseteq {"lifecycle", "daxRefresh", "full", "directLake"}
ASSUME PollsAssumption == MaxPolls \in Nat

VARIABLES
  script, round,
  phase,        \* the part of the script
  step,         \* index of the next step, in the phase "steps"
  polls,        \* refresh polls so far
  answer,       \* the last answer of get_refresh_status
  attempt,      \* the first cleanup or the fallback
  knows,        \* semanticModelId is set
  believed,     \* currentName, displayName: the name the script goes by
  wanted,       \* confirmDisplayName of the deletion under way
  deleted,      \* deleted, permanentDeleteVerified
  error,        \* primaryError is set
  model,        \* Fabric: the model of this round
  name,         \* Fabric: its display name
  definition,   \* Fabric: its definition
  refresh,      \* Power BI: its refresh
  outstanding,  \* requests still to be carried out, or dropped
  leftovers,    \* history: models of earlier rounds that are still there
  excuse        \* history: what kept the cleanup from the model

flow == <<phase, step, polls, answer, attempt>>
belief == <<knows, believed, wanted, deleted, error>>
world == <<model, name, definition, refresh, outstanding>>
vars == <<script, round, flow, belief, world, leftovers, excuse>>

-----------------------------------------------------------------------------
(* The steps of each script, in the order of the code. *)
LifecycleSteps == <<"read", "create", "read", "rename", "addObjects", "stale",
                    "changeObjects", "removeObjects">>
DaxRefreshSteps == <<"connect", "read", "create", "read", "compare", "refresh", "poll", "read">>
FullObjectSteps == <<"connect", "read", "create", "read", "rename", "read", "addObjects",
                     "stale", "changeObjects">>
FullCheckSteps == <<"removeObjects", "compare", "read", "compare", "read", "refresh", "poll", "read">>
DirectLakeSteps == <<"connect", "read", "create", "read", "refresh", "poll", "read">>

Steps == CASE script = "lifecycle" -> LifecycleSteps
           [] script = "daxRefresh" -> DaxRefreshSteps
           [] script = "full" -> FullObjectSteps \o FullCheckSteps
           [] script = "directLake" -> DirectLakeSteps

Rounds == IF script = "full" THEN 2 ELSE 1

At(s) == phase = "steps" /\ step <= Len(Steps) /\ Steps[step] = s

(* The cleanup of live-model-lifecycle works on the service itself; the    *)
(* others call the server's tool first and fall back on the service.       *)
Direct == script = "lifecycle"
Searches == script # "directLake"

Definitions == {"base", "created", "updated"}
Edits == [addObjects |-> "created", changeObjects |-> "updated", removeObjects |-> "base"]
Editable(e) == IF e = "addObjects" THEN {"base"} ELSE {"created", "updated"}

TypeOK ==
  /\ script \in Scripts
  /\ round \in 1..Rounds
  /\ phase \in {"steps", "cleanup", "search", "fresh", "check", "delete", "listing", "fallback", "ended"}
  /\ step \in 1..(Len(Steps) + 1)
  /\ polls \in 0..MaxPolls
  /\ answer \in [terminal: BOOLEAN, succeeded: BOOLEAN, status: {"none", "pending", "success"}]
  /\ attempt \in {"first", "fallback"}
  /\ {knows, deleted, error} \subseteq BOOLEAN
  /\ {believed, wanted, name} \subseteq {"original", "updated"}
  /\ model \in {"absent", "present", "deleted"}
  /\ definition \in Definitions
  /\ refresh \in {"none", "running", "completed", "failed"}
  /\ outstanding \subseteq {"create", "rename", "delete"} \cup Definitions
  /\ leftovers \in Nat
  /\ excuse \subseteq {"requestFailed", "renamedMeanwhile", "createdLater"}

NoAnswer == [terminal |-> FALSE, succeeded |-> FALSE, status |-> "none"]

Init ==
  /\ script \in Scripts /\ round = 1 /\ leftovers = 0
  /\ phase = "steps" /\ step = 1 /\ polls = 0 /\ answer = NoAnswer /\ attempt = "first"
  /\ knows = FALSE /\ deleted = FALSE /\ error = FALSE
  /\ believed = "original" /\ wanted = "original"
  /\ model = "absent" /\ name = "original" /\ definition = "base" /\ refresh = "none"
  /\ outstanding = {} /\ excuse = {}

-----------------------------------------------------------------------------
(* The steps.  The next step follows, or the error is kept for the end and *)
(* the cleanup follows.                                                    *)
Advance == phase' = "steps" /\ step' = step + 1 /\ UNCHANGED error
Abandon == phase' = "cleanup" /\ error' = TRUE /\ UNCHANGED step
StepOver == Advance \/ Abandon

(* What a request that is answered with an error may have done. *)
CreateEffect == /\ model' = IF model = "absent" THEN "present" ELSE model
                /\ UNCHANGED <<name, definition>>
RenameEffect == /\ name' = IF model = "present" THEN "updated" ELSE name
                /\ UNCHANGED <<model, definition>>
DeleteEffect == /\ model' = IF model = "present" THEN "deleted" ELSE model
                /\ UNCHANGED <<name, definition>>
EditEffect(d) == /\ definition' = IF model = "present" THEN d ELSE definition
                 /\ UNCHANGED <<model, name>>

Effect(r) == CASE r = "create" -> CreateEffect
               [] r = "rename" -> RenameEffect
               [] r = "delete" -> DeleteEffect
               [] OTHER -> EditEffect(r)

NoEffect == UNCHANGED <<model, name, definition>>

Unanswered(r) ==
  \/ (NoEffect \/ Effect(r)) /\ UNCHANGED outstanding
  \/ NoEffect /\ outstanding' = outstanding \cup {r}

(* Starting the local server, connecting to it, reading, previewing. *)
Read ==
  /\ At("connect") \/ At("read")
  /\ StepOver
  /\ UNCHANGED <<script, round, polls, answer, attempt, knows, believed, wanted, deleted, world,
                 leftovers, excuse>>

Create ==
  /\ At("create")
  /\ \/ Advance /\ CreateEffect /\ knows' = TRUE /\ UNCHANGED outstanding
     \/ Abandon /\ Unanswered("create") /\ UNCHANGED knows
  /\ UNCHANGED <<script, round, polls, answer, attempt, believed, wanted, deleted, refresh,
                 leftovers, excuse>>

(* The script goes by the new name once the update has been answered. *)
Rename ==
  /\ At("rename")
  /\ \/ Advance /\ RenameEffect /\ believed' = "updated" /\ UNCHANGED outstanding
     \/ Abandon /\ Unanswered("rename") /\ UNCHANGED believed
  /\ UNCHANGED <<script, round, polls, answer, attempt, knows, wanted, deleted, refresh,
                 leftovers, excuse>>

(* A snapshot and a batch of changes made with its hash.  Whether a batch  *)
(* completed or is pending is asked of every batch in live-model-lifecycle,*)
(* of the first one only in live-full-verification.                        *)
Edit(e) ==
  /\ At(e)
  /\ \/ definition \in Editable(e) /\ Advance /\ EditEffect(Edits[e]) /\ UNCHANGED outstanding
     \/ /\ script = "full" /\ e # "addObjects"
        /\ definition \in Editable(e) /\ Advance /\ NoEffect
        /\ outstanding' = outstanding \cup {Edits[e]}
     \/ definition \in Editable(e) /\ Abandon /\ Unanswered(Edits[e])
     \/ Abandon /\ NoEffect /\ UNCHANGED outstanding
  /\ UNCHANGED <<script, round, polls, answer, attempt, knows, believed, wanted, deleted,
                 refresh, leftovers, excuse>>

(* A batch with the hash of the snapshot before the first one: it must be  *)
(* refused as stale, and it is when the definition is no longer the base.  *)
StaleEdit ==
  /\ At("stale")
  /\ (definition # "base" /\ Advance) \/ Abandon
  /\ UNCHANGED <<script, round, polls, answer, attempt, knows, believed, wanted, deleted, world,
                 leftovers, excuse>>

(* The definition, or its hash, is compared with the one first written. *)
Compare ==
  /\ At("compare")
  /\ (definition = "base" /\ Advance) \/ Abandon
  /\ UNCHANGED <<script, round, polls, answer, attempt, knows, believed, wanted, deleted, world,
                 leftovers, excuse>>

(* POST .../refreshes, once, without retry. *)
StartRefresh ==
  /\ At("refresh")
  /\ \/ Advance /\ refresh' = "running"
     \/ Abandon /\ refresh' \in {refresh, "running"}
  /\ UNCHANGED <<script, round, polls, answer, attempt, knows, believed, wanted, deleted, model,
                 name,
                 definition, outstanding, leftovers, excuse>>

-----------------------------------------------------------------------------
(* Refresh details as Power BI gives them: "none" is a missing field.      *)
UnknownIsTerminal == {"completed", "failed", "timedout", "disabled", "cancelled", "canceled", "unknown"}

TerminalRefreshStates == {"completed", "failed", "timedout", "disabled", "cancelled", "canceled"}

Details ==
  CASE refresh = "completed" ->
         [status: {"completed"}, extended: {"none", "completed"}]
    [] refresh = "failed" ->
         [status: {"failed", "disabled"}, extended: {"none", "failed", "timedout", "cancelled"}]
    [] OTHER ->
         [status: {"none", "unknown"}, extended: {"none", "notstarted", "inprogress", "unlisted"}]

RefreshState(d) == IF d.extended # "none" THEN d.extended
                   ELSE IF d.status # "none" THEN d.status ELSE "unknown"

RefreshStatus(d, http) ==
  LET terminal == RefreshState(d) \in TerminalRefreshStates IN
  [terminal |-> terminal,
   succeeded |-> RefreshState(d) = "completed",
   status |-> IF terminal /\ http = 200 THEN "success" ELSE "pending"]

(* The loop around get_refresh_status: on success the script goes on. *)
Verdict(a) == IF a.succeeded THEN Advance ELSE Abandon

OnePollTooMany == polls <= MaxPolls
TimeLeft == polls < MaxPolls

PollRefresh ==
  /\ At("poll")
  /\ \/ TimeLeft /\ polls' = polls + 1
        /\ \E d \in Details, http \in {200, 202} :
             /\ answer' = RefreshStatus(d, http)
             /\ IF answer'.terminal THEN Verdict(answer') ELSE UNCHANGED <<phase, step, error>>
     \/ Abandon /\ UNCHANGED <<polls, answer>>   \* a call fails, or no time is left
  /\ UNCHANGED <<script, round, attempt, knows, believed, wanted, deleted, world, leftovers,
                 excuse>>

StepsDone ==
  /\ phase = "steps" /\ step = Len(Steps) + 1
  /\ phase' = "cleanup"
  /\ UNCHANGED <<script, round, step, polls, answer, attempt, belief, world, leftovers, excuse>>

-----------------------------------------------------------------------------
(* The cleanup: a search by name when the identifier is not known, a read  *)
(* of the current name, deleteSemanticModel (which reads the item again,   *)
(* compares its name and deletes), a look at the listing.                  *)
TryAgain == phase' = IF Direct THEN "ended" ELSE "fallback"
CleanupOver == phase' = IF Direct \/ attempt = "fallback" THEN "ended" ELSE "fallback"
CleanupFailsQuietly == CleanupOver /\ UNCHANGED error
CleanupFails == CleanupOver /\ error' = TRUE
RequestFails == CleanupFails /\ excuse' = excuse \cup {"requestFailed"}

BeginCleanup ==
  /\ phase = "cleanup"
  /\ phase' = IF Direct THEN IF knows THEN "fresh" ELSE "search"
                        ELSE IF knows THEN "check" ELSE "fallback"
  /\ wanted' = believed
  /\ UNCHANGED <<script, round, step, polls, answer, attempt, knows, believed, deleted, error,
                 world, leftovers, excuse>>

BeginFallback ==
  /\ phase = "fallback"
  /\ phase' = IF deleted THEN "ended" ELSE IF knows THEN "fresh" ELSE IF Searches THEN "search" ELSE "ended"
  /\ attempt' = "fallback"
  /\ UNCHANGED <<script, round, step, polls, answer, belief, world, leftovers, excuse>>

(* Without a model of that name the fallback fails; live-model-lifecycle   *)
(* goes on, with the error that it has anyway.                             *)
Search ==
  /\ phase = "search"
  /\ \/ model = "present" /\ name = "original"
        /\ phase' = "fresh" /\ knows' = TRUE /\ UNCHANGED <<error, excuse>>
     \/ ~(model = "present" /\ name = "original")
        /\ phase' = "ended" /\ error' = (error \/ ~Direct) /\ UNCHANGED <<knows, excuse>>
     \/ phase' = "ended" /\ error' = (error \/ ~Direct) /\ UNCHANGED knows
        /\ excuse' = excuse \cup {"requestFailed"}
  /\ UNCHANGED <<script, round, step, polls, answer, attempt, believed, wanted, deleted, world,
                 leftovers>>

RememberedName == believed
NameToConfirm == name

ReadName ==
  /\ phase = "fresh"
  /\ \/ model = "present" /\ phase' = "check" /\ wanted' = NameToConfirm /\ UNCHANGED <<error,
                                                                                        excuse>>
     \/ model # "present" /\ CleanupFails /\ UNCHANGED <<wanted, excuse>>
     \/ RequestFails /\ UNCHANGED wanted
  /\ UNCHANGED <<script, round, step, polls, answer, attempt, knows, believed, deleted, world,
                 leftovers>>

CheckName ==
  /\ phase = "check"
  /\ \/ model = "present" /\ name = wanted /\ phase' = "delete" /\ UNCHANGED <<error, excuse>>
     \/ ~(model = "present" /\ name = wanted) /\ CleanupFails /\ UNCHANGED excuse
     \/ RequestFails
  /\ UNCHANGED <<script, round, step, polls, answer, attempt, knows, believed, wanted, deleted,
                 world, leftovers>>

ListsAfterwards == script \in {"daxRefresh", "full"} /\ attempt = "first"

Delete ==
  /\ phase = "delete"
  /\ \/ /\ model = "present" /\ DeleteEffect /\ UNCHANGED <<outstanding, error, excuse>>
        /\ IF ListsAfterwards THEN phase' = "listing" /\ UNCHANGED deleted
                              ELSE CleanupOver /\ deleted' = TRUE
     \/ RequestFails /\ Unanswered("delete") /\ UNCHANGED deleted
  /\ UNCHANGED <<script, round, step, polls, answer, attempt, knows, believed, wanted, refresh,
                 leftovers>>

CheckListing ==
  /\ phase = "listing"
  /\ \/ model # "present" /\ CleanupOver /\ deleted' = TRUE /\ UNCHANGED <<error, excuse>>
     \/ model = "present" /\ CleanupFails /\ UNCHANGED <<deleted, excuse>>
     \/ RequestFails /\ UNCHANGED deleted
  /\ UNCHANGED <<script, round, step, polls, answer, attempt, knows, believed, wanted, world,
                 leftovers>>

(* live-full-verification does it all twice, if the first round succeeds. *)
NextRound ==
  /\ phase = "ended" /\ ~error /\ round < Rounds
  /\ round' = round + 1
  /\ leftovers' = leftovers + (IF model = "present" THEN 1 ELSE 0)
  /\ phase' = "steps" /\ step' = 1 /\ polls' = 0 /\ answer' = NoAnswer /\ attempt' = "first"
  /\ knows' = FALSE /\ deleted' = FALSE /\ error' = FALSE
  /\ believed' = "original" /\ wanted' = "original"
  /\ model' = "absent" /\ name' = "original" /\ definition' = "base" /\ refresh' = "none"
  /\ outstanding' = {} /\ excuse' = {}
  /\ UNCHANGED script

-----------------------------------------------------------------------------
(* The services: what is outstanding is carried out or dropped, at any     *)
(* time; a refresh ends.  The excuses are facts about these moments.       *)
LastChance == Direct \/ attempt = "fallback"

CarryOut(r) ==
  /\ r \in outstanding /\ outstanding' = outstanding \ {r}
  /\ Effect(r)
  /\ excuse' = excuse
       \cup (IF r = "create" /\ phase = "ended" THEN {"createdLater"} ELSE {})
       \cup (IF r = "rename" /\ phase = "check" /\ LastChance THEN {"renamedMeanwhile"} ELSE {})
  /\ UNCHANGED <<script, round, flow, belief, refresh, leftovers>>

Drop(r) ==
  /\ r \in outstanding /\ outstanding' = outstanding \ {r}
  /\ UNCHANGED <<script, round, flow, belief, model, name, definition, refresh, leftovers, excuse>>

RefreshEnds ==
  /\ refresh = "running" /\ refresh' \in {"completed", "failed"}
  /\ UNCHANGED <<script, round, flow, belief, model, name, definition, outstanding, leftovers,
                 excuse>>

Script ==
  \/ Read \/ Create \/ Rename \/ (\E e \in DOMAIN Edits : Edit(e)) \/ StaleEdit \/ Compare
  \/ StartRefresh \/ PollRefresh \/ StepsDone
  \/ BeginCleanup \/ BeginFallback \/ Search \/ ReadName \/ CheckName \/ Delete \/ CheckListing
  \/ NextRound

Service == RefreshEnds \/ \E r \in {"create", "rename", "delete"} \cup Definitions : CarryOut(r) \/ Drop(r)

Next == Script \/ Service

Spec == Init /\ [][Next]_vars

(* Every call ends (its own time limits), so the script keeps going.       *)
FairSpec == Spec /\ WF_vars(Script)

-----------------------------------------------------------------------------
Finished == phase = "ended" /\ ~(~error /\ round < Rounds)

(* A script that reports success has done what it claims: the model of     *)
(* every round is deleted, nothing can create it later, and the refresh    *)
(* it started has completed.                                               *)
OkMeansDone ==
  phase = "ended" /\ ~error =>
    /\ model = "deleted" /\ "create" \notin outstanding /\ leftovers = 0
    /\ script # "lifecycle" => refresh = "completed"

(* At the end a model is left over only if a cleanup request failed, if it *)
(* was created after the search for it, if a late rename came between the  *)
(* two reads of the last attempt, or if live-direct-lake never learned its *)
(* identifier: it does not search.  In particular a rename of unknown      *)
(* outcome does not keep a model from being deleted.                       *)
CleanupReachesTheModel ==
  phase = "ended" /\ model = "present" => excuse # {} \/ (script = "directLake" /\ ~knows)

(* The verdict on a refresh is final and true, and a tool result success   *)
(* is never given to a refresh that is still running.                      *)
RefreshVerdict ==
  /\ answer.terminal => refresh \in {"completed", "failed"}
  /\ answer.succeeded <=> answer.terminal /\ refresh = "completed"
  /\ answer.status = "success" => answer.terminal

(* Every script ends, whatever fails and however long a refresh takes. *)
ScriptEnds == <>[]Finished
=============================================================================
