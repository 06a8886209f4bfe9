---------------------------- MODULE WorkflowProofs ----------------------------
(***************************************************************************)
(* What the callers of the Power BI services guarantee: the live           *)
(* acceptance scripts (DisposableModel), for any number of polls, and the  *)
(* tools that return rows (RowResults), for every source, row limit and    *)
(* output limit.  The two have no state in common; their theorems stand    *)
(* side by side.                                                           *)
(***************************************************************************)
EXTENDS DisposableModel, RowResults, SequenceTheorems, FiniteSetTheorems, TLAPS

-----------------------------------------------------------------------------
(* The live acceptance scripts.                                            *)

(* Where a script creates its model, and where it starts the refresh that  *)
(* the next step polls.                                                    *)
CreatePlace == IF script = "lifecycle" THEN 2 ELSE 3
RefreshPlace == CASE script = "daxRefresh" -> 6
                  [] script = "full" -> 15
                  [] script = "directLake" -> 5
                  [] OTHER -> 8

(* The first error ends the steps; without one all of them are done.       *)
StepsFollowed ==
  /\ phase = "steps" => ~error
  /\ phase # "steps" /\ ~error => step = Len(Steps) + 1
  /\ phase \in {"steps", "cleanup"} => attempt = "first"

(* The identifier is known from the creation on, and is that of a model.   *)
(* Nothing renames a model whose identifier was never known.               *)
IdentifierKnown ==
  /\ ~error /\ step > CreatePlace => knows
  /\ knows => model # "absent"
  /\ name # "original" \/ "rename" \in outstanding => knows
  /\ "create" \in outstanding => error
  /\ phase = "search" => ~knows
  /\ phase \in {"fresh", "check", "delete", "listing"} => knows

(* No poll before the refresh, which nothing starts again after it.        *)
RefreshFollowed ==
  /\ step <= RefreshPlace => answer = NoAnswer
  /\ ~error /\ script # "lifecycle" /\ step > RefreshPlace + 1 => refresh = "completed"

(* What the cleanup takes for deleted is; a name read for the last time is *)
(* the model's, unless a rename came between.                              *)
CleanupFollowed ==
  /\ deleted \/ phase = "listing" => model = "deleted"
  /\ phase = "listing" => attempt = "first" /\ ~Direct
  /\ phase = "check" /\ LastChance => name = wanted \/ excuse # {}

Progress ==
  /\ StepsFollowed
  /\ IdentifierKnown
  /\ RefreshFollowed
  /\ CleanupFollowed
  /\ leftovers = 0
  /\ OkMeansDone
  /\ CleanupReachesTheModel
  /\ RefreshVerdict

Inv == TypeOK /\ Progress

-----------------------------------------------------------------------------
(* The lists of steps, step by step.                                       *)
LEMMA ScriptNames ==
  ASSUME script \in Scripts
  PROVE  script \in {"lifecycle", "daxRefresh", "full", "directLake"}
  BY ScriptsAssumption

Calls == {"connect", "read", "create", "rename", "addObjects", "stale", "changeObjects",
          "removeObjects", "compare", "refresh", "poll"}

LEMMA FullSteps ==
  /\ Len(FullObjectSteps \o FullCheckSteps) = 17
  /\ \A i \in 1..9 : (FullObjectSteps \o FullCheckSteps)[i] = FullObjectSteps[i]
  /\ \A i \in 10..17 : (FullObjectSteps \o FullCheckSteps)[i] = FullCheckSteps[i - 9]
<1> DEFINE s == FullObjectSteps
           t == FullCheckSteps
           both == s \o t
<1>1. Len(s) = 9 /\ Len(t) = 8
  BY DEF FullObjectSteps, FullCheckSteps
<1>2. s \in Seq(Calls) /\ t \in Seq(Calls)
  BY DEF FullObjectSteps, FullCheckSteps, Calls
<1> HIDE DEF s, t
<1>3. /\ Len(both) = Len(s) + Len(t)
      /\ \A i \in 1..(Len(s) + Len(t)) : both[i] = IF i <= Len(s) THEN s[i] ELSE t[i - Len(s)]
  BY <1>2, ConcatProperties
<1> HIDE DEF both
<1>4. Len(both) = 17 /\ \A i \in 1..17 : both[i] = IF i <= 9 THEN s[i] ELSE t[i - 9]
  BY <1>1, <1>3
<1>5. (\A i \in 1..9 : both[i] = s[i]) /\ (\A i \in 10..17 : both[i] = t[i - 9])
  BY <1>4
<1> QED
  BY <1>4, <1>5 DEF both, s, t

(* Before a script creates its model it only reads; the refresh is started *)
(* once and followed by the poll, after which the script only reads.       *)
LEMMA StepsKnown ==
  ASSUME script \in Scripts
  PROVE  /\ Len(Steps) \in Nat
         /\ CreatePlace \in 1..Len(Steps)
         /\ script # "lifecycle" => RefreshPlace + 1 <= Len(Steps)
         /\ RefreshPlace \in Nat
         /\ CreatePlace < RefreshPlace
         /\ \A i \in 1..Len(Steps) :
              /\ Steps[i] = "create" <=> i = CreatePlace
              /\ i < CreatePlace => Steps[i] \in {"connect", "read"}
              /\ Steps[i] = "refresh" => script # "lifecycle" /\ i = RefreshPlace
              /\ i = RefreshPlace /\ script # "lifecycle" => Steps[i] = "refresh"
              /\ Steps[i] = "poll" => script # "lifecycle" /\ i = RefreshPlace + 1
              /\ i = RefreshPlace + 1 /\ script # "lifecycle" => Steps[i] = "poll"
<1>1. CASE script = "lifecycle"
  BY <1>1 DEF Steps, LifecycleSteps, CreatePlace, RefreshPlace
<1>2. CASE script = "daxRefresh"
  BY <1>2 DEF Steps, DaxRefreshSteps, CreatePlace, RefreshPlace
<1>3. CASE script = "full"
  <2>1. Steps = FullObjectSteps \o FullCheckSteps
    BY <1>3 DEF Steps
  <2>2. Len(Steps) = 17 /\ CreatePlace = 3 /\ RefreshPlace = 15
    BY <1>3, <2>1, FullSteps DEF CreatePlace, RefreshPlace
  <2>3. \A i \in 1..9 : Steps[i] = FullObjectSteps[i]
    BY <2>1, FullSteps
  <2>4. \A i \in 10..17 : Steps[i] = FullCheckSteps[i - 9]
    BY <2>1, FullSteps
  <2>5. \A i \in 1..9 :
          /\ Steps[i] = "create" <=> i = 3
          /\ i < 3 => Steps[i] \in {"connect", "read"}
          /\ Steps[i] # "refresh" /\ Steps[i] # "poll"
    BY <2>3 DEF FullObjectSteps
  <2>6. \A i \in 10..17 :
          /\ Steps[i] # "create"
          /\ Steps[i] = "refresh" <=> i = 15
          /\ Steps[i] = "poll" <=> i = 16
    <3> DEFINE c == FullCheckSteps
    <3>1. \A j \in 1..8 :
            /\ c[j] # "create"
            /\ c[j] = "refresh" <=> j = 6
            /\ c[j] = "poll" <=> j = 7
      BY DEF FullCheckSteps
    <3> HIDE DEF c
    <3> QED
      BY <2>4, <3>1 DEF c
  <2> QED
    BY <1>3, <2>2, <2>5, <2>6
<1>4. CASE script = "directLake"
  BY <1>4 DEF Steps, DirectLakeSteps, CreatePlace, RefreshPlace
<1> QED
  BY <1>1, <1>2, <1>3, <1>4, ScriptNames
-----------------------------------------------------------------------------
(* The places are those of the script, which never changes.                *)
LEMMA SamePlaces ==
  ASSUME script' = script
  PROVE  /\ Steps' = Steps /\ Rounds' = Rounds
         /\ CreatePlace' = CreatePlace /\ RefreshPlace' = RefreshPlace
         /\ Direct' = Direct /\ Searches' = Searches
  BY DEF Steps, Rounds, CreatePlace, RefreshPlace, Direct, Searches

(* A step leads to the next one or, with an error, to the cleanup.         *)
LEMMA StepOverTypes ==
  ASSUME TypeOK, NEW s, At(s), StepOver
  PROVE  /\ phase' \in {"steps", "cleanup"}
         /\ step' \in 1..(Len(Steps) + 1)
         /\ error' \in BOOLEAN
<1>1. Len(Steps) \in Nat
  BY StepsKnown DEF TypeOK
<1>2. step' \in 1..(Len(Steps) + 1)
  BY <1>1 DEF TypeOK, At, StepOver, Advance, Abandon
<1>3. error' \in BOOLEAN
  BY DEF TypeOK, StepOver, Advance, Abandon
<1> QED
  BY <1>2, <1>3 DEF StepOver, Advance, Abandon

(* Every step keeps the types.                                             *)
LEMMA ReadTypes == TypeOK /\ Read => TypeOK'
<1> SUFFICES ASSUME TypeOK, Read PROVE TypeOK'
  OBVIOUS
<1> USE SamePlaces, StepsKnown DEF TypeOK, flow, belief, world, Definitions
<1>1. phase' \in {"steps", "cleanup"} /\ step' \in 1..(Len(Steps) + 1) /\ error' \in BOOLEAN
  BY StepOverTypes DEF Read
<1> QED
  BY <1>1 DEF Read

LEMMA CreateTypes == TypeOK /\ Create => TypeOK'
<1> SUFFICES ASSUME TypeOK, Create PROVE TypeOK'
  OBVIOUS
<1> USE SamePlaces, StepsKnown DEF TypeOK, flow, belief, world, Definitions
<1>1. phase' \in {"steps", "cleanup"} /\ step' \in 1..(Len(Steps) + 1) /\ error' \in BOOLEAN
  BY StepOverTypes DEF Create, StepOver
<1>2. knows' \in BOOLEAN
  BY DEF Create
<1> QED
  BY <1>1, <1>2 DEF Create, CreateEffect, Unanswered, Effect, NoEffect

LEMMA RenameTypes == TypeOK /\ Rename => TypeOK'
<1> SUFFICES ASSUME TypeOK, Rename PROVE TypeOK'
  OBVIOUS
<1> USE SamePlaces, StepsKnown DEF TypeOK, flow, belief, world, Definitions
<1>1. phase' \in {"steps", "cleanup"} /\ step' \in 1..(Len(Steps) + 1) /\ error' \in BOOLEAN
  BY StepOverTypes DEF Rename, StepOver
<1> QED
  BY <1>1 DEF Rename, RenameEffect, Unanswered, Effect, NoEffect

LEMMA EditFacts ==
  ASSUME NEW e \in DOMAIN Edits
  PROVE  /\ Edits[e] \in Definitions
         /\ Effect(Edits[e]) <=> EditEffect(Edits[e])
         /\ e \notin {"create", "refresh", "poll", "connect", "read"}
         /\ Edits[e] \notin {"create", "rename"}
  BY DEF Edits, Definitions, Effect

LEMMA EditTypes == TypeOK /\ (\E e \in DOMAIN Edits : Edit(e)) => TypeOK'
<1> SUFFICES ASSUME TypeOK, NEW e \in DOMAIN Edits, Edit(e) PROVE TypeOK'
  OBVIOUS
<1> USE SamePlaces, StepsKnown, EditFacts DEF TypeOK, flow, belief, world
<1>1. phase' \in {"steps", "cleanup"} /\ step' \in 1..(Len(Steps) + 1) /\ error' \in BOOLEAN
  BY StepOverTypes DEF Edit, StepOver
<1>2. outstanding' = outstanding \/ outstanding' = outstanding \cup {Edits[e]}
  BY DEF Edit, Unanswered
<1>3. UNCHANGED <<model, name>> /\ definition' \in {definition, Edits[e]}
  BY DEF Edit, EditEffect, Unanswered, NoEffect
<1>4. Edits[e] \in Definitions
  BY EditFacts
<1>5. definition' \in Definitions /\ outstanding' \subseteq {"create", "rename", "delete"} \cup Definitions
  BY <1>2, <1>3, <1>4
<1>6. UNCHANGED <<script, round, polls, answer, attempt, knows, believed, wanted, deleted,
                  refresh, leftovers, excuse>>
  BY DEF Edit
<1> QED
  BY <1>1, <1>3, <1>5, <1>6

LEMMA StaleEditTypes == TypeOK /\ StaleEdit => TypeOK'
<1> SUFFICES ASSUME TypeOK, StaleEdit PROVE TypeOK'
  OBVIOUS
<1> USE SamePlaces, StepsKnown DEF TypeOK, flow, belief, world, Definitions
<1>1. phase' \in {"steps", "cleanup"} /\ step' \in 1..(Len(Steps) + 1) /\ error' \in BOOLEAN
  BY StepOverTypes DEF StaleEdit, StepOver
<1> QED
  BY <1>1 DEF StaleEdit

LEMMA CompareTypes == TypeOK /\ Compare => TypeOK'
<1> SUFFICES ASSUME TypeOK, Compare PROVE TypeOK'
  OBVIOUS
<1> USE SamePlaces, StepsKnown DEF TypeOK, flow, belief, world, Definitions
<1>1. phase' \in {"steps", "cleanup"} /\ step' \in 1..(Len(Steps) + 1) /\ error' \in BOOLEAN
  BY StepOverTypes DEF Compare, StepOver
<1> QED
  BY <1>1 DEF Compare

LEMMA StartRefreshTypes == TypeOK /\ StartRefresh => TypeOK'
<1> SUFFICES ASSUME TypeOK, StartRefresh PROVE TypeOK'
  OBVIOUS
<1> USE SamePlaces, StepsKnown DEF TypeOK, flow, belief, world, Definitions
<1>1. phase' \in {"steps", "cleanup"} /\ step' \in 1..(Len(Steps) + 1) /\ error' \in BOOLEAN
  BY StepOverTypes DEF StartRefresh, StepOver
<1> QED
  BY <1>1 DEF StartRefresh

(* An answer has the state of the refresh, or of no refresh at all.        *)
LEMMA AnswersAreTrue ==
  ASSUME NEW d \in Details, NEW http \in {200, 202}
  PROVE  LET a == RefreshStatus(d, http) IN
         /\ a \in [terminal: BOOLEAN, succeeded: BOOLEAN, status: {"none", "pending", "success"}]
         /\ a.terminal => refresh \in {"completed", "failed"}
         /\ a.succeeded <=> a.terminal /\ refresh = "completed"
         /\ a.status = "success" => a.terminal
<1>1. CASE refresh = "completed"
  BY <1>1 DEF Details, RefreshStatus, RefreshState, TerminalRefreshStates
<1>2. CASE refresh = "failed"
  BY <1>2 DEF Details, RefreshStatus, RefreshState, TerminalRefreshStates
<1>3. CASE refresh \notin {"completed", "failed"}
  <2>1. d \in [status: {"none", "unknown"}, extended: {"none", "notstarted", "inprogress", "unlisted"}]
    BY <1>3 DEF Details
  <2>2. RefreshState(d) \in {"unknown", "notstarted", "inprogress", "unlisted"}
    BY <2>1 DEF RefreshState
  <2>3. (RefreshState(d) \in TerminalRefreshStates) = FALSE /\ (RefreshState(d) = "completed") = FALSE
    BY <2>2 DEF TerminalRefreshStates
  <2>4. RefreshStatus(d, http) = [terminal |-> FALSE, succeeded |-> FALSE, status |-> "pending"]
    BY <2>3 DEF RefreshStatus
  <2> QED
    BY <1>3, <2>4
<1> QED
  BY <1>1, <1>2, <1>3

LEMMA PollRefreshTypes == TypeOK /\ PollRefresh => TypeOK'
<1> SUFFICES ASSUME TypeOK, PollRefresh PROVE TypeOK'
  OBVIOUS
<1> USE SamePlaces, StepsKnown DEF TypeOK, flow, belief, world, Definitions
<1>1. /\ phase' \in {"steps", "cleanup"} /\ step' \in 1..(Len(Steps) + 1) /\ error' \in BOOLEAN
  BY StepOverTypes DEF PollRefresh, StepOver, Verdict, At
<1>2. (answer \in [terminal: BOOLEAN, succeeded: BOOLEAN, status: {"none", "pending", "success"}])'
  BY AnswersAreTrue DEF PollRefresh
<1>3. polls' \in 0..MaxPolls
  BY PollsAssumption DEF PollRefresh, TimeLeft
<1> QED
  BY <1>1, <1>2, <1>3 DEF PollRefresh

LEMMA StepsDoneTypes == TypeOK /\ StepsDone => TypeOK'
<1> SUFFICES ASSUME TypeOK, StepsDone PROVE TypeOK'
  OBVIOUS
<1> USE SamePlaces, StepsKnown DEF TypeOK, flow, belief, world, Definitions
<1> QED
  BY DEF StepsDone

LEMMA BeginCleanupTypes == TypeOK /\ BeginCleanup => TypeOK'
<1> SUFFICES ASSUME TypeOK, BeginCleanup PROVE TypeOK'
  OBVIOUS
<1> USE SamePlaces, StepsKnown DEF TypeOK, flow, belief, world, Definitions
<1> QED
  BY DEF BeginCleanup

LEMMA BeginFallbackTypes == TypeOK /\ BeginFallback => TypeOK'
<1> SUFFICES ASSUME TypeOK, BeginFallback PROVE TypeOK'
  OBVIOUS
<1> USE SamePlaces, StepsKnown DEF TypeOK, flow, belief, world, Definitions
<1> QED
  BY DEF BeginFallback

LEMMA SearchTypes == TypeOK /\ Search => TypeOK'
<1> SUFFICES ASSUME TypeOK, Search PROVE TypeOK'
  OBVIOUS
<1> USE SamePlaces, StepsKnown DEF TypeOK, flow, belief, world, Definitions
<1>1. ({knows, deleted, error} \subseteq BOOLEAN)'
  <2>1. knows' \in BOOLEAN
    BY DEF Search
  <2>2. deleted' \in BOOLEAN
    BY DEF Search
  <2>3. error' \in BOOLEAN
    BY DEF Search
  <2> QED
    BY <2>1, <2>2, <2>3
<1>2. phase' \in {"search", "fresh", "check", "delete", "listing", "fallback", "ended"}
  BY DEF Search
<1>3. (excuse \subseteq {"requestFailed", "renamedMeanwhile", "createdLater"})'
  BY DEF Search
<1> QED
  BY <1>1, <1>2, <1>3 DEF Search

LEMMA ReadNameTypes == TypeOK /\ ReadName => TypeOK'
<1> SUFFICES ASSUME TypeOK, ReadName PROVE TypeOK'
  OBVIOUS
<1> USE SamePlaces, StepsKnown DEF TypeOK, flow, belief, world, Definitions
<1>1. error' \in BOOLEAN
  BY DEF ReadName, CleanupFails, RequestFails
<1>2. wanted' \in {"original", "updated"}
  BY DEF ReadName, NameToConfirm
<1>3. phase' \in {"check", "fallback", "ended"}
  BY DEF ReadName, CleanupFails, RequestFails, CleanupOver
<1>4. (excuse \subseteq {"requestFailed", "renamedMeanwhile", "createdLater"})'
  BY DEF ReadName, RequestFails
<1> QED
  BY <1>1, <1>2, <1>3, <1>4 DEF ReadName

LEMMA CheckNameTypes == TypeOK /\ CheckName => TypeOK'
<1> SUFFICES ASSUME TypeOK, CheckName PROVE TypeOK'
  OBVIOUS
<1> USE SamePlaces, StepsKnown DEF TypeOK, flow, belief, world, Definitions
<1>1. error' \in BOOLEAN
  BY DEF CheckName, CleanupFails, RequestFails
<1> QED
  BY <1>1 DEF CheckName, CleanupFails, RequestFails, CleanupOver

LEMMA DeleteTypes == TypeOK /\ Delete => TypeOK'
<1> SUFFICES ASSUME TypeOK, Delete PROVE TypeOK'
  OBVIOUS
<1> USE SamePlaces, StepsKnown DEF TypeOK, flow, belief, world, Definitions
<1>1. deleted' \in BOOLEAN /\ error' \in BOOLEAN
  BY DEF Delete, CleanupFails, RequestFails
<1> QED
  BY <1>1 DEF Delete, Unanswered, Effect, DeleteEffect, NoEffect, CleanupFails, RequestFails, CleanupOver

LEMMA CheckListingTypes == TypeOK /\ CheckListing => TypeOK'
<1> SUFFICES ASSUME TypeOK, CheckListing PROVE TypeOK'
  OBVIOUS
<1> USE SamePlaces, StepsKnown DEF TypeOK, flow, belief, world, Definitions
<1>1. ({knows, deleted, error} \subseteq BOOLEAN)'
  <2>1. knows' \in BOOLEAN
    BY DEF CheckListing
  <2>2. deleted' \in BOOLEAN
    BY DEF CheckListing, CleanupFails, RequestFails, CleanupOver
  <2>3. error' \in BOOLEAN
    BY DEF CheckListing, CleanupFails, RequestFails, CleanupOver
  <2> QED
    BY <2>1, <2>2, <2>3
<1>2. phase' \in {"search", "fresh", "check", "delete", "listing", "fallback", "ended"}
  BY DEF CheckListing, CleanupFails, RequestFails, CleanupOver
<1>3. (excuse \subseteq {"requestFailed", "renamedMeanwhile", "createdLater"})'
  BY DEF CheckListing, CleanupFails, RequestFails, CleanupOver
<1> QED
  BY <1>1, <1>2, <1>3 DEF CheckListing

LEMMA NextRoundTypes == TypeOK /\ NextRound => TypeOK'
<1> SUFFICES ASSUME TypeOK, NextRound PROVE TypeOK'
  OBVIOUS
<1> USE SamePlaces, StepsKnown DEF TypeOK, flow, belief, world, Definitions
<1>1. (answer \in [terminal: BOOLEAN, succeeded: BOOLEAN, status: {"none", "pending", "success"}])'
  BY DEF NextRound, NoAnswer
<1>2. (step \in 1..(Len(Steps) + 1) /\ round \in 1..Rounds)'
  BY DEF NextRound, Rounds
<1>3. leftovers' \in Nat
  BY DEF NextRound
<1>4. ({knows, deleted, error} \subseteq BOOLEAN)'
  BY DEF NextRound
<1> QED
  BY <1>1, <1>2, <1>3, <1>4, PollsAssumption DEF NextRound

LEMMA RefreshEndsTypes == TypeOK /\ RefreshEnds => TypeOK'
<1> SUFFICES ASSUME TypeOK, RefreshEnds PROVE TypeOK'
  OBVIOUS
<1> USE SamePlaces, StepsKnown DEF TypeOK, flow, belief, world, Definitions
<1> QED
  BY DEF RefreshEnds

LEMMA CarryOutTypes ==
  ASSUME TypeOK, NEW r, CarryOut(r)
  PROVE  TypeOK'
<1> USE SamePlaces, StepsKnown DEF TypeOK, flow, belief, world
<1>1. r \in {"create", "rename", "delete"} \cup Definitions
  BY DEF CarryOut
<1>2. (model \in {"absent", "present", "deleted"} /\ name \in {"original", "updated"} /\ definition \in Definitions)'
  BY <1>1 DEF CarryOut, Effect, CreateEffect, RenameEffect, DeleteEffect, EditEffect
<1>3. (excuse \subseteq {"requestFailed", "renamedMeanwhile", "createdLater"})'
  BY DEF CarryOut
<1> QED
  BY <1>2, <1>3 DEF CarryOut

LEMMA DropTypes ==
  ASSUME TypeOK, NEW r, Drop(r)
  PROVE  TypeOK'
  BY SamePlaces, StepsKnown DEF Drop, TypeOK, flow, belief, world

LEMMA TypeStep == TypeOK /\ [Next]_vars => TypeOK'
<1> SUFFICES ASSUME TypeOK, [Next]_vars PROVE TypeOK'
  OBVIOUS
<1>1. CASE Script
  BY <1>1, ReadTypes, CreateTypes, RenameTypes, EditTypes, StaleEditTypes, CompareTypes,
     StartRefreshTypes, PollRefreshTypes, StepsDoneTypes, BeginCleanupTypes, BeginFallbackTypes,
     SearchTypes, ReadNameTypes, CheckNameTypes, DeleteTypes, CheckListingTypes, NextRoundTypes
     DEF Script
<1>2. CASE Service
  BY <1>2, RefreshEndsTypes, CarryOutTypes, DropTypes DEF Service
<1>3. CASE UNCHANGED vars
  BY <1>3, SamePlaces DEF vars, flow, belief, world, TypeOK
<1> QED
  BY <1>1, <1>2, <1>3 DEF Next
-----------------------------------------------------------------------------
(* Every step keeps the rest of the invariant.  Reading, previewing and     *)
(* comparing change nothing, and are not the steps the places are about.   *)
LEMMA ReadingStep ==
  ASSUME Inv, NEW s, s \notin {"create", "refresh", "poll"}, At(s), StepOver,
         UNCHANGED <<script, round, polls, answer, attempt, knows, believed, wanted, deleted, model,
                     name, refresh, leftovers, excuse>>,
         "create" \in outstanding' => "create" \in outstanding,
         "rename" \in outstanding' => "rename" \in outstanding \/ step > CreatePlace
  PROVE  Progress'
<1> USE SamePlaces, StepsKnown DEF Inv, TypeOK, Progress, At, StepOver, Advance, Abandon
<1>1. StepsFollowed' /\ IdentifierKnown'
  BY DEF StepsFollowed, IdentifierKnown, CleanupFollowed, Direct, Searches
<1>2. RefreshFollowed' /\ RefreshVerdict'
  BY DEF StepsFollowed, RefreshFollowed, RefreshVerdict, NoAnswer
<1>3. CleanupFollowed' /\ leftovers' = 0
  BY DEF StepsFollowed, IdentifierKnown, CleanupFollowed, OkMeansDone, LastChance, Direct, Searches
<1>4. OkMeansDone' /\ CleanupReachesTheModel'
  BY DEF StepsFollowed, IdentifierKnown, RefreshFollowed, CleanupFollowed, OkMeansDone,
         CleanupReachesTheModel, LastChance, Direct, Searches
<1> QED
  BY <1>1, <1>2, <1>3, <1>4 DEF Progress

LEMMA EditStep == Inv /\ (\E e \in DOMAIN Edits : Edit(e)) => Progress'
<1> SUFFICES ASSUME Inv, NEW e \in DOMAIN Edits, Edit(e) PROVE Progress'
  OBVIOUS
<1>1. At(e) /\ StepOver /\ e \notin {"create", "refresh", "poll"}
  BY EditFacts DEF Edit, StepOver
<1>2. /\ UNCHANGED <<script, round, polls, answer, attempt, knows, believed, wanted, deleted, model,
                     name, refresh, leftovers, excuse>>
      /\ outstanding' \in {outstanding, outstanding \cup {Edits[e]}}
  BY EditFacts DEF Edit, EditEffect, Unanswered, NoEffect
<1> QED
  BY <1>1, <1>2, EditFacts, ReadingStep

LEMMA CreateStep == Inv /\ Create => Progress'
<1> SUFFICES ASSUME Inv, Create PROVE Progress'
  OBVIOUS
<1> USE SamePlaces, StepsKnown DEF Inv, TypeOK, Progress, flow, belief, world, Create, At,
        Advance, Abandon, Unanswered, Effect, CreateEffect, NoEffect
<1>1. StepsFollowed' /\ IdentifierKnown'
  BY DEF StepsFollowed, IdentifierKnown, CleanupFollowed, Direct, Searches
<1>2. RefreshFollowed' /\ RefreshVerdict'
  BY DEF StepsFollowed, RefreshFollowed, RefreshVerdict, NoAnswer
<1>3. CleanupFollowed' /\ leftovers' = 0
  BY DEF StepsFollowed, IdentifierKnown, CleanupFollowed, OkMeansDone, LastChance, Direct, Searches
<1>4. OkMeansDone' /\ CleanupReachesTheModel'
  BY DEF StepsFollowed, IdentifierKnown, RefreshFollowed, CleanupFollowed, OkMeansDone,
         CleanupReachesTheModel, LastChance, Direct, Searches
<1> QED
  BY <1>1, <1>2, <1>3, <1>4 DEF Progress

LEMMA RenameStep == Inv /\ Rename => Progress'
<1> SUFFICES ASSUME Inv, Rename PROVE Progress'
  OBVIOUS
<1> USE SamePlaces, StepsKnown DEF Inv, TypeOK, Progress, flow, belief, world, Rename, At,
        Advance, Abandon, Unanswered, Effect, RenameEffect, NoEffect
<1>1. StepsFollowed' /\ IdentifierKnown'
  BY DEF StepsFollowed, IdentifierKnown, CleanupFollowed, Direct, Searches
<1>2. RefreshFollowed' /\ RefreshVerdict'
  BY DEF StepsFollowed, RefreshFollowed, RefreshVerdict, NoAnswer
<1>3. CleanupFollowed' /\ leftovers' = 0
  BY DEF StepsFollowed, IdentifierKnown, CleanupFollowed, OkMeansDone, LastChance, Direct, Searches
<1>4. OkMeansDone' /\ CleanupReachesTheModel'
  BY DEF StepsFollowed, IdentifierKnown, RefreshFollowed, CleanupFollowed, OkMeansDone,
         CleanupReachesTheModel, LastChance, Direct, Searches
<1> QED
  BY <1>1, <1>2, <1>3, <1>4 DEF Progress

LEMMA StartRefreshStep == Inv /\ StartRefresh => Progress'
<1> SUFFICES ASSUME Inv, StartRefresh PROVE Progress'
  OBVIOUS
<1> USE SamePlaces, StepsKnown DEF Inv, TypeOK, Progress, flow, belief, world, StartRefresh, At,
        Advance, Abandon
<1>1. StepsFollowed' /\ IdentifierKnown'
  BY DEF StepsFollowed, IdentifierKnown, CleanupFollowed, Direct, Searches
<1>2. RefreshFollowed' /\ RefreshVerdict'
  BY DEF StepsFollowed, RefreshFollowed, RefreshVerdict, NoAnswer
<1>3. CleanupFollowed' /\ leftovers' = 0
  BY DEF StepsFollowed, IdentifierKnown, CleanupFollowed, OkMeansDone, LastChance, Direct, Searches
<1>4. OkMeansDone' /\ CleanupReachesTheModel'
  BY DEF StepsFollowed, IdentifierKnown, RefreshFollowed, CleanupFollowed, OkMeansDone,
         CleanupReachesTheModel, LastChance, Direct, Searches
<1> QED
  BY <1>1, <1>2, <1>3, <1>4 DEF Progress

LEMMA PollRefreshStep == Inv /\ PollRefresh => Progress'
<1> SUFFICES ASSUME Inv, PollRefresh PROVE Progress'
  OBVIOUS
<1>1. /\ UNCHANGED <<script, round, attempt, knows, deleted, wanted, believed>>
      /\ UNCHANGED <<world, leftovers, excuse>>
      /\ At("poll")
  BY DEF PollRefresh
<1>2. CASE Abandon /\ UNCHANGED answer
  <2> USE <1>1, <1>2, SamePlaces, StepsKnown DEF Inv, TypeOK, Progress, world, At, Abandon
  <2>1. StepsFollowed' /\ IdentifierKnown'
    BY DEF StepsFollowed, IdentifierKnown, CleanupFollowed, Direct, Searches
  <2>2. RefreshFollowed' /\ RefreshVerdict'
    BY DEF StepsFollowed, RefreshFollowed, RefreshVerdict, NoAnswer
  <2>3. CleanupFollowed' /\ leftovers' = 0
    BY DEF StepsFollowed, IdentifierKnown, CleanupFollowed, OkMeansDone, LastChance, Direct, Searches
  <2>4. OkMeansDone' /\ CleanupReachesTheModel'
    BY DEF StepsFollowed, IdentifierKnown, RefreshFollowed, CleanupFollowed, OkMeansDone,
           CleanupReachesTheModel, LastChance, Direct, Searches
  <2> QED
    BY <2>1, <2>2, <2>3, <2>4 DEF Progress
<1>3. ASSUME NEW d \in Details, NEW http \in {200, 202}, answer' = RefreshStatus(d, http),
             IF answer'.terminal THEN Verdict(answer') ELSE UNCHANGED <<phase, step, error>>
      PROVE  Progress'
  <2>1. RefreshVerdict'
    BY <1>1, <1>3, AnswersAreTrue DEF RefreshVerdict, world
  <2> USE <1>1, <1>3, <2>1, SamePlaces, StepsKnown DEF Inv, TypeOK, Progress, world, At, Verdict, Advance, Abandon
  <2>2. StepsFollowed' /\ IdentifierKnown'
    BY DEF StepsFollowed, IdentifierKnown, CleanupFollowed, Direct, Searches
  <2>3. RefreshFollowed' /\ RefreshVerdict'
    BY DEF StepsFollowed, RefreshFollowed, RefreshVerdict, NoAnswer
  <2>4. CleanupFollowed' /\ leftovers' = 0
    BY DEF StepsFollowed, IdentifierKnown, CleanupFollowed, OkMeansDone, LastChance, Direct, Searches
  <2>5. OkMeansDone' /\ CleanupReachesTheModel'
    BY DEF StepsFollowed, IdentifierKnown, RefreshFollowed, CleanupFollowed, OkMeansDone,
           CleanupReachesTheModel, LastChance, Direct, Searches
  <2> QED
    BY <2>2, <2>3, <2>4, <2>5 DEF Progress
<1> QED
  BY <1>2, <1>3 DEF PollRefresh

LEMMA StepsDoneStep == Inv /\ StepsDone => Progress'
<1> SUFFICES ASSUME Inv, StepsDone PROVE Progress'
  OBVIOUS
<1> USE SamePlaces, StepsKnown DEF Inv, TypeOK, Progress, flow, belief, world, StepsDone
<1>1. StepsFollowed' /\ IdentifierKnown'
  BY DEF StepsFollowed, IdentifierKnown, CleanupFollowed, Direct, Searches
<1>2. RefreshFollowed' /\ RefreshVerdict'
  BY DEF StepsFollowed, RefreshFollowed, RefreshVerdict, NoAnswer
<1>3. CleanupFollowed' /\ leftovers' = 0
  BY DEF StepsFollowed, IdentifierKnown, CleanupFollowed, OkMeansDone, LastChance, Direct, Searches
<1>4. OkMeansDone' /\ CleanupReachesTheModel'
  BY DEF StepsFollowed, IdentifierKnown, RefreshFollowed, CleanupFollowed, OkMeansDone,
         CleanupReachesTheModel, LastChance, Direct, Searches
<1> QED
  BY <1>1, <1>2, <1>3, <1>4 DEF Progress

LEMMA BeginCleanupStep == Inv /\ BeginCleanup => Progress'
<1> SUFFICES ASSUME Inv, BeginCleanup PROVE Progress'
  OBVIOUS
<1> USE SamePlaces, StepsKnown DEF Inv, TypeOK, Progress, flow, belief, world, BeginCleanup
<1>1. StepsFollowed' /\ IdentifierKnown'
  BY DEF StepsFollowed, IdentifierKnown, CleanupFollowed, Direct, Searches
<1>2. RefreshFollowed' /\ RefreshVerdict'
  BY DEF StepsFollowed, RefreshFollowed, RefreshVerdict, NoAnswer
<1>3. CleanupFollowed' /\ leftovers' = 0
  BY DEF StepsFollowed, IdentifierKnown, CleanupFollowed, OkMeansDone, LastChance, Direct, Searches
<1>4. OkMeansDone' /\ CleanupReachesTheModel'
  BY DEF StepsFollowed, IdentifierKnown, RefreshFollowed, CleanupFollowed, OkMeansDone,
         CleanupReachesTheModel, LastChance, Direct, Searches
<1> QED
  BY <1>1, <1>2, <1>3, <1>4 DEF Progress

LEMMA BeginFallbackStep == Inv /\ BeginFallback => Progress'
<1> SUFFICES ASSUME Inv, BeginFallback PROVE Progress'
  OBVIOUS
<1> USE SamePlaces, StepsKnown DEF Inv, TypeOK, Progress, flow, belief, world, BeginFallback
<1>1. StepsFollowed' /\ IdentifierKnown'
  BY DEF StepsFollowed, IdentifierKnown, CleanupFollowed, Direct, Searches
<1>2. RefreshFollowed' /\ RefreshVerdict'
  BY DEF StepsFollowed, RefreshFollowed, RefreshVerdict, NoAnswer
<1>3. CleanupFollowed' /\ leftovers' = 0
  BY DEF StepsFollowed, IdentifierKnown, CleanupFollowed, OkMeansDone, LastChance, Direct, Searches
<1>4. OkMeansDone' /\ CleanupReachesTheModel'
  BY DEF StepsFollowed, IdentifierKnown, RefreshFollowed, CleanupFollowed, OkMeansDone,
         CleanupReachesTheModel, LastChance, Direct, Searches
<1> QED
  BY <1>1, <1>2, <1>3, <1>4 DEF Progress

LEMMA SearchStep == Inv /\ Search => Progress'
<1> SUFFICES ASSUME Inv, Search PROVE Progress'
  OBVIOUS
<1> USE SamePlaces, StepsKnown DEF Inv, TypeOK, Progress, flow, belief, world, Search
<1>1. StepsFollowed' /\ IdentifierKnown'
  BY DEF StepsFollowed, IdentifierKnown, CleanupFollowed, Direct, Searches
<1>2. RefreshFollowed' /\ RefreshVerdict'
  BY DEF StepsFollowed, RefreshFollowed, RefreshVerdict, NoAnswer
<1>3. CleanupFollowed' /\ leftovers' = 0
  BY DEF StepsFollowed, IdentifierKnown, CleanupFollowed, OkMeansDone, LastChance, Direct, Searches
<1>4. OkMeansDone' /\ CleanupReachesTheModel'
  BY DEF StepsFollowed, IdentifierKnown, RefreshFollowed, CleanupFollowed, OkMeansDone,
         CleanupReachesTheModel, LastChance, Direct, Searches
<1> QED
  BY <1>1, <1>2, <1>3, <1>4 DEF Progress

LEMMA ReadNameStep == Inv /\ ReadName => Progress'
<1> SUFFICES ASSUME Inv, ReadName PROVE Progress'
  OBVIOUS
<1> USE SamePlaces, StepsKnown DEF Inv, TypeOK, Progress, flow, belief, world, ReadName,
        NameToConfirm, CleanupFails, RequestFails, CleanupOver
<1>1. StepsFollowed' /\ IdentifierKnown'
  BY DEF StepsFollowed, IdentifierKnown, CleanupFollowed, Direct, Searches
<1>2. RefreshFollowed' /\ RefreshVerdict'
  BY DEF StepsFollowed, RefreshFollowed, RefreshVerdict, NoAnswer
<1>3. CleanupFollowed' /\ leftovers' = 0
  BY DEF StepsFollowed, IdentifierKnown, CleanupFollowed, OkMeansDone, LastChance, Direct, Searches
<1>4. OkMeansDone' /\ CleanupReachesTheModel'
  BY DEF StepsFollowed, IdentifierKnown, RefreshFollowed, CleanupFollowed, OkMeansDone,
         CleanupReachesTheModel, LastChance, Direct, Searches
<1> QED
  BY <1>1, <1>2, <1>3, <1>4 DEF Progress

LEMMA CheckNameStep == Inv /\ CheckName => Progress'
<1> SUFFICES ASSUME Inv, CheckName PROVE Progress'
  OBVIOUS
<1> USE SamePlaces, StepsKnown DEF Inv, TypeOK, Progress, flow, belief, world, CheckName,
        CleanupFails, RequestFails, CleanupOver
<1>1. StepsFollowed' /\ IdentifierKnown'
  BY DEF StepsFollowed, IdentifierKnown, CleanupFollowed, Direct, Searches
<1>2. RefreshFollowed' /\ RefreshVerdict'
  BY DEF StepsFollowed, RefreshFollowed, RefreshVerdict, NoAnswer
<1>3. CleanupFollowed' /\ leftovers' = 0
  BY DEF StepsFollowed, IdentifierKnown, CleanupFollowed, OkMeansDone, LastChance, Direct, Searches
<1>4. OkMeansDone' /\ CleanupReachesTheModel'
  BY DEF StepsFollowed, IdentifierKnown, RefreshFollowed, CleanupFollowed, OkMeansDone,
         CleanupReachesTheModel, LastChance, Direct, Searches
<1> QED
  BY <1>1, <1>2, <1>3, <1>4 DEF Progress

LEMMA DeleteStep == Inv /\ Delete => Progress'
<1> SUFFICES ASSUME Inv, Delete PROVE Progress'
  OBVIOUS
<1> USE SamePlaces, StepsKnown DEF Inv, TypeOK, Progress, flow, belief, world, Delete,
        Unanswered, Effect, DeleteEffect, NoEffect, ListsAfterwards, CleanupFails, RequestFails,
        CleanupOver
<1>1. StepsFollowed' /\ IdentifierKnown'
  BY DEF StepsFollowed, IdentifierKnown, CleanupFollowed, Direct, Searches
<1>2. RefreshFollowed' /\ RefreshVerdict'
  BY DEF StepsFollowed, RefreshFollowed, RefreshVerdict, NoAnswer
<1>3. CleanupFollowed' /\ leftovers' = 0
  BY DEF StepsFollowed, IdentifierKnown, CleanupFollowed, OkMeansDone, LastChance, Direct, Searches
<1>4. OkMeansDone' /\ CleanupReachesTheModel'
  <2>1. CASE model' = "deleted" /\ UNCHANGED error
    BY <2>1 DEF StepsFollowed, IdentifierKnown, RefreshFollowed, OkMeansDone, CleanupReachesTheModel
  <2>2. CASE error' = TRUE /\ excuse' # {}
    BY <2>2 DEF OkMeansDone, CleanupReachesTheModel
  <2> QED
    BY <2>1, <2>2
<1> QED
  BY <1>1, <1>2, <1>3, <1>4 DEF Progress

LEMMA CheckListingStep == Inv /\ CheckListing => Progress'
<1> SUFFICES ASSUME Inv, CheckListing PROVE Progress'
  OBVIOUS
<1> USE SamePlaces, StepsKnown DEF Inv, TypeOK, Progress, flow, belief, world, CheckListing,
        CleanupFails, RequestFails, CleanupOver
<1>1. StepsFollowed' /\ IdentifierKnown'
  BY DEF StepsFollowed, IdentifierKnown, CleanupFollowed, Direct, Searches
<1>2. RefreshFollowed' /\ RefreshVerdict'
  BY DEF StepsFollowed, RefreshFollowed, RefreshVerdict, NoAnswer
<1>3. CleanupFollowed' /\ leftovers' = 0
  BY DEF StepsFollowed, IdentifierKnown, CleanupFollowed, OkMeansDone, LastChance, Direct, Searches
<1>4. OkMeansDone' /\ CleanupReachesTheModel'
  BY DEF StepsFollowed, IdentifierKnown, RefreshFollowed, CleanupFollowed, OkMeansDone,
         CleanupReachesTheModel, LastChance, Direct, Searches
<1> QED
  BY <1>1, <1>2, <1>3, <1>4 DEF Progress

LEMMA NextRoundStep == Inv /\ NextRound => Progress'
<1> SUFFICES ASSUME Inv, NextRound PROVE Progress'
  OBVIOUS
<1> USE SamePlaces, StepsKnown DEF Inv, TypeOK, Progress, flow, belief, world, NextRound,
        NoAnswer
<1>1. StepsFollowed' /\ IdentifierKnown'
  BY DEF StepsFollowed, IdentifierKnown, CleanupFollowed, Direct, Searches
<1>2. RefreshFollowed' /\ RefreshVerdict'
  BY DEF StepsFollowed, RefreshFollowed, RefreshVerdict, NoAnswer
<1>3. CleanupFollowed' /\ leftovers' = 0
  BY DEF StepsFollowed, IdentifierKnown, CleanupFollowed, OkMeansDone, LastChance, Direct, Searches
<1>4. OkMeansDone' /\ CleanupReachesTheModel'
  BY DEF StepsFollowed, IdentifierKnown, RefreshFollowed, CleanupFollowed, OkMeansDone,
         CleanupReachesTheModel, LastChance, Direct, Searches
<1> QED
  BY <1>1, <1>2, <1>3, <1>4 DEF Progress

LEMMA RefreshEndsStep == Inv /\ RefreshEnds => Progress'
<1> SUFFICES ASSUME Inv, RefreshEnds PROVE Progress'
  OBVIOUS
<1> USE SamePlaces, StepsKnown DEF Inv, TypeOK, Progress, flow, belief, world, RefreshEnds
<1>1. StepsFollowed' /\ IdentifierKnown'
  BY DEF StepsFollowed, IdentifierKnown, CleanupFollowed, Direct, Searches
<1>2. RefreshFollowed' /\ RefreshVerdict'
  BY DEF StepsFollowed, RefreshFollowed, RefreshVerdict, NoAnswer
<1>3. CleanupFollowed' /\ leftovers' = 0
  BY DEF StepsFollowed, IdentifierKnown, CleanupFollowed, OkMeansDone, LastChance, Direct, Searches
<1>4. OkMeansDone' /\ CleanupReachesTheModel'
  BY DEF StepsFollowed, IdentifierKnown, RefreshFollowed, CleanupFollowed, OkMeansDone,
         CleanupReachesTheModel, LastChance, Direct, Searches
<1> QED
  BY <1>1, <1>2, <1>3, <1>4 DEF Progress

LEMMA CarryOutStep == ASSUME Inv, NEW r, CarryOut(r) PROVE Progress'
<1> USE SamePlaces, StepsKnown DEF Inv, TypeOK, Progress, flow, belief, world, CarryOut, Effect, CreateEffect, RenameEffect, DeleteEffect, EditEffect
<1>1. StepsFollowed' /\ IdentifierKnown'
  BY DEF StepsFollowed, IdentifierKnown, CleanupFollowed, Direct, Searches
<1>2. RefreshFollowed' /\ RefreshVerdict'
  BY DEF StepsFollowed, RefreshFollowed, RefreshVerdict, NoAnswer
<1>3. CleanupFollowed' /\ leftovers' = 0
  BY DEF StepsFollowed, IdentifierKnown, CleanupFollowed, OkMeansDone, LastChance, Direct, Searches
<1>4. OkMeansDone' /\ CleanupReachesTheModel'
  BY DEF StepsFollowed, IdentifierKnown, RefreshFollowed, CleanupFollowed, OkMeansDone,
         CleanupReachesTheModel, LastChance, Direct, Searches
<1> QED
  BY <1>1, <1>2, <1>3, <1>4 DEF Progress

LEMMA DropStep == ASSUME Inv, NEW r, Drop(r) PROVE Progress'
<1> USE SamePlaces, StepsKnown DEF Inv, TypeOK, Progress, flow, belief, world, Drop
<1>1. StepsFollowed' /\ IdentifierKnown'
  BY DEF StepsFollowed, IdentifierKnown, CleanupFollowed, Direct, Searches
<1>2. RefreshFollowed' /\ RefreshVerdict'
  BY DEF StepsFollowed, RefreshFollowed, RefreshVerdict, NoAnswer
<1>3. CleanupFollowed' /\ leftovers' = 0
  BY DEF StepsFollowed, IdentifierKnown, CleanupFollowed, OkMeansDone, LastChance, Direct, Searches
<1>4. OkMeansDone' /\ CleanupReachesTheModel'
  BY DEF StepsFollowed, IdentifierKnown, RefreshFollowed, CleanupFollowed, OkMeansDone,
         CleanupReachesTheModel, LastChance, Direct, Searches
<1> QED
  BY <1>1, <1>2, <1>3, <1>4 DEF Progress

LEMMA InvStep == Inv /\ [Next]_vars => Inv'
<1> SUFFICES ASSUME Inv, [Next]_vars PROVE Inv'
  OBVIOUS
<1>1. TypeOK'
  BY TypeStep DEF Inv
<1>2. Progress'
  <2>1. CASE Read \/ StaleEdit \/ Compare
    BY <2>1, ReadingStep DEF Read, StaleEdit, Compare, StepOver, world
  <2>2. CASE Script /\ ~(Read \/ StaleEdit \/ Compare)
    BY <2>2, CreateStep, RenameStep, EditStep, StartRefreshStep, PollRefreshStep, StepsDoneStep,
       BeginCleanupStep, BeginFallbackStep, SearchStep, ReadNameStep, CheckNameStep, DeleteStep,
       CheckListingStep, NextRoundStep DEF Script
  <2>3. CASE Service
    BY <2>3, RefreshEndsStep, CarryOutStep, DropStep DEF Service
  <2>4. CASE UNCHANGED vars
    BY <2>4, SamePlaces DEF vars, flow, belief, world, Inv, Progress, StepsFollowed,
       IdentifierKnown, RefreshFollowed, CleanupFollowed, OkMeansDone, CleanupReachesTheModel,
       RefreshVerdict, LastChance
  <2> QED
    BY <2>1, <2>2, <2>3, <2>4 DEF Next
<1> QED
  BY <1>1, <1>2 DEF Inv

LEMMA InitInv == Init => Inv
<1> SUFFICES ASSUME Init PROVE Inv
  OBVIOUS
<1> USE StepsKnown, ScriptNames DEF Init, NoAnswer
<1>1. TypeOK
  <2>1. step \in 1..(Len(Steps) + 1) /\ round \in 1..Rounds /\ polls \in 0..MaxPolls
    BY PollsAssumption DEF Rounds
  <2>2. answer \in [terminal: BOOLEAN, succeeded: BOOLEAN, status: {"none", "pending", "success"}]
    OBVIOUS
  <2>3. {knows, deleted, error} \subseteq BOOLEAN
    OBVIOUS
  <2> QED
    BY <2>1, <2>2, <2>3 DEF TypeOK, Definitions
<1>2. StepsFollowed /\ IdentifierKnown /\ RefreshFollowed /\ CleanupFollowed
  BY DEF StepsFollowed, IdentifierKnown, RefreshFollowed, CleanupFollowed
<1>3. OkMeansDone /\ CleanupReachesTheModel /\ RefreshVerdict
  BY DEF OkMeansDone, CleanupReachesTheModel, RefreshVerdict
<1> QED
  BY <1>1, <1>2, <1>3 DEF Inv, Progress

THEOREM Invariance == Spec => []Inv
  BY InitInv, InvStep, PTL DEF Spec

-----------------------------------------------------------------------------
(* The scripts keep their variables in their types: no script runs past    *)
(* its steps or polls more often than it has time for.                     *)
THEOREM TypeCorrect == Spec => []TypeOK
<1>1. Inv => TypeOK
  BY DEF Inv
<1> QED
  BY <1>1, Invariance, PTL

(* A script that ends without an error has deleted its model and seen its  *)
(* refresh complete, whatever failed and was carried out late on the way.  *)
THEOREM SuccessIsDone == Spec => []OkMeansDone
<1>1. Inv => OkMeansDone
  BY DEF Inv, Progress
<1> QED
  BY <1>1, Invariance, PTL

(* No model is left behind but for the reasons that "excuse" records.      *)
THEOREM CleanupIsThorough == Spec => []CleanupReachesTheModel
<1>1. Inv => CleanupReachesTheModel
  BY DEF Inv, Progress
<1> QED
  BY <1>1, Invariance, PTL

(* What get_refresh_status says of the end of a refresh is so, and stays.  *)
THEOREM VerdictsAreTrue == Spec => []RefreshVerdict
<1>1. Inv => RefreshVerdict
  BY DEF Inv, Progress
<1> QED
  BY <1>1, Invariance, PTL

-----------------------------------------------------------------------------
(* The tools that return rows.                                             *)

Delivered == stage = "capped" \/ outcome = "delivered"

(* What has arrived, and that a cut by Power BI has left its error.        *)
Arrived ==
  stage = "received" \/ Delivered =>
    /\ received = source.streams * AtMost(source.rows, RowsAsked)
    /\ Dax(tool) /\ source.rows > RowsAsked => errors # {}

(* Every limit that has left rows out has its reason.                      *)
Explained ==
  Delivered =>
    /\ kept <= AtMost(received, limit)
    /\ reasons \subseteq Reasons(TRUE)
    /\ received > limit => "row_cap" \in reasons
    /\ errors # {} => "powerbi_limit" \in reasons
    /\ kept < AtMost(received, limit) => "response_bytes" \in reasons

(* One row more would break a limit.                                       *)
Tight ==
  Delivered /\ kept < received =>
    \/ kept = limit
    \/ ~FitsCap(kept + 1)
    \/ ResultBytes(kept + 1, reasons) > MaxBytes

NoneKeptYet == stage \in {"asking", "received"} => kept = 0 /\ outcome = "open"

PlainSQL == ~Dax(tool) => source.streams = 1

RowsInv == RowsTypeOK /\ NoneKeptYet /\ PlainSQL /\ Arrived /\ Explained /\ Tight

-----------------------------------------------------------------------------
LEMMA SourceFacts ==
  ASSUME NEW s \in Sources
  PROVE  /\ s.rows \in Nat /\ s.columnBytes \in Nat /\ s.warningBytes \in Nat
         /\ s.streams \in Nat \ {0} /\ s.rowBytes \in Nat \ {0}
         /\ s.errors \in SUBSET {"query", "limitLike"}
  BY SizeAssumption

LEMMA SizeFacts ==
  /\ MaxBytes \in Nat /\ Envelope \in Nat /\ Reason \in Nat /\ Trailer \in Nat
  /\ Limits \subseteq Nat \ {0}
  BY SizeAssumption

LEMMA ProductIsNat == \A a, b \in Nat : a * b \in Nat
  OBVIOUS

(* More reasons make no result shorter.                                    *)
LEMMA ReasonsCost ==
  ASSUME NEW S \in SUBSET {"row_cap", "response_bytes", "powerbi_limit"},
         NEW R \in SUBSET S
  PROVE  /\ Reason * Cardinality(R) \in Nat
         /\ Reason * Cardinality(S) \in Nat
         /\ Reason * Cardinality(R) <= Reason * Cardinality(S)
<1>1. IsFiniteSet({"row_cap", "response_bytes", "powerbi_limit"})
  <2>1. IsFiniteSet({"row_cap"}) /\ IsFiniteSet({"response_bytes"}) /\ IsFiniteSet({"powerbi_limit"})
    BY FS_Singleton
  <2>2. IsFiniteSet({"row_cap"} \cup {"response_bytes"} \cup {"powerbi_limit"})
    BY <2>1, FS_Union
  <2> QED
    BY <2>2
<1>2. IsFiniteSet(S)
  BY <1>1, FS_Subset
<1>3. IsFiniteSet(R) /\ Cardinality(R) <= Cardinality(S)
  BY <1>2, FS_Subset
<1>4. Cardinality(R) \in Nat /\ Cardinality(S) \in Nat
  BY <1>2, <1>3, FS_CardinalityType
<1>5. \A a, b, c \in Nat : b <= c => a * b <= a * c
  OBVIOUS
<1> QED
  BY <1>3, <1>4, <1>5, SizeFacts, ProductIsNat

LEMMA RowsInitInv == RowsInit => RowsInv
<1> SUFFICES ASSUME RowsInit PROVE RowsInv
  OBVIOUS
<1>1. RowsTypeOK
  BY SizeFacts DEF RowsInit, RowsTypeOK, Tools
<1>2. NoneKeptYet /\ PlainSQL /\ Arrived /\ Explained /\ Tight
  BY DEF RowsInit, NoneKeptYet, PlainSQL, Arrived, Explained, Tight, Delivered
<1> QED
  BY <1>1, <1>2 DEF RowsInv

LEMMA RowsTypeStep == RowsTypeOK /\ NoneKeptYet /\ [RowsNext]_rowVars => RowsTypeOK' /\ NoneKeptYet'
<1> SUFFICES ASSUME RowsTypeOK, NoneKeptYet, [RowsNext]_rowVars PROVE RowsTypeOK' /\ NoneKeptYet'
  OBVIOUS
<1> USE DEF RowsTypeOK, NoneKeptYet, question
<1>1. CASE Answered
  <2>1. RowsAsked \in Nat
    BY SizeFacts DEF RowsAsked
  <2>2. source.streams * AtMost(source.rows, RowsAsked) \in Nat
    BY <2>1, SourceFacts, ProductIsNat DEF AtMost
  <2>3. kept' = 0 /\ kept' \in 0..received'
    BY <1>1, <2>2 DEF Answered
  <2> QED
    BY <1>1, <2>2, <2>3, SourceFacts DEF Answered
<1>2. CASE QueryUnanswered
  BY <1>2 DEF QueryUnanswered
<1>3. CASE QueryFailed
  BY <1>3 DEF QueryFailed
<1>4. CASE Capped
  <2>1. 0..AtMost(received, limit) \subseteq 0..received
    BY SizeFacts DEF AtMost
  <2>2. \A b : Reasons(b) \in SUBSET {"row_cap", "response_bytes", "powerbi_limit"}
    BY DEF Reasons
  <2> QED
    BY <1>4, <2>1, <2>2 DEF Capped
<1>5. CASE DropRow
  <2>1. kept - 1 \in 0..received
    BY <1>5 DEF DropRow, TooLong
  <2>2. \A b : Reasons(b) \in SUBSET {"row_cap", "response_bytes", "powerbi_limit"}
    BY DEF Reasons
  <2> QED
    BY <1>5, <2>1, <2>2 DEF DropRow
<1>6. CASE Deliver
  BY <1>6 DEF Deliver
<1>7. CASE UNCHANGED rowVars
  BY <1>7 DEF rowVars
<1> QED
  BY <1>1, <1>2, <1>3, <1>4, <1>5, <1>6, <1>7 DEF RowsNext

-----------------------------------------------------------------------------
LEMMA ArrivedStep == RowsInv /\ [RowsNext]_rowVars => PlainSQL' /\ Arrived'
<1> SUFFICES ASSUME RowsInv, [RowsNext]_rowVars PROVE PlainSQL' /\ Arrived'
  OBVIOUS
<1> USE DEF RowsInv, PlainSQL, Arrived, Delivered, question, RowsAsked
<1>1. CASE Answered
  BY <1>1 DEF Answered
<1>2. CASE QueryUnanswered
  BY <1>2 DEF QueryUnanswered
<1>3. CASE QueryFailed
  BY <1>3 DEF QueryFailed
<1>4. CASE Capped
  BY <1>4 DEF Capped
<1>5. CASE DropRow
  BY <1>5 DEF DropRow
<1>6. CASE Deliver
  BY <1>6 DEF Deliver
<1>7. CASE UNCHANGED rowVars
  BY <1>7 DEF rowVars
<1> QED
  BY <1>1, <1>2, <1>3, <1>4, <1>5, <1>6, <1>7 DEF RowsNext

LEMMA RowsAreNat ==
  ASSUME RowsTypeOK, NEW n \in Nat
  PROVE  n * (source.rowBytes + 1) \in Nat
<1>1. source.rowBytes + 1 \in Nat
  BY SourceFacts DEF RowsTypeOK
<1> QED
  BY <1>1, ProductIsNat

LEMMA SizesAreNat ==
  ASSUME RowsTypeOK, NEW n \in Nat, NEW R \in SUBSET {"row_cap", "response_bytes", "powerbi_limit"}
  PROVE  ResultBytes(n, R) \in Nat
<1>1. n * (source.rowBytes + 1) \in Nat
  BY RowsAreNat
<1>2. Reason * Cardinality(R) \in Nat
  BY ReasonsCost
<1> QED
  BY <1>1, <1>2, SourceFacts, SizeFacts DEF ResultBytes, RowsTypeOK

LEMMA MoreReasonsMoreBytes ==
  ASSUME RowsTypeOK, NEW n \in Nat,
         NEW S \in SUBSET {"row_cap", "response_bytes", "powerbi_limit"}, NEW R \in SUBSET S
  PROVE  ResultBytes(n, R) <= ResultBytes(n, S)
<1>1. n * (source.rowBytes + 1) \in Nat
  BY RowsAreNat
<1>2. /\ Reason * Cardinality(R) \in Nat
      /\ Reason * Cardinality(S) \in Nat
      /\ Reason * Cardinality(R) <= Reason * Cardinality(S)
  BY ReasonsCost
<1> QED
  BY <1>1, <1>2, SourceFacts, SizeFacts DEF ResultBytes, RowsTypeOK

-----------------------------------------------------------------------------
LEMMA CappedStep ==
  ASSUME RowsInv, Capped
  PROVE  Explained' /\ Tight'
<1> USE DEF RowsInv, RowsTypeOK, question
<1>1. PICK n \in 0..AtMost(received, limit) :
        /\ n < AtMost(received, limit) => ~FitsCap(n + 1)
        /\ kept' = n
        /\ reasons' = Reasons(n < AtMost(received, limit))
  BY DEF Capped
<1>2. UNCHANGED <<tool, limit, source, received, errors>>
  BY DEF Capped
<1>3. AtMost(received, limit) \in Nat
  BY SizeFacts DEF AtMost
<1>4. Explained'
  BY <1>1, <1>2, <1>3 DEF Explained, AtMost, Reasons
<1>5. kept' < received' /\ kept' # limit' => kept' < AtMost(received, limit)
  BY <1>1, <1>2, <1>3, SizeFacts DEF AtMost
<1>6. Tight'
  BY <1>1, <1>2, <1>5 DEF Tight, FitsCap
<1> QED
  BY <1>4, <1>6

LEMMA DropRowStep ==
  ASSUME RowsInv, DropRow
  PROVE  Explained' /\ Tight'
<1> USE DEF RowsInv, RowsTypeOK, question
<1>1. /\ kept \in Nat /\ kept > 0 /\ kept' = kept - 1
      /\ ResultBytes(kept, reasons) > MaxBytes
      /\ reasons' = Reasons(TRUE)
      /\ stage = "capped"
      /\ UNCHANGED <<tool, limit, source, received, errors>>
  BY DEF DropRow, TooLong
<1>2. reasons \subseteq Reasons(TRUE)
  BY <1>1 DEF Explained, Delivered
<1>3. Reasons(TRUE) \in SUBSET {"row_cap", "response_bytes", "powerbi_limit"}
  BY DEF Reasons
<1>4. ResultBytes(kept, reasons) <= ResultBytes(kept, Reasons(TRUE))
  BY <1>1, <1>2, <1>3, MoreReasonsMoreBytes
<1>5. ResultBytes(kept, reasons) \in Nat /\ ResultBytes(kept, Reasons(TRUE)) \in Nat
  BY <1>1, <1>3, SizesAreNat
<1>6. ResultBytes(kept, Reasons(TRUE)) > MaxBytes
  <2> DEFINE a == ResultBytes(kept, reasons)
             b == ResultBytes(kept, Reasons(TRUE))
  <2>1. a \in Nat /\ b \in Nat /\ a <= b /\ a > MaxBytes /\ MaxBytes \in Nat
    BY <1>1, <1>4, <1>5, SizeFacts
  <2> HIDE DEF a, b
  <2>2. b > MaxBytes
    BY <2>1
  <2> QED
    BY <2>2 DEF b
<1>7. kept' + 1 = kept
  BY <1>1
<1>8. Tight'
  BY <1>1, <1>6, <1>7 DEF Tight, ResultBytes, Reasons
<1>9. Explained'
  <2>1. kept <= AtMost(received, limit) /\ AtMost(received, limit) \in Nat
    BY <1>1, SizeFacts DEF Explained, Delivered, AtMost
  <2>2. kept' <= AtMost(received, limit)
    BY <1>1, <2>1
  <2> QED
    BY <1>1, <2>2 DEF Explained, AtMost, Reasons
<1> QED
  BY <1>8, <1>9

LEMMA RowsStep == RowsInv /\ [RowsNext]_rowVars => Explained' /\ Tight'
<1> SUFFICES ASSUME RowsInv, [RowsNext]_rowVars PROVE Explained' /\ Tight'
  OBVIOUS
<1> USE DEF RowsInv, NoneKeptYet, Explained, Tight, Delivered, question
<1>1. CASE Answered
  BY <1>1 DEF Answered
<1>2. CASE QueryUnanswered
  BY <1>2 DEF QueryUnanswered
<1>3. CASE QueryFailed
  BY <1>3 DEF QueryFailed
<1>4. CASE Capped
  BY <1>4, CappedStep
<1>5. CASE DropRow
  BY <1>5, DropRowStep
<1>6. CASE Deliver
  BY <1>6 DEF Deliver, Reasons, AtMost, FitsCap, ResultBytes
<1>7. CASE UNCHANGED rowVars
  BY <1>7 DEF rowVars, Reasons, AtMost, FitsCap, ResultBytes
<1> QED
  BY <1>1, <1>2, <1>3, <1>4, <1>5, <1>6, <1>7 DEF RowsNext

LEMMA RowsInvStep == RowsInv /\ [RowsNext]_rowVars => RowsInv'
  BY RowsTypeStep, ArrivedStep, RowsStep DEF RowsInv

THEOREM RowsInvariance == RowsSpec => []RowsInv
  BY RowsInitInv, RowsInvStep, PTL DEF RowsSpec

-----------------------------------------------------------------------------
(* The program's variables stay within their types: no row is dropped from *)
(* an empty result.                                                        *)
THEOREM RowsTypeCorrect == RowsSpec => []RowsTypeOK
<1>1. RowsInv => RowsTypeOK
  BY DEF RowsInv
<1> QED
  BY <1>1, RowsInvariance, PTL

(* Rows are missing only with a reason, for every source: all that the     *)
(* service has, unless it reported a cut, has arrived, and every limit     *)
(* after that leaves its mark.                                             *)
THEOREM CutsAnnounced == RowsSpec => []CutsAreAnnounced
<1>1. RowsInv => CutsAreAnnounced
  <2> SUFFICES ASSUME RowsInv, outcome = "delivered", reasons = {},
                      kept < source.streams * source.rows
               PROVE  FALSE
    BY DEF CutsAreAnnounced
  <2> USE DEF RowsInv, RowsTypeOK
  <2>1. /\ received = source.streams * AtMost(source.rows, RowsAsked)
        /\ Dax(tool) => ~(source.rows > RowsAsked)
        /\ kept = AtMost(received, limit)
        /\ ~(received > limit)
    BY SizeFacts DEF Arrived, Explained, Delivered, Reasons, AtMost
  <2>2. kept = received
    BY <2>1, SizeFacts DEF AtMost
  <2>3. RowsAsked \in Nat /\ (~Dax(tool) => RowsAsked = limit + 1)
    BY SizeFacts DEF RowsAsked
  <2>4. source.rows \in Nat /\ source.streams \in Nat
    BY SourceFacts
  <2>5. CASE source.rows > RowsAsked
    <3>1. ~Dax(tool) /\ source.streams = 1
      BY <2>1, <2>5 DEF PlainSQL
    <3>2. received = RowsAsked
      BY <2>1, <2>3, <2>4, <2>5, <3>1 DEF AtMost
    <3> QED
      BY <2>1, <2>3, <3>1, <3>2, SizeFacts
  <2>6. CASE ~(source.rows > RowsAsked)
    <3>1. AtMost(source.rows, RowsAsked) = source.rows
      BY <2>3, <2>4, <2>6 DEF AtMost
    <3> QED
      BY <2>1, <2>2, <3>1
  <2> QED
    BY <2>5, <2>6
<1> QED
  BY <1>1, RowsInvariance, PTL

(* No row is left out that would have fitted.                              *)
THEOREM NoneLeftOut == RowsSpec => []NoneLeftOutInVain
<1>1. RowsInv => NoneLeftOutInVain
  BY DEF RowsInv, Tight, Delivered, NoneLeftOutInVain
<1> QED
  BY <1>1, RowsInvariance, PTL
==============================================================================
