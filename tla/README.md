# Verification of the Power BI / Fabric MCP server

This directory holds TLA+ specifications of the server under `src/`, the TLC
configurations that check them, and TLAPS proofs of their main properties.

## 1. Inventory

| Component | State | Operations | What makes it correct |
|---|---|---|---|
| Access token cache (`identity.ts`) | cached token and pending promise per audience | `getAccessToken`, `clear`, the private `acquire` | one acquisition per audience in flight; no expired token served; a failed acquisition is forgotten; everyone who waits is answered |
| HTTP helper (`clients/http-client.ts`) | loop counter, abort timer | `request` | mutations are sent once; reads are retried within a bound; the result tells what the caller may conclude |
| Definition updates (`applyModelChanges`, `getSnapshot`, `poll`) | none of its own: the definition is Fabric's | read, hash check, edit, preview, update, poll, read-back | only an edit of the expected definition is sent; results are truthful; every call ends |
| Item lifecycle (create, properties, delete, bind) | none of its own | guard, read, decide, mutate, read back | deletion needs identifier and name; binding needs matching details; results are truthful |
| Editing engine (`model/engine.ts`, `dependencies.ts`) | a copy of the model | `applyModelChanges` over typed operations | all or nothing; no dangling reference; the input is untouched |
| Diff and hash (`model/diff.ts`, `normalize.ts`) | none | `diffModelSpecs`, `hashModelSpec` | the diff sees a change exactly when the hash does (it does not: finding 2) |
| Validation (`model/validation.ts`) | none | `validateModelSpec`, measure cycles | every broken reference and every cycle is reported |
| TMSL codec (`model/codec.ts`) | none | `buildTmslDefinition`, `parseTmslDefinition` | what it writes it reads back; a definition is rewritten without loss or refused (not quite: finding 3) |
| DAX lexer (`model/dax.ts`) | none | tokens, references, lint | references found are the references there |
| DAX execution and refresh (`mcp-workflow-service.ts`, `powerbi-client.ts`) | none | `runDax`, `refreshSemanticModel`, `getRefreshStatus` | truncation is announced and within the limits; terminal states are terminal |
| Pagination (`pagination.ts`, list methods) | the offset inside a token | `paginateValues`, upstream page loops | no token for another collection; a stable collection is listed once |
| SQL sampling (`fabric-sql-client.ts`) | one connection per call | `inspectSchema`, `sampleTable` | the connection is closed on every path |
| Live acceptance scripts (`scripts/live-*.ts`) | what a script knows of its disposable model: identifier, name, first error, deletion | create, rename, edit, refresh, poll, clean up, fall back | success means done and deleted; no model is left behind for lack of trying; every script ends |
| Registry, server, HTTP transport, authentication, configuration, logging | one MCP server per request | dispatch | the read-only guard holds in front of every mutation |

How they interact: a request reaches `McpWorkflowService.execute` through a
request-scoped MCP server. The workflow calls `SemanticModelService`, that calls
`FabricClient`, that calls `ResilientHttpClient.request`, which asks
`CachedAccessTokenProvider` for a token before each attempt. Everything runs in
one Node.js process: code runs without interruption between two `await`s, and
calls interleave at every `await`. Nothing is shared between calls but the token
cache; what they really share is the state of Fabric, which other people edit
too, and no call locks it.

The behaviours that are hard here:

- other writers between a check and the mutation it guards;
- requests that time out but are carried out, now or later;
- long-running operations polled under a budget, whose result is older than the poll;
- misses, failures and `clear()` around one shared acquisition;
- results that must not claim more, or less, than happened;
- cleaning up after a failure when it is not known what the failed request did;
- rewriting a whole definition from a model that has only part of its fields.

`PROJECT.json` lists each of these at its line under `hazards`.

## 2. Modules

| Module | Models | Extends / instantiates |
|---|---|---|
| `TokenCache` | `CachedAccessTokenProvider` | |
| `TokenCacheProofs` | theorems about it | `TokenCache`, `TLAPS` |
| `DeliveryContract` | abstract: what one request promises its caller | |
| `HttpClient` | `ResilientHttpClient.request` | instance of `DeliveryContract` |
| `HttpClientProofs` | theorems about it, refinement included | `HttpClient`, `TLAPS` |
| `ModelChanges` | `apply_model_changes` down to the Fabric client | |
| `ModelChangesProofs` | theorems about it | `ModelChanges`, `TLAPS` |
| `ItemLifecycle` | create, properties, delete, bind | |
| `ItemLifecycleProofs` | theorems about it | `ItemLifecycle`, `TLAPS` |
| `ModelEngine` | the editing engine's `applyModelChanges`, its dependency check, final validation, diff and hash | `SequencesExt` |
| `MeasureCycles` | `validateMeasureCycles` | |
| `ModelEngineProofs` | theorems about `ModelEngine` and `MeasureCycles`, and that the search of one decides a predicate of the other | both, `SequenceTheorems`, `TLAPS` |
| `Listing` | the five listing tools: page loop and `paginateValues` | |
| `ListingProofs` | theorems about it | `Listing`, `SequenceTheorems`, `TLAPS` |
| `RowResults` | `execute_dax`, `validate_dax`, `sample_data_source_table`, `inspect_data_source_schema` | |
| `TmslCodec` | `buildTmslDefinition`, `parseTmslDefinition`, and an edit between them | |
| `TmslCodecProofs` | theorems about it | `TmslCodec`, `TLAPS` |
| `DisposableModel` | the four live acceptance scripts, refresh start and status | `Sequences` |
| `WorkflowProofs` | theorems about `DisposableModel` and `RowResults`, side by side | both, `SequenceTheorems`, `FiniteSetTheorems`, `TLAPS` |
| `MC...` | instances for TLC | the module of that name; `MCWorkflow`: `DisposableModel` and `RowResults` |

### TokenCache

`cache` and `pending` are the two maps; a pending promise is named by the call
that began it. `phase`, `promise`, `flight` and `got` are the local state of each
call. `ReturnCached`, `JoinPending` and `BeginAcquire` are the three ways through
`getAccessToken` up to its first `await` (lines 67-79). `TokenArrives` and
`AcquisitionFails` are the two ends of `acquire`; `OwnerResumes` is the `finally`
that removes the promise, a microtask later; `JoinerResumes` wakes a joined call.
`Clear` is `clear(audience)` and `clear()`. Tokens keep their expiry and the
instant from which `isUsable` refuses them, with or without
`refreshAfterTimestamp`, which is taken to be no later than the expiry. A token's
text is left out, and with it the test for an empty one (it counts as a failure).

### HttpClient and DeliveryContract

`attempt` is the loop counter, `pc` the place in the loop body, `wire[i]` what
became of attempt `i`. The service is outside the code: `CarryOut` and `Refuse`
happen to any attempt that was sent, at any time, also after the client gave up.
An accepted status implies an effect, 429 implies none, and any other status
leaves it open. `TransportFails` is the `catch` block, reached from the wait for
the head, from either body and from the cancellation of a retried response.

`DeliveryContract` leaves the attempts out: an effect counter and a report. A
request that is not repeatable takes effect at most once, also after its report;
success needs an effect; a retryable failure of a non-repeatable request
promises that there never will be one. `HttpClient` implements it with
`repeatable <- (mode = "safe")`.

### ModelChanges

A call has a `stage` (its read, its update or its read-back) and a `step` within
it (waiting for a reply, polling, waiting for a result, ready to decide). Reads
and the update may each be answered with 200 or with 202 and an operation;
`PollRound` and its three outcomes and `PollExpires` are `poll`. The six ways on
from the read (`DecideStale`, `DecideRejected`, `DecidePreview`,
`DecideUnchanged`, `UpdateUnsent`, `SendUpdate`) are the lines 643-679;
`UpdateUnsent` is an update for which no token could be had. `RequestFails` covers
every failing request, among them a 202 without operation headers and a
definition that cannot be parsed. `EndBounded` is the size limit of the tool
result. On Fabric's side an update is stored, accepted, refused, finished or
failed at any time; a success does not have to mean that the definition sent was
stored, which is what the read-back is there for. `OutsideEdit` is anybody else.

A definition stands for its hash (SHA-256 of the canonical JSON, taken to be
injective), and the engine with the serializer is the constant function `Edited`.
`DiffSees` is whether the semantic diff of two definitions shows a change: line 665
goes by the diff and not by the hash, and the two need not agree (`ModelEngine`).
Three history variables record which definitions were live since a call began or
sent, and what its update replaced.

`retryable` is the flag of the error a call throws, which `mcp/server.ts:35-53`
passes on to the caller. Only the update itself is sent in mode "never", so only its
failures are never flagged; those of state requests, results, reads and read-backs
may be (`Repeatable`, `http-client.ts:371-373`), a failed operation brings
Fabric's `isRetriable` along (`PollSeesFailure`), and a missing token is always
flagged. A flagged error can thus be raised after the update has been stored: the
call as a whole does not keep the promise that `DeliveryContract` makes for one
request, and no refinement is claimed. What holds is `RetryableIsUnambiguous` and
`NotAppliedIsFinal`.

### ItemLifecycle

One `request` record per call says which tool it is and with which arguments.
`Begin` and `SendCreate` are the code before the first request, `ItemAnswered`
the read (item or snapshot), `DecideProperties`, `DecideDelete`, `DecideBind` and
`ConnectionAnswered` what each tool does with it, `Transmit` the mutation,
`WriteAnswered`, `CreatePending` and `Verify` the rest. Long-running operations
are polled as in `ModelChanges` and here only seen to end. Of a definition only
its data source is kept. PATCH is taken to store exactly the fields it names;
a created definition may differ from the one sent.

### ModelEngine

A model is a set of objects of the eleven kinds, each with its key (type, parent,
name), the references in it, its other content and, for a calculation group, the
order of its items. Names are canonical names; DAX and M text is the set of
references found in it. `Create`, `Update`, `Delete` and `Rename` are the four
actions of `mutateNamedCollection` and its variants for calculation groups and
items, with the early failures in their order; `Referenced` is
`requireNoReferences` over `findModelReferences`, one `RefersTo...` per kind of
target. `Finish` is the validation of the copy, `Valid`. `Denotes` says which
object a reference means: it is the reading of the validator, not that of the
dependency check, and `BindingsKept` compares the two.

A table, a column or a group's items are looked up by canonical names, so `Names`
is a constant; `Objects` says what the schema of each kind has room for, and the
assumptions about `Models` and `Changes` say that a model and the value of a
change have passed their schemas: parts are below their parents and the order of a
group lists its items. An array of the code with two elements of one name is left
out of the value of a change (the engine rejects it at the end of the batch), and
the text of a DAX expression is not read again when tables change their names.

Each object carries `was`, the key it had before the batch. `LeftToAuthor` names
the three kinds of reference that the dependency check leaves alone: of an object
to itself or to a namesake in its table, by the name of its own table, and by bare
name to a measure of a table that is deleted. When a delete or a rename goes
ahead although such references point at what it takes away, `waived` records them.
`BindingsKept` exempts just these references and no others, and only from that
change on.

### MeasureCycles

One step is one call of `visit` or one return from it; `stack` is the JavaScript
call stack, `remaining` the rest of each loop on it. `Circular` and `Closed` state
what a cycle is through sets of measures instead of paths, which makes the
definition independent of the search and within the reach of the provers. The
module shares a module of proofs with `ModelEngine`, whose `NoCircularMeasures`
stands for this search, so its specification is called `SearchSpec`.

### Listing

`content` is Fabric's, in Fabric's order; `Add` and `Remove` are anybody else.
A walk is what a caller does with one collection: `Begin` is a tool call, with the
caller's token or with one for another collection; `PageAnswered` is a round of
the upstream loop, after which the call goes on (`FetchOn`), gives up
(`PageLimit`) or reaches `paginateValues`, whose three ends are the token of
another scope, the offset beyond the collection and the `Page`. Fabric's own
token is a position in the collection; it may come with an empty last page.
Fabric's order is taken to be stable and identifiers are not reused.

### RowResults

All rows of one response have the same size, so a result is a number of rows; a
size is a number of bytes with the envelope, the column names, the reasons and
the warnings as constants or parts of a source. `Answered` is the request with
its row limit (one more than wanted for SQL, the limit itself for Power BI),
`Capped` is `capRows` and the same loop in `sampleTable`, `DropRow` one round of the
loop at line 643 and `Deliver` the size check of the whole result. Errors of kind
`limitLike` are errors whose text matches `TRUNCATION_PATTERN` though nothing was
truncated; the code takes them for truncation, and so does the model. The module
shares a module of proofs with `DisposableModel`, which is why its specification
is called `RowsSpec`.

### TmslCodec

Both forms of a model, TMSL and ModelSpec, are sets of objects with a kind, a
table, a name and the set of those optional fields that are not left out; a field
has its TMSL name in both forms. `Supported` is the strict schema of `model.bim`
(one field, `unknown`, stands for all it refuses), `Convertible` the refusals of
`bimToModelSpec`, `InSchema` and `Valid` those of the ModelSpec schema and of
validation that the codec depends on. `ReadObject` and `WriteObject` say for each
object which kind and which fields come out on the other side; they differ between
a regular table, a calculated table and a calculation group, which is where a
mistake would hide. `Read`, `Edit`, `Store` and `ReadBack` are the four moments of
`apply_model_changes` at which the codec is used; the edit is any set of models
given by `Changes`, of which only the valid ones are stored. Fabric is taken to
keep a definition as it was sent (what happens otherwise is in `ModelChanges`),
and references between objects are in `ModelEngine`. Values are passed on but for the
white space around texts, which the schemas trim. It is modelled (`texts`,
`Trimmed`) because it is lost in every rewrite and decides whether two names are
the same (`Distinct`). Line endings, the split of an expression into lines and the
order of set-like collections, which ADR 0003 calls canonical (lines 39-41), are left out.

### DisposableModel

A script is the sequence of its steps; `Steps` has one list for each of the four.
`knows`, `believed`, `deleted` and `error` are its variables `semanticModelId`,
`currentName`, `deleted` and `primaryError`. Three of the four call the server's
tools, clean up through them and, if that fails, fall back on the service in the
same process (`BeginCleanup`, `BeginFallback`); `live-model-lifecycle` uses the
service from the start and has one cleanup (`Direct`). `ReadName`, `CheckName` and
`Delete` are the two reads and the request of a deletion, `CheckListing` the look
at the listing that two scripts take, `Search` the search by name that all but
`live-direct-lake` make when they have no identifier. `Unanswered` is what may
become of a request that fails for the script: nothing, its effect, or its effect
later (`CarryOut`). `RefreshStatus` is `getRefreshStatus` with both fields a
refresh may have its state in. `excuse` records what kept the cleanup from the
model, so that `CleanupReachesTheModel` says what may be left behind and why.

## 3. Runs

| Run | Shows | Bounds |
|---|---|---|
| `token_cache` | single flight, no abandoned promise, no expired token served, `clear()` final for what follows it, every waiting call answered | 3 calls over 2 audiences: two that race, one that must not be affected; clock to 2 with lifetimes 0 (already expired) and 2 and offset 1, so tokens are fresh, due and expired; one `clear()` per audience |
| `http_retry` | at most one effect for mutations, what each result implies, termination, refinement of `DeliveryContract` | 2 retries: a first, a middle and a last attempt |
| `model_changes` | what a call sends, what its results and the retryable flag of its errors mean, that it ends, against changes by others | 1 call, 3 outside changes (any other call is one of these to it: calls share nothing but the definition), poll budget 2, 4 definitions over 2 objects, requests that apply, preview, change nothing, are stale, are refused; both modes |
| `item_lifecycle` | the other four mutations between two calls and an outside change | 2 calls of any tool, one existing item and one free identifier, 1 outside change |
| `measure_cycles` | every cyclic model reported, only cycles reported | all graphs of 3 measures in 2 tables with bare and qualified references: the smallest with a cycle beside a path into it |
| `model_engine` | the copy stays in order after every change; deletes and renames keep every binding they have not left to the author, also when a name is freed and taken again | batches of 3 changes: free a name, take it, and one more; a model of four tables with every kind of object and of reference; renames of any object to a free name and to that of any object of its type, of its table, or of a table or group |
| `listing` | what a walk guarantees in a stable and in a changing collection | collections of 3, 2 and 0 items, pages of 1 and 2, 2 upstream pages at most, 2 changes, 1 failure: a full last page, an empty one, an offset beyond the end, a token of the other collection |
| `workflow` | row results: cuts are announced and never needless; scripts: what success means, what may be left behind, refresh verdicts, every script ends. One query first, then one script: the two share no state | queries: 0 to 40 rows in 1 or 2 streams, 4 row limits, rows of 30 to 2000 bytes at the smallest output limit, 1024: no cut, a cut by each limit, a row larger than any result; scripts: all four in full, time for 2 polls (one that finds the refresh running, one that finds it over or not), every request may fail in every way |
| `codec` | what is written is read back, only listed losses, parts kept | a plain table, a calculated one and a calculation group with every kind of object; each object with none, one, all but one or all of its fields, or with white space around its texts; one object too many or too few; every kind of bad part; one edit of any object |
| `lost_update` (violation) | finding 1 below | 2 calls, otherwise as `model_changes` |
| `reorder` (violation) | finding 2 below | as `model_engine`, one change |
| `lossy_rewrite` (violation) | finding 3 below | as `codec` |

Two actors are enough for the races (one call and outside changes, or two
calls): each property is about one call and whatever happens to the shared state
around it, and another call or an outside change is that whatever. Deadlock checking is off everywhere because calls end
and the system may rest.

Findings:

1. `lost_update`: `docs/adr/0004-safe-fabric-lifecycle.md:54` says concurrent
   changes are not silently overwritten. The code compares hashes on its own side
   and then replaces the whole definition unconditionally, so a change made
   between the read and the update is lost. What does hold, and is proved, is
   `SubmitsEditOfExpected` and `ExpectedWasLive`.
2. `reorder`: `tests/unit/model/normalize-diff.test.ts:12` and
   `docs/adr/0003-deterministic-model-engine.md:40` make the order of calculation
   items part of a model, and the hash covers it. The semantic diff does not: an
   update that only reorders items (or only changes the letter case of a table
   name) counts as no change, and `apply_model_changes` reports it completed
   without writing it.
3. `lossy_rewrite`: the repository's `README.md:401`, ADR 0003 (lines 46 and 61) and
   ADR 0004 (line 62) say that a definition with unsupported or unmapped fields is
   refused before it is replaced. A calculation group is the exception
   (`codec.ts:225-265`, `565-597`): a hidden one becomes visible, its column keeps
   only tag and annotations, and its partition becomes a new one, in an update of
   something else. TLC's trace drops the description of such a column. What does
   hold, and is proved, is `LossesAreKnown`: besides white space around texts, row
   numbers, level ordinals and a column type that does not fit its table, these
   are all.

Known limits without a run of their own:

- `deleteSemanticModel` compares the confirmed name with the name it read and then
  deletes by identifier, so an item renamed in between is deleted all the same.
  What holds is `DeleteIsConfirmed`: the name was the item's at some moment since
  the call began.
- `runDax` trims a result to the output limit (`mcp-workflow-service.ts:643`) and
  then adds the field `responseBytes` (line 652). A result within 21 bytes of the
  limit is refused with `TOOL_OUTPUT_TOO_LARGE` (line 886) although
  `tests/unit/mcp-workflow-service.test.ts:283` says that DAX output is capped by
  its size. `RowResults` follows the code; `NoneLeftOutInVain` is about what is
  delivered.
- An error raised after the update was sent, accepted or stored may be flagged
  retryable: a state request or read-back that failed (`http-client.ts:185`,
  `371-373`), a token for one (`identity.ts:117`), an operation that Fabric calls
  retriable (`semantic-model-service.ts:855-859`). No document says what the flag
  tells the caller of a tool, so this is no finding; but it must not be read as
  "nothing was applied". A repeated call is caught by the hash gate unless the
  definition is, or is again, the expected one (`SubmitsEditOfExpected`,
  `ExpectedWasLive`).
- A reference that the dependency check leaves to the author can be bound to
  something else by the rest of the batch without leaving anything dangling, so
  that neither the check nor the final validation sees it: a measure of
  `copy` refers to `copy[key]`, `copy` is renamed (`dependencies.ts:131` skips the
  references of a table to itself), and another table with a column `key` takes the
  name `copy`. The references that can meet this are those in `waived`;
  `BindingsKept` says that there are no others.
- `live-direct-lake` does not look for a model whose creation yielded no
  identifier, and no script finds a model that is created after its search.
- `live-model-lifecycle` says in line 494 that the cleanup status "is reported
  below"; it is printed only when the script succeeds.

What the walk of `Listing` does not promise is part of its properties: an item
added in front of the offset makes one come twice (`NoRepeats` excludes it), an
item removed there makes one be skipped (`NoGaps` excludes it).

Fairness. `TokenCache` assumes that a credential request settles and that ready
microtasks run. `HttpClient` and `ModelChanges` assume only that the client keeps
running: an abort timer ends every wait for a reply and `setTimeout` every sleep.
Nothing is assumed of Fabric, so its operations may run for ever. `MCWorkflow`
assumes that every call of a script ends, by its own time limit, and that the query
in front of it is answered. The poll loop of
`ModelChanges` has a fairness condition of its own, so that no failing state
request is what ends it: it must end because its budget is spent.

## 4. Proofs

The proofs hold for every value of the constants that meets the named
assumptions: any number of calls, audiences, definitions, requests, and any
retry limit, budget or offset.

- `TokenCacheProofs`: the invariant ties `pending[a]` to the one call that began
  an acquisition for `a` and has not run its `finally` yet. `SingleFlight` is not
  inductive without it: a second acquisition begins only when nothing is pending,
  and that says nothing about flights unless each flight is pending.
- `HttpClientProofs`: `FutureUnsent` (attempts not reached were not sent),
  `LoopControl` (a mutation never leaves attempt 0) and `EffectsExplained` (an
  effect comes from a handled attempt) carry the safety properties and the
  refinement: each client step reports or stutters, each service step is an
  effect the contract allows.
- `ModelChangesProofs`: `WireFollowsStage` ties the update request to the part of
  the call, `ReadsAreLive` says that whatever a read has yielded, or its finished
  operation holds, was live since the call began or sent. The hash gate and the
  meaning of a completed call follow.
  `NotAppliedIsFinal` and `RetryableIsUnambiguous` need that too: a result or an
  error is fixed when the call ends, the request may travel on, so the invariant
  must say which requests were never sent and which were answered before the end.
- `ModelEngineProofs`, on `ModelEngine`: the invariant is `TypeOK` with
  `BindingsKept`, both inductive together. `Tree` is what a change relies on and
  has to restore: parts below their parents, orders that list the items, unique
  keys. `CreateTree`, `UpdateTree`, `DeleteTree` and `RenameTree` show it for one
  change each, over lemmas about the order of items (`AppendName`, `RemoveName`,
  `ReplaceName`). For the bindings, `DenotesCases` opens a reference by its kind,
  `TargetLeft` and `PartLeft` compare the reading of the validator with that of
  the dependency check: if a reference means the target of an unobjected change,
  or a part of it, the reference is one of those left to the author, or a bare
  measure name that a rename of the table does not touch. `DeleteKeeps` and
  `RenameKeeps` follow, and with them that a step preserves every binding but the
  ones it waives. `PartLeft` needs that a role filters only tables that it has a
  permission for, since the check finds the permission and not the bare column
  in the filter.
- `ModelEngineProofs`, on `MeasureCycles`: `PathOK` says that the stack is a path
  in the graph and holds exactly the measures in `visiting`; so a measure met again
  on it reaches itself. `Explored` says that, while nothing is reported, what a
  visited measure depends on is visited and no set of visited measures is circular;
  with `Covered` that is the whole graph at the end. `SearchDecides` joins the two
  modules: for a model whose measures are the input of the search (`Searched`), a
  finished search has reported something exactly if `NoCircularMeasures` is false.
  `CycleIsCircular` is the half that the run does not check: the measures from
  which a reported one can be reached are a circular set.
- `ListingProofs`: `Stable` says that while nothing changes everything read and
  listed is a beginning of the collection. `Behind` and `Coming` are the two
  halves of what an offset still means later: what has been listed is gone or at
  or before the offset (unless something was inserted), and what has not been
  listed is in hand or beyond it (unless something was removed). Neither the read
  in progress nor the offset alone is inductive; `Distinct` ties them together.
- `WorkflowProofs`, on `RowResults`: `Explained` and `Tight` carry the two
  properties through `Capped` and each `DropRow`; `Arrived` is the assumption that
  Power BI reports its own limit.
- `WorkflowProofs`, on `DisposableModel`: the lemma `StepsKnown` says where each
  script creates its model (`CreatePlace`) and starts its refresh (`RefreshPlace`).
  From there on the identifier is known (`IdentifierKnown`), and past the poll
  without an error the refresh has completed (`RefreshFollowed`). `OkMeansDone`
  is not inductive without these, nor without `StepsFollowed`: a script without an
  error has done all its steps. `CleanupFollowed` says what the cleanup may rely
  on: a deletion it has noted is one, and a name it has read for the last time is
  the model's unless `excuse` says otherwise. A request carried out late can
  disturb each of these, so `CarryOut` has the longest case of the proof.
- `ItemLifecycleProofs`: `HistoryIsComplete` says that an item's present state is
  among those it has had since the call began, and so is what the call has read;
  with `WireFollowsStage` and `StageFollowsTool` this gives the meaning of completed
  and refused results and the two action properties. `Undisturbed` follows a
  property update that nobody disturbs from its read to its verification: the item
  is as read until the update arrives and as wanted after that; a mismatch thus
  needs somebody else.
- `TmslCodecProofs`: the core is the lemma `RoundTrip`, reading what was written
  gives the same model, for every model that validation accepts, object by object
  and kind by kind; `ConvertsBack` and `StoredIsReadable` add that it is not
  refused, `WrittenEditable` that what is written has the names of the model. `PhaseOK`
  carries it through an edit. `RestoredInGroup` and `RestoredInTable` are the other
  direction, what reading and writing does to an object nobody edited; `TrimFirst`
  reduces an object with white space around its texts to one without.

Only model-checked: liveness (`WaitersAnswered`, `RequestEnds`, `CallEnds`,
`ScriptEnds`), as ENABLED and fairness are out of the prover's reach. Every
invariant and every action property of a passing run is a theorem. Proved but not
among the properties of a run: `SearchDecides`, the type invariants of the modules
whose run does not list one, and `RetryableErrorIsHarmless`, `SuccessIsReal` (both
follow from `ImplementsContract` of `HttpClient`) and `EnteredOnce`.

## 5. Plan

Done: the modules of section 2. What would come next, in this order:

1. `ModelChanges` as a composition: its requests as instances of
   `DeliveryContract`, its engine and codec as `ModelEngine` and `TmslCodec`;
   `get_operation_status` after a pending result.
2. The pre-deployment gate: attribution of issues to the selected checks.
3. SQL connections: opened, failing and closed on every path.

## 6. Not modelled

The DAX lexer's character scanning and style rules, configuration parsing,
redaction and logging are pure functions over text, better tested than
model-checked. The pre-deployment gate and the diff tools compare two models and
keep no state. The smoke scripts stop at the first failing read. Express, the MCP
library, `jose`, the SQL driver and Arrow decoding are libraries. The remaining
parts wait for the plan above; `PROJECT.json` says which.
