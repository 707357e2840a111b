# A verification development of the multi-agent review system

The repository reviews papers with a panel of language-model agents: a
LangGraph of editors and reviewers, run by a service, started as background
jobs through an HTTP API, with all model calls going through a router that
retries and falls back. This directory models its parts in TLA+, model-checks
them on small instances with TLC, and proves with TLAPS the invariants of the job
store, the router, the usage summaries, the library and the batch, for instances
of any size, and of the review graph, for every answer of the models; and that the
jobs implement what the API promises, and the graph what a review promises. Paths below are those of the repository (`src/services/...`).

## 1. The system

| Part | State it keeps | Operations | Talks to |
|---|---|---|---|
| Job store, `services/review_jobs.py` | one JSON file per job, one `RLock` per store object | create, get, list, update, append_node_event, delete | file system |
| Job runner, same file | none of its own | create, run, cancel, retry, delete (single and bulk), library and artifact reads and deletes | store, service; is the progress callback of a run |
| HTTP API, `api/app.py` | none; each request builds a runner, hence a store, hence a lock | job endpoints, submissions, progress, library, presets | runner; background tasks in the same process |
| Review graph, `graphs/` | `GlobalState` channels | 15 LLM and non-LLM nodes in the main paths, 19 with all exits | router, parsers, renderer; progress callback |
| Report renderer, `infra/renderers/` | none | the authors' report in three forms, the internal audit | is the last node of the graph |
| Review service, `services/review_service.py` | run directory | `run` | graph, diagnostics, artifact store |
| LLM router and client, `infra/llm_router.py`, `infra/llm.py` | configuration, client registry, `last_usage` of each client | load, complete_text, complete_json | providers over HTTP |
| LLM diagnostics and usage, `infra/llm_diagnostics.py`, `infra/llm_usage.py` | collector per run | record, summarise | router, service |
| Parsers, `infra/parsers/` | none; the MinerU task is the service's | parse with fallback, MinerU polling | MinerU API |
| Batch, `scripts/batch_review.py` | batch directory, counters | run a list of papers in threads | service |
| Corpus scripts, `scripts/*.py` | manifests | import, sample, compare decisions | batch |
| Venues, `core/venue_catalog.py`, `core/venues.py` | files | list, check, load | API, service, graph |
| Presets, `services/presets.py` | one JSON file | list, create, delete | API |
| Settings, prompts, CLI, schemas, frontend | read-only or none | | |

What is hard here: the lock of the store is per object and every request has
its own, so requests and background tasks interleave on one file and one
directory; a write is not atomic; a cancel is advisory; four reviewer threads
share one record, one router and one client per provider; the process may die
with its background tasks, a batch in the middle of its papers; the graph's
exits make the progress bar guess its own length; retries, repairs and fallbacks
nest; an external service answers late or never. `PROJECT.json` lists each
hazard at its line with the properties that watch it.

What makes each part correct:

- **Jobs**: a readable record is never a contradiction (status, error, node
  table, event log); QUEUED means not started; the task's end is visible; every
  job settles, and one whose server died can be settled by a cancel; without
  cancels a client sees queued, running, finished, removed and nothing else.
- **Graph**: the editor decides on the whole panel; reviewers have the editors'
  context; a decision is earned by the path that produced it and published once,
  with a letter and a report that say so; a run ends.
- **Progress**: all work is on the path, the bar never falls, what is next is
  what runs.
- **Router**: the cost of a call is bounded by its policy; the log says what the
  router does, and the summaries made from it add up; tokens are charged to the
  provider that spent them; a rejected output is kept under a name of its own.
- **Parsers and batch**: every selected paper is recorded once, across a kill
  and a restart; the summary is what was recorded; only papers somebody read
  count as accepted; a batch ends whatever MinerU does.
- **Library**: record and directory of a run agree; of two deletions one is
  reported.

## 2. Modules

| Module | Models |
|---|---|
| `JobSnapshot` | the record of a job and the pure updates of it |
| `ReviewJobs` | store, runner, callbacks and requests at file-operation granularity, crashes |
| `JobLifecycle` | abstract: what the API promises about a job nobody cancels |
| `ReviewJobsRefinement` | the refinement mapping from `ReviewJobs` to `JobLifecycle` |
| `ReviewJobsProofs` | the inductive invariant of `ReviewJobs`, and what follows from it |
| `ReviewJobsRefinementProofs` | the event log and the artifacts of a job; the refinement, step by step |
| `JobProgress` | progress path, percentage, active and next node, as operators |
| `ReviewArtifactRenderer` | the reports a run ends with, as operators |
| `ReviewNodes` | the channels, and what each node makes of an answer, as operators |
| `ReviewGraph` | one run: threads, supersteps, edges, failures, the service around them; extends the three above |
| `EditorialProcess` | abstract: what a review run promises; `ReviewGraph` implements it |
| `LLMConfig` | the configuration file: what is accepted, and the chain of models of a call, as operators |
| `LLMRouter` | concurrent model calls over a shared router |
| `LLMUsage` | the summaries of a run's calls, as operators over the router's log |
| `DocumentParser` | the parsing of a paper, with the MinerU service beside it |
| `DecisionAlignment`, `CorpusTools` | the corpus scripts, as operators |
| `BatchReview` | a batch over `DocumentParser`, judged by `DecisionAlignment` |
| `ReviewGraphProofs` | the inductive invariant of `ReviewGraph`, its properties, what its reports say; the refinement of `EditorialProcess`, step by step |
| `LLMRouterProofs` | the routes of a chain; the inductive invariant of `LLMRouter` and its properties |
| `LLMUsageProofs` | that the summaries of any number of calls add up |
| `BatchReviewProofs` | the inductive invariant of `BatchReview` and its two safety properties |
| `Submission` | papers, venues, and what a request must satisfy, as operators |
| `RunLibrary` | the artifacts of runs under requests that list, read and delete them; runs begin with a `Submission` |
| `RunLibraryProofs` | the inductive invariant of `RunLibrary` and its properties; the venues of `Submission` |
| `CountingLemmas` | induction over numbers for sets, and what it says of counting |
| `MCReviewJobs`, `MCLLMRouter`, `MCBatchReview`, `MCRunLibrary` | the instances for TLC (`ReviewGraph` is its own) |

The three large systems, jobs, graph and router, meet in a run. They are kept
apart because each has interleavings of its own: to the job a run is its
callbacks in any order, to the graph a model call is an answer or an error, and
to the router a node is a call. `BatchReview` and `RunLibrary` likewise take a
parsed paper's review, or a job's graph, by its ends.

### ReviewJobs

`file[j]` is what is at the path of job j: nothing, a record, `Empty` (opened for
writing and not completely written) or `Torn` (two writers overlapped).
`Path.write_text` is two steps, `OpenFile` and `FillFile`; an unlinked file's
writer writes to nowhere (`writers` holds the descriptors that are still on the
visible file). `update` is three steps: read, open, fill.

- `worker[j]` is `run_job`: `WorkerCheck` is `_raise_if_canceled` before and after
  the workflow, `WorkerRead/Open/Fill` the update to RUNNING, SUCCEEDED or FAILED,
  `WorkflowSucceeds/WorkflowRaises` how `ReviewWorkflow.run` ends. A read outside
  `run_job`'s try blocks that fails ends the task with "raised".
- `thread[j][n]` is a node's progress callback: `EmitNodeProgress` makes the cancel
  check, `AppendGet/Reread/Open/Fill` are `append_node_event`, which reads twice
  under the lock of the task's store. Whatever a callback raises is dropped and
  the node goes on, as in `_emit_node_progress`.
- `request[r]` is an HTTP request: create, retry, cancel, delete. Each has a lock of
  its own, which therefore excludes nobody and is not represented. Requests that
  are refused change nothing and are left out; bulk deletes are sequences of
  deletes.
- `dir[j]` is the run's artifact directory, removed by `DeleteTree`.
- `Crash` kills the process: tasks, callbacks and requests are gone, files stay.

The run's inside is reduced to its callbacks: any nodes, in any order. The
order of nodes is `ReviewGraph`'s matter.

### ReviewGraph, ReviewNodes, ReviewArtifactRenderer and JobProgress

LangGraph runs in supersteps; this is modelled from how `graph.py` uses it and
marked external in the map. `Start(n)`, `Finish(n)` and `Fail(n)` are the two halves
of `with_node_diagnostics` around a node, in a thread of its own;
`EndSuperstep` merges the writes in any order and follows the edges (the routing
functions read the merged state); `RaiseError` and `Deliver` are the two ends of
`ReviewWorkflow.run`. `nodes` records what each node reported, without loss:
cancels and lost events are `ReviewJobs`' matter.

What a node does is an operator of `ReviewNodes` from the channels it finds and
the answer it gets to the channels it leaves. A model's answer is the word that
is routed on or published, and whether it holds a letter; a review also counts
its comments. `validator_for_prompt` refuses what the pydantic models of
`output_schemas.py` refuse, and a refused answer makes the node fail, as the router
has raised by then. A node also fails when a channel it reads without a default
was never written (`MissingChannels`): `NoNodeMissesAChannel` says that no branch
leads there. Optional parts of answers are chosen where they are first looked
at, by the renderer: all were given, none, or none by the senior editor.

A report is the sequence of its parts, each a title and whose words it has. This
is what `DeliveredRunSpeaks` needs, which compares the two reports with the
published decision, letter and panel: the renderer chooses its form, orders the
reviews and repeats the limits of the validators on its own.

Not represented: `ae_final`, registered without edges; a parser error with an
empty text, which `check_parse_result` takes for a success and `content_check` then
fails on.

### LLMConfig, LLMRouter and LLMUsage

A configuration file is chosen initially from `ConfigFiles`; `Loads` is what
`load_llm_router_config` accepts, and a file it refuses has no behaviour. `ModelIds`
are the names such a file may use, for models it has and for ones it lacks. Which
providers have their variables set is chosen too, and fixed.

One state machine per call: `BeginCall` (the routes), `Resolve/CreateClient` (the
registry check, then set), `PostAnswered/PostFails` and `RepairAnswered` (the
client), `Validate`, `Done`. `HandleError` is the whole except clause with what the
loops do next: retry, fall back, raise, the events logged and the rejected
output recorded. A usage is the set of answers whose tokens it counts, so a
usage that belongs to another call can be told apart; some providers report
none. `LLMUsage` counts what the two calls of the run logged, when both have ended.

### DocumentParser, BatchReview and the corpus scripts

A paper is its kind of file. `Upload`, `Poll` and `Unzip` are the MinerU client, and
`ServiceEnds` the service, on which nothing can be relied. The deadline may pass
before any poll and has passed after `MaxPolls`. `MinerUFails` is every
`DocumentParseError` and falls back to PyMuPDF; `MinerURaises` is what is not one: an
`OSError` of the file becomes an unreadable paper without a second try, and the
other errors make the node fail.

`BatchReview` has `run_batch` as the thread that records rows (`RecordRow` writes the
row, `CountRow` counts it and writes failures), and `run_one_item` per paper: in
the main thread or on the pool, whose workers take the items in their order. A
`Crash` kills both, at any step but not in the middle of one write; the command
is then given again for the same directory, and refused if the batch had
written anything. The counters die with the process, the directory stays. The
papers of a manifest are distinct files, each parsed once. A negative offset or
limit, which the command does not refuse and Python counts from the end of the
list, is left out (`BatchReviewAssumption`).

`CorpusTools` makes the manifests the batches run on, `DecisionAlignment` compares
a finished one with its manifest; `AcceptedPapersWereRead` relates the end of that
chain to its beginning, the parser.

### Submission and RunLibrary

A run begins with a request from JSON, from an upload or from arXiv.
`validate_submission` is what the service refuses. `VenueFiles` is any content of the
two directories of `venues/`, a code may have several files. `ChosenVenueIsRead` says
that the catalog and the loader agree, although one looks at three fields and
the other at the code alone; `Unambiguous` says for which contents that is so.
`MCSubmissionAssumption` has TLC evaluate both on files of each kind shipped, where
they hold, and on the example in the docstring of `venues.py`, where they do not
(section 6); and `UploadsAreAllowed`, that no accepted upload is refused for its
suffix, although the two lists are kept apart.

`RunLibrary` keeps of a record its status and whether it names the directory of
the run, and reads, opens and fills its file in steps, as `ReviewJobs` does:

- `task[j]` is `run_job`: `TaskCheck` its two looks for a cancel,
  `TaskRead/TaskOpen/TaskFill` every update, `StartWorkflow` the submission,
  `GraphEnds`, `WriteArtifact`, `WriteRaises` and `ArtifactsWritten` how
  `ReviewWorkflow.run` ends. The update to FAILED looks for no cancel.
- The callbacks of a run share `task[j]`: up to `Threads` of them have looked for a
  cancel (`checked`), one at a time holds the lock of the task's store and appends
  (`AppendGet/AppendReread`, then as every update). Events themselves are
  `ReviewJobs`' matter, and so are their number and order.
- Two files stand for those of a run, in the order they are written: the report
  and `llm_calls.jsonl`.
- A request is a small program over `step`: bulk deletions and pages go from job to
  job (`NextJob`), record an error or skip it (`Skipped`), or answer. Every check of a
  file and every use of it are two steps, `rmtree` one step per file; a cancel is
  its check and the three steps of its update.

`reported`, `removing` and `canceled` are history: how often each part of a job was
reported deleted, whose directory a request began to remove, and whose file a
cancel opened.

## 3. Runs

| Run | Instance | Shows |
|---|---|---|
| `jobs` | 1 job, 2 nodes, 2 requests (cancel, delete), no crash | the safety invariants and the inductive invariant |
| `jobs_lifecycle` | 2 jobs, 2 nodes, 1 request (delete, retry) | `ReviewJobs` without cancels implements `JobLifecycle` |
| `jobs_recover` | 1 job, 1 node, 2 requests (cancel, delete), 1 crash | every accepted job settles for good unless the server dies; a job it died on settles once it is canceled; a success has its artifacts |
| `graph` | the whole graph, three modes | routing, panel, decision, reports, progress, refinement of `EditorialProcess`, termination |
| `router` | 2 calls, 3 files, 3 models, 2 providers, every choice of configured providers | bounded attempts, faithful log, final errors, accounting, summaries, termination |
| `batch` | up to 3 papers of each kind, 7 command lines, 3 backends, 1 kill | accounting across a restart, accepted papers were read, termination |
| `library` | 1 job, 2 clients, 2 callbacks at a time, 1 crash | record and directory agree, a deletion is reported once, cancels or not |
| `jobs_finished`, `jobs_raise`, `jobs_cancel_seen`, `router_usage`, `library_page` | small | the code departs from what its comments, tests or documents say (section 6) |

Bounds. Two nodes are the least with which callbacks compete for the lock and
one event can be overtaken by another; two requests let a cancel race another
cancel or a delete as well as the task; jobs share nothing but the requests, so
one job suffices for the invariants, and two are needed only for a retry. The
crash of `jobs_recover` can fall at any step; one node suffices there, since a
crash ends all callbacks at once. Node events are not bounded: each node reports
twice at most. The graph needs no bound.

In the router, call c1 has every kind of next route (retry, fallback, a
duplicate that is skipped) and c2 shares c1's first provider but not its
second; one file is refused and one lets a call be refused. In the batch, three
papers are the least of which two run, one waits, and a row is recorded out of
order; the manifests hold every kind of file, a paper listed twice, a missing
path, and what is imported from a dataset with each reason to skip a paper. One
poll (`MaxPolls`) has the service answer before, between and after. Two clients
and one job suffice for the library: requests on different jobs share only the
loops over jobs, which keep nothing of one job for the next. Two callbacks are
the least of which one has looked for a cancel and waits while another writes;
two artifacts, of which one is written or removed and the other is not. A part
is counted as reported up to two times, the least that is too often.

Nodes, jobs, requests and clients are symmetric sets for the safety runs;
liveness and `FairSpec` are checked without symmetry. Deadlock is not checked for
the job runs: when all jobs have ended and their identifiers are used, the
system really stops. It is checked elsewhere: the ends of a run, a call and a
batch are explicit steps (`Over`, `AllEnded`).

Fairness. `ReviewJobs!Fairness` and `LLMRouter!Fairness` are weak fairness of each
thread: the code blocks only on the lock of the store, which its holder
releases on every path, and on model calls, which have a timeout. Whether a
client sends a request is not fair. `ReviewGraph!Fairness` is weak fairness of each
node and of LangGraph's own steps. `BatchReview` has weak fairness of the main
thread and of each worker's own steps (`WorkerGoesOn`); that a request fails is
not among them, and the MinerU service is not fair at all, so that `BatchEnds`
rests on the deadline of the polling alone. `JobsSettle` promises nothing once the
server has died: nothing in the code resumes a job after a restart.

## 4. Proofs

The theorems are about any number of jobs, nodes of a job, requests, clients,
calls, models, rows, threads and crashes; every safety invariant and every action
property that a passing run checks is one. No invariant is inductive as the runs check
it, so each module has a stronger one, `IInv`, that TLC checked first; then one
lemma per action, which states point by point what the action changes and
preserves each conjunct. What is assumed is named; the runs evaluate it.

### Jobs (`ReviewJobsProofs`)

From `ReviewJobsAssumption` alone (the special contents are no records and
differ, names are disjoint) and for any subset of the operations:
`InductiveInvariant`, `RecordsStaySound`, `TypeCorrect`,
`ErrorAlwaysMatchesStatus`, `NodesAlwaysAgreeWithEvents`,
`QueuedAlwaysMeansNotStarted`, `ReturnedJobIsNeverActive`.

A bad record may already be in somebody's hands when it is about to be written.
`IInv` therefore says that every record in a file or held by a writer is sound
(`RecordsSound`, `WritersHoldRecords`); what a file may say given how far its
task is (`FileFollowsTask`, `TaskAims`, `OneCreator`); and, for the mixture that
`append_node_event` writes, that callbacks run only inside the workflow, hold
the lock from their first read to their write, and that a record first read as
CANCELED is still so at the second read (`CallbacksLocked`). That last part is why
the status of the first read and the error of the second fit together: only a
cancel can intervene, it only ever turns RUNNING into CANCELED, and a RUNNING
record may carry any error, while nothing turns CANCELED back while the lock is
held.

### What a job's record tells, and the refinement (`ReviewJobsRefinementProofs`)

- `EventsAlwaysInOrder`. A stale write can bring an older log back, so order in
  the file is not enough: `History` says of every record, in a file or in the
  hands of somebody who may write it again, that its log is ordered and tells
  of no event that is still to be reported, given where the callback of each
  node is (`MayHave`). What a callback appends can then neither repeat an event
  nor follow a node's end.
- `SuccessAlwaysHasArtifacts`. `RunsNamed` says that no record names a directory
  before the task has returned; so a delete that finds one named cannot take
  the directory of a run that is yet to succeed. `Artifacts` says that the
  directory is there from the end of the workflow on, until a delete of a job
  that shows as finished is past it.
- `JobsFollowTheLifecycle`: with neither cancels nor crashes (`"cancel" \notin Ops`,
  `MaxCrashes = 0`, as in the run `jobs_lifecycle`), `Spec => ImplementsLifecycle`.
  `Undisturbed` says that then a job has one writer at a time; every file
  operation becomes a step of `JobLifecycle` or a stutter (`Moves`). `Shown` is
  what is read of a job while its file is being rewritten.

### The library (`RunLibraryProofs`)

From `RunLibraryAssumption`: `InductiveInvariant`, `TypeCorrect`,
`RecordsAgreeWithFiles`, `DeletionsReportedOnce`. A record that is read may be written
again long after, over a cancel or over nothing, so `IInv` says of each job
(`JobSound`) what its task is to write, given how far it is (`Aims`); that files are
in a directory, and none before the graph has ended (`FilesInDir`); that no record names the directory
before all of it was written (`DirectoryNamed`); that the record of a job nobody
canceled is finished only when its task writes no more, so that what is unlinked
then is the last one (`LastRecord`); and that an artifact reported deleted is gone
and was so once (`ArtifactsReportedOnce`). `Follows` says of each request what it has
read and may therefore do: it works on artifacts only of records that named
them, although its check and its use are two steps. What a cancel spoils is said
where the properties say it (`canceled`), and nothing else is taken from them.

`VenueOfTheChoice` is about every content of `venues/`: `ChosenVenueIsRead` if and only
if `Unambiguous`. From left to right it names, for each way to be ambiguous, a
submission that is accepted and reads no file, several, or another's.

### The review run (`ReviewGraphProofs`)

`ReviewGraph` has no constants, so the proofs need no assumption and TLC's check
of it is exhaustive already; they say why it comes out as it does, and their lemmas
about reports hold for any number of reviews and any parts.

`IInv` says where the run is and what that tells of everything else. `AtItsPlace`:
the nodes merged so far are exactly those that come before the node, or the four
reviewers, the superstep is made of. `Routed`: which exits and editors were
visited is what the channels the routers read say. `NodesTell`: a report of a node
fits how far its thread is, and an answer passed its validator.
`ChannelsWritten`, `Decided`, `StagesNamed`: a channel is set if and only if the
nodes that write it are merged. `ReportsAdded`: the panel has one report of each
reviewer, in some order; `InOrder`: in the canonical one once delivered. The
properties read the channels and the reported nodes at different times, before
and after a merge; only the place of the run ties them together.

Each node has a lemma on what its writes leave of the channels (`SeCheckLeaves`,
...); `SuperstepMerged` is that the merge of a superstep leaves the same whatever
the order of the four reviewers; `SuperstepMoves` follows the edges. From
`Invariance`: `Spec_TypeOK`, `Spec_EditorHasWholePanel`, `Spec_ReviewersHaveContext`,
`Spec_NoNodeMissesAChannel`, `Spec_StagesNeverReplaced`,
`Spec_DeliveredDecisionIsEarned`. Of the progress, which is guessed from the
reported nodes alone: `Spec_DeliveredRunDidItsPath`, `Spec_PathShowsAllWork`,
`Spec_NextNodeIsCurrent` and `Spec_PercentNeverFalls`. For the last, the path stays as it is until an exit starts (`PathKept`); when one
does, its place tells which nodes are done, and they are no smaller a share of
the path that is shown from then on (`ExitStarts`).

`Spec_DeliveredRunSpeaks` needs `Spoken` beside `IInv`: no report is short, the
editors' report has a letter, every exit leaves one, and what the last node
rendered says all of it. The lemmas it rests on say of each form of a report what
it opens with, which letter it carries and whose words its parts have
(`AuthorReportSays`, `AuditSays`), by joining its parts one at a time
(`FlattenJoined`), for the reviews in the order `sorted_reports` puts them
(`SortedFrom`). That the service sorts the same reports again changes nothing
(`SpokenDelivered`).

`RunFollowsTheProcess`: `Spec => ImplementsProcess`. The merge of a single node is a
step of `EditorialProcess` or a stutter according to the node
(`NodeMergedFollows`), that of the panel is one step (`SuperstepFollows`), and so is
the delivery (`DeliverFollows`); whatever happens in threads in between is a
stutter.

### The router (`LLMRouterProofs`)

`RoutesAreTheChain`: a chain that names a model twice still asks it once, with the
attempts of its first place. From `LLMRouterAssumption` (attempts are numbers,
names are names): `InductiveInvariant`, `TypeCorrect`, and the eight properties of
the run `router` about the log of a call: `AttemptsAreBounded`,
`LogIsTrue`, `FatalErrorsEnd`, `RaisesWhenExhausted`, `UsageOfTheProvider`, `UsageOfTheCall`,
`RefsResolve`, `NodesAreServed`. `IInv` relates the log to where the call is: how often
each route was started and failed (`Counted`), what the last event is
(`LogTells`), that the action of every error was taken (`ActionsTaken`), that a
model which failed for good is behind (`FatalIsPassed`), whose tokens a client
holds (`ClientFits`, `UsageFits`, `UsageIsSpent`), and that the files of rejected
outputs are numbered without gap or repetition by all calls together
(`ErrorsNumbered`, `RefsOwn`).

### The summaries (`LLMUsageProofs`)

From `LLMRouterAssumption` and `LLMUsageAssumption` (the calls are finitely many,
the limit of the timeline is a number): `RunAddsUp`. Sums over events are avoided:
two counts agree when their events can be told off against each other
(`ToldOff`). `LogAlternates`, which is inductive with the router's `IInv`, says that
every attempt is followed in its call's log by how it ended, and that every
attempt but the first follows the error or the fallback it makes up for; so
starts match results (`StartsSettle`), attempts match calls, retries and fallbacks
(`AttemptsFollow`), and answers match calls that returned (`AnswersReturn`). That
the groups of a breakdown add up to the total is an induction over the groups
(`GroupsAddUp`).

### The batch (`BatchReviewProofs`)

From `DocumentParserAssumption` and `BatchReviewAssumption`: `BatchStaysSound`,
`SummaryAlwaysAccountsForAll`, `AcceptedPapersWereAlwaysRead`. `IInv`: an empty
directory before the request, and an untouched one for a command that is
refused (`StartsEmpty`); a thread returns a row of its own item, and accepts only
what was parsed (`ItemReturns`); the rows are those that recorded items returned,
none twice (`RowsAreItems`), in their order if there is one thread (`InSequence`);
counters, failures and decisions are those of the rows counted (`Accounts`);
`fail_fast` stops at the first failure and nothing else stops a batch (`Stops`);
PyMuPDF is asked after MinerU (`ParsersInOrder`). That all items are recorded when
the position is past the last one is a pigeonhole argument: as many rows as
items, each of another item. That the decisions are sorted follows from the
ranks of finite sets of numbers (`CountingLemmas`).

`CountingLemmas` replaces the induction theorems of the library, which take a
predicate, by `SetInduction`, which takes the set of numbers that have it.

Some definitions were found wanting by these proofs: `Shown`, `BatchStatus` and the
choices of `ReviewArtifactRenderer` had CASE guards that overlap, of which TLC takes
the first and TLA+ takes any. They are disjoint, or IF and ELSE, now.

### Only model-checked

- Liveness (`JobsSettle`, `AbandonedJobCanBeCanceled`, `RunEnds`, `CallsEnd`,
  `BatchEnds`) and `ENABLED`, which the installed provers do not handle.
- What a recursive definition computes for all data, which would need induction
  with an operator parameter; no module uses RECURSIVE.

`RunLibrary!TypeOK` and `BatchReview!TypeOK` are stated for the proofs, and no run
has them among its properties.

## 5. Plan

1. Done: jobs, graph with nodes and renderer, progress, router with
   configuration and usage, parsers, batch and corpus scripts, submissions and
   library; the proofs of all their safety invariants and action properties, and
   of both refinements.
2. Left: liveness stays with TLC. Worth stating next are lemmas about `JobProgress`
   for any list of nodes and not only the graph's (the bar never falls as events
   are added), and a model of presets and of the HTTP schemas (section 7).

## 6. Where the code departs from what is said of it

- A finished job is canceled (`FinishedJobIsNotCanceled`): cancel decides on one
  read, its update reads again and completes whatever it finds. A cancel found the
  job active, the task's workflow raised and it wrote FAILED, and the cancel's
  update turns that record into CANCELED.
- The background task raises (`TaskNeverRaises`): its reads of the job file are
  outside its try blocks.
- A canceled job starts nodes (`CanceledJobStartsNoNode`): the exception with which a
  callback reports the cancel is discarded.
- A call reports another call's tokens (`UsageIsOwn`): usage is kept in the client.
- A library page fails while a run is being deleted (`PageSurvivesLostArtifacts`): a
  `FileNotFoundError` between two looks at a directory is not among the errors that
  make it skip the run.

What the properties of the library exempt is what the code does not keep after a
cancel. A job that was canceled can be deleted while its task runs, as the record
names no directory yet; the task may then write FAILED with the directory, or
fill a file it had opened, so that the directory is left behind and the record
that was reported deleted comes back (`RecordAgreesWithFiles` and
`ReportedDeletedOnce` name the exemption, `canceled`). No document promises otherwise.

`PROJECT.json` quotes the lines on both sides. Smaller ones were met on the way
and have no run: a catalog laid out like the example in the docstring of
`core/venues.py`, with one code in both directories and in several collections,
makes a submission that chose the UTD or FT50 venue read the CCFA file, as the
loader looks at the code alone (`~Documented!ChosenVenueIsRead`; the files shipped
have no such code); the docstring of `infra/parsers/auto_parser.py` has
`mineru-standard` use MinerU only, `_should_try_pymupdf` says otherwise; a missing
`configs/llm.yaml` is raised as a `FileNotFoundError` in `doc_parse_node` and
delivered as the rejection of an unreadable paper (`DocumentParseError, OSError,
KeyError`); the internal audit is "not for the authors" for its stage outputs,
which the authors' report of an unreadable paper lists, too
(`review_artifact_renderer.py:63`, `:153`); the suffixes the service accepts are a
constant of its own, while those of the API can be widened by a variable.

## 7. Not modelled

- Presets: one file, read and written whole by each request with a lock of its
  own; concurrent creates lose one, which is listed as a hazard.
- Prompts, most settings, HTTP schemas, CLI: texts, values read once, and the
  shapes of requests and answers. The download of papers: I/O of one request.
- The mock client and the extraction of JSON from a model's text: functions of
  text, for which the repository's tests are the better check.
- The contents of files, limits of library pages, times and prices.
- The frontend and its smoke tests, and the Coze program under `reference/`, which
  nothing here imports.
- `POST /api/reviews` runs the whole review inside the event loop, so no other
  request is served meanwhile; the event loop is not represented.
