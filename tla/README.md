# Specifications of acceptance-review

TLA+ modules that model the parts of this repository that decide, in
concurrent or multi-step ways, what a review says; the TLC configurations that
check them on small instances; and TLAPS proofs of what matters most for every
instance.

Paths below are under `src/acceptance/` of the repository unless they say
otherwise. `PROJECT.json` lists, for each definition, the lines of code it
translates, and for each property the mutant of the model that breaks it.

## The system

A review takes a task file and a range of revisions, and says of each
requirement whether the change delivers it and whether the tests would notice
if it did not. One process runs the stages of `pipeline.run_review` one after
another; inside a stage, threads ask a model many independent questions.

| Component | State it keeps | Operations | Correct when |
|---|---|---|---|
| `concurrency.map_calls` | a work queue, worker threads, one future per item | submit, take, begin, finish, collect, cancel, close | same answers, order and exception as the loop it replaced; nothing outlives it |
| `llm_batch.MessageBatcher` | under one lock: the queue, the table of waiting futures, whether a thread is gathering; one thread per batch | `send`, gather, create/poll/read a batch, settle | every caller is answered, with the answer to its own request |
| `llm.ModelClient`, `TranscriptStore` | one file per request key; the calls of this run | look up, call, validate, record, observe; RECORD/REPLAY | only validated replies are served; a finished recording never changes |
| `config.provenance_for`, `usage` | none: read off the observed calls | controls and models in force, rows by stage, footer | what a run says of its determinism and cost is true of its calls |
| `execution.sandbox`, `execution.netblock` | a process-wide pool of numbered slots; per run a process group and an append-only report | run, collect, stop, read, fold | slots are neither shared nor lost; a run says what was observed, and returns |
| `mutation.baseline` | usable tests, set-aside tests | collect, run in place, run in a copy | no test lost without a reason; a later red test is the edit's doing |
| `mutation.runner` | per defect: candidates asked, set aside, used | ask a builder, check, copy, run, classify | one attempt per defect, and a record its validators accept |
| `mutation.verification`, `mutation.verdicts` | attempts, verified or not | verify, turn into verdicts, route | execution is claimed only for verified edits |
| `defects.pair_mapping`, `pair_ranking`, `reachability` | verdicts and unjudged records of pairs | prefilter, ranked walk in two passes, judge | every pair recorded once; no saving moves a rating |
| `requirement.task_file`, `registry`, `spans`, `summary` | none: the task file as it is | route blocks, number requirements, locate a quotation, check a division | nothing a person asked for is dropped unsaid |
| `requirement.obligations` | per run: obligations, questions, a disposition per requirement | one call per requirement, divide the summary, reconcile | every requirement is accounted for |
| `requirement.linking` | the answers on pairs | propose, ask or reuse, merge, relink | merged only what was confirmed; nobody points at what is gone |
| `requirement.claims`, `synthesis` | rulings, synthesized obligations | rule on each sentence, build, cite | only claims are cited |
| `carry`, `requirement.carry`, `requirement.ledger` | one ledger entry per run, on disk | decide, plan, write, read | nothing stale is reused; what is on record stays |
| `review_store`, `rerun` | one review per revision, on disk | choose the prior review, put, compare, take over advice | the nearest readable one; no advice of another defect |
| `change.*`, `evidence.discovery` | none | change set, touched definitions, candidate tests | what is pointed at is in the change |
| `defects.enumeration`, `taxonomy`, `support` | defect sets | ask or carry, count, classify | a set that is reused still describes the change |
| `coverage.*` | coverage, findings, dispositions of changes, prescriptions | resolve questions, classify, detect, prescribe | an uncovered defect gets a test, a caught one does not |
| `verdict`, `evidence_tier`, `review_state` | none | derive a verdict, bound it, explain it; validate records | the one positive verdict is earned; what is stored can be read back |
| `report`, `recommendation`, `cli` | none | run the two commands, render their pages | the page supports its headline and leaves nothing out |
| `benchmark.scoring`, `alignment`, `defect_scoring`, `instability` | none | align, count, pool; compare runs | a score is a share of what it names; no order of runs matters |
| `providers`, `jev` | none | one provider call; a pair read as a probability | only a probability is decided by |
| `partition`, `supplied_ids`, `request_blocks` | none | split a request, check ids | |
| mutant corpus builder, benchmark corpora | data sets | build, load | |

How they interact: `cli.run_check` chooses the review to build on and calls
`run_review`, which calls the stages; a stage hands its items to `map_calls`;
each worker calls `ModelClient.complete`, which reads the transcript store and
else calls a provider adapter; with batching on, the adapter's `send` blocks on
a future of the shared `MessageBatcher`. `run_mutations` hands defects to
`map_calls` too, and each worker runs pytest through the sandbox in a copy of
the project, where the slot pool is shared by the workers and the control run.
Attempts become verdicts in `mutation.verdicts`; the rest of the pairs are
asked by `judge_pairs`; `derive_support` and `recommend_tests` read the
outcome. The review is stored, then the ledger entry; the next command reads
both.

Where it is hard: cancellation racing workers in `map_calls`; the lock
boundaries of the batcher, futures shared by callers with one request, retries
beside batches still being settled; kills in the middle of a recording and
several writers of one file; process groups, budgets and runs that end
anywhere; the savings of pair judging, each of which is undone under some
condition; ids that are minted by one run and reused by a later one, while the
file, the change and the tool move under them; a decomposition that is put
together from separate answers, merged, and then cited by everything after it;
two files written one after the other. `PROJECT.json` "hazards" lists them at
their lines.

## Modules

A specification `X.tla` that is checked has an `MCX.tla` that gives its
constants values, a `.cfg` per run, and its proofs in `X_proofs.tla`; those of
`Check` begin in `Records_proofs`, which `Check_proofs` extends, and
`Provenance` is checked by `MCModelClient`. A definition whose comment starts with "Mutant:" is used by no
specification: put in place of the one it is a variant of, it is a plausible
bug that breaks a property.

### SerialStage and MapCalls: `concurrency.py`

`SerialStage` is the abstract specification: the loop `[call(item) for item in
items]`, which stops at the first failure. `MapCalls` is the code: below two
items or with a limit of one, the inline loop; otherwise a
`ThreadPoolExecutor`. The calling thread (`main`) submits every item, collects
the answers in input order, raises the first failure it meets, cancels what
has not begun, the last item first, and waits for the workers when it leaves
the `with` block. The executor is the standard library's and modelled by that
much of it. A worker takes an item off the queue (`Take`: `work_queue.get()`)
and only then begins its call (`Begin`: `set_running_or_notify_cancel()`), with
no lock around the two. In between its future is still pending: another worker
may begin a later item, and the calling thread may cancel this one, which the
worker then drops (`Drop`), as it does an item cancelled on the queue. So what
a stage that raises has asked about is not always a prefix of the input.
`AskedInTurn` says how far it is from one: before an item that was asked about
fewer are left out than there are workers, and none up to the failing item.
`ImplementsSerialStage` is the refinement: a stage's answers and exception are
the loop's, for each set of failing items and each interleaving.

### MessageBatcher and BatchedCalls: `llm_batch.py`, the retry loop of `llm.py`

`MessageBatcher` has an action per critical section or API call: `Send`,
`Gather` (the swap of the queue, then one thread per batch), and per batch
`Read` (one result settled), `Sweep` (what the results did not mention),
`Fail` (any exception, at any point). A future is named by the attempt that
created it. Time is abstracted to "the queue may be found quiet at any
moment". `BatchedCalls` EXTENDS it with the threads: the `_call_provider`
retries, with failures before anything is sent.

### ModelClient and Provenance: `llm.py`, `usage.py`, `config.provenance_for`

Several runs share a store. A call looks its key up, calls the provider,
validates, opens the file (which empties it) and writes it; runs may be killed
between any two steps and replaced by another in either mode, with other keys
set. A call that has to be made live is stopped before it is sent, in this
order, where the key of its model's provider is not set (`unkeyed`,
`MissingKeyError`), and where the provider would drop the reasoning effort it
asks for (`unhonoured`, `ControlNotHonouredError`): the first goes by the
providers whose keys the run lacks (`keyless`), the second by what each model
honours. Two calls of one
key may miss it together and write it one over the other; what a longer
earlier write leaves behind the end of a shorter one is a file that does not
parse. A transcript's contents are one of `Answers` (of which `Older` were
recorded by an earlier version and lack some figures), `Bad` (does not
validate) or `Partial` (does not parse).

`Provenance` EXTENDS it with what the client notes of each call once it has
its answer (`observed`), and has as operators what a run derives from that:
the controls each provider applied, those all stages agree on, the models and
the partition sizes in force, whether the run is called pinned; the models a live run is warned of at its start
because it lacks their keys; and the bill by stage, by label and by kind of
provider. A figure a recording may lack is
`None`, never 0.

### Sandbox: `execution/sandbox.py`, `execution/netblock.py`

Each run has a caller (`run_tests`) and processes. Locked down, pytest leads
its own group and needs no slot; under a test command the leader is a shell
with pytest as its child, and the caller holds a numbered slot from
`pool.get()` to the `finally`. `Terminate` and `Kill` are the two rounds of
`_terminate_group`: a signal is sent only while the leader is there, and the
second round's grace ends the wait whether it died or not. A case has three
phases, which end in any way a phase can (`Ends`; a refusal by the network only
where the block is installed, which is where there is no test command), and the
plugin notes of each what it says of the case: the call alone can pass it, a
skip is no verdict, and the first that is not a pass stays (`Noted`). pytest
appends one line per finished case (`Lines`); a line cut short is skipped by
`_read_report`, so it equals a line never written. `Fold` is
`_fold_parametrised`; a test of which nothing was written gets the reason why
(`WhyUnreached`), and `Outcomes` is what the validators of an outcome accept. A
process that was signalled may die of it or not, in any order, and pytest may
go on writing after its run has returned.

### Injection: `mutation/baseline.py`, `mutation/runner.py`, collection in `sandbox.py`

First the control run: joint collection, else file by file, largest first
(`Admit`; each a pytest of its own, `CollectsOnce`), a run in place with its own file-by-file fallback, a run in an
unmodified copy (`Mirror`). Then one defect's attempt: the builders in turn,
the fallback last; a candidate is refused before its run, or its copy fails,
or it is run and classified; a model may also decline, or claim that the
defect is there already, which a repair then tests. `Record` builds the
`MutationAttempt` and lets its validators (`Accepts`) refuse it. An edit's
text is abstracted to whether it is usable; a run under it gives each usable
test any of: passed, failed on what it checks, failed on code that does not
load, not seen to end. Two assumptions: pytest's collection is deterministic,
and a set of files that collects still does without some of them (failures
come of one file, or of files that collide).

Attempts of different defects share nothing but the slot pool and go through
`map_calls`, so one attempt is modelled here and their concurrency in
`MapCalls` and `Sandbox`.

### PairJudging: `pipeline._run_execution_tier` to the recommendations

`Inject` (any attempts an `Injection` may end with: `Reportable`), `Verify`,
`Route` (verdicts by execution, the prefilter, the pairs held back), `Round`
(the walk's next tests of each uncovered defect, each distinct question asked
once), `Revisit` (what the first pass left, and the held-back pairs of defects
it found no kill for), `Finish`, `Rate` (the classes, `derive_support`'s check
of "already covered" pairs, the recommendations). Similarity is a given
ranking, reachability a bounded choice of excluded pairs. A question has the
verdict that a continued run left on it (`prior`), or is put to Jev, whose reply
must be a probability and decides above and below two limits (`Decision`), and
between them to a model, which may say nothing usable.

The block of the report on pairs is read off the records: where each defect's
pairs went (`PairDisposition`), the mark of an injection that is not counted,
and the line that stands for all the pairs a covered defect was spared
(`CoveredLine`).

A pair of a settled defect and a test that the control run set aside has
neither a verdict nor an unjudged record. The code means this (the test was
not run, and the defect is decided); `EveryPairIsRecordedOnce` names it as its
one exception.

### Check and what it is composed of: `cli.py`, `pipeline.py` and the stages

One specification in two layers, on modules of operators:

    Lists <- Linking, Mandate, Change
    Linking <- Claims                          Change, Linking <- Coverage
    Mandate <- Carry                           Change, Carry, Claims,
    Carry, Claims <- Decompose                   Taxonomy <- Enumeration
                                               Coverage, Enumeration <- Verdict
    Verdict <- ReviewState                     ReviewState, Reviews <- Report
    ReviewState, Claims, Mandate               Report, Mandate <- Scoring
      <- DecompositionPage                       <- Instability
    Decompose, DecompositionPage, Instability <- Check

State is in `Decompose` and `Check` alone. The calls of a stage are concurrent,
but their answers are used in order (`MapCalls` implements `SerialStage`), so a
command is sequential here; what is hard in it is the long sequence of legal
steps, over several commands.

`Decompose` is `cli.run_decompose`, and the reading of the task file as
`pipeline.run_review` begins with it. `StartDecompose` takes the next command;
`PlanCarry` (`requirement.carry.plan_carry`) decides what the run takes from
the ledger entry it continues; `AskAbout` is one requirement's call and what
`_parse_requirement` makes of the answer; `DecideSpans`, `AskSpan` and
`SummaryDone` are the division of the summary and the calls on its uncovered
spans, before which each carried disposition is built anew and may fail its
validator; `Reconcile` puts the decomposition together and may refuse it; `Link`
asks about pairs or reuses what is on file, merges, and rewrites the
dispositions; `Record` writes the ledger entry; `BuildClaims` and `Synthesize`
are the second reading, by claims, which a decompose does last and a check
first. Its operators:

- `Lists`: sequences of records with ids, how they are filtered, looked up in
  and freed of repetitions.
- `Mandate`: the sections of a task file, its requirements and their ids,
  where a quotation is, which divisions of a summary are refused. A text is a
  sequence of sentences; the normalisation of words is abstracted to equality.
- `Carry`: `decide` and its refusals, the request key of a requirement, which
  records are carried, revised or removed. A text has one key wherever it
  stands, except that a summary has another where its stage runs on a model of
  its own (`apart`), which it does not by default.
- `Linking`: pairs, components of confirmed pairs, of which only complete ones
  are merged, what becomes of dispositions.
- `Claims`: how ids are minted, which units are claims, what may cite them.
- `DecompositionPage`: `render_decomposition` and the lines on what was
  carried, with the wording left out.

`Check` is `cli.run_check`: `StartCheck` chooses the review it builds on and is
refused, crashes or begins; the reading as in `Decompose` follows; then
`ResolveQuestions`, `EnumerateDefects`, `JudgeDefects` (the outcome of
injection and judging, which `Injection` and `PairJudging` have in full),
`ClassifyCoverage`, `DetectUnrequested`, `PrescribeTests`, `StoreReview` and
`RecordCheck`, in the pipeline's order. Any command that is marked so may fail
at a call (`CallFails`) or be killed at any step (`Kill`); killed while it
writes, it leaves a torn review or ledger entry. Nothing a process held
outlives it. The histories of commands are given: the file may be edited, the
tool updated, the change or the head moved between two of them.

- `Change`: the change set, with what git and the ignore rules leave out; the
  definitions it touches; the candidate tests under the budget of files.
- `Coverage`: what each stage makes of answers that name hunks, also hunks that
  are not there.
- `Enumeration`, `Taxonomy`: who is owed a defect set, when a stored one is
  carried, the checklist of a type, the evidence class of a set.
- `Verdict`: the standing of an obligation, the precedence, the bound by what
  was not read, and the reasons given.
- `ReviewState`: the records of a review and of a ledger entry and what their
  validators refuse, when they are read back; who may claim which tier.
- `Reviews`: the stored reviews, the predecessor among them, what moved, what
  advice is taken over.
- `Report`: `render_report` and `recommendation.lookup`: which line is written
  in which variant.
- `Scoring`, `Instability`: the benchmark's arithmetic, on the reviews `Check`
  stores. A share is the pair of its two counts.

## Runs

Nothing is bounded in the models but what the constants bound: `MaxAttempts`
and `MaxFilesScanned` are limits of the code, `MaxBatches`, `MaxKills`,
`MaxPrefiltered` and `Histories` bounds of the model.

| Run | Instance | What it shows |
|---|---|---|
| `map_calls` | 0 to 4 items, limits absent, 0, 1 and 2, default limit 3, any failing set | `NothingOutlivesTheStage`, `AskedInTurn`, `ImplementsSerialStage`, `StageEnds` |
| `batched_calls` | 2 threads, 2 requests (the same or not), 2 attempts, batches of 1 or 2, at most 4 batches | `NoCallIsStranded`, `AnswerIsForTheAsker`, `SettledOnce`, `EveryCallEnds` |
| `model_client` | 2 runs, one with 2 threads, 4 keys (3 completions, one with an effort its model drops, and 1 embedding; 3 models of 2 providers, any of whose keys may be unset), a current and an older recording, 1 kill, any number of re-runs | `OnlyValidatedRepliesServe`, `RecordingIsFinal`, `AccountsAreOfTheRun` |
| `check` | 17 histories of up to 3 commands, 12 task files, 4 checkouts, 2 revisions and the working tree, up to 4 answers to each question | what follows the table |
| `pair_judging` | 2 defects × 2 tests with the same text or not, 1 defect × 3 tests; width 1; no stop, stop at 1, at 2; every on/off of verification and routing; replies on either side of both limits, between them and past 1000; a carried verdict or none | `EveryPairIsRecordedOnce`, `SavingsMoveNoRating`, `ExecutionIsVerified`, `ReportAccountsForEveryPair`, `OneAnswerPerQuestion`, `EveryReviewIsRated` |
| `injection` | 4 tests in 3 files (one file with two), every hereditary family of files, 1 or 2 candidates and a fallback or none, breadth check at more than 1 and more than half | `LittleIsLost`, `EveryTestIsAccountedFor`, `RedIsTheEditsDoing`, `GreenIsFullyObserved`, `NoRecordIsRefused`, `AttemptEnds` |
| `sandbox` | 2 runs, 1 slot, with and without a test command, a test of 2 cases and an id without any, every end of the 3 phases of a case | `SlotsAddUp`, `OutcomesAreReported`, `EveryRunReturns` |
| `batched_calls_spurious`, `pair_judging_advice`, `injection_passed`, `sandbox_fold` | as above (one run in `sandbox_fold`) | the findings below |
| `check_dropped` | one file that grows by a requirement, decomposed twice | the finding below |

What `check` shows:

- Of a decomposition: `EveryRequirementIsAccountedFor` (also after merges),
  `MergedMeansConfirmed`, `PageLeavesNothingOut`. Where one id is given twice,
  once to something carried and once to something answered (finding 2), they
  say what the code still keeps: the disposition's id is there, of one of the
  two kinds.
- Of what is carried: `NothingStaleIsKept` (over any number of runs that only
  carried: the run goes back along a chain of entries to one that was answered,
  all of one text, request and logic), `RegionsAreReal` (what a review or a carried defect set points at
  is in the change, and reads as it did), `EveryGapHasAdvice` (also of advice
  taken over), `LedgerIsFinal`.
- Of a verdict: `CleanIsEarned`, `PageBearsTheHeadline`.
- Of the records: `ReviewsReadBack`. The code copies records with other
  fields, unvalidated, so a record that is refused would be found only by the
  next command, which crashes on it. Only a record that lost an id to something
  of the other kind (`Displaced`) is such a one. `Displaced` asks the records,
  not the obligations, for the id: the obligation that took it may have been
  merged into another since, and its record keeps it.
- Of the benchmark: `ScoresAreShares`, `MovementIsWatched`,
  `OrderOfRunsIsNothing`.
- `EveryCommandEnds`, below.

Type correctness is proved, not run: a `TypeOK` is among the first things the
proofs establish of each specification. Deadlock is checked in `model_client`,
which never stops, and in `check`, which stops only when no command is left;
the others model work that ends.

Why the bounds are enough to meet the interesting cases: two workers and four
items give a queue that outlasts its workers, so cancellation can race a
worker that takes the next item; two attempts of two threads with one request
give a joined future, a retry beside an unfinished sweep, and 4 batches are as
many as 4 attempts can fill; one kill suffices since only the store survives
it; a stage that embeds and completes, with a model of its own that honours
one control of two, is the least that divides controls from models. Three
tests at width 1 give two rounds, of which the second is wider than what is
left; three files give a collision that is not between neighbours in the
order, and four tests a largest file; two runs at one slot contend for it and
get it from each other. A third command is the first that can carry what was
itself carried; two checks are the least that give a prior review, and a
killed first one a missing or torn record; the histories of `check` are chosen
so that texts, requests, logic and changes move one at a time, and in them
every admission of a check, every way for a command to end, all five verdicts,
carried, revised and torn records, and an id that is given twice, to a carried
question and an answered obligation or the other way round, occur. An input's answers are few, so
`check` shows a combination of stages and not a search over texts. What the
instances cannot show (larger pools, more callers, longer walks, other
histories) is where the proofs come in. `sandbox` with three runs and two
slots is beyond what TLC finishes in minutes; `SlotsAddUp` is proved for any
number.

### Fairness

- `MapCalls`: the calling thread steps when it can, some worker does when one
  can, and every provider call returns (clients have timeouts, retries are
  bounded).
- `BatchedCalls`: threads are scheduled; the queue goes quiet, since a blocked
  thread sends nothing; each batch ends, as the provider expires what it has
  not done within a day.
- `PairJudging`, `Injection`: sequential stages whose calls come back.
- `Sandbox`: only the callers. Tests and processes owe nothing:
  `EveryRunReturns` rests on the budget and the two graces alone. Weak
  fairness is enough for `queue.get`, as each run takes a slot once.
- `Check` assumes none. `EveryCommandEnds` is an action property: each step
  makes a tuple of counts (`Left`: commands, place in the pipeline,
  requirements, undivided summaries, spans) smaller in the lexicographic order,
  so no command goes on for ever, whatever it is answered and however often it
  fails.
- `ModelClient` states no liveness.

## Findings

Each is a run that states what the repository's own text says and finds it
violated by the code as modelled.

1. `batched_calls_spurious`, `llm_batch.py:215`. After its results, a batch
   fails every future waiting under any id it was sent with "no result". The
   sweep goes by the whole request table, so the future of a retry, or of a
   second thread's identical request, that was created after the batch had
   answered the first one is failed too, while another batch carries it.
2. `check_dropped`, `requirement/obligations.py:1130`. The docstring at 1407
   says "Nothing is dropped". Fresh ids are made distinct from each other and
   not from those of carried obligations: a requirement that is added to a file
   and answered with a slug a carried obligation has as its id is given that
   obligation, and its own is gone. The order keeps one set of ids for both
   kinds, so a question and an obligation of one id displace each other too, and
   the ledger's record, which `_derivations` makes "holding the same obligations"
   (`obligations.py:1446`), loses what was displaced with them; when that was all
   the record had, its tag no longer fits it, and the run that carries it is
   refused by `RequirementDisposition`'s validator.
3. `pair_judging_advice`, `pipeline.py:651`. Recommendations are asked with
   the judge's verdicts only; a defect that a verified injection showed a test
   to catch counts as uncovered.
4. `injection_passed`, `mutation/verdicts.py:108`. Of a killed attempt, each
   test that was run and did not fail is said to have passed, also one that
   timed out or never started.
5. `sandbox_fold`, `execution/sandbox.py:493`. A parametrised test whose run
   ended after some passing cases and before the others is reported as passed.

Without a run, met while reading (a run of each would restate the code):

- `execution/sandbox.py`: under a test command, `_terminate_group` sends
  SIGKILL only if the shell outlives SIGTERM. A child that heeds no SIGTERM
  goes on after the shell has died and the slot has been given to the next run,
  though the docstring says "without leaving anything executing behind it". In
  the model it is the state with `"pytest" \in alive[r]` after `Release(r)`.
- `llm.py:204`: `concurrency.py:44` says "Nothing half-written survives". The
  transcript is written in place; a run killed in `write_text` leaves a file
  that makes every later run raise (`Partial`). A review is written in place
  too, and a torn one ends every later check that scans the store.
- `defects/enumeration.py:354`: a carried defect set keeps defect ids that were
  made of the obligation's earlier id, and a fresh set of the obligation that
  has that id now is given the same ones. Ids of defects are not unique.
- `verdict.py:141`: gaps are matched by description; of two obligations with
  one description, an addressed one can be named as not implemented.
- `report.py:83`: `by_obligation` keeps the last prescription of an obligation,
  `recommendation.lookup` the first. `report.py:716`: the block on what was not
  read is shown only if some requirement yielded nothing.
- `rerun.py`: `carried_recommendations` keeps the earlier review's obligation
  id; nothing calls `derivation_changed`.
- `usage.py:13` calls `run_spend` the bill. A rejected reply, a retried attempt
  and a call whose recording failed are paid for and not observed. A stage with
  a model of its own that also embeds under the same label
  (`requirement/linking.py:303`) is left out of `stage_models_in_force`.
- `benchmark/alignment.py:13`: matches are keyed by description, so an
  obligation that was stated twice is counted once and costs no precision.

## Proofs

Every theorem is of the form `Spec => []P` or `Spec => [][A]_vars`, for all
values of the constants under the named `ASSUME` of its module; TLC evaluates
that assumption in each run. No fairness is used. The shape is the same
throughout: an inductive invariant (`IInv`, or `Inv` in `Records_proofs`), a
lemma that `Init` gives it, a lemma per action or group of actions that it is
kept, and the theorems as consequences.

- `MapCalls_proofs`. `IInv` adds to the types: a call is running exactly when
  one worker is in it, and a pending one is on the queue or held by a worker
  (`PoolInv`); what is on the queue comes after what was taken from it, and
  nothing after a cancelled item still waits (`OrderInv`);
  what was collected is a prefix of the input, all of it answered
  (`ResultsInv`); what each place of the calling thread implies (`MainInv`); and
  before an item asked about fewer are left out than there are workers
  (`TurnInv`). From it: `TypeCorrect`, `NothingOutlives`, `InTurn`, and
  `Refinement`, in which each step of the pool is a step of `SerialStage` or a
  stutter. `TurnInv` is kept because the items passed over when a call
  begins are each held by a worker of their own, other than its own
  (`Overtaken`), and no item begun is ever left out again.
- `BatchedCalls_proofs`. `IInv` is of the batcher alone, for callers that may
  do anything: one thread gathers exactly when the flag says so, and it does
  whenever something is queued (`GatherInv`); calls not made yet have no
  future (`FreshInv`); the table holds the pending futures and no others, each
  under its request, which is queued or carried by a batch that still owes it
  (`TableInv`). `NoneStranded` and `SettlesOnce` follow. `CallsAreCalls` shows
  that the threads use the batcher as its `Spec` allows, so both hold of them,
  and `AnswersReachTheirAsker` adds that the future a thread waits on was
  created for its request.
- `ModelClient_proofs`. Only validated replies are held by calls past
  validation, and no file is `Bad`: `OnlyValidated`. `RecordingsAreFinal`:
  once a file is whole and the calls that missed it are over, each later call
  of its key is answered from it, so that state is never left. `AccountsHold` is
  of `ProvenanceSpec`, whose steps are the client's (`NotedCallsAreCalls`). Its
  invariant `PInv` adds to the client's what is noted of a call (`Noted`): only
  an answer is noted, as the provider's only in RECORD; and a recording of an
  earlier version is never replaced, so that everyone who has its answer says
  the same of the controls. The rest is of one state. A sum is the library's
  `MapThenSumSet`, a CHOOSE of a recursive function: that there is one
  (`AddsExist`) and one only (`AddsAgree`), and that the order of adding is
  nothing (`TakingAny`), gives `SumPlus`, `SumSplits` and `SumOfParts`, by which
  the rows, the labels and the two bills come to what the calls cost
  (`EveryCallIsInOneRow`, `LabelsCostNoMore`, `FooterAddsUp`). That the controls
  of a run are those its stages agree on is `OneValueByGroups`.
- `Sandbox_proofs`. `TypeOK` alone is not inductive: that what goes back to
  the pool is a slot follows from `SlotsAddUp`, and the two are kept together.
  `ReportedAsWritten` is the action property of `Fold`, and `LinesSayWhatWasSeen`
  says of a line, whatever its phases were, that it is a pass only if all three
  were and names the network only where it was blocked.
- `Injection_proofs`. `SearchInv` is the loop invariant of the file-by-file
  collection: what was admitted collects, each file tried and left out would
  not with it, what is left comes later in the order. With heredity, a file
  refused by a smaller set is refused by the larger one. `ControlInv` divides
  the tests in two, `AskInv` counts candidates.
- `PairJudging_proofs`. `BeforeInv` (nothing is recorded before the pairs are
  routed), `QueueInv` (what is still to be asked or held back is of an
  unsettled defect and has no record), `RecordInv` (a settled defect has the
  verdicts of its run and no others; each other pair is recorded once or still
  to come), `SavingInv` (a pair is left unasked only for a defect the judge
  found a test to catch, which is why no answer to it could move a class),
  `SaidInv` (a verdict by reading is what was said to its question). For
  `ReportIsWhole`: only what was offered is recorded (`OfferedInv`), and what a
  defect has left to ask, or was spared, ranks below every test found to catch
  it (`WalkInv`), which a round keeps because it takes the pairs of the first
  places. That the counts add up is then a partition of the tests by their
  records. `NeverRefused` is what `derive_support`'s check of the
  pairs comes to.

The proofs of `Check` are built up of invariants that each rest on the ones
before, so each is kept by a lemma of its own.

- `Records_proofs`. `Inv` has the shape of the commands, of the ledger and of
  the run, and `Unwritten`: a run that has not recorded yet has an empty entry
  at the ledger's end, and no run writes elsewhere. `LedgerKept` follows.
  `LeftShape` adds that what is left to do is in lists; under it each action
  makes `Left` smaller, which is `CommandsEnd`. `ReadShape` has what an answer,
  a plan and a record are, and that every disposition is backed
  (`Backed(disposition, GivenOs, GivenQs)`): what it names was answered or is
  carried. `ReconciledAccounted` and `LinkedAccounted` take that through the
  registry order and the merges, where the collision of ids has to be followed:
  `RequirementsAccounted`. The module ends with the ids: `Minted` gives each
  candidate another id that was not taken, for which the candidates of a whole
  answer and the least free number have to be shown to exist.
- `Check_proofs`.
  - `MergesAreConfirmed`. Until it is linked a decomposition `Stands`: no two
    obligations have one id, and what was derived for a requirement is there and
    is named. `Link` keeps or merges along complete components, in which every
    two were confirmed (`SurvivorsAre`, `ConfirmedAre`).
  - `NothingStale`. `Planned`: what is carried is what `Carried` takes from the
    entry that is continued, through to the end of the reading. `Keeping`: each
    carried record of the ledger is taken from an entry before it, under the
    same text, request and logic, with the spans that could still be located.
    The runs it goes back to exist by induction on the place in the ledger.
  - `CleanEarned`: a review says "no material gaps" only if every step of
    `RolledUp`, `Bounded` and `Support` it went through had nothing against it,
    which the lemmas `RolledUpClean`, `StandingClean` and `SupportClean` invert
    one by one; `ReviewsChange` shows that reviews are written by `StoreReview`
    and by nothing else.
  - `GapsAdvised` needs what `PrescribeTests` leaves behind (`ConcludingStep`:
    what was prescribed and what was not obtained are together the pending
    defects) until the review is made.
  - `TypeCorrect`; what matters of it is that a check never builds on a review
    that could not be read.
  - `RegionsReal`. `Regions`: what is known so far points at hunks of the change
    the run looks at; the defect sets of a ledger entry are `Grounded`, with a
    digest for each region, so that a set is carried only where it still
    `Reads` the same; the sets of a stored review read as its own change has
    them. `NoneIsIgnored` is of `ChangeOf` alone.
  - `MovementWatched`, `OrderIsNothing`. `Compared`: of every review on record,
    what is counted (obligations, questions, verdicts) is finite, its classes
    and statuses are of the same obligations, and the one just stored is the
    one that was put together, so that its delta is the delta to the review it
    builds on. What changed is then a subset of what was watched, and what moved
    a class is what the delta has. That two orders of two runs count the same
    is a bijection of votes (`SameCount`, `SameDistribution`).
  - `ReviewsAreReadable`. `Typed`: the obligations of answers, plans, records
    and of the ledger are of the types the validators know, through
    reconciling, merging and deriving. `Found`: so is what is found of the
    change and of the claims. `Claimed`: a disposition of the decomposition
    has what its tag claims, and the record of a requirement says what its
    disposition says unless that one is astray (`RecordStands`); merging takes
    no requirement its claim. `WrittenAsMade`: the entry at the end of the
    ledger has the records that were made. What `StoreReview` puts together of
    all this is read back (`ReviewReads`).
  - `ScoresHold`. `Tallied`: of the review on record what a score counts is
    finite, and each review is `Countable` (a positive verdict has no gap among
    its findings). The rest is about pure functions: `KeptFit`, that a matching
    that is kept pairs no label and no statement twice, so that what is matched
    fits on either side; one lemma for each family of figures; and, of two cases
    added up, that a figure the second says nothing of is the first one's.
  - `PageHolds`. `Decomposed`, itself a theorem: from the moment it is put
    together a decomposition has a record for each requirement, of its text and
    of a known kind, and some set of requirements accounts for what the
    continued run had and this file has not (`PlanRewords` while the calls are
    made, `RecordsReword` after); the entry just written has these records. The
    counts on the page are then counts of blocks (`OnlyCounts`,
    `BlocksCounted`, `KindsAddUp`, `SentencesAddUp`), and nothing is left out of
    the blocks because every disposition is of a requirement
    (`NothingIsLeftOut`).
  - `HeadlineBorne`. `Rated`: once classified, coverage is known of exactly the
    obligations there are to classify, the open questions are among those asked,
    a prescription is owed only for what owes tests, and the review just stored
    is the one that was put together. `Separate`: the obligations of the file
    have ids of their own, through minting, carrying and merging, and what is
    judged is theirs and the derived ones. Then each step of `Standing` and
    `RolledUp` is matched with what the page shows of the obligation
    (`StandingSure`, `SureStanding`, `GapsShow`). The theorem has a hypothesis,
    `DerivedApart`: an obligation derived from a question has an id of its own.
    The code does not see to that: `derived_obligation_id` appends
    "as-implemented" to a question's id and asks for no other obligation with
    that id (`coverage/open_questions.py:200`), and an answer that settles one
    question twice derives two with one id. Of two that share an id the page
    and the verdict have the status and the class of the first, and the line of
    the second need not agree with the headline. TLC found no state of the run
    `check` in which two obligations share an id.

The assumptions are on what is given from outside: the commands
(`HistoriesAssumption`), what git answers (`ChecksAssumption`: files with lists
of hunks), the mandates (`MandatesAssumption`: a file has a name, and a block
that is no heading is read as lists of sentences), the labels of a case
(`CasesAreRunnable`: what the corpus loader validates), and the answers, which
come in the shape the response schemas ask for (`RepliesAssumption`,
`AnswersAreLists`, `MatchesAreLists`). `RulingsAssumption`: each sentence of a
file gets a ruling, since `_apply` gives one to those the answer passes over
(`requirement/claims.py:176`). `AnswersAreTyped` says that a value
the schemas enumerate is one of the enumerated: the type and the evidence of an
obligation, the ruling on a claim, the status of coverage
(`requirement/obligations.py:380`, `claims.py:73`, `synthesis.py:126`,
`coverage/classify.py:145`, all strict models that refuse another value before
the answer is seen). Nothing else is assumed of what an answer says.
`ProvenanceAssumption` has the settings (`RunConfig`), finitely many calls, one
row for each stage (the pipeline's, then the others by name), and that a
recording's amounts are not negative, as a provider's are not; a stubbed
provider could record others, which `_number` would add up all the same. `Lists` writes filters with `FlattenSeq`, and extends functions
with `With`, because the provers know no definition of `SelectSeq` and `@@`.
The induction theorems of the library take an operator and cannot be used;
`Counting`, of a set that holds 0 and with each number the next, can, so what a
recursive function or a fold does is shown through the set of the places up to
which it has done so.

Only model-checked:

- `StageEnds`, `EveryCallEnds`, `EveryReviewIsRated`, `AttemptEnds`,
  `EveryRunReturns`: liveness, which TLAPS does not prove here, nor anything
  with ENABLED.
- The findings, which are single behaviours.
- `PageBearsTheHeadline` where an obligation derived from a question shares an
  id with another (see `HeadlineBorne`): there it need not hold, and the runs
  have no such answer.

## What is not modelled

- Text: prompts, schemas, diffs, edit bodies, wording; `evidence.extraction`
  and the context retrieved around a hunk; the context a jev request carries.
- Time: budgets and graces are events that may come at any moment; pauses of
  retries are steps.
- `Thread.start()` failing in `MessageBatcher._gather`, where the flag is up
  and no thread would gather; an OS out of threads.
- The check of jev's own key, at its first live call (`jev.py:164`); the
  warning at the start of a run is not about it.
- The log of unusable answers and the findings drawn from it. Unusable judge
  answers validate and are recorded as transcripts; `PairJudging` has them as
  answers ("unusable").
- The sandbox's environment and import roots.
- The coding agent's subprocess and the changes it records; `Injection` has
  what its builder may answer.
- The execution tier inside `Check`: there each defect is caught, not caught
  or unanswered. `PairJudging` and `Injection` have what leads to it.
- Commands that write nothing (`diff`, `classify`), `set-test-command`, the
  parsing of options; of a declaration, all but that there is one and how it
  compares.
- `partition`, `supplied_ids`, `request_blocks`: pure functions on lists of
  items and ids. `Provenance` has the partition sizes a run reports.
- Of the report, the block on mutants; of a review's records, the
  test evidence and the change as stored; of its provenance, the record of the
  linking prefilter.
- Of the benchmark: corpora on disk, the runs themselves, mapping accuracy and
  the counts of tests by obligation, twin splitting, the disclosure of
  variance. The mutant corpus builder and `docs/experiments`, which are offline.

## Plan

What is left, in order:

1. `Reportable` of `PairJudging` from `Injection`'s invariant, and the choice
   in `JudgeDefects` from `PairJudging`'s: the composition of the execution
   tier with the review, as lemmas.
2. The log of unusable answers, and the block of the report on mutants.
3. `partition` and `supplied_ids` against their reference definitions, over
   bounded inputs.
