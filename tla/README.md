# Codewatch in TLA+

Specifications of the `codewatch` repository: the command line tool that indexes
a code base, audits it and asks a reader to triage the findings
(`packages/`, `plugins/`), and the benchmark harness in which agents clean and
fix code under its control (`bench/scbench/`). The modules here model the parts
that keep state, run concurrently or must survive a failure. TLC checks them on
small instances; TLAPS proves theorems about the core for every value of the
constants.

## 1. The system: inventory

For each part: the state it keeps, its operations, how it interacts, what is
hard, and what makes it correct. The third column of the table in section 3 says
where it is modelled.

### Benchmark: the cleanup runner (`bench/scbench/runner`, `ledger`, `gate`, `planner`)

* **Runner** (`run.py`, `schedule.py`, `session.py`). State: the current tree,
  the plan, the set of tasks done, the shared record `Run` (spent dollars, held
  sessions, estimate, behind a lock), one lane per task, the ledger. Operations:
  plan, start a wave, reserve, session, charge, judge, retry, splice and
  integrate, append rows, plan again. Lanes are threads of one pool. Hard: the
  lanes interleave on the cap; a lane that raises; rows of earlier runs over the
  same directory. Correct: one row per task, the tree holds exactly what the
  ledger calls kept, no kept helper is undone, the overrun of the cap is bounded.
* **Integration gate** (`integrate.py`): splices the accepted lanes and runs tests
  and diffgate on the whole; on failure looks for a subset that passes. Correct:
  what it keeps passed as a whole; one bad lane costs only itself.
* **Splice** (`splice.py`): places lanes' segments in a common tree, the first
  claimant of a symbol winning; a lane that cannot be placed is a conflict. Pure.
* **Ledger and rules** (`ledger/`): append-only `ledger.jsonl`; the rules stale,
  repeat and reinlined decide from rows and the current tree. Hard: digests that
  change under a kept row.
* **Final gate** (`gate/`): tiers T0-T3 over one task's change. External verdict.
* **Planner** (`planner/`): targets, recipes and ranks from the snapshot. Pure.
* **Container and prompts**: docker calls and text.

### Benchmark: fixing, agent, PR flow (`remediation`, `agent`, `prflow`, `review`, `synthesis`)

* **Fix stage** (`remediation/`). State: the hidden git repository of the
  workspace (branch, commits, uncommitted files), the cached snapshot the ratchet
  compares with (`Fixer.current`, `stale`), records, a copy of the workspace.
  Operations: per item session, commit or amend, tests, ratchet or admission
  gate, reviewer, revert or keep, branch and merge for phase 3; stop at the
  deadline or after three reverts for one cause; reset, restore, drop the copy.
  Hard: the amend loops, the stale snapshot, exceptions out of any step, a kill.
  Correct: see `FixPromise`.
* **Stage-hook agent** (`agent/`): runs the stages before and after the
  benchmark's own solver (repo init, PR open, inject; commit, audit, triage,
  review, fix, synthesis), with a launch deadline; a stage that raises is
  recorded and does not stop the next.
* **PR flow** (`prflow/`). State: a hidden git repository over the workspace, with
  `main`, one branch `cp-N` per checkpoint, and HEAD; refs of the graph database
  scoped to a branch. Operations: repo-init, pr-open (which first merges a branch no
  stage merged), commit-ratchet, the merge into `main` from refs alone. Hard: stages
  skipped, failed or killed leave edits uncommitted and branches unmerged; main and
  HEAD move in two steps. Correct: no work is lost; `main` holds the state through
  checkpoint N-1; the ratchet compares with where the checkpoint started.
* **Solve review** (`review/`): one review and one resume of the solve, amended or
  restored. Correct: the solve is never taken out, triage's fragment never touched.
* **Synthesis** (`synthesis/`): ratchets again, records taste, merges the branch, folds
  verdict fragments into the head file. The fold can be cut short between any two files.
* **Differential gate, analyses, experiments** (`diffgate`, `analysis`, `c239`,
  ...): recordings and reports; pure or I/O.

### The tool (`packages/cli`, `packages/core`, `packages/render`, `plugins`)

* **Triage** (`commands/triage*.ts`). State: verdicts in `graph.db` per snapshot,
  fragments per run id in the committed verdict directory, `audit/verdicts.jsonl`.
  Operations: carry forward, select, reuse committed verdicts, bundle, read, verify,
  two saves, fragment, outputs. Hard: a crash between any two of them, a rerun under the
  same id, an edit while the reader is asked, a rebuilt `graph.db`.
* **Verdict files** (`triage-persist.ts`, `carry-format.mjs`, `fold.py`): one
  format, three readers (the CLI, the session hook, the fold job).
* **Audit** (`commands/audit*.ts`). State: none of its own; findings go into
  `graph.db`. It indexes, tells what a diff changed of interfaces, error sites and
  parameters and which consumers feel it, and takes a census of what the tests feed
  each entry point. Hard: many partial readings of one syntax tree that must agree.
  Correct: a change that can break a caller is told, and nothing else.
* **Graph index, check, prune** (`commands/graph*`). State: `graph.db` with its `-wal`,
  databases renamed aside, the work tree, the last commit. Operations: index, check
  against `previous` and against refs, prune, the pre-commit and post-commit hooks.
  Hard: no lock; a rename in two steps; a snapshot taken while the tree is edited; an id
  that is pruned after it was chosen. Correct: old databases survive, no violation lands
  that nothing has seen.
* **MCP servers** (`mcp/`). State of the HTTP daemon: a token file per port, one read
  handle, a session map. Hard: a second start on the port; a question whose snapshot is
  pruned, or whose file is renamed aside, before its rows are read. Correct: the token in
  the file opens the daemon that listens; an answer is whole or says so.
* **Hooks and plugin** (`plugins/`, `commands/hook*.ts`). State: managed blocks in two
  hook files a user edits too; the session-start hook's two runs of the CLI and its
  deadline. Hard: a write cut off, a hook that cannot be read, children that never
  close. Correct: the user's lines stay; the editor gets exactly one document in time.
* **GitHub ingest and file cache** (`packages/core`). State: files cached by key, a run
  through pages of commits. Hard: every request may fail, the program may die inside a
  write of the cache. Correct: the corpus is the listed commits' files, each once.
* **Quality evaluation** (`eval/`). State of the coding evaluation: one clone, the suite
  file, an index for each parent commit, ledgers of tokens. Hard: agents' edits, test
  patches and lockfiles that leak from one candidate or arm into the next; flaky and
  crashed test runs. Correct: each run starts from its own parent's tree and
  dependencies; an edit is resolved only if the right tests pass.
* **Style profile** (`commands/init.ts`, `update.ts`, ...). State: `profile.json` and
  `config.json` of the home directory. Operations: init, update, the review of fresh
  rules, compare. Hard: two commands at once, each reading at its start and writing the
  whole file at its end. Correct: nothing unreviewed is stored.
* **Metrics, reports, rendering, dashboard** (`commands/graph-*`, `packages/render`,
  `src/dashboard`). State: the script of a page (filters, selection, view, query) and the
  dashboard's address. The rest are functions of one or two snapshots. Hard: the same
  fact told by several commands and views; clicks in orders nobody tried; Back and
  Forward. Correct: they agree, and what is hidden or dimmed is what the filters say.
* **Diagnostic scripts** (`scripts/diagnostic`). State: per prompt the files answer,
  code, check, judge, which an earlier run of the version may have left. Hard: a pool of
  tasks that race, leftovers, a death half way. Correct: no score is newer than the answer
  it is filed with.

## 2. Plan

Most important behaviour first. Steps 1 to 8 are done but for what the last paragraph
of this section says.

1. `RevertSearch`, `Integrate`, `CleanupRun`: the cleanup run, its cap, ledger and
   tree; `CleanupRunProofs` and `IntegrateProofs` prove what matters most about them.
2. `VerdictFiles`, `Triage`, `TriageProofs`: the life of a verdict over crashes, retries, folds.
3. `FixPromise`, `FixStage`, `FixStageProofs`: the fix stage and the abstract promise it implements.
4. `PrFlow`, `PrFlowProofs`: the agent's stages and deadline over the hidden repository,
   composing the PR flow, the promise of the fix stage (`FixPromise`, not `FixStage`),
   the solve review and synthesis.
5. `SnapshotRefs`, `GraphStore`, `McpDaemon`, `McpDaemonProofs`: the snapshot store, its commands and git
   hooks, and the daemon over it.
6. `SessionHook`, `HookBlocks`, `Ingest`, `DiagnosticRun`, `CodingEval` with `CodingScreen`
   and `CodingGrade`, `CodingLedger`: programs with a state of their own; `WorkbenchProofs`.
7. `GraphViews`, `GraphPage`, `DashboardApp`, `StyleProfile`: pages and the profile;
   `PageAndProfileProofs`.
8. `ArchViews`, `AuditContract`, `AuditInputs`, `TriageReader`, `GraphQuiz`, `PatchPlaces`,
   `CodingArms`, `Dashboard`, `GraphQueries`, `DashboardViews`: the pure analyses, as operators
   checked over enumerated inputs.

Left: of the benchmark, the splice's claims and order, the ownership of shared callees
and the plan's waves, as algorithms; the early skips of the fix stage. Theorems still
wanted: those of the pure analyses, which are only model-checked (section 6).

## 3. The modules

| Module | Code | Contents |
| --- | --- | --- |
| `RevertSearch` | `runner/integrate.py` | the candidates of the revert search, as sequences |
| `Integrate`, `IntegrateProofs` | `runner/integrate.py` | the search as a process against a failing gate; theorems |
| `CleanupRun`, `CleanupRunProofs` | `runner/run.py`, `schedule.py`, `ledger/rules.py`, `columns.py` | the whole run; theorems |
| `VerdictFiles` | `triage-persist.ts`, `carry-format.mjs`, `synthesis/fold.py` | head, fragments, what a reader reads, the fold |
| `Triage`, `TriageProofs` | `triage*.ts`, `audit*.ts`, `fold_job.py` | triage over `graph.db` and the files; theorems |
| `FixPromise` | | what the fix stage promises of the workspace |
| `FixStage`, `FixStageProofs` | `remediation/*.py` | the fix stage; theorems, among them that it implements `FixPromise` |
| `PrFlow`, `PrFlowProofs` | `agent/stages.py`, `claude_code_cw.py`, `prflow/`, `review/solve.py`, `synthesis/stage.py` | a checkpoint's stages over the hidden repository; theorems |
| `SnapshotRefs` | `graph-check.ts`, `snapshot-ref.ts`, `graph-prune.ts` | how commands name a snapshot, what prune keeps |
| `GraphStore` | `graph-index-run.ts`, `graph-check.ts`, `graph-prune.ts`, `graph-auto-update.ts`, `hook.ts`, `graph-store.ts` | `graph.db`, the commands that write it, the git hooks |
| `McpDaemon`, `McpDaemonProofs` | `mcp/`, `read-api/` | the HTTP daemon over the store of `GraphStore`; theorems about both |
| `HookBlocks` | `commands/hook*.ts` | the managed blocks in hooks a user edits |
| `SessionHook` | `plugins/codewatch/hooks/` | the session-start hook |
| `Ingest` | `core/src/ingest/` | reading an author's code, with the file cache |
| `DiagnosticRun` | `scripts/diagnostic/` | the diagnostic over what earlier runs left |
| `CodingScreen`, `CodingGrade` | `eval/coding-*.ts` | which commits make tasks; the oracle's decisions |
| `CodingEval` | `eval/coding-generate.ts`, `coding-gate.ts`, `run-coding-arms.ts` | generator and runner over one clone |
| `CodingLedger` | `eval/coding-ledger.ts` | the token ledgers of an arm |
| `CodingArms`, `PatchPlaces` | `eval/coding-inject.ts`, `coding-report.ts`, `coding-localize.ts`, `audit-changed.ts` | the context put before a task and how its arms compare; what three readers see in a patch |
| `GraphQuiz` | `eval/oracle.ts`, `retrieval.ts`, their graders | questions about a snapshot and their scores |
| `TriageReader` | `triage-select.ts`, `-bundle.ts`, `-verify.ts`, `-score.ts` ... | what the reader is asked and what of its answers counts |
| `AuditContract`, `AuditInputs` | `audit-contract*.ts`, `audit-input*.ts`, `audit-entries.ts` ... | contract changes and who feels them; the census of inputs |
| `ArchViews`, `GraphQueries` | `graph-arch*.ts`; `graph-top.ts`, `-relevant.ts`, `-check-diff.ts`, `-wiki*.ts` ... | domains and splits; what the query commands say |
| `GraphViews`, `GraphPage` | `packages/render/src/` | the views of a snapshot or two; the page and its script |
| `Dashboard`, `DashboardViews` | `dashboard-*.ts`, `dashboard/src/views/` | the payload of every churn window; the lists of every view |
| `DashboardApp` | `dashboard/src/App.tsx` | the dashboard and the browser's history |
| `StyleProfile` | `commands/init.ts`, `update.ts`, `review.ts` ... | overlapping commands on the profile |
| `PageAndProfileProofs` | | theorems about `GraphViews`, `GraphPage`, `DashboardApp` and `StyleProfile` |
| `WorkbenchProofs` | | theorems about `CodingEval`, `DiagnosticRun`, `Ingest`, `HookBlocks`, `CodingLedger` and `SessionHook` |
| `MCCleanupTree`, `MCGraphStore`, `MCPages`, `MCWorkbench`, `MCAnalyses` | | constant values, samples, and programs put side by side |

### CleanupRun

`phase` is the main thread: "plan" (between `plan_tree` and the next wave),
"wave" (starting lanes while `todo` is not empty, then waiting for the pool),
"rows" (the loop that appends rows), "ended", "dead". `pc[t]` is the thread of
task `t`. `held`, `spent`, `est` are the fields of `Run`; a step that changes them
is atomic because the code takes `Run.lock` for it. Between `queued` and
`session` is the pool's queue, served in submission order. A session that raises
after `reserve` never reaches `charge`: that is `lost`, whose hold stays counted.
The other lanes then finish and the exception of the first future ends the run
(`Die`).

The tree is reduced to what the ledger's rules read of it: whose edits it holds
(`applied`), which split-out functions (`fns`; at first `baseFns`, any part of what earlier rows kept), which heads are above the limit
(`hot`). An edit is a pair of sets of functions added and removed. `current` of a
row says whether the digest it recorded is still that of the tree; when an
integration changes the tree any set of tasks may lose it.

`Plan` models `plan_tree` and the choice of the next wave; shared tasks run first, one
lane at a time. `IntegrateLanes` is the splice (any subset of the accepted lanes can
be placed; a lone lane always) followed by the outcome of the revert search
(`Outcomes` of `RevertSearch`, whose process is `Integrate`).

### Integrate

`blame` holds the combinations of one or two lanes that make the gate fail.
`Check` is one splice-and-check; `GiveUp` is the fall-through to the base. The
properties are those of the docstring and of the caller: the kept tree was checked
as a whole (`KeptTreePassed`), and no more is reverted than the search promises
(`LittleIsReverted`: one bad lane costs itself, a prefix that passes is never lost).

### Triage and VerdictFiles

A verdict is a record of the excerpt it judged (the finding's own text and its
caller's) and the attempt that gave it. `snaps` is `graph.db`; a snapshot has the
text it was taken of, the stored findings and the verdicts. `run` is the process:
its `step` is the next statement with an effect, in the order of `triage.ts`: read,
save the run's verdicts, save the reused ones, fragment, outputs. `Plan` is
`planTriage`: carry forward from the latest judged snapshot, then reuse of
committed rows whose excerpt matches. `Seen` models `triage-source.ts`: files that
drifted from the snapshot are not shown.

A verdict file is what its readers get from it: `there`, its `rows`, and `bad`, a line no
reader can parse. Head and fragment are rewritten in place, so a death inside the write leaves
any of `CutFiles`: no row or some of them, with half a line or without. The latter is well formed
and shorter, which nobody can tell; a later attempt or a fold takes it for whole. `CutFragment` and
`CutHead` are the two deaths, `Fold` may end after any number of fragments it deletes, and all may come at
any moment of a run. `Mend` and `MendHead` are a person who takes the half line out. `Reading` is
what both readers make of the files. `owed` is history: what each run id saved in `graph.db` and
has not brought into its fragment.

### FixStage and FixPromise

`step` is the next statement with an effect of `run_items`, `Fixer.fix` and the
handlers of `stage.py`. A tree is the set of items whose change it contains, which
makes "revert of that commit alone" and "merge" set operations and leaves
conflicts of `git revert` to `Raise`. `late` is the clock against the deadline and
can turn at any moment. `dirty` holds uncommitted files: the session's edits, and
files a test run leaves behind, which the next `commit_all` takes along. `passed`
is a history variable: which checks the current revision passed; every commit and
amend clears it. `Raise` is an exception out of any call, SIGTERM included; `Kill`
is SIGKILL.

`FixPromise` has the workspace only: kept items grow one by one; on return the
branch holds exactly them; on an exception those or none; otherwise the copy is
still there. `FixStage` implements it under the mapping at the end of the module
(`Promise`): the copy counts as saved only while it is whole, and the result is
what the branch holds once the copy is gone.

### PrFlow

`stage` and `step` are the agent's place: the stage, and the next of its statements with
an effect. `commits` is every commit made, with its tree, its ancestors and what `git
show` says it changed; `refs` and `head` are the repository, `work` is the workspace. A
tree is a set of changes, a change being who made it in which checkpoint; `Code` and
`Notes` split it by the pathspec `OUTSIDE_CODEWATCH`. `base` is the commit indexed as
the scoped merge-base.

`Finish` goes to the next stage or checkpoint. A stage is over when it returns
(`SkipStage` when a precondition does not hold), when a git call raises (`GitFails`),
when it is cut off at the deadline (`Timeout`), or it is not launched (`SkipBudget`).
`Clock` is the deadline; stages before the solve do not meet it. `Fix` and `FixKilled` are
what `FixPromise` allows as seen from the repository: kept items committed, or after a kill
half an item, on the branch or on the item's own. `Merge` and `PointAtMain`, and the three
steps of pr-open, are separate because main, the new branch and HEAD move one after the
other.

### SnapshotRefs, GraphStore and McpDaemon

`SnapshotRefs` has the ways of naming a snapshot (an id, a ref, `previous`) and what
prune keeps, as operators over a set of rows. In `GraphStore`, `disk` says which database
each name has, and which one the `-wal` beside it belongs to; a process keeps the file it
opened when the name goes to another. Two processes, the commit with its hooks and a
terminal, run the steps of index, check, prune and the rename of an old database; a
violation of a rule is all that is kept of the tree. There are three trees: `work`, which
`Edit` changes, `index` of git, which `Stage` sets from all or a part of it, and `landed`. The
pre-commit block indexes and checks `work`; what lands is `index` as it is when the hook returns. Both
may change at any moment, a kill may come between any two steps. `commit` is history: which
violations snapshots other than the hook's own showed, before it and meanwhile (`seen`), and whether all
of the tree was staged and nobody touched it (`whole`). `NothingUnseenLands` says that whatever the
hook lets pass was seen, and that a whole commit lands nothing else. Of a commit staged in part it does
not say that, nor could it: the code checks another tree than the one it commits.

The block is the one with the graph check alone, and runs when a staged name is a TypeScript file's.
The style line before it, `codewatch diff --fix` (`hook.ts:108`), names an option that `diff` does not
declare, so that a commit would stop there.

`McpDaemon` extends `GraphStore`: a daemon writes its token file, opens the store once,
listens, and for a question first chooses a snapshot and later reads its rows, while the
commands of `GraphStore` go on. `AnswersSurvivePrune` says which answers may be empty. A second
start on a port replaces the token and only then fails to listen, which locks new clients out of the daemon that
does: `TokenOpensListener` names that case by the order of the writes (`earlier`) and allows no other.

### The programs of MCWorkbench

* `SessionHook`: `session` is what the editor starts from (the notes of the last
  synthesis, their age and commit, the verdict files), `cli` the two runs of the CLI, which
  exit, fail, hang or close late; `timer` the deadline. `out` may get one document only.
* `DiagnosticRun`: the pool starts tasks up to its limit and races them; `dir` holds
  per prompt which run wrote which file, so that a score can be compared with the answer
  it was made of. A death may come at any step.
* `Ingest`: commits, files, pull requests in turn; every request reads the cache first.
  A cut write leaves a cache file that cannot be parsed, which reads as a miss.
* `HookBlocks`: a hook is a sequence of lines, the user's and the block's; install and
  uninstall replace a block by its markers, hook after hook, with a failure between them
  or inside a write.
* `CodingEval`: the generator walks `window`, installs dependencies when the lockfile is
  not the one it believes installed, applies test and fix patches, runs tests `GateRuns`
  times, and writes the suite; the runner resets the clone to the parent of a task, takes
  or builds its index, lets the agent edit, restores the test files and grades. `Kill`
  leaves clone, suite and indexes. `CodingScreen` and `CodingGrade` are its decisions; what
  a gate may admit is stated of the runs it gets in any state (`OracleIsSound`).
* `CodingLedger`: the events of the stream and what each model really cost, and the two
  ledgers that are computed from them.

### The pages: GraphViews, GraphPage, DashboardApp

`GraphViews` turns a snapshot, or two, into the elements of a page, as the collapse,
focus, barrel and diff functions of `packages/render` do. `GraphPage` is one action per
click, key or search of the page's script; a class is the set of elements that have it.
`PageTellsTheView` (part of `PagesTellTheTruth`) says what is hidden, dimmed and marked
from the filters and the selection alone, whatever the order of clicks was; `ViewsAgree`
compares the views of one snapshot with each other and the page of two with both. The pages
and what they are drawn from are constants (`Pages`, `Snapshots`, `Diffs`) with
assumptions, so that runs give them samples and the theorems leave them open.

`DashboardApp` is the address (`history`, `at`), the place shown (`loc`) and the
`hashchange` events not yet delivered (`told`); the browser changes the address at once
and tells the page later, so handlers of input come between. `AddressIsShown` is proved.

### StyleProfile

Each shell runs one command: it reads the profile when it starts (`existing`), reviews
the fresh rules one by one, and writes the whole file. `approved` is history: which rules
the user ever let pass. `UpdateOnlyAdds` compares what an update writes with what it
read; what another command wrote meanwhile is lost, and the property says so by comparing
with `existing` and not with `profile`.

### The analyses

`ArchViews`, `AuditContract`, `AuditInputs`, `TriageReader`, `GraphQuiz`, `PatchPlaces`,
`CodingArms`, `Dashboard`, `GraphQueries` and `DashboardViews` keep no state. Each has the code's
functions as operators, with names of the source, and at the end the facts they must
satisfy, stated by other means than the code computes them: a call that binds under the
old parameters and not under the new against the changes told of; the places shown to a
reader against the citations that are accepted; sums over the cut lists against the
whole; the rows of a view with a filter against the rows without. `MCAnalyses`
enumerates inputs: `TakeInput` picks one, a state in which nothing else moves.

## 4. Runs

| Run | Config | Shows |
| --- | --- | --- |
| `cleanup_budget` | `MCCleanupBudget.cfg` | `HeldIsInFlight`, `OverrunBound`, `Terminates`: three tasks, two lanes, sessions of two prices, a reviewer that costs |
| `cleanup_tree` | `MCCleanupTree.cfg` | three modules side by side. Cleanup: `LedgerIsTheTree` (one row per task, the tree is the kept rows, no keep is repeated), `KeptHelpersSurvive`. Gate: `KeptTreePassed`, `LittleIsReverted`. PR flow: `CommittedStays`, `CheckpointsBuildOnLast` (main holds the previous checkpoint, the ratchet sees one solve), `SolveStays` |
| `cleanup_overrun` | `MCCleanupOverrun.cfg` | a violation: a run can end more than one session past the cap |
| `triage` | `MCTriage.cfg` | `VerdictsAreOfThisCode`, `PaidVerdictsSurvive`, `NothingForgotten`, `CleanFoldKeepsReading` |
| `triage_retry` | `MCTriageRetry.cfg` | a violation: a retry can finish without ever filing what the first attempt judged |
| `fold_latest` | `MCFoldLatest.cfg` | a violation: a fold past a malformed older fragment lets the older row win |
| `pr_flow_main` | `MCPrFlowMain.cfg` | a violation: after a merge cut in two, main never again holds the state through the previous checkpoint |
| `graph_store` | `MCGraphStore.cfg` | `OldDatabasesKept`, `NothingUnseenLands`, `TokenOpensListener`, `AnswersSurvivePrune`; beside the store, `PagesTellTheTruth` of the graph's pages and views |
| `diff_dangling` | `MCDiffDangling.cfg` | a violation: the page of two snapshots has an edge without an end |
| `workbench` | `MCWorkbench.cfg` | `TreesAreTheirOwn`, `OracleIsSound`, `LedgersBalance` (evaluation), `HookSettles`, `HookEnds` (session hook), `ScoresFollowAnswers` (diagnostic), `CorpusIsTheListed` (ingest), `UserLinesStay` (hook blocks) |
| `analyses` | `MCAnalyses.cfg` | fix stage: `KeptIsChecked`, `EarlyStop`, `TreeIsReported`, the refinement `KeepsPromise`, `Ends`; dashboard: `AddressIsShown`; profile: `ProfileIsReviewed`, `UpdateOnlyAdds`; analyses: `SnapshotIsTold`, `AuditIsTrue`, `PagesAreTrue`, `ReaderIsGrounded`, `GradesAreFair` |
| `dashboard_back` | `MCDashboardBack.cfg` | a violation: Back to an address without a view is pushed forward again |

Programs that share nothing are checked side by side in one run: a variable (`focus`, or
the like) says which of them moves, and the others rest in an initial state. That
is a union of their state spaces, not a product, so nothing is learnt about their
interaction, and none is there to learn. `GraphStore` with `McpDaemon` interleaves fully.
An invariant with a name that joins two others is their conjunction.

### Bounds, and why they are enough

* `Integrate`: up to 5 lanes and three failing lanes or pairs; 5 lanes is the first size at which the three kinds of candidate (all,
  one left out, prefixes) each appear more than once, with prefixes of two
  lengths below a single revert. Failures of more than a pair of lanes
  would not reach another branch of the search.
* `CleanupRun`: the cap has its hazards at two lanes in flight plus one queued, so
  three tasks; a shared wave, a cluster wave and a replan with two ranks need
  three tasks too. Prices of one and of the dearest session make every order
  of charge and reserve differ. The proofs remove the bounds for the theorems.
* `Triage`: two findings, two run ids, two snapshots, two attempts, one edit and two
  folds (a fold cut short, in the head or after it, is redone, and a folded head meets newer fragments). Every property relates at most two rows of one key or one row to a later
  snapshot, and a second finding is needed only for a write cut short
  and for partial answers. `MaxEdits`, `MaxSnaps`, `MaxAttempts`, `MaxFolds` are
  the counters' bounds, in the guards.
* `FixStage`: three items, so that an item of each kind can follow another that was
  kept, reverted or skipped, phase 3 included; `SAME_CAUSE_STOP` is 2 (3 in the code)
  so that a streak can be complete before the last item. Two causes.
* `PrFlow`: two checkpoints, so that whatever the first leaves meets the opening, the
  solve, the review and the merge of the second; a third opens from the same kinds of state.
  `MaxFaults` bounds git calls that fail and merges cut in two; two of them are needed
  to have a branch opened from an unmerged one and then a missing solve commit. Kills and
  skips at the deadline are not bounded. `MainHoldsPrevious` and `RatchetSeesOneSolve` are
  stated for runs without such a fault, `SolveStays` for at most one: section 5 has what
  happens otherwise. The violation needs a third checkpoint.

* `GraphStore`, `McpDaemon`: `MaxRows` 3 snapshots per file, `MaxFiles` 3 databases and prune
  keeping 2, so that a prune takes away the snapshot an open question or `previous` points at,
  and a second rename aside meets the first; two processes, one kill, two daemons on two ports.
* Pages: a sample of 9 nodes in 4 packages, one of them of a file at the root and another that shares
  its name; every click on seven pages of it; `Snapshots` are
  all 4,096 subsets of twelve of its edges, `Diffs` 512 pairs of snapshots with a rename. A node of
  each kind and role occurs, with an edge inside a directory, inside a package and across.
* `workbench`: two gate runs on each side, a run's report one of seven (crashed, without the
  test, with it failed or passed, with it twice, with a second test that passed), a suite of one
  task, one kill, two windows of commits; the session hook over 3,840 sessions, its limits lowered
  (`MaxSnapshotChars` 120, `MaxAreas` 2, `MaxChangedSymbols` 2) so that each is met and
  passed; the diagnostic over two prompts, two runs and four command lines; three commits and
  two ingests; three hook commands and one edit by the user; four events, two blocks per call,
  three models, one helper call.
* `analyses`: about 250,000 inputs of analyses and 36,000 of readers and graders, from pools
  chosen so that every branch of every operator is taken: parameter lists of up to two
  parameters with calls of up to two arguments, call graphs of seven edges, bodies of four
  statements, eight import edges with every partition in two, up to four of nine findings,
  patches of four lines with every mark, eight ties between tests and sources, up to three runs
  of two tasks by two arms. The page has
  `MaxInputs` 5 and two typed addresses: a violation takes a traversal, an input and a late event.
  The profile has two shells and two commands, which begin with none or an earlier profile:
  two are enough to overlap, and the theorem has no bound.

No run has a state constraint. `triage` takes the findings as symmetric (`KeySymmetry`): nothing
in the module orders or names one, and its properties are safety. The runs of `triage` and of the fold check the
module `Triage` itself, since its constants need no definitions. `CHECK_DEADLOCK FALSE` stands where the program ends.

### Fairness

Liveness is stated only where the code's scheduling gives it. `CleanupRun`: weak fairness
of the next-state relation, since the main thread and the pool's threads run, sessions
have a bounded number of turns and the gates answer. `FixStage`: weak fairness of the item
and end steps only, since every call has a timeout; `Clock`, `Raise` and `Kill` may or may
not come. `SessionHook`: weak fairness of leaving the start, of the deadline's timer and of
finishing, which are turns of one event loop; none of the CLI's children, which may hang for
ever, and that is what `HookEnds` is about. `DashboardApp`, in the violation run: weak fairness
of drawing and of delivering `hashchange`, which the browser guarantees; none of the user.
The other modules promise safety only: nobody promises that a run is made, that a request
is answered or that a command is given.

## 5. What the runs found

Six places where a doc, comment or test says more than the code does; each is a run whose
property states it.

* **The cap** (`OneSessionPastCap`). `runner/__main__.py` says a run ends about one
  session past the cap at most. Sessions held at a low estimate are not counted again
  when the estimate rises, so every lane in flight may go over. `OverrunBound` is what
  holds, and it is proved.
* **A retry of triage** (`RetryKeepsJudged`). `triage-persist.ts` says a retry never
  drops what the first attempt judged. After a crash between the save in `graph.db`
  and the fragment, the retry finds the verdicts judged and does not file them; they
  are lost with `graph.db`, which is not committed.
* **The fold** (`FoldKeepsLatest`). `fold.py` says the latest row per key wins and that
  a malformed fragment is left in place. Together: the good older rows of the
  fragment left in place override newer ones folded into the head.
  `CleanFoldKeepsReading` is what holds.
* **A merge cut in two** (`MainThroughPrevious`). `prflow/repo.py` says that main holds the
  merged state through checkpoint N-1. The merge moves main before it moves HEAD; when a git
  call fails or the deadline comes in between, main has a commit that HEAD's branch lacks,
  every later branch is opened from that branch, and no later merge is made. Nothing is
  lost: `CommittedStays` holds throughout.

* **The drawing of two snapshots** (`EdgesHaveEnds`). A test of `packages/render` says that a
  page has no edge that references a missing node. `diff-snapshot.ts` draws a removed edge
  under a renamed file's old id, for which it draws no node.
* **Back in the dashboard** (`BackWorks`). `App.tsx:84` says a view change is pushed so that Back
  works. From an address without a view, opening the page pushes `#overview`; Back is
  answered by the same push.

One more case is kept out of `SolveStays` by its condition. After such a merge, cp-N opens on
the previous branch, whose tip shows a reviewer code; when the commit of the next solve then
fails too, a conflict may resume the session, and if that times out `_restore` resets the work
tree to the previous checkpoint's commit: the uncommitted solve is gone from the workspace.

### Seen while modelling

Behaviour that the properties are stated around, each at its line of the code; no run is spent
on it.

* Integration gate: candidates are tried in the order of lanes, so of two equal subsets the
  earlier lane's is kept.
* Arms (`coding-report.ts:123-147`): an arm is ranked by its mean tokens over all its own runs,
  while its difference to the baseline is taken over the tasks both ran, so the two may disagree.
* Contract changes (`audit-contract-params.ts:56-67`): parameters are called reordered only
  when their names are the same, so a rename that also moves one is told as removal and addition.
* Census (`audit-input-gaps.ts`): a key that two readers read is counted for the first of them.
* Controls (`triage-control-pick.ts`, `fillBalanced`): with too few controls of one label fewer
  than asked are planted.
* Patches (`audit-changed.ts:30`): no guard keeps an added line whose text begins like a header
  of a new side from being read as one; the two readers of `eval/` have the guard.
* Role questions (`grader.ts`): with no file of a role, a perfect answer scores macro F1 1/2.
* Test runs (`coding-grade.ts:91-101`): a test id that a report has twice counts as two runs of it;
  the comment above speaks of runs. So `OracleIsSound` claims an entry in each run only where no
  report names a test twice (`NamesOnce`), and elsewhere only that no entry disagrees.
* Domains (`graph-arch-domains.ts`): a domain whose files an earlier one took counts as empty,
  though its globs match.
* New coupling (`graph-check-diff.ts`): both snapshots are compared with today's git log, so a
  pair that only began to change together is never new.
* Windows: `report`, `check-diff` and `wiki` each choose the churn window in a way of their own.
* Wiki: pages of packages that are gone stay, and two packages may have one file name.
* Dashboard: the package picked in a view stays picked when the window or the filter no longer
  has it; the banner of the fitness view is about the filtered list; the digits 1 to 8 pick
  views where a comment says 1 to 6; health never falls below 25.
* Graph page: boxes of packages dimmed by a rule take their files along; Fit, and a tap on an
  edge, leave query and panel as they are.
* Style profile: an update overwrites what another command wrote since it started; a rule
  rejected in an update's review stays if it is stored; a typed confidence below the stored
  one is discarded with its rule; init drops the overrides.

## 6. Proofs

`CleanupRunProofs` proves, for any finite set of tasks, any number of lanes and any
prices within the assumption `CleanupAssumption`:

* `TypeCorrect`: `Spec => []TypeOK`. The one conjunct that needs more than types is
  that `held` is a natural number: `ChargeSession` subtracts one. It follows from
  `LaneInv`, so the two are proved together.
* `HoldsAreExact`: `Spec => []HeldIsInFlight`. Inductive invariant `LaneInv`: which
  steps a lane can be at in each phase. It is needed because `EndWave` sets every lane
  to idle without touching `held`: only the phase says that nothing is in flight.
* `OverrunIsBounded`: `Spec => []OverrunBound`. The bound itself is not inductive,
  since sessions in flight may still be charged. `BudgetInv` charges all of them at the
  dearest price in advance; `Reserve` preserves it because the guard bounds
  `spent + held * est` and at most all other tasks are held (`HoldsAreExact`).
* `HelpersSurvive`: `Spec => []KeptHelpersSurvive`. A run starts on a copy of the frozen tree, which
  has an earlier run's functions only if that run was given `--apply`; so the property is about
  what the starting tree had of them (`baseFns`, any part) and about all that this run's kept rows
  split out. `HelperInv` adds that an accepted
  lane removes no kept helper, and that a merged lane's functions are in the tree
  before its row says so.
* `LedgerTellsTheTree`: `Spec => []LedgerIsTheTree`. Three sets must be known at every step and
  not only between waves: which tasks have a row of this run (`RowsSoFar`), how far the tree is
  ahead of the ledger while the rows of a wave are being written (`TreeAhead`), and that no
  lane under way offers an edit again that a kept row has (`NoLaneRepeats`: the rule `repeat` is
  asked when a lane starts, and rows are only written when all have ended). What an earlier run
  left is assumed not to repeat a keep itself (`CleanupAssumption`): it was written by a run too.

The argument for every invariant has one step per action. The assumption is the code's:
task ids are numbers (the plan's order), prices are natural, the first estimate and each
session's price are at most `DearestUsd`. TLC evaluates it in `cleanup_budget` and
`cleanup_tree`, and checks the invariants there first.

`PrFlowProofs` proves, for any number of checkpoints and any bound on faults:

* `TypeCorrect`: `FlowSpec => []FlowTypeOK`. That the merge-base is a commit needs that a non-empty
  set of numbers below n has a greatest one (`MaxInRange`, from well-foundedness), and that
  every step that asks for it runs on a repository whose HEAD names a commit.
* `CommittedIsKept`: `FlowSpec => []CommittedStays`. HEAD moves between branches, and main moves
  before HEAD does, so the property is not inductive: `KeepStep` says that at the steps that are
  about to move HEAD, the branch it goes to is complete (has every change any commit has).
  `CommitAdds` shows that a commit on top of a complete one is complete and that a merge leaves
  the merged tip complete; `CommitOnHead`, `MergeKeeps`, `PendingKeeps` and `PointKeeps` are
  the four ways the repository moves, and each action is one of them.

* `CheckpointsAreChained`: `FlowSpec => []CheckpointsBuildOnLast`. The property speaks of the
  moment the solve starts and of the ratchet's base; `OnLine` says what makes it true all along
  while no git call failed: HEAD's branch goes on in a straight line from main's tip, main has the
  code the checkpoint started with, and an amended commit is never main's (`AmendsOwn`, or main
  would lose it).
* `SolvesAreKept`: `FlowSpec => SolveStays`. Only `_restore` can take a solve away, when the
  session that a review resumed runs out of time. `SolveSafe` says that a session is resumed only
  over a committed solve: where `commit-ratchet` made no commit, HEAD shows the reviewer no code.
  One fault is allowed for, and the condition cannot go: section 5 has what two do.

The first two follow from one inductive invariant, `Good`; its type part needs `KeepStep` (which
stage needs which branch) and the other way round. The other two build on it. TLC checked each
invariant on the instance of `cleanup_tree` before its proof, `OnLine` with three checkpoints too.

`IntegrateProofs` proves, for any bound on lanes and any failing lanes and pairs of lanes
(`LaneBounds` asks only that the bounds are numbers):

* `TreeIsChecked`: `Spec => []KeptTreePassed`, and `LittleIsLost`: `Spec => []LittleIsReverted`.
  The inductive invariant `GateInv` has four parts: `Wave` (types), `Progress` (which
  candidates have been tried), `Searched` (those that were tried failed) and `KeptFirst` (what is kept
  is the first that passed). The second theorem needs all of them: that a smaller revert
  would have passed contradicts that it was tried before and failed.

`TriageProofs` proves, for any findings, texts, run ids and bounds within `RunIdsAreOrdered` (run
ids are ordered and finitely many: the files of a directory) and `TriageAssumption` (what is no
text, excerpt or row is told from one):

* `VerdictsFit`: `Spec => []VerdictsAreOfThisCode`. Verdicts reach a snapshot three ways: carried
  forward from an earlier one, reused from the files, and judged. The first two compare excerpts when
  the run is planned; all but the first are saved later, while the tree is edited, audited and
  indexed on. `TriageInv` therefore says what a run under way knows of the
  snapshot it was planned on (`RunFits`), and that past its first save what it paid for is stored
  (`PaidIsStored`). The type part and these are one induction.
* `PaidSurvives`: `Spec => PaidVerdictsSurvive`, from `PaidIsStored`.
* `VerdictsStayRead`: `Spec => NothingForgotten`, and `CleanFoldIsSilent`: `Spec =>
  CleanFoldKeepsReading`. What a reader reads is the row of the last fragment
  that has one, or else the head's; a fold may have emptied any fragment, a death may have cut any file: that there is a last one rests on well-foundedness over finitely many
  run ids, and the rest is about which row that is before and after each write. Without a
  malformed file the last row before the fold is the one it writes to the head, and the
  fragments it has not removed yet say the same: that is why a fold cut short at any file is silent.
  What is given up is named: verdicts the head alone held when a fold died inside it (it is in git, so
  they can be restored by hand), or that only the fragment under the pen held.

`FixStageProofs` proves, for any number of items, causes and length of the run of reverts
(`FixAssumption`), from one inductive invariant `FixInv`: what is true between two items
(`BetweenItems`), with an item under way (`AtWork`: one commit on top of what was kept, and the
checks it has passed), with its branch being landed (`Landing`: `kept_head` moves after the
branch was merged, and an error may come in between), and at the end (`AtEnd`: the backup):

* `KeptWasChecked`, `StopsAtRepeatedCause` and `ReportIsTrue`: `KeptIsChecked`, `EarlyStop` and
  `TreeIsReported` always hold. `TreeIsReported` is not inductive: what is reported and what the
  branch holds differ while an item is under way, which `AtWork` and `Landing` describe.
* `StageKeepsPromise`: `FixSpec => KeepsPromise`, the refinement of `FixPromise`. `Told` and `Left`
  are the values of its variables; every action is shown to be a step that adds the item just kept,
  one that ends the stage as promised, or a stutter.

`McpDaemonProofs` proves about the database, its commands, its git hooks and the daemons over it, for
any number of files, names, snapshots, kills, daemons and ports within `StoreAssumption` and
`RowAssumption` (no row is told from a row); the invariant is `StoreInv /\ DaemonInv`:

* `OldDatabasesStay`: `Spec => []OldDatabasesKept`. A rename moves a database and then its log, so
  for one step a file has two names; `RenamesAlone` says that while nothing is torn one process
  renames at a time and finds what it moves where it looked, and `OneName` that no two names have
  one file.
* `GateLetsSeenLand`: `Spec => NothingUnseenLands`. The hook indexes, opens the
  newest snapshot, then compares it with `previous`; `CommitIsJudged` says at each of its steps which snapshots the opened
  database holds and that they show only what was seen, but for one of the hook's own, which of a
  whole commit shows the tree. No edit, staging, second index or rename is excluded. The newest row is the
  one with the greatest id, which needs again a last one of a finite set (`NewestIsLast`).
* `TokenFound`: `Spec => []TokenOpensListener`; `TokensInOrder` says that the token on file for
  a start's port is its own or that of a later start on the port, and that one daemon serves a port. And `AnswersHold`: `Spec => AnswersSurvivePrune`.
  `AskedOrOld` is what the second needs: the snapshot of an open question is there still, or
  at least `--keep` newer ones are. Prune's keep set is by order, the property by ids: `PruneKeepsNewest`
  counts the rows between.

The theorems start from `Init`; the run `graph_store` begins also with two old files
(`TwoOldFiles`), where TLC checks the same properties and the invariant was checked too.

`PageAndProfileProofs` proves `AddressShown`: `AppSpec => []AddressIsShown`, from `TypedAssumption` and
`PlaceAssumption` (typed addresses are addresses; the home view, the empty node and filter and the
windows are among the values). `WriteHashWrites` is the heart: whatever the address was, and
whether events are under way or not, after a write the tab is at the place written. It also
proves `RulesAreReviewed`: `ProfileSpec => []ProfileIsReviewed`, from
`EarlierAssumption` (a profile found at the start has its fields, and rules of its sources).
An update writes what it read at its start, so the file alone is not inductive:
`ProfileInv` adds that every command under way holds a reviewed profile and rules
of its repositories of which only those left are unreviewed. `OneShellMoves` carries it over the
others' commands, since what is approved stays approved. `UpdatesOnlyAdd`: `ProfileSpec =>
UpdateOnlyAdds` rests on `MergeOnlyAdds`, what a merge of two profiles keeps of the first.

It proves `PagesStayTrue`: `PageSpec => []PagesTellTheTruth`, in two parts.

* The page, for any `Pages` as `PagesAssumption` has them (`IsBaked`: what is to be picked has its
  elements, chips are of known groups, routes are drawn where the script uses the positions).
  `PageInv` adds which view is shown at every moment (`Switched`), and that chips, filters and
  marks have the shape the handlers rely on. `CommandsBake` shows that the assumption is no
  restriction: whatever a snapshot holds, `RenderHtml`, `DashboardGraph` and `RenderDiff` bake such a
  page, as long as no node, package or directory is named as the model's `NoSelection` and `NoBox`.
* The views, for any `Snapshots` and `Diffs` as `DrawnAssumption` has them. `IsSnapshot`: ids are
  unique, edges join nodes and were led through no barrel, and a file named as a package is lies in it: an
  id without a slash, a file at the root, is cut to itself, and package names have none. `IsRenaming`:
  an id that is gone goes to one that is there. `EverySnapshotAgrees` rests on
  `FoldKeepsWeight`: the weight of edges counts their references (`Refs`), so edges folded into one
  per pair of boxes weigh what those they stand for do, whatever ends one looks at. Then the
  overview and both close views of two packages count the same references. `EveryDiffShowsBoth`: a
  rename's ids are on one side only, so no edge can be both kept and lost.

`WorkbenchProofs` proves about three programs that run again over what earlier runs left, three
that read or write a text or a list entry by entry, and the scores of the evaluation:

* `TreesStayTheirOwn`: `EvalSpec => []TreesAreTheirOwn`, for any window, options, arms, reports and
  kills, from no assumption. The property speaks of the steps at which tests and agents run; what
  makes it true is at the others (`EvalInv`): the lockfile believed is the one installed while a
  program runs, the candidate's stays installed from the install to the decision, and a
  job's parent is in the opened indexes before its agent edits.
* `GatesAreSound`: `EvalSpec => []OracleIsSound`, from `ReportsAssumption` (a report is a list). The
  invariant (`RunsInv`) only says that a gate has lists of reports; the work is `GateAdmitsStable`,
  that a gate over any such lists admits what they show. The code counts the entries of a test:
  when no report names one twice they lie in different runs, so were a run without one there would
  be fewer than runs (`EachRunHasOne`).
* `RepeatsNeverPay`: `RepeatsDoNotPay`, part of `GradesAreFair`, for any ranking, finite expected set
  and budget. The distinct answers have the ranks 1, 2, ... (`RanksDiffer`), and an answer named
  again stands nowhere for the first time (`AgainIsNothing`).
* `NoScoreIsNewer`: `DiagSpec => []ScoresFollowAnswers`, from `DiagAssumption` (a limit is a
  natural number or none). A score compares two runs' numbers; `AnsweredNow` says that
  what this run checks and judges, this run answered. The pool's part needs when it waits
  (`PoolInv`: a pool that starts tasks is not full) and that the bench starts prompts in order
  (`BenchInv`: so none is started twice).
* `CorpusTellsTheHistory`: `IngestSpec => []CorpusIsTheListed`, from `HistoryAssumption` (a sha names
  one commit, a commit names a path once). The property is about the end; `IngestInv` says at every
  file read what was seen and collected (`SeenInv`, `CorpusInv`), and that a readable cache file is
  what GitHub would have answered (`CacheInv`), torn writes and later pushes included. That a path
  has a newest commit that names it is again well-foundedness (`NewestNamer`).
* `UsersLinesStay`: `BlocksSpec => []UserLinesStay`, from `BlocksAssumption` (the user's lines are
  not markers, no hook is not a hook's text). `BlocksInv` is the property with what makes it
  inductive: the block promised has its markers at its ends and nowhere else (`IsBlock`), so do those
  of the writes still to do, and the user's lines hold no marker. `StripAround` says that
  stripping the lines around a block gives back the lines, `WriteKeeps` and `LineKeeps` that a
  write and an edit of the user leave a hook of that form.
* `LedgersAddUp`: `StreamSpec => []LedgersBalance`, from `StreamAssumption` (the models are
  finitely many, and the helper's is not one of the main agent's). `StreamInv` says that a call's
  events agree on its model and side (`CallsAreWhole`), that an event's usage counts the events
  of its call so far (`UsageGrows`, so the last one has the call's), that the main agent's calls do
  not interleave (`MainInTurn`, which makes the turns before the first edit those before its call),
  and that each model but the helper was charged exactly its events (`EventsAreCharged`). Then
  `GapCloses`: what is charged falls apart into the main agent's calls, the subagents' on its
  models, and the rest.
* `HookAlwaysSettles`: `HookSpec => []HookSettles`, from `HookAssumption` (notes and answers are
  lists, caps are numbers or none). `HookInv` says what was written at each stage and that no query
  runs when it is done; the rest is about the notes as functions of the session: what is
  popped to fit a cap leaves a beginning of each list (`PopIs`, `CarryIs`, `SnapshotIs`).

`UsersLinesStay`, `LedgersAddUp` and `HookAlwaysSettles` are about recursion over a sequence or a
set (`StripBlock`, the sums of the ledgers, `Among`), as the weights of the views are. A recursive
function is the `CHOOSE` of a function that satisfies its equations; so the proofs exhibit one
that does, and show that two that do agree: where they first differed, the equation would say
they do not (`StepsDetermine` over the entries of a sequence, `SubsetsDetermine` over finite sets).
That needs no induction principle with an operator
parameter, only that a set of numbers or of finite sets has a least member. It is also why
`StripBlock` and `Among` are written as recursive functions.

TLC checked these invariants, that of the diagnostic aside, on the instance of `workbench` first.

Out of the prover's reach, and left to TLC: liveness (`Terminates`, `Ends`, `HookEnds`); the
theorems say nothing of what is `ENABLED`. Also left to it are the analyses (`SnapshotIsTold`,
`AuditIsTrue`, `PagesAreTrue`, `ReaderIsGrounded`, and `GradesAreFair` but for `RepeatsDoNotPay`):
folds and filters over sequences, sorts and walks of graphs, some of them in modules with
RECURSIVE operators, which the provers do not take.
The properties of the six violation runs are false, so there is nothing to prove.

## 7. What is not modelled, and why

* Verdicts of sessions, gates, tests, reviewers and readers are free choices: the
  properties hold whatever they answer.
* Text, prompts, metrics, syntax analysis, rendering, and docker and GitHub calls as
  such: pure or I/O, with little control.
* The planner, the final gate, containers, prompts, the differential gate and the one-off
  studies of the benchmark, as their components say in `PROJECT.json`: comparisons of metrics and
  syntax, or calls to docker and the benchmark's own solver.
* Coordinates, colours, text, the formulas of metrics, and what the package `code-graph` computes
  (ranks, hotspots, communities, rule results): inputs of the models.
* Of the evaluation: the impact and ablation suites, the tables of the scorecard.
* Of the profile: check, show, analyze, export and diff, which read it and print.
* In `CleanupRun` a task splits out at most one function, and money is in whole units.
* In `FixStage` the early returns before the copy is taken change nothing and are left
  out; an item's session is one question with an arbitrary answer.
* In `Triage` one process runs at a time, as the commands take no lock and nothing in the
  repository runs two; key collisions of findings are not modelled.
* In `PrFlow` a restore that fails once it has cleared the workspace (`workspace.py:35-37`) is left out;
  `FixPromise` has it as `lost`. The index is left out (a commit that fails leaves nothing staged), the hidden
  repository is made in one step, `--resume` into an existing one is left out, and the stages inject and
  audit change neither the repository nor the code. The outcome "already-open" of pr-open
  is not reached: pr-open runs once per checkpoint.
* In `GraphStore` what an index writes beside its snapshot (symbols, edges, metrics) and the
  arithmetic of the ratchet; in `Ingest` pull requests are one step; in `HookBlocks` a hook that
  cannot be read counts as no hook, as in the code, and `UserLinesStay` leaves that case out.
* In `GraphViews` a rename leaves no node of the old id and makes a new one, as `git diff -M` does.
