# belt, verified

TLA+ models of belt: a daemon that collects work items from issue trackers,
runs handlers for them in parallel, has the results judged, and hands to a human
what it cannot finish. Paths below are relative to `crates/` of the repository.

The models follow the code. The documents used for comparison are the comments
in the code, `README.md` and `spec/archive/v5/`: the documents directly under
`spec/` describe a later design that this commit does not implement.

## 1. The system

Four crates: `belt-core` (types and pure rules), `belt-infra` (SQLite, git
worktrees, GitHub, LLM subprocesses), `belt-daemon` (the loop, the cron engine),
`belt-cli` (commands, each a process of its own that opens the same database).

| Component | State | Operations | Talks to | What is hard | What makes it right |
|---|---|---|---|---|---|
| Queue phases (`belt-core/src/phase.rs`, `state_machine.rs`, `queue.rs`) | the phase of an item | `transit`, `set_phase_unchecked` | everyone | most callers discard the error of `transit`; escalation bypasses the table | only moves of the table; discarded errors change nothing |
| Escalation policy (`belt-core/src/escalation.rs`) | rules: count -> action, `terminal` | `resolve` | daemon, timeout job | sparse rules, counts past the last rule | the greatest rule reached decides; retries end |
| Concurrency tracker (`belt-daemon/src/concurrency.rs`) | count per workspace, total, evaluations | `track`, `release`, `track_evaluate`, `release_evaluate` | daemon, advancer | every exit of a task must release once | counts cover what executes, limits hold |
| Daemon loop (`belt-daemon/src/daemon.rs`) | queue, history, history events, tracker | `collect`, `advance`, `execute_running`, `apply_execution_result`, `evaluate_completed`, `execute_on_done`, `run` | sources, executor, database, cron | tasks end in any order; state read before an await; kill at any point | no item lost or doubled, limits, progress, retries end |
| Advancer (`belt-daemon/src/advancer.rs`) | none of its own | two passes over the queue, three gates | database, tracker | rows change between two reads, reads fail | work does not run beside what its gate found it waiting for; no slot is wasted |
| HITL service (`belt-daemon/src/hitl_service.rs`) | none of its own | `handle_escalation` | queue, worktrees | puts back one item for each taken | see daemon |
| Evaluator (`belt-daemon/src/evaluator.rs`, `evaluation_stages.rs`) | failures per work_id | `run_evaluate`, `record_eval_failure`, pipeline | LLM subprocess | repeated failures, counts that outlive the item | handed over exactly at the threshold |
| Daemon API (`daemon.rs`: `respond_hitl`, `mark_*`, `rollback_running_to_pending`, `drain_with_timeout`) | as the daemon | responses of a human, shutdown | queue, database | replan ids, stale counters | not modelled: no binary calls it |
| Queue rows (`belt-infra/src/db.rs`; `belt queue`, `belt hitl`; `HitlTimeoutJob` in `cron.rs`) | `queue_items` | insert, phase updates, respond, expire, replan | CLI processes and the daemon | check-then-act over processes, partial replan | replans are bounded, nobody waits for ever |
| Queue dependencies (`db.rs`) | `queue_dependencies` | add with cycle check, remove | CLI, advancer | check and insert are many statements of many processes | no circle but by a race, no made-up refusal |
| Spec lifecycle (`belt-core/src/spec.rs`; `GapDetectionJob` in `cron.rs`; `belt spec`) | spec status, links, decomposed issues, GitHub issues | transitions, decomposition, gap detection, completion review | CLI, cron, queue rows | several writers of one status; failing calls between create and link | one open issue per gap, nothing is forgotten |
| Cron engine (`cron.rs`; `belt cron`; `ipc.rs`) | jobs, `last_run_at`, `cron_jobs` | `tick`, load, sync, the commands, signals | daemon, database | signals lost or early, reads that fail, ticks that outlast a minute, names | jobs follow the table, run once, recur |
| Worktrees (`belt-infra/src/worktree.rs`) | directories, registry of preserved ones | create or reuse, preserve, cleanup | parallel tasks | shared names, check-then-act | not modelled, see section 3 |
| Hook loader (`belt-daemon/src/hook_cache.rs`) | LRU cache | `resolve` | - | - | not modelled: no daemon is built with it |
| Executor, stagnation, lateral plans | none | run actions, compare error texts | runtimes | order of a handler chain | only how a chain may end |
| Runtimes, GitHub source, IPC, shells | subprocesses, sockets | I/O | outside | I/O | only their possible results are modelled |
| Dashboard, status, chat sessions, bootstrap, onboarding, secrets, installers | none of the core | rendering, files | outside | - | not modelled |

How they interact: `run_select_loop` waits for the interval, SIGUSR1, an IPC
message or SIGINT. A tick calls the phases one after the other; only
`execute_running` spawns tasks, and it joins them all before it returns. The
database is shared with CLI processes and with cron jobs that run at the end of
the tick. The daemon writes histories, transition events and token usage to the
database and reads specs, dependencies and item rows from it, but keeps its own
queue in memory only: a kill (`belt stop` sends SIGTERM, which nothing handles)
loses it, and the sources bring the items back. The rows of `queue_items` are
another world: gap detection, spec commands and replans insert them for humans,
the commands and the timeout job move them, and the daemon's queue takes no item
from them. They meet the daemon in three places only: a dependency gate reads
the phase of a row, and the two jobs run at the end of a tick.

Every hazard found while reading is listed, at its line, in `PROJECT.json`.

## 2. The modules

| Module | Models | Depends on |
|---|---|---|
| `QueuePhases` | the phases, the 17 transitions, a discarded `transit` | - |
| `EscalationPolicy` | `EscalationPolicy::resolve` for any finite set of rules | - |
| `ConcurrencyTracker` | the two-level counter and its operations | - |
| `BeltDaemon` | one daemon and its surroundings | the three above |
| `WorkLifecycle` | the abstract specification: a status per piece of work | - |
| `QueueDependency` | the table of dependencies, its commands statement by statement | - |
| `HitlStore` | rows that wait for a human, commands, timeout job | `QueuePhases` |
| `SpecLifecycle` | specs, issues, gap detection, on top of the rows | `HitlStore` |
| `CronSchedule` | when a schedule is due | - |
| `CronEngine` | the engine, its table, commands and signals | `CronSchedule` |
| `*Proofs` | the proofs about the module of that name; `BeltDaemonItemProofs` and `BeltDaemonLifecycleProofs` continue `BeltDaemonProofs` | the module |
| `MC*` | instances for TLC | the module |

`BeltDaemon` keeps the program counter of the loop (`at`, `cursor`, `batch`), the
queue, one task state per work_id (`task`), the tracker, the evaluator's counters,
and of the two histories the numbers `count_failures` computes from them. Its
actions follow the tick:

| Location `at` | Actions | Code |
|---|---|---|
| `select` | `Tick`, `Interrupt` | `run_select_loop` |
| `collect` | `CollectItem`, `CollectDone`, `CollectError` | `collect` |
| `pending` | `AdvancePending` | first pass of `Advancer::run` |
| `ready` | `StartItem`, `HoldItem`, `PassItem`, `EndAdvance` | second pass, an index at a time because each reads the database |
| `spawn` | `Spawn`, `EndSpawn` | `execute_running` |
| `join` | `JoinLost`, `JoinWorktreeError`, `JoinCompleted`, `JoinFailed`, `EndJoin` | `apply_execution_result` and the escalation it calls |
| any | `TaskEnds` | `execute_item_parallel` |
| `evaluate` | `DeferEvaluate`, `StartEvaluate` | `evaluate_completed` up to the await |
| `judge`, `on_done` | `JudgeOk`, `JudgeFailed`, `OnDone`, `EndEvaluate` | the rest of it |
| `drain`, `stopped` | `Drain`, `Stopped` | `run` after the select loop |
| any | `DatabaseChanges` (`DependencyAdded`, `DependencyRemoved`, `RowChanges`), `Restart` | other processes; kill and start |

A work_id is a pair of a source_id and a state. The two gates that
read specs (`check_dependency_gate`, `check_conflict_gate`) give any verdict to
work in `Gated` at each pass, since commands may change the specs in between, and
none to other work. `deps` holds the rows of `queue_dependencies`: any part of the constant
`Deps`, changed by commands at any step. The item of a dependency in the database (`rows`) is absent,
open or done; an error when it is read opens the gate like an absent one. An error when
the dependencies of an item are read opens the gate whatever they are (`advancer.rs:297`):
`StartItem` may then start an item that `HeldBy` would hold. `gate` keeps what the pass read
for each item, the dependencies and those of them that held it, and is read by properties only. Worktrees, hooks, prompts and token usage
leave no trace in the variables except as a way a task can end. The daemon serves
one workspace, so the map of workspaces in the tracker is one counter.

`QueueDependency` keeps the rows and, per process, the stack and the visited nodes
of `detect_cycle`: `BeginAdd`, one `Visit` per SELECT, then `Reject` or `Insert`;
`Remove` by anybody, `Abandon` at any point. Any number of processes add. Three variables are
read by properties only: the rows that were there all the time since a search began
(`lasting`), those that were there at some time since (`seen`), and the rows of the table
whose command was overtaken: another one inserted after the search began (`raced`).

`HitlStore` has one record per row: phase, replan count, the deadline of its own
with its action, and whether a deadline has passed. Time is the action `Expire`;
every statement restarts the default deadline because it refreshes `updated_at`.
A command is read, then written (`RespondRead`, `RespondWrite`, `RespondReplan`,
`RespondInsert`; `TimeoutRead`, ...), so that what it read may be stale. The job is
`JobList`, then for each row `JobTransition`, or `JobCount`, `JobExceeded` or
`JobReplanned`, `JobCompanion`. `JobFault` is a failing statement, `Kill` the death of
the daemon. The id of a row is the item with the numbers of its replans
("{work_id}:replan-{n}"), which is what makes companions of companions visible.

`SpecLifecycle` extends it: its rows are those of a conflict, of a completion review
and of a test failure, and its commands share the processes. A spec has a status,
whether the code covers it (an input: how `cron.rs` scores coverage is text
matching), issues with their state on GitHub, and two lists of their numbers: those linked to
it (`links`), which `spec link | unlink` change, and those it was decomposed into
(`decomposed`), which only `spec add` and `spec update` write, each with the whole spec.
`spec add` is `AddSpec`, `AddReview`, `AddActivate`, `AddParent`, `AddLink`, and with
`--decompose` `AddChild`, `AddChildLink` and `AddStore`; it may be interrupted before each.
`sources` says whether there are source files at all: without them the job does nothing (`cron.rs:1215`).
`GapDetectionJob.execute` is `GapStart`, then per spec `GapCheck`, `GapSearch`, or `GapSearchOther`
with `GapSkip` when the search by title finds an open issue of another spec (`cron.rs:1656`),
`GapCreate`, `GapLink`, and for the covered ones `CoveredCheck`, `CoveredIssues`,
`CoveredCompleting`, `CoveredReview` or `CoveredRevert` with `CoveredTell`.
`GapSearchFails`, `CheckFails`, `GapFault` and `GapKill` are its faults.

`CronEngine` counts time in minutes of a day and remembers a run by its age.
`Minute` moves on under every other step, so that a tick may outlast a minute (`lag`).
`Load` and `Listen` start the daemon, `BeginTick`, `EngineTick`, `Start`,
`RunSucceeds` and `RunFails` are a tick, `CollectFails` one that a source ends early;
`Accept` and `Sync` are the two halves of a signal. `LoadFails` and `SyncFails` are the same with a
table that cannot be read: the daemon starts with the built-in jobs alone, or keeps the jobs it has. The commands write a statement and
then `Notify`. `missed`, `started` and `again` are read by properties only. The
dates, months and weekdays of an expression are left out: they are matched by the
function that matches minutes and hours. The scripts of custom jobs are not kept: a
changed script alone makes no new job (`cron.rs:347`).

Variants. An operator whose comment starts with "Variant" is not part of the
specification: it is a plausible mistake in the operator after it, and each
property has one that breaks it.

## 3. What is checked

`tlc -config X.cfg M`, where M is `MCBeltDaemon` for the runs `daemon_*` and else the
MC module of that name (`MCCronEngine` for both `cron_*`):

| Run | Instance | Shows |
|---|---|---|
| `daemon_slots` | three issues, limits 2 and 3; tasks may panic, one state has no configuration; one restart | `UniqueWork`, `ConcurrencyBounded` and its strengthening `SlotsCovered`, `ExecutionWithinTick`, `SlotsAccounted`, and that the daemon implements `WorkLifecycle` |
| `daemon_failures` | two issues of one state, gated by specs; commands make one wait for the other or not, at any step; failures of the hook, the handler, the worktree, the evaluator, on_done; default rules; one restart | `TypeOK`, `SlotsMatchExecuting`, `EvaluationThreshold`, `DependencyExcluded`, `RetriesEnd`, `HandedOverWhenCounted`, `HumanKeepsItem`, `WorkConserving`, `NotOvertaken` |
| `daemon_progress` | three issues share one slot, failures are retried for ever, the evaluator may always fail | `WaitingStarts`, `CompletedIsJudged` under fairness |
| `queue_dependency` | three items, three rows, two processes that add | `SearchInv`, `CirclesNeedARace`, `RefusedForAPath` |
| `hitl_store` | one item with its companions, two processes, two replans, two commands, one fault | `HitlInv` (`ReplanTree` and what makes it inductive), `CompanionsBounded`, `AskedAgainOnRequest`, `HitlDrains` under fairness |
| `spec_lifecycle` | one spec, two gap issues, one child issue, one process, two commands, one fault | `LifecycleInv` (`OneOpenGapIssue`), the refinement `ReviewsAreHitlRows`, `GapIsReported`, `CoveredIsNoticed` under fairness |
| `cron_engine` | a custom job and one built in that bears a name the table may use; an hour and day of two minutes; two commands, two faults (kills, reads that fail) | `CronInv` (`BuiltinsStay`, `SyncedUnlessMissed`), `OncePerMinute`, `JobsRecur` under fairness, `FieldsMeanWhatTheySay` |
| `daemon_escalation_level` | one failing issue, default rules | `HandedOverAtItsLevel` is violated |
| `daemon_failed_dependency` | two issues, the first may be skipped after failures | `FailedDependencyBlocks` is violated |
| `queue_dependency_race` | the same with two rows | `NoWaitingCycle` is violated |
| `hitl_answered` | one row, one answer, the job | `AnswerStands` is violated |
| `cron_signal` | one command, no kills, a daily built-in job | `DeliveredIsHandled` is violated |

**Bounds of the daemon.** Limits, work and thresholds are at most three: three pieces of
work contend for two slots with a third global one for the evaluator, and items exist before,
behind and beside any item. The limit of the workspace is met in `daemon_slots`; the
global one only where both are equal, in `daemon_failures` and `daemon_progress`. That
both hold whichever is the smaller is `ConcurrencyStaysBounded` (section 4).
`HistoryCap` saturates the two failure counters; `CapAssumption` checks that the
sum still reaches the last rule, after which the resolved action is constant.
`MaxRestarts` allows one kill at every point of the loop. The evaluator's counter
stops at the threshold because nothing but the comparison reads it. A lost task
(`panicked`, `skipped`) keeps its slot; these are in `daemon_slots` and left out of
`daemon_failures`, where `SlotsMatchExecuting` states the exact count that only lost
tasks break. `SlotsAccounted` says so with lost tasks: each of them takes one slot away for as
long as the process lives (`daemon.rs:771`), and nothing else does.

**Bounds of the rest.** `MaxDeps` rows among three items let a search meet chains, a
diamond and the circles of two and of three, with rows added and removed behind and in front
of it. Two processes that add are enough to overtake each other; the theorems are about any
number of items, rows and processes. `MaxCommands` and `MaxFaults` are shared by all processes: two commands
are two answers to one row, an answer and a deadline, or a change of a spec around an
answer, each with the job between its read and its write; one fault is a failing
statement or a kill at every point. `MaxReplan` is 3 in the code, 2 in `hitl_store`,
so that companions have companions, and 1 in `spec_lifecycle`, whose rows the refinement
covers. `Overlap` has the conflict of files, which keeps a spec a draft, and none; the third kind,
of modules, opens a review beside an active spec, a state that is also reached by resuming a draft
that has a review. One child issue is one on either list of `CoveredIsNoticed` or on one of them only.
Two issue numbers suffice for `OneOpenGapIssue`, which
is about the second one; an issue that was closed is not numbered again, so
`CloseIssue` keeps enough numbers for the searches that may still fail. In
`cron_engine` an age is told apart up to `Oldest`, two minutes: the interval is two
minutes, and an expression asks only whether the age is zero. The two built-in kinds
are apart because together they need minutes of checking more: the interval is in
`cron_engine`, the daily schedule in `cron_signal`. `FieldsMeanWhatTheySay` compares
all forms of a field with numbers up to `Largest + 1`, independently of `Hour`.

**Fairness.** `daemon_progress`: weak fairness of the loop and of each task: the
runtime keeps polling them, and handlers, scripts and the evaluator return. This is
an assumption about them: only the evaluator's subprocess has a timeout
(`evaluator.rs:392`); a handler that hangs keeps the whole loop in `execute_running`.
Strong fairness of `CollectDone`: a source does not fail at every tick; if it did, `?`
in `tick` would stop the whole daemon from advancing. No fairness for `Tick` by
itself, `Interrupt`, `Restart` or rows. `WaitingStarts` excludes work with dependencies
or specs, which may rightly wait for ever, and panics, after which slots are lost for
good.
`hitl_store`: weak fairness of the job and of deadlines passing; humans owe nothing, and
a command may stop half-way for ever. `spec_lifecycle`: both properties speak of a
workspace that has source files from some time on, and `GapIsReported` leaves out a spec whose
search comes upon the issue of another one again and again, which the code takes for its own; weak fairness of gap
detection once it can go on, and strong fairness of the timeout job, because the engine
runs one job at a time and so disables one by the other again and again; both run in
every tick in which they are due. `cron_engine`: weak fairness of the clock and the
daemon, strong fairness of `EngineTick`: sources do not fail in every tick.
`JobsRecur` says of expressions no more than the code can keep: a minute that
passes while a tick is busy, or in a tick that a source ends early, is not made up.

### Where documents and code disagree

1. **The level of escalation.** v5 `queue-state-machine.md:181-183` retries the
   first failure silently, the second with a comment, and asks a human at the third.
   `count_failures` (`daemon.rs:2154`) adds two histories that both record each
   failure, and the first of them ignores the source. One failing issue goes to a
   human at its second failure; `retry_with_comment` of the default rules never happens.
2. **Failed dependencies.** v5 `queue-state-machine.md:175` blocks work until its
   dependency is Done. A dependency the daemon gave up is in neither the queue nor
   the database, and `advancer.rs:339` opens the gate.
3. **Circular dependencies.** The comment at `db.rs:1610` says that a check before the
   insertion prevents circular dependencies, which could cause deadlocks at runtime. Every
   `belt queue dependency add` is a process of its own, and check and insertion are statements
   without a transaction: two commands that both search before either inserts close a
   circle (`queue_dependency_race`). Its items wait for each other for ever and nothing reports it.
4. **Unanswered items.** The comment at `cron.rs:564` and v5 `datasource.md:277` expire
   what no human has answered. The job lists the rows and then writes each by its id: an
   answer in between is overwritten (`hitl_answered`).
5. **Cancel-safe.** `ipc.rs:56` says so of `recv`. It accepts a connection and then
   awaits its line; the interval of the loop may elapse in between and drop both, and
   the command was told that its signal arrived (`cron_signal`).

### Weaknesses seen without a run

They follow from a few lines each, and the models contain them as behaviour that no
property excludes.

- *Failing on_done.* v5 `queue-state-machine.md:163` leaves the item Failed. The code takes it
  out of the queue before the script runs (`daemon.rs:1622`) and puts it back in no case (`OnDone`): an
  item whose script fails is in no phase at all.
- *Reads that fail.* When the dependencies of an item cannot be read the gate is open
  (`advancer.rs:297`), and the item may execute beside the work it depends on. When the table of
  cron jobs cannot be read at the start, the daemon runs without custom jobs (`cron.rs:3078`) until a
  signal makes it look again.
- *Rows for humans.* The daemon does not read rows back, so an item answered with
  "retry" stays Pending. `hitl respond` with replan does not write the count back, the
  timeout job does. A second command path, `hitl show --interactive` (`main.rs:1960`), writes the same
  rows, but after a completion review not the status of the spec, as `hitl respond` does; it is
  `Respond` with a command that stops half-way.
  `hitl timeout set` without an action prints "skip (default)" and resolves to the
  terminal action of the workspace; its help offers "failed", which does not parse. A
  deadline that was set and has passed expires the row at once when `queue hitl`
  brings it back.
- *Specs with nobody asked.* The id of a completion review is fixed and rows are
  not deleted, so after a review that was skipped or timed out no second one is inserted and the
  spec stays completing (`cron.rs:1719`, `main.rs:4038`). So does a spec whose daemon
  dies between the status and the review (`cron.rs:1993`). An answer "retry" leaves an
  open row that keeps the spec from being reviewed again.
- *Specs that are looked at in vain.* An issue stored when the spec was decomposed keeps the spec active
  until it is closed, also after `spec unlink` (`cron.rs:1400`). Without source files nothing is reported
  of any spec (`cron.rs:1215`). The search for an issue by title finds that of another spec whose
  name begins alike, and then the gap is not reported (`cron.rs:1656`). A spec is active before its issues
  are created and linked (`main.rs:3280`): if it is covered, it may be reviewed in between.
- *Writes that race.* Status changes of specs are read-then-write in every process;
  a conflict's row has another source id ("spec:{id}") and is not seen by the job; a
  kill between creating and linking an issue leaves it unlinked; `spec update` says that it
  schedules gap detection (`main.rs:3530`) and does not.
- *Cron.* A trigger clears `last_run_at` only: it does not bypass the schedule, though
  `cron trigger` promises a run shortly. A run that ends after it writes the column again. A job that fails or is
  not recorded is armed by any signal. A change between loading and listening, or
  while a stale socket is left behind, is not seen until the next signal.
  `cron update` with a missing script has changed the schedule already and signals
  nothing. `force_trigger("evaluate")` never finds "ws:evaluate" (`cron.rs:274`).
  `sync_triggers_from_db` has no caller.
- *Worktrees* (not modelled). Handlers run in `worktrees/<workspace>`, shared by all
  parallel tasks of the workspace (`daemon.rs:588`); evaluation, on_done and the
  commands use `worktrees/<work_id>`, created anew and the only one that is cleaned, although
  v5 `queue-state-machine.md:195` cleans up after the item. Two first tasks race between
  the test for existence and `git worktree add` (`worktree.rs:277`). A kill between
  `worktree remove` and `branch -D` leaves a branch that fails every later create.
- *Stagnation* (not modelled). The failure is in the history before the detection
  reads it, so the current error counts twice. Personas that were tried are read
  from items that no longer carry them.

## 4. What is proved

`tlapm` on each module named `*Proofs`. The theorems hold for every value of the
constants that satisfies the named assumptions of the module.

For the daemon, from `ConstantsAssumption`, `LimitsAssumption` and `PolicyAssumption`, for
every finite set of work, all dependencies that may be declared, every policy, limit and threshold:

| Theorem | Statement |
|---|---|
| `TypeCorrect` | `Spec => []TypeOK` |
| `ExecutionStaysWithinTick` | `Spec => []ExecutionWithinTick` |
| `WorkStaysUnique` | `Spec => []UniqueWork` |
| `SlotsStayCovered` | `Spec => []SlotsCovered` |
| `ConcurrencyStaysBounded` | `Spec => []ConcurrencyBounded` |
| `DependentsStayExcluded` | `Spec => []DependencyExcluded` |
| `EvaluationsEscalate` | `Spec => []EvaluationThreshold` |
| `HumansKeepItems` | `Spec => HumanKeepsItem` |
| `RetriesStop` | `Spec => []RetriesEnd`, if no rule is at level 0 |
| `DaemonImplementsLifecycle` | `Spec => ImplementsLifecycle` |
| `NoSlotLeaks` | `Spec => []SlotsMatchExecuting`, if no task is lost |
| `LostSlotsAreAccounted` | `Spec => SlotsAccounted` |
| `SlotsAreUsed` | `Spec => WorkConserving` |
| `QueueKeepsItsOrder` | `Spec => NotOvertaken` |
| `HumansAreAskedWhenCounted` | `Spec => []HandedOverWhenCounted`, if `HistoryCap` is not 0 |

The argument. `ConcurrencyBounded` is not inductive: nothing in it relates the
work that executes to what the tracker counts. `SlotInv` is: `TypeOK`;
`ExecutionWithinTick`, so that a joined task is the only place of its work and
no Running item is left behind by a tick; `UniqueWork`, so that giving one slot
back goes with one work less in execution; and `SlotsCovered`, which says that
executing work never exceeds the workspace count, that the total is that count
plus the evaluation, and that both stay within their limits. The inequality is
what makes the proof cover lost tasks. Each step lemma has one step per action;
`SlotsKept`, `StartedOne` and `SlotReturned` carry the cardinality arguments, and a
section of lemmas says what appending, removing and mapping items does to the work
in the queue.

Two more invariants are inductive relative to `SlotInv`. `DependencyExcluded` needs
`DependencyInv`: within the second advance pass, the dependencies that the gate of a Running
item found are done or out of the queue, and none returns before the pass is over,
since the pass only moves items along. Afterwards no more work starts executing,
so the exclusion alone is kept. It speaks of what the gate found (`gate[w].awaits`): rows that are
added later, or that could not be read, hold nothing back, and the statement claims nothing about them. `EvaluationThreshold` needs `EvaluationInv`: the snapshot holds
Completed work only, which is what lets the evaluator's failure move each of its
items to Hitl by the table; and work at the threshold is already with a human, so
that by `UniqueWork` no task can bring it back as Completed. The same step lemma
(`EvaluationStep`) shows that the items of humans stay, which is `HumanKeepsItem`.

`RetriesEnd` follows from something stronger: work whose failures reached a level
from which every rule asks a human *is* with a human (`RetriesInv`). The
failure that reaches it resolves to the last rule reached (`LastReached`, by
well-foundedness of the naturals; `ResolveAtHitlLevel`), so the item is put
back as Hitl, and `EvaluationStep` says that it stays there. A rule at level 0 would
claim the item of work that has not failed yet, which is why the theorem excludes it.

The refinement gives the status of work by its item or its task (`Statuses`; without
`UniqueWork` the cases of `StatusOf` would overlap). Each action then has one lemma: it
is a step of `WorkLifecycle` (`ArriveStep`, `StartStep`, `FinishStep`, `HandOverStep`,
`CloseStep`, `ForgetStep`) or moves nothing (`SpawnKeeps`, `TaskEndsKeeps`). `StartStep` is where
the limit of the lifecycle is met, through `SlotsCovered`; `CloseStep` and the evaluator's
hand-over need `EvaluationInv`.

`LostSlotsAreAccounted` reuses these lemmas: what executes changes only in Start, Finish
and Forget, and there by one or to nothing. The tracker moves along with it, except
where a lost task is joined. That the saturating release takes one away, and not nothing, is
`SlotsCovered`: the joined task is in execution, so the counter is at least one.
`NoSlotLeaks` follows: without lost tasks (`NoTaskLost`: every handler configured, none
panics) the difference stays at zero.
`SlotsAreUsed` needs `PassedHeld`: what the pass left Ready behind its cursor was held at its gate.

`QueueKeepsItsOrder` is a matter of indexes: appending keeps them, a pass over the queue keeps
the work at each, and removing an item moves those behind it up (`RemoveOrder`). `UniqueWork` is
needed there, since a second item of the removed work further back would count as
overtaken. `HumansAreAskedWhenCounted` needs no strengthening, but three facts: counts only grow while the
process lives (`CountsGrowStep`); an action that is no retry and no skip comes from a rule
that was reached (`ResolvesToAskedRule`, with `LastReached`); and the failure just counted makes the recorded count
at least the one the rule was asked about (`AskedWhenCounted`), also where the counters
saturate. The last one is false for counters that saturate at 0, a bound no run uses.

For the other components:

| Theorem | Statement | Assumptions |
|---|---|---|
| `SearchMissesNothing` | `Spec => []SearchInv` | none |
| `CirclesTakeARace` | `Spec => []CirclesNeedARace` | none |
| `RefusalsHaveAPath` | `Spec => RefusedForAPath` | none |
| `ReplansStayBounded` | `Spec => []HitlInv` | `MaxReplanAssumption`, `TerminalAssumption`, `BoundsAssumption` |
| `QuestionsAreBounded` | `Spec => []CompanionsBounded` | the same |
| `NothingIsAskedAgainByItself` | `Spec => AskedAgainOnRequest` | the same |
| `OneIssuePerGap` | `LifecycleSpec => []LifecycleInv` | `IssueAssumption`, `ChildAssumption`, `OverlapAssumption`, `ReviewAssumption`, and those above |
| `LifecycleImplementsHitlStore` | `LifecycleSpec => ReviewsAreHitlRows` | the same |
| `ReviewsStayBounded` | `LifecycleSpec => []HitlInv` | the same |
| `ReviewsAreAskedOnRequest` | `LifecycleSpec => []CompanionsBounded /\ AskedAgainOnRequest` | the same |
| `JobsFollowTheTable` | `CronSpec => []CronInv` | `NameAssumption`, `ScheduleAssumption`, `CronBoundsAssumption`, `TimeAssumption` |
| `JobsStartOnce` | `CronSpec => OncePerMinute` | the same |
| `FieldsMatchWhatTheyName` | `CronSpec => []FieldsMeanWhatTheySay` | the same |

*Dependencies.* `CirclesNeedARace` is said without paths: every set of items has one that
waits for none of the set through rows that are not raced. An insertion that nobody
overtook keeps it (`InsertClosesNoCircle`): all rows of the table were there since its search began, so when
the search ends the visited nodes are closed under them and the work is not among them (`SearchCovers`);
the new row leads into a closed set that does not lead back (`EdgeIntoClosedSet`). A row that was
overtaken goes to `raced`, and removing rows opens circles, never closes one (`FewerRows`).
`SearchCovers` speaks of the rows that last, which is what makes it true for any number of
processes: rows that come while a search goes on may be missed.
`RefusedForAPath` is the other half: all a search has met can be reached through rows that were there
at some time since it began (`SeenWasReachable`, by `LeadsToStart`, `LeadsToNext` and, for rows that others
add meanwhile, `LeadsToGrows`). A path whose rows were never there together may refuse a command.

*Rows.* Between reading a count and inserting the companion anything may happen to the
row, so `ReplanTree` alone is not inductive. `CountsAhead` says that what a process or
the job has read stays at or beyond the numbers of its row: counts never fall, and the
id of a row never changes. `QuestionsAreBounded` follows from `ReplanTree` by counting: a rising
sequence of numbers up to `MaxReplan` is given by the set of its numbers
(`RisingIsItsNumbers`; the least number where two of them part), so the rows of one item
are no more than the subsets of `1..MaxReplan`. `NothingIsAskedAgainByItself` goes through
the statements: each either writes a row it has read, and then not to Hitl except in `queue hitl`,
or inserts, and insertions ignore an id that is there.

*Specs.* The rows of `SpecLifecycle` take only steps that `HitlStore` has, action by
action; so `HitlInv`, `CompanionsBounded` and `AskedAgainOnRequest` are inherited, not proved again. `OneOpenGapIssue` needs what the job
knew when it decided to create (`NoneSeenAtCreate`): no other step opens gap issues, and
the job is one.

*Cron.* `SyncedUnlessMissed` is inductive with the type and `BuiltinsStay`: every statement
is followed by a signal that is under way, handled or lost, `Sync` and `Load` make both
sides equal, and where the table could not be read `missed` says so until they do. `OncePerMinute` needs `StartsOnce`: a job that started in this minute and may not
start again is either running or remembered, with age zero in the engine and a set
`last_run_at` in the table, so that no sync forgets it; and a tick that has outlasted
its minute starts nothing for the new one. `FieldsMatchWhatTheyName` compares the division
`cron_part_matches` makes with a set of multiples (`PartMeaning`): a number is a multiple of the step
if and only if it is its quotient times the step (`MultipleOfStep`), and the
quotient of a number up to `max` is within the set that is counted through.

Model-checked only: the liveness properties (`WaitingStarts`, `CompletedIsJudged`, `HitlDrains`,
`GapIsReported`, `CoveredIsNoticed`, `JobsRecur`: fairness and ENABLED are out of the
prover's reach). Every invariant and every action property of a passing run is proved.

## 5. Not modelled

- *Operations no binary reaches*: `respond_hitl`, `retry_from_hitl`, `mark_*`, `push_item`, and
  through them rollback, forced failure and drain with work in execution; the hook
  cache; the evaluation pipeline and the pre-judgment from history;
  `sync_triggers_from_db`. They are tested alone and wired to nothing; a model of them would be of
  states the program is never in.
- *Worktrees*: what happens to directories does not return to the state of the daemon except
  as a failure of a task, which is modelled; its weaknesses are listed above.
- *Text*: how coverage of a spec is scored, how conflicts between specs and stagnation are found by
  similarity, prompts, reports, knowledge extraction, log cleanup. Their results are inputs where
  something depends on them.
- *I/O and rendering*: dashboard, status, chat sessions, bootstrap, onboarding, encryption,
  LLM and GitHub subprocesses, installers.
